-------------------------- MODULE ConversationPaths_proofs --------------------------
(***************************************************************************)
(* Proofs about ConversationPaths and PathResolution, for every bound and  *)
(* every number of turns and merges.                                       *)
(***************************************************************************)
EXTENDS PathResolution, FiniteSetTheorems, SequenceTheorems, WellFoundedInduction, TLAPS

(***************************************************************************)
(* Type correctness.                                                       *)
(***************************************************************************)

\* Setting one turn keeps the array of turns well typed.
LEMMA SetTurnType ==
    ASSUME TypeOK, NEW t \in Turns, NEW pc, NEW role, NEW path, NEW number,
           [pc |-> pc, role |-> role, path |-> path, number |-> number] \in Turn,
           SetTurn(t, pc, role, path, number)
    PROVE  turn' \in [Turns -> Turn]
  BY DEF TypeOK, SetTurn

\* An insert into conversation_messages keeps the table well typed.
LEMMA InsertMessageType ==
    ASSUME TypeOK, NEW m \in MessageIds, NEW p, NEW number, NEW from \in MessageIds \cup {0},
           InsertMessage(m, p, number, from)
    PROVE  msgs' \in [MessageIds -> Message]
<1>1. PICK n \in MessageIds :
        msgs' = [msgs EXCEPT ![m] = [state |-> "live", path |-> p, seq |-> n, from |-> from]]
  BY DEF InsertMessage
<1>2. [state |-> "live", path |-> p, seq |-> n, from |-> from] \in Message
  BY DEF InsertMessage, LivePath, Message
<1> QED  BY <1>1, <1>2 DEF TypeOK

\* An insert into conversation_paths keeps the table well typed.
LEMMA InsertPathType ==
    ASSUME TypeOK, NEW p \in PathIds, NEW parent \in PathIds \cup {0},
           NEW branch \in MessageIds \cup {0}, NEW primary \in BOOLEAN,
           InsertPath(p, parent, branch, primary)
    PROVE  paths' \in [PathIds -> Path]
<1>1. [NoPath EXCEPT !.state = "live", !.parent = parent, !.branch = branch,
                     !.primary = primary] \in Path
  BY DEF NoPath, Path
<1> QED  BY <1>1 DEF TypeOK, InsertPath

\* 0 is no id.
LEMMA NullIsNoId == 0 \notin PathIds /\ 0 \notin MessageIds
  BY DEF PathIds, MessageIds

\* Every step keeps TypeOK.
LEMMA TypeStep == TypeOK /\ [Next]_vars => TypeOK'
<1> SUFFICES ASSUME TypeOK, [Next]_vars PROVE TypeOK'
  OBVIOUS
<1> USE NullIsNoId
<1>1. CASE UNCHANGED vars
  BY <1>1 DEF TypeOK, vars
<1>2. ASSUME NEW t \in Turns, Address(t) PROVE TypeOK'
  <2>1. CASE active # 0
    <3>1. PICK n \in MessageIds \cup {0} : SetTurn(t, "insert", turn[t].role, active, n)
      BY <1>2, <2>1 DEF Address
    <3>2. [pc |-> "insert", role |-> turn[t].role, path |-> active, number |-> n] \in Turn
      BY DEF TypeOK, Turn
    <3>3. turn' \in [Turns -> Turn]
      BY <3>1, <3>2, SetTurnType
    <3> QED  BY <1>2, <3>3 DEF TypeOK, Address
  <2>2. CASE active = 0
    <3>1. SetTurn(t, "primary", turn[t].role, 0, 0)
      BY <1>2, <2>2 DEF Address
    <3>2. [pc |-> "primary", role |-> turn[t].role, path |-> 0, number |-> 0] \in Turn
      BY DEF TypeOK, Turn
    <3>3. turn' \in [Turns -> Turn]
      BY <3>1, <3>2, SetTurnType
    <3> QED  BY <1>2, <3>3 DEF TypeOK, Address
  <2> QED  BY <2>1, <2>2
<1>3. ASSUME NEW t \in Turns, Visit(t) PROVE TypeOK'
  <2>1. [pc |-> "primary", role |-> "visit", path |-> 0, number |-> 0] \in Turn
    BY DEF Turn
  <2>2. turn' \in [Turns -> Turn]
    BY <1>3, <2>1, SetTurnType DEF Visit
  <2> QED  BY <1>3, <2>2 DEF TypeOK, Visit
<1>4. ASSUME NEW t \in Turns, MakePrimary(t) PROVE TypeOK'
  <2>1. ASSUME NEW p \in PathIds, InsertPath(p, 0, 0, TRUE),
               SetTurn(t, "activate", turn[t].role, p, 0)
        PROVE  TypeOK'
    <3>1. [pc |-> "activate", role |-> turn[t].role, path |-> p, number |-> 0] \in Turn
      BY DEF TypeOK, Turn
    <3>2. turn' \in [Turns -> Turn]
      BY <2>1, <3>1, SetTurnType
    <3>3. paths' \in [PathIds -> Path]
      BY <2>1, InsertPathType
    <3> QED  BY <1>4, <3>2, <3>3 DEF TypeOK, MakePrimary
  <2>2. ASSUME SetTurn(t, IF turn[t].role = "visit" THEN "idle" ELSE "refused", "question", 0, 0),
               UNCHANGED paths
        PROVE  TypeOK'
    <3>1. [pc |-> IF turn[t].role = "visit" THEN "idle" ELSE "refused", role |-> "question",
           path |-> 0, number |-> 0] \in Turn
      BY DEF Turn
    <3>2. turn' \in [Turns -> Turn]
      BY <2>2, <3>1, SetTurnType
    <3> QED  BY <1>4, <2>2, <3>2 DEF TypeOK, MakePrimary
  <2> QED  BY <1>4, <2>1, <2>2 DEF MakePrimary
<1>5. ASSUME NEW t \in Turns, Activate(t) PROVE TypeOK'
  <2>1. active' \in PathIds \cup {0}
    BY <1>5 DEF TypeOK, Turn, Activate
  <2>2. CASE turn[t].role = "visit"
    <3>1. [pc |-> "idle", role |-> "question", path |-> 0, number |-> 0] \in Turn
      BY DEF Turn
    <3>2. turn' \in [Turns -> Turn]
      BY <1>5, <2>2, <3>1, SetTurnType DEF Activate
    <3> QED  BY <1>5, <2>1, <3>2 DEF TypeOK, Activate
  <2>3. CASE turn[t].role # "visit"
    <3>1. PICK n \in MessageIds \cup {0} :
            SetTurn(t, "insert", turn[t].role, turn[t].path, n)
      BY <1>5, <2>3 DEF Activate
    <3>2. [pc |-> "insert", role |-> turn[t].role, path |-> turn[t].path, number |-> n] \in Turn
      BY DEF TypeOK, Turn
    <3>3. turn' \in [Turns -> Turn]
      BY <3>1, <3>2, SetTurnType
    <3> QED  BY <1>5, <2>1, <3>3 DEF TypeOK, Activate
  <2> QED  BY <2>2, <2>3
<1>6. ASSUME NEW t \in Turns, Say(t) PROVE TypeOK'
  <2>1. turn' \in [Turns -> Turn]
    <3>1. [pc |-> "idle", role |-> "question", path |-> 0, number |-> 0] \in Turn
      BY DEF Turn
    <3>2. [pc |-> "idle", role |-> IF turn[t].role = "question" THEN "answer" ELSE "question",
           path |-> 0, number |-> 0] \in Turn
      BY DEF Turn
    <3> QED  BY <1>6, <3>1, <3>2, SetTurnType DEF Say
  <2>2. msgs' \in [MessageIds -> Message]
    <3>1. CASE \E m \in MessageIds : InsertMessage(m, turn[t].path, turn[t].number, 0)
      BY <3>1, InsertMessageType
    <3> QED  BY <1>6, <3>1 DEF Say, TypeOK
  <2> QED  BY <1>6, <2>1, <2>2 DEF TypeOK, Say
<1>7. ASSUME NEW t \in Turns, EndTurn(t) PROVE TypeOK'
  <2>1. IdleTurn \in Turn
    BY DEF IdleTurn, Turn
  <2> QED  BY <1>7, <2>1 DEF TypeOK, EndTurn
<1>8. ASSUME NEW m \in MessageIds, Branch(m) PROVE TypeOK'
  <2>1. msgs[m].path \in PathIds \cup {0}
    BY DEF TypeOK, Message
  <2>2. paths' \in [PathIds -> Path]
    BY <1>8, <2>1, InsertPathType DEF Branch
  <2> QED  BY <1>8, <2>2 DEF TypeOK, Branch
<1>9. ASSUME NEW p \in PathIds, SetActive(p) PROVE TypeOK'
  BY <1>9 DEF TypeOK, SetActive
<1>10. ASSUME NEW p \in PathIds, Delete(p) PROVE TypeOK'
  <2>1. msgs' \in [MessageIds -> Message]
    <3> SUFFICES ASSUME NEW m \in MessageIds PROVE msgs'[m] \in Message
      BY <1>10 DEF Delete
    <3>1. [state |-> "gone", path |-> 0, seq |-> msgs[m].seq, from |-> 0] \in Message
      BY DEF TypeOK, Message
    <3>2. msgs[m] \in Message
      BY DEF TypeOK
    <3> QED  BY <1>10, <3>1, <3>2 DEF Delete
  <2>2. paths' \in [PathIds -> Path]
    <3> SUFFICES ASSUME NEW q \in PathIds PROVE paths'[q] \in Path
      BY <1>10 DEF Delete
    <3>1. paths[q] \in Path
      BY DEF TypeOK
    <3>2. CASE q = p
      BY <1>10, <3>2 DEF Delete, NoPath, Path
    <3>3. CASE q # p
      BY <1>10, <3>1, <3>3 DEF Delete, Path
    <3> QED  BY <3>2, <3>3
  <2> QED  BY <1>10, <2>1, <2>2 DEF TypeOK, Delete
<1>11. ASSUME NEW g \in Mergers, NEW s \in PathIds, NEW t \in PathIds, NEW mode \in Modes,
              StartMerge(g, s, t, mode)
       PROVE  TypeOK'
  <2>1. PICK picked \in Picks(mode, s), n \in MessageIds \cup {0} :
          merge' = [merge EXCEPT ![g] =
                       [busy |-> TRUE, mode |-> mode, source |-> s, target |-> t,
                        picked |-> picked, todo |-> picked, summary |-> 0, number |-> n]]
    BY <1>11 DEF StartMerge
  <2>2. picked \in SUBSET MessageIds
    BY DEF Picks, Own
  <2>3. mode \in {"full", "selective", "summary"}
    BY ConversationAssumption
  <2>4. [busy |-> TRUE, mode |-> mode, source |-> s, target |-> t, picked |-> picked,
         todo |-> picked, summary |-> 0, number |-> n] \in Merge
    BY <2>2, <2>3 DEF Merge
  <2> QED  BY <1>11, <2>1, <2>4 DEF TypeOK, StartMerge
<1>12. ASSUME NEW g \in Mergers, Summarise(g) PROVE TypeOK'
  <2>1. PICK m \in MessageIds : /\ InsertMessage(m, merge[g].target, merge[g].number, 0)
                                /\ merge' = [merge EXCEPT ![g].summary = m]
    BY <1>12 DEF Summarise
  <2>2. msgs' \in [MessageIds -> Message]
    BY <2>1, InsertMessageType
  <2>3. merge' \in [Mergers -> Merge]
    BY <2>1 DEF TypeOK, Merge
  <2> QED  BY <1>12, <2>2, <2>3 DEF TypeOK, Summarise
<1>13. ASSUME NEW g \in Mergers, Copy(g) PROVE TypeOK'
  <2>1. PICK o \in merge[g].todo, m \in MessageIds, n \in MessageIds \cup {0} :
          /\ InsertMessage(m, merge[g].target, merge[g].number, o)
          /\ merge' = [merge EXCEPT ![g].todo = merge[g].todo \ {o}, ![g].number = n]
    BY <1>13 DEF Copy
  <2>2. o \in MessageIds
    BY DEF TypeOK, Merge
  <2>3. msgs' \in [MessageIds -> Message]
    BY <2>1, <2>2, InsertMessageType
  <2>4. merge' \in [Mergers -> Merge]
    <3>1. merge[g] \in Merge
      BY DEF TypeOK
    <3>2. [merge[g] EXCEPT !.todo = merge[g].todo \ {o}, !.number = n] \in Merge
      BY <3>1 DEF Merge
    <3>3. merge' = [merge EXCEPT ![g] = [merge[g] EXCEPT !.todo = merge[g].todo \ {o},
                                                         !.number = n]]
      BY <2>1 DEF TypeOK
    <3> QED  BY <3>2, <3>3 DEF TypeOK
  <2> QED  BY <1>13, <2>3, <2>4 DEF TypeOK, Copy
<1>14. ASSUME NEW g \in Mergers, Mark(g) PROVE TypeOK'
  <2> DEFINE s == merge[g].source
  <2>1. s \in PathIds
    BY <1>14 DEF Mark, LivePath
  <2>2. merge[g] \in Merge /\ paths[s] \in Path
    BY <2>1 DEF TypeOK
  <2>3. [state |-> "live", parent |-> paths[s].parent, branch |-> paths[s].branch,
         primary |-> paths[s].primary, mergedTo |-> merge[g].target,
         mode |-> merge[g].mode, summary |-> merge[g].summary] \in Path
    BY <2>2 DEF Path, Merge
  <2>4. paths' \in [PathIds -> Path]
    BY <1>14, <2>1, <2>3 DEF TypeOK, Mark, MarkRow
  <2>5. merged' \in [PathIds -> SUBSET MessageIds]
    BY <1>14, <2>1, <2>2 DEF TypeOK, Mark, MarkRow, Merge
  <2>6. merge' \in [Mergers -> Merge]
    BY <1>14 DEF TypeOK, Mark, MarkRow, EndMerge, IdleMerge, Merge
  <2> QED  BY <1>14, <2>4, <2>5, <2>6 DEF TypeOK, Mark, MarkRow
<1>15. ASSUME NEW g \in Mergers, FailMerge(g) PROVE TypeOK'
  BY <1>15 DEF TypeOK, FailMerge, EndMerge, IdleMerge, Merge
<1> QED  BY <1>1, <1>2, <1>3, <1>4, <1>5, <1>6, <1>7, <1>8, <1>9, <1>10, <1>11, <1>12, <1>13,
            <1>14, <1>15 DEF Next

\* TypeOK holds of a conversation without paths.
LEMMA TypeInit == Init => TypeOK
  BY DEF Init, TypeOK, NoPath, Path, NoMessage, Message, IdleTurn, Turn, IdleMerge, Merge

\* The tables, the active path and every request under way stay well formed.
THEOREM TypeCorrect == Spec => []TypeOK
  BY TypeInit, TypeStep, PTL DEF Spec

(***************************************************************************)
(* The steps of Next as seen by the two tables: there are five kinds.      *)
(***************************************************************************)

\* Without overlap no insert works with a number taken early.
Numbered ==
    ~Overlap => /\ \A t \in Turns : turn[t].number = 0
                /\ \A g \in Mergers : merge[g].number = 0

\* The path a new row hangs off is the path of its branch point.
Hangs(parent, branch) ==
    \/ parent = 0 /\ branch = 0
    \/ branch \in MessageIds /\ msgs[branch].state = "live" /\ parent = msgs[branch].path

\* A step leaves both tables alone, inserts one message, inserts one path that is a root
\* or hangs off its branch point, deletes one path, or marks one.
LEMMA TableSteps ==
    ASSUME TypeOK, Numbered, [Next]_vars
    PROVE  \/ UNCHANGED <<paths, msgs>>
           \/ /\ \E m \in MessageIds, p \in PathIds, number \in MessageIds \cup {0},
                    from \in MessageIds \cup {0} :
                    (~Overlap => number = 0) /\ InsertMessage(m, p, number, from)
              /\ UNCHANGED paths
           \/ /\ \E p \in PathIds, parent \in PathIds \cup {0}, branch \in MessageIds \cup {0},
                    primary \in BOOLEAN :
                    Hangs(parent, branch) /\ InsertPath(p, parent, branch, primary)
              /\ UNCHANGED msgs
           \/ \E p \in PathIds : Delete(p)
           \/ \E g \in Mergers : Mark(g)
<1>1. CASE UNCHANGED vars
  BY <1>1 DEF vars
<1>2. ASSUME NEW t \in Turns, Address(t) \/ Visit(t) \/ Activate(t) \/ EndTurn(t)
      PROVE  UNCHANGED <<paths, msgs>>
  BY <1>2 DEF Address, Visit, Activate, EndTurn
<1>3. ASSUME NEW t \in Turns, MakePrimary(t)
      PROVE  \/ UNCHANGED <<paths, msgs>>
             \/ /\ \E p \in PathIds : Hangs(0, 0) /\ InsertPath(p, 0, 0, TRUE)
                /\ UNCHANGED msgs
  BY <1>3 DEF MakePrimary, Hangs
<1>4. ASSUME NEW t \in Turns, Say(t)
      PROVE  \/ UNCHANGED <<paths, msgs>>
             \/ /\ \E m \in MessageIds, p \in PathIds, number \in MessageIds \cup {0},
                      from \in MessageIds \cup {0} :
                      (~Overlap => number = 0) /\ InsertMessage(m, p, number, from)
                /\ UNCHANGED paths
  <2>1. CASE \E m \in MessageIds : InsertMessage(m, turn[t].path, turn[t].number, 0)
    <3>1. turn[t].number \in MessageIds \cup {0} /\ (~Overlap => turn[t].number = 0)
      BY DEF TypeOK, Turn, Numbered
    <3>2. turn[t].path \in PathIds
      BY <2>1 DEF InsertMessage, LivePath
    <3> QED  BY <1>4, <2>1, <3>1, <3>2 DEF Say
  <2> QED  BY <1>4, <2>1 DEF Say
<1>5. ASSUME NEW m \in MessageIds, Branch(m)
      PROVE  /\ \E p \in PathIds : Hangs(msgs[m].path, m) /\ InsertPath(p, msgs[m].path, m, FALSE)
             /\ msgs[m].path \in PathIds \cup {0}
             /\ UNCHANGED msgs
  BY <1>5 DEF Branch, Hangs, LiveMessage, TypeOK, Message
<1>6. ASSUME NEW p \in PathIds, SetActive(p) PROVE UNCHANGED <<paths, msgs>>
  BY <1>6 DEF SetActive
<1>7. ASSUME NEW g \in Mergers, NEW s \in PathIds, NEW t \in PathIds, NEW mode \in Modes,
             StartMerge(g, s, t, mode)
      PROVE  UNCHANGED <<paths, msgs>>
  BY <1>7 DEF StartMerge
<1>8. ASSUME NEW g \in Mergers, Summarise(g) \/ Copy(g)
      PROVE  /\ \E m \in MessageIds, p \in PathIds, number \in MessageIds \cup {0},
                   from \in MessageIds \cup {0} :
                   (~Overlap => number = 0) /\ InsertMessage(m, p, number, from)
             /\ UNCHANGED paths
  <2>1. PICK m \in MessageIds, from \in MessageIds \cup {0} :
          InsertMessage(m, merge[g].target, merge[g].number, from)
    <3>1. CASE Summarise(g)
      BY <3>1 DEF Summarise
    <3>2. CASE Copy(g)
      <4>1. merge[g] \in Merge
        BY DEF TypeOK
      <4>2. merge[g].todo \subseteq MessageIds
        BY <4>1 DEF Merge
      <4> QED  BY <3>2, <4>2 DEF Copy
    <3> QED  BY <1>8, <3>1, <3>2
  <2>2. merge[g].number \in MessageIds \cup {0} /\ (~Overlap => merge[g].number = 0)
    <3>1. merge[g] \in Merge
      BY DEF TypeOK
    <3> QED  BY <3>1 DEF Merge, Numbered
  <2>3. merge[g].target \in PathIds
    BY <2>1 DEF InsertMessage, LivePath
  <2>4. UNCHANGED paths
    BY <1>8 DEF Summarise, Copy
  <2> QED  BY <2>1, <2>2, <2>3, <2>4
<1>9. ASSUME NEW g \in Mergers, FailMerge(g) PROVE UNCHANGED <<paths, msgs>>
  BY <1>9 DEF FailMerge
<1> QED
  <2>1. CASE \E t \in Turns : Address(t) \/ Visit(t) \/ Activate(t) \/ EndTurn(t)
    BY <2>1, <1>2
  <2>2. CASE \E t \in Turns : MakePrimary(t)
    BY <2>2, <1>3
  <2>3. CASE \E t \in Turns : Say(t)
    BY <2>3, <1>4
  <2>4. CASE \E m \in MessageIds : Branch(m)
    BY <2>4, <1>5
  <2>5. CASE \E p \in PathIds : SetActive(p)
    BY <2>5, <1>6
  <2>6. CASE \E g \in Mergers, s, t \in PathIds, mode \in Modes : StartMerge(g, s, t, mode)
    BY <2>6, <1>7
  <2>7. CASE \E g \in Mergers : Summarise(g) \/ Copy(g)
    BY <2>7, <1>8
  <2>8. CASE \E g \in Mergers : FailMerge(g)
    BY <2>8, <1>9
  <2> QED  BY <1>1, <2>1, <2>2, <2>3, <2>4, <2>5, <2>6, <2>7, <2>8 DEF Next

\* What an insert into conversation_messages does to the messages of every path.
LEMMA InsertMessageEffect ==
    ASSUME TypeOK, NEW m \in MessageIds, NEW p \in PathIds, NEW number, NEW from,
           InsertMessage(m, p, number, from)
    PROVE  /\ msgs[m].state = "none"
           /\ LivePath(p)
           /\ msgs'[m].state = "live" /\ msgs'[m].path = p /\ msgs'[m].from = from
           /\ \A k \in MessageIds \ {m} : msgs'[k] = msgs[k]
           /\ Own(p)' = Own(p) \cup {m}
           /\ \A q \in PathIds \ {p} : Own(q)' = Own(q)
<1>1. PICK n \in MessageIds :
        msgs' = [msgs EXCEPT ![m] = [state |-> "live", path |-> p, seq |-> n, from |-> from]]
  BY DEF InsertMessage
<1>2. msgs[m].state = "none" /\ LivePath(p)
  BY DEF InsertMessage, FreshMessage
<1>3. msgs'[m].state = "live" /\ msgs'[m].path = p /\ msgs'[m].from = from
  BY <1>1 DEF TypeOK
<1>4. \A k \in MessageIds \ {m} : msgs'[k] = msgs[k]
  BY <1>1 DEF TypeOK
<1> QED  BY <1>2, <1>3, <1>4 DEF Own

\* What a new row of conversation_paths is, and that no other row changes.
LEMMA InsertPathEffect ==
    ASSUME TypeOK, NEW p \in PathIds, NEW parent, NEW branch, NEW primary,
           InsertPath(p, parent, branch, primary)
    PROVE  /\ paths[p].state = "none"
           /\ paths'[p].state = "live" /\ paths'[p].mergedTo = 0
           /\ paths'[p].parent = parent /\ paths'[p].branch = branch
           /\ paths'[p].primary = primary
           /\ \A q \in PathIds \ {p} : paths'[q] = paths[q]
<1>1. paths' = [paths EXCEPT ![p] = [NoPath EXCEPT !.state = "live", !.parent = parent,
                                                   !.branch = branch, !.primary = primary]]
  BY DEF InsertPath
<1>2. paths'[p] = [NoPath EXCEPT !.state = "live", !.parent = parent,
                                 !.branch = branch, !.primary = primary]
  BY <1>1 DEF TypeOK
<1>3. /\ paths'[p].state = "live" /\ paths'[p].mergedTo = 0
      /\ paths'[p].parent = parent /\ paths'[p].branch = branch
      /\ paths'[p].primary = primary
  BY <1>2 DEF NoPath
<1>4. \A q \in PathIds \ {p} : paths'[q] = paths[q]
  BY <1>1 DEF TypeOK
<1> QED  BY <1>3, <1>4 DEF InsertPath, FreshPath

\* What a deletion leaves of the other paths and of the messages.
LEMMA DeleteEffect ==
    ASSUME TypeOK, NEW p \in PathIds, Delete(p)
    PROVE  /\ paths'[p].state = "gone"
           /\ \A q \in PathIds \ {p} :
                /\ paths'[q].state = paths[q].state
                /\ paths'[q].primary = paths[q].primary
                /\ paths'[q].mode = paths[q].mode
                /\ paths'[q].parent = IF paths[q].parent = p THEN 0 ELSE paths[q].parent
                /\ paths'[q].branch = IF paths[q].branch \in Own(p) THEN 0 ELSE paths[q].branch
                /\ paths'[q].mergedTo = IF paths[q].mergedTo = p THEN 0 ELSE paths[q].mergedTo
                /\ paths'[q].summary = IF paths[q].summary \in Own(p) THEN 0 ELSE paths[q].summary
                /\ Own(q)' = Own(q)
           /\ \A m \in Own(p) : msgs'[m].state = "gone"
           /\ \A m \in MessageIds : m \notin Own(p) => msgs'[m] = msgs[m]
           /\ merge' = merge /\ merged' = merged
<1>1. /\ \A m \in Own(p) : msgs'[m].state = "gone"
      /\ \A m \in MessageIds : m \notin Own(p) => msgs'[m] = msgs[m]
  BY DEF Delete, Own
<1>2. \A q \in PathIds \ {p} : Own(q)' = Own(q)
  BY <1>1 DEF Own
<1>3. paths'[p].state = "gone"
  BY DEF Delete, NoPath
<1>4. \A q \in PathIds \ {p} :
        /\ paths'[q].state = paths[q].state
        /\ paths'[q].primary = paths[q].primary
        /\ paths'[q].mode = paths[q].mode
        /\ paths'[q].parent = IF paths[q].parent = p THEN 0 ELSE paths[q].parent
        /\ paths'[q].branch = IF paths[q].branch \in Own(p) THEN 0 ELSE paths[q].branch
        /\ paths'[q].mergedTo = IF paths[q].mergedTo = p THEN 0 ELSE paths[q].mergedTo
        /\ paths'[q].summary = IF paths[q].summary \in Own(p) THEN 0 ELSE paths[q].summary
  BY DEF Delete
<1>5. merge' = merge /\ merged' = merged
  BY DEF Delete
<1> QED  BY <1>1, <1>2, <1>3, <1>4, <1>5

\* A mark changes the merge columns of one live row, and no message.
LEMMA MarkEffect ==
    ASSUME TypeOK, NEW g \in Mergers, Mark(g)
    PROVE  /\ merge[g].busy /\ merge[g].todo = {}
           /\ merge[g].mode = "summary" => merge[g].summary # 0
           /\ LivePath(merge[g].source) /\ LivePath(merge[g].target)
           /\ \A q \in PathIds : /\ paths'[q].state = paths[q].state
                                 /\ paths'[q].parent = paths[q].parent
                                 /\ paths'[q].branch = paths[q].branch
                                 /\ paths'[q].primary = paths[q].primary
           /\ \A q \in PathIds :
                IF q = merge[g].source
                  THEN /\ paths'[q].mergedTo = merge[g].target
                       /\ paths'[q].mode = merge[g].mode
                       /\ paths'[q].summary = merge[g].summary
                       /\ merged'[q] = merge[g].picked
                  ELSE paths'[q] = paths[q] /\ merged'[q] = merged[q]
           /\ msgs' = msgs
           /\ merge' = [merge EXCEPT ![g] = IdleMerge]
<1> DEFINE s == merge[g].source
<1>1. MarkRow(g, s) /\ s \in PathIds /\ paths[s].state = "live"
  BY DEF Mark, LivePath
<1>2. /\ paths'[s] = [state |-> "live", parent |-> paths[s].parent,
                      branch |-> paths[s].branch, primary |-> paths[s].primary,
                      mergedTo |-> merge[g].target, mode |-> merge[g].mode,
                      summary |-> merge[g].summary]
      /\ merged'[s] = merge[g].picked
      /\ \A q \in PathIds \ {s} : paths'[q] = paths[q] /\ merged'[q] = merged[q]
  BY <1>1 DEF MarkRow, TypeOK
<1>3. msgs' = msgs /\ merge' = [merge EXCEPT ![g] = IdleMerge]
  BY <1>1 DEF MarkRow, EndMerge
<1>4. /\ merge[g].busy /\ merge[g].todo = {}
      /\ merge[g].mode = "summary" => merge[g].summary # 0
      /\ LivePath(merge[g].source) /\ LivePath(merge[g].target)
  BY DEF Mark
<1>5. \A q \in PathIds : /\ paths'[q].state = paths[q].state
                         /\ paths'[q].parent = paths[q].parent
                         /\ paths'[q].branch = paths[q].branch
                         /\ paths'[q].primary = paths[q].primary
  BY <1>1, <1>2
<1> QED  BY <1>2, <1>3, <1>4, <1>5

(***************************************************************************)
(* The inductive invariant.                                                *)
(***************************************************************************)

\* A live message is in a live path: the foreign key with its cascade.
Homes == \A m \in MessageIds : LiveMessage(m) => LivePath(msgs[m].path)

\* Message ids are handed out in order.
Handed ==
    \A m, k \in MessageIds : m < k /\ msgs[k].state # "none" => msgs[m].state # "none"

\* Path t holds message m, and a copy of message o.
Holds(t, m) == m \in MessageIds /\ msgs[m].state = "live" /\ msgs[m].path = t

Copied(t, o) == \E m \in MessageIds : Holds(t, m) /\ msgs[m].from = o

\* What a merge under way has inserted is in its target, as long as that exists; the
\* target was created before, so that it never comes back.
InTarget(g) ==
    merge[g].busy =>
        /\ merge[g].target \in PathIds
        /\ paths[merge[g].target].state # "none"
        /\ paths[merge[g].target].state = "live" =>
             /\ \A o \in merge[g].picked \ merge[g].todo : Copied(merge[g].target, o)
             /\ merge[g].summary # 0 => Holds(merge[g].target, merge[g].summary)

\* One row of MergedMeansCopied, with the foreign key of merged_to_path_id.
Marked(s) ==
    paths[s].state = "live" /\ paths[s].mergedTo # 0 =>
        /\ LivePath(paths[s].mergedTo)
        /\ \A o \in merged[s] : Copied(paths[s].mergedTo, o)
        /\ paths[s].mode = "summary" => Holds(paths[s].mergedTo, paths[s].summary)

IInv ==
    /\ TypeOK /\ Numbered /\ Homes /\ Handed
    /\ BranchPointInParent
    /\ \A g \in Mergers : InTarget(g)
    /\ \A s \in PathIds : Marked(s)
    /\ ~Overlap => Sequential

\* Without overlap no step takes a number early.
LEMMA NumberedStep == TypeOK /\ Numbered /\ [Next]_vars => Numbered'
<1> SUFFICES ASSUME TypeOK, Numbered, [Next]_vars, ~Overlap
             PROVE  /\ \A t \in Turns : turn'[t].number = 0
                    /\ \A g \in Mergers : merge'[g].number = 0
  BY DEF Numbered
<1>0. /\ \A t \in Turns : turn[t].number = 0
      /\ \A g \in Mergers : merge[g].number = 0
  BY DEF Numbered
<1>1. CASE UNCHANGED vars
  BY <1>0, <1>1 DEF vars
<1>2. ASSUME NEW t \in Turns,
             \/ Address(t) \/ Visit(t) \/ MakePrimary(t) \/ Activate(t) \/ Say(t) \/ EndTurn(t)
      PROVE  \A u \in Turns : turn'[u].number = 0
  <2>1. CASE Address(t) \/ Activate(t)
    BY <1>0, <2>1 DEF Address, Activate, SetTurn, EarlyNumber, TypeOK
  <2>2. CASE Visit(t) \/ MakePrimary(t) \/ Say(t) \/ EndTurn(t)
    <3>1. PICK pc, role, path : SetTurn(t, pc, role, path, 0)
      BY <2>2 DEF Visit, MakePrimary, Say, EndTurn, IdleTurn, SetTurn
    <3> QED  BY <1>0, <3>1 DEF SetTurn, TypeOK
  <2> QED  BY <1>2, <2>1, <2>2
<1>3. ASSUME NEW t \in Turns,
             \/ Address(t) \/ Visit(t) \/ MakePrimary(t) \/ Activate(t) \/ Say(t) \/ EndTurn(t)
      PROVE  merge' = merge
  BY <1>3 DEF Address, Visit, MakePrimary, Activate, Say, EndTurn
<1>4. ASSUME NEW m \in MessageIds, Branch(m) PROVE turn' = turn /\ merge' = merge
  BY <1>4 DEF Branch
<1>5. ASSUME NEW p \in PathIds, SetActive(p) \/ Delete(p) PROVE turn' = turn /\ merge' = merge
  BY <1>5 DEF SetActive, Delete
<1>6. ASSUME NEW g \in Mergers, NEW s \in PathIds, NEW t \in PathIds, NEW mode \in Modes,
             StartMerge(g, s, t, mode)
      PROVE  turn' = turn /\ \A h \in Mergers : merge'[h].number = 0
  BY <1>0, <1>6 DEF StartMerge, EarlyNumber, TypeOK
<1>7. ASSUME NEW g \in Mergers, Summarise(g)
      PROVE  turn' = turn /\ \A h \in Mergers : merge'[h].number = 0
  <2>1. PICK m \in MessageIds : merge' = [merge EXCEPT ![g].summary = m]
    BY <1>7 DEF Summarise
  <2>2. merge[g] \in Merge
    BY DEF TypeOK
  <2>3. merge'[g].number = merge[g].number
    BY <2>1, <2>2 DEF TypeOK, Merge
  <2> QED  BY <1>0, <1>7, <2>1, <2>3 DEF Summarise, TypeOK
<1>8. ASSUME NEW g \in Mergers, Copy(g)
      PROVE  turn' = turn /\ \A h \in Mergers : merge'[h].number = 0
  <2>1. PICK o \in merge[g].todo, n \in MessageIds \cup {0} :
          /\ EarlyNumber(merge[g].target, n)'
          /\ merge' = [merge EXCEPT ![g].todo = merge[g].todo \ {o}, ![g].number = n]
    BY <1>8 DEF Copy
  <2>2. n = 0
    BY <2>1 DEF EarlyNumber
  <2>3. merge' = [merge EXCEPT ![g] = [merge[g] EXCEPT !.todo = merge[g].todo \ {o},
                                                       !.number = n]]
    BY <2>1 DEF TypeOK
  <2>4. merge[g] \in Merge
    BY DEF TypeOK
  <2>5. [merge[g] EXCEPT !.todo = merge[g].todo \ {o}, !.number = n].number = n
    BY <2>4 DEF Merge
  <2> QED  BY <1>0, <1>8, <2>2, <2>3, <2>5 DEF Copy, TypeOK
<1>9. ASSUME NEW g \in Mergers, Mark(g) \/ FailMerge(g)
      PROVE  turn' = turn /\ \A h \in Mergers : merge'[h].number = 0
  BY <1>0, <1>9 DEF Mark, MarkRow, FailMerge, EndMerge, IdleMerge, TypeOK
<1> QED  BY <1>0, <1>1, <1>2, <1>3, <1>4, <1>5, <1>6, <1>7, <1>8, <1>9 DEF Next

\* No step leaves a live message without its path.
LEMMA HomesStep == TypeOK /\ Numbered /\ Homes /\ [Next]_vars => Homes'
<1> SUFFICES ASSUME TypeOK, Numbered, Homes, [Next]_vars,
                    NEW m \in MessageIds, msgs'[m].state = "live"
             PROVE  msgs'[m].path \in PathIds /\ paths'[msgs'[m].path].state = "live"
  BY DEF Homes, LiveMessage, LivePath
<1>0. msgs[m].state = "live" => msgs[m].path \in PathIds /\ paths[msgs[m].path].state = "live"
  BY DEF Homes, LiveMessage, LivePath
<1>1. CASE UNCHANGED <<paths, msgs>>
  BY <1>0, <1>1
<1>2. ASSUME NEW k \in MessageIds, NEW p \in PathIds, NEW number, NEW from,
             InsertMessage(k, p, number, from), UNCHANGED paths
      PROVE  msgs'[m].path \in PathIds /\ paths'[msgs'[m].path].state = "live"
  BY <1>0, <1>2, InsertMessageEffect DEF LivePath
<1>3. ASSUME NEW p \in PathIds, NEW parent, NEW branch, NEW primary,
             InsertPath(p, parent, branch, primary), UNCHANGED msgs
      PROVE  msgs'[m].path \in PathIds /\ paths'[msgs'[m].path].state = "live"
  BY <1>0, <1>3, InsertPathEffect
<1>4. ASSUME NEW p \in PathIds, Delete(p)
      PROVE  msgs'[m].path \in PathIds /\ paths'[msgs'[m].path].state = "live"
  <2>1. m \notin Own(p) /\ msgs'[m] = msgs[m]
    BY <1>4, DeleteEffect
  <2>2. msgs[m].path \in PathIds \ {p}
    BY <1>0, <2>1 DEF Own
  <2> QED  BY <1>0, <1>4, <2>1, <2>2, DeleteEffect
<1>5. ASSUME NEW g \in Mergers, Mark(g)
      PROVE  msgs'[m].path \in PathIds /\ paths'[msgs'[m].path].state = "live"
  BY <1>0, <1>5, MarkEffect DEF LivePath
<1> QED  BY <1>1, <1>2, <1>3, <1>4, <1>5, TableSteps

\* One row of BranchPointInParent.
Hung(q) ==
    paths[q].state = "live" =>
        /\ paths[q].parent # 0 <=> paths[q].branch # 0
        /\ paths[q].branch # 0 =>
             /\ paths[q].parent \in PathIds /\ paths[paths[q].parent].state = "live"
             /\ paths[q].branch \in MessageIds /\ msgs[paths[q].branch].state = "live"
             /\ msgs[paths[q].branch].path = paths[q].parent

\* BranchPointInParent, row by row.
LEMMA AllHung == BranchPointInParent <=> \A q \in PathIds : Hung(q)
  BY DEF BranchPointInParent, Hung, LivePath, Own

\* Every step keeps BranchPointInParent: a deletion clears parent and branch point together,
\* since the branch point lies in the parent.
LEMMA BranchStep ==
    TypeOK /\ Numbered /\ Homes /\ BranchPointInParent /\ [Next]_vars => BranchPointInParent'
<1> SUFFICES ASSUME TypeOK, Numbered, Homes, BranchPointInParent, [Next]_vars,
                    NEW q \in PathIds
             PROVE  Hung(q)'
  BY AllHung DEF BranchPointInParent, LivePath, Own, Hung
<1>0. Hung(q)
  BY AllHung
<1>1. CASE UNCHANGED <<paths, msgs>>
  BY <1>0, <1>1 DEF Hung
<1>2. ASSUME NEW k \in MessageIds, NEW p \in PathIds, NEW number, NEW from,
             InsertMessage(k, p, number, from), UNCHANGED paths
      PROVE  Hung(q)'
  BY <1>0, <1>2, InsertMessageEffect DEF Hung
<1>3. ASSUME NEW p \in PathIds, NEW parent, NEW branch, NEW primary, Hangs(parent, branch),
             InsertPath(p, parent, branch, primary), UNCHANGED msgs
      PROVE  Hung(q)'
  <2>1. \A r \in PathIds : paths[r].state = "live" => paths'[r].state = "live"
    BY <1>3, InsertPathEffect
  <2>2. CASE q = p
    <3>1. paths'[q].parent = parent /\ paths'[q].branch = branch
      BY <1>3, <2>2, InsertPathEffect
    <3>2. CASE parent = 0 /\ branch = 0
      BY <3>1, <3>2 DEF Hung
    <3>3. CASE branch \in MessageIds /\ msgs[branch].state = "live" /\ parent = msgs[branch].path
      <4>1. parent \in PathIds /\ paths[parent].state = "live"
        BY <3>3 DEF Homes, LiveMessage, LivePath
      <4> QED  BY <3>1, <3>3, <4>1, <1>3, <2>1, NullIsNoId DEF Hung
    <3> QED  BY <1>3, <3>2, <3>3 DEF Hangs
  <2>3. CASE q # p
    BY <1>0, <1>3, <2>1, <2>3, InsertPathEffect DEF Hung
  <2> QED  BY <2>2, <2>3
<1>4. ASSUME NEW p \in PathIds, Delete(p), paths'[q].state = "live" PROVE Hung(q)'
  <2>1. q # p /\ paths[q].state = "live"
    BY <1>4, DeleteEffect
  <2>2. /\ paths'[q].parent = IF paths[q].parent = p THEN 0 ELSE paths[q].parent
        /\ paths'[q].branch = IF paths[q].branch \in Own(p) THEN 0 ELSE paths[q].branch
    BY <1>4, <2>1, DeleteEffect
  <2>3. CASE paths[q].branch = 0
    BY <1>0, <2>1, <2>2, <2>3 DEF Hung
  <2>4. CASE paths[q].branch # 0 /\ paths[q].parent = p
    <3>1. paths[q].branch \in Own(p)
      BY <1>0, <2>1, <2>4 DEF Hung, Own
    <3> QED  BY <2>2, <2>4, <3>1 DEF Hung
  <2>5. CASE paths[q].branch # 0 /\ paths[q].parent # p
    <3>1. paths[q].branch \in MessageIds /\ paths[q].branch \notin Own(p)
      BY <1>0, <2>1, <2>5 DEF Own, Hung
    <3>2. paths'[q].parent = paths[q].parent /\ paths'[q].branch = paths[q].branch
      BY <2>2, <2>5, <3>1
    <3>3. paths[q].parent \in PathIds \ {p}
      BY <1>0, <2>1, <2>5 DEF Hung
    <3>4. /\ paths'[paths[q].parent].state = paths[paths[q].parent].state
          /\ msgs'[paths[q].branch] = msgs[paths[q].branch]
      BY <1>4, <3>1, <3>3, DeleteEffect
    <3> QED  BY <1>0, <2>1, <3>1, <3>2, <3>3, <3>4 DEF Hung
  <2> QED  BY <2>3, <2>4, <2>5
<1>5. ASSUME NEW g \in Mergers, Mark(g) PROVE Hung(q)'
  BY <1>0, <1>5, MarkEffect DEF Hung
<1> QED
  <2>1. CASE paths'[q].state # "live"
    BY <2>1 DEF Hung
  <2> QED  BY <1>1, <1>2, <1>3, <1>4, <1>5, <2>1, TableSteps

\* Every step keeps the order in which message ids are handed out.
LEMMA HandedStep == TypeOK /\ Numbered /\ Handed /\ [Next]_vars => Handed'
<1> SUFFICES ASSUME TypeOK, Numbered, Handed, [Next]_vars PROVE Handed'
  OBVIOUS
<1>1. CASE UNCHANGED msgs
  BY <1>1 DEF Handed
<1>2. ASSUME NEW m \in MessageIds, NEW p \in PathIds, NEW number, NEW from,
             InsertMessage(m, p, number, from)
      PROVE  Handed'
  <2>1. \A k \in MessageIds : k < m => msgs[k].state # "none"
    BY <1>2 DEF InsertMessage, FreshMessage, MessageIds
  <2> QED  BY <1>2, <2>1, InsertMessageEffect DEF Handed
<1>3. ASSUME NEW p \in PathIds, Delete(p) PROVE Handed'
  <2>1. \A k \in MessageIds : msgs'[k].state = "none" <=> msgs[k].state = "none"
    BY <1>3, DeleteEffect DEF Own
  <2> QED  BY <2>1 DEF Handed
<1>4. ASSUME NEW g \in Mergers, Mark(g) PROVE Handed'
  BY <1>4, MarkEffect DEF Handed
<1> QED  BY <1>1, <1>2, <1>3, <1>4, TableSteps

\* The messages of path t are still there after the step.
Stays(t) ==
    /\ paths[t].state \in {"none", "live"}
    /\ \A m \in MessageIds : Holds(t, m) => Holds(t, m)' /\ msgs'[m].from = msgs[m].from

\* A step leaves the content of a path that survives it where it is.
LEMMA ContentStays ==
    ASSUME TypeOK, Numbered, [Next]_vars, NEW t \in PathIds, paths'[t].state = "live"
    PROVE  Stays(t) /\ \A o : Copied(t, o) => Copied(t, o)'
<1>1. Stays(t)
  <2>1. CASE UNCHANGED <<paths, msgs>>
    BY <2>1 DEF Holds, Stays
  <2>2. ASSUME NEW k \in MessageIds, NEW p \in PathIds, NEW number, NEW from,
               InsertMessage(k, p, number, from), UNCHANGED paths
        PROVE  Stays(t)
    BY <2>2, InsertMessageEffect DEF Holds, Stays
  <2>3. ASSUME NEW p \in PathIds, NEW parent, NEW branch, NEW primary,
               InsertPath(p, parent, branch, primary), UNCHANGED msgs
        PROVE  Stays(t)
    BY <2>3, InsertPathEffect DEF Holds, Stays
  <2>4. ASSUME NEW p \in PathIds, Delete(p) PROVE Stays(t)
    <3>1. t # p /\ paths[t].state = "live"
      BY <2>4, DeleteEffect
    <3>2. \A m \in MessageIds : Holds(t, m) => msgs'[m] = msgs[m]
      BY <2>4, <3>1, DeleteEffect DEF Holds, Own
    <3> QED  BY <3>1, <3>2 DEF Holds, Stays
  <2>5. ASSUME NEW g \in Mergers, Mark(g) PROVE Stays(t)
    BY <2>5, MarkEffect DEF Holds, Stays
  <2> QED  BY <2>1, <2>2, <2>3, <2>4, <2>5, TableSteps
<1> QED  BY <1>1 DEF Copied, Stays

\* A path id that was handed out is not handed out again.
LEMMA StateStays ==
    ASSUME TypeOK, Numbered, [Next]_vars, NEW t \in PathIds, paths[t].state # "none"
    PROVE  paths'[t].state # "none"
<1>1. CASE UNCHANGED paths
  BY <1>1
<1>2. ASSUME NEW p \in PathIds, NEW parent, NEW branch, NEW primary,
             InsertPath(p, parent, branch, primary)
      PROVE  paths'[t].state # "none"
  BY <1>2, InsertPathEffect
<1>3. ASSUME NEW p \in PathIds, Delete(p) PROVE paths'[t].state # "none"
  BY <1>3, DeleteEffect
<1>4. ASSUME NEW g \in Mergers, Mark(g) PROVE paths'[t].state # "none"
  BY <1>4, MarkEffect
<1> QED  BY <1>1, <1>2, <1>3, <1>4, TableSteps

\* What a step does to one merge: it starts, inserts, ends or is left alone.
LEMMA MergeSteps ==
    ASSUME TypeOK, [Next]_vars, NEW g \in Mergers
    PROVE  \/ merge'[g] = merge[g]
           \/ ~merge'[g].busy
           \/ \E s, t \in PathIds, mode \in Modes : StartMerge(g, s, t, mode)
           \/ Summarise(g)
           \/ Copy(g)
<1>1. CASE UNCHANGED vars
  BY <1>1 DEF vars
<1>2. ASSUME NEW t \in Turns,
             \/ Address(t) \/ Visit(t) \/ MakePrimary(t) \/ Activate(t) \/ Say(t) \/ EndTurn(t)
      PROVE  merge'[g] = merge[g]
  BY <1>2 DEF Address, Visit, MakePrimary, Activate, Say, EndTurn
<1>3. ASSUME NEW m \in MessageIds, Branch(m) PROVE merge'[g] = merge[g]
  BY <1>3 DEF Branch
<1>4. ASSUME NEW p \in PathIds, SetActive(p) \/ Delete(p) PROVE merge'[g] = merge[g]
  BY <1>4 DEF SetActive, Delete
<1>5. ASSUME NEW h \in Mergers, h # g,
             \/ \E s, t \in PathIds, mode \in Modes : StartMerge(h, s, t, mode)
             \/ Summarise(h) \/ Copy(h) \/ Mark(h) \/ FailMerge(h)
      PROVE  merge'[g] = merge[g]
  BY <1>5 DEF StartMerge, Summarise, Copy, Mark, MarkRow, FailMerge, EndMerge, TypeOK
<1>6. ASSUME Mark(g) \/ FailMerge(g) PROVE ~merge'[g].busy
  BY <1>6 DEF Mark, MarkRow, FailMerge, EndMerge, IdleMerge, TypeOK
<1> QED  BY <1>1, <1>2, <1>3, <1>4, <1>5, <1>6 DEF Next

\* No step takes from a merge under way what it has copied, as long as its target exists.
LEMMA TargetStep ==
    TypeOK /\ Numbered /\ [Next]_vars /\ (\A g \in Mergers : InTarget(g))
      => (\A g \in Mergers : InTarget(g))'
<1> SUFFICES ASSUME TypeOK, Numbered, [Next]_vars, NEW g \in Mergers, InTarget(g)
             PROVE  InTarget(g)'
  OBVIOUS
<1>1. CASE merge'[g] = merge[g]
  <2> SUFFICES ASSUME merge[g].busy PROVE InTarget(g)'
    BY <1>1 DEF InTarget
  <2>1. PICK t \in PathIds : t = merge[g].target /\ t = merge'[g].target
    BY <1>1 DEF InTarget
  <2>2. paths[t].state # "none" /\ paths'[t].state # "none"
    BY <2>1, StateStays DEF InTarget
  <2>3. CASE paths'[t].state = "live"
    <3>1. Stays(t) /\ \A o : Copied(t, o) => Copied(t, o)'
      BY <2>3, ContentStays
    <3>2. paths[t].state = "live"
      BY <2>2, <3>1 DEF Stays
    <3>3. \A o \in merge[g].picked \ merge[g].todo : Copied(t, o)'
      BY <2>1, <3>1, <3>2 DEF InTarget
    <3>4. merge[g].summary # 0 => Holds(t, merge[g].summary)
      BY <2>1, <3>2 DEF InTarget
    <3>5. \A m : Holds(t, m) => Holds(t, m)'
      BY <3>1 DEF Stays, Holds
    <3> QED  BY <1>1, <2>1, <2>2, <3>3, <3>4, <3>5 DEF InTarget, Holds, Copied
  <2>4. CASE paths'[t].state # "live"
    BY <2>1, <2>2, <2>4 DEF InTarget
  <2> QED  BY <2>3, <2>4
<1>2. CASE ~merge'[g].busy
  BY <1>2 DEF InTarget
<1>3. ASSUME NEW s \in PathIds, NEW t \in PathIds, NEW mode \in Modes, StartMerge(g, s, t, mode)
      PROVE  InTarget(g)'
  <2>1. /\ merge'[g].target = t /\ merge'[g].summary = 0
        /\ merge'[g].picked = merge'[g].todo
    BY <1>3 DEF StartMerge, TypeOK
  <2>2. paths' = paths /\ paths[t].state = "live"
    BY <1>3 DEF StartMerge, LivePath
  <2> QED  BY <2>1, <2>2 DEF InTarget
<1>4. ASSUME Summarise(g) PROVE InTarget(g)'
  <2>1. PICK m \in MessageIds : /\ InsertMessage(m, merge[g].target, merge[g].number, 0)
                                /\ merge' = [merge EXCEPT ![g].summary = m]
    BY <1>4 DEF Summarise
  <2>2. merge[g] \in Merge
    BY DEF TypeOK
  <2>3. PICK t \in PathIds : t = merge[g].target /\ paths[t].state = "live"
    BY <2>1 DEF InsertMessage, LivePath
  <2>4. /\ merge'[g].target = t /\ merge'[g].summary = m
        /\ merge'[g].picked = merge[g].picked /\ merge'[g].todo = merge[g].todo
    BY <2>1, <2>2, <2>3 DEF TypeOK, Merge
  <2>5. paths' = paths /\ merge[g].busy
    BY <1>4 DEF Summarise
  <2>6. \A o : Copied(t, o) => Copied(t, o)'
    BY <2>3, <2>5, ContentStays
  <2>7. \A o \in merge[g].picked \ merge[g].todo : Copied(t, o)'
    BY <2>3, <2>5, <2>6 DEF InTarget
  <2>8. Holds(t, m)'
    BY <2>1, <2>3, InsertMessageEffect DEF Holds
  <2> QED  BY <2>3, <2>4, <2>5, <2>7, <2>8 DEF InTarget, Holds, Copied
<1>5. ASSUME Copy(g) PROVE InTarget(g)'
  <2>1. PICK o \in merge[g].todo, m \in MessageIds, n \in MessageIds \cup {0} :
          /\ InsertMessage(m, merge[g].target, merge[g].number, o)
          /\ merge' = [merge EXCEPT ![g].todo = merge[g].todo \ {o}, ![g].number = n]
    BY <1>5 DEF Copy
  <2>2. merge[g] \in Merge
    BY DEF TypeOK
  <2>3. PICK t \in PathIds : t = merge[g].target /\ paths[t].state = "live"
    BY <2>1 DEF InsertMessage, LivePath
  <2>4. /\ merge'[g].target = t /\ merge'[g].summary = merge[g].summary
        /\ merge'[g].picked = merge[g].picked /\ merge'[g].todo = merge[g].todo \ {o}
    BY <2>1, <2>2, <2>3 DEF TypeOK, Merge
  <2>5. paths' = paths /\ merge[g].busy
    BY <1>5 DEF Copy
  <2>6. Stays(t) /\ \A k : Copied(t, k) => Copied(t, k)'
    BY <2>3, <2>5, ContentStays
  <2>7. \A k \in merge[g].picked \ merge[g].todo : Copied(t, k)'
    BY <2>3, <2>5, <2>6 DEF InTarget
  <2>8. Copied(t, o)'
    BY <2>1, <2>3, InsertMessageEffect DEF Copied, Holds
  <2>9. \A k \in merge'[g].picked \ merge'[g].todo : Copied(t, k)'
    BY <2>4, <2>7, <2>8
  <2>10. merge[g].summary # 0 => Holds(t, merge[g].summary)
    BY <2>3, <2>5 DEF InTarget
  <2>11. \A k : Holds(t, k) => Holds(t, k)'
    BY <2>6 DEF Stays, Holds
  <2> QED  BY <2>3, <2>4, <2>5, <2>9, <2>10, <2>11 DEF InTarget, Holds, Copied
<1> QED  BY <1>1, <1>2, <1>3, <1>4, <1>5, MergeSteps

\* Every step keeps the marked rows: a mark is made when InTarget holds with nothing left to
\* copy, and the deletion of a target clears the mark.
LEMMA MarkedStep ==
    /\ TypeOK /\ Numbered /\ [Next]_vars
    /\ \A g \in Mergers : InTarget(g)
    /\ \A s \in PathIds : Marked(s)
    => (\A s \in PathIds : Marked(s))'
<1> SUFFICES ASSUME TypeOK, Numbered, [Next]_vars, \A g \in Mergers : InTarget(g),
                    NEW s \in PathIds, Marked(s),
                    paths'[s].state = "live", paths'[s].mergedTo # 0
             PROVE  Marked(s)'
  BY DEF Marked
<1>1. ASSUME paths[s].state = "live", paths[s].mergedTo # 0,
             paths'[s].mergedTo = paths[s].mergedTo, paths'[s].mode = paths[s].mode,
             merged'[s] = merged[s], paths'[s].summary = paths[s].summary,
             paths'[paths[s].mergedTo].state = "live"
      PROVE  Marked(s)'
  <2>1. PICK t \in PathIds : t = paths[s].mergedTo /\ t = paths'[s].mergedTo
    BY <1>1 DEF Marked, LivePath
  <2>2. Stays(t) /\ \A o : Copied(t, o) => Copied(t, o)'
    BY <1>1, <2>1, ContentStays
  <2>3. \A o \in merged'[s] : Copied(t, o)'
    BY <1>1, <2>1, <2>2 DEF Marked
  <2>4. paths'[s].mode = "summary" => Holds(t, paths'[s].summary)
    BY <1>1, <2>1 DEF Marked
  <2>5. \A m : Holds(t, m) => Holds(t, m)'
    BY <2>2 DEF Stays, Holds
  <2> QED  BY <1>1, <2>1, <2>3, <2>4, <2>5 DEF Marked, LivePath, Holds, Copied
<1>2. ASSUME paths' = paths, merged' = merged PROVE Marked(s)'
  BY <1>1, <1>2 DEF Marked, LivePath
<1>3. ASSUME NEW p \in PathIds, NEW parent, NEW branch, NEW primary,
             InsertPath(p, parent, branch, primary), merged' = merged
      PROVE  Marked(s)'
  <2>1. s # p /\ paths'[s] = paths[s]
    BY <1>3, InsertPathEffect
  <2>2. LivePath(paths[s].mergedTo) /\ paths[s].mergedTo # p
    BY <1>3, <2>1, InsertPathEffect DEF Marked, LivePath
  <2> QED  BY <1>1, <1>3, <2>1, <2>2, InsertPathEffect DEF LivePath
<1>4. ASSUME NEW p \in PathIds, Delete(p) PROVE Marked(s)'
  <2>1. s # p /\ paths[s].state = "live"
    BY <1>4, DeleteEffect
  <2>2. paths[s].mergedTo # p /\ paths'[s].mergedTo = paths[s].mergedTo
    BY <1>4, <2>1, DeleteEffect
  <2>3. LivePath(paths[s].mergedTo)
    BY <2>1, <2>2 DEF Marked
  <2>4. paths[s].mode = "summary" => paths[s].summary \notin Own(p)
    BY <2>1, <2>2 DEF Marked, Holds, Own
  <2>5. paths'[paths[s].mergedTo].state = "live" /\ paths'[s].mode = paths[s].mode
    BY <1>4, <2>1, <2>2, <2>3, DeleteEffect DEF LivePath
  <2>6. paths[s].mode = "summary" => paths'[s].summary = paths[s].summary
    BY <1>4, <2>1, <2>4, DeleteEffect
  <2>7. merged'[s] = merged[s]
    BY <1>4, DeleteEffect
  <2> QED
    <3>1. PICK t \in PathIds : t = paths[s].mergedTo /\ t = paths'[s].mergedTo
      BY <2>2, <2>3 DEF LivePath
    <3>2. Stays(t) /\ \A o : Copied(t, o) => Copied(t, o)'
      BY <2>5, <3>1, ContentStays
    <3>3. \A o \in merged'[s] : Copied(t, o)'
      BY <2>1, <2>7, <3>1, <3>2 DEF Marked
    <3>4. paths'[s].mode = "summary" => Holds(t, paths'[s].summary)
      BY <2>1, <2>5, <2>6, <3>1 DEF Marked
    <3>5. \A m : Holds(t, m) => Holds(t, m)'
      BY <3>2 DEF Stays, Holds
    <3> QED  BY <2>5, <3>1, <3>3, <3>4, <3>5 DEF Marked, LivePath, Holds, Copied
<1>5. ASSUME NEW g \in Mergers, Mark(g) PROVE Marked(s)'
  <2>1. CASE s # merge[g].source
    <3>1. paths'[s] = paths[s] /\ merged'[s] = merged[s]
      BY <1>5, <2>1, MarkEffect
    <3>2. LivePath(paths[s].mergedTo)
      BY <3>1 DEF Marked
    <3>3. paths'[paths[s].mergedTo].state = "live"
      BY <1>5, <3>2, MarkEffect DEF LivePath
    <3> QED  BY <1>1, <3>1, <3>3
  <2>2. CASE s = merge[g].source
    <3>1. PICK t \in PathIds : t = merge[g].target /\ paths[t].state = "live"
      BY <1>5, MarkEffect DEF LivePath
    <3>2. /\ \A o \in merge[g].picked : Copied(t, o)
          /\ merge[g].mode = "summary" => Holds(t, merge[g].summary)
      BY <1>5, <3>1, MarkEffect DEF InTarget
    <3>3. /\ paths'[s].mergedTo = t /\ paths'[s].mode = merge[g].mode
          /\ paths'[s].summary = merge[g].summary /\ merged'[s] = merge[g].picked
      BY <1>5, <2>2, <3>1, MarkEffect
    <3>4. paths'[t].state = "live" /\ msgs' = msgs
      BY <1>5, <3>1, MarkEffect
    <3> QED  BY <3>1, <3>2, <3>3, <3>4 DEF Marked, LivePath, Holds, Copied
  <2> QED  BY <2>1, <2>2
<1>6. merged' = merged \/ \E g \in Mergers : Mark(g)
  BY DEF Next, vars, Address, Visit, MakePrimary, Activate, Say, EndTurn, Branch, SetActive,
         Delete, StartMerge, Summarise, Copy, FailMerge
<1> QED  BY <1>2, <1>3, <1>4, <1>5, <1>6, TableSteps

\* Without overlap an insert takes a number above all others, and the highest id.
LEMMA SequentialStep ==
    TypeOK /\ Numbered /\ Handed /\ ~Overlap /\ Sequential /\ [Next]_vars => Sequential'
<1> SUFFICES ASSUME TypeOK, Numbered, Handed, ~Overlap, Sequential, [Next]_vars,
                    NEW m \in MessageIds, NEW k \in MessageIds, m < k,
                    msgs'[m].state = "live", msgs'[k].state = "live",
                    msgs'[m].path = msgs'[k].path, msgs'[m].path \in PathIds
             PROVE  msgs'[m].seq < msgs'[k].seq
  BY DEF Sequential, Own
<1>0. ASSUME msgs'[m] = msgs[m], msgs'[k] = msgs[k]
      PROVE  msgs'[m].seq < msgs'[k].seq
  BY <1>0 DEF Sequential, Own
<1>1. CASE UNCHANGED msgs
  BY <1>0, <1>1
<1>2. ASSUME NEW i \in MessageIds, NEW p \in PathIds, NEW from, InsertMessage(i, p, 0, from)
      PROVE  msgs'[m].seq < msgs'[k].seq
  <2>1. PICK n \in MessageIds :
          /\ NextNumber(p, n)
          /\ msgs' = [msgs EXCEPT ![i] = [state |-> "live", path |-> p, seq |-> n, from |-> from]]
    BY <1>2 DEF InsertMessage
  <2>2. msgs'[i].path = p /\ msgs'[i].seq = n /\ msgs[i].state = "none"
    BY <1>2, <2>1 DEF TypeOK, InsertMessage, FreshMessage
  <2>3. \A j \in MessageIds \ {i} : msgs'[j] = msgs[j]
    BY <2>1 DEF TypeOK
  <2>4. m # i
    BY <2>2, <2>3 DEF Handed, MessageIds
  <2>5. CASE k = i
    <3>1. m \in Own(p)
      BY <2>2, <2>3, <2>4, <2>5 DEF Own
    <3> QED  BY <2>1, <2>2, <2>3, <2>4, <2>5, <3>1 DEF NextNumber
  <2>6. CASE k # i
    BY <1>0, <2>3, <2>4, <2>6
  <2> QED  BY <2>5, <2>6
<1>3. ASSUME NEW p \in PathIds, Delete(p) PROVE msgs'[m].seq < msgs'[k].seq
  <2>1. m \notin Own(p) /\ k \notin Own(p)
    BY <1>3, DeleteEffect
  <2> QED  BY <1>0, <1>3, <2>1, DeleteEffect
<1>4. ASSUME NEW g \in Mergers, Mark(g) PROVE msgs'[m].seq < msgs'[k].seq
  BY <1>0, <1>4, MarkEffect
<1> QED  BY <1>1, <1>2, <1>3, <1>4, TableSteps

\* The invariant holds initially.
LEMMA InvInit == Init => IInv
<1> SUFFICES ASSUME Init PROVE IInv
  OBVIOUS
<1>1. TypeOK
  BY TypeInit
<1>2. /\ \A p \in PathIds : paths[p].state = "none"
      /\ \A m \in MessageIds : msgs[m].state = "none"
  BY DEF Init, NoPath, NoMessage
<1>3. Numbered /\ \A g \in Mergers : InTarget(g)
  BY DEF Init, Numbered, InTarget, IdleTurn, IdleMerge
<1>4. Homes /\ Handed /\ \A s \in PathIds : Marked(s)
  BY <1>2 DEF Homes, Handed, Marked, LiveMessage
<1>5. BranchPointInParent /\ Sequential
  BY <1>2 DEF BranchPointInParent, Sequential, LivePath, Own
<1> QED  BY <1>1, <1>3, <1>4, <1>5 DEF IInv

\* The invariant is inductive.
LEMMA InvStep == IInv /\ [Next]_vars => IInv'
<1> SUFFICES ASSUME IInv, [Next]_vars PROVE IInv'
  OBVIOUS
<1>1. TypeOK' /\ Numbered' /\ Homes' /\ Handed'
  BY TypeStep, NumberedStep, HomesStep, HandedStep DEF IInv
<1>2. BranchPointInParent'
  BY BranchStep DEF IInv
<1>3. (\A g \in Mergers : InTarget(g))' /\ (\A s \in PathIds : Marked(s))'
  BY TargetStep, MarkedStep DEF IInv
<1>4. (~Overlap => Sequential)'
  BY SequentialStep DEF IInv
<1> QED  BY <1>1, <1>2, <1>3, <1>4 DEF IInv

\* The inductive invariant holds in every behaviour.
LEMMA InvCorrect == Spec => []IInv
  BY InvInit, InvStep, PTL DEF Spec

(***************************************************************************)
(* The properties.                                                         *)
(***************************************************************************)

\* Deletions, even nested ones, never leave a branch whose branch point is not in its
\* parent.
THEOREM BranchesHang == Spec => []BranchPointInParent
<1>1. IInv => BranchPointInParent
  BY DEF IInv
<1> QED  BY <1>1, InvCorrect, PTL

\* A marked path's target has all that the merge picked, whatever else wrote, merged,
\* deleted or stopped meanwhile.
THEOREM MergesComplete == Spec => []MergedMeansCopied
<1>1. IInv => MergedMeansCopied
  BY DEF IInv, Marked, Copied, Holds, MergedMeansCopied, LivePath, Own
<1> QED  BY <1>1, InvCorrect, PTL

\* The premise of BranchStable and RpcAgrees: it holds as long as inserts into one path do
\* not overlap.
LEMMA PremiseMet == ASSUME ~Overlap PROVE Spec => []Sequential
<1>1. IInv => Sequential
  BY DEF IInv
<1> QED  BY <1>1, InvCorrect, PTL

(***************************************************************************)
(* The order of what a merge copies.                                       *)
(***************************************************************************)

\* A message that was ever inserted keeps its number, even when it is deleted.
LEMMA NumberStays ==
    ASSUME TypeOK, Numbered, [Next]_vars, NEW o \in MessageIds, msgs[o].state # "none"
    PROVE  msgs'[o].state # "none" /\ msgs'[o].seq = msgs[o].seq
<1>1. CASE UNCHANGED msgs
  BY <1>1
<1>2. ASSUME NEW m \in MessageIds, NEW p \in PathIds, NEW number, NEW from,
             InsertMessage(m, p, number, from)
      PROVE  msgs'[o] = msgs[o]
  BY <1>2, InsertMessageEffect
<1>3. ASSUME NEW p \in PathIds, Delete(p)
      PROVE  msgs'[o].state # "none" /\ msgs'[o].seq = msgs[o].seq
  BY <1>3 DEF Delete
<1>4. ASSUME NEW g \in Mergers, Mark(g) PROVE msgs' = msgs
  BY <1>4, MarkEffect
<1> QED  BY <1>1, <1>2, <1>3, <1>4, TableSteps

\* Path t holds a copy of message o, and its number is below n.
CopiedBelow(t, o, n) ==
    \E m \in MessageIds : Holds(t, m) /\ msgs[m].from = o /\ msgs[m].seq < n

\* Path t holds copies of messages o and q, the one of o first.
InSequence(t, o, q) ==
    \E m, k \in MessageIds :
        /\ Holds(t, m) /\ Holds(t, k)
        /\ msgs[m].from = o /\ msgs[k].from = q /\ msgs[m].seq < msgs[k].seq

\* What a merge under way has copied stands in its target in order, is before what is left
\* to copy, and is below the number the next copy has taken.
Rises(g) ==
    LET mg   == merge[g]
        t    == mg.target
        done == mg.picked \ mg.todo
    IN  mg.busy =>
            /\ mg.todo \subseteq mg.picked
            /\ \A o \in mg.picked : msgs[o].state # "none"
            /\ \A o \in done, q \in mg.todo : msgs[o].seq <= msgs[q].seq
            /\ paths[t].state = "live" =>
                 /\ \A o, q \in done : msgs[o].seq < msgs[q].seq => InSequence(t, o, q)
                 /\ mg.number # 0 => \A o \in done : CopiedBelow(t, o, mg.number)

\* One row of MergedInOrder.
Risen(s) ==
    paths[s].state = "live" /\ paths[s].mergedTo # 0 =>
        \A o, q \in merged[s] :
            /\ msgs[o].state # "none"
            /\ msgs[o].seq < msgs[q].seq => InSequence(paths[s].mergedTo, o, q)

\* The copies in a path that survives a step keep their order.
LEMMA OrderStays ==
    ASSUME TypeOK, Numbered, [Next]_vars, NEW t \in PathIds, paths'[t].state = "live"
    PROVE  /\ \A o, q : InSequence(t, o, q) => InSequence(t, o, q)'
           /\ \A o, n : CopiedBelow(t, o, n)
                => \E m \in MessageIds : /\ Holds(t, m)' /\ msgs'[m].from = o
                                         /\ msgs'[m].seq < n
<1>1. \A m \in MessageIds : Holds(t, m) =>
        Holds(t, m)' /\ msgs'[m].from = msgs[m].from /\ msgs'[m].seq = msgs[m].seq
  BY ContentStays, NumberStays DEF Stays, Holds
<1> QED  BY <1>1 DEF InSequence, CopiedBelow

\* What was copied so far stays in order while the merge waits for its next call.
LEMMA RisesStays ==
    ASSUME TypeOK, Numbered, [Next]_vars, NEW g \in Mergers, InTarget(g), Rises(g),
           merge[g].busy, merge'[g].busy,
           merge'[g].target = merge[g].target, merge'[g].picked = merge[g].picked,
           merge'[g].todo = merge[g].todo, merge'[g].number = merge[g].number
    PROVE  Rises(g)'
<1>1. PICK t \in PathIds : t = merge[g].target /\ t = merge'[g].target
  BY DEF InTarget
<1>2. merge[g].picked \subseteq MessageIds
  <2>1. merge[g] \in Merge
    BY DEF TypeOK
  <2> QED  BY <2>1 DEF Merge
<1>3. \A o \in merge[g].picked :
        msgs[o].state # "none" /\ msgs'[o].state # "none" /\ msgs'[o].seq = msgs[o].seq
  BY <1>2, NumberStays DEF Rises
<1>4. merge[g].todo \subseteq merge[g].picked
  BY DEF Rises
<1>5. \A o \in merge'[g].picked \ merge'[g].todo, q \in merge'[g].todo :
        msgs'[o].seq <= msgs'[q].seq
  BY <1>3, <1>4 DEF Rises
<1>6. ASSUME paths'[t].state = "live"
      PROVE  /\ \A o, q \in merge[g].picked \ merge[g].todo :
                  msgs'[o].seq < msgs'[q].seq => InSequence(t, o, q)'
             /\ merge[g].number # 0 => \A o \in merge[g].picked \ merge[g].todo :
                  \E m \in MessageIds : /\ Holds(t, m)' /\ msgs'[m].from = o
                                        /\ msgs'[m].seq < merge[g].number
  <2>1. paths[t].state = "live"
    BY <1>1, <1>6, ContentStays DEF Stays, InTarget
  <2>2. /\ \A o, q \in merge[g].picked \ merge[g].todo :
             msgs[o].seq < msgs[q].seq => InSequence(t, o, q)
        /\ merge[g].number # 0 => \A o \in merge[g].picked \ merge[g].todo :
             CopiedBelow(t, o, merge[g].number)
    BY <1>1, <2>1 DEF Rises
  <2> QED  BY <1>3, <1>6, <2>2, OrderStays
<1> QED  BY <1>1, <1>3, <1>4, <1>5, <1>6 DEF Rises, InSequence, CopiedBelow, Holds

\* A copy is above all copies made before it, whether it takes its number now or took it
\* when the one before was there.
LEMMA RisesCopy ==
    ASSUME TypeOK, TypeOK', Numbered, [Next]_vars, NEW g \in Mergers, InTarget(g), Rises(g), Copy(g)
    PROVE  Rises(g)'
<1>1. PICK o \in merge[g].todo, m \in MessageIds, n \in MessageIds \cup {0} :
        /\ \A k \in merge[g].todo : msgs[o].seq <= msgs[k].seq
        /\ InsertMessage(m, merge[g].target, merge[g].number, o)
        /\ merge' = [merge EXCEPT ![g].todo = merge[g].todo \ {o}, ![g].number = n]
        /\ EarlyNumber(merge[g].target, n)'
  BY DEF Copy
<1>2. merge[g] \in Merge
  BY DEF TypeOK
<1>3. PICK t \in PathIds : t = merge[g].target /\ paths[t].state = "live"
  BY <1>1 DEF InsertMessage, LivePath
<1>4. /\ merge'[g].target = t /\ merge'[g].busy = merge[g].busy
      /\ merge'[g].picked = merge[g].picked /\ merge'[g].todo = merge[g].todo \ {o}
      /\ merge'[g].number = n
  <2>1. merge' = [merge EXCEPT ![g] = [merge[g] EXCEPT !.todo = merge[g].todo \ {o},
                                                       !.number = n]]
    BY <1>1 DEF TypeOK
  <2>2. merge'[g] = [merge[g] EXCEPT !.todo = merge[g].todo \ {o}, !.number = n]
    BY <2>1 DEF TypeOK
  <2> QED  BY <1>2, <1>3, <2>2 DEF Merge
<1>5. paths' = paths /\ merge[g].busy
  BY DEF Copy
<1> DEFINE done == merge[g].picked \ merge[g].todo
<1>6. /\ merge[g].todo \subseteq merge[g].picked /\ merge[g].picked \subseteq MessageIds
      /\ o \in merge[g].picked
  BY <1>2, <1>5 DEF Rises, Merge
<1>7. \A k \in merge[g].picked :
        msgs[k].state # "none" /\ msgs'[k].state # "none" /\ msgs'[k].seq = msgs[k].seq
  BY <1>5, <1>6, NumberStays DEF Rises
<1>8. \A k \in done, q \in merge[g].todo : msgs[k].seq <= msgs[q].seq
  BY <1>5 DEF Rises
<1>9. /\ \A k, q \in done : msgs[k].seq < msgs[q].seq => InSequence(t, k, q)
      /\ merge[g].number # 0 => \A k \in done : CopiedBelow(t, k, merge[g].number)
  BY <1>3, <1>5 DEF Rises
<1>10. PICK i \in MessageIds :
         /\ IF merge[g].number = 0 THEN NextNumber(t, i) ELSE i = merge[g].number
         /\ msgs' = [msgs EXCEPT ![m] = [state |-> "live", path |-> t, seq |-> i, from |-> o]]
  BY <1>1, <1>3 DEF InsertMessage
<1>11. Holds(t, m)' /\ msgs'[m].from = o /\ msgs'[m].seq = i
  BY <1>10 DEF Holds, TypeOK
<1>12. \A k \in done : CopiedBelow(t, k, i)
  <2>1. CASE merge[g].number = 0
    <3>1. \A j \in MessageIds : Holds(t, j) => msgs[j].seq < i
      BY <1>10, <2>1 DEF NextNumber, Own, Holds
    <3>2. \A k \in done : Copied(t, k)
      BY <1>3, <1>5 DEF InTarget
    <3> QED  BY <3>1, <3>2 DEF Copied, CopiedBelow
  <2>2. CASE merge[g].number # 0
    BY <1>9, <1>10, <2>2
  <2> QED  BY <2>1, <2>2
<1>13. /\ \A k, q : InSequence(t, k, q) => InSequence(t, k, q)'
       /\ \A k, b : CopiedBelow(t, k, b)
            => \E j \in MessageIds : Holds(t, j)' /\ msgs'[j].from = k /\ msgs'[j].seq < b
  BY <1>3, <1>5, OrderStays
<1>14. \A k \in done : InSequence(t, k, o)'
  <2> SUFFICES ASSUME NEW k \in done PROVE InSequence(t, k, o)'
    OBVIOUS
  <2>1. PICK j \in MessageIds : Holds(t, j)' /\ msgs'[j].from = k /\ msgs'[j].seq < i
    BY <1>12, <1>13
  <2> QED  BY <1>11, <2>1 DEF InSequence
<1>15. \A k, q \in done \cup {o} : msgs'[k].seq < msgs'[q].seq => InSequence(t, k, q)'
  <2> SUFFICES ASSUME NEW k \in done \cup {o}, NEW q \in done \cup {o},
                      msgs'[k].seq < msgs'[q].seq
               PROVE  InSequence(t, k, q)'
    OBVIOUS
  <2>1. msgs[k].seq < msgs[q].seq
    BY <1>6, <1>7
  <2>2. msgs[k].seq \in Nat /\ msgs[q].seq \in Nat
    BY <1>6 DEF TypeOK, Message, MessageIds
  <2>3. k # o
    BY <1>8, <2>1, <2>2
  <2> QED  BY <1>9, <1>13, <1>14, <2>1, <2>3
<1>16. ASSUME n # 0 PROVE \A k \in done \cup {o} : CopiedBelow(t, k, n)'
  <2>1. \A j \in MessageIds : Holds(t, j)' => msgs'[j].seq < n
    <3>1. NextNumber(t, n)'
      BY <1>1, <1>4, <1>16 DEF EarlyNumber, NextNumber, Own
    <3> QED  BY <3>1 DEF NextNumber, Own, Holds
  <2>2. \A k \in done \cup {o} : \E j \in MessageIds : Holds(t, j)' /\ msgs'[j].from = k
    BY <1>11, <1>12, <1>13
  <2> QED  BY <2>1, <2>2 DEF CopiedBelow, Holds
<1>17. merge'[g].picked \ merge'[g].todo = done \cup {o}
  BY <1>4, <1>6
<1>18. \A k \in done \cup {o}, q \in merge[g].todo \ {o} : msgs'[k].seq <= msgs'[q].seq
  BY <1>1, <1>6, <1>7, <1>8
<1> HIDE DEF done
<1>19. /\ merge'[g].todo \subseteq merge'[g].picked
       /\ \A k \in merge'[g].picked : msgs'[k].state # "none"
       /\ \A k \in merge'[g].picked \ merge'[g].todo, q \in merge'[g].todo :
            msgs'[k].seq <= msgs'[q].seq
  BY <1>4, <1>6, <1>7, <1>17, <1>18
<1>20. \A k, q \in merge'[g].picked \ merge'[g].todo :
         msgs'[k].seq < msgs'[q].seq => InSequence(t, k, q)'
  BY <1>15, <1>17
<1>21. n # 0 => \A k \in merge'[g].picked \ merge'[g].todo : CopiedBelow(t, k, n)'
  BY <1>16, <1>17
<1> QED  BY <1>4, <1>19, <1>20, <1>21 DEF Rises, InSequence, CopiedBelow, Holds

\* Every step keeps the order in which the merges under way copy.
LEMMA RisesStep ==
    ASSUME TypeOK, TypeOK', Numbered, [Next]_vars, NEW g \in Mergers, InTarget(g), Rises(g)
    PROVE  Rises(g)'
<1>1. CASE merge'[g] = merge[g]
  <2>1. CASE merge[g].busy
    BY <1>1, <2>1, RisesStays
  <2> QED  BY <1>1, <2>1 DEF Rises
<1>2. CASE ~merge'[g].busy
  BY <1>2 DEF Rises
<1>3. ASSUME NEW s \in PathIds, NEW t \in PathIds, NEW mode \in Modes, StartMerge(g, s, t, mode)
      PROVE  Rises(g)'
  <2>1. PICK picked \in Picks(mode, s), n \in MessageIds \cup {0} :
          merge' = [merge EXCEPT ![g] =
                       [busy |-> TRUE, mode |-> mode, source |-> s, target |-> t,
                        picked |-> picked, todo |-> picked, summary |-> 0, number |-> n]]
    BY <1>3 DEF StartMerge
  <2>2. merge'[g].picked = picked /\ merge'[g].todo = picked
    BY <2>1 DEF TypeOK
  <2>3. picked \subseteq Own(s) /\ msgs' = msgs
    BY <1>3 DEF Picks, StartMerge
  <2> QED  BY <2>2, <2>3 DEF Rises, Own
<1>4. CASE Summarise(g)
  <2>1. PICK m \in MessageIds : merge' = [merge EXCEPT ![g].summary = m]
    BY <1>4 DEF Summarise
  <2>2. merge[g] \in Merge /\ merge[g].busy
    BY <1>4 DEF TypeOK, Summarise
  <2>3. merge' = [merge EXCEPT ![g] = [merge[g] EXCEPT !.summary = m]]
    BY <2>1 DEF TypeOK
  <2>4. merge'[g] = [merge[g] EXCEPT !.summary = m]
    BY <2>3 DEF TypeOK
  <2>5. /\ merge'[g].target = merge[g].target /\ merge'[g].picked = merge[g].picked
        /\ merge'[g].todo = merge[g].todo /\ merge'[g].number = merge[g].number
        /\ merge'[g].busy = merge[g].busy
    BY <2>2, <2>4 DEF Merge
  <2> QED  BY <2>2, <2>5, RisesStays
<1>5. CASE Copy(g)
  BY <1>5, RisesCopy
<1> QED  BY <1>1, <1>2, <1>3, <1>4, <1>5, MergeSteps

\* Every step keeps the marked rows in order: a mark is made when all is copied, and a
\* marked target keeps its messages.
LEMMA RisenStep ==
    ASSUME TypeOK, Numbered, [Next]_vars, \A g \in Mergers : Rises(g),
           NEW s \in PathIds, Marked(s)', Marked(s), Risen(s)
    PROVE  Risen(s)'
<1> SUFFICES ASSUME paths'[s].state = "live", paths'[s].mergedTo # 0
             PROVE  Risen(s)'
  BY DEF Risen
<1>1. PICK t \in PathIds : t = paths'[s].mergedTo /\ paths'[t].state = "live"
  BY DEF Marked, LivePath
<1>2. ASSUME paths[s].state = "live", paths[s].mergedTo = t, merged'[s] = merged[s]
      PROVE  Risen(s)'
  <2>1. merged[s] \subseteq MessageIds
    BY DEF TypeOK
  <2>2. \A o, q \in merged[s] :
          /\ msgs[o].state # "none"
          /\ msgs[o].seq < msgs[q].seq => InSequence(t, o, q)
    BY <1>2, NullIsNoId DEF Risen
  <2>3. \A o \in merged[s] : msgs'[o].state # "none" /\ msgs'[o].seq = msgs[o].seq
    BY <2>1, <2>2, NumberStays
  <2>4. \A o, q \in merged[s] :
          /\ msgs'[o].state # "none"
          /\ msgs'[o].seq < msgs'[q].seq => InSequence(t, o, q)'
    BY <1>1, <2>2, <2>3, OrderStays
  <2> QED  BY <1>1, <1>2, <2>4 DEF Risen, InSequence, Holds
<1>3. CASE paths' = paths /\ merged' = merged
  BY <1>1, <1>2, <1>3
<1>4. ASSUME NEW p \in PathIds, NEW parent, NEW branch, NEW primary,
             InsertPath(p, parent, branch, primary), merged' = merged
      PROVE  Risen(s)'
  <2>1. paths'[s] = paths[s]
    BY <1>4, InsertPathEffect
  <2> QED  BY <1>1, <1>2, <1>4, <2>1
<1>5. ASSUME NEW p \in PathIds, Delete(p) PROVE Risen(s)'
  <2>1. s # p /\ paths[s].state = "live" /\ merged' = merged
    BY <1>5, DeleteEffect
  <2>2. paths[s].mergedTo = t
    BY <1>1, <1>5, <2>1, DeleteEffect
  <2> QED  BY <1>2, <2>1, <2>2
<1>6. ASSUME NEW g \in Mergers, Mark(g) PROVE Risen(s)'
  <2>1. CASE s # merge[g].source
    <3>1. paths'[s] = paths[s] /\ merged'[s] = merged[s]
      BY <1>6, <2>1, MarkEffect
    <3> QED  BY <1>1, <1>2, <3>1
  <2>2. CASE s = merge[g].source
    <3>1. /\ merge[g].busy /\ merge[g].todo = {} /\ LivePath(merge[g].target)
          /\ paths'[s].mergedTo = merge[g].target /\ merged'[s] = merge[g].picked
          /\ msgs' = msgs
      BY <1>6, <2>2, MarkEffect
    <3>2. /\ \A o \in merge[g].picked : msgs[o].state # "none"
          /\ \A o, q \in merge[g].picked : msgs[o].seq < msgs[q].seq => InSequence(t, o, q)
      BY <1>1, <3>1 DEF Rises, LivePath
    <3> QED  BY <1>1, <3>1, <3>2 DEF Risen, InSequence, Holds
  <2> QED  BY <2>1, <2>2
<1>7. merged' = merged \/ \E g \in Mergers : Mark(g)
  BY DEF Next, vars, Address, Visit, MakePrimary, Activate, Say, EndTurn, Branch, SetActive,
         Delete, StartMerge, Summarise, Copy, FailMerge
<1> QED  BY <1>3, <1>4, <1>5, <1>6, <1>7, TableSteps

\* All merges, under way or done, copy in order.
InOrderEverywhere == (\A g \in Mergers : Rises(g)) /\ (\A s \in PathIds : Risen(s))

\* It holds in every behaviour.
LEMMA OrderCorrect == Spec => [](IInv /\ InOrderEverywhere)
<1>1. Init => InOrderEverywhere
  BY DEF Init, InOrderEverywhere, Rises, Risen, IdleMerge, NoPath
<1>2. IInv /\ IInv' /\ InOrderEverywhere /\ [Next]_vars => InOrderEverywhere'
  <2> SUFFICES ASSUME IInv, IInv', InOrderEverywhere, [Next]_vars PROVE InOrderEverywhere'
    OBVIOUS
  <2>1. ASSUME NEW g \in Mergers PROVE Rises(g)'
    BY RisesStep DEF IInv, InOrderEverywhere
  <2>2. ASSUME NEW s \in PathIds PROVE Risen(s)'
    BY RisenStep DEF IInv, InOrderEverywhere
  <2> QED  BY <2>1, <2>2 DEF InOrderEverywhere
<1> QED  BY <1>1, <1>2, InvCorrect, PTL DEF Spec

\* What a merge has copied stands in its target in the order of the originals, whoever
\* inserts into the source or the target meanwhile, overlapping or not.
THEOREM MergesInOrder == Spec => []MergedInOrder
<1>1. IInv /\ InOrderEverywhere => MergedInOrder
  BY DEF IInv, InOrderEverywhere, Risen, InSequence, Holds, MergedInOrder, LivePath, Own
<1> QED  BY <1>1, OrderCorrect, PTL
(***************************************************************************)
(* Induction.  The library's induction theorems take a predicate, which    *)
(* the provers cannot instantiate; the least member of a set of numbers    *)
(* does the same for a set.                                                *)
(***************************************************************************)

\* A set of numbers has a least member: of the initial segments that end in the set, one
\* contains no other.
LEMMA LeastMember ==
    ASSUME NEW T, T \subseteq Nat, T # {}
    PROVE  \E n \in T : \A m \in T : n <= m
<1> DEFINE U == {0 .. n : n \in T}
<1>1. IsWellFoundedOn(StrictSubsetOrdering(Nat), FiniteSubsetsOf(Nat))
  BY FS_StrictSubsetOrderingWellFounded
<1>2. U \subseteq FiniteSubsetsOf(Nat) /\ U # {}
  <2>1. \A n \in T : n \in Nat /\ 0 .. n \in SUBSET Nat /\ IsFiniteSet(0 .. n)
    BY FS_Interval
  <2> QED  BY <2>1 DEF FiniteSubsetsOf
<1>3. PICK x \in U : \A y \in U : <<y, x>> \notin StrictSubsetOrdering(Nat)
  BY <1>1, <1>2, WFMin
<1>4. PICK n \in T : x = 0 .. n
  OBVIOUS
<1>5. ASSUME NEW m \in T, m < n PROVE FALSE
  <2>1. 0 .. m \subseteq 0 .. n /\ 0 .. m # 0 .. n /\ 0 .. m \in U
    <3>1. n \in 0 .. n /\ n \notin 0 .. m
      BY <1>5
    <3> QED  BY <1>5, <3>1
  <2>2. <<0 .. m, 0 .. n>> \in StrictSubsetOrdering(Nat)
    BY <2>1 DEF StrictSubsetOrdering
  <2> QED  BY <1>3, <1>4, <2>1, <2>2
<1> QED  BY <1>5

\* What holds of a number when it holds of all smaller ones holds of all, up to a bound.
LEMMA Ascend ==
    ASSUME NEW n \in Nat, NEW T,
           \A p \in 0 .. n : (\A q \in 0 .. n : q < p => q \in T) => p \in T
    PROVE  \A p \in 0 .. n : p \in T
<1> SUFFICES ASSUME (0 .. n) \ T # {} PROVE FALSE
  OBVIOUS
<1>1. PICK p \in (0 .. n) \ T : \A q \in (0 .. n) \ T : p <= q
  <2>1. (0 .. n) \ T \subseteq Nat
    OBVIOUS
  <2> QED  BY <2>1, LeastMember
<1>2. \A q \in 0 .. n : q < p => q \in T
  BY <1>1
<1> QED  BY <1>1, <1>2

(***************************************************************************)
(* Sets of ids in their order.                                             *)
(***************************************************************************)

\* How many members of S come before m.
Rank(S, m) == Cardinality({k \in S : k < m})

\* The members of S by their rank.
Ranked(s, S) ==
    s \in [1 .. Cardinality(S) -> S] /\ \A i \in 1 .. Cardinality(S) : Rank(S, s[i]) = i - 1

\* A finite set of numbers.
Finite(S) == S \in SUBSET Nat /\ IsFiniteSet(S)

\* Ranks are numbers below the size of the set, and rise with the members.
LEMMA RankRises ==
    ASSUME NEW S, Finite(S)
    PROVE  /\ Cardinality(S) \in Nat
           /\ \A m \in S : m \in Nat /\ Rank(S, m) \in Nat /\ Rank(S, m) < Cardinality(S)
           /\ \A m, k \in S : m < k => Rank(S, m) < Rank(S, k)
<1> DEFINE Below(m) == {k \in S : k < m}
<1>0. S \in SUBSET Nat /\ IsFiniteSet(S) /\ \A m \in S : m \in Nat
  BY DEF Finite
<1>1. Cardinality(S) \in Nat /\ \A m \in S : IsFiniteSet(Below(m)) /\ Cardinality(Below(m)) \in Nat
  <2>1. \A m \in S : Below(m) \in SUBSET S
    OBVIOUS
  <2> QED  BY <1>0, <2>1, FS_Subset, FS_CardinalityType
<1>2. ASSUME NEW m \in S PROVE Cardinality(Below(m)) < Cardinality(S)
  <2>1. Below(m) \in SUBSET S /\ m \in S /\ m \notin Below(m)
    BY <1>0
  <2> HIDE DEF Below
  <2> QED  BY <1>0, <1>1, <2>1, FS_Subset
<1>3. ASSUME NEW m \in S, NEW k \in S, m < k PROVE Cardinality(Below(m)) < Cardinality(Below(k))
  <2>0. m \in Nat /\ k \in Nat /\ \A j \in S : j \in Nat
    BY <1>0
  <2>1. \A j \in S : j < m => j < k
    BY <1>3, <2>0
  <2>2. ~(m < m)
    BY <2>0
  <2>3. Below(m) \in SUBSET Below(k) /\ m \in Below(k) /\ m \notin Below(m)
    BY <1>3, <2>1, <2>2
  <2> HIDE DEF Below
  <2> QED  BY <1>1, <2>3, FS_Subset
<1>4. \A m \in S : Rank(S, m) = Cardinality(Below(m))
  BY DEF Rank
<1> HIDE DEF Below
<1> QED  BY <1>0, <1>1, <1>2, <1>3, <1>4

\* Two members of one rank are one.
LEMMA RankTells ==
    ASSUME NEW S, Finite(S), NEW m \in S, NEW k \in S, Rank(S, m) = Rank(S, k)
    PROVE  m = k
<1>1. /\ m \in Nat /\ k \in Nat /\ Rank(S, m) \in Nat
      /\ m < k => Rank(S, m) < Rank(S, k)
      /\ k < m => Rank(S, k) < Rank(S, m)
  BY RankRises
<1> QED  BY <1>1

\* Every rank below the size of the set is that of a member.
LEMMA RankOnto ==
    ASSUME NEW S, Finite(S), NEW i \in 1 .. Cardinality(S)
    PROVE  \E m \in S : Rank(S, m) = i - 1
<1> DEFINE n == Cardinality(S)
           f == [m \in S |-> Rank(S, m) + 1]
<1>1. n \in Nat /\ \A m \in S : Rank(S, m) \in Nat /\ Rank(S, m) < n
  BY RankRises
<1>2. f \in [S -> 1 .. n] /\ \A m \in S : f[m] = Rank(S, m) + 1
  BY <1>1
<1> HIDE DEF f
<1>3. ASSUME NEW m \in S, NEW k \in S, f[m] = f[k] PROVE m = k
  <2>1. Rank(S, m) = Rank(S, k)
    BY <1>1, <1>2, <1>3
  <2> QED  BY <2>1, RankTells
<1>4. IsFiniteSet(1 .. n) /\ Cardinality(1 .. n) = n /\ IsFiniteSet(S)
  BY <1>1, FS_Interval DEF Finite
<1>5. f \in Injection(S, 1 .. n)
  BY <1>2, <1>3 DEF Injection, IsInjective
<1>6. f \in Surjection(S, 1 .. n)
  BY <1>4, <1>5, FS_Injection
<1>7. PICK m \in S : f[m] = i
  BY <1>6 DEF Surjection
<1>8. Rank(S, m) + 1 = i /\ Rank(S, m) \in Nat
  BY <1>1, <1>2, <1>7
<1> QED  BY <1>8

\* A set has one order.
LEMMA OneOrder ==
    ASSUME NEW S, Finite(S), NEW s, NEW t, Ranked(s, S), Ranked(t, S)
    PROVE  s = t
<1> DEFINE I == 1 .. Cardinality(S)
<1>1. ASSUME NEW i \in I PROVE s[i] = t[i]
  <2>1. s[i] \in S /\ t[i] \in S /\ Rank(S, s[i]) = Rank(S, t[i])
    BY DEF Ranked
  <2> QED  BY <2>1, RankTells
<1>2. s \in [I -> S] /\ t \in [I -> S]
  BY DEF Ranked
<1> HIDE DEF I
<1> QED  BY <1>1, <1>2

\* An order is a sequence, rises, and has every member of its set.
LEMMA OrderRises ==
    ASSUME NEW S, Finite(S), NEW s, Ranked(s, S)
    PROVE  /\ s \in Seq(S) /\ Len(s) = Cardinality(S) /\ Cardinality(S) \in Nat
           /\ \A i, j \in 1 .. Len(s) : i < j <=> s[i] < s[j]
           /\ \A m \in S : \E i \in 1 .. Len(s) : s[i] = m
<1> DEFINE n == Cardinality(S)
<1>1. n \in Nat /\ s \in [1 .. n -> S]
  BY RankRises DEF Ranked
<1>2. s \in Seq(S) /\ Len(s) = n
  BY <1>1
<1>3. ASSUME NEW i \in 1 .. n, NEW j \in 1 .. n PROVE i < j <=> s[i] < s[j]
  <2>1. s[i] \in S /\ s[j] \in S /\ Rank(S, s[i]) = i - 1 /\ Rank(S, s[j]) = j - 1
    BY <1>1 DEF Ranked
  <2>2. /\ s[i] \in Nat /\ s[j] \in Nat
        /\ s[i] < s[j] => Rank(S, s[i]) < Rank(S, s[j])
        /\ s[j] < s[i] => Rank(S, s[j]) < Rank(S, s[i])
    BY <2>1, RankRises
  <2> HIDE DEF n
  <2> QED  BY <1>1, <2>1, <2>2
<1>4. ASSUME NEW m \in S PROVE \E i \in 1 .. n : s[i] = m
  <2> DEFINE i == Rank(S, m) + 1
  <2>1. Rank(S, m) \in Nat /\ Rank(S, m) < n
    BY RankRises
  <2>2. i \in 1 .. n /\ i - 1 = Rank(S, m)
    BY <1>1, <2>1
  <2> HIDE DEF i
  <2>3. s[i] \in S /\ Rank(S, s[i]) = Rank(S, m)
    BY <1>1, <2>2 DEF Ranked
  <2>4. s[i] = m
    BY <2>3, RankTells
  <2> QED  BY <2>2, <2>4
<1> QED  BY <1>1, <1>2, <1>3, <1>4

\* A new greatest member comes last.
LEMMA OrderGrows ==
    ASSUME NEW S, Finite(S), NEW m \in Nat, \A k \in S : k < m,
           NEW T, T = S \cup {m}, NEW s, NEW t, Ranked(s, S), Ranked(t, T)
    PROVE  Len(s) <= Len(t) /\ \A i \in 1 .. Len(s) : s[i] = t[i]
<1> DEFINE n == Cardinality(S)
<1>0. S \in SUBSET Nat /\ IsFiniteSet(S) /\ \A k \in S : k \in Nat /\ k < m
  BY DEF Finite
<1>1. Finite(T) /\ n \in Nat /\ Cardinality(T) = n + 1
  <2>1. m \notin S
    BY <1>0
  <2> QED  BY <1>0, <2>1, FS_AddElement, FS_CardinalityType DEF Finite
<1>2. s \in [1 .. n -> S] /\ t \in [1 .. n + 1 -> T]
  BY <1>1 DEF Ranked
<1>3. Len(s) = n /\ Len(t) = n + 1
  BY <1>1, <1>2
<1>4. ASSUME NEW i \in 1 .. n PROVE s[i] = t[i]
  <2>1. i \in 1 .. n + 1 /\ s[i] \in S /\ s[i] \in T /\ t[i] \in T
    BY <1>1, <1>2
  <2>2. {k \in T : k < s[i]} = {k \in S : k < s[i]}
    <3>1. s[i] \in Nat /\ s[i] < m
      BY <1>0, <2>1
    <3>2. ~(m < s[i])
      BY <3>1
    <3> QED  BY <3>2
  <2>3. Rank(T, s[i]) = Rank(S, s[i])
    BY <2>2 DEF Rank
  <2>4. Rank(S, s[i]) = i - 1
    BY DEF Ranked
  <2>5. Rank(T, t[i]) = i - 1
    BY <1>1, <2>1 DEF Ranked
  <2> QED  BY <1>1, <2>1, <2>3, <2>4, <2>5, RankTells
<1> QED  BY <1>1, <1>3, <1>4

(***************************************************************************)
(* How paths hang together.                                                *)
(***************************************************************************)

\* A path is created after its parent, and only a live one has a parent.
Rising ==
    \A p \in PathIds : /\ paths[p].parent < p
                       /\ paths[p].state # "live" => paths[p].parent = 0

\* Path ids are handed out in order.
PathsHanded ==
    \A p, q \in PathIds : p < q /\ paths[q].state # "none" => paths[p].state # "none"

\* Every step keeps the order in which path ids are handed out.
LEMMA PathsHandedStep == TypeOK /\ Numbered /\ PathsHanded /\ [Next]_vars => PathsHanded'
<1> SUFFICES ASSUME TypeOK, Numbered, PathsHanded, [Next]_vars PROVE PathsHanded'
  OBVIOUS
<1>1. CASE UNCHANGED paths
  BY <1>1 DEF PathsHanded
<1>2. ASSUME NEW p \in PathIds, NEW parent, NEW branch, NEW primary,
             InsertPath(p, parent, branch, primary)
      PROVE  PathsHanded'
  <2>1. \A q \in PathIds : q < p => paths[q].state # "none"
    BY <1>2 DEF InsertPath, FreshPath, PathIds
  <2> QED  BY <1>2, <2>1, InsertPathEffect DEF PathsHanded
<1>3. ASSUME NEW p \in PathIds, Delete(p) PROVE PathsHanded'
  <2>1. \A q \in PathIds : paths'[q].state = "none" <=> paths[q].state = "none"
    BY <1>3, DeleteEffect DEF Delete, LivePath
  <2> QED  BY <2>1 DEF PathsHanded
<1>4. ASSUME NEW g \in Mergers, Mark(g) PROVE PathsHanded'
  BY <1>4, MarkEffect DEF PathsHanded
<1> QED  BY <1>1, <1>2, <1>3, <1>4, TableSteps

\* Every step keeps parents before their children.
LEMMA RisingStep ==
    TypeOK /\ Numbered /\ Homes /\ PathsHanded /\ Rising /\ [Next]_vars => Rising'
<1> SUFFICES ASSUME TypeOK, Numbered, Homes, PathsHanded, Rising, [Next]_vars PROVE Rising'
  OBVIOUS
<1>1. CASE UNCHANGED paths
  BY <1>1 DEF Rising
<1>2. ASSUME NEW p \in PathIds, NEW parent \in PathIds \cup {0}, NEW branch, NEW primary,
             Hangs(parent, branch), InsertPath(p, parent, branch, primary)
      PROVE  Rising'
  <2>1. parent < p
    <3>1. CASE parent = 0
      BY <3>1 DEF PathIds
    <3>2. CASE parent # 0
      <4>1. paths[parent].state = "live" /\ parent \in PathIds
        BY <1>2, <3>2 DEF Hangs, Homes, LiveMessage, LivePath
      <4>2. paths[p].state = "none"
        BY <1>2, InsertPathEffect
      <4>3. ~(p < parent) /\ p # parent
        BY <4>1, <4>2 DEF PathsHanded
      <4> QED  BY <4>1, <4>3 DEF PathIds
    <3> QED  BY <3>1, <3>2
  <2> QED  BY <1>2, <2>1, InsertPathEffect DEF Rising
<1>3. ASSUME NEW p \in PathIds, Delete(p) PROVE Rising'
  <2>1. paths'[p].state = "gone" /\ paths'[p].parent = 0
    BY <1>3 DEF Delete, NoPath
  <2>2. \A q \in PathIds \ {p} :
            /\ paths'[q].state = paths[q].state
            /\ paths'[q].parent \in {0, paths[q].parent}
    BY <1>3, DeleteEffect
  <2>3. \A q \in PathIds : 0 < q
    BY DEF PathIds
  <2> QED  BY <2>1, <2>2, <2>3 DEF Rising
<1>4. ASSUME NEW g \in Mergers, Mark(g) PROVE Rising'
  BY <1>4, MarkEffect DEF Rising
<1> QED  BY <1>1, <1>2, <1>3, <1>4, TableSteps


\* A path that survives a step together with its parent keeps its row's place in the tree.
LEMMA BranchStays ==
    ASSUME TypeOK, Numbered, BranchPointInParent, [Next]_vars, NEW p \in PathIds,
           LivePath(p), LivePath(p)',
           paths[p].parent # 0 => paths'[paths[p].parent].state = "live"
    PROVE  paths'[p].parent = paths[p].parent /\ paths'[p].branch = paths[p].branch
<1>1. CASE UNCHANGED paths
  BY <1>1
<1>2. ASSUME NEW q \in PathIds, NEW parent, NEW branch, NEW primary,
             InsertPath(q, parent, branch, primary)
      PROVE  paths'[p] = paths[p]
  BY <1>2, InsertPathEffect DEF LivePath
<1>3. ASSUME NEW q \in PathIds, Delete(q)
      PROVE  paths'[p].parent = paths[p].parent /\ paths'[p].branch = paths[p].branch
  <2>1. paths'[q].state = "gone"
    BY <1>3, DeleteEffect
  <2>2. p # q /\ paths[p].parent # q
    BY <2>1, NullIsNoId DEF LivePath
  <2>3. paths[p].branch \notin Own(q)
    <3>1. CASE paths[p].branch = 0
      BY <3>1, NullIsNoId DEF Own
    <3>2. CASE paths[p].branch # 0
      BY <2>2, <3>2 DEF BranchPointInParent, Own
    <3> QED  BY <3>1, <3>2
  <2> QED  BY <1>3, <2>2, <2>3, DeleteEffect
<1>4. ASSUME NEW g \in Mergers, Mark(g)
      PROVE  paths'[p].parent = paths[p].parent /\ paths'[p].branch = paths[p].branch
  BY <1>4, MarkEffect
<1> QED  BY <1>1, <1>2, <1>3, <1>4, TableSteps

\* What a step does to the messages of a path that survives it: nothing, or the last one
\* is new.
LEMMA OwnStays ==
    ASSUME TypeOK, Numbered, Handed, [Next]_vars, NEW p \in PathIds, LivePath(p), LivePath(p)'
    PROVE  \/ Own(p)' = Own(p)
           \/ \E m \in MessageIds : Own(p)' = Own(p) \cup {m} /\ \A k \in Own(p) : k < m
<1>1. CASE UNCHANGED msgs
  BY <1>1 DEF Own
<1>2. ASSUME NEW m \in MessageIds, NEW q \in PathIds, NEW number, NEW from,
             InsertMessage(m, q, number, from)
      PROVE  \/ Own(p)' = Own(p)
             \/ Own(p)' = Own(p) \cup {m} /\ \A k \in Own(p) : k < m
  <2>1. msgs[m].state = "none"
    BY <1>2, InsertMessageEffect
  <2>2. \A k \in Own(p) : k < m
    BY <2>1 DEF Own, Handed, MessageIds
  <2> QED  BY <1>2, <2>2, InsertMessageEffect
<1>3. ASSUME NEW q \in PathIds, Delete(q) PROVE Own(p)' = Own(p)
  BY <1>3, DeleteEffect DEF LivePath
<1>4. ASSUME NEW g \in Mergers, Mark(g) PROVE Own(p)' = Own(p)
  <2>1. msgs' = msgs
    BY <1>4, MarkEffect
  <2> QED  BY <2>1 DEF Own
<1> QED  BY <1>1, <1>2, <1>3, <1>4, TableSteps

(***************************************************************************)
(* A path's own messages.                                                  *)
(***************************************************************************)

\* A path's own messages are finitely many ids.
LEMMA OwnFinite == \A p : Finite(Own(p))
<1>1. MaxMessages \in Nat /\ IsFiniteSet(MessageIds)
  BY ConversationAssumption, FS_Interval DEF MessageIds
<1>2. \A p : Own(p) \in SUBSET MessageIds
  BY DEF Own
<1>3. MessageIds \in SUBSET Nat
  BY <1>1 DEF MessageIds
<1> QED  BY <1>1, <1>2, <1>3, FS_Subset DEF Finite

\* The numbers of the messages give them the order of their ids.
LEMMA OwnRanked == TypeOK /\ Sequential => \A p \in PathIds : Ranked(OwnInOrder(p), Own(p))
<1> SUFFICES ASSUME TypeOK, Sequential, NEW p \in PathIds PROVE Ranked(OwnInOrder(p), Own(p))
  OBVIOUS
<1> DEFINE S == Own(p)
           Before(k, m) == \/ msgs[k].seq < msgs[m].seq
                           \/ msgs[k].seq = msgs[m].seq /\ k < m
<1>1. ASSUME NEW m \in S PROVE {k \in S : Before(k, m)} = {k \in S : k < m}
  <2>1. ASSUME NEW k \in S PROVE Before(k, m) <=> k < m
    <3>1. k \in Nat /\ m \in Nat /\ msgs[k].seq \in Nat /\ msgs[m].seq \in Nat
      BY ConversationAssumption DEF TypeOK, Own, MessageIds, Message
    <3>2. /\ k < m => msgs[k].seq < msgs[m].seq
          /\ m < k => msgs[m].seq < msgs[k].seq
      BY DEF Sequential
    <3> QED  BY <3>1, <3>2
  <2> QED  BY <2>1
<1>2. OwnInOrder(p) = [i \in 1 .. Cardinality(S) |->
                         CHOOSE m \in S : Cardinality({k \in S : Before(k, m)}) = i - 1]
  BY DEF OwnInOrder, InOrder
<1>3. \A m \in S : Cardinality({k \in S : Before(k, m)}) = Rank(S, m)
  BY <1>1 DEF Rank
<1> HIDE DEF S, Before
<1>4. ASSUME NEW i \in 1 .. Cardinality(S)
      PROVE  OwnInOrder(p)[i] \in S /\ Rank(S, OwnInOrder(p)[i]) = i - 1
  <2>1. \E m \in S : Cardinality({k \in S : Before(k, m)}) = i - 1
    BY <1>3, OwnFinite, RankOnto DEF S
  <2>2. OwnInOrder(p)[i] = CHOOSE m \in S : Cardinality({k \in S : Before(k, m)}) = i - 1
    BY <1>2
  <2>3. OwnInOrder(p)[i] \in S /\ Cardinality({k \in S : Before(k, OwnInOrder(p)[i])}) = i - 1
    BY <2>1, <2>2
  <2> QED  BY <1>3, <2>3
<1>5. OwnInOrder(p) \in [1 .. Cardinality(S) -> S]
  <2> DEFINE I == 1 .. Cardinality(S)
             e(i) == CHOOSE m \in S : Cardinality({k \in S : Before(k, m)}) = i - 1
  <2>1. OwnInOrder(p) = [i \in I |-> e(i)]
    BY <1>2
  <2>2. \A i \in I : OwnInOrder(p)[i] \in S
    BY <1>4
  <2> HIDE DEF I, e
  <2>3. OwnInOrder(p) \in [I -> S]
    BY <2>1, <2>2
  <2> QED  BY <2>3 DEF I
<1>6. Ranked(OwnInOrder(p), S)
  BY <1>4, <1>5 DEF Ranked
<1> QED  BY <1>6 DEF S

(***************************************************************************)
(* Beginnings.                                                             *)
(***************************************************************************)

\* s is the beginning of t.
Begins(s, t) == Len(s) <= Len(t) /\ \A i \in 1 .. Len(s) : s[i] = t[i]

\* b is at position i of a view, and nowhere before.
FirstAt(view, b, i) ==
    i \in 1 .. Len(view) /\ view[i] = b /\ \A j \in 1 .. Len(view) : j < i => view[j] # b

\* UpTo cuts at the first occurrence, and leaves nothing if there is none.
LEMMA UpToCuts ==
    ASSUME NEW view \in Seq(MessageIds), NEW b
    PROVE  \/ \E i \in 1 .. Len(view) : FirstAt(view, b, i) /\ UpTo(view, b) = SubSeq(view, 1, i)
           \/ (\A j \in 1 .. Len(view) : view[j] # b) /\ UpTo(view, b) = <<>>
<1> DEFINE I == {i \in 1 .. Len(view) : view[i] = b}
           at == IF I # {} THEN Min(I) ELSE 0
<1>1. UpTo(view, b) = SubSeq(view, 1, at)
  BY DEF UpTo, SelectInSeq
<1>2. CASE I = {}
  <2>1. SubSeq(view, 1, 0) = <<>>
    OBVIOUS
  <2>2. \A j \in 1 .. Len(view) : view[j] # b
    BY <1>2
  <2> QED  BY <1>1, <1>2, <2>1, <2>2
<1>3. CASE I # {}
  <2>1. I \subseteq Nat
    OBVIOUS
  <2>2. \E i \in I : \A j \in I : i <= j
    <3> HIDE DEF I
    <3> QED  BY <1>3, <2>1, LeastMember
  <2>3. at = CHOOSE i \in I : \A j \in I : i <= j
    BY <1>3 DEF Min
  <2>4. at \in I /\ \A j \in I : at <= j
    <3> HIDE DEF I, at
    <3> QED  BY <2>2, <2>3
  <2> HIDE DEF at
  <2>5. FirstAt(view, b, at)
    <3>1. at \in 1 .. Len(view) /\ view[at] = b
      BY <2>4
    <3>2. ASSUME NEW j \in 1 .. Len(view), j < at PROVE view[j] # b
      <4>1. at \in Nat /\ j \in Nat /\ ~(at <= j)
        BY <3>1, <3>2
      <4> QED  BY <2>4, <4>1
    <3> QED  BY <3>1, <3>2 DEF FirstAt
  <2> QED  BY <1>1, <2>5 DEF FirstAt
<1> QED  BY <1>2, <1>3

\* What is cut out of a view is one.
LEMMA UpToType ==
    ASSUME NEW view \in Seq(MessageIds), NEW b
    PROVE  UpTo(view, b) \in Seq(MessageIds)
<1>1. CASE \E i \in 1 .. Len(view) : UpTo(view, b) = SubSeq(view, 1, i)
  BY <1>1
<1>2. CASE UpTo(view, b) = <<>>
  BY <1>2
<1> QED  BY <1>1, <1>2, UpToCuts

\* What comes after the branch point does not matter.
LEMMA UpToBegins ==
    ASSUME NEW s \in Seq(MessageIds), NEW t \in Seq(MessageIds), Begins(s, t),
           NEW b, \E i \in 1 .. Len(s) : s[i] = b
    PROVE  UpTo(s, b) = UpTo(t, b)
<1>1. Len(s) \in Nat /\ Len(t) \in Nat /\ Len(s) <= Len(t) /\ \A i \in 1 .. Len(s) : s[i] = t[i]
  BY DEF Begins
<1>2. PICK i \in 1 .. Len(s) : FirstAt(s, b, i) /\ UpTo(s, b) = SubSeq(s, 1, i)
  BY UpToCuts
<1>3. FirstAt(t, b, i)
  <2>1. i \in 1 .. Len(t) /\ t[i] = b
    BY <1>1, <1>2 DEF FirstAt
  <2>2. ASSUME NEW j \in 1 .. Len(t), j < i PROVE t[j] # b
    <3>1. j \in 1 .. Len(s)
      BY <1>1, <2>2
    <3> QED  BY <1>1, <1>2, <2>2, <3>1 DEF FirstAt
  <2> QED  BY <2>1, <2>2 DEF FirstAt
<1>4. UpTo(t, b) = SubSeq(t, 1, i)
  <2>1. PICK k \in 1 .. Len(t) : FirstAt(t, b, k) /\ UpTo(t, b) = SubSeq(t, 1, k)
    BY <1>3, UpToCuts DEF FirstAt
  <2>2. k = i
    <3>1. i \in 1 .. Len(t) /\ t[i] = b /\ t[k] = b
      BY <1>3, <2>1 DEF FirstAt
    <3>2. ~(i < k) /\ ~(k < i)
      BY <1>3, <2>1, <3>1 DEF FirstAt
    <3> QED  BY <1>1, <3>1, <3>2
  <2> QED  BY <2>1, <2>2
<1>5. SubSeq(s, 1, i) = SubSeq(t, 1, i)
  BY <1>1, <1>2
<1> QED  BY <1>2, <1>4, <1>5

\* A beginning of the second part makes a beginning of the whole.
LEMMA BeginsAfter ==
    ASSUME NEW r \in Seq(MessageIds), NEW s \in Seq(MessageIds), NEW t \in Seq(MessageIds),
           Begins(s, t)
    PROVE  Begins(r \o s, r \o t)
<1>1. /\ Len(r \o s) = Len(r) + Len(s) /\ Len(r \o t) = Len(r) + Len(t)
      /\ Len(r) \in Nat /\ Len(s) \in Nat /\ Len(t) \in Nat
  OBVIOUS
<1>2. Len(s) <= Len(t) /\ \A i \in 1 .. Len(s) : s[i] = t[i]
  BY DEF Begins
<1>3. ASSUME NEW i \in 1 .. Len(r) + Len(s) PROVE (r \o s)[i] = (r \o t)[i]
  BY <1>1, <1>2
<1> QED  BY <1>1, <1>2, <1>3 DEF Begins

(***************************************************************************)
(* The recursive functions: a parent is a smaller number, so that each is  *)
(* built up number by number.                                              *)
(***************************************************************************)

\* The ids and NULL.
LEMMA Numbers == MaxPaths \in Nat /\ PathIds \cup {0} = 0 .. MaxPaths
  BY ConversationAssumption DEF PathIds

\* View is what its definition says of each path in terms of its parent.
LEMMA ViewUnfolds ==
    TypeOK /\ Rising => View = [p \in PathIds \cup {0} |->
                        IF ~LivePath(p) THEN <<>>
                        ELSE UpTo(View[paths[p].parent], paths[p].branch) \o OwnInOrder(p)]
<1> SUFFICES ASSUME TypeOK, Rising
             PROVE  View = [p \in PathIds \cup {0} |->
                        IF ~LivePath(p) THEN <<>>
                        ELSE UpTo(View[paths[p].parent], paths[p].branch) \o OwnInOrder(p)]
  OBVIOUS
<1> DEFINE body(v, p) == IF ~LivePath(p) THEN <<>>
                         ELSE UpTo(v, paths[p].branch) \o OwnInOrder(p)
           N == MaxPaths
           T == {k \in 0 .. N : \E g : g = [p \in 0 .. k |-> body(g[paths[p].parent], p)]}
<1>1. \A p \in PathIds : paths[p].parent < p
  BY DEF Rising
<1>2. N \in Nat /\ PathIds \cup {0} = 0 .. N /\ ~LivePath(0)
  BY Numbers, NullIsNoId DEF LivePath
<1>3. \A p \in 0 .. N : LivePath(p) => paths[p].parent \in 0 .. N /\ paths[p].parent < p
  <2>1. \A p \in 0 .. N : LivePath(p) => paths[p].parent \in PathIds \cup {0}
    BY DEF LivePath, TypeOK, Path
  <2> QED  BY <1>1, <1>2, <2>1 DEF LivePath
<1> HIDE DEF N
<1>4. ASSUME NEW k \in 0 .. N, \A q \in 0 .. N : q < k => q \in T PROVE k \in T
  <2>1. CASE k = 0
    <3> DEFINE g == [p \in 0 .. k |-> <<>>]
    <3>1. \A p \in 0 .. k : p = 0
      BY <2>1
    <3>2. g = [p \in 0 .. k |-> body(g[paths[p].parent], p)]
      BY <1>2, <3>1
    <3> HIDE DEF g, body
    <3> QED  BY <3>2
  <2>2. CASE k # 0
    <3> DEFINE l == k - 1
    <3>1. l \in 0 .. N /\ l < k /\ \A p \in 0 .. k : p < k <=> p \in 0 .. l
      BY <1>2, <2>2
    <3> HIDE DEF l, body
    <3>2. PICK g : g = [p \in 0 .. l |-> body(g[paths[p].parent], p)]
      BY <1>4, <3>1
    <3> DEFINE h == [p \in 0 .. k |-> IF p < k THEN g[p] ELSE body(g[paths[p].parent], p)]
    <3>3. ASSUME NEW p \in 0 .. k PROVE h[p] = body(h[paths[p].parent], p)
      <4>1. CASE LivePath(p)
        <5>1. paths[p].parent \in 0 .. k /\ paths[p].parent < k
          BY <1>2, <1>3, <4>1
        <5>2. h[paths[p].parent] = g[paths[p].parent]
          BY <5>1
        <5>3. p < k => g[p] = body(g[paths[p].parent], p)
          BY <3>1, <3>2
        <5>4. h[p] = body(g[paths[p].parent], p)
          BY <5>3
        <5> QED  BY <5>2, <5>4
      <4>2. CASE ~LivePath(p)
        <5>1. \A v, w : body(v, p) = body(w, p)
          BY <4>2 DEF body
        <5>2. p < k => g[p] = body(g[paths[p].parent], p)
          BY <3>1, <3>2
        <5>3. h[p] = body(g[paths[p].parent], p)
          BY <5>2
        <5> QED  BY <5>1, <5>3
      <4> QED  BY <4>1, <4>2
    <3>4. h = [p \in 0 .. k |-> body(h[paths[p].parent], p)]
      <4>1. h = [p \in 0 .. k |-> h[p]]
        OBVIOUS
      <4> HIDE DEF h
      <4> QED  BY <3>3, <4>1
    <3> HIDE DEF h
    <3> QED  BY <3>4
  <2> QED  BY <2>1, <2>2
<1>5. N \in T
  <2> HIDE DEF T
  <2>1. \A k \in 0 .. N : (\A q \in 0 .. N : q < k => q \in T) => k \in T
    BY <1>4
  <2>2. \A k \in 0 .. N : k \in T
    BY <1>2, <2>1, Ascend
  <2> QED  BY <1>2, <2>2
<1>6. \E g : g = [p \in PathIds \cup {0} |-> body(g[paths[p].parent], p)]
  BY <1>2, <1>5
<1>7. View = [p \in PathIds \cup {0} |-> body(View[paths[p].parent], p)]
  BY <1>6 DEF View
<1> QED  BY <1>7

\* The number of a path's branch point, and the entries of the path's own messages.
At(p) == IF paths[p].branch = 0 THEN 0 ELSE msgs[paths[p].branch].seq

Entries(p) ==
    [i \in 1 .. Len(OwnInOrder(p)) |->
        [id |-> OwnInOrder(p)[i], eff |-> At(p) + msgs[OwnInOrder(p)[i]].seq]]

\* So is RpcView.
LEMMA RpcUnfolds ==
    TypeOK /\ Rising => RpcView = [p \in PathIds \cup {0} |->
                        IF ~LivePath(p) THEN <<>>
                        ELSE Keep(RpcView[paths[p].parent], At(p)) \o Entries(p)]
<1> SUFFICES ASSUME TypeOK, Rising
             PROVE  RpcView = [p \in PathIds \cup {0} |->
                        IF ~LivePath(p) THEN <<>>
                        ELSE Keep(RpcView[paths[p].parent], At(p)) \o Entries(p)]
  OBVIOUS
<1> DEFINE body(v, p) == IF ~LivePath(p) THEN <<>>
                         ELSE Keep(v, At(p)) \o Entries(p)
           N == MaxPaths
           T == {k \in 0 .. N : \E g : g = [p \in 0 .. k |-> body(g[paths[p].parent], p)]}
<1>1. \A p \in PathIds : paths[p].parent < p
  BY DEF Rising
<1>2. N \in Nat /\ PathIds \cup {0} = 0 .. N /\ ~LivePath(0)
  BY Numbers, NullIsNoId DEF LivePath
<1>3. \A p \in 0 .. N : LivePath(p) => paths[p].parent \in 0 .. N /\ paths[p].parent < p
  <2>1. \A p \in 0 .. N : LivePath(p) => paths[p].parent \in PathIds \cup {0}
    BY DEF LivePath, TypeOK, Path
  <2> QED  BY <1>1, <1>2, <2>1 DEF LivePath
<1> HIDE DEF N
<1>4. ASSUME NEW k \in 0 .. N, \A q \in 0 .. N : q < k => q \in T PROVE k \in T
  <2>1. CASE k = 0
    <3> DEFINE g == [p \in 0 .. k |-> <<>>]
    <3>1. \A p \in 0 .. k : p = 0
      BY <2>1
    <3>2. g = [p \in 0 .. k |-> body(g[paths[p].parent], p)]
      BY <1>2, <3>1
    <3> HIDE DEF g, body
    <3> QED  BY <3>2
  <2>2. CASE k # 0
    <3> DEFINE l == k - 1
    <3>1. l \in 0 .. N /\ l < k /\ \A p \in 0 .. k : p < k <=> p \in 0 .. l
      BY <1>2, <2>2
    <3> HIDE DEF l, body
    <3>2. PICK g : g = [p \in 0 .. l |-> body(g[paths[p].parent], p)]
      BY <1>4, <3>1
    <3> DEFINE h == [p \in 0 .. k |-> IF p < k THEN g[p] ELSE body(g[paths[p].parent], p)]
    <3>3. ASSUME NEW p \in 0 .. k PROVE h[p] = body(h[paths[p].parent], p)
      <4>1. CASE LivePath(p)
        <5>1. paths[p].parent \in 0 .. k /\ paths[p].parent < k
          BY <1>2, <1>3, <4>1
        <5>2. h[paths[p].parent] = g[paths[p].parent]
          BY <5>1
        <5>3. p < k => g[p] = body(g[paths[p].parent], p)
          BY <3>1, <3>2
        <5>4. h[p] = body(g[paths[p].parent], p)
          BY <5>3
        <5> QED  BY <5>2, <5>4
      <4>2. CASE ~LivePath(p)
        <5>1. \A v, w : body(v, p) = body(w, p)
          BY <4>2 DEF body
        <5>2. p < k => g[p] = body(g[paths[p].parent], p)
          BY <3>1, <3>2
        <5>3. h[p] = body(g[paths[p].parent], p)
          BY <5>2
        <5> QED  BY <5>1, <5>3
      <4> QED  BY <4>1, <4>2
    <3>4. h = [p \in 0 .. k |-> body(h[paths[p].parent], p)]
      <4>1. h = [p \in 0 .. k |-> h[p]]
        OBVIOUS
      <4> HIDE DEF h
      <4> QED  BY <3>3, <4>1
    <3> HIDE DEF h
    <3> QED  BY <3>4
  <2> QED  BY <2>1, <2>2
<1>5. N \in T
  <2> HIDE DEF T
  <2>1. \A k \in 0 .. N : (\A q \in 0 .. N : q < k => q \in T) => k \in T
    BY <1>4
  <2>2. \A k \in 0 .. N : k \in T
    BY <1>2, <2>1, Ascend
  <2> QED  BY <1>2, <2>2
<1>6. \E g : g = [p \in PathIds \cup {0} |-> body(g[paths[p].parent], p)]
  BY <1>2, <1>5
<1>7. RpcView = [p \in PathIds \cup {0} |-> body(RpcView[paths[p].parent], p)]
  BY <1>6 DEF RpcView, At, Entries
<1> QED  BY <1>7
\* A path's ancestors are itself and those of its parent.
LEMMA AncestorsUnfold ==
    TypeOK /\ Rising =>
        /\ Ancestors(0) = {}
        /\ \A p \in PathIds : Ancestors(p) = {p} \cup Ancestors(paths[p].parent)
<1> SUFFICES ASSUME TypeOK, Rising
             PROVE  /\ Ancestors(0) = {}
                    /\ \A p \in PathIds : Ancestors(p) = {p} \cup Ancestors(paths[p].parent)
  OBVIOUS
<1> DEFINE body(v, p) == IF p = 0 THEN {} ELSE {p} \cup v
           N == MaxPaths
           T == {k \in 0 .. N : \E g : g = [p \in 0 .. k |-> body(g[paths[p].parent], p)]}
<1>1. \A p \in PathIds : paths[p].parent < p
  BY DEF Rising
<1>2. N \in Nat /\ PathIds \cup {0} = 0 .. N /\ 0 \notin PathIds
  BY Numbers, NullIsNoId
<1>3. \A p \in 0 .. N : p # 0 => paths[p].parent \in 0 .. N /\ paths[p].parent < p
  <2>1. \A p \in PathIds : paths[p].parent \in PathIds \cup {0}
    BY DEF TypeOK, Path
  <2>2. \A p \in 0 .. N : p # 0 => p \in PathIds
    BY <1>2
  <2> QED  BY <1>1, <1>2, <2>1, <2>2
<1> HIDE DEF N
<1>4. ASSUME NEW k \in 0 .. N, \A q \in 0 .. N : q < k => q \in T PROVE k \in T
  <2>1. CASE k = 0
    <3> DEFINE g == [p \in 0 .. k |-> {}]
    <3>1. \A p \in 0 .. k : p = 0
      BY <2>1
    <3>2. g = [p \in 0 .. k |-> body(g[paths[p].parent], p)]
      BY <1>2, <3>1
    <3> HIDE DEF g, body
    <3> QED  BY <3>2
  <2>2. CASE k # 0
    <3> DEFINE l == k - 1
    <3>1. l \in 0 .. N /\ l < k /\ \A p \in 0 .. k : p < k <=> p \in 0 .. l
      BY <1>2, <2>2
    <3> HIDE DEF l, body
    <3>2. PICK g : g = [p \in 0 .. l |-> body(g[paths[p].parent], p)]
      BY <1>4, <3>1
    <3> DEFINE h == [p \in 0 .. k |-> IF p < k THEN g[p] ELSE body(g[paths[p].parent], p)]
    <3>3. ASSUME NEW p \in 0 .. k PROVE h[p] = body(h[paths[p].parent], p)
      <4>1. p < k => g[p] = body(g[paths[p].parent], p)
        BY <3>1, <3>2
      <4>2. h[p] = body(g[paths[p].parent], p)
        BY <4>1
      <4>3. CASE p # 0
        <5>1. paths[p].parent \in 0 .. k /\ paths[p].parent < k
          BY <1>2, <1>3, <4>3
        <5>2. h[paths[p].parent] = g[paths[p].parent]
          BY <5>1
        <5> QED  BY <4>2, <5>2
      <4>4. CASE p = 0
        <5>1. \A v, w : body(v, p) = body(w, p)
          BY <4>4 DEF body
        <5> QED  BY <4>2, <5>1
      <4> QED  BY <4>3, <4>4
    <3>4. h = [p \in 0 .. k |-> body(h[paths[p].parent], p)]
      <4>1. h = [p \in 0 .. k |-> h[p]]
        OBVIOUS
      <4> HIDE DEF h
      <4> QED  BY <3>3, <4>1
    <3> HIDE DEF h
    <3> QED  BY <3>4
  <2> QED  BY <2>1, <2>2
<1>5. N \in T
  <2> HIDE DEF T
  <2>1. \A k \in 0 .. N : (\A q \in 0 .. N : q < k => q \in T) => k \in T
    BY <1>4
  <2>2. \A k \in 0 .. N : k \in T
    BY <1>2, <2>1, Ascend
  <2> QED  BY <1>2, <2>2
<1> DEFINE above == CHOOSE g : g = [p \in PathIds \cup {0} |-> body(g[paths[p].parent], p)]
<1>6. above = [p \in PathIds \cup {0} |-> body(above[paths[p].parent], p)]
  <2>1. \E g : g = [p \in PathIds \cup {0} |-> body(g[paths[p].parent], p)]
    <3> HIDE DEF body
    <3>1. PathIds \cup {0} = 0 .. N
      BY <1>2
    <3>2. \E g : g = [p \in 0 .. N |-> body(g[paths[p].parent], p)]
      BY <1>5
    <3> QED  BY <3>1, <3>2
  <2> QED  BY <2>1
<1>7. \A p : Ancestors(p) = above[p]
  BY DEF Ancestors
<1> HIDE DEF above
<1>8. above[0] = {} /\ \A p \in PathIds : above[p] = {p} \cup above[paths[p].parent]
  BY <1>2, <1>6
<1> QED  BY <1>7, <1>8

(***************************************************************************)
(* The views.                                                              *)
(***************************************************************************)

\* Every view is a sequence of messages that has all of the path's own.
ViewShaped ==
    /\ View[0] = <<>>
    /\ \A p \in PathIds : LivePath(p) =>
        /\ View[p] = UpTo(View[paths[p].parent], paths[p].branch) \o OwnInOrder(p)
        /\ OwnInOrder(p) \in Seq(MessageIds)
    /\ \A p \in PathIds \cup {0} : View[p] \in Seq(MessageIds)
    /\ \A p \in PathIds : LivePath(p) =>
        \A m \in Own(p) : \E i \in 1 .. Len(View[p]) : View[p][i] = m

\* The order of a path's own messages is a sequence of them, and rises.
LEMMA OwnOrdered ==
    TypeOK /\ Sequential =>
        \A p \in PathIds :
            /\ OwnInOrder(p) \in Seq(MessageIds) /\ OwnInOrder(p) \in Seq(Own(p))
            /\ \A i, j \in 1 .. Len(OwnInOrder(p)) : i < j <=> OwnInOrder(p)[i] < OwnInOrder(p)[j]
            /\ \A m \in Own(p) : \E i \in 1 .. Len(OwnInOrder(p)) : OwnInOrder(p)[i] = m
<1> SUFFICES ASSUME TypeOK, Sequential, NEW p \in PathIds
    PROVE  /\ OwnInOrder(p) \in Seq(MessageIds) /\ OwnInOrder(p) \in Seq(Own(p))
           /\ \A i, j \in 1 .. Len(OwnInOrder(p)) : i < j <=> OwnInOrder(p)[i] < OwnInOrder(p)[j]
           /\ \A m \in Own(p) : \E i \in 1 .. Len(OwnInOrder(p)) : OwnInOrder(p)[i] = m
  OBVIOUS
<1>1. Ranked(OwnInOrder(p), Own(p)) /\ Finite(Own(p))
  BY OwnRanked, OwnFinite
<1>2. /\ OwnInOrder(p) \in Seq(Own(p))
      /\ \A i, j \in 1 .. Len(OwnInOrder(p)) : i < j <=> OwnInOrder(p)[i] < OwnInOrder(p)[j]
      /\ \A m \in Own(p) : \E i \in 1 .. Len(OwnInOrder(p)) : OwnInOrder(p)[i] = m
  BY <1>1, OrderRises
<1>3. OwnInOrder(p) \in Seq(MessageIds)
  <2>1. \A m \in Own(p) : m \in MessageIds
    BY DEF Own
  <2> QED  BY <1>2, <2>1
<1> QED  BY <1>2, <1>3

\* The views have that shape.
LEMMA ViewShape == TypeOK /\ Rising /\ Sequential => ViewShaped
<1> SUFFICES ASSUME TypeOK, Rising, Sequential PROVE ViewShaped
  OBVIOUS
<1>1. /\ View[0] = <<>>
      /\ \A p \in PathIds : ~LivePath(p) => View[p] = <<>>
      /\ \A p \in PathIds : LivePath(p) =>
            View[p] = UpTo(View[paths[p].parent], paths[p].branch) \o OwnInOrder(p)
  BY ViewUnfolds, NullIsNoId DEF LivePath
<1>2. \A p \in PathIds : /\ OwnInOrder(p) \in Seq(MessageIds)
                         /\ \A m \in Own(p) :
                              \E i \in 1 .. Len(OwnInOrder(p)) : OwnInOrder(p)[i] = m
  BY OwnOrdered
<1> DEFINE T == {p \in 0 .. MaxPaths : View[p] \in Seq(MessageIds)}
<1>3. ASSUME NEW p \in 0 .. MaxPaths, \A q \in 0 .. MaxPaths : q < p => q \in T PROVE p \in T
  <2>1. CASE ~LivePath(p)
    <3>1. View[p] = <<>>
      BY <1>1, <2>1, Numbers
    <3>2. <<>> \in Seq(MessageIds)
      OBVIOUS
    <3> QED  BY <3>1, <3>2
  <2>2. CASE LivePath(p)
    <3> DEFINE q == paths[p].parent
    <3>1. p \in PathIds /\ q \in 0 .. MaxPaths /\ q < p
      BY <2>2, Numbers DEF LivePath, TypeOK, Path, Rising
    <3>2. View[q] \in Seq(MessageIds)
      BY <1>3, <3>1
    <3>3. UpTo(View[q], paths[p].branch) \in Seq(MessageIds)
      BY <3>2, UpToType
    <3>4. View[p] = UpTo(View[q], paths[p].branch) \o OwnInOrder(p)
      BY <1>1, <2>2, <3>1
    <3> HIDE DEF q
    <3>5. View[p] \in Seq(MessageIds)
      BY <1>2, <3>1, <3>3, <3>4
    <3> QED  BY <3>5
  <2> QED  BY <2>1, <2>2
<1>4. \A p \in PathIds \cup {0} : View[p] \in Seq(MessageIds)
  <2> HIDE DEF T
  <2>1. \A p \in 0 .. MaxPaths : (\A q \in 0 .. MaxPaths : q < p => q \in T) => p \in T
    BY <1>3
  <2>2. \A p \in 0 .. MaxPaths : p \in T
    BY <2>1, Numbers, Ascend
  <2> QED  BY <2>2, Numbers DEF T
<1>5. ASSUME NEW p \in PathIds, LivePath(p), NEW m \in Own(p)
      PROVE  \E i \in 1 .. Len(View[p]) : View[p][i] = m
  <2> DEFINE u == UpTo(View[paths[p].parent], paths[p].branch)
             o == OwnInOrder(p)
  <2>1. View[p] = u \o o /\ o \in Seq(MessageIds)
    BY <1>1, <1>2, <1>5
  <2>2. u \in Seq(MessageIds)
    <3>1. paths[p].parent \in PathIds \cup {0}
      BY DEF TypeOK, Path
    <3> QED  BY <1>4, <3>1, UpToType
  <2>3. PICK i \in 1 .. Len(o) : o[i] = m
    BY <1>2
  <2> HIDE DEF u, o
  <2>4. Len(u) + i \in 1 .. Len(View[p]) /\ View[p][Len(u) + i] = m
    BY <2>1, <2>2, <2>3
  <2> QED  BY <2>4
<1> QED  BY <1>1, <1>2, <1>4, <1>5 DEF ViewShaped

\* OwnRanked in the next state.
LEMMA OwnRankedNext ==
    TypeOK' /\ Sequential' => \A p \in PathIds : Ranked(OwnInOrder(p)', Own(p)')
<1>1. (TypeOK /\ Sequential => \A p \in PathIds : Ranked(OwnInOrder(p), Own(p)))'
  BY OwnRanked, PTL
<1> QED  BY <1>1 DEF Ranked, Rank

\* The messages of a path that survives a step keep their places.
LEMMA OwnBegins ==
    ASSUME TypeOK, Numbered, Handed, Sequential, TypeOK', Sequential', [Next]_vars,
           NEW p \in PathIds, LivePath(p), LivePath(p)'
    PROVE  Begins(OwnInOrder(p), OwnInOrder(p)')
<1>1. Ranked(OwnInOrder(p), Own(p)) /\ Finite(Own(p))
  BY OwnRanked, OwnFinite
<1>2. Ranked(OwnInOrder(p)', Own(p)')
  BY OwnRankedNext
<1> DEFINE s == OwnInOrder(p)
           t == OwnInOrder(p)'
           S == Own(p)
           U == Own(p)'
<1>3. Ranked(s, S) /\ Ranked(t, U) /\ Finite(S)
  BY <1>1, <1>2
<1>4. U = S \/ \E m \in MessageIds : U = S \cup {m} /\ \A k \in S : k < m
  BY OwnStays
<1>5. \A m \in MessageIds : m \in Nat
  BY ConversationAssumption DEF MessageIds
<1> HIDE DEF s, t, S, U
<1>6. Len(s) \in Nat
  BY <1>3, OrderRises
<1>7. Len(s) <= Len(t) /\ \A i \in 1 .. Len(s) : s[i] = t[i]
  <2>1. CASE U = S
    <3>1. s = t
      BY <1>3, <2>1, OneOrder
    <3> QED  BY <1>6, <3>1
  <2>2. ASSUME NEW m \in MessageIds, U = S \cup {m}, \A k \in S : k < m
        PROVE  Len(s) <= Len(t) /\ \A i \in 1 .. Len(s) : s[i] = t[i]
    <3>1. m \in Nat
      BY <1>5
    <3>2. \A j \in S : j < m
      BY <2>2
    <3>3. U = S \cup {m}
      BY <2>2
    <3>4. Finite(S) /\ Ranked(s, S) /\ Ranked(t, U)
      BY <1>3
    <3> HIDE <1>3, <1>5, <2>2
    <3> QED  BY <3>1, <3>2, <3>3, <3>4, OrderGrows
  <2> QED  BY <1>4, <2>1, <2>2
<1> QED  BY <1>7 DEF Begins, s, t

\* ViewShape and the ancestors in the next state.
LEMMA NextShape ==
    TypeOK' /\ Rising' /\ Sequential' => ViewShaped'
<1>1. (TypeOK /\ Rising /\ Sequential => ViewShaped)'
  BY ViewShape, PTL
<1> QED  BY <1>1

\* What a branch inherits is there as long as its ancestors are: its view at most grows.
LEMMA ViewBegins ==
    ASSUME TypeOK, Numbered, Handed, BranchPointInParent, Rising, Sequential,
           TypeOK', Rising', Sequential', [Next]_vars,
           NEW p \in PathIds, LivePath(p), \A a \in Ancestors(p) : LivePath(a)'
    PROVE  /\ Begins(View[p], View'[p])
           /\ Inherited(p)' = Inherited(p)
<1> DEFINE Kept(q) == LivePath(q) /\ \A a \in Ancestors(q) : LivePath(a)'
           T == {q \in 0 .. MaxPaths : Kept(q) => Begins(View[q], View'[q])}
<1>1. ViewShaped /\ ViewShaped'
  BY ViewShape, NextShape
<1>2. ASSUME NEW q \in PathIds, Kept(q),
             LivePath(paths[q].parent) => Begins(View[paths[q].parent], View'[paths[q].parent])
      PROVE  /\ Begins(View[q], View'[q])
             /\ Inherited(q)' = Inherited(q)
  <2> DEFINE r == paths[q].parent
             b == paths[q].branch
  <2>1. r \in PathIds \cup {0} /\ (r # 0 => LivePath(r) /\ b \in Own(r)) /\ (r = 0 => b = 0)
    BY <1>2 DEF BranchPointInParent, TypeOK, Path
  <2>2. LivePath(q)' /\ (r # 0 => paths'[r].state = "live")
    <3>1. q \in Ancestors(q) /\ (r # 0 => r \in Ancestors(q))
      BY <2>1, AncestorsUnfold
    <3> HIDE DEF r
    <3> QED  BY <1>2, <3>1 DEF LivePath
  <2>3. paths'[q].parent = r /\ paths'[q].branch = b
    BY <1>2, <2>2, BranchStays
  <2>4. View[r] \in Seq(MessageIds) /\ View'[r] \in Seq(MessageIds)
    BY <1>1, <2>1 DEF ViewShaped
  <2>5. UpTo(View[r], b) = UpTo(View'[r], b)
    <3>1. CASE r = 0
      BY <1>1, <3>1 DEF ViewShaped
    <3>2. CASE r # 0
      <4>1. \E i \in 1 .. Len(View[r]) : View[r][i] = b
        BY <1>1, <2>1, <3>2 DEF ViewShaped
      <4>2. Begins(View[r], View'[r])
        BY <1>2, <2>1, <3>2
      <4> QED  BY <2>4, <4>1, <4>2, UpToBegins
    <3> QED  BY <3>1, <3>2
  <2>6. Begins(OwnInOrder(q), OwnInOrder(q)')
    BY <1>2, <2>2, OwnBegins
  <2>7. /\ View[q] = UpTo(View[r], b) \o OwnInOrder(q)
        /\ View'[q] = UpTo(View'[r], b) \o OwnInOrder(q)'
    BY <1>1, <1>2, <2>2, <2>3 DEF ViewShaped
  <2>8. OwnInOrder(q) \in Seq(MessageIds) /\ OwnInOrder(q)' \in Seq(MessageIds)
    BY <1>1, <1>2, <2>2 DEF ViewShaped
  <2>9. Begins(View[q], View'[q])
    BY <2>4, <2>5, <2>6, <2>7, <2>8, UpToType, BeginsAfter
  <2>10. Inherited(q) = UpTo(View[r], b) /\ Inherited(q)' = UpTo(View'[r], b)
    BY <2>3 DEF Inherited
  <2> QED  BY <2>5, <2>9, <2>10
<1>3. ASSUME NEW q \in PathIds, Kept(q)
      PROVE  LivePath(paths[q].parent) => Kept(paths[q].parent)
  BY <1>3, AncestorsUnfold
<1>4. ASSUME NEW q \in 0 .. MaxPaths, \A r \in 0 .. MaxPaths : r < q => r \in T, Kept(q)
      PROVE  Begins(View[q], View'[q])
  <2>1. q \in PathIds
    BY <1>4 DEF LivePath
  <2>2. paths[q].parent \in 0 .. MaxPaths /\ paths[q].parent < q
    BY <2>1, Numbers DEF TypeOK, Path, Rising
  <2>3. LivePath(paths[q].parent) => Begins(View[paths[q].parent], View'[paths[q].parent])
    <3> HIDE DEF Kept
    <3> QED  BY <1>3, <1>4, <2>1, <2>2
  <2> HIDE DEF Kept
  <2> QED  BY <1>2, <1>4, <2>1, <2>3
<1> HIDE DEF Kept
<1>5. \A q \in 0 .. MaxPaths : (\A r \in 0 .. MaxPaths : r < q => r \in T) => q \in T
  BY <1>4
<1>6. \A q \in 0 .. MaxPaths : Kept(q) => Begins(View[q], View'[q])
  <2> HIDE DEF T
  <2>1. \A q \in 0 .. MaxPaths : q \in T
    BY <1>5, Numbers, Ascend
  <2> QED  BY <2>1 DEF T
<1>7. Kept(p)
  BY DEF Kept
<1>8. LivePath(paths[p].parent) => Begins(View[paths[p].parent], View'[paths[p].parent])
  <2>1. paths[p].parent \in 0 .. MaxPaths
    BY Numbers DEF TypeOK, Path
  <2> QED  BY <1>3, <1>6, <1>7, <2>1
<1> QED  BY <1>2, <1>7, <1>8

\* What the resolutions rest on.
Resolvable == IInv /\ PathsHanded /\ Rising

\* It holds in every behaviour.
LEMMA ResolvableCorrect == Spec => []Resolvable
<1>1. Init => Resolvable
  <2> SUFFICES ASSUME Init PROVE Resolvable
    OBVIOUS
  <2>1. \A p \in PathIds : paths[p].state = "none" /\ paths[p].parent = 0 /\ 0 < p
    BY DEF Init, NoPath, PathIds
  <2> QED  BY <2>1, InvInit DEF Resolvable, PathsHanded, Rising
<1>2. Resolvable /\ [Next]_vars => Resolvable'
  BY InvStep, PathsHandedStep, RisingStep DEF Resolvable, IInv
<1> QED  BY <1>1, <1>2, PTL DEF Spec

\* What a branch inherits never changes as long as none of its ancestors is deleted and no
\* overlapping insert puts a message out of order.
THEOREM BranchesKeepTheirPast == Spec => BranchStable
<1>1. Resolvable /\ Resolvable' /\ [Next]_vars =>
        (UNCHANGED <<paths, msgs>> \/ (Sequential /\ Sequential' => \A p \in PathIds :
            /\ LivePath(p) /\ paths[p].branch # 0
            /\ \A a \in Ancestors(p) : LivePath(a)'
            => Inherited(p)' = Inherited(p)))
  BY ViewBegins DEF Resolvable, IInv
<1>2. Resolvable /\ Resolvable' /\ [Next]_vars =>
        [UNCHANGED <<paths, msgs>> \/ (Sequential /\ Sequential' => \A p \in PathIds :
            /\ LivePath(p) /\ paths[p].branch # 0
            /\ \A a \in Ancestors(p) : LivePath(a)'
            => Inherited(p)' = Inherited(p))]_vars
  BY <1>1
<1> QED  BY <1>2, ResolvableCorrect, PTL DEF Spec, BranchStable

(***************************************************************************)
(* The two forms of the resolution.                                        *)
(***************************************************************************)

\* The entries resolve_path_messages works with.
Entry == [id : MessageIds, eff : Nat]

\* The entries at the first k positions are the first k entries.
LEMMA PickFirst ==
    ASSUME NEW entries, NEW k \in Nat, NEW positions, positions = 1 .. k
    PROVE  Pick(entries, positions) = [j \in 1 .. k |-> entries[j]]
<1> DEFINE order == [i \in 1 .. Cardinality(positions) |->
                       CHOOSE m \in positions : Cardinality({j \in positions : j < m}) = i - 1]
           id == [i \in 1 .. k |-> i]
<1>1. Pick(entries, positions) = [j \in DOMAIN order |-> entries[order[j]]]
  BY DEF Pick, InOrder
<1>2. Finite(positions) /\ Cardinality(positions) = k
  BY FS_Interval DEF Finite
<1>3. Ranked(id, positions)
  <2>1. ASSUME NEW i \in 1 .. k PROVE Rank(positions, i) = i - 1
    <3>1. {j \in positions : j < i} = 1 .. (i - 1)
      OBVIOUS
    <3>2. Cardinality(1 .. (i - 1)) = i - 1
      BY FS_Interval
    <3> QED  BY <3>1, <3>2 DEF Rank
  <2> QED  BY <1>2, <2>1 DEF Ranked
<1>4. Ranked(order, positions)
  <2> DEFINE I == 1 .. Cardinality(positions)
             e(i) == CHOOSE m \in positions : Cardinality({j \in positions : j < m}) = i - 1
  <2>1. ASSUME NEW i \in I PROVE e(i) \in positions /\ Rank(positions, e(i)) = i - 1
    <3>1. \E m \in positions : Rank(positions, m) = i - 1
      BY <1>2, RankOnto
    <3>2. \E m \in positions : Cardinality({j \in positions : j < m}) = i - 1
      BY <3>1 DEF Rank
    <3> QED  BY <3>2 DEF Rank
  <2>2. order = [i \in I |-> e(i)]
    OBVIOUS
  <2> HIDE DEF order, e
  <2>3. order \in [I -> positions] /\ \A i \in I : Rank(positions, order[i]) = i - 1
    <3> HIDE DEF I
    <3> QED  BY <2>1, <2>2
  <2> QED  BY <2>3 DEF Ranked
<1>5. order = id
  <2> HIDE DEF order, id
  <2> QED  BY <1>2, <1>3, <1>4, OneOrder
<1>6. [j \in DOMAIN id |-> entries[id[j]]] = [j \in 1 .. k |-> entries[j]]
  OBVIOUS
<1> HIDE DEF order, id
<1> QED  BY <1>1, <1>5, <1>6

\* Where the effective numbers pass seq after k entries, Keep keeps those.
LEMMA KeepFirst ==
    ASSUME NEW entries \in Seq(Entry), NEW seq, NEW k \in 0 .. Len(entries),
           \A i \in 1 .. Len(entries) : entries[i].eff <= seq <=> i <= k
    PROVE  Keep(entries, seq) = [j \in 1 .. k |-> entries[j]]
<1> DEFINE positions == {i \in DOMAIN entries : entries[i].eff <= seq}
<1>1. positions = 1 .. k
  OBVIOUS
<1>2. Keep(entries, seq) = Pick(entries, positions)
  BY DEF Keep
<1> HIDE DEF positions
<1> QED  BY <1>1, <1>2, PickFirst

\* The ids of a path's own entries are its own messages.
LEMMA EntriesShape ==
    TypeOK /\ Sequential =>
        \A p \in PathIds :
            /\ Len(Entries(p)) = Len(OwnInOrder(p))
            /\ \A i \in 1 .. Len(OwnInOrder(p)) :
                 /\ Entries(p)[i].id = OwnInOrder(p)[i]
                 /\ Entries(p)[i].eff = At(p) + msgs[OwnInOrder(p)[i]].seq
            /\ Entries(p) \in Seq(Entry)
<1> SUFFICES ASSUME TypeOK, Sequential, NEW p \in PathIds
    PROVE  /\ Len(Entries(p)) = Len(OwnInOrder(p))
           /\ \A i \in 1 .. Len(OwnInOrder(p)) :
                /\ Entries(p)[i].id = OwnInOrder(p)[i]
                /\ Entries(p)[i].eff = At(p) + msgs[OwnInOrder(p)[i]].seq
           /\ Entries(p) \in Seq(Entry)
  OBVIOUS
<1> DEFINE o == OwnInOrder(p)
           n == Len(o)
<1>1. n \in Nat /\ \A i \in 1 .. n : o[i] \in MessageIds
  BY OwnOrdered
<1>2. At(p) \in Nat /\ \A m \in MessageIds : msgs[m].seq \in Nat
  BY ConversationAssumption DEF At, TypeOK, Message, Path, MessageIds
<1>3. Entries(p) = [i \in 1 .. n |-> [id |-> o[i], eff |-> At(p) + msgs[o[i]].seq]]
  BY DEF Entries
<1>4. \A i \in 1 .. n : [id |-> o[i], eff |-> At(p) + msgs[o[i]].seq] \in Entry
  BY <1>1, <1>2 DEF Entry
<1> HIDE DEF o, n
<1>5. Entries(p) \in Seq(Entry) /\ Len(Entries(p)) = n
  BY <1>1, <1>3, <1>4
<1>6. \A i \in 1 .. n : Entries(p)[i].id = o[i] /\ Entries(p)[i].eff = At(p) + msgs[o[i]].seq
  BY <1>3
<1> QED  BY <1>5, <1>6 DEF o, n

\* Of a path without a parent both forms show the path's own messages.
LEMMA RootAgrees ==
    ASSUME TypeOK, Rising, Sequential, BranchPointInParent,
           NEW p \in PathIds, LivePath(p), paths[p].parent = 0
    PROVE  View[p] = OwnInOrder(p) /\ RpcView[p] = Entries(p) /\ At(p) = 0
<1>1. paths[p].branch = 0 /\ At(p) = 0
  BY DEF BranchPointInParent, At
<1>2. View[0] = <<>> /\ View[p] = UpTo(View[0], 0) \o OwnInOrder(p)
  BY <1>1, ViewShape DEF ViewShaped
<1>3. OwnInOrder(p) \in Seq(MessageIds) /\ Entries(p) \in Seq(Entry)
  BY OwnOrdered, EntriesShape
<1>4. UpTo(<<>>, 0) = <<>>
  <2>1. <<>> \in Seq(MessageIds) /\ ~\E i \in 1 .. Len(<<>>) : TRUE
    OBVIOUS
  <2> QED  BY <2>1, UpToCuts
<1>5. RpcView[0] = <<>> /\ RpcView[p] = Keep(RpcView[0], 0) \o Entries(p)
  BY <1>1, RpcUnfolds, NullIsNoId DEF LivePath
<1>6. Keep(<<>>, 0) = <<>>
  <2> DEFINE none == <<>>
  <2>1. none \in Seq(Entry) /\ 0 \in 0 .. Len(none) /\ \A i \in 1 .. Len(none) : FALSE
    OBVIOUS
  <2>2. [j \in 1 .. 0 |-> none[j]] = none
    OBVIOUS
  <2> HIDE DEF none
  <2>3. Keep(none, 0) = [j \in 1 .. 0 |-> none[j]]
    BY <2>1, KeepFirst
  <2>4. Keep(none, 0) = none
    BY <2>2, <2>3
  <2> QED  BY <2>4 DEF none
<1>7. View[p] = OwnInOrder(p)
  BY <1>2, <1>3, <1>4
<1>8. RpcView[p] = Entries(p)
  BY <1>3, <1>5, <1>6
<1> QED  BY <1>1, <1>7, <1>8

\* The ids of two parts are those of the whole.
LEMMA IdsOf ==
    ASSUME NEW K \in Seq(Entry), NEW E \in Seq(Entry), NEW s \in Seq(MessageIds),
           NEW t \in Seq(MessageIds), Len(K) = Len(s), Len(E) = Len(t),
           \A i \in 1 .. Len(K) : K[i].id = s[i], \A i \in 1 .. Len(E) : E[i].id = t[i]
    PROVE  Ids(K \o E) = s \o t
<1> DEFINE n == Len(s) + Len(t)
<1>1. /\ n \in Nat /\ Len(s) \in Nat /\ Len(t) \in Nat
      /\ K \o E \in Seq(Entry) /\ Len(K \o E) = n
      /\ s \o t \in Seq(MessageIds) /\ Len(s \o t) = n
  <2>1. n \in Nat /\ Len(s) \in Nat /\ Len(t) \in Nat
    OBVIOUS
  <2>2. K \o E \in Seq(Entry) /\ Len(K \o E) = Len(K) + Len(E)
    BY ConcatProperties
  <2>3. s \o t \in Seq(MessageIds) /\ Len(s \o t) = n
    BY ConcatProperties
  <2> QED  BY <2>1, <2>2, <2>3
<1>2. ASSUME NEW i \in 1 .. n PROVE (K \o E)[i].id = (s \o t)[i]
  <2>1. CASE i <= Len(s)
    <3>1. (K \o E)[i] = K[i] /\ (s \o t)[i] = s[i] /\ i \in 1 .. Len(K)
      BY <1>1, <2>1
    <3> QED  BY <3>1
  <2>2. CASE ~(i <= Len(s))
    <3> DEFINE j == i - Len(s)
    <3>1. (K \o E)[i] = E[j] /\ (s \o t)[i] = t[j] /\ j \in 1 .. Len(E)
      BY <1>1, <2>2
    <3> HIDE DEF j
    <3> QED  BY <3>1
  <2> QED  BY <2>1, <2>2
<1> DEFINE u == K \o E
           v == s \o t
<1>3. u \in Seq(Entry) /\ v \in Seq(MessageIds) /\ Len(u) = n /\ Len(v) = n /\ n \in Nat
  BY <1>1
<1>4. \A i \in 1 .. n : u[i].id = v[i]
  BY <1>2
<1> HIDE DEF u, v, n
<1>5. DOMAIN u = 1 .. n /\ DOMAIN v = 1 .. n
  BY <1>3
<1>6. Ids(u) = [i \in 1 .. n |-> u[i].id] /\ v = [i \in 1 .. n |-> v[i]]
  BY <1>3, <1>5 DEF Ids
<1>7. Ids(u) = v
  BY <1>4, <1>6
<1> QED  BY <1>7 DEF u, v

\* The SQL function takes the parent's entries up to the branch point, too.
LEMMA KeepAtBranch ==
    ASSUME TypeOK, Sequential, NEW q \in PathIds, At(q) = 0, NEW b \in Own(q)
    PROVE  \E k \in 1 .. Len(OwnInOrder(q)) :
              /\ UpTo(OwnInOrder(q), b) = SubSeq(OwnInOrder(q), 1, k)
              /\ Keep(Entries(q), msgs[b].seq) = SubSeq(Entries(q), 1, k)
<1> DEFINE o == OwnInOrder(q)
           e == Entries(q)
<1>1. /\ o \in Seq(MessageIds) /\ o \in Seq(Own(q))
      /\ \A i, j \in 1 .. Len(o) : i < j <=> o[i] < o[j]
      /\ \A m \in Own(q) : \E i \in 1 .. Len(o) : o[i] = m
  BY OwnOrdered
<1>2. /\ Len(e) = Len(o) /\ e \in Seq(Entry)
      /\ \A i \in 1 .. Len(o) : e[i].eff = 0 + msgs[o[i]].seq
  BY EntriesShape
<1>3. PICK k \in 1 .. Len(o) : FirstAt(o, b, k) /\ UpTo(o, b) = SubSeq(o, 1, k)
  <2>1. o \in Seq(MessageIds) /\ \E i \in 1 .. Len(o) : o[i] = b
    BY <1>1
  <2> HIDE DEF o
  <2> QED  BY <2>1, UpToCuts
<1>4. o[k] = b
  BY <1>3 DEF FirstAt
<1>5. ASSUME NEW i \in 1 .. Len(e) PROVE e[i].eff <= msgs[b].seq <=> i <= k
  <2>1. i \in 1 .. Len(o) /\ o[i] \in Own(q) /\ b \in Own(q)
    BY <1>1, <1>2
  <2>2. /\ msgs[o[i]].seq \in Nat /\ msgs[b].seq \in Nat /\ o[i] \in Nat /\ b \in Nat
        /\ e[i].eff = msgs[o[i]].seq
    BY <1>2, <2>1, ConversationAssumption DEF Own, TypeOK, Message, MessageIds
  <2>3. /\ o[i] < b => msgs[o[i]].seq < msgs[b].seq
        /\ b < o[i] => msgs[b].seq < msgs[o[i]].seq
    BY <2>1 DEF Sequential
  <2>4. /\ i < k <=> o[i] < b
        /\ k < i <=> b < o[i]
    BY <1>1, <1>4, <2>1
  <2>5. i \in Nat /\ k \in Nat
    BY <2>1
  <2> HIDE DEF o, e
  <2>6. CASE i < k
    BY <2>2, <2>3, <2>4, <2>5, <2>6
  <2>7. CASE k < i
    BY <2>2, <2>3, <2>4, <2>5, <2>7
  <2>8. CASE i = k
    BY <1>4, <2>2, <2>8
  <2> QED  BY <2>5, <2>6, <2>7, <2>8
<1>6. Keep(e, msgs[b].seq) = [j \in 1 .. k |-> e[j]]
  <2> HIDE DEF o, e
  <2>1. k \in 0 .. Len(e)
    BY <1>1, <1>2
  <2> QED  BY <1>2, <1>5, <2>1, KeepFirst
<1>7. [j \in 1 .. k |-> e[j]] = SubSeq(e, 1, k)
  <2> HIDE DEF o, e
  <2> QED  BY <1>2
<1> QED  BY <1>3, <1>6, <1>7

\* Both forms of the resolution show the same of every path without a parent and of every
\* branch of one, if the messages are in order.
LEMMA BothAgree ==
    TypeOK /\ Rising /\ BranchPointInParent => RpcAgrees
<1> SUFFICES ASSUME TypeOK, Rising, Sequential, BranchPointInParent, NEW p \in PathIds,
                    LivePath(p), paths[p].parent # 0 => paths[paths[p].parent].parent = 0
             PROVE  View[p] = Ids(RpcView[p])
  BY DEF RpcAgrees
<1> DEFINE q == paths[p].parent
           b == paths[p].branch
           o == OwnInOrder(p)
           e == Entries(p)
<1>1. /\ o \in Seq(MessageIds) /\ e \in Seq(Entry) /\ Len(e) = Len(o)
      /\ \A i \in 1 .. Len(e) : e[i].id = o[i]
  BY OwnOrdered, EntriesShape
<1>2. CASE q = 0
  <2>1. View[p] = o /\ RpcView[p] = e
    BY <1>2, RootAgrees
  <2> DEFINE none == <<>>
  <2>2. none \in Seq(Entry) /\ none \in Seq(MessageIds) /\ \A i \in 1 .. Len(none) : FALSE
    OBVIOUS
  <2> HIDE DEF o, e
  <2>3. none \o e = e /\ none \o o = o
    BY <1>1
  <2> HIDE DEF none
  <2>4. Ids(none \o e) = none \o o
    BY <1>1, <2>2, IdsOf
  <2> QED  BY <2>1, <2>3, <2>4
<1>3. CASE q # 0
  <2>1. q \in PathIds /\ LivePath(q) /\ b # 0 /\ b \in Own(q) /\ paths[q].parent = 0
    BY <1>3 DEF BranchPointInParent, TypeOK, Path
  <2>2. View[q] = OwnInOrder(q) /\ RpcView[q] = Entries(q) /\ At(q) = 0
    BY <2>1, RootAgrees
  <2>3. View[p] = UpTo(OwnInOrder(q), b) \o o
    BY <2>2, ViewShape DEF ViewShaped
  <2>4. RpcView[p] = Keep(Entries(q), msgs[b].seq) \o e
    <3>1. RpcView[p] = Keep(RpcView[q], At(p)) \o e
      BY RpcUnfolds
    <3> QED  BY <2>1, <2>2, <3>1 DEF At
  <2>5. PICK k \in 1 .. Len(OwnInOrder(q)) :
              /\ UpTo(OwnInOrder(q), b) = SubSeq(OwnInOrder(q), 1, k)
              /\ Keep(Entries(q), msgs[b].seq) = SubSeq(Entries(q), 1, k)
    BY <2>1, <2>2, KeepAtBranch
  <2> DEFINE s == SubSeq(OwnInOrder(q), 1, k)
             K == SubSeq(Entries(q), 1, k)
  <2>6. /\ s \in Seq(MessageIds) /\ K \in Seq(Entry) /\ Len(K) = Len(s)
        /\ \A i \in 1 .. Len(K) : K[i].id = s[i]
    <3> DEFINE oq == OwnInOrder(q)
               eq == Entries(q)
    <3>1. /\ oq \in Seq(MessageIds) /\ eq \in Seq(Entry) /\ Len(eq) = Len(oq)
          /\ \A i \in 1 .. Len(oq) : eq[i].id = oq[i]
          /\ k \in 1 .. Len(oq)
      BY <2>1, OwnOrdered, EntriesShape
    <3> HIDE DEF oq, eq
    <3>2. LET c == SubSeq(oq, 1, k)
              d == SubSeq(eq, 1, k)
          IN  /\ c \in Seq(MessageIds) /\ d \in Seq(Entry) /\ Len(d) = Len(c)
              /\ \A i \in 1 .. Len(d) : d[i].id = c[i]
      BY <3>1
    <3> QED  BY <3>2 DEF oq, eq
  <2>7. View[p] = s \o o /\ RpcView[p] = K \o e
    BY <2>3, <2>4, <2>5
  <2> HIDE DEF s, K, o, e
  <2>8. Ids(K \o e) = s \o o
    BY <1>1, <2>6, IdsOf
  <2> QED  BY <2>7, <2>8
<1> QED  BY <1>2, <1>3

\* The SQL function and its fallback in TypeScript agree on every path that has no parent
\* and on every branch of one, as long as the messages are in order.
THEOREM ResolutionsAgree == Spec => []RpcAgrees
<1>1. Resolvable => RpcAgrees
  BY BothAgree DEF Resolvable, IInv
<1> QED  BY <1>1, ResolvableCorrect, PTL

================================================================================
