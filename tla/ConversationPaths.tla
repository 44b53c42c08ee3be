----------------------------- MODULE ConversationPaths -----------------------------
(***************************************************************************)
(* The paths of one conversation: SupabaseConversationPathStore, the path  *)
(* side of SupabaseConversationStore, and the tables, triggers and foreign *)
(* keys under them.                                                        *)
(*                                                                         *)
(* A path is a timeline of messages; a branch has a parent path and the    *)
(* message it branches from.  New messages go to the conversation's active *)
(* path.  Chat turns and merges take several remote calls, each an action  *)
(* of its own with the code up to the next call; the other operations take *)
(* effect in one statement.                                                *)
(***************************************************************************)
EXTENDS Naturals

CONSTANTS
    MaxPaths,       \* bound: paths created in a behaviour
    MaxMessages,    \* bound: messages inserted in a behaviour
    Turns,          \* concurrent chat turns and page loads
    Mergers,        \* concurrent merge requests
    Modes,          \* the merge modes requested
    Overlap,        \* whether two inserts into one path may run at the same time
    Crashes         \* whether a request may stop between two calls

ASSUME ConversationAssumption ==
    /\ MaxPaths \in Nat
    /\ MaxMessages \in Nat
    /\ Modes \subseteq {"full", "selective", "summary"}
    /\ Overlap \in BOOLEAN
    /\ Crashes \in BOOLEAN

\* Ids are handed out in order and never again; 0 is NULL.
PathIds    == 1 .. MaxPaths
MessageIds == 1 .. MaxMessages

VARIABLES
    paths,      \* conversation_paths
    msgs,       \* conversation_messages
    active,     \* active_path_id of the conversation
    turn,       \* the chat turns and page loads
    merge,      \* the mergePath calls
    merged      \* history: the messages a path's merge had to copy

vars == <<paths, msgs, active, turn, merge, merged>>

-----------------------------------------------------------------------------
NoPath == [state |-> "none", parent |-> 0, branch |-> 0, primary |-> FALSE,
           mergedTo |-> 0, mode |-> "none", summary |-> 0]

Path == [state : {"none", "live", "gone"}, parent : PathIds \cup {0},
         branch : MessageIds \cup {0}, primary : BOOLEAN, mergedTo : PathIds \cup {0},
         mode : {"none", "full", "selective", "summary"}, summary : MessageIds \cup {0}]

\* from: the original of a copied message (metadata.mergedFrom).
NoMessage == [state |-> "none", path |-> 0, seq |-> 0, from |-> 0]

Message == [state : {"none", "live", "gone"}, path : PathIds \cup {0},
            seq : MessageIds \cup {0}, from : MessageIds \cup {0}]

\* role: the message that comes next; number: a sequence number taken early, or 0.
IdleTurn == [pc |-> "idle", role |-> "question", path |-> 0, number |-> 0]

Turn == [pc : {"idle", "primary", "activate", "insert", "refused"},
         role : {"question", "answer", "visit"},
         path : PathIds \cup {0}, number : MessageIds \cup {0}]

IdleMerge == [busy |-> FALSE, mode |-> "none", source |-> 0, target |-> 0, picked |-> {},
              todo |-> {}, summary |-> 0, number |-> 0]

Merge == [busy : BOOLEAN, mode : {"none", "full", "selective", "summary"},
          source : PathIds \cup {0}, target : PathIds \cup {0}, picked : SUBSET MessageIds,
          todo : SUBSET MessageIds, summary : MessageIds \cup {0},
          number : MessageIds \cup {0}]

\* The conversation row alone: createConversation has inserted it.
Init ==
    /\ paths = [p \in PathIds |-> NoPath]
    /\ msgs = [m \in MessageIds |-> NoMessage]
    /\ active = 0
    /\ turn = [t \in Turns |-> IdleTurn]
    /\ merge = [g \in Mergers |-> IdleMerge]
    /\ merged = [p \in PathIds |-> {}]

-----------------------------------------------------------------------------
(* The tables. *)

LivePath(p) == p \in PathIds /\ paths[p].state = "live"

LiveMessage(m) == m \in MessageIds /\ msgs[m].state = "live"

Own(p) == {m \in MessageIds : msgs[m].state = "live" /\ msgs[m].path = p}

Primaries == {p \in PathIds : paths[p].state = "live" /\ paths[p].primary}

FreshPath(p) == paths[p].state = "none" /\ \A q \in 1 .. p - 1 : paths[q].state # "none"

FreshMessage(m) == msgs[m].state = "none" /\ \A k \in 1 .. m - 1 : msgs[k].state # "none"

\* next_sequence_in_path: COALESCE(MAX(sequence_in_path), 0) + 1.
NextNumber(p, n) ==
    /\ \A m \in Own(p) : msgs[m].seq < n
    /\ n = 1 \/ \E m \in Own(p) : msgs[m].seq + 1 = n

\* An insert that is about to start: its trigger may read the numbers before another
\* insert commits.
EarlyNumber(p, n) ==
    \/ n = 0
    \/ Overlap /\ n \in MessageIds /\ NextNumber(p, n)

\* INSERT of message m into path p; path_id references a path.
InsertMessage(m, p, number, from) ==
    /\ LivePath(p)
    /\ FreshMessage(m)
    /\ \E n \in MessageIds :
        /\ IF number = 0 THEN NextNumber(p, n) ELSE n = number
        /\ msgs' = [msgs EXCEPT ![m] = [state |-> "live", path |-> p, seq |-> n, from |-> from]]

\* INSERT under idx_conversation_paths_primary.
InsertPath(p, parent, branch, primary) ==
    /\ FreshPath(p)
    /\ primary => Primaries = {}
    /\ paths' = [paths EXCEPT ![p] = [NoPath EXCEPT !.state = "live", !.parent = parent,
                                                    !.branch = branch, !.primary = primary]]

-----------------------------------------------------------------------------
(* Chat turns and page loads. *)

SetTurn(t, pc, role, path, number) ==
    turn' = [turn EXCEPT ![t] = [pc |-> pc, role |-> role, path |-> path, number |-> number]]

\* appendMessage reads the conversation: the message goes to its active path, if any.
Address(t) ==
    /\ turn[t].pc = "idle"
    /\ \/ /\ active # 0
          /\ \E n \in MessageIds \cup {0} :
              EarlyNumber(active, n) /\ SetTurn(t, "insert", turn[t].role, active, n)
       \/ active = 0 /\ SetTurn(t, "primary", turn[t].role, 0, 0)
    /\ UNCHANGED <<paths, msgs, active, merge, merged>>

\* Loading a conversation without an active path: ensurePrimaryPath looks for one.
Visit(t) ==
    /\ turn[t] = IdleTurn
    /\ active = 0
    /\ Primaries = {}
    /\ SetTurn(t, "primary", "visit", 0, 0)
    /\ UNCHANGED <<paths, msgs, active, merge, merged>>

MakePrimary(t) ==
    /\ turn[t].pc = "primary"
    /\ \/ \E p \in PathIds :
            InsertPath(p, 0, 0, TRUE) /\ SetTurn(t, "activate", turn[t].role, p, 0)
       \/ /\ Primaries # {}        \* the unique index
          /\ SetTurn(t, IF turn[t].role = "visit" THEN "idle" ELSE "refused", "question", 0, 0)
          /\ UNCHANGED paths
    /\ UNCHANGED <<msgs, active, merge, merged>>

Activate(t) ==
    LET p == turn[t].path
    IN  /\ turn[t].pc = "activate"
        /\ active' = p
        /\ IF turn[t].role = "visit"
             THEN SetTurn(t, "idle", "question", 0, 0)
             ELSE \E n \in MessageIds \cup {0} :
                    EarlyNumber(p, n) /\ SetTurn(t, "insert", turn[t].role, p, n)
        /\ UNCHANGED <<paths, msgs, merge, merged>>

\* The insert; after the question the model streams its answer.
Say(t) ==
    /\ turn[t].pc = "insert"
    /\ \/ /\ \E m \in MessageIds : InsertMessage(m, turn[t].path, turn[t].number, 0)
          /\ SetTurn(t, "idle", IF turn[t].role = "question" THEN "answer" ELSE "question", 0, 0)
       \/ /\ ~LivePath(turn[t].path)        \* the foreign key
          /\ SetTurn(t, "idle", "question", 0, 0)
          /\ UNCHANGED msgs
    /\ UNCHANGED <<paths, active, merge, merged>>

\* The turn ends without an answer: abort, an error of the engine or a refusal; or the
\* instance stops.
EndTurn(t) ==
    /\ turn[t] # IdleTurn
    /\ turn[t].pc \in {"idle", "refused"} \/ Crashes
    /\ turn' = [turn EXCEPT ![t] = IdleTurn]
    /\ UNCHANGED <<paths, msgs, active, merge, merged>>

-----------------------------------------------------------------------------
(* Paths. *)

\* Mutant: a branch hangs off the active path, whatever path its message is in.
BranchOffActive(m) ==
    /\ LiveMessage(m)
    /\ active # 0
    /\ \E p \in PathIds : InsertPath(p, active, m, FALSE)
    /\ UNCHANGED <<msgs, active, turn, merge, merged>>

\* Mutant: parent and branch point change places.
BranchSwapped(m) ==
    /\ LiveMessage(m)
    /\ \E p \in PathIds : InsertPath(p, m, msgs[m].path, FALSE)
    /\ UNCHANGED <<msgs, active, turn, merge, merged>>

\* branchFromMessage: the parent is the path of the message itself.  The message cannot
\* move between the read and the insert; if it is deleted, the insert fails.
Branch(m) ==
    /\ LiveMessage(m)
    /\ \E p \in PathIds : InsertPath(p, msgs[m].path, m, FALSE)
    /\ UNCHANGED <<msgs, active, turn, merge, merged>>

SetActive(p) ==
    /\ LivePath(p)
    /\ active' = p
    /\ UNCHANGED <<paths, msgs, turn, merge, merged>>

\* deletePath with hardDelete: the messages go with the path, and what refers to either
\* is set to NULL.
Delete(p) ==
    LET unless(gone, x) == IF gone THEN 0 ELSE x
    IN  /\ LivePath(p)
        /\ ~paths[p].primary
        /\ msgs' = [m \in MessageIds |->
                      IF m \in Own(p)
                        THEN [state |-> "gone", path |-> 0, seq |-> msgs[m].seq, from |-> 0]
                        ELSE msgs[m]]
        /\ paths' = [q \in PathIds |->
                      IF q = p
                        THEN [NoPath EXCEPT !.state = "gone"]
                        ELSE [state |-> paths[q].state, primary |-> paths[q].primary,
                              mode |-> paths[q].mode,
                              parent |-> unless(paths[q].parent = p, paths[q].parent),
                              branch |-> unless(paths[q].branch \in Own(p), paths[q].branch),
                              mergedTo |-> unless(paths[q].mergedTo = p, paths[q].mergedTo),
                              summary |-> unless(paths[q].summary \in Own(p), paths[q].summary)]]
        /\ active' = unless(active = p, active)
        /\ UNCHANGED <<turn, merge, merged>>

-----------------------------------------------------------------------------
(* mergePath. *)

\* What a merge copies: all of the source, what was selected of it, or nothing (a summary
\* is one message of its own).
Picks(mode, s) ==
    CASE mode = "full"      -> {Own(s)}
      [] mode = "selective" -> SUBSET Own(s)
      [] OTHER              -> {{}}

\* The merge route's checks, and the read of the source's own messages.
StartMerge(g, s, t, mode) ==
    /\ ~merge[g].busy
    /\ LivePath(s) /\ LivePath(t) /\ s # t
    /\ ~paths[s].primary
    /\ \E picked \in Picks(mode, s), n \in MessageIds \cup {0} :
        /\ EarlyNumber(t, n)
        /\ merge' = [merge EXCEPT ![g] =
                       [busy |-> TRUE, mode |-> mode, source |-> s, target |-> t,
                        picked |-> picked, todo |-> picked, summary |-> 0, number |-> n]]
    /\ UNCHANGED <<paths, msgs, active, turn, merged>>

EndMerge(g) == merge' = [merge EXCEPT ![g] = IdleMerge]

Summarise(g) ==
    LET mg == merge[g]
    IN  /\ mg.busy /\ mg.mode = "summary" /\ mg.summary = 0
        /\ \E m \in MessageIds :
            /\ InsertMessage(m, mg.target, mg.number, 0)
            /\ merge' = [merge EXCEPT ![g].summary = m]
        /\ UNCHANGED <<paths, active, turn, merged>>

\* Mutant: the source's messages in any order.
CopyUnordered(g) ==
    LET mg == merge[g]
    IN  /\ mg.busy
        /\ \E o \in mg.todo, m \in MessageIds, n \in MessageIds \cup {0} :
            /\ InsertMessage(m, mg.target, mg.number, o)
            /\ merge' = [merge EXCEPT ![g].todo = mg.todo \ {o}, ![g].number = n]
            /\ EarlyNumber(mg.target, n)'
        /\ UNCHANGED <<paths, active, turn, merged>>

\* One insert of the loop over the source's messages, in their order; the next one may
\* take its number as soon as this one is there.
Copy(g) ==
    LET mg == merge[g]
    IN  /\ mg.busy
        /\ \E o \in mg.todo, m \in MessageIds, n \in MessageIds \cup {0} :
            /\ \A k \in mg.todo : msgs[o].seq <= msgs[k].seq
            /\ InsertMessage(m, mg.target, mg.number, o)
            /\ merge' = [merge EXCEPT ![g].todo = mg.todo \ {o}, ![g].number = n]
            /\ EarlyNumber(mg.target, n)'
        /\ UNCHANGED <<paths, active, turn, merged>>

MarkRow(g, s) ==
    /\ paths' = [paths EXCEPT ![s] = [state |-> "live", parent |-> paths[s].parent,
                    branch |-> paths[s].branch, primary |-> paths[s].primary,
                    mergedTo |-> merge[g].target, mode |-> merge[g].mode,
                    summary |-> merge[g].summary]]
    /\ merged' = [merged EXCEPT ![s] = merge[g].picked]
    /\ EndMerge(g)
    /\ UNCHANGED <<msgs, active, turn>>

\* Mutant: the source is marked before its messages are copied.
MarkFirst(g) ==
    LET mg == merge[g]
    IN  /\ mg.busy
        /\ mg.mode = "summary" => mg.summary # 0
        /\ LivePath(mg.source) /\ LivePath(mg.target)
        /\ MarkRow(g, mg.source)

\* The last statement marks the source.
Mark(g) ==
    LET mg == merge[g]
    IN  /\ mg.busy
        /\ mg.todo = {}
        /\ mg.mode = "summary" => mg.summary # 0
        /\ LivePath(mg.source) /\ LivePath(mg.target)
        /\ MarkRow(g, mg.source)

\* A foreign key fails because the target is gone, or no row is left to mark, or the
\* instance stops: what was inserted stays.
FailMerge(g) ==
    /\ merge[g].busy
    /\ Crashes \/ ~LivePath(merge[g].target) \/ ~LivePath(merge[g].source)
    /\ EndMerge(g)
    /\ UNCHANGED <<paths, msgs, active, turn, merged>>

-----------------------------------------------------------------------------
Next ==
    \/ \E t \in Turns :
        \/ Address(t)
        \/ Visit(t)
        \/ MakePrimary(t)
        \/ Activate(t)
        \/ Say(t)
        \/ EndTurn(t)
    \/ \E m \in MessageIds : Branch(m)
    \/ \E p \in PathIds : SetActive(p) \/ Delete(p)
    \/ \E g \in Mergers :
        \/ \E s, t \in PathIds, mode \in Modes : StartMerge(g, s, t, mode)
        \/ Summarise(g)
        \/ Copy(g)
        \/ Mark(g)
        \/ FailMerge(g)

Spec == Init /\ [][Next]_vars

-----------------------------------------------------------------------------
(* Properties. *)

\* The numbers of every path are the order in which its messages were inserted: so it is as
\* long as inserts into one path do not overlap (a premise, and not checked by itself).
Sequential ==
    \A p \in PathIds : \A m, k \in Own(p) : m < k => msgs[m].seq < msgs[k].seq

\* Every row, the active path and the calls under way are well formed.
TypeOK ==
    /\ paths \in [PathIds -> Path]
    /\ msgs \in [MessageIds -> Message]
    /\ active \in PathIds \cup {0}
    /\ turn \in [Turns -> Turn]
    /\ merge \in [Mergers -> Merge]
    /\ merged \in [PathIds -> SUBSET MessageIds]

\* A branch hangs off the path that holds its branch point, whatever was deleted and
\* merged since: resolvePathMessages then finds the branch point in the parent.
BranchPointInParent ==
    \A p \in PathIds : LivePath(p) =>
        /\ paths[p].parent # 0 <=> paths[p].branch # 0
        /\ paths[p].branch # 0 => /\ LivePath(paths[p].parent)
                                  /\ paths[p].branch \in Own(paths[p].parent)

\* A path marked as merged has in its target, as long as that exists, a copy of every
\* message the merge picked, or its summary: no failure or deletion on the way leaves a
\* mark without its content.
MergedMeansCopied ==
    \A s \in PathIds : LivePath(s) /\ paths[s].mergedTo # 0 =>
        /\ \A o \in merged[s] : \E m \in Own(paths[s].mergedTo) : msgs[m].from = o
        /\ paths[s].mode = "summary" => paths[s].summary \in Own(paths[s].mergedTo)

\* The copies of a merge stand in its target in the order of their originals, whoever
\* inserts into the source and the target at the same time (pathStores.ts:667-697): a copy
\* takes its number when the one before it is there.
MergedInOrder ==
    \A s \in PathIds : LivePath(s) /\ paths[s].mergedTo # 0 =>
        \A o, q \in merged[s] : msgs[o].seq < msgs[q].seq =>
            \E m, k \in Own(paths[s].mergedTo) :
                msgs[m].from = o /\ msgs[k].from = q /\ msgs[m].seq < msgs[k].seq

\* appendMessage "ensures conversation has an active path": no message is refused for
\* want of one.
NeverRefused == \A t \in Turns : turn[t].pc # "refused"
================================================================================
