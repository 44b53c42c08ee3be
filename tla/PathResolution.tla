------------------------------ MODULE PathResolution ------------------------------
(***************************************************************************)
(* What a path shows: the messages inherited from its ancestors up to its  *)
(* branch point, then its own.  resolvePathMessages has two forms, a SQL   *)
(* function and a fallback in TypeScript; both are functions of the tables *)
(* of ConversationPaths.                                                   *)
(***************************************************************************)
EXTENDS ConversationPaths, SequencesExt

\* The members of S as Before puts them.
InOrder(S, Before(_, _)) ==
    [i \in 1 .. Cardinality(S) |->
        CHOOSE m \in S : Cardinality({k \in S : Before(k, m)}) = i - 1]

\* ORDER BY sequence_in_path; ties, which only overlapping inserts make, in id order.
OwnInOrder(p) ==
    InOrder(Own(p), LAMBDA k, m : \/ msgs[k].seq < msgs[m].seq
                                  \/ msgs[k].seq = msgs[m].seq /\ k < m)

\* Mutant: the whole parent, branch point or not.
UpToEnd(view, b) == view

\* slice(0, findIndex(b) + 1), or nothing if b is not there.
UpTo(view, b) == SubSeq(view, 1, SelectInSeq(view, LAMBDA m : m = b))

\* resolvePathMessagesManual.
View ==
    LET view[p \in PathIds \cup {0}] ==
            IF ~LivePath(p) THEN <<>>
            ELSE UpTo(view[paths[p].parent], paths[p].branch) \o OwnInOrder(p)
    IN  view

Inherited(p) == UpTo(View[paths[p].parent], paths[p].branch)

\* The entries at some positions, in their order.
Pick(entries, positions) ==
    LET order == InOrder(positions, LAMBDA i, k : i < k)
    IN  [j \in DOMAIN order |-> entries[order[j]]]

\* Mutant: strictly before the branch point.
KeepBefore(entries, seq) == Pick(entries, {i \in DOMAIN entries : entries[i].eff < seq})

Keep(entries, seq) == Pick(entries, {i \in DOMAIN entries : entries[i].eff <= seq})

\* resolve_path_messages: the branch point counts by its number in its own path, eff is
\* effective_sequence.
RpcView ==
    LET view[p \in PathIds \cup {0}] ==
            IF ~LivePath(p) THEN <<>>
            ELSE LET at  == IF paths[p].branch = 0 THEN 0 ELSE msgs[paths[p].branch].seq
                     own == OwnInOrder(p)
                 IN  Keep(view[paths[p].parent], at)
                       \o [i \in 1 .. Len(own) |-> [id |-> own[i], eff |-> at + msgs[own[i]].seq]]
    IN  view

-----------------------------------------------------------------------------
(* Properties. *)

Ancestors(p) ==
    LET above[q \in PathIds \cup {0}] ==
            IF q = 0 THEN {} ELSE {q} \cup above[paths[q].parent]
    IN  above[p]

\* What a branch inherits never changes: messages added to its ancestors later, merges
\* and other branches do not show in it.  Only deleting an ancestor takes it away.  (As long
\* as the messages are in order: an insert that took its number early can end up before the
\* branch point.  pathStores.ts:409-425.)
BranchStable ==
    [][UNCHANGED <<paths, msgs>> \/ (Sequential /\ Sequential' => \A p \in PathIds :
        /\ LivePath(p) /\ paths[p].branch # 0
        /\ \A a \in Ancestors(p) : LivePath(a)'
        => Inherited(p)' = Inherited(p))]_vars

Ids(entries) == [i \in DOMAIN entries |-> entries[i].id]

\* Both forms of the resolution agree on every branch of a path that has no parent.
\* (Of a branch of a branch the SQL function shows less, see the README, and after overlapping
\* inserts two messages can have one number.  pathStores.ts:403-450.)
RpcAgrees == Sequential =>
    \A p \in PathIds : LivePath(p) /\ (paths[p].parent # 0 => paths[paths[p].parent].parent = 0) =>
        View[p] = Ids(RpcView[p])
================================================================================
