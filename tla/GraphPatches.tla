---------------------------- MODULE GraphPatches ----------------------------
(***************************************************************************)
(* The patches of the graph change detector: how it finds them, joins and  *)
(* cuts them, and what a page makes of one.                                *)
(*                                                                         *)
(* A graph is a function from nodes and edges to versions; every write     *)
(* gives an item a version of its own, and 0 is absence.  Nodes and edges  *)
(* go through the same code, except where they are cut and applied.        *)
(***************************************************************************)
EXTENDS FiniteSetsExt

CONSTANTS
    Nodes,
    Edges,
    Source,     \* the node an edge leaves
    Target,     \* the node it enters
    MaxNodes,   \* maxNodesPerPatch
    MaxEdges,   \* maxEdgesPerPatch
    MaxTotal    \* maxTotalChanges

ASSUME EndsAssumption ==
    /\ Source \in [Edges -> Nodes]
    /\ Target \in [Edges -> Nodes]
    /\ Nodes \cap Edges = {}

ASSUME FiniteAssumption == IsFiniteSet(Nodes) /\ IsFiniteSet(Edges)

ASSUME CapsAssumption == {MaxNodes, MaxEdges, MaxTotal} \subseteq Nat \ {0}

Items == Nodes \cup Edges

Empty == [i \in Items |-> 0]

\* The edges that go with a set of nodes.
Attached(removed) == {e \in Edges : Source[e] \in removed \/ Target[e] \in removed}

NoPatch == [added |-> Empty, updated |-> Empty, removed |-> {}, truncated |-> FALSE]

\* The items a patch bears on: its changes and the edges of nodes it removes.
Touched(p) ==
    {i \in Items : p.added[i] # 0 \/ p.updated[i] # 0}
        \cup p.removed \cup Attached(p.removed \cap Nodes)

-----------------------------------------------------------------------------
\* Mutant: items that are in both snapshots are taken to be unchanged.
DiffWithoutUpdates(old, new) ==
    [NoPatch EXCEPT
        !.added = [i \in Items |-> IF old[i] = 0 THEN new[i] ELSE 0],
        !.removed = {i \in Items : old[i] # 0 /\ new[i] = 0}]

Diff(old, new) ==
    [NoPatch EXCEPT
        !.added = [i \in Items |-> IF old[i] = 0 THEN new[i] ELSE 0],
        !.updated = [i \in Items |-> IF old[i] \notin {0, new[i]} THEN new[i] ELSE 0],
        !.removed = {i \in Items : old[i] # 0 /\ new[i] = 0}]

\* What a timestamp query returned is added or updated; it never removes.
RecentDiff(recent, snapshot) ==
    [NoPatch EXCEPT
        !.added = [i \in Items |-> IF snapshot[i] = 0 THEN recent[i] ELSE 0],
        !.updated = [i \in Items |-> IF snapshot[i] # 0 THEN recent[i] ELSE 0]]

-----------------------------------------------------------------------------
Some(S, k) == IF Cardinality(S) <= k THEN S ELSE CHOOSE T \in kSubset(k, S) : TRUE

\* The changes of a section that fit: additions, then updates, then removals.
Trim(p, section, limit) ==
    LET added == Some({i \in section : p.added[i] # 0}, limit)
        updated == Some({i \in section : p.updated[i] # 0}, limit - Cardinality(added))
        room == limit - Cardinality(added) - Cardinality(updated)
    IN  [added |-> added, updated |-> updated, removed |-> Some(section \cap p.removed, room)]

Changes(part) ==
    Cardinality(part.added) + Cardinality(part.updated) + Cardinality(part.removed)

\* A patch within the caps; whether it was cut is decided anew on every call.
Cap(p) ==
    LET nodes == Trim(p, Nodes, MaxNodes)
        room == Max({0, MaxTotal - Changes(nodes)})
        edges == Trim(p, Edges, Min({MaxEdges, room}))
        Kept(f, S) == [i \in Items |-> IF i \in S THEN f[i] ELSE 0]
        cut == [added |-> Kept(p.added, nodes.added \cup edges.added),
                updated |-> Kept(p.updated, nodes.updated \cup edges.updated),
                removed |-> nodes.removed \cup edges.removed,
                truncated |-> FALSE]
    IN  [cut EXCEPT !.truncated = cut # [p EXCEPT !.truncated = FALSE]]

-----------------------------------------------------------------------------
\* Two sections one after the other, duplicates keeping the last occurrence.
LastOf(f, g) == [i \in Items |-> IF g[i] # 0 THEN g[i] ELSE f[i]]

\* Patches joined one by one give what joining all of them at the end gives.
Join(p, q) ==
    [NoPatch EXCEPT
        !.added = LastOf(p.added, q.added),
        !.updated = LastOf(p.updated, q.updated),
        !.removed = p.removed \cup q.removed]

\* Items a joined patch both removes, itself or with a node, and adds: their order
\* is lost.
Jumbled(p) == {i \in p.removed \cup Attached(p.removed \cap Nodes) : p.added[i] # 0}

\* What a page shows after a patch: removals, with the edges of removed nodes,
\* then additions of what is missing, then updates of what is there.
Apply(view, p) ==
    LET gone == p.removed \cup Attached(p.removed \cap Nodes)
        left == [i \in Items |-> IF i \in gone THEN 0 ELSE view[i]]
        more == [i \in Items |-> IF left[i] = 0 THEN p.added[i] ELSE left[i]]
    IN  [i \in Items |-> IF more[i] # 0 /\ p.updated[i] # 0 THEN p.updated[i] ELSE more[i]]

=============================================================================
