---------------------------- MODULE MCGraphChanges ----------------------------
(***************************************************************************)
(* Two nodes and an edge between them; a patch holds two changes.          *)
(***************************************************************************)
EXTENDS GraphChanges, TLC

CONSTANTS a, b, e, p1, p2, v1, v2

MCNodes == {a, b}
MCEdges == {e}
MCSource == e :> a
MCTarget == e :> b

\* The application polls by timestamp and collects patches; its tests do neither.
MCConfigs ==
    {[timestamps |-> TRUE, batching |-> TRUE, pages |-> 1, failures |-> 1],
     [timestamps |-> TRUE, batching |-> FALSE, pages |-> 1, failures |-> 0],
     [timestamps |-> FALSE, batching |-> TRUE, pages |-> 1, failures |-> 0],
     [timestamps |-> FALSE, batching |-> FALSE, pages |-> 2, failures |-> 0]}

ServedConfigs == {[timestamps |-> TRUE, batching |-> TRUE, pages |-> 2, failures |-> 0]}

MCPolls == {p1, p2}

MCViewers == {v1, v2}

\* Polls differ by nothing but when they run, pages by nothing but when they come.
Alike == Permutations(MCPolls) \cup Permutations(MCViewers)

=============================================================================
