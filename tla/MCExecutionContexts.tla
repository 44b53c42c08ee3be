------------------------ MODULE MCExecutionContexts ------------------------
(***************************************************************************)
(* Small instances of ExecutionContexts.                                   *)
(***************************************************************************)
EXTENDS ExecutionContexts, TLC

\* Instances, paths, requests and janitors are interchangeable.
Symmetry ==
    Permutations(Instances) \cup Permutations(Paths) \cup Permutations(Requests)
        \cup Permutations(Janitors)
================================================================================
