------------------------------- MODULE PathBindings -------------------------------
(***************************************************************************)
(* What the execution-context component promises to a conversation: every  *)
(* path has at most one sandbox bound to it at a time, a sandbox is bound  *)
(* to one path for its whole life, and a request made for a path is only   *)
(* ever handed a sandbox that was bound to that very path.                 *)
(*                                                                         *)
(* ExecutionContexts implements this specification.                        *)
(***************************************************************************)
CONSTANTS Paths, Sandboxes, Requests

VARIABLES
    bound,      \* the pairs <<path, sandbox>> bound now
    ever,       \* the pairs <<path, sandbox>> bound now or before
    held        \* held[r]: the pair request r was handed, as a set of at most one

bindVars == <<bound, ever, held>>

Bindings == Paths \X Sandboxes

Init ==
    /\ bound = {}
    /\ ever = {}
    /\ held = [r \in Requests |-> {}]

Bind(p, s) ==
    /\ \A b \in bound : b[1] # p
    /\ \A e \in ever : e[2] # s
    /\ bound' = bound \cup {<<p, s>>}
    /\ ever' = ever \cup {<<p, s>>}
    /\ UNCHANGED held

Unbind(b) ==
    /\ b \in bound
    /\ bound' = bound \ {b}
    /\ UNCHANGED <<ever, held>>

Hand(r, b) ==
    /\ held[r] = {}
    /\ b \in ever
    /\ held' = [held EXCEPT ![r] = {b}]
    /\ UNCHANGED <<bound, ever>>

\* One request ends, or all those of an instance that crashes.
Drop(R) ==
    /\ held' = [r \in Requests |-> IF r \in R THEN {} ELSE held[r]]
    /\ UNCHANGED <<bound, ever>>

Next ==
    \/ \E p \in Paths, s \in Sandboxes : Bind(p, s)
    \/ \E b \in Bindings : Unbind(b)
    \/ \E r \in Requests, b \in Bindings : Hand(r, b)
    \/ \E R \in SUBSET Requests : Drop(R)

Spec == Init /\ [][Next]_bindVars
================================================================================
