---------------------------- MODULE MCLlmRouting ----------------------------
(***************************************************************************)
(* Three instances of LlmRouting, one after the other: in "policies" calls *)
(* and changes of the policy race; in "configs" reads and changes of the   *)
(* configurations of the tenant and a user; in "resolve" no time passes    *)
(* and every kind of policy meets every kind of call.                      *)
(***************************************************************************)
EXTENDS LlmRouting, TLC

VARIABLE instance

MCDeployments == {{"groq"}, {"groq", "local"}}

\* What the policies of "policies" differ in is the provider and the mode.
MCPolicies ==
    { [NoPolicy EXCEPT !.mode = "off", !.off = TRUE],
      [NoPolicy EXCEPT !.remote = FALSE, !.tasks = <<"groq", "local">>] }

AllPolicies ==
    [remote : BOOLEAN, default : {"groq", "local", "openai"},
     tasks : {<<>>, <<"groq">>, <<"openai", "local">>}, mode : {"enforce", "off", Unset},
     off : BOOLEAN, userMode : EgressModes \cup {Unset}, userOff : {"yes", "no", Unset}]

MCOptions == Option

Symmetry == Permutations(Callers) \cup Permutations(Writers)

MCInit ==
    \/ Init /\ instance = "policies"
    \/ Init /\ instance = "configs" /\ providers = {"groq"}
    \/ /\ instance = "resolve"     \* a policy that was written long ago
       /\ count = 1
       /\ level = [v \in Writes |-> "policy"]
       /\ kind = [v \in Writes |-> "set"]
       /\ age = [v \in Writes |-> IF v = 1 THEN Bound ELSE 0]
       /\ cache = [k \in Keys |-> [at |-> 0, row |-> 0, left |-> 0, late |-> FALSE]]
       /\ call = [c \in Callers |-> Idle]
       /\ drop = [w \in Writers |-> 0]
       /\ missed = {}
       /\ errors = 0
       /\ providers \in Deployments
       /\ \E p \in AllPolicies : policy = [v \in Writes |-> IF v = 1 THEN p ELSE NoPolicy]
       /\ outcome = [c \in Callers |-> NoCall]

Plain == {o \in Option : o.task /\ ~o.user /\ o.override = Unset}

Narrow ==
    CASE instance = "policies" ->
           /\ \A v \in 1..count' : level'[v] = "policy"
           /\ \A c \in Callers : call'[c].key = "policy"
           /\ \A c \in Callers : outcome'[c].to # "nobody" => outcome'[c].options \in Plain
      [] instance = "configs" ->
           /\ \A v \in 1..count' : level'[v] # "policy"
           /\ \A c \in Callers : call'[c].pc # "idle" => call'[c].key # "policy"
           /\ \A c \in Callers : call'[c].key # "tenant" \/ \A d \in Callers \ {c} : call'[d].key # "tenant"
           /\ \E w \in Writers : \A x \in Writers \ {w} : drop'[x] = 0
           /\ errors' = 0
      [] OTHER ->
           /\ count' = 1
           /\ errors' = 0
           /\ UNCHANGED age
           /\ \A c \in Callers : call'[c].key = "policy"
           /\ \E c \in Callers : \A d \in Callers \ {c} : call'[d] = Idle /\ outcome'[d] = NoCall

MCNext == Next /\ UNCHANGED instance /\ Narrow

MCSpec == MCInit /\ [][MCNext]_<<vars, instance>>
=============================================================================
