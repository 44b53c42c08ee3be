----------------------------- MODULE LlmRouting -----------------------------
(***************************************************************************)
(* The LLM router of one tenant on top of SettingsCache: every call asks   *)
(* for the tenant's policy, which decides the provider that is called and  *)
(* the egress mode, and goes through the guard of the egress client.       *)
(*                                                                         *)
(* Of a policy the model keeps whether remote providers may be called, the *)
(* default provider, the providers of the entries for one task, in order,  *)
(* and what it says about egress modes, to all and to one user.  Models,   *)
(* temperatures and the sanitizer's work are left out.                     *)
(***************************************************************************)
EXTENDS SettingsCache, Sequences

CONSTANTS
    Policies,         \* the policies written
    Options,          \* the options of the calls
    Deployments,      \* the sets of providers a router is created with
    DefaultProvider,  \* of the router, for tenants without a policy
    BaseMode          \* egress mode of the router

VARIABLES
    providers,  \* the providers of this router
    policy,     \* the policy every write has set
    outcome     \* what has become of the call of every caller: its provider and mode

vars == <<cacheVars, providers, policy, outcome>>

Unset == "unset"
EgressModes == {"enforce", "report-only", "off"}

\* The policy of a tenant without one; Policy, of the others.
NoPolicy == [remote |-> TRUE, default |-> DefaultProvider, tasks |-> <<>>, mode |-> Unset,
             off |-> FALSE, userMode |-> Unset, userOff |-> Unset]

Policy == [remote : BOOLEAN, default : STRING, tasks : Seq(STRING), mode : EgressModes \cup {Unset},
           off : BOOLEAN, userMode : EgressModes \cup {Unset}, userOff : {"yes", "no", Unset}]

Option == [task : BOOLEAN, user : BOOLEAN, override : EgressModes \cup {Unset}]

NoCall == [to |-> "nobody", mode |-> BaseMode,
           options |-> [task |-> FALSE, user |-> FALSE, override |-> Unset]]

ASSUME RoutingAssumption ==
    /\ Policies \subseteq Policy
    /\ Options \subseteq Option
    /\ BaseMode \in EgressModes
    /\ DefaultProvider \in STRING
    /\ \A d \in Deployments : DefaultProvider \in d /\ "refused" \notin d

TypeOK ==
    /\ CacheTypeOK
    /\ providers \in Deployments
    /\ policy \in [Writes -> Policy]
    /\ outcome \in [Callers -> [to : {"nobody", "refused"} \cup providers, mode : EgressModes,
                               options : Option]]

Init ==
    /\ CacheInit
    /\ providers \in Deployments
    /\ policy = [v \in Writes |-> NoPolicy]
    /\ outcome = [c \in Callers |-> NoCall]

\* What a reader that has read after write n takes for the policy.
InForce(n) == IF Exists(n) THEN policy[CHOOSE v \in LastWrite(n) : TRUE] ELSE NoPolicy

-----------------------------------------------------------------------------
(* What a policy makes of a call. *)

Entries(p, o) == IF o.task THEN p.tasks ELSE <<>>

IsIn(x, s) == \E i \in DOMAIN s : s[i] = x

\* Mutant: the call goes out without the allowlist.
ProviderUnlisted(p, o) ==
    IF p.remote /\ Entries(p, o) # <<>> THEN Entries(p, o)[1]
    ELSE IF p.remote \/ p.default = "local" THEN p.default
    ELSE "refused"

\* resolveProviderAndModel, then the allowlist of the egress client.
Provider(p, o) ==
    LET wanted == IF Entries(p, o) # <<>> THEN Entries(p, o)[1] ELSE p.default
        served == IF p.remote THEN wanted
                  ELSE IF IsIn("local", Entries(p, o)) \/ p.default = "local" THEN "local"
                  ELSE "refused"
    IN  IF served \in providers THEN served ELSE "refused"

\* Mutant: a mode that is refused falls back to the mode of the router.
ApplyOrBase(before, mode, allowOff) ==
    IF mode = Unset THEN before ELSE IF mode = "off" /\ ~allowOff THEN BaseMode ELSE mode

\* applyCandidate.
Apply(before, mode, allowOff) ==
    IF mode = Unset \/ (mode = "off" /\ ~allowOff) THEN before ELSE mode

\* The user's own allowance counts before the tenant's.
AllowsOff(p, o) == IF o.user /\ p.userOff # Unset THEN p.userOff = "yes" ELSE p.off

\* resolveEffectiveEgressMode.
Mode(p, o) ==
    Apply(Apply(Apply(BaseMode, p.mode, p.off),
                IF o.user THEN p.userMode ELSE Unset, AllowsOff(p, o)),
          o.override, AllowsOff(p, o))

-----------------------------------------------------------------------------
Begin(c, k) == Ask(c, k) /\ UNCHANGED <<providers, policy, outcome>>

\* chat and streamChat: the policy has come, the guard sanitizes unless the mode is off,
\* and the provider is called, or the call ends with an error.
Route(c, o) ==
    LET p == InForce(call[c].at)
    IN  /\ call[c].pc = "answer" /\ call[c].key = "policy"
        /\ outcome[c] = NoCall
        /\ outcome' = [outcome EXCEPT ![c] = [to |-> Provider(p, o), mode |-> Mode(p, o),
                                              options |-> o]]
        /\ UNCHANGED <<cacheVars, providers, policy>>

\* The provider has answered, or a configuration is used.
Return(c) ==
    /\ call[c].key = "policy" => outcome[c] # NoCall
    /\ Answer(c)
    /\ outcome' = [outcome EXCEPT ![c] = NoCall]
    /\ UNCHANGED <<providers, policy>>

\* The table's constraint on egress_mode does not know 'report-only'.
SetPolicy(w, p) ==
    /\ p.mode # "report-only"
    /\ Write(w, "policy", "set") \/ WriteUnanswered(w, "policy", "set")
    /\ policy' = [policy EXCEPT ![count'] = p]
    /\ UNCHANGED <<providers, outcome>>

OtherWrite(w) ==
    /\ \E l \in Levels, how \in {"set", "delete"} :
         /\ l # "policy" \/ how = "delete"
         /\ Write(w, l, how) \/ WriteUnanswered(w, l, how)
    /\ UNCHANGED <<providers, policy, outcome>>

Dropping(w) == (Drop(w) \/ DropFails(w)) /\ UNCHANGED <<providers, policy, outcome>>

Step(c) ==
    \/ Reading(c) /\ UNCHANGED <<providers, policy, outcome>>
    \/ \E o \in Options : Route(c, o)
    \/ Return(c)

Pass == Tick /\ UNCHANGED <<providers, policy, outcome>>

Next ==
    \/ \E c \in Callers : (\E k \in Keys : Begin(c, k)) \/ Step(c)
    \/ \E w \in Writers : (\E p \in Policies : SetPolicy(w, p)) \/ OtherWrite(w) \/ Dropping(w)
    \/ Pass

Spec == Init /\ [][Next]_vars

-----------------------------------------------------------------------------
(* Properties. *)

\* The egress mode by its rule: the last mode given, of the router's, the tenant's, the
\* user's and the call's, that is not an 'off' the allowance in force forbids.
Given(p, o) ==
    << [mode |-> BaseMode, ok |-> TRUE],
       [mode |-> p.mode, ok |-> p.mode # "off" \/ p.off],
       [mode |-> p.userMode, ok |-> o.user /\ (p.userMode # "off" \/ AllowsOff(p, o))],
       [mode |-> o.override, ok |-> o.override # "off" \/ AllowsOff(p, o)] >>

Counts(p, o) == {i \in 1..4 : Given(p, o)[i].mode # Unset /\ Given(p, o)[i].ok}

\* A call did what policy p says: remote providers only if it allows them, the provider it
\* names first if there is one to call, and the last mode that counts.
Obeys(p, call_) ==
    LET named == Entries(p, call_.options) \o <<p.default>>
    IN  /\ ~p.remote => call_.to \in {"local", "refused"}
        /\ p.remote /\ call_.to # "refused" => call_.to = named[1]
        /\ call_.to = "refused" =>
             IF p.remote THEN named[1] \notin providers
                         ELSE "local" \notin providers \/ ~IsIn("local", named)
        /\ \E i \in Counts(p, call_.options) :
             /\ call_.mode = Given(p, call_.options)[i].mode
             /\ \A j \in Counts(p, call_.options) : j <= i

\* Every call is made as some policy says that was in force less than Bound before the call
\* began: a policy that is replaced or deleted is not followed for longer than that.
ObeysRecentPolicy ==
    \A c \in Callers : outcome[c].to # "nobody" =>
        \E n \in 0..count : /\ \A v \in call[c].due : v <= n
                            /\ Obeys(InForce(n), outcome[c])
==============================================================================
