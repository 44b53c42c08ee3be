----------------------------- MODULE CostQuotas -----------------------------
(***************************************************************************)
(* Quota rows that several calls check, reset and charge at the same time. *)
(* A chat turn checks its tenant's quota, calls the LLM, and afterwards    *)
(* recordCost (costTrackingService.ts 97) checks the platform, the tenant  *)
(* and the user, stores a cost record and charges the three scopes; each   *)
(* check and charge is several remote calls (supabaseProviders.ts).        *)
(* Besides: the atomic function with its fallback, and the costs of a      *)
(* sandbox (e2b/costTracking.ts).  Every call costs one unit.              *)
(***************************************************************************)
EXTENDS Integers, FiniteSets, Sequences

CONSTANTS
    Calls,       \* the callers, each with one call under way at a time
    Kinds,       \* the kinds of call in this instance
    Configured,  \* the <<scope, resource>> pairs that have a row
    Limit,       \* limit_usd of every row, in calls
    MaxNow,      \* bound on the periods
    Enforce,     \* ENFORCE_COST_QUOTAS
    Faults       \* what may fail: "store" a remote call throws before its
                 \* effect, "reply" one throws after its effect

Scope == {"platform", "tenant", "user"}
Resource == {"llm", "e2b", "all"}

ASSUME CallsAssumption == IsFiniteSet(Calls)
ASSUME KindsAssumption == Kinds \subseteq {"llm", "atomic", "e2b", "reset"}
ASSUME ConfiguredAssumption == Configured \subseteq Scope \X Resource
ASSUME NumbersAssumption == Limit \in Nat \ {0} /\ MaxNow \in Nat
ASSUME SwitchesAssumption == Enforce \in BOOLEAN /\ Faults \subseteq {"store", "reply"}

VARIABLES
    rows,     \* cost_quotas: spend and period of every configured row
    now,      \* the current period
    call,     \* the calls: where each stands, and its locals
    stored,   \* the calls under way that have a cost record
    incurred, \* history: LLM calls that ran in the current period (up to Limit)
    charges   \* history: how often each call was charged to each scope

vars == <<rows, now, call, stored, incurred, charges>>
history == <<incurred, charges>>

Task == {"idle", "pre", "run", "check", "store", "charge", "reset", "done"}
Step == {"get", "resetGet", "resetPut", "again", "inc"}

TypeOK ==
    /\ rows \in [Configured -> [spend : Nat, period : 0..MaxNow]]
    /\ now \in 0..MaxNow
    /\ call \in [Calls -> [kind : Kinds, task : Task, at : 1..3, step : Step,
                           end : 0..MaxNow, denied : BOOLEAN, lost : BOOLEAN]]
    /\ stored \in SUBSET Calls
    /\ incurred \in Nat
    /\ charges \in [Calls -> [Scope -> Nat]]

RowsOf(s) == {k \in Configured : k[1] = s}

\* The scopes recordCost visits, in order; the other kinds know the tenant only.
Visits(c, task) ==
    IF call[c].kind = "llm" /\ task \in {"check", "charge"}
    THEN <<"platform", "tenant", "user">>
    ELSE <<"tenant">>

ScopeOf(c) == Visits(c, call[c].task)[call[c].at]

\* Mutant: the scopes are counted from zero.
GoZero(c, task) ==
    call' = [call EXCEPT ![c].task = task, ![c].at = 0, ![c].step = "get", ![c].end = 0,
                         ![c].denied = FALSE]

Go(c, task) ==
    call' = [call EXCEPT ![c].task = task, ![c].at = 1, ![c].step = "get", ![c].end = 0,
                         ![c].denied = FALSE]

\* Mutant: the costs are charged before, and without, their record.
AfterUnstored(c, over) ==
    CASE over -> "done"
      [] ~over /\ call[c].task = "pre" -> "run"
      [] ~over /\ call[c].task = "check" -> "charge"
      [] OTHER -> "done"

\* What follows a task that is through with all its scopes.
After(c, over) ==
    CASE over -> "done"
      [] ~over /\ call[c].task = "pre" -> "run"
      [] ~over /\ call[c].task = "check" ->
            IF call[c].kind = "atomic" THEN "charge" ELSE "store"
      [] OTHER -> "done"

\* The task is through with this scope; all scopes are checked, and looked at
\* afterwards.
NextScope(c, over) ==
    IF call[c].at < Len(Visits(c, call[c].task))
    THEN call' = [call EXCEPT ![c].at = @ + 1, ![c].step = "get", ![c].end = 0,
                              ![c].denied = @ \/ over]
    ELSE Go(c, After(c, call[c].denied \/ over))

\* Mutant: a remote call that threw is made again.
ThrowRetry(c) == call' = [call EXCEPT ![c].end = now]

\* An exception: the check before the call lets it run, recordLlmCost only warns.
Throw(c) == Go(c, IF call[c].task = "pre" THEN "run" ELSE "done")

\* Mutant: the call about to be made is not counted.
DecideSpent(c, k) ==
    NextScope(c, rows[k].spend > Limit)

\* checkAgainstQuota on the row as read.
Decide(c, k) ==
    NextScope(c, rows[k].spend + 1 > Limit)

SetRows(ks, row) == rows' = [k \in Configured |-> IF k \in ks THEN row[k] ELSE rows[k]]

Init ==
    /\ rows = [k \in Configured |-> [spend |-> 0, period |-> 0]]
    /\ now = 0
    /\ call \in [Calls -> {[kind |-> d, task |-> "idle", at |-> 1, step |-> "get",
                            end |-> 0, denied |-> FALSE, lost |-> FALSE] : d \in Kinds}]
    /\ stored = {}
    /\ incurred = 0
    /\ charges = [c \in Calls |-> [s \in Scope |-> 0]]

(***************************************************************************)
(* The remote calls of checkQuota, recordCost and resetQuota.              *)
(***************************************************************************)
Working(c, step) ==
    /\ call[c].task \in {"pre", "check", "charge", "reset"}
    /\ call[c].step = step

\* A remote call throws and has had no effect.
Fail(c) ==
    /\ "store" \in Faults
    /\ call[c].task \in {"pre", "check", "store", "charge", "reset"}
    /\ Throw(c)
    /\ UNCHANGED <<rows, now, stored, history>>

\* getQuota: maybeSingle throws when the scope has rows for several resources.
Get(c) ==
    /\ Working(c, "get")
    /\ LET ks == RowsOf(ScopeOf(c)) IN
       CASE ks = {} -> NextScope(c, FALSE)
         [] Cardinality(ks) > 1 -> Throw(c)
         [] OTHER -> \E k \in ks :
               IF now > rows[k].period
               THEN call' = [call EXCEPT ![c].step = "resetGet"]
               ELSE IF call[c].task = "charge"
                    THEN call' = [call EXCEPT ![c].step = "inc"]
                    ELSE Decide(c, k)
    /\ UNCHANGED <<rows, now, stored, history>>

\* resetQuota reads the row again and computes the bounds of the new period.
ResetGet(c) ==
    /\ Working(c, "resetGet")
    /\ call' = [call EXCEPT ![c].step = "resetPut", ![c].end = now]
    /\ UNCHANGED <<rows, now, stored, history>>

\* The update of resetQuota.  eq('scope_id', null) is no filter a uuid column
\* accepts, so that the update of the platform's row throws.
ResetPut(c) ==
    /\ Working(c, "resetPut")
    /\ LET s == ScopeOf(c)
           ks == RowsOf(s)
       IN IF s = "platform"
          THEN Throw(c) /\ UNCHANGED rows
          ELSE /\ SetRows(ks, [k \in ks |-> [spend |-> 0, period |-> call[c].end]])
               /\ IF call[c].task = "reset"
                  THEN Go(c, "done")
                  ELSE call' = [call EXCEPT ![c].end = 0, ![c].step =
                                   IF call[c].task = "charge" THEN "inc" ELSE "again"]
    /\ UNCHANGED <<now, stored, history>>

\* checkQuota reads the row it has reset.
Again(c) ==
    /\ Working(c, "again")
    /\ \E k \in RowsOf(ScopeOf(c)) : Decide(c, k)
    /\ UNCHANGED <<rows, now, stored, history>>

\* increment_quota_spend: one statement, whatever the resource and the period.
Inc(c) ==
    /\ Working(c, "inc")
    /\ LET s == ScopeOf(c)
           ks == RowsOf(s)
       IN /\ SetRows(ks, [k \in ks |-> [rows[k] EXCEPT !.spend = @ + 1]])
          /\ charges' = [charges EXCEPT ![c][s] = @ + 1]
    /\ \/ NextScope(c, FALSE)
       \/ "reply" \in Faults /\ Throw(c)
    /\ UNCHANGED <<now, stored, incurred>>

(***************************************************************************)
(* The three kinds of call.                                                *)
(***************************************************************************)
\* The chat route checks the tenant before the turn (only when enforcing).
Request(c) ==
    /\ call[c].kind = "llm" /\ call[c].task = "idle"
    /\ Go(c, IF Enforce THEN "pre" ELSE "run")
    /\ UNCHANGED <<rows, now, stored, history>>

\* The LLM answers and the money is spent; recordCost begins.
Run(c) ==
    /\ call[c].kind = "llm" /\ call[c].task = "run"
    /\ Go(c, IF Enforce THEN "check" ELSE "store")
    /\ incurred' = IF incurred < Limit THEN incurred + 1 ELSE incurred
    /\ UNCHANGED <<rows, now, stored, charges>>

\* storeCostRecord.
Store(c) ==
    /\ call[c].task = "store" /\ call[c].kind = "llm"
    /\ stored' = stored \cup {c}
    /\ Go(c, "charge")
    /\ UNCHANGED <<rows, now, history>>

\* check_and_record_quota_atomic: the row is locked, renewed if its period has
\* ended, checked and charged in one transaction.  Without an order it takes
\* any row of the scope.  On any error the caller falls back to the two steps.
Atomic(c) ==
    /\ call[c].kind = "atomic" /\ call[c].task = "idle"
    /\ LET ks == RowsOf("tenant") IN
       IF ks = {}
       THEN Go(c, "done") /\ UNCHANGED <<rows, charges>>
       ELSE \E k \in ks :
              LET fresh == rows[k].period < now
                  spend == IF fresh THEN 0 ELSE rows[k].spend
                  allowed == spend + 1 <= Limit
              IN /\ rows' = [rows EXCEPT ![k] =
                                [spend |-> IF allowed THEN spend + 1 ELSE spend,
                                 period |-> IF fresh THEN now ELSE @.period]]
                 /\ charges' = IF allowed THEN [charges EXCEPT ![c]["tenant"] = @ + 1]
                                          ELSE charges
                 /\ \/ Go(c, "done")
                    \/ /\ "reply" \in Faults
                       /\ call' = [call EXCEPT ![c].task = "check", ![c].lost = TRUE]
    /\ UNCHANGED <<now, stored, incurred>>

AtomicFails(c) ==
    /\ call[c].kind = "atomic" /\ call[c].task = "idle"
    /\ "store" \in Faults
    /\ Go(c, "check")
    /\ UNCHANGED <<rows, now, stored, history>>

SandboxRows == {k \in RowsOf("tenant") : k[2] \in {"e2b", "all"}}

\* checkQuota of the sandbox costs.  The details are read with single(): when
\* that finds no row, or two, the answer of check_e2b_quota is not used.
SandboxCheck(c) ==
    /\ call[c].kind = "e2b" /\ call[c].task = "idle"
    /\ \/ Go(c, IF /\ Cardinality(SandboxRows) = 1
                   /\ \E k \in SandboxRows : rows[k].spend + 1 > Limit
                THEN "done" ELSE "store")
       \/ "store" \in Faults /\ Go(c, "done")
    /\ UNCHANGED <<rows, now, stored, history>>

\* The sandbox has ended and recordCost stores what it cost.
SandboxStore(c) ==
    /\ call[c].kind = "e2b" /\ call[c].task = "store" /\ c \notin stored
    /\ stored' = stored \cup {c}
    /\ UNCHANGED <<rows, now, call, history>>

\* increment_e2b_quota_spend: no reset, whatever the period.
SandboxInc(c) ==
    /\ call[c].kind = "e2b" /\ call[c].task = "store" /\ c \in stored
    /\ SetRows(SandboxRows, [k \in SandboxRows |-> [rows[k] EXCEPT !.spend = @ + 1]])
    /\ charges' = [charges EXCEPT ![c]["tenant"] = @ + 1]
    /\ Go(c, "done")
    /\ UNCHANGED <<now, stored, incurred>>

\* DELETE of the quota route: resetQuota, for the tenant.
Reset(c) ==
    /\ call[c].kind = "reset" /\ call[c].task = "idle"
    /\ IF Cardinality(RowsOf("tenant")) = 1
       THEN call' = [call EXCEPT ![c].task = "reset", ![c].step = "resetGet"]
       ELSE Go(c, "done")
    /\ UNCHANGED <<rows, now, stored, history>>

\* The caller is free for its next call, of any kind.
Return(c) ==
    /\ call[c].task = "done"
    /\ \E d \in Kinds :
          call' = [call EXCEPT ![c] = [kind |-> d, task |-> "idle", at |-> 1, step |-> "get",
                                       end |-> 0, denied |-> FALSE, lost |-> FALSE]]
    /\ stored' = stored \ {c}
    /\ charges' = [charges EXCEPT ![c] = [s \in Scope |-> 0]]
    /\ UNCHANGED <<rows, now, incurred>>

\* A period ends.
Tick ==
    /\ now < MaxNow
    /\ now' = now + 1
    /\ incurred' = 0
    /\ UNCHANGED <<rows, call, stored, charges>>

CallStep(c) ==
    \/ Fail(c) \/ Get(c) \/ ResetGet(c) \/ ResetPut(c) \/ Again(c) \/ Inc(c)
    \/ Request(c) \/ Run(c) \/ Store(c)
    \/ Atomic(c) \/ AtomicFails(c)
    \/ SandboxCheck(c) \/ SandboxStore(c) \/ SandboxInc(c)
    \/ Reset(c) \/ Return(c)

Next == Tick \/ \E c \in Calls : CallStep(c)

Spec == Init /\ [][Next]_vars

(***************************************************************************)
(* Properties.                                                             *)
(***************************************************************************)
\* The calls that have passed the check of a row and will still charge it.
Place(s) == CASE s = "platform" -> 1 [] s = "tenant" -> 2 [] s = "user" -> 3

Checked(c, k) ==
    \/ /\ ~call[c].denied
       /\ call[c].kind = "llm"
       /\ \/ call[c].task = "check" /\ call[c].at > Place(k[1])
          \/ call[c].task = "store"
          \/ call[c].task = "charge" /\ call[c].at <= Place(k[1])
    \/ call[c].kind = "atomic" /\ call[c].task = "charge" /\ k[1] = "tenant"
    \/ call[c].kind = "e2b" /\ call[c].task = "store" /\ k \in SandboxRows

InFlight(k) == {c \in Calls : Checked(c, k)}

\* Check and charge are separate steps of recordCost, and still a row that
\* enforces its limit is overrun at most by the other calls under way: what is
\* spent and what has been let through never exceed the limit by more than one
\* call fewer than there are callers.  Lost replies and late resets included.
OverrunBounded ==
    Enforce => \A k \in Configured :
        RowsOf(k[1]) = {k}
        => rows[k].spend + Cardinality(InFlight(k)) <= Limit + Cardinality(Calls) - 1

\* Whatever throws, a call is not charged twice to a scope; the one exception
\* is the fallback after an atomic function that took effect and whose reply
\* was lost (supabaseProviders.ts 757).
ChargedOnce ==
    \A c \in Calls, s \in Scope : charges[c][s] <= (IF call[c].lost THEN 2 ELSE 1)

\* A tenant whose LLM limit is used up in this period starts no further LLM
\* call when no other call is under way (costTracking.ts 145 "Blocks LLM
\* requests that would exceed configured quotas").
Alone(c) == \A d \in Calls \ {c} : call[d].task \in {"idle", "done"}

LimitBlocksCalls ==
    [][\A c \in Calls :
          (<<"tenant", "llm">> \in Configured /\ Alone(c)
           /\ call[c].task = "run" /\ call'[c].task = "check")
          => incurred < Limit]_vars

\* Nothing that is not in the cost records is charged to the tenant by LLM and
\* sandbox calls: storeCostRecord precedes updateQuotas (costTrackingService.ts 139).
ChargedIsStored ==
    \A c \in Calls, s \in Scope :
        charges[c][s] > 0 /\ call[c].kind # "atomic" => c \in stored
=============================================================================
