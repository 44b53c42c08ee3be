--------------------------- MODULE CostQuotas_proofs ---------------------------
(***************************************************************************)
(* Proofs about CostQuotas, for any callers, configured rows and limits.   *)
(***************************************************************************)
EXTENDS CostQuotas, FiniteSetTheorems, TLAPS

CallState == [kind : Kinds, task : Task, at : 1..3, step : Step,
              end : 0..MaxNow, denied : BOOLEAN, lost : BOOLEAN]

\* The length of a walk over the scopes.
Length(kind, task) == IF kind = "llm" /\ task \in {"check", "charge"} THEN 3 ELSE 1

(***************************************************************************)
(* Where a call may stand, by its kind; a task without place in this table *)
(* would check or charge what it must not.                                 *)
(***************************************************************************)
Control(r) ==
    /\ r.kind = "llm" => r.task # "reset"
    /\ r.kind = "atomic" => r.task \in {"idle", "check", "charge", "done"}
    /\ r.kind = "e2b" => r.task \in {"idle", "store", "done"}
    /\ r.kind = "reset" => r.task \in {"idle", "reset", "done"}
    /\ r.at <= Length(r.kind, r.task)
    /\ r.step = "inc" => r.task = "charge"
    /\ r.step = "again" => r.task \in {"pre", "check"}
    /\ r.task = "reset" => r.step \in {"resetGet", "resetPut"}
    /\ r.task \in {"store", "charge"} => ~r.denied

Controlled == \A c \in Calls : Control(call[c])

-----------------------------------------------------------------------------
(* How a call moves on.                                                    *)

\* The walk of a task, and the scope a call is at.
LEMMA Walks ==
    ASSUME NEW c \in Calls, NEW task \in Task, call[c].kind \in Kinds
    PROVE  /\ Len(Visits(c, task)) = Length(call[c].kind, task)
           /\ \A i \in 1..Length(call[c].kind, task) :
                 /\ Visits(c, task)[i] \in Scope
                 /\ Length(call[c].kind, task) = 3 => Place(Visits(c, task)[i]) = i
                 /\ Length(call[c].kind, task) = 1 => Visits(c, task)[i] = "tenant"
<1>1. CASE call[c].kind = "llm" /\ task \in {"check", "charge"}
  BY <1>1 DEF Visits, Length, Place, Scope
<1>2. CASE ~(call[c].kind = "llm" /\ task \in {"check", "charge"})
  BY <1>2 DEF Visits, Length, Scope
<1>3. QED  BY <1>1, <1>2

\* Only call c moves, and it keeps its kind and whether its reply was lost.
Moves(c) ==
    /\ call' \in [Calls -> CallState]
    /\ \A d \in Calls \ {c} : call'[d] = call[d]
    /\ call'[c].kind = call[c].kind /\ call'[c].lost = call[c].lost

\* Go begins a task at its first scope.
LEMMA Going ==
    ASSUME TypeOK, NEW c \in Calls, NEW task \in Task, Go(c, task)
    PROVE  /\ Moves(c)
           /\ call'[c].task = task /\ call'[c].at = 1 /\ call'[c].step = "get"
           /\ call'[c].denied = FALSE
<1>1. call \in [Calls -> CallState]
  BY DEF TypeOK, CallState
<1>2. call[c] \in CallState /\ 1 \in 1..3 /\ "get" \in Step /\ 0 \in 0..MaxNow
  BY <1>1, NumbersAssumption DEF Step
<1>3. /\ call' \in [Calls -> CallState]
      /\ \A d \in Calls \ {c} : call'[d] = call[d]
  BY <1>1, <1>2 DEF Go, CallState
<1>4. /\ call'[c].kind = call[c].kind /\ call'[c].lost = call[c].lost
      /\ call'[c].task = task /\ call'[c].at = 1 /\ call'[c].step = "get"
      /\ call'[c].denied = FALSE
  BY <1>1, <1>2 DEF Go, CallState
<1>5. QED  BY <1>3, <1>4 DEF Moves

\* NextScope goes to the next scope of the walk, or begins what follows the task.
LEMMA Passing ==
    ASSUME TypeOK, NEW c \in Calls, NEW over \in BOOLEAN, NextScope(c, over)
    PROVE  /\ Moves(c)
           /\ call'[c].step = "get"
           /\ \/ /\ call[c].at < Length(call[c].kind, call[c].task)
                 /\ call'[c].task = call[c].task
                 /\ call'[c].at = call[c].at + 1
                 /\ call'[c].denied = (call[c].denied \/ over)
              \/ /\ call[c].at >= Length(call[c].kind, call[c].task)
                 /\ call'[c].task = After(c, call[c].denied \/ over)
                 /\ call'[c].at = 1 /\ call'[c].denied = FALSE
<1>1. call \in [Calls -> CallState] /\ call[c] \in CallState
  BY DEF TypeOK, CallState
<1>2. Len(Visits(c, call[c].task)) = Length(call[c].kind, call[c].task)
  BY <1>1, Walks DEF CallState
<1>3. CASE call[c].at < Length(call[c].kind, call[c].task)
  <2>1. /\ call[c].at + 1 \in 1..3 /\ "get" \in Step /\ 0 \in 0..MaxNow
        /\ (call[c].denied \/ over) \in BOOLEAN
    BY <1>1, <1>3, NumbersAssumption DEF CallState, Step, Length
  <2>2. call' = [call EXCEPT ![c].at = @ + 1, ![c].step = "get", ![c].end = 0,
                             ![c].denied = @ \/ over]
    BY <1>2, <1>3 DEF NextScope
  <2>3. /\ call' \in [Calls -> CallState]
        /\ \A d \in Calls \ {c} : call'[d] = call[d]
    BY <1>1, <2>1, <2>2 DEF CallState
  <2>4. /\ call'[c].kind = call[c].kind /\ call'[c].lost = call[c].lost
        /\ call'[c].task = call[c].task /\ call'[c].at = call[c].at + 1
        /\ call'[c].step = "get"
    BY <1>1, <2>1, <2>2 DEF CallState
  <2>5. call'[c].denied = (call[c].denied \/ over)
    BY <1>1, <2>1, <2>2 DEF CallState
  <2>6. QED  BY <1>3, <2>3, <2>4, <2>5 DEF Moves
<1>4. CASE call[c].at >= Length(call[c].kind, call[c].task)
  <2>1. Go(c, After(c, call[c].denied \/ over))
    BY <1>1, <1>2, <1>4 DEF NextScope, CallState, Length
  <2>2. After(c, call[c].denied \/ over) \in Task
    BY DEF After, Task
  <2>3. QED  BY <1>4, <2>1, <2>2, Going
<1>5. \/ call[c].at < Length(call[c].kind, call[c].task)
      \/ call[c].at >= Length(call[c].kind, call[c].task)
  BY <1>1 DEF CallState, Length
<1>6. QED  BY <1>3, <1>4, <1>5

\* Throw lets the check before the call pass, and ends every other task.
LEMMA Throwing ==
    ASSUME TypeOK, NEW c \in Calls, Throw(c)
    PROVE  /\ Moves(c)
           /\ call'[c].task = (IF call[c].task = "pre" THEN "run" ELSE "done")
           /\ call'[c].at = 1 /\ call'[c].step = "get" /\ call'[c].denied = FALSE
<1>1. (IF call[c].task = "pre" THEN "run" ELSE "done") \in Task
  BY DEF Task
<1>2. QED  BY <1>1, Going DEF Throw

-----------------------------------------------------------------------------
(* Type and control.                                                       *)

\* A step of a call that stays within its task.
LEMMA Stepping ==
    ASSUME TypeOK, NEW c \in Calls, NEW step \in Step, NEW end \in 0..MaxNow,
           call' = [call EXCEPT ![c].step = step, ![c].end = end]
    PROVE  /\ Moves(c)
           /\ call'[c].task = call[c].task /\ call'[c].at = call[c].at
           /\ call'[c].step = step /\ call'[c].denied = call[c].denied
<1>1. call \in [Calls -> CallState]
  BY DEF TypeOK, CallState
<1>2. /\ call' \in [Calls -> CallState]
      /\ \A d \in Calls \ {c} : call'[d] = call[d]
  BY <1>1 DEF CallState
<1>3. /\ call'[c].kind = call[c].kind /\ call'[c].lost = call[c].lost
      /\ call'[c].task = call[c].task /\ call'[c].at = call[c].at
      /\ call'[c].step = step /\ call'[c].denied = call[c].denied
  BY <1>1 DEF CallState
<1>4. QED  BY <1>2, <1>3 DEF Moves

\* A move keeps the control of all calls if it keeps that of its own.
LEMMA MovesControlled ==
    ASSUME Controlled, NEW c \in Calls, Moves(c), Control(call'[c]) PROVE Controlled'
  BY DEF Controlled, Moves

\* A walk over the scopes that passes one keeps control, as long as charges are
\* never refused.
LEMMA PassingWith ==
    ASSUME TypeOK, Controlled, NEW c \in Calls, NEW over \in BOOLEAN, NextScope(c, over),
           call[c].task \in {"pre", "check", "charge"}, over = TRUE => call[c].task # "charge"
    PROVE  Moves(c) /\ Control(call'[c])
<1>1. call[c] \in CallState /\ Control(call[c]) /\ Moves(c)
  BY Passing DEF TypeOK, CallState, Controlled
<1>2. CASE /\ call[c].at < Length(call[c].kind, call[c].task)
           /\ call'[c].task = call[c].task /\ call'[c].at = call[c].at + 1
           /\ call'[c].denied = (call[c].denied \/ over)
  <2>1. call'[c].step = "get"
    BY Passing
  <2>2. call[c].task = "charge" => ~call'[c].denied
    BY <1>1, <1>2 DEF Control
  <2>3. call'[c].at <= Length(call'[c].kind, call'[c].task)
    BY <1>1, <1>2 DEF Moves, Length, CallState
  <2>4. QED  BY <1>1, <1>2, <2>1, <2>2, <2>3 DEF Control, Moves
<1>3. CASE /\ call'[c].task = After(c, call[c].denied \/ over)
           /\ call'[c].at = 1 /\ call'[c].denied = FALSE
  <2>1. call'[c].step = "get"
    BY Passing
  <2>2. /\ call'[c].task \in {"done", "run", "charge", "store"}
        /\ call'[c].task = "run" => call[c].task = "pre"
        /\ call'[c].task = "charge" => call[c].kind = "atomic"
        /\ call'[c].task = "store" => call[c].kind # "atomic" /\ call[c].task = "check"
    BY <1>3 DEF After
  <2>3. call[c].kind # "reset" /\ call[c].kind # "e2b"
    BY <1>1 DEF Control
  <2>4. call[c].task = "pre" => call[c].kind = "llm"
    BY <1>1, KindsAssumption, <2>3 DEF Control, CallState
  <2>5. QED  BY <1>1, <1>3, <2>1, <2>2, <2>3, <2>4 DEF Control, Moves, Length
<1>4. QED  BY <1>2, <1>3, Passing

\* The same for the two answers.
LEMMA PassingControlled ==
    ASSUME TypeOK, Controlled, NEW c \in Calls,
           \/ call[c].task \in {"pre", "check"} /\ NextScope(c, TRUE)
           \/ call[c].task \in {"pre", "check", "charge"} /\ NextScope(c, FALSE)
    PROVE  Moves(c) /\ Control(call'[c])
<1>1. CASE call[c].task \in {"pre", "check"} /\ NextScope(c, TRUE)
  <2>1. call[c].task \in {"pre", "check", "charge"} /\ call[c].task # "charge"
    BY <1>1
  <2>2. QED  BY <1>1, <2>1, PassingWith
<1>2. CASE call[c].task \in {"pre", "check", "charge"} /\ NextScope(c, FALSE)
  BY <1>2, PassingWith
<1>3. QED  BY <1>1, <1>2

\* So does an exception in any task that makes remote calls.
LEMMA ThrowingControlled ==
    ASSUME TypeOK, Controlled, NEW c \in Calls, Throw(c),
           call[c].task \in {"pre", "check", "store", "charge", "reset"}
    PROVE  Moves(c) /\ Control(call'[c])
<1>1. call[c] \in CallState /\ Control(call[c]) /\ Moves(c)
  BY Throwing DEF TypeOK, CallState, Controlled
<1>2. call[c].task = "pre" => call[c].kind = "llm"
  BY <1>1, KindsAssumption DEF Control, CallState
<1>3. /\ call'[c].task = (IF call[c].task = "pre" THEN "run" ELSE "done")
      /\ call'[c].at = 1 /\ call'[c].step = "get" /\ call'[c].denied = FALSE
  BY Throwing
<1>4. 1 <= Length(call'[c].kind, call'[c].task)
  BY DEF Length
<1>5. QED  BY <1>1, <1>2, <1>3, <1>4 DEF Control, Moves

\* The beginning of a task keeps control when the kind of the call has that task.
LEMMA GoingControlled ==
    ASSUME TypeOK, NEW c \in Calls, NEW task \in Task, Go(c, task),
           /\ call[c].kind = "llm" => task # "reset"
           /\ call[c].kind = "atomic" => task \in {"idle", "check", "charge", "done"}
           /\ call[c].kind = "e2b" => task \in {"idle", "store", "done"}
           /\ call[c].kind = "reset" => task \in {"idle", "done"},
           task # "reset"
    PROVE  Moves(c) /\ Control(call'[c])
<1>1. /\ Moves(c)
      /\ call'[c].task = task /\ call'[c].at = 1 /\ call'[c].step = "get"
      /\ call'[c].denied = FALSE
  BY Going
<1>2. 1 <= Length(call'[c].kind, call'[c].task)
  BY DEF Length
<1>3. QED  BY <1>1, <1>2 DEF Control, Moves

\* A decision is one of two.
LEMMA Deciding ==
    ASSUME NEW c \in Calls, NEW k, Decide(c, k)
    PROVE  \/ rows[k].spend + 1 > Limit /\ NextScope(c, TRUE)
           \/ ~(rows[k].spend + 1 > Limit) /\ NextScope(c, FALSE)
<1>1. CASE rows[k].spend + 1 > Limit
  <2>1. (rows[k].spend + 1 > Limit) = TRUE
    BY <1>1
  <2>2. QED  BY <1>1, <2>1, Zenon DEF Decide
<1>2. CASE ~(rows[k].spend + 1 > Limit)
  <2>1. (rows[k].spend + 1 > Limit) = FALSE
    BY <1>2
  <2>2. QED  BY <1>2, <2>1, Zenon DEF Decide
<1>3. QED  BY <1>1, <1>2

\* Changes of the step alone, or with the end of the new period.
LEMMA StepChanges ==
    ASSUME TypeOK, NEW c \in Calls,
           NEW step \in {"resetGet", "again", "inc"},
           \/ call' = [call EXCEPT ![c].step = step]
           \/ call' = [call EXCEPT ![c].end = 0, ![c].step = step]
    PROVE  /\ Moves(c)
           /\ call'[c].task = call[c].task /\ call'[c].at = call[c].at
           /\ call'[c].step = step /\ call'[c].denied = call[c].denied
<1>1. call \in [Calls -> CallState] /\ step \in Step /\ 0 \in 0..MaxNow
  BY NumbersAssumption DEF TypeOK, CallState, Step
<1>2. /\ call' \in [Calls -> CallState]
      /\ \A d \in Calls \ {c} : call'[d] = call[d]
  BY <1>1 DEF CallState
<1>3. /\ call'[c].kind = call[c].kind /\ call'[c].lost = call[c].lost
      /\ call'[c].task = call[c].task /\ call'[c].at = call[c].at
      /\ call'[c].step = step /\ call'[c].denied = call[c].denied
  BY <1>1 DEF CallState
<1>4. QED  BY <1>2, <1>3 DEF Moves

\* What a look-up leads to.
LEMMA Looking ==
    ASSUME NEW c \in Calls, Get(c)
    PROVE  \/ NextScope(c, FALSE) /\ RowsOf(ScopeOf(c)) = {}
           \/ Throw(c)
           \/ \E k \in Configured :
                 /\ k \in RowsOf(ScopeOf(c))
                 /\ \/ call' = [call EXCEPT ![c].step = "resetGet"]
                    \/ call[c].task = "charge" /\ call' = [call EXCEPT ![c].step = "inc"]
                    \/ call[c].task # "charge" /\ Decide(c, k)
<1> DEFINE ks == RowsOf(ScopeOf(c))
<1>1. CASE ks = {}
  BY <1>1 DEF Get
<1>2. CASE ks # {} /\ Cardinality(ks) > 1
  BY <1>2 DEF Get
<1>3. CASE ks # {} /\ ~(Cardinality(ks) > 1)
  <2>1. PICK k \in ks : IF now > rows[k].period
                        THEN call' = [call EXCEPT ![c].step = "resetGet"]
                        ELSE IF call[c].task = "charge"
                             THEN call' = [call EXCEPT ![c].step = "inc"]
                             ELSE Decide(c, k)
    BY <1>3 DEF Get
  <2>2. k \in Configured
    BY DEF RowsOf
  <2>3. QED  BY <2>1, <2>2
<1>4. QED  BY <1>1, <1>2, <1>3

\* The row a look-up finds decides, or has its period renewed first.
LEMMA GetControlled ==
    ASSUME TypeOK, Controlled, NEW c \in Calls, Get(c) PROVE Moves(c) /\ Control(call'[c])
<1>0. call[c] \in CallState /\ Control(call[c])
  BY DEF TypeOK, CallState, Controlled
<1>1. call[c].task \in {"pre", "check", "charge"}
  BY <1>0 DEF Get, Working, Control
<1>2. CASE NextScope(c, FALSE)
  BY <1>1, <1>2, PassingControlled
<1>3. CASE Throw(c)
  BY <1>1, <1>3, ThrowingControlled
<1>4. ASSUME call' = [call EXCEPT ![c].step = "resetGet"] PROVE Moves(c) /\ Control(call'[c])
  BY <1>0, <1>1, <1>4, StepChanges DEF Control, Moves
<1>6. ASSUME call[c].task = "charge", call' = [call EXCEPT ![c].step = "inc"]
      PROVE  Moves(c) /\ Control(call'[c])
  BY <1>0, <1>1, <1>6, StepChanges DEF Control, Moves
<1>5. ASSUME NEW k \in Configured, Decide(c, k), call[c].task # "charge"
      PROVE  Moves(c) /\ Control(call'[c])
  <2>1. NextScope(c, TRUE) \/ NextScope(c, FALSE)
    BY <1>5, Deciding
  <2>2. QED  BY <1>1, <1>5, <2>1, PassingControlled
<1>7. \/ NextScope(c, FALSE)
      \/ Throw(c)
      \/ \E k \in Configured :
            \/ call' = [call EXCEPT ![c].step = "resetGet"]
            \/ call[c].task = "charge" /\ call' = [call EXCEPT ![c].step = "inc"]
            \/ call[c].task # "charge" /\ Decide(c, k)
  BY Looking
<1>8. QED  BY <1>2, <1>3, <1>4, <1>5, <1>6, <1>7

\* The other remote calls.
LEMMA RemoteControlled ==
    ASSUME TypeOK, Controlled, NEW c \in Calls,
           Fail(c) \/ Get(c) \/ ResetGet(c) \/ ResetPut(c) \/ Again(c) \/ Inc(c)
    PROVE  Moves(c) /\ Control(call'[c])
<1>1. call[c] \in CallState /\ Control(call[c]) /\ call \in [Calls -> CallState]
  BY DEF TypeOK, CallState, Controlled
<1>2. CASE Fail(c)
  BY <1>2, ThrowingControlled DEF Fail
<1>3. CASE ResetGet(c)
  <2>1. call' = [call EXCEPT ![c].step = "resetPut", ![c].end = now] /\ now \in 0..MaxNow
        /\ "resetPut" \in Step
    BY <1>3 DEF ResetGet, TypeOK, Step
  <2>2. QED  BY <1>1, <2>1, Stepping DEF Control, Moves
<1>4. CASE ResetPut(c)
  <2>1. CASE Throw(c)
    BY <1>1, <1>4, <2>1, ThrowingControlled DEF ResetPut, Working
  <2>2. CASE call[c].task = "reset" /\ Go(c, "done")
    <3>1. "done" \in Task
      BY DEF Task
    <3>2. QED  BY <2>2, <3>1, GoingControlled
  <2>4. call[c].task \in {"pre", "check", "charge", "reset"}
    BY <1>4 DEF ResetPut, Working
  <2>5. CASE ScopeOf(c) = "platform"
    BY <1>4, <2>1, <2>5 DEF ResetPut
  <2>6. CASE ScopeOf(c) # "platform" /\ call[c].task = "reset"
    BY <1>4, <2>2, <2>6 DEF ResetPut
  <2>7. CASE ScopeOf(c) # "platform" /\ call[c].task = "charge"
    <3>1. call' = [call EXCEPT ![c].end = 0, ![c].step = "inc"]
      BY <1>4, <2>7 DEF ResetPut
    <3>2. QED  BY <1>1, <2>7, <3>1, StepChanges DEF Control, Moves
  <2>8. CASE ScopeOf(c) # "platform" /\ call[c].task \in {"pre", "check"}
    <3>1. call' = [call EXCEPT ![c].end = 0, ![c].step = "again"]
      BY <1>4, <2>8 DEF ResetPut
    <3>2. QED  BY <1>1, <2>8, <3>1, StepChanges DEF Control, Moves
  <2>9. QED  BY <2>4, <2>5, <2>6, <2>7, <2>8
<1>5. CASE Again(c)
  <2>1. call[c].task \in {"pre", "check"}
    BY <1>1, <1>5 DEF Again, Working, Control
  <2>2. NextScope(c, TRUE) \/ NextScope(c, FALSE)
    BY <1>5, Deciding DEF Again
  <2>3. QED  BY <2>1, <2>2, PassingControlled
<1>6. CASE Inc(c)
  <2>1. call[c].task = "charge"
    BY <1>1, <1>6 DEF Inc, Working, Control
  <2>2. QED  BY <1>6, <2>1, PassingControlled, ThrowingControlled DEF Inc
<1>7. QED  BY <1>2, <1>3, <1>4, <1>5, <1>6, GetControlled

\* The beginnings, the records and the transactions.
LEMMA OwnControlled ==
    ASSUME TypeOK, Controlled, NEW c \in Calls,
           \/ Request(c) \/ Run(c) \/ Store(c) \/ AtomicFails(c)
           \/ SandboxCheck(c) \/ SandboxInc(c) \/ Reset(c)
    PROVE  Moves(c) /\ Control(call'[c])
<1>1. call[c] \in CallState /\ Control(call[c]) /\ call \in [Calls -> CallState]
  BY DEF TypeOK, CallState, Controlled
<1>2. {"pre", "run", "check", "store", "charge", "done"} \subseteq Task
  BY DEF Task
<1>3. CASE Request(c)
  <2>1. \E task \in {"pre", "run"} : Go(c, task)
    BY <1>3 DEF Request
  <2>2. QED  BY <1>2, <1>3, <2>1, GoingControlled DEF Request
<1>4. CASE Run(c)
  <2>1. \E task \in {"check", "store"} : Go(c, task)
    BY <1>4 DEF Run
  <2>2. QED  BY <1>2, <1>4, <2>1, GoingControlled DEF Run
<1>5. CASE Store(c)
  BY <1>2, <1>5, GoingControlled DEF Store
<1>6. CASE AtomicFails(c)
  BY <1>2, <1>6, GoingControlled DEF AtomicFails
<1>7. CASE SandboxCheck(c)
  <2>1. \E task \in {"done", "store"} : Go(c, task)
    BY <1>7 DEF SandboxCheck
  <2>2. QED  BY <1>2, <1>7, <2>1, GoingControlled DEF SandboxCheck
<1>8. CASE SandboxInc(c)
  BY <1>2, <1>8, GoingControlled DEF SandboxInc
<1>9. CASE Reset(c)
  <2>1. CASE Go(c, "done")
    BY <1>2, <1>9, <2>1, GoingControlled DEF Reset
  <2>2. CASE call' = [call EXCEPT ![c].task = "reset", ![c].step = "resetGet"]
    <3>1. "reset" \in Task /\ "resetGet" \in Step
      BY DEF Task, Step
    <3>2. Moves(c)
      BY <1>1, <2>2, <3>1 DEF Moves, CallState
    <3>3. /\ call'[c].task = "reset" /\ call'[c].step = "resetGet"
          /\ call'[c].at = call[c].at
      BY <1>1, <2>2 DEF CallState
    <3>4. call[c].kind = "reset" /\ call[c].at <= 1
      BY <1>1, <1>9 DEF Reset, Control, Length, CallState
    <3>5. QED  BY <3>2, <3>3, <3>4 DEF Control, Moves, Length
  <2>3. QED  BY <1>9, <2>1, <2>2 DEF Reset
<1>10. QED  BY <1>3, <1>4, <1>5, <1>6, <1>7, <1>8, <1>9

\* The transaction may lose its reply; its caller then starts the fallback.
LEMMA AtomicControlled ==
    ASSUME TypeOK, Controlled, NEW c \in Calls, Atomic(c)
    PROVE  /\ Controlled' /\ call' \in [Calls -> CallState]
           /\ \A d \in Calls \ {c} : call'[d] = call[d]
           /\ call'[c].kind = "atomic"
           /\ \/ call'[c].task = "done" /\ call'[c].lost = call[c].lost
              \/ call'[c].task = "check" /\ call'[c].lost = TRUE /\ RowsOf("tenant") # {}
<1>1. call[c] \in CallState /\ Control(call[c]) /\ call \in [Calls -> CallState]
      /\ call[c].kind = "atomic" /\ call[c].task = "idle"
  BY DEF TypeOK, CallState, Controlled, Atomic
<1>2. CASE Go(c, "done")
  <2>1. "done" \in Task
    BY DEF Task
  <2>2. Moves(c) /\ Control(call'[c]) /\ call'[c].task = "done"
    BY <1>1, <1>2, <2>1, GoingControlled, Going
  <2>3. QED  BY <1>1, <2>2, MovesControlled DEF Moves
<1>3. CASE call' = [call EXCEPT ![c].task = "check", ![c].lost = TRUE] /\ RowsOf("tenant") # {}
  <2>1. "check" \in Task
    BY DEF Task
  <2>2. /\ call' \in [Calls -> CallState]
        /\ \A d \in Calls \ {c} : call'[d] = call[d]
    BY <1>1, <1>3, <2>1 DEF CallState
  <2>3. /\ call'[c].kind = "atomic" /\ call'[c].task = "check" /\ call'[c].lost = TRUE
        /\ call'[c].at = call[c].at /\ call'[c].step = call[c].step
    BY <1>1, <1>3 DEF CallState
  <2>4. Control(call'[c])
    BY <1>1, <2>3 DEF Control, Length
  <2>5. QED  BY <1>3, <2>2, <2>3, <2>4 DEF Controlled
<1>4. QED
  <2>1. Go(c, "done") \/ (call' = [call EXCEPT ![c].task = "check", ![c].lost = TRUE] /\ RowsOf("tenant") # {})
    BY DEF Atomic
  <2>2. QED  BY <1>2, <1>3, <2>1

\* A caller that is free takes up a call of any kind.
LEMMA ReturnControlled ==
    ASSUME TypeOK, Controlled, NEW c \in Calls, Return(c)
    PROVE  /\ Controlled' /\ call' \in [Calls -> CallState]
           /\ \A d \in Calls \ {c} : call'[d] = call[d]
           /\ call'[c].task = "idle" /\ call'[c].lost = FALSE
<1>1. PICK d \in Kinds : call' = [call EXCEPT ![c] =
            [kind |-> d, task |-> "idle", at |-> 1, step |-> "get",
             end |-> 0, denied |-> FALSE, lost |-> FALSE]]
  BY DEF Return
<1>2. [kind |-> d, task |-> "idle", at |-> 1, step |-> "get",
       end |-> 0, denied |-> FALSE, lost |-> FALSE] \in CallState
  BY NumbersAssumption DEF CallState, Task, Step
<1>3. call \in [Calls -> CallState]
  BY DEF TypeOK, CallState
<1>4. Control(call'[c])
  BY <1>1, <1>3 DEF Control, Length
<1>5. QED  BY <1>1, <1>2, <1>3, <1>4 DEF Controlled

RowState == [spend : Nat, period : 0..MaxNow]

\* Any step of a call keeps control of all of them.
LEMMA StepControlled ==
    ASSUME TypeOK, Controlled, NEW c \in Calls, CallStep(c)
    PROVE  Controlled' /\ call' \in [Calls -> CallState]
<1>1. CASE Fail(c) \/ Get(c) \/ ResetGet(c) \/ ResetPut(c) \/ Again(c) \/ Inc(c)
  BY <1>1, RemoteControlled, MovesControlled DEF Moves
<1>2. CASE \/ Request(c) \/ Run(c) \/ Store(c) \/ AtomicFails(c)
           \/ SandboxCheck(c) \/ SandboxInc(c) \/ Reset(c)
  BY <1>2, OwnControlled, MovesControlled DEF Moves
<1>3. CASE Atomic(c)
  BY <1>3, AtomicControlled
<1>4. CASE SandboxStore(c)
  BY <1>4 DEF SandboxStore, TypeOK, CallState, Controlled
<1>5. CASE Return(c)
  BY <1>5, ReturnControlled
<1>6. QED  BY <1>1, <1>2, <1>3, <1>4, <1>5 DEF CallStep

\* The scope a call is at is one of the three.
LEMMA ScopeKnown ==
    ASSUME TypeOK, Controlled, NEW c \in Calls PROVE ScopeOf(c) \in Scope
<1>1. call[c] \in CallState /\ call[c].at <= Length(call[c].kind, call[c].task)
  BY DEF TypeOK, CallState, Controlled, Control
<1>2. call[c].at \in 1..Length(call[c].kind, call[c].task)
  BY <1>1 DEF CallState, Length
<1>3. QED  BY <1>1, <1>2, Walks DEF ScopeOf, CallState

\* Charging rows keeps them rows.
LEMMA Charging ==
    ASSUME TypeOK, NEW ks \in SUBSET Configured,
           SetRows(ks, [k \in ks |-> [rows[k] EXCEPT !.spend = @ + 1]])
    PROVE  /\ rows' \in [Configured -> RowState]
           /\ \A k \in ks : rows'[k].spend = rows[k].spend + 1
           /\ \A k \in Configured \ ks : rows'[k] = rows[k]
<1>1. rows \in [Configured -> RowState]
  BY DEF TypeOK, RowState
<1>2. \A k \in ks : [rows[k] EXCEPT !.spend = @ + 1] \in RowState
                    /\ [rows[k] EXCEPT !.spend = @ + 1].spend = rows[k].spend + 1
  BY <1>1 DEF RowState
<1>3. QED  BY <1>1, <1>2 DEF SetRows

\* Renewing rows does so too.
LEMMA Renewing ==
    ASSUME TypeOK, NEW ks \in SUBSET Configured, NEW end \in 0..MaxNow,
           SetRows(ks, [k \in ks |-> [spend |-> 0, period |-> end]])
    PROVE  /\ rows' \in [Configured -> RowState]
           /\ \A k \in ks : rows'[k].spend = 0
           /\ \A k \in Configured \ ks : rows'[k] = rows[k]
<1>1. rows \in [Configured -> RowState]
  BY DEF TypeOK, RowState
<1>2. rows' \in [Configured -> RowState]
  BY <1>1 DEF SetRows, RowState
<1>3. QED  BY <1>1, <1>2 DEF SetRows

\* The transaction of the atomic function changes one row at most.
LEMMA Transacting ==
    ASSUME TypeOK, NEW c \in Calls, Atomic(c)
    PROVE  \/ UNCHANGED <<rows, charges>>
           \/ \E k \in RowsOf("tenant") :
                /\ rows' \in [Configured -> RowState]
                /\ \A j \in Configured \ {k} : rows'[j] = rows[j]
                /\ \/ rows'[k].spend <= rows[k].spend /\ charges' = charges
                   \/ rows'[k].spend <= Limit
                      /\ charges' = [charges EXCEPT ![c]["tenant"] = @ + 1]
<1>1. rows \in [Configured -> RowState] /\ now \in 0..MaxNow
  BY DEF TypeOK, RowState
<1>2. CASE RowsOf("tenant") = {}
  BY <1>2 DEF Atomic
<1>3. CASE RowsOf("tenant") # {}
  <2> DEFINE fresh(k) == rows[k].period < now
             spent(k) == IF fresh(k) THEN 0 ELSE rows[k].spend
             row(k) == [spend |-> IF spent(k) + 1 <= Limit THEN spent(k) + 1 ELSE spent(k),
                        period |-> IF fresh(k) THEN now ELSE rows[k].period]
  <2>1. PICK k \in RowsOf("tenant") :
          /\ rows' = [rows EXCEPT ![k] = row(k)]
          /\ charges' = IF spent(k) + 1 <= Limit THEN [charges EXCEPT ![c]["tenant"] = @ + 1]
                                                 ELSE charges
    BY <1>1, <1>3 DEF Atomic, RowsOf
  <2>2. k \in Configured /\ rows[k] \in RowState
    BY <1>1 DEF RowsOf
  <2>3. spent(k) \in Nat /\ spent(k) <= rows[k].spend /\ row(k) \in RowState
        /\ row(k).spend = (IF spent(k) + 1 <= Limit THEN spent(k) + 1 ELSE spent(k))
    BY <1>1, <2>2, NumbersAssumption DEF RowState
  <2>4. /\ rows' \in [Configured -> RowState] /\ rows'[k] = row(k)
        /\ \A j \in Configured \ {k} : rows'[j] = rows[j]
    BY <1>1, <2>1, <2>2, <2>3
  <2>5. \/ rows'[k].spend <= rows[k].spend /\ charges' = charges
        \/ rows'[k].spend <= Limit /\ charges' = [charges EXCEPT ![c]["tenant"] = @ + 1]
    BY <2>1, <2>2, <2>3, <2>4, NumbersAssumption DEF RowState
  <2>6. QED  BY <2>4, <2>5
<1>4. QED  BY <1>2, <1>3

-----------------------------------------------------------------------------
(* The rows and what is known of them.                                     *)

\* What a step of a call does to the rows.
LEMMA RowsTyped ==
    ASSUME TypeOK, Controlled, NEW c \in Calls, CallStep(c)
    PROVE  rows' \in [Configured -> RowState]
<1>0. /\ rows \in [Configured -> RowState] /\ call[c].end \in 0..MaxNow
      /\ \A s \in Scope : RowsOf(s) \in SUBSET Configured
      /\ SandboxRows \in SUBSET Configured
      /\ ScopeOf(c) \in Scope
  BY ScopeKnown DEF TypeOK, RowState, RowsOf, SandboxRows
<1>1. CASE rows' = rows
  BY <1>0, <1>1
<1>2. CASE ResetPut(c)
  <2>1. CASE ScopeOf(c) = "platform"
    BY <1>1, <1>2, <2>1 DEF ResetPut
  <2>2. CASE ScopeOf(c) # "platform"
    <3> DEFINE ks == RowsOf(ScopeOf(c))
    <3>1. SetRows(ks, [k \in ks |-> [spend |-> 0, period |-> call[c].end]])
      BY <1>2, <2>2 DEF ResetPut
    <3>2. ks \in SUBSET Configured
      BY <1>0
    <3> HIDE DEF ks
    <3>3. QED  BY <1>0, <3>1, <3>2, Renewing
  <2>3. QED  BY <2>1, <2>2
<1>3. ASSUME NEW ks \in SUBSET Configured,
             SetRows(ks, [k \in ks |-> [rows[k] EXCEPT !.spend = @ + 1]])
      PROVE  rows' \in [Configured -> RowState]
  BY <1>3, Charging
<1>4. CASE Inc(c)
  <2>1. SetRows(RowsOf(ScopeOf(c)),
                [k \in RowsOf(ScopeOf(c)) |-> [rows[k] EXCEPT !.spend = @ + 1]])
    BY <1>4 DEF Inc
  <2>2. QED  BY <1>0, <1>3, <2>1
<1>5. CASE SandboxInc(c)
  <2>1. SetRows(SandboxRows, [k \in SandboxRows |-> [rows[k] EXCEPT !.spend = @ + 1]])
    BY <1>5 DEF SandboxInc
  <2>2. QED  BY <1>0, <1>3, <2>1
<1>6. CASE Atomic(c)
  BY <1>1, <1>6, Transacting
<1>7. rows' = rows \/ ResetPut(c) \/ Inc(c) \/ SandboxInc(c) \/ Atomic(c)
  BY DEF CallStep, Fail, Get, ResetGet, Again, Request, Run, Store, AtomicFails,
         SandboxCheck, SandboxStore, Reset, Return, history
<1>8. QED  BY <1>1, <1>2, <1>4, <1>5, <1>6, <1>7

\* The period, the records and the counts.
LEMMA CountsTyped ==
    ASSUME TypeOK, Controlled, NEW c \in Calls, CallStep(c)
    PROVE  /\ now' = now /\ stored' \in SUBSET Calls /\ incurred' \in Nat
           /\ charges' \in [Calls -> [Scope -> Nat]]
<1>1. /\ ScopeOf(c) \in Scope /\ "tenant" \in Scope
      /\ stored \in SUBSET Calls /\ incurred \in Nat /\ charges \in [Calls -> [Scope -> Nat]]
  BY ScopeKnown DEF TypeOK, Scope
<1>2. now' = now /\ stored' \in SUBSET Calls /\ incurred' \in Nat
  <2>1. CASE Run(c)
    BY <1>1, <2>1 DEF Run
  <2>2. CASE Store(c) \/ SandboxStore(c) \/ Return(c)
    BY <1>1, <2>2 DEF Store, SandboxStore, Return, history
  <2>3. CASE ~(Run(c) \/ Store(c) \/ SandboxStore(c) \/ Return(c))
    <3>1. UNCHANGED <<now, stored, incurred>>
      BY <2>3 DEF CallStep, Fail, Get, ResetGet, ResetPut, Again, Inc, Request, Atomic,
                  AtomicFails, SandboxCheck, SandboxInc, Reset, history
    <3>2. QED  BY <1>1, <3>1
  <2>4. QED  BY <2>1, <2>2, <2>3
<1>3. ASSUME NEW s \in Scope
      PROVE  [charges EXCEPT ![c][s] = @ + 1] \in [Calls -> [Scope -> Nat]]
  BY <1>1
<1>4. [charges EXCEPT ![c] = [s \in Scope |-> 0]] \in [Calls -> [Scope -> Nat]]
  BY <1>1
<1>5. \/ charges' = charges
      \/ charges' = [charges EXCEPT ![c][ScopeOf(c)] = @ + 1]
      \/ charges' = [charges EXCEPT ![c]["tenant"] = @ + 1]
      \/ charges' = [charges EXCEPT ![c] = [s \in Scope |-> 0]]
  <2>1. CASE Atomic(c)
    BY <2>1, Transacting
  <2>2. CASE ~Atomic(c)
    BY <2>2 DEF CallStep, Fail, Get, ResetGet, ResetPut, Again, Inc, Request, Run, Store,
                AtomicFails, SandboxCheck, SandboxStore, SandboxInc, Reset, Return, history
  <2>3. QED  BY <2>1, <2>2
<1>6. QED  BY <1>1, <1>2, <1>3, <1>4, <1>5

\* The invariant of the rows.
RowsInv == TypeOK /\ Controlled

\* It is inductive: every step keeps it,
LEMMA RowsInvStep == ASSUME RowsInv, [Next]_vars PROVE RowsInv'
<1>1. ASSUME NEW c \in Calls, CallStep(c) PROVE RowsInv'
  <2>1. Controlled' /\ call' \in [Calls -> CallState]
    BY <1>1, StepControlled DEF RowsInv
  <2>2. rows' \in [Configured -> RowState]
    BY <1>1, RowsTyped DEF RowsInv
  <2>3. /\ now' = now /\ stored' \in SUBSET Calls /\ incurred' \in Nat
        /\ charges' \in [Calls -> [Scope -> Nat]]
    BY <1>1, CountsTyped DEF RowsInv
  <2>4. TypeOK'
    BY <2>1, <2>2, <2>3 DEF RowsInv, TypeOK, CallState, RowState
  <2>5. QED  BY <2>1, <2>4 DEF RowsInv
<1>2. CASE Tick
  <2>1. now' \in 0..MaxNow /\ incurred' \in Nat
    BY <1>2, NumbersAssumption DEF Tick, RowsInv, TypeOK
  <2>2. QED  BY <1>2, <2>1 DEF Tick, RowsInv, TypeOK, Controlled
<1>3. CASE UNCHANGED vars
  BY <1>3 DEF vars, RowsInv, TypeOK, Controlled
<1>4. QED  BY <1>1, <1>2, <1>3 DEF Next

\* and it holds at first.
LEMMA RowsInvInit == ASSUME Init PROVE RowsInv
<1>1. 0 \in 0..MaxNow /\ [spend |-> 0, period |-> 0] \in RowState
  BY NumbersAssumption DEF RowState
<1>2. \A d \in Kinds : [kind |-> d, task |-> "idle", at |-> 1, step |-> "get",
                        end |-> 0, denied |-> FALSE, lost |-> FALSE] \in CallState
  BY <1>1 DEF CallState, Task, Step
<1>3. call \in [Calls -> CallState]
  BY <1>2 DEF Init
<1>4. \A c \in Calls : call[c].task = "idle" /\ call[c].step = "get" /\ call[c].at = 1
  BY DEF Init
<1>5. Controlled
  BY <1>4 DEF Controlled, Control, Length
<1>6. rows \in [Configured -> RowState] /\ \A k \in Configured : rows[k].spend = 0
  BY <1>1 DEF Init
<1>7. TypeOK
  BY <1>1, <1>3, <1>6 DEF Init, TypeOK, CallState, RowState
<1>8. QED  BY <1>5, <1>7 DEF RowsInv

\* Every state of every behaviour is well typed.
THEOREM TypeCorrect == Spec => []TypeOK
<1>1. Spec => []RowsInv
  BY RowsInvInit, RowsInvStep, PTL DEF Spec
<1>2. RowsInv => TypeOK
  BY DEF RowsInv
<1>3. QED  BY <1>1, <1>2, PTL

-----------------------------------------------------------------------------
(* How often a call is charged.                                            *)

\* A step within a task.
Stays(c) ==
    /\ Moves(c)
    /\ call'[c].task = call[c].task /\ call'[c].at = call[c].at
    /\ call'[c].denied = call[c].denied

\* A charge goes to the next scope or ends.
LEMMA ChargePassing ==
    ASSUME TypeOK, NEW c \in Calls, call[c].task = "charge", NextScope(c, FALSE)
    PROVE  /\ Moves(c)
           /\ \/ call'[c].task = "done"
              \/ call'[c].task = "charge" /\ call'[c].at = call[c].at + 1
                 /\ call'[c].denied = call[c].denied
<1>1. call[c].denied \in BOOLEAN
  BY DEF TypeOK
<1>2. After(c, call[c].denied \/ FALSE) = "done"
  BY DEF After
<1>3. QED  BY <1>1, <1>2, Passing

\* A check that finds nothing against the call goes to the next scope, or to
\* what follows the check.
LEMMA CheckPassing ==
    ASSUME TypeOK, NEW c \in Calls, call[c].task = "check", NextScope(c, FALSE)
    PROVE  /\ Moves(c)
           /\ \/ call'[c].task = "done"
              \/ /\ call[c].at >= Length(call[c].kind, "check")
                 /\ call'[c].task = IF call[c].kind = "atomic" THEN "charge" ELSE "store"
                 /\ ~call[c].denied
              \/ /\ call[c].at < Length(call[c].kind, "check")
                 /\ call'[c].task = "check" /\ call'[c].at = call[c].at + 1
                 /\ call'[c].denied = call[c].denied
<1>1. call[c].denied \in BOOLEAN
  BY DEF TypeOK
<1>2. \/ After(c, call[c].denied \/ FALSE) = "done"
      \/ /\ After(c, call[c].denied \/ FALSE) = IF call[c].kind = "atomic" THEN "charge" ELSE "store"
         /\ ~call[c].denied
  BY <1>1 DEF After
<1>3. QED  BY <1>1, <1>2, Passing

\* One that refuses the call remembers it, or ends the call.
LEMMA CheckRefusing ==
    ASSUME TypeOK, NEW c \in Calls, call[c].task = "check", NextScope(c, TRUE)
    PROVE  /\ Moves(c)
           /\ \/ call'[c].task = "done"
              \/ call'[c].task = "check" /\ call'[c].denied = TRUE
<1>1. call[c].denied \in BOOLEAN
  BY DEF TypeOK
<1>2. After(c, call[c].denied \/ TRUE) = "done"
  BY DEF After
<1>3. (call[c].denied \/ TRUE) = TRUE
  BY <1>1
<1>4. QED  BY <1>2, <1>3, Passing

\* The check before the turn lets it run or not.
LEMMA PrePassing ==
    ASSUME TypeOK, NEW c \in Calls, call[c].task = "pre",
           NextScope(c, TRUE) \/ NextScope(c, FALSE)
    PROVE  Moves(c) /\ call'[c].task \in {"pre", "run", "done"}
<1>1. \A over \in BOOLEAN : After(c, call[c].denied \/ over) \in {"run", "done"}
  BY DEF After
<1>2. QED  BY <1>1, Passing

\* What the remote calls do to a call, besides charging.
LEMMA RemoteMoves ==
    ASSUME TypeOK, Controlled, NEW c \in Calls,
           Fail(c) \/ Get(c) \/ ResetGet(c) \/ ResetPut(c) \/ Again(c)
    PROVE  \/ Stays(c)
           \/ Moves(c) /\ call'[c].task = "done"
           \/ Moves(c) /\ call[c].task = "pre" /\ call'[c].task \in {"pre", "run", "done"}
           \/ call[c].task = "check" /\ NextScope(c, TRUE)
           \/ /\ call[c].task \in {"check", "charge"} /\ NextScope(c, FALSE)
              /\ \/ RowsOf(ScopeOf(c)) = {}
                 \/ \E k \in RowsOf(ScopeOf(c)) : ~(rows[k].spend + 1 > Limit)
                    /\ call[c].task = "check"
<1>1. call[c] \in CallState /\ Control(call[c]) /\ call \in [Calls -> CallState]
  BY DEF TypeOK, CallState, Controlled
<1>2. CASE Throw(c)
  BY <1>2, Throwing
<1>3. ASSUME NEW k \in RowsOf(ScopeOf(c)), Decide(c, k), call[c].task \in {"pre", "check"}
      PROVE  \/ Moves(c) /\ call[c].task = "pre" /\ call'[c].task \in {"pre", "run", "done"}
             \/ call[c].task = "check" /\ NextScope(c, TRUE)
             \/ call[c].task = "check" /\ NextScope(c, FALSE) /\ ~(rows[k].spend + 1 > Limit)
  <2>1. \/ rows[k].spend + 1 > Limit /\ NextScope(c, TRUE)
        \/ ~(rows[k].spend + 1 > Limit) /\ NextScope(c, FALSE)
    BY <1>3, Deciding
  <2>2. QED  BY <1>3, <2>1, PrePassing
<1>4. CASE Fail(c)
  BY <1>2, <1>4 DEF Fail
<1>5. CASE Get(c)
  <2>1. call[c].task \in {"pre", "check", "charge"}
    BY <1>1, <1>5 DEF Get, Working, Control
  <2>2. CASE NextScope(c, FALSE) /\ RowsOf(ScopeOf(c)) = {}
    BY <2>1, <2>2, PrePassing
  <2>3. ASSUME \/ call' = [call EXCEPT ![c].step = "resetGet"]
               \/ call' = [call EXCEPT ![c].step = "inc"]
        PROVE  Stays(c)
    BY <2>3, StepChanges DEF Stays
  <2>4. ASSUME NEW k \in RowsOf(ScopeOf(c)), call[c].task # "charge", Decide(c, k)
        PROVE  \/ Moves(c) /\ call[c].task = "pre" /\ call'[c].task \in {"pre", "run", "done"}
               \/ call[c].task = "check" /\ NextScope(c, TRUE)
               \/ call[c].task = "check" /\ NextScope(c, FALSE) /\ ~(rows[k].spend + 1 > Limit)
    BY <1>3, <2>1, <2>4
  <2>5. QED  BY <1>2, <1>5, <2>2, <2>3, <2>4, Looking
<1>6. CASE ResetGet(c)
  <2>1. call' = [call EXCEPT ![c].step = "resetPut", ![c].end = now] /\ now \in 0..MaxNow
        /\ "resetPut" \in Step
    BY <1>6 DEF ResetGet, TypeOK, Step
  <2>2. QED  BY <2>1, Stepping DEF Stays
<1>7. CASE ResetPut(c)
  <2>1. CASE Go(c, "done")
    BY <2>1, Going DEF Task
  <2>2. CASE call' = [call EXCEPT ![c].end = 0, ![c].step = "inc"]
    BY <2>2, StepChanges DEF Stays
  <2>3. CASE call' = [call EXCEPT ![c].end = 0, ![c].step = "again"]
    BY <2>3, StepChanges DEF Stays
  <2>4. \/ Throw(c) \/ Go(c, "done")
        \/ call' = [call EXCEPT ![c].end = 0, ![c].step = "inc"]
        \/ call' = [call EXCEPT ![c].end = 0, ![c].step = "again"]
    <3>1. CASE ScopeOf(c) = "platform"
      BY <1>7, <3>1 DEF ResetPut
    <3>2. CASE ScopeOf(c) # "platform" /\ call[c].task = "charge"
      BY <1>7, <3>2 DEF ResetPut
    <3>3. CASE ScopeOf(c) # "platform" /\ call[c].task # "charge"
      BY <1>7, <3>3 DEF ResetPut
    <3>4. QED  BY <3>1, <3>2, <3>3
  <2>5. QED  BY <1>2, <2>1, <2>2, <2>3, <2>4
<1>8. CASE Again(c)
  <2>1. call[c].task \in {"pre", "check"}
    BY <1>1, <1>8 DEF Again, Working, Control
  <2>2. PICK k \in RowsOf(ScopeOf(c)) : Decide(c, k)
    BY <1>8 DEF Again
  <2>3. QED  BY <1>3, <2>1, <2>2
<1>9. QED  BY <1>4, <1>5, <1>6, <1>7, <1>8

\* How often a call has been charged to a scope at most, from where it stands.
MostCharged(r, s) ==
    (IF r.kind = "atomic" /\ r.lost THEN 1 ELSE 0)
    + (IF r.task = "done" \/ (r.kind = "llm" /\ r.task = "charge" /\ r.at > Place(s))
       THEN 1 ELSE 0)

ChargeOf(c) ==
    /\ \A s \in Scope : charges[c][s] <= MostCharged(call[c], s)
    /\ call[c].kind # "atomic" => \A s \in Scope : charges[c][s] > 0 => c \in stored
    /\ call[c].kind = "llm" /\ call[c].task = "charge" => c \in stored
    /\ call[c].task = "idle" => ~call[c].lost

ChargeInv == RowsInv /\ \A c \in Calls : ChargeOf(c)

\* A step that charges nothing and drops no record keeps the counts, when it
\* ends the call, stays at or goes on from its charge, or was not charging.
LEMMA Uncharged ==
    ASSUME TypeOK, NEW c \in Calls, ChargeOf(c), Moves(c), call[c].task # "done",
           charges' = charges, stored \subseteq stored',
           call'[c].task # "idle",
           \/ call'[c].task = "done"
           \/ call'[c].task = "charge" /\ call[c].task = "charge" /\ call'[c].at >= call[c].at
           \/ call[c].task # "charge"
              /\ (call'[c].task = "charge" /\ call[c].kind = "llm" => c \in stored')
    PROVE  ChargeOf(c)'
<1>1. /\ call[c].kind = call'[c].kind /\ call[c].lost = call'[c].lost
      /\ call[c].at \in 1..3 /\ call'[c].at \in 1..3
      /\ charges[c] \in [Scope -> Nat] /\ charges'[c] = charges[c]
  BY DEF Moves, TypeOK, CallState
<1>2. \A s \in Scope : MostCharged(call[c], s) <= MostCharged(call'[c], s)
                       /\ MostCharged(call[c], s) \in 0..2 /\ MostCharged(call'[c], s) \in 0..2
  BY <1>1 DEF MostCharged, Place, Scope
<1>3. \A s \in Scope : charges'[c][s] <= MostCharged(call'[c], s)
  BY <1>1, <1>2 DEF ChargeOf
<1>4. QED  BY <1>1, <1>3 DEF ChargeOf

\* A scope is charged where the walk is, and the walk goes on or ends.
LEMMA ChargedStep ==
    ASSUME TypeOK, Controlled, NEW c \in Calls, ChargeOf(c), Inc(c)
    PROVE  ChargeOf(c)'
<1>1. /\ call[c] \in CallState /\ Control(call[c]) /\ call[c].task = "charge"
      /\ charges \in [Calls -> [Scope -> Nat]]
  BY DEF TypeOK, CallState, Controlled, Control, Inc, Working
<1>2. /\ charges' = [charges EXCEPT ![c][ScopeOf(c)] = @ + 1] /\ stored' = stored
      /\ ScopeOf(c) \in Scope
  BY ScopeKnown DEF Inc
<1>3. /\ Moves(c)
      /\ \/ call'[c].task = "done"
         \/ call'[c].task = "charge" /\ call'[c].at = call[c].at + 1
  BY <1>1, ChargePassing, Throwing DEF Inc
<1>4. call[c].kind \in {"llm", "atomic"}
  BY <1>1, KindsAssumption DEF Control, CallState
<1>5. /\ call'[c].kind = call[c].kind /\ call'[c].lost = call[c].lost
      /\ call'[c].at \in 1..3 /\ call[c].at \in 1..3 /\ call'[c] \in CallState
  BY <1>1, <1>3 DEF Moves, CallState
<1>6. \A s \in Scope : charges'[c][s] = charges[c][s] + (IF s = ScopeOf(c) THEN 1 ELSE 0)
                       /\ charges[c][s] \in Nat
  BY <1>1, <1>2
<1>7. CASE call[c].kind = "llm"
  <2>1. call[c].at \in 1..Length(call[c].kind, call[c].task)
        /\ Length(call[c].kind, call[c].task) = 3 /\ call[c].task \in Task
    BY <1>1, <1>7 DEF Length, CallState
  <2>2. Place(ScopeOf(c)) = call[c].at
    BY <1>1, <2>1, Walks DEF ScopeOf, CallState
  <2>3. \A s \in Scope : Place(s) = Place(ScopeOf(c)) => s = ScopeOf(c)
    BY <1>2 DEF Place, Scope
  <2>4. \A s \in Scope : Place(s) \in 1..3
    BY DEF Place, Scope
  <2>5. ASSUME NEW s \in Scope PROVE charges'[c][s] <= MostCharged(call'[c], s)
    <3>1. charges[c][s] <= (IF call[c].at > Place(s) THEN 1 ELSE 0)
      BY <1>1, <1>7 DEF ChargeOf, MostCharged
    <3>2. MostCharged(call'[c], s) =
            (IF call'[c].task = "done" \/ (call'[c].task = "charge" /\ call'[c].at > Place(s))
             THEN 1 ELSE 0)
      BY <1>5, <1>7 DEF MostCharged
    <3>3. CASE s = ScopeOf(c)
      BY <1>3, <1>5, <1>6, <2>2, <3>1, <3>2, <3>3
    <3>4. CASE s # ScopeOf(c)
      BY <1>3, <1>5, <1>6, <2>2, <2>3, <2>4, <3>1, <3>2, <3>4
    <3>5. QED  BY <3>3, <3>4
  <2>6. QED  BY <1>1, <1>2, <1>3, <1>5, <1>7, <2>5 DEF ChargeOf
<1>8. CASE call[c].kind = "atomic"
  <2>1. call[c].at = 1 /\ Length(call[c].kind, call[c].task) = 1
    BY <1>1, <1>8 DEF Length, Control, CallState
  <2>2. call'[c].task = "done"
    <3>1. call'[c].task = "charge" => call'[c].at <= 1
      BY <1>5, <1>8, RemoteControlled DEF Control, Length
    <3>2. QED  BY <1>3, <2>1, <3>1
  <2>3. \A s \in Scope : /\ MostCharged(call[c], s) = IF call[c].lost THEN 1 ELSE 0
                         /\ MostCharged(call'[c], s) = (IF call[c].lost THEN 1 ELSE 0) + 1
    BY <1>1, <1>5, <1>8, <2>2 DEF MostCharged
  <2>4. \A s \in Scope : charges[c][s] <= (IF call[c].lost THEN 1 ELSE 0)
    BY <2>3 DEF ChargeOf
  <2>5. \A s \in Scope : charges'[c][s] <= MostCharged(call'[c], s)
    BY <1>6, <2>3, <2>4
  <2>6. QED  BY <1>5, <1>8, <2>2, <2>5 DEF ChargeOf
<1>9. QED  BY <1>4, <1>7, <1>8

\* The transaction charges a call that has not been charged, once.
LEMMA TransactedStep ==
    ASSUME TypeOK, Controlled, NEW c \in Calls, ChargeOf(c), Atomic(c)
    PROVE  ChargeOf(c)' /\ stored' = stored /\ \A d \in Calls \ {c} : charges'[d] = charges[d]
<1>1. /\ call[c].kind = "atomic" /\ call[c].task = "idle" /\ stored' = stored
      /\ charges \in [Calls -> [Scope -> Nat]]
  BY DEF Atomic, TypeOK
<1>2. /\ call'[c].kind = "atomic"
      /\ \/ call'[c].task = "done" /\ call'[c].lost = call[c].lost
         \/ call'[c].task = "check" /\ call'[c].lost = TRUE
  BY AtomicControlled
<1>3. charges' = charges \/ charges' = [charges EXCEPT ![c]["tenant"] = @ + 1]
  BY Transacting
<1>4. \A s \in Scope : charges[c][s] = 0 /\ charges'[c][s] <= 1
  <2>1. \A s \in Scope : MostCharged(call[c], s) = 0 /\ charges[c][s] \in Nat
    BY <1>1 DEF MostCharged, ChargeOf
  <2>2. \A s \in Scope : charges[c][s] = 0
    BY <2>1 DEF ChargeOf
  <2>3. QED  BY <1>1, <1>3, <2>2
<1>5. \A s \in Scope : MostCharged(call'[c], s) >= 1 /\ MostCharged(call'[c], s) \in 0..2
  BY <1>2 DEF MostCharged
<1>6. \A s \in Scope : charges'[c][s] \in Nat
  BY <1>1, <1>3
<1>7. \A s \in Scope : charges'[c][s] <= MostCharged(call'[c], s)
  BY <1>4, <1>5, <1>6
<1>8. QED  BY <1>1, <1>2, <1>3, <1>7 DEF ChargeOf

\* Every step of a call keeps what is known of its charges.
LEMMA OwnCharges ==
    ASSUME TypeOK, Controlled, NEW c \in Calls, ChargeOf(c), CallStep(c) PROVE ChargeOf(c)'
<1>1. /\ call[c] \in CallState /\ Control(call[c]) /\ call \in [Calls -> CallState]
      /\ charges \in [Calls -> [Scope -> Nat]] /\ stored \in SUBSET Calls
  BY DEF TypeOK, CallState, Controlled
<1>2. CASE Fail(c) \/ Get(c) \/ ResetGet(c) \/ ResetPut(c) \/ Again(c)
  <2>1. /\ charges' = charges /\ stored' = stored
        /\ call[c].task \in {"pre", "check", "store", "charge", "reset"}
    BY <1>2 DEF Fail, Get, ResetGet, ResetPut, Again, Working, history
  <2>2. CASE Stays(c)
    BY <1>1, <2>1, <2>2, Uncharged DEF Stays, ChargeOf, CallState, Moves
  <2>3. CASE Moves(c) /\ call'[c].task = "done"
    BY <2>1, <2>3, Uncharged
  <2>4. CASE Moves(c) /\ call[c].task = "pre" /\ call'[c].task \in {"pre", "run", "done"}
    BY <2>1, <2>4, Uncharged
  <2>5. CASE call[c].task = "check" /\ NextScope(c, TRUE)
    <3>1. Moves(c) /\ call'[c].task \in {"done", "check"}
      BY <2>5, CheckRefusing
    <3>2. QED  BY <2>1, <2>5, <3>1, Uncharged
  <2>6. CASE call[c].task = "check" /\ NextScope(c, FALSE)
    <3>1. /\ Moves(c) /\ call'[c].task \in {"done", "check", "charge", "store"}
          /\ call'[c].task = "charge" => call[c].kind = "atomic"
      BY <2>6, CheckPassing
    <3>2. QED  BY <2>1, <2>6, <3>1, Uncharged
  <2>7. CASE call[c].task = "charge" /\ NextScope(c, FALSE)
    <3>0. /\ Moves(c)
          /\ \/ call'[c].task = "done"
             \/ call'[c].task = "charge" /\ call'[c].at = call[c].at + 1
      BY <2>7, ChargePassing
    <3>1. /\ call[c].at \in 1..3
          /\ \/ call'[c].task = "done"
             \/ call'[c].task = "charge" /\ call'[c].at >= call[c].at
      BY <1>1, <3>0 DEF CallState
    <3>2. QED  BY <2>1, <2>7, <3>0, <3>1, Uncharged
  <2>8. QED  BY <1>2, <2>2, <2>3, <2>4, <2>5, <2>6, <2>7, RemoteMoves
<1>3. CASE Inc(c)
  BY <1>3, ChargedStep
<1>4. CASE Atomic(c)
  BY <1>4, TransactedStep
<1>5. CASE Store(c)
  <2>1. Moves(c) /\ call'[c].task = "charge"
    BY <1>5, Going DEF Store, Task
  <2>2. charges' = charges /\ stored' = stored \cup {c} /\ call[c].task = "store"
    BY <1>5 DEF Store, history
  <2>3. QED  BY <2>1, <2>2, Uncharged
<1>6. CASE Request(c) \/ Run(c) \/ AtomicFails(c) \/ SandboxCheck(c) \/ Reset(c)
  <2>1. /\ Moves(c) /\ charges' = charges /\ stored' = stored
        /\ call[c].task \in {"idle", "run"}
        /\ call'[c].task \in {"pre", "run", "check", "store", "done", "reset"}
    <3>1. CASE \E task \in {"pre", "run", "check", "store", "done"} : Go(c, task)
      <4>1. {"pre", "run", "check", "store", "done"} \subseteq Task
        BY DEF Task
      <4>2. QED  BY <1>6, <3>1, <4>1, Going DEF Request, Run, AtomicFails, SandboxCheck, Reset, history
    <3>2. CASE Reset(c) /\ call' = [call EXCEPT ![c].task = "reset", ![c].step = "resetGet"]
      <4>1. "reset" \in Task /\ "resetGet" \in Step
        BY DEF Task, Step
      <4>2. Moves(c) /\ call'[c].task = "reset"
        BY <1>1, <3>2, <4>1 DEF Moves, CallState
      <4>3. QED  BY <3>2, <4>2 DEF Reset, history
    <3>3. QED  BY <1>6, <3>1, <3>2 DEF Request, Run, AtomicFails, SandboxCheck, Reset
  <2>2. QED  BY <2>1, Uncharged
<1>7. CASE SandboxStore(c)
  BY <1>1, <1>7 DEF SandboxStore, ChargeOf, history
<1>8. CASE SandboxInc(c)
  <2>1. /\ call[c].kind = "e2b" /\ call[c].task = "store" /\ c \in stored /\ stored' = stored
        /\ charges' = [charges EXCEPT ![c]["tenant"] = @ + 1]
        /\ Go(c, "done") /\ "done" \in Task
    BY <1>8 DEF SandboxInc, Task
  <2>2. call'[c].task = "done" /\ call'[c].kind = "e2b"
    BY <2>1, Going DEF Moves
  <2>3. \A s \in Scope : MostCharged(call[c], s) = 0 /\ MostCharged(call'[c], s) = 1
                         /\ charges[c][s] \in Nat
    BY <1>1, <2>1, <2>2 DEF MostCharged
  <2>4. \A s \in Scope : charges[c][s] = 0
    BY <2>3 DEF ChargeOf
  <2>5. \A s \in Scope : charges'[c][s] <= 1
    BY <1>1, <2>1, <2>4
  <2>6. QED  BY <2>1, <2>2, <2>3, <2>5 DEF ChargeOf
<1>9. CASE Return(c)
  <2>1. call'[c].task = "idle" /\ call'[c].lost = FALSE
    BY <1>9, ReturnControlled
  <2>2. \A s \in Scope : charges'[c][s] = 0
    BY <1>1, <1>9 DEF Return
  <2>3. \A s \in Scope : MostCharged(call'[c], s) \in 0..2
    BY DEF MostCharged
  <2>4. QED  BY <2>1, <2>2, <2>3 DEF ChargeOf
<1>10. QED  BY <1>2, <1>3, <1>4, <1>5, <1>6, <1>7, <1>8, <1>9 DEF CallStep

\* A step of one call leaves the charges, the record and the state of the others.
LEMMA OtherCharges ==
    ASSUME TypeOK, Controlled, NEW c \in Calls, CallStep(c), NEW d \in Calls \ {c}
    PROVE  /\ call'[d] = call[d] /\ charges'[d] = charges[d]
           /\ d \in stored' <=> d \in stored
<1>1. /\ ScopeOf(c) \in Scope /\ charges \in [Calls -> [Scope -> Nat]]
  BY ScopeKnown DEF TypeOK
<1>2. call'[d] = call[d]
  <2>1. CASE Fail(c) \/ Get(c) \/ ResetGet(c) \/ ResetPut(c) \/ Again(c) \/ Inc(c)
    BY <2>1, RemoteControlled DEF Moves
  <2>2. CASE \/ Request(c) \/ Run(c) \/ Store(c) \/ AtomicFails(c)
             \/ SandboxCheck(c) \/ SandboxInc(c) \/ Reset(c)
    BY <2>2, OwnControlled DEF Moves
  <2>3. CASE Atomic(c) \/ Return(c)
    BY <2>3, AtomicControlled, ReturnControlled
  <2>4. CASE SandboxStore(c)
    BY <2>4 DEF SandboxStore
  <2>5. QED  BY <2>1, <2>2, <2>3, <2>4 DEF CallStep
<1>3. CASE Atomic(c)
  BY <1>2, <1>3, <1>1, Transacting DEF Atomic
<1>4. CASE Inc(c) \/ SandboxInc(c)
  BY <1>1, <1>2, <1>4 DEF Inc, SandboxInc
<1>5. CASE Store(c) \/ SandboxStore(c) \/ Return(c)
  BY <1>1, <1>2, <1>5 DEF Store, SandboxStore, Return, history
<1>6. CASE ~(Atomic(c) \/ Inc(c) \/ SandboxInc(c) \/ Store(c) \/ SandboxStore(c) \/ Return(c))
  <2>1. charges' = charges /\ stored' = stored
    BY <1>6 DEF CallStep, Fail, Get, ResetGet, ResetPut, Again, Request, Run,
                AtomicFails, SandboxCheck, Reset, history
  <2>2. QED  BY <1>2, <2>1
<1>7. QED  BY <1>3, <1>4, <1>5, <1>6

\* Every step keeps the counts of all calls,
LEMMA ChargeInvStep == ASSUME ChargeInv, [Next]_vars PROVE ChargeInv'
<1>0. RowsInv'
  BY RowsInvStep DEF ChargeInv
<1>1. ASSUME NEW c \in Calls, CallStep(c), NEW d \in Calls PROVE ChargeOf(d)'
  <2>1. CASE d = c
    BY <1>1, <2>1, OwnCharges DEF ChargeInv, RowsInv
  <2>2. CASE d # c
    <3>1. call'[d] = call[d] /\ charges'[d] = charges[d] /\ (d \in stored' <=> d \in stored)
      BY <1>1, <2>2, OtherCharges DEF ChargeInv, RowsInv
    <3>2. ChargeOf(d)
      BY DEF ChargeInv
    <3>3. QED  BY <3>1, <3>2 DEF ChargeOf
  <2>3. QED  BY <2>1, <2>2
<1>2. CASE Tick
  BY <1>0, <1>2 DEF Tick, ChargeInv, ChargeOf
<1>3. CASE UNCHANGED vars
  BY <1>0, <1>3 DEF vars, ChargeInv, ChargeOf
<1>4. QED  BY <1>0, <1>1, <1>2, <1>3 DEF Next, ChargeInv

\* and before the first call all of them are zero.
LEMMA ChargeInvInit == ASSUME Init PROVE ChargeInv
<1>1. RowsInv
  BY RowsInvInit
<1>2. ASSUME NEW c \in Calls PROVE ChargeOf(c)
  <2>1. call[c].task = "idle" /\ ~call[c].lost /\ \A s \in Scope : charges[c][s] = 0
    BY DEF Init
  <2>2. \A s \in Scope : MostCharged(call[c], s) \in 0..2
    BY DEF MostCharged
  <2>3. QED  BY <2>1, <2>2 DEF ChargeOf
<1>3. QED  BY <1>1, <1>2 DEF ChargeInv

\* Whatever throws, before its effect or after it, no call is charged twice to
\* a scope, the fallback after a lost reply of the atomic function excepted.
THEOREM ChargesAreNotDoubled == Spec => []ChargedOnce
<1>1. Spec => []ChargeInv
  BY ChargeInvInit, ChargeInvStep, PTL DEF Spec
<1>2. ChargeInv => ChargedOnce
  <2>1. SUFFICES ASSUME ChargeInv, NEW c \in Calls, NEW s \in Scope
                 PROVE  charges[c][s] <= (IF call[c].lost THEN 2 ELSE 1)
    BY DEF ChargedOnce
  <2>2. charges[c][s] <= MostCharged(call[c], s) /\ charges[c][s] \in Nat
        /\ call[c].lost \in BOOLEAN
    BY <2>1 DEF ChargeInv, ChargeOf, RowsInv, TypeOK
  <2>3. MostCharged(call[c], s) <= (IF call[c].lost THEN 2 ELSE 1)
        /\ MostCharged(call[c], s) \in 0..2
    BY <2>2 DEF MostCharged
  <2>4. QED  BY <2>2, <2>3
<1>3. QED  BY <1>1, <1>2, PTL

\* The charges of LLM and sandbox calls all have a cost record.
THEOREM ChargesAreRecorded == Spec => []ChargedIsStored
<1>1. Spec => []ChargeInv
  BY ChargeInvInit, ChargeInvStep, PTL DEF Spec
<1>2. ChargeInv => ChargedIsStored
  BY DEF ChargeInv, ChargeOf, ChargedIsStored
<1>3. QED  BY <1>1, <1>2, PTL

-----------------------------------------------------------------------------
(* How far a row may be overrun.                                           *)

Single(k) == RowsOf(k[1]) = {k}

Bounded(k) ==
    Single(k) => rows[k].spend + Cardinality(InFlight(k)) <= Limit + Cardinality(Calls) - 1

\* The ways in which a step of call c may change a row and its place in the
\* calls let through: neither grows; the call was let through under the limit;
\* it charges and is through; the row was charged under the limit at once.
Eases(c, k) == rows'[k].spend <= rows[k].spend /\ (Checked(c, k)' => Checked(c, k))
Passes(c, k) == rows'[k].spend + 1 <= Limit
Charges(c, k) == rows'[k].spend <= rows[k].spend + 1 /\ Checked(c, k) /\ ~Checked(c, k)'
Transacts(c, k) == rows'[k].spend <= Limit /\ ~Checked(c, k)'

\* Each of them keeps the bound of the row.
LEMMA BoundKept ==
    ASSUME NEW k \in Configured, Bounded(k), NEW c \in Calls,
           rows \in [Configured -> RowState], rows' \in [Configured -> RowState],
           \A d \in Calls \ {c} : call'[d] = call[d],
           Single(k) => Eases(c, k) \/ Passes(c, k) \/ Charges(c, k) \/ Transacts(c, k)
    PROVE  Bounded(k)'
<1> SUFFICES ASSUME Single(k)
             PROVE  rows'[k].spend + Cardinality(InFlight(k)') <= Limit + Cardinality(Calls) - 1
  BY DEF Bounded, Single, RowsOf
<1>1. /\ rows[k].spend \in Nat /\ rows'[k].spend \in Nat /\ Limit \in Nat
      /\ rows[k].spend + Cardinality(InFlight(k)) <= Limit + Cardinality(Calls) - 1
  BY NumbersAssumption DEF RowState, Bounded
<1>2. \A d \in Calls \ {c} : Checked(d, k)' <=> Checked(d, k)
  BY DEF Checked
<1>3. IsFiniteSet(Calls) /\ InFlight(k) \subseteq Calls /\ InFlight(k)' \subseteq Calls
  BY CallsAssumption DEF InFlight
<1>4. /\ Cardinality(Calls) \in Nat /\ IsFiniteSet(InFlight(k)) /\ IsFiniteSet(InFlight(k)')
      /\ Cardinality(InFlight(k)) \in Nat /\ Cardinality(InFlight(k)') \in Nat
      /\ Cardinality(InFlight(k)') <= Cardinality(Calls)
  BY <1>3, FS_Subset, FS_CardinalityType
<1>5. CASE Eases(c, k)
  <2>1. InFlight(k)' \subseteq InFlight(k)
    BY <1>2, <1>5 DEF Eases, InFlight
  <2>2. Cardinality(InFlight(k)') <= Cardinality(InFlight(k))
    BY <1>4, <2>1, FS_Subset
  <2>3. QED  BY <1>1, <1>4, <1>5, <2>2 DEF Eases
<1>6. CASE Passes(c, k)
  BY <1>1, <1>4, <1>6 DEF Passes
<1>7. CASE Charges(c, k)
  <2>1. InFlight(k)' \subseteq InFlight(k) \ {c} /\ c \in InFlight(k)
    BY <1>2, <1>7 DEF Charges, InFlight
  <2>2. /\ IsFiniteSet(InFlight(k) \ {c})
        /\ Cardinality(InFlight(k) \ {c}) = Cardinality(InFlight(k)) - 1
    BY <1>4, <2>1, FS_RemoveElement
  <2>3. Cardinality(InFlight(k)') <= Cardinality(InFlight(k)) - 1
    BY <2>1, <2>2, FS_Subset
  <2>4. QED  BY <1>1, <1>4, <1>7, <2>3 DEF Charges
<1>8. CASE Transacts(c, k)
  <2>1. InFlight(k)' \subseteq Calls \ {c}
    BY <1>3, <1>8 DEF Transacts, InFlight
  <2>2. IsFiniteSet(Calls \ {c}) /\ Cardinality(Calls \ {c}) = Cardinality(Calls) - 1
    BY <1>3, FS_RemoveElement
  <2>3. Cardinality(InFlight(k)') <= Cardinality(Calls) - 1
    BY <2>1, <2>2, FS_Subset
  <2>4. QED  BY <1>1, <1>4, <1>8, <2>3 DEF Transacts
<1>9. QED  BY <1>5, <1>6, <1>7, <1>8

\* The place of a scope tells it, and one row alone in its scope is that of the
\* look-up.
LEMMA PlaceTells ==
    /\ \A s, t \in Scope : Place(s) = Place(t) => s = t
    /\ \A s \in Scope : Place(s) \in 1..3
    /\ \A k \in Configured : k[1] \in Scope /\ k \in RowsOf(k[1])
    /\ \A k \in Configured, s \in Scope : Single(k) /\ k \in RowsOf(s)
                                          => RowsOf(s) = {k}
    /\ \A k \in Configured, s \in Scope : k \in RowsOf(s) <=> k[1] = s
<1>0. Place("platform") = 1 /\ Place("tenant") = 2 /\ Place("user") = 3
  BY DEF Place
<1>1. (\A s, t \in Scope : Place(s) = Place(t) => s = t) /\ \A s \in Scope : Place(s) \in 1..3
  BY <1>0 DEF Scope
<1>2. \A k \in Configured : k[1] \in Scope
  BY ConfiguredAssumption
<1>3. \A k \in Configured, s \in Scope : k \in RowsOf(s) <=> k[1] = s
  BY DEF RowsOf
<1>4. \A k \in Configured, s \in Scope : Single(k) /\ k \in RowsOf(s)
                                          => RowsOf(s) = {k}
  BY <1>3 DEF Single
<1>5. QED  BY <1>1, <1>2, <1>3, <1>4

\* A step of an LLM or atomic call that passes the check of a scope adds the
\* call to those let through to the rows of that scope and to no others.
LEMMA CheckAdds ==
    ASSUME TypeOK, Controlled, NEW c \in Calls, call[c].task = "check", NextScope(c, FALSE),
           NEW k \in Configured, Checked(c, k)', ~Checked(c, k)
    PROVE  k \in RowsOf(ScopeOf(c))
<1>1. /\ call[c] \in CallState /\ Control(call[c])
      /\ call[c].kind \in {"llm", "atomic"}
  BY KindsAssumption DEF TypeOK, CallState, Controlled, Control
<1>2. /\ Moves(c)
      /\ \/ call'[c].task = "done"
         \/ /\ call[c].at >= Length(call[c].kind, "check")
            /\ call'[c].task = IF call[c].kind = "atomic" THEN "charge" ELSE "store"
            /\ ~call[c].denied
         \/ /\ call[c].at < Length(call[c].kind, "check")
            /\ call'[c].task = "check" /\ call'[c].at = call[c].at + 1
            /\ call'[c].denied = call[c].denied
  BY CheckPassing
<1>3. call'[c].kind = call[c].kind /\ call[c].at \in 1..3
  BY <1>1, <1>2 DEF Moves, CallState
<1>4. k[1] \in Scope /\ Place(k[1]) \in 1..3 /\ (k \in RowsOf(ScopeOf(c)) <=> k[1] = ScopeOf(c))
      /\ ScopeOf(c) \in Scope
  BY PlaceTells, ScopeKnown
<1>5. CASE call[c].kind = "atomic"
  <2>1. k[1] = "tenant"
    BY <1>2, <1>3, <1>5 DEF Checked
  <2>2. ScopeOf(c) = "tenant"
    BY <1>1, <1>3, <1>5, Walks DEF ScopeOf, Length, Control, CallState
  <2>3. QED  BY <1>4, <2>1, <2>2
<1>6. CASE call[c].kind = "llm"
  <2>1. Length(call[c].kind, "check") = 3 /\ call[c].at <= 3
    BY <1>1, <1>6 DEF Length, CallState
  <2>2. Place(ScopeOf(c)) = call[c].at
    BY <1>1, <1>3, <2>1, Walks DEF ScopeOf, CallState
  <2>3. Place(k[1]) = call[c].at
    BY <1>2, <1>3, <1>4, <1>6, <2>1 DEF Checked
  <2>4. k[1] = ScopeOf(c)
    BY <1>4, <2>2, <2>3, PlaceTells
  <2>5. QED  BY <1>4, <2>4
<1>7. QED  BY <1>1, <1>5, <1>6

\* A call that charges is among those let through to the rows it charges, and
\* no longer once it goes on.
LEMMA IncCharges ==
    ASSUME TypeOK, Controlled, NEW c \in Calls, Inc(c), NEW k \in RowsOf(ScopeOf(c))
    PROVE  Checked(c, k) /\ ~Checked(c, k)'
<1>1. /\ call[c] \in CallState /\ Control(call[c]) /\ call[c].task = "charge" /\ ~call[c].denied
      /\ call[c].kind \in {"llm", "atomic"}
  BY KindsAssumption DEF TypeOK, CallState, Controlled, Control, Inc, Working
<1>2. /\ Moves(c)
      /\ \/ call'[c].task = "done"
         \/ call'[c].task = "charge" /\ call'[c].at = call[c].at + 1
  BY <1>1, ChargePassing, Throwing DEF Inc
<1>3. k \in Configured /\ k[1] = ScopeOf(c)
  BY DEF RowsOf
<1>4. call'[c].kind = call[c].kind /\ call[c].at \in 1..3
  BY <1>1, <1>2 DEF Moves, CallState
<1>5. CASE call[c].kind = "llm"
  <2>1. Length(call[c].kind, call[c].task) = 3 /\ call[c].at \in 1..3 /\ call[c].task \in Task
    BY <1>1, <1>4, <1>5 DEF Length, CallState
  <2>2. Place(k[1]) = call[c].at
    BY <1>1, <1>3, <2>1, Walks DEF ScopeOf, CallState
  <2>3. Checked(c, k)
    BY <1>1, <1>4, <1>5, <2>2 DEF Checked
  <2>4. ~Checked(c, k)'
    BY <1>2, <1>4, <1>5, <2>2 DEF Checked
  <2>5. QED  BY <2>3, <2>4
<1>6. CASE call[c].kind = "atomic"
  <2>1. call[c].at = 1 /\ Length(call[c].kind, call[c].task) = 1 /\ call[c].task \in Task
    BY <1>1, <1>4, <1>6 DEF Length, Control, CallState
  <2>2. k[1] = "tenant"
    BY <1>1, <1>3, <2>1, Walks DEF ScopeOf, CallState
  <2>3. Checked(c, k)
    BY <1>1, <1>6, <2>2 DEF Checked
  <2>4. call'[c].task = "done"
    <3>1. call'[c].task = "charge" => call'[c].at <= 1
      BY <1>4, <1>6, RemoteControlled DEF Control, Length
    <3>2. QED  BY <1>2, <2>1, <3>1
  <2>5. ~Checked(c, k)'
    BY <1>4, <1>6, <2>4 DEF Checked
  <2>6. QED  BY <2>3, <2>5
<1>7. QED  BY <1>1, <1>5, <1>6

\* A charge that goes on, or past a scope without row, lets nothing more through.
LEMMA ChargeEases ==
    ASSUME TypeOK, Controlled, NEW c \in Calls, NEW k \in Configured, call[c].task = "charge",
           NextScope(c, FALSE) \/ Throw(c)
    PROVE  Checked(c, k)' => Checked(c, k)
<1>1. /\ call[c] \in CallState /\ Control(call[c]) /\ ~call[c].denied
      /\ call[c].kind \in {"llm", "atomic"}
  BY KindsAssumption DEF TypeOK, CallState, Controlled, Control
<1>2. /\ Moves(c)
      /\ \/ call'[c].task = "done"
         \/ call'[c].task = "charge" /\ call'[c].at = call[c].at + 1
  BY ChargePassing, Throwing
<1>3. call'[c].kind = call[c].kind /\ call[c].at \in 1..3
  BY <1>1, <1>2 DEF Moves, CallState
<1>4. Place(k[1]) \in 1..3
  BY PlaceTells
<1>5. QED  BY <1>1, <1>2, <1>3, <1>4 DEF Checked

\* A step that leaves the row alone: what the call may become.
LEMMA Outside ==
    ASSUME NEW c \in Calls, NEW k \in Configured,
           call'[c].task \in {"idle", "pre", "run", "done", "reset"}
    PROVE  ~Checked(c, k)'
  BY DEF Checked

\* The checks let a call through to a row only under its limit.
LEMMA RemoteBound ==
    ASSUME TypeOK, Controlled, NEW c \in Calls, NEW k \in Configured, Single(k),
           rows' \in [Configured -> RowState],
           Fail(c) \/ Get(c) \/ ResetGet(c) \/ ResetPut(c) \/ Again(c)
    PROVE  Eases(c, k) \/ Passes(c, k)
<1>1. /\ call[c] \in CallState /\ rows \in [Configured -> RowState]
      /\ ScopeOf(c) \in Scope /\ rows[k].spend \in Nat
  BY ScopeKnown DEF TypeOK, CallState, RowState
<1>2. rows'[k].spend <= rows[k].spend
  <2>1. CASE ResetPut(c) /\ ScopeOf(c) # "platform"
    <3>1. rows'[k] = IF k \in RowsOf(ScopeOf(c))
                     THEN [spend |-> 0, period |-> call[c].end] ELSE rows[k]
      BY <2>1 DEF ResetPut, SetRows
    <3>2. QED  BY <1>1, <3>1
  <2>2. CASE ~(ResetPut(c) /\ ScopeOf(c) # "platform")
    <3>1. rows' = rows
      BY <2>2 DEF Fail, Get, ResetGet, ResetPut, Again
    <3>2. QED  BY <1>1, <3>1
  <2>3. QED  BY <2>1, <2>2
<1>3. CASE Stays(c)
  <2>1. Checked(c, k)' => Checked(c, k)
    BY <1>3 DEF Stays, Moves, Checked
  <2>2. QED  BY <1>2, <2>1 DEF Eases
<1>4. CASE Moves(c) /\ call'[c].task \in {"pre", "run", "done"}
  BY <1>2, <1>4, Outside DEF Eases
<1>5. CASE call[c].task = "check" /\ NextScope(c, TRUE)
  <2>1. /\ Moves(c)
        /\ \/ call'[c].task = "done"
           \/ call'[c].task = "check" /\ call'[c].denied = TRUE
    BY <1>5, CheckRefusing
  <2>2. call[c].kind # "e2b"
    BY <1>5 DEF Controlled, Control
  <2>3. ~Checked(c, k)'
    BY <2>1, <2>2 DEF Checked, Moves
  <2>4. QED  BY <1>2, <2>3 DEF Eases
<1>6. CASE call[c].task = "charge" /\ NextScope(c, FALSE)
  BY <1>2, <1>6, ChargeEases DEF Eases
<1>7. CASE call[c].task = "check" /\ NextScope(c, FALSE)
  <2>1. CASE Checked(c, k)' => Checked(c, k)
    BY <1>2, <2>1 DEF Eases
  <2>2. CASE Checked(c, k)' /\ ~Checked(c, k)
    <3>1. k \in RowsOf(ScopeOf(c))
      BY <1>7, <2>2, CheckAdds
    <3>2. RowsOf(ScopeOf(c)) = {k}
      BY <1>1, <3>1, PlaceTells
    <3>3. \/ Stays(c)
          \/ call'[c].task \in {"pre", "run", "done"}
          \/ ~(rows[k].spend + 1 > Limit)
          \/ call[c].task = "check" /\ NextScope(c, TRUE)
      BY <1>7, <3>2, RemoteMoves
    <3>4. CASE ~(rows[k].spend + 1 > Limit)
      BY <1>1, <1>2, <3>4, NumbersAssumption DEF Passes, RowState
    <3>5. QED  BY <1>3, <1>5, <2>2, <3>3, <3>4, Outside
  <2>3. QED  BY <2>1, <2>2
<1>8. QED  BY <1>3, <1>4, <1>5, <1>6, <1>7, RemoteMoves

\* The other steps of a call, when the platform enforces its quotas.
LEMMA OwnBound ==
    ASSUME TypeOK, Controlled, Enforce, NEW c \in Calls, NEW k \in Configured, Single(k),
           rows' \in [Configured -> RowState],
           \/ Inc(c) \/ Request(c) \/ Run(c) \/ Store(c) \/ Atomic(c) \/ AtomicFails(c)
           \/ SandboxCheck(c) \/ SandboxStore(c) \/ SandboxInc(c) \/ Reset(c) \/ Return(c)
    PROVE  Eases(c, k) \/ Passes(c, k) \/ Charges(c, k) \/ Transacts(c, k)
<1>1. /\ call[c] \in CallState /\ Control(call[c]) /\ call \in [Calls -> CallState]
      /\ rows \in [Configured -> RowState] /\ rows[k].spend \in Nat
      /\ rows'[k].spend \in Nat /\ ScopeOf(c) \in Scope
      /\ {"pre", "run", "check", "store", "charge", "done"} \subseteq Task
  BY ScopeKnown DEF TypeOK, CallState, RowState, Controlled, Task
<1>2. ASSUME NEW ks \in SUBSET Configured,
             SetRows(ks, [j \in ks |-> [rows[j] EXCEPT !.spend = @ + 1]])
      PROVE  /\ k \in ks => rows'[k].spend = rows[k].spend + 1
             /\ k \notin ks => rows'[k].spend = rows[k].spend
  <2>1. rows'[k] = IF k \in ks THEN [rows[k] EXCEPT !.spend = @ + 1] ELSE rows[k]
    BY <1>2 DEF SetRows
  <2>2. [rows[k] EXCEPT !.spend = @ + 1].spend = rows[k].spend + 1
    BY <1>1 DEF RowState
  <2>3. QED  BY <2>1, <2>2
<1>3. CASE Inc(c)
  <2>1. SetRows(RowsOf(ScopeOf(c)),
                [j \in RowsOf(ScopeOf(c)) |-> [rows[j] EXCEPT !.spend = @ + 1]])
        /\ RowsOf(ScopeOf(c)) \in SUBSET Configured
    BY <1>3 DEF Inc, RowsOf
  <2>2. CASE k \in RowsOf(ScopeOf(c))
    <3>1. Checked(c, k) /\ ~Checked(c, k)'
      BY <1>3, <2>2, IncCharges
    <3>2. rows'[k].spend = rows[k].spend + 1
      BY <1>2, <2>1, <2>2
    <3>3. QED  BY <1>1, <3>1, <3>2 DEF Charges
  <2>3. CASE k \notin RowsOf(ScopeOf(c))
    <3>1. call[c].task = "charge" /\ (NextScope(c, FALSE) \/ Throw(c))
      BY <1>1, <1>3 DEF Inc, Working, Control
    <3>2. rows'[k].spend = rows[k].spend
      BY <1>2, <2>1, <2>3
    <3>3. Checked(c, k)' => Checked(c, k)
      BY <3>1, ChargeEases
    <3>4. QED  BY <1>1, <3>2, <3>3 DEF Eases
  <2>4. QED  BY <2>2, <2>3
<1>4. CASE Request(c) \/ Run(c) \/ AtomicFails(c)
  <2>1. \E task \in {"pre", "check"} : Go(c, task)
    BY <1>4 DEF Request, Run, AtomicFails
  <2>2. /\ rows' = rows /\ call[c].kind \in {"llm", "atomic"}
    BY <1>4 DEF Request, Run, AtomicFails
  <2>3. /\ Moves(c) /\ call'[c].task \in {"pre", "check"} /\ call'[c].at = 1
    BY <1>1, <2>1, Going
  <2>4. Place(k[1]) \in 1..3
    BY PlaceTells
  <2>5. ~Checked(c, k)'
    BY <2>2, <2>3, <2>4 DEF Checked, Moves
  <2>6. QED  BY <1>1, <2>2, <2>5 DEF Eases
<1>5. CASE Store(c)
  <2>1. /\ call[c].task = "store" /\ call[c].kind = "llm" /\ ~call[c].denied
        /\ rows' = rows /\ Go(c, "charge")
    BY <1>1, <1>5 DEF Store, Control
  <2>2. Checked(c, k)
    BY <2>1 DEF Checked
  <2>3. QED  BY <1>1, <2>1, <2>2 DEF Eases
<1>6. CASE Atomic(c)
  <2>1. /\ call'[c].kind = "atomic" /\ call'[c].task \in {"done", "check"}
    BY <1>6, AtomicControlled
  <2>2. ~Checked(c, k)'
    BY <2>1 DEF Checked
  <2>3. rows'[k].spend <= rows[k].spend \/ rows'[k].spend <= Limit
    BY <1>1, <1>6, Transacting
  <2>4. QED  BY <2>2, <2>3 DEF Eases, Transacts
<1>7. CASE SandboxCheck(c)
  <2>1. rows' = rows /\ call[c].kind = "e2b"
    BY <1>7 DEF SandboxCheck
  <2>2. \E task \in {"done", "store"} : Go(c, task)
    BY <1>7 DEF SandboxCheck
  <2>3. Moves(c) /\ call'[c].task \in {"done", "store"}
    BY <1>1, <2>2, Going
  <2>4. CASE call'[c].task = "store" /\ k \in SandboxRows
    <3>1. k \in RowsOf("tenant")
      BY <2>4 DEF SandboxRows
    <3>2. RowsOf("tenant") = {k}
      BY <3>1, PlaceTells DEF Scope
    <3>3. SandboxRows = {k}
      BY <2>4, <3>2 DEF SandboxRows
    <3>4. Cardinality(SandboxRows) = 1
      BY <3>3, FS_Singleton
    <3>5. Go(c, IF /\ Cardinality(SandboxRows) = 1
                   /\ \E j \in SandboxRows : rows[j].spend + 1 > Limit
                THEN "done" ELSE "store")
          \/ Go(c, "done")
      BY <1>7 DEF SandboxCheck
    <3>6. ~(rows[k].spend + 1 > Limit)
      <4>1. SUFFICES ASSUME rows[k].spend + 1 > Limit PROVE FALSE
        OBVIOUS
      <4>2. Go(c, "done")
        BY <2>4, <3>4, <3>5, <4>1
      <4>3. call'[c].task = "done"
        BY <1>1, <4>2, Going
      <4>4. QED  BY <2>4, <4>3
    <3>7. QED  BY <1>1, <2>1, <3>6, NumbersAssumption DEF Passes
  <2>5. CASE ~(call'[c].task = "store" /\ k \in SandboxRows)
    <3>1. ~Checked(c, k)'
      BY <2>1, <2>3, <2>5 DEF Checked, Moves, SandboxRows, RowsOf
    <3>2. QED  BY <1>1, <2>1, <3>1 DEF Eases
  <2>6. QED  BY <2>4, <2>5
<1>8. CASE SandboxStore(c)
  BY <1>1, <1>8 DEF SandboxStore, Eases, Checked
<1>9. CASE SandboxInc(c)
  <2>1. /\ SetRows(SandboxRows, [j \in SandboxRows |-> [rows[j] EXCEPT !.spend = @ + 1]])
        /\ SandboxRows \in SUBSET Configured
        /\ call[c].kind = "e2b" /\ call[c].task = "store" /\ Go(c, "done")
    BY <1>9 DEF SandboxInc, SandboxRows, RowsOf
  <2>2. ~Checked(c, k)'
    BY <1>1, <2>1, Going, Outside
  <2>3. CASE k \in SandboxRows
    BY <1>1, <1>2, <2>1, <2>2, <2>3 DEF Charges, Checked
  <2>4. CASE k \notin SandboxRows
    BY <1>1, <1>2, <2>1, <2>2, <2>4 DEF Eases
  <2>5. QED  BY <2>3, <2>4
<1>10. CASE Reset(c)
  <2>1. rows' = rows
    BY <1>10 DEF Reset
  <2>2. call'[c].task \in {"done", "reset"}
    <3>1. CASE Go(c, "done")
      BY <1>1, <3>1, Going
    <3>2. CASE call' = [call EXCEPT ![c].task = "reset", ![c].step = "resetGet"]
      BY <1>1, <3>2 DEF CallState
    <3>3. QED  BY <1>10, <3>1, <3>2 DEF Reset
  <2>3. QED  BY <1>1, <2>1, <2>2, Outside DEF Eases
<1>11. CASE Return(c)
  <2>1. rows' = rows /\ call'[c].task = "idle"
    BY <1>11, ReturnControlled DEF Return
  <2>2. QED  BY <1>1, <2>1, Outside DEF Eases
<1>12. QED  BY <1>3, <1>4, <1>5, <1>6, <1>7, <1>8, <1>9, <1>10, <1>11

BoundInv == RowsInv /\ (Enforce => \A k \in Configured : Bounded(k))

\* The bounds of all rows are kept by every step.
LEMMA BoundInvStep == ASSUME BoundInv, [Next]_vars PROVE BoundInv'
<1>0. RowsInv' /\ rows \in [Configured -> RowState] /\ rows' \in [Configured -> RowState]
  BY RowsInvStep DEF BoundInv, RowsInv, TypeOK, RowState
<1>1. ASSUME Enforce, NEW c \in Calls, CallStep(c), NEW k \in Configured PROVE Bounded(k)'
  <2>1. \A d \in Calls \ {c} : call'[d] = call[d]
    BY <1>1, OtherCharges DEF BoundInv, RowsInv
  <2>2. Single(k) => Eases(c, k) \/ Passes(c, k) \/ Charges(c, k) \/ Transacts(c, k)
    BY <1>0, <1>1, RemoteBound, OwnBound DEF BoundInv, RowsInv, CallStep
  <2>3. QED  BY <1>0, <1>1, <2>1, <2>2, BoundKept DEF BoundInv
<1>2. CASE Tick
  <2>1. UNCHANGED <<rows, call>>
    BY <1>2 DEF Tick
  <2>2. \A k \in Configured : InFlight(k)' = InFlight(k)
    BY <2>1 DEF InFlight, Checked
  <2>3. QED  BY <1>0, <2>1, <2>2 DEF BoundInv, Bounded, Single, RowsOf
<1>3. CASE UNCHANGED vars
  <2>1. UNCHANGED <<rows, call>>
    BY <1>3 DEF vars
  <2>2. \A k \in Configured : InFlight(k)' = InFlight(k)
    BY <2>1 DEF InFlight, Checked
  <2>3. QED  BY <1>0, <2>1, <2>2 DEF BoundInv, Bounded, Single, RowsOf
<1>4. QED  BY <1>0, <1>1, <1>2, <1>3 DEF Next, BoundInv

\* It holds with no call let through and nothing spent.
LEMMA BoundInvInit == ASSUME Init PROVE BoundInv
<1>1. RowsInv
  BY RowsInvInit
<1>2. ASSUME NEW k \in Configured PROVE Bounded(k)
  <2>1. InFlight(k) = {}
    BY DEF InFlight, Checked, Init
  <2>2. rows[k].spend = 0 /\ Cardinality(InFlight(k)) = 0
    BY <2>1, FS_EmptySet DEF Init
  <2>3. Cardinality(Calls) \in Nat
    BY CallsAssumption, FS_CardinalityType
  <2>4. QED  BY <2>2, <2>3, NumbersAssumption DEF Bounded
<1>3. QED  BY <1>1, <1>2 DEF BoundInv

\* Check and charge are separate steps, the fallback may come after a charge
\* that took effect, and rows are renewed late; and still, for any number of
\* callers and any limit, what is spent on a row and what has been let through
\* exceed the limit by fewer calls than there are callers.
THEOREM OverrunIsBounded == Spec => []OverrunBounded
<1>1. Init => BoundInv
  BY BoundInvInit
<1>2. BoundInv /\ [Next]_vars => BoundInv'
  BY BoundInvStep
<1>3. BoundInv => OverrunBounded
  BY DEF BoundInv, Bounded, Single, OverrunBounded
<1>4. QED  BY <1>1, <1>2, <1>3, PTL DEF Spec

=============================================================================
