----------------------------- MODULE ExecutionContexts -----------------------------
(***************************************************************************)
(* The lifecycle of E2B sandboxes: ExecutionContextManager, its Supabase   *)
(* store and the partial unique index behind it.                           *)
(*                                                                         *)
(* Several application instances run the same manager.  Each has a private *)
(* in-memory Map from context id to sandbox (cache), all share the table   *)
(* copilot_core.execution_contexts (rows) and the E2B service (e2b).  A    *)
(* request runs getOrCreateContext for one path; a janitor runs one of the *)
(* handlers that terminate contexts: the merge route, the cleanup job, the *)
(* shutdown.  An action is the code from one await to the next: the remote *)
(* call takes effect, then the code that follows it runs up to the next    *)
(* call.                                                                   *)
(***************************************************************************)
EXTENDS Naturals, FiniteSets

CONSTANTS
    Instances,      \* application instances
    Paths,          \* conversation paths (tenant, conversation and path id)
    Requests,       \* concurrent getOrCreateContext calls
    Janitors,       \* concurrent merge, cleanup and shutdown handlers
    MaxContexts,    \* bound: rows inserted in a behaviour
    MaxSandboxes,   \* bound: sandboxes created in a behaviour
    Jobs,           \* the janitors' handlers: merge, sweep (the cleanup job), shutdown
    CleanupLimit,   \* the LIMIT of one cleanup batch (50 in the code)
    Faults,         \* the failures the environment may produce
    None            \* no instance, no path

ASSUME BoundsAssumption ==
    /\ MaxContexts \in Nat
    /\ MaxSandboxes \in Nat
    /\ CleanupLimit \in Nat \ {0}

ASSUME NoneAssumption == None \notin Instances \cup Paths

ASSUME EventsAssumption ==
    /\ Jobs \subseteq {"merge", "sweep", "shutdown"}
    /\ Faults \subseteq {"kill", "reconnect", "store", "reply", "crash", "timeout"}

\* Ids are handed out in order; 0 is no id.
Contexts  == 1 .. MaxContexts
Sandboxes == 1 .. MaxSandboxes

VARIABLES
    rows,       \* execution_contexts, by context id
    e2b,        \* the state of every sandbox at E2B
    cache,      \* activeSandboxes of every instance: context id -> sandbox
    req,        \* the getOrCreateContext calls
    jan,        \* the merge, cleanup and shutdown handlers
    lost        \* history: sandboxes given up while they were running

vars == <<rows, e2b, cache, req, jan, lost>>

-----------------------------------------------------------------------------
\* open: terminated_at IS NULL; expired: expires_at < now().
NoRow == [status |-> "none", path |-> None, sandbox |-> 0, open |-> FALSE, expired |-> FALSE]

Row == [status : {"none", "creating", "ready", "terminated"}, path : Paths \cup {None},
        sandbox : Sandboxes \cup {0}, open : BOOLEAN, expired : BOOLEAN]

IdleReq == [pc |-> "idle", inst |-> None, path |-> None, ctx |-> 0, sb |-> 0]

Request == [pc : {"idle", "touch", "reconnect", "discard", "create", "insert",
                  "refetch", "yield", "join", "abort", "ready", "using"},
            inst : Instances \cup {None}, path : Paths \cup {None},
            ctx : Contexts \cup {0}, sb : Sandboxes \cup {0}]

IdleJan == [pc |-> "idle", job |-> "none", inst |-> None, ctx |-> 0, todo |-> {}]

Janitor == [pc : {"idle", "next", "forget", "mark", "closing"},
            job : {"none", "merge", "sweep", "shutdown"},
            inst : Instances \cup {None}, ctx : Contexts \cup {0}, todo : SUBSET Contexts]

Init ==
    /\ rows = [c \in Contexts |-> NoRow]
    /\ e2b = [s \in Sandboxes |-> "none"]
    /\ cache = [i \in Instances |-> [c \in Contexts |-> 0]]
    /\ req = [r \in Requests |-> IdleReq]
    /\ jan = [j \in Janitors |-> IdleJan]
    /\ lost = {}

-----------------------------------------------------------------------------
(* The store. *)

\* Mutant: the query forgets to filter on the path.
OpenOnAnyPath(p) == {c \in Contexts : rows[c].open}

OpenOn(p) == {c \in Contexts : rows[c].open /\ rows[c].path = p}

Running(s) == s \in Sandboxes /\ e2b[s] = "running"

FreshContext(c) == rows[c].status = "none" /\ \A d \in 1 .. c - 1 : rows[d].status # "none"

FreshSandbox(s) == e2b[s] = "none" /\ \A t \in 1 .. s - 1 : e2b[t] # "none"

\* Mutant: the table without its unique index.
InsertUnchecked(c, p, s) ==
    /\ FreshContext(c)
    /\ rows' = [rows EXCEPT ![c] = [status |-> "creating", path |-> p, sandbox |-> s,
                                    open |-> TRUE, expired |-> FALSE]]

\* INSERT under the partial unique index on the open rows of a path.
InsertRow(c, p, s) ==
    /\ OpenOn(p) = {}
    /\ FreshContext(c)
    /\ rows' = [rows EXCEPT ![c] = [status |-> "creating", path |-> p, sandbox |-> s,
                                    open |-> TRUE, expired |-> FALSE]]

SetRow(c, status, open, expired) ==
    rows' = [rows EXCEPT ![c] = [status |-> status, path |-> rows[c].path,
                                 sandbox |-> rows[c].sandbox, open |-> open, expired |-> expired]]

\* touch_execution_context; a terminated row is left alone.
TouchRow(c) == SetRow(c, rows[c].status, rows[c].open, FALSE)

\* Mutant: a status the table does not know.
RunningRow(c) == SetRow(c, "running", rows[c].open, rows[c].expired)

\* updateStatus names the row by id alone: it reaches a terminated row too.
ReadyRow(c) == SetRow(c, "ready", rows[c].open, rows[c].expired)

\* terminateContext of the store, again by id alone.  What still runs is given up; the
\* expiry of a closed row is read by nobody and forgotten.
CloseRow(c) ==
    /\ SetRow(c, "terminated", FALSE, FALSE)
    /\ lost' = IF Running(rows[c].sandbox) THEN lost \cup {rows[c].sandbox} ELSE lost

\* sandbox.kill(): callers catch and log its errors, and go on.
Kill(s) ==
    \/ /\ e2b' = [e2b EXCEPT ![s] = "dead"]
       /\ UNCHANGED lost
    \/ /\ "kill" \in Faults
       /\ Running(s)
       /\ lost' = lost \cup {s}
       /\ UNCHANGED e2b

-----------------------------------------------------------------------------
(* getOrCreateContext. *)

At(r, pc) == req[r].pc = pc

\* r is about to make the call pc, for context c and with sandbox s in hand.
Goto(r, pc, c, s) ==
    req' = [req EXCEPT ![r] = [pc |-> pc, inst |-> req[r].inst, path |-> req[r].path,
                               ctx |-> c, sb |-> s]]

Finish(r) == req' = [req EXCEPT ![r] = IdleReq]

\* Returning { context, sandbox }: the caller now runs code in s.
Return(r, c, s) == Goto(r, "using", c, s)

CacheSet(i, c, s) == cache' = [cache EXCEPT ![i][c] = s]

\* A call for path p on instance i; store.getContextByPath finds the open row, whether
\* it has expired or not.
Lookup(r, i, p) ==
    LET start(pc, c) == [pc |-> pc, inst |-> i, path |-> p, ctx |-> c, sb |-> 0]
    IN  /\ At(r, "idle")
        /\ \/ \E c \in OpenOn(p) : req' = [req EXCEPT ![r] = start("touch", c)]
           \/ OpenOn(p) = {} /\ req' = [req EXCEPT ![r] = start("create", 0)]
        /\ UNCHANGED <<rows, e2b, cache, jan, lost>>

\* touchContext, then the cached sandbox or else a reconnect.
Touch(r) ==
    LET c == req[r].ctx
        s == cache[req[r].inst][c]
    IN  /\ At(r, "touch")
        /\ TouchRow(c)
        /\ IF s # 0 THEN Return(r, c, s) ELSE Goto(r, "reconnect", c, 0)
        /\ UNCHANGED <<e2b, cache, jan, lost>>

\* Reconnecting to the sandbox the row names: at first, or after a lost race.
Reconnect(r, from, failed) ==
    LET c == req[r].ctx
        s == rows[c].sandbox
    IN  /\ At(r, from)
        /\ \/ /\ Running(s)
              /\ CacheSet(req[r].inst, c, s)
              /\ Return(r, c, s)
           \/ /\ ~Running(s) \/ "reconnect" \in Faults
              /\ Goto(r, failed, c, req[r].sb)
              /\ UNCHANGED cache
        /\ UNCHANGED <<rows, e2b, jan, lost>>

\* Reconnection failed: terminate the row and go on to create a new sandbox.
Discard(r) ==
    /\ At(r, "discard")
    /\ CloseRow(req[r].ctx)
    /\ Goto(r, "create", 0, 0)
    /\ UNCHANGED <<e2b, cache, jan>>

Create(r) ==
    /\ At(r, "create")
    /\ \E s \in Sandboxes :
        /\ FreshSandbox(s)
        /\ e2b' = [e2b EXCEPT ![s] = "running"]
        /\ Goto(r, "insert", 0, s)
    /\ UNCHANGED <<rows, cache, jan, lost>>

\* The quota callback denies the request, or e2bClient.create throws.
Refuse(r) ==
    /\ At(r, "create")
    /\ Finish(r)
    /\ UNCHANGED <<rows, e2b, cache, jan, lost>>

\* store.createContext: inserted; inserted but the reply is lost; or a conflict.
Insert(r) ==
    /\ At(r, "insert")
    /\ \/ \E c \in Contexts :
            /\ InsertRow(c, req[r].path, req[r].sb)
            /\ \/ Goto(r, "ready", c, req[r].sb)
               \/ "reply" \in Faults /\ Goto(r, "abort", 0, req[r].sb)
       \/ /\ OpenOn(req[r].path) # {}
          /\ Goto(r, "refetch", 0, req[r].sb)
          /\ UNCHANGED rows
    /\ UNCHANGED <<e2b, cache, jan, lost>>

\* Mutant: the row that caused the conflict is taken to be still there.
RefetchFound(r) ==
    /\ At(r, "refetch")
    /\ \E c \in OpenOn(req[r].path) : Goto(r, "yield", c, req[r].sb)
    /\ UNCHANGED <<rows, e2b, cache, jan, lost>>

\* The second query of createContext after error 23505.
Refetch(r) ==
    /\ At(r, "refetch")
    /\ \/ \E c \in OpenOn(req[r].path) : Goto(r, "yield", c, req[r].sb)
       \/ /\ OpenOn(req[r].path) = {}
          /\ Goto(r, "abort", 0, req[r].sb)
    /\ UNCHANGED <<rows, e2b, cache, jan, lost>>

\* Mutant: the loser joins the winner and forgets its own sandbox.
YieldNothing(r) ==
    /\ At(r, "yield")
    /\ Goto(r, "join", req[r].ctx, req[r].sb)
    /\ UNCHANGED <<rows, e2b, cache, jan, lost>>

\* Mutant: the loser kills the sandbox of the context it was given.
YieldWinner(r) ==
    /\ At(r, "yield")
    /\ Kill(rows[req[r].ctx].sandbox)
    /\ Goto(r, "join", req[r].ctx, req[r].sb)
    /\ UNCHANGED <<rows, cache, jan>>

\* The loser of the race kills the sandbox it created.
Yield(r) ==
    /\ At(r, "yield")
    /\ Kill(req[r].sb)
    /\ Goto(r, "join", req[r].ctx, req[r].sb)
    /\ UNCHANGED <<rows, cache, jan>>

\* The catch block: kill what was created (a second time after a failed join), rethrow.
Abort(r) ==
    /\ At(r, "abort")
    /\ Kill(req[r].sb)
    /\ Finish(r)
    /\ UNCHANGED <<rows, cache, jan>>

\* updateStatus(id, 'ready'), cache the sandbox, return it.
Ready(r) ==
    /\ At(r, "ready")
    /\ ReadyRow(req[r].ctx)
    /\ CacheSet(req[r].inst, req[r].ctx, req[r].sb)
    /\ Return(r, req[r].ctx, req[r].sb)
    /\ UNCHANGED <<e2b, jan, lost>>

\* A store call throws: before anything was created nothing is undone; createContext's
\* error goes to the catch block; one of updateStatus leaves the sandbox to its row.
StoreError(r) ==
    /\ "store" \in Faults
    /\ \/ req[r].pc \in {"touch", "discard", "ready"} /\ Finish(r)
       \/ req[r].pc \in {"insert", "refetch"} /\ Goto(r, "abort", 0, req[r].sb)
    /\ UNCHANGED <<rows, e2b, cache, jan, lost>>

\* The chat turn that holds the sandbox ends.
Release(r) ==
    /\ At(r, "using")
    /\ Finish(r)
    /\ UNCHANGED <<rows, e2b, cache, jan, lost>>

RequestStep(r) ==
    \/ Touch(r)
    \/ Reconnect(r, "reconnect", "discard")
    \/ Discard(r)
    \/ Create(r)
    \/ Refuse(r)
    \/ Insert(r)
    \/ Refetch(r)
    \/ Yield(r)
    \/ Reconnect(r, "join", "abort")
    \/ Abort(r)
    \/ Ready(r)
    \/ StoreError(r)

-----------------------------------------------------------------------------
(* terminateContext of the manager, from the merge route and the cleanup job. *)

Working(j, pc) == jan[j].pc = pc

\* j is about to make the call pc, for context c and with T still to do.
Move(j, pc, c, T) ==
    jan' = [jan EXCEPT ![j] = [pc |-> pc, job |-> jan[j].job, inst |-> jan[j].inst,
                               ctx |-> c, todo |-> T]]

Rest(j) == jan' = [jan EXCEPT ![j] = IdleJan]

StartJob(j, job, i, T) ==
    /\ job \in Jobs
    /\ Working(j, "idle")
    /\ T # {}
    /\ jan' = [jan EXCEPT ![j] = [pc |-> IF job = "shutdown" THEN "closing" ELSE "next",
                                  job |-> job, inst |-> i, ctx |-> 0, todo |-> T]]
    /\ UNCHANGED <<rows, e2b, cache, req, lost>>

\* The merge route reads the source path's context, if it has one.
Merge(j, i, p) == StartJob(j, "merge", i, OpenOn(p))

\* Mutant: the cleanup looks at contexts that became ready only.
ExpiredReady == {c \in Contexts : rows[c].open /\ rows[c].expired /\ rows[c].status = "ready"}

Expired == {c \in Contexts : rows[c].open /\ rows[c].expired}

\* get_expired_execution_contexts: all that have expired, or CleanupLimit of them.
Sweep(j, i) ==
    \E T \in SUBSET Expired :
        /\ \/ T = Expired /\ Cardinality(T) <= CleanupLimit
           \/ Cardinality(T) = CleanupLimit
        /\ StartJob(j, "sweep", i, T)

\* A cached sandbox is killed first; of one that is not, only the row is closed.
Take(j, c) ==
    LET s == cache[jan[j].inst][c]
    IN  /\ Working(j, "next")
        /\ c \in jan[j].todo
        /\ \/ s # 0 /\ Kill(s) /\ Move(j, "forget", c, jan[j].todo \ {c})
           \/ s = 0 /\ UNCHANGED <<e2b, lost>> /\ Move(j, "mark", c, jan[j].todo \ {c})
        /\ UNCHANGED <<rows, cache, req>>

Forget(j) ==
    /\ Working(j, "forget")
    /\ CacheSet(jan[j].inst, jan[j].ctx, 0)
    /\ Move(j, "mark", jan[j].ctx, jan[j].todo)
    /\ UNCHANGED <<rows, e2b, req, lost>>

\* store.terminateContext; the cleanup job counts an error and goes on.
Mark(j) ==
    /\ Working(j, "mark")
    /\ \/ CloseRow(jan[j].ctx)
       \/ "store" \in Faults /\ UNCHANGED <<rows, lost>>
    /\ IF jan[j].todo = {} THEN Rest(j) ELSE Move(j, "next", 0, jan[j].todo)
    /\ UNCHANGED <<e2b, cache, req>>

\* shutdown() starts the kill of every cached sandbox; the rows are left alone.
Shutdown(j, i) == StartJob(j, "shutdown", i, {c \in Contexts : cache[i][c] # 0})

ShutdownKill(j, c) ==
    /\ Working(j, "closing")
    /\ c \in jan[j].todo
    /\ Kill(rows[c].sandbox)
    /\ Move(j, "closing", 0, jan[j].todo \ {c})
    /\ UNCHANGED <<rows, cache, req>>

\* When every kill has ended the Map is cleared, with what was added meanwhile.
ShutdownClear(j) ==
    /\ Working(j, "closing")
    /\ jan[j].todo = {}
    /\ cache' = [cache EXCEPT ![jan[j].inst] = [c \in Contexts |-> 0]]
    /\ Rest(j)
    /\ UNCHANGED <<rows, e2b, req, lost>>

JanitorStep(j) ==
    \/ \E c \in Contexts : Take(j, c) \/ ShutdownKill(j, c)
    \/ Forget(j)
    \/ Mark(j)
    \/ ShutdownClear(j)

-----------------------------------------------------------------------------
(* The environment. *)

\* expires_at passes.
Expire(c) ==
    /\ "sweep" \in Jobs     \* nothing else reads the expiry
    /\ rows[c].open
    /\ ~rows[c].expired
    /\ SetRow(c, rows[c].status, TRUE, TRUE)
    /\ UNCHANGED <<e2b, cache, req, jan, lost>>

\* E2B ends a sandbox at its own timeout, whatever the row says.
SandboxTimeout(s) ==
    /\ "timeout" \in Faults
    /\ e2b[s] = "running"
    /\ e2b' = [e2b EXCEPT ![s] = "dead"]
    /\ UNCHANGED <<rows, cache, req, jan, lost>>

\* The sandbox a request created and no row names yet.
Unrecorded(r) == IF req[r].pc \in {"insert", "refetch", "yield", "join", "abort"}
                 THEN {req[r].sb} ELSE {}

\* An instance restarts: its Map and its handlers are gone.
Crash(i) ==
    LET gone == {r \in Requests : req[r].inst = i}
    IN  /\ "crash" \in Faults
        /\ cache' = [cache EXCEPT ![i] = [c \in Contexts |-> 0]]
        /\ req' = [r \in Requests |-> IF r \in gone THEN IdleReq ELSE req[r]]
        /\ jan' = [j \in Janitors |-> IF jan[j].inst = i THEN IdleJan ELSE jan[j]]
        /\ lost' = lost \cup {s \in Sandboxes : Running(s) /\ \E r \in gone : s \in Unrecorded(r)}
        /\ UNCHANGED <<rows, e2b>>

Next ==
    \/ \E r \in Requests, i \in Instances, p \in Paths : Lookup(r, i, p)
    \/ \E r \in Requests : RequestStep(r) \/ Release(r)
    \/ \E j \in Janitors, i \in Instances, p \in Paths : Merge(j, i, p)
    \/ \E j \in Janitors, i \in Instances : Sweep(j, i) \/ Shutdown(j, i)
    \/ \E j \in Janitors : JanitorStep(j)
    \/ \E c \in Contexts : Expire(c)
    \/ \E s \in Sandboxes : SandboxTimeout(s)
    \/ \E i \in Instances : Crash(i)

Spec == Init /\ [][Next]_vars

\* Request code and janitor code runs on.  The hourly cron fires whatever the other handlers
\* do, and a crash does not hit every one of its attempts at the same step: each step
\* that a sweep reaches again and again is taken at last.
Fairness ==
    /\ \A r \in Requests : WF_vars(RequestStep(r))
    /\ \A j \in Janitors :
        /\ WF_vars(JanitorStep(j))
        /\ SF_vars(\E c \in Contexts : Take(j, c))
        /\ SF_vars(Forget(j))
        /\ SF_vars(Mark(j))
    /\ SF_vars(\E j \in Janitors, i \in Instances : Sweep(j, i))

FairSpec == Spec /\ Fairness

-----------------------------------------------------------------------------
(* Properties. *)

\* Every variable has its shape, and an id is only used once it has been handed out.
TypeOK ==
    /\ rows \in [Contexts -> Row]
    /\ e2b \in [Sandboxes -> {"none", "running", "dead"}]
    /\ cache \in [Instances -> [Contexts -> Sandboxes \cup {0}]]
    /\ req \in [Requests -> Request]
    /\ jan \in [Janitors -> Janitor]
    /\ lost \in SUBSET Sandboxes

Named(c) == rows[c].status # "none"

\* Two rows never name the same sandbox.
RowIsolation ==
    \A c, d \in Contexts : Named(c) /\ Named(d) /\ c # d => rows[c].sandbox # rows[d].sandbox

\* A cached sandbox is the one its row names.
CacheIsolation ==
    \A i \in Instances, c \in Contexts :
        cache[i][c] # 0 => Named(c) /\ cache[i][c] = rows[c].sandbox

\* A request runs code in the sandbox of a row of its own path.
UseIsolation ==
    \A r \in Requests : At(r, "using") =>
        \E c \in Contexts : Named(c) /\ rows[c].path = req[r].path /\ rows[c].sandbox = req[r].sb

\* No sandbox serves two paths ("Each path gets its own isolated sandbox",
\* executionContextManager.ts:12), whatever the table, the Maps of the instances and the
\* requests under way remember of each other.
PathIsolation == RowIsolation /\ CacheIsolation /\ UseIsolation

\* The path of an open row is bound to its sandbox, that of a closed one has been; a
\* request holds the sandbox it was returned.
Bound == {<<rows[c].path, rows[c].sandbox>> : c \in {d \in Contexts : rows[d].open}}
Ever  == {<<rows[c].path, rows[c].sandbox>> : c \in {d \in Contexts : Named(d)}}
Held  == [r \in Requests |-> IF At(r, "using") THEN {<<req[r].path, req[r].sb>>} ELSE {}]

Bindings == INSTANCE PathBindings WITH bound <- Bound, ever <- Ever, held <- Held

\* The manager, its store and the unique index keep what PathBindings promises, through
\* lost races, terminations, crashes and lost replies.
ImplementsBindings == Bindings!Spec

\* A sandbox that runs is billed.  One that no open row names and no request is about to
\* record or kill was given up at a step that is known: its kill failed, its row was
\* closed while it ran, or the instance that had just created it crashed.  In particular
\* the loser of a creation race never leaves its sandbox behind.
NoSilentLeak ==
    \A s \in Sandboxes : Running(s) =>
        \/ s \in lost
        \/ \E c \in Contexts : rows[c].open /\ rows[c].sandbox = s
        \/ \E r \in Requests : s \in Unrecorded(r)

\* Unless the reply of an insert that took effect is lost, the kill of the loser of a
\* race or of the catch block never hits a sandbox another request runs code in.
NoKillUnderUser ==
    [][\A r \in Requests, s \in Sandboxes : (Yield(r) \/ Abort(r)) /\ Running(s) /\ e2b'[s] = "dead"
        => \A q \in Requests \ {r} : ~(At(q, "using") /\ req[q].sb = s)]_vars

\* An expired context is not kept: it is terminated or touched, though requests crash
\* before they mark it ready and kills fail ("Cleanup job will terminate after TTL
\* expires", execution-contexts_e2b_v1.md:444).
ExpiredCollected ==
    \A c \in Contexts : (rows[c].open /\ rows[c].expired) ~> ~(rows[c].open /\ rows[c].expired)

\* Every call of getOrCreateContext returns a sandbox or throws.
RequestCompletes ==
    \A r \in Requests : ~At(r, "idle") ~> At(r, "idle") \/ At(r, "using")

================================================================================
