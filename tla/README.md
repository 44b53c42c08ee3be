# A formal model of the regulatory intelligence copilot

TLA+ modules that model the parts of this repository whose behaviour depends on
interleavings, failures and time, TLC configurations that check them on small
instances, and proofs, checked by TLAPS, of what holds for every instance.

Paths below are relative to the repository. `ECM` stands for
`packages/reg-intel-conversations/src/executionContextManager.ts`, `ECS`, `CS` and `PS` for
`executionContextStores.ts`, `conversationStores.ts` and `pathStores.ts` beside it, and `SQL` for
`supabase/migrations/20260113000001_initial_schemas.sql`.

## 1. The system

A chat platform for several tenants. Next.js applications (demo-web, copilot-admin) run
as any number of instances over one Postgres (Supabase), an optional Redis, a Memgraph
graph, LLM providers and E2B, which runs code in sandboxes. All coordination between
instances goes through the database, Redis or the Supabase realtime service; inside an
instance JavaScript runs one callback at a time, so a handler is interrupted only at an
`await`.

| component | state | operations | how it interacts | what is hard, and what must hold | section |
|---|---|---|---|---|---|
| Execution contexts (`ECM`, `ECS`, table `execution_contexts`) | a row per context: path, sandbox, status, expiry, end; per instance a Map context -> sandbox; the sandboxes at E2B | getOrCreateContext, terminateContext, cleanupExpired, shutdown | called by the chat route, the merge route, the cleanup cron and the shutdown hook of every instance | creation races, dead sandboxes in the Map, kills that fail, crashes between create and insert. One open context per path; a sandbox serves one path; nothing that runs is forgotten silently; expired contexts go away | 3 |
| Conversation paths (`PS`, `CS`, SQL path functions) | a tree of paths with messages, branch points, merge marks, the active path of a conversation | createPath, branchFromMessage, mergePath, deletePath, resolvePathMessages, setActivePath, ensurePrimaryPath | chat route (append), path routes | sequences `MAX + 1` under concurrency, merges of several steps without a transaction, nested branches. A branch shows its parent's messages up to the branch point and nothing later; what a merge appends stays in order; a path marked as merged has its content in its target | 4 |
| Cost quotas (`costTrackingService.ts`, `supabaseProviders.ts`, SQL quota functions) | per scope and resource: spend, limit, period | check, record, reset at a period's end | LLM calls, sandboxes, the quota routes | check and spend in several steps, several writers of one row, a period that ends in between. No charge is lost or doubled but by a named race; an enforced limit is not passed by more than the calls under way | 5 |
| Workspaces and memberships (SQL functions, admin routes) | tenants, memberships with status and soft deletion, invitations, active tenant, change events | invite, accept, cancel, delete, restore, switch, administration | admin and demo-web routes, sessions | a workspace deleted and restored around invitations, suspensions and removals. No access for a barred user; a restore gives back what the deletion took and no more | 6 |
| Session validation (`sessionValidation.ts`, `distributedValidationCache.ts`, `options.ts`, `useMembershipMonitor.ts`) | a token per device, validations cached in Redis | log in, validate, adopt, monitor | memberships | cached answers of other devices on top of the token's own trust: a lost membership is noticed within a bound, and a wrong answer does not last | 6 |
| Event hubs (`reg-intel-eventhub`, conversation hubs) and the conversation list | local subscribers per channel, remote channels with their set-up and teardown in progress, queues | subscribe, unsubscribe, broadcast, receive | SSE routes of every instance; Redis or Supabase realtime | subscribe and unsubscribe across awaited set-up and teardown. Events reach who stays, once and in order; a channel without subscribers is closed | 7 |
| Graph change detection (`graphChangeDetector.ts`, `graphChangeDetectorInstance.ts`) | snapshots per filter, pending batches, timers | subscribe, poll, batch, emit | graph client, event streams | overlapping polls, timestamps, patches against an old snapshot, caps. Patches add up to the snapshot; no change is passed over | 8 |
| LLM routing and egress (`llmRouter.ts`, `egressClient.ts`, `egressModeResolver.ts`, `policyStores.ts`) | policies per tenant, cached | resolve policy, provider and mode, call | chat route, policy administration | a replaced policy in the cache; rules of several levels. A policy takes hold within a bound; every call obeys one that was in force | 9 |
| Conversation configuration (`conversationConfig.ts`) | rows per tenant and user, cached | get, set, delete | compaction | the same cache scheme over two levels | 9 |
| Conversation cache, rate limiter, compaction, graph ingress, engine, agents, prompts, timeline, pricing, telemetry, user interfaces | - | - | - | see section 10 | 10 |

## 2. Plan

Modules, most important behaviour first.

| | modules | checked | proved |
|---|---|---|---|
| 1 | `PathBindings` (abstract) and `ExecutionContexts`, which implements it | `exec_safety`, `exec_faults`, `exec_liveness` | all safety, refinement |
| 2 | `ConversationPaths`, and `PathResolution` over it | `path_safety`, `path_refused` | all safety, with the two readings of a branch |
| 3 | `CostQuotas` | `quota_safety`, `quota_default_rows` | everything the run checks |
| 4 | `Workspaces`, and `Sessions` composed with it | `access_safety` | all safety |
| 5 | `EventChannel` (abstract) and `ChannelHub`, which implements it with the log of `HubLog`; `ConversationFeed` composed with the hub | `hub_safety` | all safety, refinement; a feed is a hub |
| 6 | `GraphPatches` (operators) and `GraphChanges` | `graph_safety`, `graph_second_viewer` | everything the first run checks |
| 7 | `SettingsCache`, and `LlmRouting` composed with it | `routing_safety` | everything the run checks |

Left, in this order:

- the composition of 3 with the creation of sandboxes in 1; the store's other readers and writers of the cached conversation record; the
  concept handler's look-up before its write (`canonicalConceptHandler.ts`).

## 3. ExecutionContexts

### 3.1 How the model corresponds to the code

| model | code |
|---|---|
| `rows` | table `copilot_core.execution_contexts` (SQL 3586): `open` is `terminated_at IS NULL`, `expired` is `expires_at < now()` |
| `InsertRow` | INSERT under `idx_execution_contexts_unique_active_path` (SQL 4580) |
| `e2b` | the sandboxes at E2B: none yet, running, dead |
| `cache` | `ECM` 147, the private Map of every instance |
| `req` | the calls of getOrCreateContext under way: the next remote call and the locals that survive to it |
| `jan` | the handlers that terminate contexts: merge route, cleanup job, shutdown |
| `lost` | history only: sandboxes given up while they ran, at a step the code knows |

getOrCreateContext is `Lookup` (ECM 191), `Touch` (239, 249), `Reconnect` (267), `Discard`
(332), `Create` or `Refuse` (374-512), `Insert` and `Refetch` (the insert of ECS 223 and its second
query), `Yield` (554), `Reconnect` again (568), `Abort` (604), `Ready` (624). terminateContext is `Take` (690-703),
`Forget` (754), `Mark` (767); cleanupExpired is `Sweep` (790) and terminateContext for each
member of its list; shutdown is `Shutdown`, `ShutdownKill`, `ShutdownClear` (895-922). The chat turn that holds the
sandbox ends with `Release` (`reg-intel-next-adapter/src/index.ts` 703-731).

An action is one remote call together with the code that runs from its answer to the next call. The code between
two awaits touches only the call's locals and the instance's Map; merging it with the remote effect hides only the
delay of an answer, and a delayed answer is a state in which nothing this call does is visible. Where the
delay matters it is modelled: the insert whose reply is lost, the crash between two calls. Lookup has no locals
before it, so the start of the call is merged with it.

Time appears as two events: `Expire` (a row passes `expires_at`) and `SandboxTimeout` (E2B's own timeout,
10 minutes by default, which no use extends); TTLs of 30, 20 or 15 minutes are all "not expired". Ids
are handed out in order. The quota callback is the choice between `Create` and `Refuse`.

Failures are listed in `Faults`, one constant for every run: `kill` (an E2B kill throws), `reconnect` (a reconnect
throws although the sandbox runs), `store` (a store call throws), `reply` (an insert takes effect and its
reply is lost), `crash` (an instance restarts), `timeout` (E2B ends a sandbox).

As wired in demo-web today, `createExecutionContextManager` (`reg-intel-next-adapter/src/executionContext.ts`) builds
its client without a sandbox constructor, and every create then throws; the model has a client that works, as the
tests of the manager have.

Not modelled: rows deleted by cascade with their conversation or path, the purge
`cleanup_old_terminated_contexts` (no caller in the applications), isHealthy, getStats and
updateResourceUsage (no state change), and the status `error`, which no code writes.

### 3.2 Properties and runs

All runs use `MCExecutionContexts` with two requests, one janitor, two contexts and two sandboxes: the smallest
instance in which two creators race, the loser joins, a row is closed under a user and its path is bound anew.
A third context or sandbox only repeats a creation; two requests suffice because the claims relate two
parties. Instances, paths, requests and janitors are symmetric (safety runs only).

| run | instance | what it shows |
|---|---|---|
| `exec_safety` | 2 instances, 2 paths, merges; faults reconnect, reply | `TypeOK`; `PathIsolation`; `ImplementsBindings`: refinement of `PathBindings` |
| `exec_faults` | 2 instances, 1 path, merges and shutdowns; faults kill, reconnect, store, crash, timeout | `NoSilentLeak`: a running sandbox that nobody knows was given up at a failed kill, a closed row or a crash, never by the race itself. `NoKillUnderUser`: the kill of a loser or of the catch block never hits what another request uses |
| `exec_liveness` | 1 instance, 1 path, cleanup; faults kill, crash | `ExpiredCollected`, `RequestCompletes` |

`reply` is left out of `exec_faults`: when an insert's reply is lost the catch block does kill a sandbox that an open
row names, and another request may already use it; that is inherent in the code's choice to clean up, and
`exec_safety` shows that isolation survives it.

Fairness (`FairSpec`): request code and janitor code that can run does run (weak fairness: an instance that is up keeps
executing, and remote calls answer or throw). The cron (`vercel.json`, hourly) fires again
and again, whatever else runs, hence strong fairness of `Sweep`; an instance that crashes in every sweep at the
same step is excluded by strong fairness of `Take`, `Forget` and `Mark`. Nothing is assumed of callers,
crashes, kills or expiry. With one path the limit of a cleanup's batch (`CleanupLimit`) never bites, so the run does not show that a
second batch takes up what the first left. Deadlock is not checked in that run: when the contexts and sandboxes of the bound are used
up and nothing is due, the model stops.

### 3.3 Where the code differs from its documents

The model behaves like the code in these three points. No run is kept for them.

1. A sandbox found in the Map is returned without a check (ECM 249). E2B ends it after its
   own timeout, and another instance may have killed it; the chat turn then gets a dead sandbox, and so does every
   later one on that instance, each extending the row's TTL. `docs/architecture/execution-contexts_e2b_v1.md:433` promises to recreate it transparently.
2. cleanupExpired reads its list once and terminates each member without looking again
   (ECM 805): a context touched meanwhile is closed, and its sandbox killed, under the turn that uses it.
3. terminateContext on an instance that does not hold the sandbox only marks the row (ECM 761); the
   sandbox runs on until E2B's timeout. The comment at ECM 784 says "kill sandbox + mark terminated".

### 3.4 Proofs (`ExecutionContexts_proofs`)

For every number of instances, paths, requests and janitors, every bound and every set of faults, from
`NoneAssumption` alone (None is no instance and no path):

- `TypeCorrect`: `Spec => []TypeOK`;
- `Isolation`: `Spec => []PathIsolation`;
- `Refinement`: `Spec => ImplementsBindings`;
- `NothingLeaksSilently`: `Spec => []NoSilentLeak`, with every fault;
- `KillsSpareUsers`: `Spec => NoKillUnderUser` for every set of faults without `reply`, for the reason given in 3.2.

The inductive invariant `IInv` adds to the type and the isolation of rows and Maps what the code keeps in locals:
`RowsInv` (an inserted row names a sandbox that was created), `RequestsInv` (a context a request remembers is a row
of its path, and its sandbox the one it created or the one of that row), `UnrecordedInv` (a created sandbox that is not
inserted yet is named by no row and held by no other request: why an insert keeps rows apart) and `JanitorsInv`
(janitors only work on inserted rows). One lemma for every action shows that it keeps `IInv`; `SetRowKeeps` says once
that every store operation but the insert keeps a row's path and sandbox. The refinement maps an insert to
`Bind`, the closing of an open row to `Unbind`, a return to `Hand`, an end or crash to `Drop`, and the rest
to a stutter.

`NoSilentLeak` is not inductive: it does not say what became of the sandbox of a request that lost a race and goes on to
join the winner, so that a step which forgets the id could lose it. `WrittenOff` says that it was killed, or given up at a failed kill.
`NoKillUnderUser` rests on `AbortedUnnamed`: as long as no reply is lost, what a catch block is about to kill is named by no row and
was created by no other request, since an insert that took effect was answered and the request did not get there.

Only model-checked: `ExpiredCollected` and `RequestCompletes` (liveness under fairness is outside what the prover handles).

## 4. ConversationPaths

### 4.1 How the model corresponds to the code

| model | code |
|---|---|
| `paths` | table `copilot_core.conversation_paths` (SQL 3535) of one conversation; 0 is NULL |
| `msgs` | table `copilot_core.conversation_messages` (SQL 3495): path, `sequence_in_path`, and `from` for `metadata.mergedFrom.originalMessageId` |
| `active` | `conversations.active_path_id` |
| `turn` | the chat turns (`reg-intel-next-adapter/src/index.ts` 771, 959) and the page loads that call ensurePrimaryPath: the next remote call, and the path and number they go on with |
| `merge` | the mergePath calls under way: what was picked, what is still to be copied |
| `merged` | history only: what the merge that marked a path had picked |

appendMessage is `Address` (CS 513-530), `MakePrimary` (532), `Activate` (553), `Say` (568); a turn appends a question
and, when the stream ends, an answer, and may end before that (`EndTurn`). ensurePrimaryPath is `Visit` (PS 793), then the
same `MakePrimary` and `Activate`, since both callers send the same statements; createConversation sends them too (CS
457-487), as a visit of a conversation that has just been inserted. mergePath with its route is `StartMerge`, `Summarise` or `Copy`
once per message, and `Mark`; `FailMerge` is every throw in between. branchFromMessage, setActivePath and deletePath take
effect in one statement each, and what they read before it cannot become false unless the row is deleted,
in which case the statement fails or touches no row: one action each.

The database is part of the model: the unique index on primary paths in `InsertPath`, the foreign keys in
`InsertMessage` and `Delete` (cascade to the messages; parent, branch point, merge target, merge summary and active path
become NULL, SQL 4840-4881), and the trigger that numbers messages in `NextNumber`. `Overlap` says whether two inserts into
one path can be under way at once: the trigger then reads the maximum (`EarlyNumber`) before the other commits. `Crashes` says
whether a request may stop between two calls. Ids are handed out in order, so that message ids are also the order of insertion.

`PathResolution` adds no state. `View` is resolvePathMessagesManual and `RpcView` the SQL function, both recursive functions
over the tables.

One conversation is enough: every statement names its path or its conversation, and the routes check that a path
belongs to the conversation. Not modelled: names and texts, archiving (`is_active`, which no modelled step reads), the columns
`is_branch_point` and `branched_to_paths` that a trigger keeps for display, soft deletion and pins, paths created with a
parent chosen by the caller, compaction, and the deletion of the conversation.

### 4.2 Properties and runs

| run | instances | what it shows |
|---|---|---|
| `path_safety` | "race": 2 turns, 1 merge that copies a selection or a summary, 2 paths, 5 messages, stops anywhere; "views": 1 turn, 1 full merge, 3 paths, 4 messages, no stops; "overlap": 1 turn and 1 full merge whose inserts overlap, 2 paths, 6 messages, no stops | `TypeOK`, `MergedInOrder`, `MergedMeansCopied`, `BranchPointInParent`, `RpcAgrees`, `BranchStable` |
| `path_refused` | violation | the finding below |

`MCConversationPaths` explores the three instances in one run: `instance` is chosen at the start and limits what may happen. In
"race" two paths are a primary and a branch, the least a merge needs; five messages let a merge copy two while turns write
into both. In "views" three paths are a branch of a branch: nested views, a deletion in the middle of the tree, a merge into a
branch. In these two no insert takes its number early; in "overlap" a turn writes into the source and the target of a merge while
the merge copies two messages, and every insert may have taken its number before another commits. Deadlock is not checked: when
the bound on messages is used up, nothing need be left to do. The model states no
liveness: every call ends by itself, and nothing is retried.

`MergedInOrder` holds with overlap too: mergePath awaits each insert before it starts the next (PS 667-697), so that a copy takes a number above
the copy before it, whatever others insert; the number may be shared with someone else's message.

`BranchStable` relates a state to the next one: what a branch inherits is the same after any step, unless an
ancestor is deleted. It speaks of steps that find and leave the messages of every path numbered in the order of their insertion
(`Sequential`), which is always so when inserts into one path do not overlap (lemma `PremiseMet`). Otherwise it is false: an insert that took its number early and commits late can land before a branch
point that was taken in the meantime, and the branch then shows a message that nobody had seen when it was made. `RpcAgrees` has the same
premise, since two messages with one number have no order. `RpcAgrees` is restricted to branches of a root. For a branch of a branch the SQL function shows less than
the TypeScript one, although `docs/architecture/conversation-path-system.md:591` says that resolution "recursively inherits from all
ancestors": it keeps the entries of the parent whose effective number is at most the number of the branch point (SQL
1140), but the parent's effective numbers count what the parent inherits, and the branch point's number does not. Without the restriction TLC finds
it with three paths and two messages. Today the call in PS 380 goes to the client's default schema, where the function does not exist, and the
fallback runs instead.

### 4.3 Findings

`path_refused`. When `active_path_id` is NULL, appendMessage always inserts a primary path (CS 532), which the unique index
refuses if there is one. That state is reached by the hard deletion of the active branch (SET NULL) or by a stop between
CS 532 and 553. No message is accepted until a client sets the active path; ensurePrimaryPath does not, because it
returns the primary path it finds (PS 795).

Two further differences are in the model without a run. `next_sequence_in_path` (SQL 978) reads the maximum without a lock, and
the index on the numbers is not unique: with `Overlap` two messages inserted at the same time get one number, and their order in
the path is left to the query, although the document says that `sequence_in_path` determines the order
(`conversation-path-system.md:560`). And a hard deletion of a path with branches (PS 353) leaves the branches in
place without parent and branch point, that is without what they inherited, although `conversation-path-system.md:556` says that
every path except the primary has exactly one parent.

### 4.4 Proofs (`ConversationPaths_proofs`)

For every bound and any numbers of turns and merges, with and without overlap and stops, from `ConversationAssumption`:

- `TypeCorrect`: `Spec => []TypeOK`;
- `BranchesHang`: `Spec => []BranchPointInParent`;
- `MergesComplete`: `Spec => []MergedMeansCopied`;
- `MergesInOrder`: `Spec => []MergedInOrder`;
- `BranchesKeepTheirPast`: `Spec => BranchStable`;
- `ResolutionsAgree`: `Spec => []RpcAgrees`.

`TableSteps` shows that all steps are of five kinds for the two tables: nothing, one message, one path, a deletion, a
mark; the other lemmas only distinguish these. The inductive invariant `IInv` adds to the properties: `Homes` (a live message is in
a live path), without which the path of a branch point could be gone; `Handed` (ids are handed out in order) and
`Numbered` (no number is taken early without overlap), for the order of messages; `InTarget` (what a merge under way has
inserted is in its target, unless that is gone for good), which is what the final mark relies on; `Marked`, which adds the foreign key of the
merge target. `ContentStays` is the fact behind both: no step takes a message from a path that survives it.

For `MergesInOrder` the invariant is `InOrderEverywhere`: for a merge under way (`Rises`), the copies made so far stand in order,
their originals come before all that is left to copy, and if the next copy has taken its number already, that number is above theirs; for
a marked path (`Risen`), the copies of what was picked stand in order. `RisesCopy` is the step that matters, in its two forms: the
number is taken with the insert, or was taken when the copy before it was there.

The last two are about recursive functions (`View`, `RpcView`, `Ancestors`) over the tree, and sorting. Their proofs use the same induction again and
again: a set of counterexamples that is not empty has a least member (`LeastMember`). In this form it is an argument about sets,
which the provers handle, where the induction theorems of the library take predicates.

- The recursion ends because a path is younger than its parent (`Rising`, which rests on `PathsHanded`: path ids are handed out in order).
  `ViewUnfolds`, `RpcUnfolds` and `AncestorsUnfold` give each function by its value at the parent.
- `OwnOrdered` says that sorting a path's messages by number lists each of them once, in the order of insertion. It rests on `Sequential`
  and on `OwnRanked`: the numbers rank the messages of a path as their ids do, and the choice in `InOrder` has an answer at every place.
- `ViewBegins`: along a step that keeps the ancestors of a path, its old view is the beginning of its new one. Messages are added at the end of a path's own
  list; its inherited part is the parent's view up to a message, and what follows a message does not matter to what comes before it (`BeginsAfter`, `UpToBegins`).
  `BranchStable` is this for the inherited part.
- `KeepAtBranch`: where the parent is a root, the entries whose number is at most that of the branch point are those up to it, which `PickFirst` turns into the
  beginning of the list. Together with `RootAgrees` this is `RpcAgrees`; for a deeper parent the numbers do not rise along its list, and the lemma is false.

## 5. CostQuotas

### 5.1 How the model corresponds to the code

`P` stands for `packages/reg-intel-observability/src/costTracking/supabaseProviders.ts`.

| model | code |
|---|---|
| `rows` | table `cost_quotas`: the spend and the period of every configured pair of scope and resource; every limit is `Limit` |
| `call` | the callers: where each stands, and the locals that survive an await (the period's end it read, what it found exceeded) |
| `stored` | callers under way whose cost record is in `llm_cost_records` or `e2b_cost_records` |
| `now` | the current period; `Tick` ends it |
| `incurred`, `charges` | history only: calls made, charges of each call |

A chat turn is `Request` (the check of the tenant in the chat route, `apps/demo-web/src/app/api/chat/route.ts` 85), `Run` (the LLM call) and
recordCost (`costTrackingService.ts` 97): the checks of platform, tenant and user, `Store`, and a charge for each of the three. A check or a charge is `Get` (getQuota), and when the
period is over `ResetGet`, `ResetPut` (resetQuota, a read and a write) and `Again`; a charge ends with `Inc` (the function
increment_quota_spend). `Atomic` is check_and_record_quota_atomic, one transaction with a row lock; `AtomicFails` goes to its fallback, the
steps of a check and a charge. `SandboxCheck`, `SandboxStore` and `SandboxInc` are the sandbox's own functions, `Reset` the operator's route,
`Return` the end of a call. `Fail` is a remote call that throws before its effect ("store") or after it ("reply").

All costs are one unit, which leaves the questions: who is counted, how often, and past which limit. Not modelled: setQuota (its
upsert names columns without a unique constraint, so that it always throws), the manual update for a database in which
increment_quota_spend does not exist, warnings, and periods of different lengths beside each other: getPeriodBounds is the current period,
whose number grows with time.

What the model shows of rows that cannot work: the platform's row is never renewed, because its reset filters by
`eq('scope_id', null)` (P 654), which a uuid column refuses, so that the update throws; and nothing renews a sandbox quota at the end of its period, because
neither check_e2b_quota nor increment_e2b_quota_spend looks at `period_end`. check_e2b_quota takes `MAX` of a boolean, which
Postgres does not have; the model has the function as it is meant.

### 5.2 Properties and runs

| run | instance | what it shows |
|---|---|---|
| `quota_safety` | 2 callers with all kinds of call, three periods, limit 1; rows for all of a tenant's resources, for a user's LLM and for the platform; faults store and reply | see below |
| `quota_default_rows` | violation | the finding below |

- `OverrunBounded`: what a row shows and what has been let through to it exceed the limit by fewer calls than there are callers.
- `ChargedOnce`: no call is charged to a scope twice, but for the fallback after an atomic charge whose reply was lost (P 757).
- `ChargedIsStored`: what is charged has a cost record.

Two callers are the least that can both pass a check or both reset a row, and three periods let a period end between a check and
a charge that is itself late. A second reset of one period, by a caller that had read the row before the first one (P 645), wipes out what
was charged in between: such a row undercounts, and no property bounds by how much. With a limit of one the second call already overruns. Larger numbers are left to the proofs. No
liveness: every call ends by itself.

### 5.3 Findings

`quota_default_rows`. The trigger init_tenant_quotas gives every tenant one row for `llm` and one for `e2b`, and getQuota (P 590)
asks for the one row of a scope without a resource: maybeSingle fails on two rows. The check before a turn takes the
error as permission, and recordCost gives up before it stores or charges anything. No LLM limit is ever enforced for such a
tenant, although `apps/demo-web/src/lib/costTracking.ts:145` says that requests beyond the quota are blocked.

### 5.4 Proofs (`CostQuotas_proofs`)

Everything `quota_safety` checks holds for any finite set of callers, any rows, limits, periods and faults: `TypeCorrect`,
`ChargesAreNotDoubled`, `ChargesAreRecorded`, `OverrunIsBounded`.

`RowsInv` is inductive by itself: the type and the places a call can be in (`Controlled`). `ChargeInv` adds
`ChargeOf`, which says for every place of a call what it has charged so far. `BoundInv` adds to `RowsInv`, when limits are enforced, `Bounded(k)`: the spend of
a row and the number of calls on their way to it are together at most the limit and the number of callers less one. It is kept by four kinds of
step, one lemma each: a step that only takes calls off the way (`Eases`), one that lets a call through (`Passes`), one that turns a
call on its way into spend (`Charges`), and the transaction that does both (`Transacts`); each is an argument about the
cardinality of the set of calls in flight.

## 6. Workspaces and Sessions

### 6.1 How the model corresponds to the code

| model | code |
|---|---|
| `tenants`, `creating` | table `tenants`: state, `deleted_by`, whether the grace period runs; tenants whose creator has no membership yet |
| `member` | table `tenant_memberships`: role, status, `deleted_at IS NOT NULL` |
| `invitation` | the unaccepted row of `workspace_invitations` for a pair, unique in the pair |
| `context` | table `user_tenant_contexts` |
| `pending` | unprocessed membership events `suspended` |
| `token`, `val` | the JWT of a device (`auth/options.ts`), and the validation under way on it: three remote calls |
| `cache` | `distributedValidationCache.ts`, one entry for a user, shared by devices and instances |
| `banned` | users with `banned_until` or `deleted_at` in their metadata |
| `barred`, `snapshot`, `ages` | history only |

Every function of the database is one transaction and one action of `Workspaces`: delete_workspace, restore_workspace, the
invitations, switch_tenant, create_personal_tenant, mark_membership_events_processed. Creating a workspace is two inserts in the
route (`InsertTenant`, `InsertOwner`, `InsertOwnerFails`). The actions named `Admin...` are the routes of the administration. In `Sessions`,
`Login` is authorize; `Cached`, `Validate`, `ReadContext`, `Verify`, `Store` are the steps of a request whose token is renewed
(`sessionValidation.ts` 86-293); `Monitor` is useMembershipMonitor; `Tick` lets 5 minutes pass, the length of both limits. What is `k`
units old was written more than `k - 1` and less than `k + 1` units ago, so that at the age of a limit both answers are possible.

Points of the code that the model shows as they are:

- verify_tenant_access does not look at `deleted_at` (`HasAccess`); the token of a member of a deleted workspace stays valid.
- A context-read error counts as valid without a tenant: the token keeps its old tenant and is renewed.
- create_personal_tenant returns a JSON object that authorize takes for the tenant's id (`Unusable`), until the first validation. authorize also calls
  it for a user who has a tenant when the look-up of that fails (`options.ts` 98-104): a member without a personal workspace is then given one, as its current tenant.
- An expired invitation is ignored by the check but not by the unique index: nobody can invite again before it is cancelled.
- Accepting an invitation while an inactive membership exists fails on the unique constraint.
- Removal or suspension of a membership that is marked deleted matches no row and reports success.
- A change of the role hides the change of the status made with it from the events (`Suspends`).
- An old pending `suspended` event makes the browser switch away again until it is dismissed.

Not modelled: the roles in invitations, the administrator's own role (acts as an owner), `user_preferences`, the check of
delete_workspace for open execution contexts (taken as passed), `useSessionSync`, the profile look-up without a service key, and the
read-then-write of the administration's POST (one action). The DELETE route of a workspace looks for a workspace with
`deleted_at === null` in what get_user_tenants returns, which has no such column, and so never switches; the model's
deletion leaves the context as it is.

### 6.2 Properties and runs

One run, `access_safety`: an owner, a member, a shared and a personal workspace. Its instance "workspaces" explores all operations
on the database without sessions, "sessions" a device of the member with the operations that change what it may do, one remote error,
a ban, and both limits at one unit. Deadlock is not checked: nothing need be left to do in "workspaces".

- `BarredStaysOut`: whoever was suspended or removed has no access until the administration takes that back, whatever is
  deleted, restored, invited or accepted.
- `OwnerFollows`: the owner has access to his workspace whenever it is live.
- `RestoreExact`: a restoration gives access to exactly those who had it at the deletion, but for memberships changed in
  between, and for removed ones that had been set back to active without being restored.
- `TokenGrounded`: without remote errors, a token that is accepted without validation names a tenant that was the user's, with
  an active membership and an account in order, at most `Bound` = TTL + Interval + 1 units ago: 15 minutes, although each of the limits says 5.
- `DevicesSettle`: once the current tenant of a user is accessible and no longer changes, every device gets there and stays.

The fairness is: time passes, remote calls return, and a device stays in use, which is to log in again, send requests and run
the monitor every 10 seconds. No behaviour of "workspaces", in which no time passes, satisfies it, so that `DevicesSettle` is about "sessions".

One hazard has no run. A member removed by the administration is not switched to another workspace: the trigger calls the
event `status_changed` where the browser waits for `removed` or `suspended` (`useMembershipMonitor.ts` 36, 146), and the server asks get_user_tenants
as the service, which has no workspaces (`sessionValidation.ts:215`); the user is logged out instead.

### 6.3 Proofs (`Sessions_proofs`)

For any users, tenants, devices and limits: `BarredUsersStayOut`, `OwnersFollow`, `RestorationIsExact`, `TokensAreGrounded`
(`Spec => []TokenGrounded`) and `TypeCorrect`.

The inductive invariant of the database is `DatabaseInv`. A restoration clears the deletion marks of all rows, so `BarredInactive`
says that a barred user is kept out by the status as well; `Founded` that a tenant that does not exist has no rows, so that a creator
finds none; `OwnerRow` that the row of an owner out of reach is active and marked deleted at most while the tenant is; `Kept` relates
`snapshot` to the rows of a deleted tenant. Every action of `Sessions` is a step of the database or leaves it alone.

`TokenGrounded` needs two more invariants. `Grounds` bounds, while every remote call has answered, the ages of the facts behind each thing
that can become a token: an answer of the database that is still under way (`ReadFresh`), a cached validation by what is left of its life
(`CacheFresh`) and a token by its own age (`TokenFresh`); a unit of time adds one on both sides, and the three limits add up along the way from
the database to the token. `Signed` says that a device that is logged in or validating has a current tenant to speak of.

Only model-checked: `DevicesSettle`.

## 7. ChannelHub and ConversationFeed

### 7.1 How the model corresponds to the code

`packages/reg-intel-eventhub/src` over the ioredis client of `packages/reg-intel-cache/src/clients.ts`; one key and its channel.

| model | code |
|---|---|
| `stage`, `got` | LocalSubscriptionManager: the SSE connections of an instance, and what was written to each |
| `entry`, `pending`, `awaited` | ChannelLifecycleManager: the promise in activeChannels, those not settled, those an unsubscription awaits |
| `handling` | the listeners of IORedisPubSubClient |
| `outbox`, `uplink`, `downlink`, `linked` | the connections to Redis, first in first out, and Redis' own subscriptions |
| `log` | (`HubLog`) history only: what every instance has announced, in order; no operation reads it |
| `record` | (`ConversationFeed`) the version of the conversation in the database |
| `cache`, `reads` | the entry of CachingConversationStore, and what other requests have read and not yet put there |
| `phase`, `held` | the PATCH requests that write the conversation, drop the entry, read back and announce what they read |
| `listed`, `snap` | the stream route: reads the list, subscribes, sends the list first |
| `cut`, `stray`, `lost`, `raced`, `exposed`, `slipped` | history only |

`Subscribe` and `Leave` are the hub's subscribe and unsubscribe up to their first await; `Confirmed` and `Failed` continue when the promise
settles; `Broadcast` delivers to the own instance and publishes without waiting; `Received` is the listener. An unsubscription from a
settled subscription is atomic with taking the entry, and may fail at Redis like a subscription (`Refuse`): that is only logged. Messages are
named by their request.

A PATCH writes the archived state, then the rest (`Archive`, `Share`), or one of them, or neither; each write is followed by a drop of the cached
entry, whose failure is ignored (`Drop`); a call that fails ends the request without a word (`GiveUp`). The read-back takes the cached version or,
when there is none or the cache does not answer, that of the database, and puts it into the cache (`Refresh`, `Fill`). Other requests read the same way
(`LookUp`, `PutBack`); what they write elsewhere in the conversation, and the entry's time, drop it (`Expire`). The cache is there when Redis is
configured, which is the code's default; without it a behaviour has `cache` empty throughout. The list is not cached.

Not modelled: the Supabase Realtime transport, the Upstash client, shutdown (nothing calls that of the conversation hubs), health
checks, the administration's hubs, which wrap the same classes, and the stream of a single conversation. Failed publications are
only logged, as in the code.

### 7.2 Properties and run

`hub_safety` has two instances of the application, one failing Redis command, and explores two instances of the model: "hub" (two requests on one
side, two viewers on the other that overlap or follow each other, and one that stays) and "feed" (a viewer, an update of one or two writes on the
other side and one of a single write on its own, one read at a time on its way into the cache; a behaviour ends where the viewer is excused for
good). A channel that is closed and opened again and a failure of either command happen in it; more viewers of one instance share the channel
and add only copies. Deadlock is not checked: viewers and requests are used up.

- `DeliveredOnceInOrder`: nobody is sent an event twice, and any two viewers get the events of one instance in the same order.
- `DeafOnlyWhenCut`: an instance with viewers and no command under way is subscribed and listens, unless its subscription failed
  or an unsubscription that had waited for an older one ran under it (`genericRedisHub.ts:132`).
- `NoOrphanChannel`: an instance without viewers does not stay subscribed, unless a failed subscription deleted the entry of a newer one
  or its UNSUBSCRIBE failed, after which nobody tries again (`genericRedisHub.ts:131`).
- `StaleOnlyInWindows`: when nothing is under way a list shows the record, unless its viewer joined during an update, two
  updates overlapped, one of the accidents above happened, or the last write slipped: when its entry was to be dropped, a version from before it was on
  its way into the cache, or the drop failed, or its request failed before it announced anything. The mutant drops the entry after one of the
  two writes only.
- `NewsNotDropped`: a message on its way to a viewer of another instance, which is subscribed and waits for nothing else, stays on its way until the viewer
  is sent it or leaves, or its publication fails: whoever else comes and goes, the channel is not closed under it.
- `NewsArrives`: and it does arrive.
- `ImplementsChannel`: the hub refines `EventChannel`. There an instance has one log; its own viewers are sent an event when it
  enters the log, those of another instance together and later, or never, but not after an event that follows it in the log. So what a viewer is sent is, for
  every instance, a part of its log in the log's order. The refinement maps `log`, `got` and `stage` to themselves; `Record` adds to every step what it announces.
  The module promises nothing about what arrives: that is `NewsArrives`.

Fairness: Redis answers and forwards, and an instance reads its connection.

The exceptions are real and were found by leaving each of them out. One contradicts a document: a list read before an
update whose channel is confirmed after the announcement stays old although nothing failed (`conversations/stream/route.ts:40`,
against `docs/architecture/architecture_v_0_6.md:743`).

### 7.3 Proofs (`ChannelHub_proofs`, `ConversationFeed_proofs`)

For any instances, viewers and requests, wherever they connect (`At`), and any number of errors, from `HubAssumption`:

- `TypeCorrect`, `HeardUnlessCut` (`DeafOnlyWhenCut`), `ClosedUnlessStray` (`NoOrphanChannel`) and `OnceInOrder` (`DeliveredOnceInOrder`), each as `Spec => []...`;
- `NewsIsKept`: `Spec => NewsNotDropped`;
- `ChannelKept`: `LogSpec => ImplementsChannel`, where `LogSpec` is `Spec` without its fairness and with `log`;
- `FeedIsHub`: `FeedSpec => Spec`, so that all of these hold of the feed;
- `UpToDateOutsideWindows`: `FeedSpec => []StaleOnlyInWindows`;
- `FeedTypeCorrect`: `FeedSpec => []FeedTypeOK` for finitely many requests, as the type bounds versions by twice the number of requests.

The four properties of the hub speak of a quiet instance, or of what was delivered; what makes them inductive is an account of everything
under way. `Channels` is that account for the commands and replies on an instance's connection: a subscription that is not settled is one
command or one reply (`Unsettled`), an instance with viewers listens and is subscribed, or the last thing it asked for is that (`Hearing`), and
whatever Redis holds, or will hold, for an instance has an owner who will unsubscribe (`Closing`). `Order` is the account for
messages: there is a numbering of the requests that rises along what a viewer got, then what its instance has yet to read, then what the
announcing instance has yet to publish. The numbering is a witness of the proof, not a variable: a broadcast takes the next number.

The refinement adds to `Order` that the numbers rise along the logs as well (`Logs`): a message that an instance takes off its connection has a position in
the log of its origin, and nothing that its viewers have of that origin is at this position or a later one (`DeliversLater`). A broadcast is
`Announce`, a delivery `Deliver`, a subscription and a departure `Come` and `Go`, and everything else stutters.

`NewsNotDropped` follows from `DeafOnlyWhenCut`: an instance with a viewer and nothing under way listens (`WayOpen`), so that the head of its connection is delivered; only
a first viewer, a last one or a reply sends a command, and neither can come while the viewer is there and no reply is awaited.

`Fed` joins both with the feed: a viewer that joined outside of an update, on a channel that is its own, shows the record, or an open request
will announce to it, or that news is in the outbox of the one instance or on its way to the other (`UpToDate`). What it announces is the record
because, between a drop and the next write, the cache and whatever is on its way there are (`Current`).

Only model-checked: `NewsArrives`, whose safety part is `NewsNotDropped`.

## 8. GraphPatches and GraphChanges

### 8.1 How the model corresponds to the code

`D` stands for `packages/reg-intel-graph/src/graphChangeDetector.ts`; one filter of one process.

| model | code |
|---|---|
| `graph`, `stamp` | the nodes and edges in Memgraph, a version each; `updated_at` of the nodes |
| `snapshot`, `lastPoll`, `batch`, `listeners` | the maps of the detector for the filter; the patches that wait are kept joined |
| `poll` | polls under way: asked, answered; what they hold of the snapshot |
| `recent` | the throttle of `graphChangeDetectorInstance.ts` |
| `told` | what a page shows that loaded the snapshot and applied the patches (`GraphVisualization.tsx`) |
| `astray`, `missed` | history only: items a page was misled about; changes no later poll will ask for |

`GraphPatches` has the pure parts: `Diff` and `RecentDiff` (full and timestamp polls), `Cap` (applyPatchCaps), `Join` (mergePatchBatch),
`Apply` (the page). `Put`, `Link`, `Delete` are writers; a writer that leaves `updated_at` out is the write service for benefits, reliefs and
sections, whose whitelist in `graphIngressGuard.ts` (324-334) does not have the property. `Start` is the interval, which does not wait for a slow poll; `Run` the query,
whose error becomes an empty graph; `FinishInit`, `FinishRecent`, `FinishFull` the code after the answer; `Emit` the batch timer; `Quiet` the end of
the throttle's 750 ms.

Time is the number of writes: what is stamped after the last write is older than every later one. Two polls left with the same
discarded snapshot share it in the code, which merges in place (D 350-355); here each has its own, and only items already `astray` differ.
Not modelled: keyword filters, stop(), and
the page's own loading and pausing (a page is taken to load what the detector has, as soon as there is something).

### 8.2 Properties and runs

`graph_safety` explores four configurations, timestamp or full polls with or without batches: two nodes and an edge, two more writes, two polls that may
overlap, one failing query where polls are by timestamp and batched, and caps of one node, one edge and two changes, so that cutting happens at once.

- `PatchesAddUp`: what a page shows, with the patches that wait, is the detector's snapshot, but for the items it was misled about: by
  a patch that was throttled or cut, by polls that overlapped, or by a batch that outlived its snapshot or joined an addition with the
  removal of the same item, or of a node of the same edge (`Jumbled`).
- `NothingMissed`: a change that is not in the snapshot will be in the answer to the next timestamp query, unless it set no `updated_at`, fell between
  a query and the noting of its answer (D 359) or into a query that failed.

The exceptions are what the code does, and each was found by leaving it out: removals are never seen by timestamp polls; the second
application of the caps takes the mark of a cut patch away (D 599), and what was cut is never sent again; the batch and the time of the
last poll survive the last unsubscription; a poll under way then brings the snapshot back; two full polls compare with the same snapshot.

No liveness is stated: a page that was misled stays so until a later patch happens to correct it.

### 8.3 Findings

`graph_second_viewer`. The throttle has one time per filter, shared by its subscribers (`graphChangeDetectorInstance.ts:300`): the first listener of
a patch stamps it, and the others drop the same patch. `docs/architecture/graph/change_detection_v_0_6.md:44` says that subscribers are notified.

### 8.4 Proofs (`GraphChanges_proofs`)

For any finite sets of nodes and edges, any caps, pages, polls, configurations, failures and writes, as `Spec => []...`: `TypeCorrect`
(`TypeOK`), `PagesShowSnapshot` (`PatchesAddUp`) and `ChangesAreAskedFor` (`NothingMissed`). The assumptions are that edges run
between nodes and are no nodes, that the caps and the bound on writes are positive, and that the database starts without an edge that lacks a node.

The lemmas on `GraphPatches` come first. `CapCuts`: a capped patch brings nothing that the patch did not have, and one that is not marked as cut is the
whole patch. `DiffCarries` and `RecentCarries`: what the two kinds of poll compute takes every item from its old version to its new one, as a page
applies it (`Carries`). `JoinCarries`: a batch joined with a patch does to an item what both do in turn, unless the item is `Jumbled`.

The invariants are `Shape` (a poll that writes into the snapshot in place has one), `Heeded` (`Clocked`: nothing is stamped, answered or noted in the future;
`Queried`: what an answer still says of the nodes that were not stamped since it was given) and `Served` with `Entire`. `Served` says of every page that
its view with the waiting patches is the snapshot where it is not astray, and that a waiting update is of an item the page has by then
(`Backed`); without the latter a page would drop the update and a later step could not say why. `Entire` keeps edges with their nodes in the graph and
in the answers of full queries: applying the removal of a node takes its edges off a page, which is right only because the diff removes them as well.

The proof attempt corrected the model once. `Jumbled` had only items that a batch both adds and removes. With two edges and caps TLC
refuted `PatchesAddUp` then: an edge is added, later its node is removed, the caps cut the removal of the edge itself, and
the joined batch removes the node before it adds the edge, which the page goes on to show. The run's single edge cannot show it; the theorem covers any number.

## 9. SettingsCache and LlmRouting

### 9.1 How the model corresponds to the code

CachingPolicyStore (`policyStores.ts`) and CachingConversationConfigStore (`conversationConfig.ts`) follow one scheme: a read asks Redis, then the
database, and fills Redis; a write changes the row and drops one key. `SettingsCache` has both, for one tenant and one user; `LlmRouting` adds the router.

| model | code |
|---|---|
| `count`, `level`, `kind`, `age` | the writes in the order in which the database commits them: what each changed, whether it set or deleted it, and how long ago |
| `cache` | the keys of Redis: what write the entry has last seen, the tenant's row it shows (`row`), and its life |
| `call` | reads under way: asking Redis, the database, filling, answered; what each has read |
| `drop` | writers between their commit and the dropping of the key |
| `policy`, `providers`, `outcome` | the policies written, the providers of the router, the provider and mode of a call under way |
| `missed`, `late`, `due` | history only |

A read is `Ask`, `Hit` or `Miss`, `Read` or `ReadFails`, `Fill` or `FillFails`, `Answer`; a write is `Write` or
`WriteUnanswered` (committed, its reply lost), then `Drop` or `DropFails`. deletePolicy drops no key.
The policy and a user's configuration are one row each. A tenant's configuration is not: setTenantConfig upserts with a NULL `user_id`, which the
UNIQUE constraint (SQL 4196) does not compare, and so inserts a row every time; deleteTenantConfig takes them all. `TenantRows` are the rows there after
a write, and `Read` picks any of them (`Shown`), since getConfig orders by level only (`conversationConfig.ts:185`). `Route` is chat and streamChat once the policy is there: `Provider` is
resolveProviderAndModel with the allowlist of `egressClient.ts`, `Mode` is `egressModeResolver.ts`.

Units of time are relative: `Ttl` is the life of an entry, `Patience` the longest a reader takes from the database's answer to the
cache. Nothing in the code bounds the latter; it is an assumption, and `Bound` = Ttl + Patience. Not modelled: models, temperatures, tools and costs, the
sanitizer, streamed chunks, the contents of configurations, and writes that always fail (the default policy of the factory and setGlobalConfig: their
tenant ids are no uuids). `Provider` leaves out streamChat's error for a provider the client does not support and an allowlist that differs from
`providers` (`llmRouter.ts:1404`, 1757-1762); both only turn a routed call into an error.

### 9.2 Properties and run

`routing_safety` explores three instances: "policies" (two calls and two changes of the policy race, with one failing request), "configs" (tenant
and user configurations are read, set and deleted), "resolve" (no time passes, every policy meets every kind of call). Two readers and two writers are the least in
which a fill and a drop can overtake each other in either order; an entry lives for two units, so that it can be read at every age. Readers and writers are symmetric.

- `SettingsTakeHold`: what a call that starts when a write is `Bound` old is answered with, whatever became of the write's key. A write of the policy or
  of a user's configuration: that write or a later one. A deletion of the tenant's configuration: no row that it deleted. A row set for the tenant: some
  row, unless they were deleted later. It is not claimed that the row set last is shown, for the code does not provide for it (9.3).
- `StaleOnlyExcused`: a live entry lacks a write to its own row only if its key is still to be dropped, was not dropped, or the
  write overtook the reader that filled the entry.
- `ObeysRecentPolicy`: every call goes where a policy sends it that was in force less than `Bound` before the call began, in the
  mode that the rule gives: the last of the modes of router, tenant, user and call that is not a forbidden 'off'.

No liveness is stated: the bound on time makes the change take hold.

### 9.3 Where the code differs from its documents

These are in the model, or next to it, without a run.

- `docs/governance/decisions/decisions_v_0_6.md:414` says that a user's policy cannot go beyond the tenant's allowOffMode; `egressModeResolver.ts` takes
  the user's allowance first, and a test affirms it (`AllowsOff`).
- In report-only mode the router sends the sanitized request (a test affirms it), where the same document, line 416, says the original.
- The table's constraint on `egress_mode` (SQL 3771) refuses 'report-only', which the type allows (`SetPolicy`).
- getConfig spreads fields that are `undefined` over those of the lower levels and so erases them, although its comment says that "user overrides
  tenant overrides global defaults"; getConfig is not called by the applications yet.
- UNIQUE (config_level, tenant_id, user_id) does not compare NULLs: every setTenantConfig inserts a further row, and an older one may win, without
  bound in time; `Read` chooses among them, and `SettingsTakeHold` claims no more than holds of them.
- A change of a tenant's configuration drops no user's key, against `docs/development/CACHE_CONTROL.md:277`; only the TTL ends the entry.

### 9.4 Proofs (`LlmRouting_proofs`)

Everything the run checks, for any numbers of readers, writers, writes and errors, any `Ttl` and `Patience`, any policies, options and sets of
providers: `SettingsTakeHoldAlways`, `StalenessIsExcused`, `TypeCorrect`, `RecentPolicyIsObeyed`.

The inductive invariant is `CacheInv /\ RowInv`. `CacheInv` is about ages: a write that a reader on its way to the cache lacks is no older than its way (`ReaderFresh`), so that
the entry it fills satisfies `EntryFresh`: the age of a write the entry lacks and the rest of the entry's life are at most `Bound`. A hit therefore has every write
that is `Bound` old (`ReaderKnows`). `RowInv` says that the tenant's row which a reader or an entry has is one of those `Shown` after the write it has
last seen; it is kept because later writes do not change what was there before them (`RowsStay`), and gives the two claims about the tenant's rows. `EntryExcused` is `StaleOnlyExcused` for one key. `RouterInv` adds `CallObeys`; it rests on `PastIsKept` (what was in force
after write n does not change with later writes) and on `RoutedCallObeys`, which shows for all policies and options that the code's nested
choices (`Provider`, `Mode`) do what the rule in `Obeys` says.

## 10. Not modelled

- Transparent cache and rate limiter: the cache swallows errors and forwards, which `Sessions` and `SettingsCache` have at its use. The limiter
  is one script that Redis runs atomically, or a library's, and lets everything pass when it fails.
- The cached copy of a conversation record (`conversationStores.ts`), but for what the read-back of an update sees of it (`ConversationFeed`, section 7);
  the rest is planned.
- Compaction and snapshots: as wired, a compaction changes no conversation; the job's replaceMessages is commented out, and
  wrapWithCompaction returns a shortened view of the messages it read. What remains is a summary by an LLM.
- Graph ingress and the graph client: tests on one write, and queries with the mapping of their results, without state of their own; what a write leaves
  for the change detector is in section 8.
- Egress guard, prompts, agents, compliance engine, timeline, pricing, estimation, anomalies: text, arithmetic over dates or
  floating-point numbers, or statistics, without shared state.
- The sandbox helper of the core keeps one sandbox id in a module variable: the hazards of section 3 with fewer actors.
- Authorization service, tools, notifications, telemetry, admin hubs, user interfaces, seeds and scripts: a decision per request, dispatch, output,
  or thin wrappers of what is modelled.

## 11. What the checks rest on

The proofs cover safety for all values of the constants: every invariant, action property and refinement that a passing run checks is
a theorem, under the hypotheses named in its section. Where a proof needs induction over data (the tree of paths, sorted lists), it goes through the
least member of a set of counterexamples.

Liveness stays with TLC (`ExpiredCollected`, `RequestCompletes`, `DevicesSettle`, `NewsArrives`), as ENABLED and fairness are outside
what the prover handles. Every run ends with the whole state space of its instance explored.

Assumptions that no module can discharge: Postgres runs a statement or a function as one transaction, Redis answers one command after the other,
a connection keeps the order of what is sent on it, and the code between two awaits is not interrupted.
