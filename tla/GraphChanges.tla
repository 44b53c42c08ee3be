---------------------------- MODULE GraphChanges ----------------------------
(***************************************************************************)
(* The graph change detector of one process and one filter: it polls the   *)
(* graph, compares the answer with its snapshot, collects the patches of a *)
(* short window and hands them to the pages that listen.                   *)
(*                                                                         *)
(* A poll asks (Start), the database answers (Run) and the answer is       *)
(* processed (Finish); polls overlap when an answer takes longer than the  *)
(* interval.  Time is the number of writes so far: what is stamped "now"   *)
(* after the last write is older than every later write.                   *)
(***************************************************************************)
EXTENDS GraphPatches, Sequences, SequencesExt

CONSTANTS
    Configs,    \* configurations, each with bounds on open pages and failing queries
    Initial,    \* the items that are in the graph at first
    Viewers,    \* pages with an open stream
    Polls,      \* how many polls may be under way
    MaxWrites,  \* bound on the writes to the graph
    None

ASSUME ConfigsAssumption ==
    Configs \subseteq [timestamps : BOOLEAN, batching : BOOLEAN, pages : Nat, failures : Nat]

\* The database has no edge without its two nodes.
ASSUME InitialAssumption ==
    /\ Initial \subseteq Items
    /\ \A e \in Edges \cap Initial : {Source[e], Target[e]} \subseteq Initial

ASSUME BoundAssumption == MaxWrites \in Nat \ {0}

ASSUME NoneAssumption == None \notin [Items -> Nat]

VARIABLES
    config,     \* useTimestamps and enableBatching, and the bounds
    graph,      \* the items of the filter in the database
    stamp,      \* updated_at of the nodes, 0 for none
    clock,      \* the number of writes so far
    snapshot,   \* what the detector compares with
    lastPoll,   \* the time of the last answer
    poll,       \* the polls under way
    batch,      \* pendingBatches: the patches that wait, joined
    listeners,  \* the subscribed pages, in the order they came
    recent,     \* whether a patch was sent within MIN_MS_BETWEEN_PATCHES
    errors,     \* the number of queries that failed
    told,       \* what a page shows that loaded the snapshot and got the patches
    astray,     \* history: items a page was misled about, and where
    missed      \* history: nodes whose change no later poll will ask for

detector == <<snapshot, lastPoll, poll, batch, listeners, recent>>
history == <<told, astray, missed>>
vars == <<config, graph, stamp, clock, errors, detector, history>>

-----------------------------------------------------------------------------
Idle == [stage |-> "idle", kind |-> "init", since |-> 0, held |-> Empty,
         own |-> FALSE, result |-> Empty, seen |-> 0]

Init ==
    /\ config \in Configs
    /\ graph = [i \in Items |-> IF i \in Initial THEN 1 ELSE 0]
    /\ stamp = [n \in Nodes |-> graph[n]]
    /\ clock = 1
    /\ snapshot = None
    /\ lastPoll = 0
    /\ poll = [p \in Polls |-> Idle]
    /\ batch = NoPatch
    /\ listeners = <<>>
    /\ recent = FALSE
    /\ errors = 0
    /\ told = [v \in Viewers |-> None]
    /\ astray = [v \in Viewers |-> {}]
    /\ missed = {}

Listening == ToSet(listeners)

Now == clock + 1

-----------------------------------------------------------------------------
(* The graph.                                                              *)

\* A writer that does not set updated_at leaves the stamp as it was: the write
\* service never sets it on benefits, reliefs and sections.  Without timestamp
\* queries nothing reads the stamps.
Put(n, stamped) ==
    /\ clock < MaxWrites
    /\ clock' = Now
    /\ graph' = [graph EXCEPT ![n] = Now]
    /\ stamp' = IF stamped /\ config.timestamps THEN [stamp EXCEPT ![n] = Now] ELSE stamp
    /\ UNCHANGED <<config, errors, detector, history>>

Link(e) ==
    /\ clock < MaxWrites
    /\ graph[Source[e]] # 0 /\ graph[Target[e]] # 0
    /\ clock' = Now
    /\ graph' = [graph EXCEPT ![e] = Now]
    /\ UNCHANGED <<config, stamp, errors, detector, history>>

\* DETACH DELETE of a node, or the removal of an edge.
Delete(i) ==
    /\ clock < MaxWrites
    /\ graph[i] # 0
    /\ clock' = Now
    /\ graph' = [j \in Items |-> IF j = i \/ j \in Attached({i} \cap Nodes) THEN 0 ELSE graph[j]]
    /\ stamp' = [n \in Nodes |-> IF n = i THEN 0 ELSE stamp[n]]
    /\ UNCHANGED <<config, errors, detector, history>>

\* Mutant: a change stamped with the very time that was noted is left out.
SinceAfter(time) ==
    LET hit == {n \in Nodes : graph[n] # 0 /\ stamp[n] > time}
        edges == {e \in Edges : graph[e] # 0 /\ Source[e] \in hit}
        found == hit \cup edges \cup {Target[e] : e \in edges}
    IN  [i \in Items |-> IF i \in found THEN graph[i] ELSE 0]

\* Nodes stamped since a time, their edges and the neighbours at their ends.
Since(time) ==
    LET hit == {n \in Nodes : graph[n] # 0 /\ stamp[n] # 0 /\ stamp[n] >= time}
        edges == {e \in Edges : graph[e] # 0 /\ Source[e] \in hit}
        found == hit \cup edges \cup {Target[e] : e \in edges}
    IN  [i \in Items |-> IF i \in found THEN graph[i] ELSE 0]

-----------------------------------------------------------------------------
(* Delivery.                                                               *)

\* subscribeToGraphPatches: the throttle is shared by the pages of a filter, so
\* that the first listener takes the patch and the others lose it.
Passes(v, p) == ~p.truncated /\ ~recent /\ v = Head(listeners)

\* Pages show `shown'; they are misled about the items in `off'.
Show(shown, off) ==
    /\ told' = shown
    /\ astray' = [v \in Viewers |-> IF v \in Listening THEN astray[v] \cup off[v] ELSE {}]

\* A patch is handed to the listeners, one after the other.
Deliver(p, shown, off) ==
    LET gets == {v \in Listening : Passes(v, p) /\ shown[v] # None}
    IN  /\ Show([v \in Viewers |-> IF v \in gets THEN Apply(shown[v], p) ELSE shown[v]],
                [v \in Viewers |-> off \cup (IF v \in gets THEN {} ELSE Touched(p))])
        /\ recent' = (recent \/ (listeners # <<>> /\ ~p.truncated))

\* A page that waited for a snapshot shows it as soon as there is one.
Loaded(new) ==
    [v \in Viewers |-> IF v \in Listening /\ told[v] = None THEN new ELSE told[v]]

\* emitPatchWithBatching, for a poll that leaves the snapshot `new'.
Publish(patch, new, off) ==
    LET cut == Cap(patch)
        strays == off \cup (Touched(patch) \ Touched(cut))
                      \cup (IF snapshot = None THEN Touched(batch) ELSE {})
    IN  \/ /\ Touched(patch) = {} \/ config.batching
           /\ batch' = Join(batch, cut)
           /\ Show(Loaded(new), [v \in Viewers |-> strays])
           /\ UNCHANGED recent
        \/ /\ Touched(patch) # {} /\ ~config.batching
           /\ Deliver(cut, Loaded(new), strays)
           /\ UNCHANGED batch

\* The batch timer: the joined patches are cut once more.
Emit ==
    /\ batch # NoPatch
    /\ LET cut == Cap(batch)
       IN  Deliver(cut, told, Jumbled(batch) \cup (Touched(batch) \ Touched(cut)))
    /\ batch' = NoPatch
    /\ UNCHANGED <<config, graph, stamp, clock, errors, snapshot, lastPoll, poll, listeners, missed>>

\* MIN_MS_BETWEEN_PATCHES has passed.
Quiet ==
    /\ recent
    /\ recent' = FALSE
    /\ UNCHANGED <<config, graph, stamp, clock, errors, snapshot, lastPoll, poll, batch,
                   listeners, history>>

-----------------------------------------------------------------------------
(* Subscriptions.                                                          *)

\* Mutant: the time asked for is one later than the time noted.
AskedLate(kind) ==
    [Idle EXCEPT !.stage = "asked", !.kind = kind,
                 !.since = IF kind = "recent" THEN lastPoll + 1 ELSE 0,
                 !.held = IF kind = "full" THEN snapshot ELSE Empty,
                 !.own = (kind = "recent")]

Asked(kind) ==
    [Idle EXCEPT !.stage = "asked", !.kind = kind,
                 !.since = IF kind = "recent" THEN lastPoll ELSE 0,
                 !.held = IF kind = "full" THEN snapshot ELSE Empty,
                 !.own = (kind = "recent")]

\* The first subscriber of a filter has its snapshot read.
Subscribe(v) ==
    /\ v \notin Listening
    /\ Len(listeners) < config.pages
    /\ listeners' = Append(listeners, v)
    /\ told' = [told EXCEPT ![v] = snapshot]
    /\ astray' = [astray EXCEPT ![v] = IF snapshot = None THEN {} ELSE Touched(batch)]
    /\ \/ snapshot # None /\ UNCHANGED poll
       \/ /\ snapshot = None
          /\ \E p \in Polls : poll[p] = Idle /\ poll' = [poll EXCEPT ![p] = Asked("init")]
    /\ UNCHANGED <<config, graph, stamp, clock, errors, snapshot, lastPoll, batch, recent, missed>>

\* Polls that update the snapshot in place keep it when it is replaced or dropped.
Disown(q) == IF q.own THEN [q EXCEPT !.own = FALSE, !.held = snapshot] ELSE q

\* The last one to leave takes the snapshot along; polls under way keep theirs,
\* and so do the batch and the time of the last poll.
Unsubscribe(v) ==
    /\ \E k \in DOMAIN listeners : listeners[k] = v /\ listeners' = RemoveAt(listeners, k)
    /\ told' = [told EXCEPT ![v] = None]
    /\ astray' = [astray EXCEPT ![v] = {}]
    /\ \/ Listening # {v} /\ UNCHANGED <<snapshot, poll>>
       \/ /\ Listening = {v}
          /\ snapshot' = None
          /\ poll' = [p \in Polls |-> Disown(poll[p])]
    /\ UNCHANGED <<config, graph, stamp, clock, errors, lastPoll, batch, recent, missed>>

-----------------------------------------------------------------------------
(* Polls.                                                                  *)

Kind == IF snapshot = None THEN "init" ELSE IF config.timestamps THEN "recent" ELSE "full"

\* The interval fires while the filter has listeners.
Start(p) ==
    /\ listeners # <<>>
    /\ poll[p] = Idle
    /\ poll' = [poll EXCEPT ![p] = Asked(Kind)]
    /\ UNCHANGED <<config, graph, stamp, clock, errors, snapshot, lastPoll, batch, listeners,
                   recent, history>>

\* The query runs; the query functions turn an error into an empty graph.  `seen'
\* is the time up to which the answer holds the changes that were asked for.
Run(p) ==
    /\ poll[p].stage = "asked"
    /\ \E ok \in BOOLEAN :
          /\ ~ok => errors < config.failures
          /\ errors' = IF ok THEN errors ELSE errors + 1
          /\ poll' = [poll EXCEPT
                ![p].stage = "ran",
                ![p].seen = IF ~config.timestamps THEN 0
                            ELSE IF ok THEN clock ELSE Max({0, poll[p].since - 1}),
                ![p].result = IF ~ok THEN Empty
                              ELSE IF poll[p].kind = "recent" THEN Since(poll[p].since)
                              ELSE graph]
    /\ UNCHANGED <<config, graph, stamp, clock, snapshot, lastPoll, batch, listeners, recent, history>>

\* Nodes whose last change the detector will not ask for again once it has noted
\* the time of this answer: it does not hold the change, or went to a discarded
\* snapshot.
Overlooked(q) ==
    {n \in Nodes :
        \/ stamp[n] > q.seen
        \/ q.kind = "recent" /\ ~q.own /\ stamp[n] >= q.since}

Note(q, new) ==
    /\ lastPoll' = Now
    /\ missed' = IF config.timestamps /\ new # None
                 THEN {n \in missed \cup Overlooked(q) : new[n] # graph[n]} ELSE missed

\* initializeSnapshot publishes nothing: what it changes in a snapshot that is
\* there, or what waits from before it, misleads the pages.
FinishInit(p) ==
    LET q == poll[p]
    IN  /\ q.stage = "ran" /\ q.kind = "init"
        /\ snapshot' = q.result
        /\ LET strays == IF snapshot = None THEN Touched(batch)
                         ELSE {i \in Items : snapshot[i] # q.result[i]}
           IN  Show(Loaded(q.result), [v \in Viewers |-> strays])
        /\ Note(q, q.result)
        /\ poll' = [r \in Polls |-> IF r = p THEN Idle ELSE Disown(poll[r])]
        /\ UNCHANGED <<config, graph, stamp, clock, errors, batch, listeners, recent>>

\* The answer to a timestamp query is compared with the snapshot the poll found,
\* as it is by now, and put into it.
FinishRecent(p) ==
    LET q == poll[p]
        base == IF q.own THEN snapshot ELSE q.held
        patch == RecentDiff(q.result, base)
    IN  /\ q.stage = "ran" /\ q.kind = "recent"
        /\ snapshot' = IF q.own THEN LastOf(base, q.result) ELSE snapshot
        /\ Publish(patch, snapshot', IF q.own THEN {} ELSE Touched(patch))
        /\ Note(q, snapshot')
        /\ poll' = [poll EXCEPT ![p] = Idle]
        /\ UNCHANGED <<config, graph, stamp, clock, errors, listeners>>

\* The answer to a full query is compared with the snapshot of the poll's start.
FinishFull(p) ==
    LET q == poll[p]
    IN  /\ q.stage = "ran" /\ q.kind = "full"
        /\ snapshot' = q.result
        /\ Publish(Diff(q.held, q.result), q.result,
                   IF snapshot = None THEN {} ELSE {i \in Items : snapshot[i] # q.held[i]})
        /\ poll' = [poll EXCEPT ![p] = Idle]
        /\ UNCHANGED <<config, graph, stamp, clock, errors, listeners, lastPoll, missed>>

-----------------------------------------------------------------------------
Next ==
    \/ \E n \in Nodes, stamped \in BOOLEAN : Put(n, stamped)
    \/ \E e \in Edges : Link(e)
    \/ \E i \in Items : Delete(i)
    \/ \E v \in Viewers : Subscribe(v) \/ Unsubscribe(v)
    \/ \E p \in Polls : Start(p) \/ Run(p) \/ FinishInit(p) \/ FinishRecent(p) \/ FinishFull(p)
    \/ Emit
    \/ Quiet

Spec == Init /\ [][Next]_vars

-----------------------------------------------------------------------------
Versions == 0..MaxWrites
Graphs == [Items -> Versions]
Patches == [added : Graphs, updated : Graphs, removed : SUBSET Items, truncated : BOOLEAN]

\* The shape of the state: configuration, graph, polls, patches and pages.
TypeOK ==
    /\ config \in Configs
    /\ graph \in Graphs
    /\ stamp \in [Nodes -> Versions]
    /\ clock \in Versions
    /\ snapshot \in Graphs \cup {None}
    /\ lastPoll \in 0..MaxWrites + 1
    /\ poll \in [Polls -> [stage : {"idle", "asked", "ran"}, kind : {"init", "full", "recent"},
                           since : 0..MaxWrites + 1, held : Graphs, own : BOOLEAN,
                           result : Graphs, seen : Versions]]
    /\ batch \in Patches
    /\ listeners \in Seq(Viewers) /\ IsInjective(listeners)
    /\ recent \in BOOLEAN
    /\ errors \in 0..config.failures
    /\ told \in [Viewers -> Graphs \cup {None}]
    /\ astray \in [Viewers -> SUBSET Items]
    /\ missed \subseteq Nodes

\* Patches add up: what a page shows, with the patches that wait in the batch, is
\* the detector's snapshot, but for the items it was misled about: by a patch it
\* lost (throttled, cut or marked as cut), by polls that overlapped, or by a batch
\* that outlived its snapshot or joined a removal with an addition.
PatchesAddUp ==
    snapshot # None =>
        \A v \in Listening :
            /\ told[v] # None
            /\ \A i \in Items \ (astray[v] \cup Jumbled(batch)) :
                  Apply(told[v], batch)[i] = snapshot[i]

\* A node whose current version the detector does not have will be in the answer
\* to its next timestamp query, but for a change that set no updated_at, fell
\* between a query and the noting of its answer, or into a query that failed.
NothingMissed ==
    config.timestamps /\ snapshot # None =>
        \A n \in Nodes :
            graph[n] # snapshot[n] /\ graph[n] # 0 /\ graph[n] = stamp[n] =>
                stamp[n] >= lastPoll \/ n \in missed

\* Every page that listens is given every patch.
AllServed ==
    [][Emit => \A v \in Listening :
                  told[v] # None => told'[v] = Apply(told[v], batch)]_vars

=============================================================================
