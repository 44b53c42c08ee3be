------------------------------ MODULE EventChannel ------------------------------
(***************************************************************************)
(* What the event hub promises to those who watch: every instance has one  *)
(* log of the events it announces.  Its own viewers are sent an event when *)
(* it enters the log; those of another instance are sent it together, at   *)
(* some later time or never, but not after an event that follows it in the *)
(* log, and not again.  Nothing else is ever sent.                         *)
(*                                                                         *)
(* ChannelHub implements this specification, with the log of HubLog.       *)
(***************************************************************************)
EXTENDS Naturals, Sequences

CONSTANTS
    Instances,    \* application instances
    Viewers,      \* connections that watch
    Requests,     \* announcers, one event each
    At            \* the instance of a viewer or a request

VARIABLES
    log,          \* log[i]: what was announced on instance i, in order
    got,          \* got[v]: what viewer v has been sent, in order
    stage         \* how far a viewer is: "new", "in", "gone"

channelVars == <<log, got, stage>>

Watching(i) == {v \in Viewers : At[v] = i /\ stage[v] = "in"}

Sent(i, r) == [v \in Viewers |-> IF v \in Watching(i) THEN Append(got[v], r) ELSE got[v]]

Init ==
    /\ log = [i \in Instances |-> <<>>]
    /\ got = [v \in Viewers |-> <<>>]
    /\ stage = [v \in Viewers |-> "new"]

Come(v) ==
    /\ stage[v] = "new"
    /\ stage' = [stage EXCEPT ![v] = "in"]
    /\ UNCHANGED <<log, got>>

Go(v) ==
    /\ stage[v] = "in"
    /\ stage' = [stage EXCEPT ![v] = "gone"]
    /\ UNCHANGED <<log, got>>

Announce(r) ==
    /\ \A i \in Instances : \A k \in DOMAIN log[i] : log[i][k] # r
    /\ log' = [log EXCEPT ![At[r]] = Append(@, r)]
    /\ got' = Sent(At[r], r)
    /\ UNCHANGED stage

\* Nothing that viewer v was sent is the k-th event of instance i or a later one.
Awaits(v, i, k) ==
    \A a \in DOMAIN got[v], l \in DOMAIN log[i] : got[v][a] = log[i][l] => l < k

\* Instance j sends its viewers the k-th event of instance i.
Deliver(i, k, j) ==
    /\ i # j
    /\ \A v \in Watching(j) : Awaits(v, i, k)
    /\ got' = Sent(j, log[i][k])
    /\ UNCHANGED <<log, stage>>

Next ==
    \/ \E v \in Viewers : Come(v) \/ Go(v)
    \/ \E r \in Requests : Announce(r)
    \/ \E i, j \in Instances : \E k \in DOMAIN log[i] : Deliver(i, k, j)

Spec == Init /\ [][Next]_channelVars
================================================================================
