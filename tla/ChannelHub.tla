----------------------------- MODULE ChannelHub -----------------------------
(***************************************************************************)
(* The Redis event hub: how an event announced by one application instance *)
(* reaches the SSE connections that all of them serve.  Every instance     *)
(* keeps its subscribers (LocalSubscriptionManager), the channel it holds  *)
(* for them (ChannelLifecycleManager) and a listener on its Redis          *)
(* connection (IORedisPubSubClient).  A broadcast goes to the subscribers  *)
(* of its own instance at once and is published for the others without     *)
(* waiting.                                                                *)
(*                                                                         *)
(* One key and its channel are modelled; those of different conversations  *)
(* or tenants share nothing but the connections.  A viewer is one SSE      *)
(* connection, a request announces one event.  A Redis connection is first *)
(* in, first out in both directions; a subscription is named by the viewer *)
(* that was the first subscriber.                                          *)
(***************************************************************************)
EXTENDS Naturals, Sequences, SequencesExt

CONSTANTS
    Instances,    \* application instances
    Viewers,      \* SSE connections
    Requests,     \* requests that announce an event
    At,           \* the instance that serves a viewer or a request
    NoViewer,     \* "no channel": the map has no entry
    MaxErrors     \* bound on the Redis commands that fail

ASSUME HubAssumption ==
    /\ At \in [Viewers \cup Requests -> Instances]
    /\ NoViewer \notin Viewers
    /\ MaxErrors \in Nat

VARIABLES
    sent,       \* the requests that have announced their event
    stage,      \* how far a viewer is: "new", "in", "gone"
    got,        \* the events a viewer has been sent, in order
    entry,      \* activeChannels: whose subscription the channel's promise is
    pending,    \* subscriptions whose promise is not settled
    awaited,    \* subscriptions an unsubscription took and waits for
    handling,   \* instances whose Redis client has a listener for the channel
    outbox,     \* publications on their way to Redis
    uplink,     \* commands of the subscriber connection on their way to Redis
    linked,     \* instances Redis has subscribed to the channel
    downlink,   \* replies and messages on their way to an instance
    errors,     \* failed commands so far
    cut,        \* instances whose channel was lost under their viewers
    stray,      \* instances that forgot a subscription they still have
    lost        \* announcements whose publication failed

people == <<sent, stage>>
channel == <<entry, pending, awaited, handling>>
redis == <<outbox, uplink, linked, downlink, errors>>
ghosts == <<cut, stray, lost>>
vars == <<people, got, channel, redis, ghosts>>

Present(i) == {v \in Viewers : At[v] = i /\ stage[v] = "in"}

Subscription(v) == [op |-> "subscribe", by |-> v]
Unsubscription == [op |-> "unsubscribe", by |-> NoViewer]
Settled(v, ok) == [kind |-> IF ok THEN "ok" ELSE "fail", of |-> v]
Message(r) == [kind |-> "message", of |-> r]

Commands == {Subscription(v) : v \in Viewers} \cup {Unsubscription}
Replies == {Settled(v, ok) : v \in Viewers, ok \in BOOLEAN} \cup {Message(r) : r \in Requests}

Init ==
    /\ sent = {}
    /\ stage = [v \in Viewers |-> "new"]
    /\ got = [v \in Viewers |-> <<>>]
    /\ entry = [i \in Instances |-> NoViewer]
    /\ pending = {} /\ awaited = {} /\ handling = {} /\ linked = {}
    /\ outbox = [i \in Instances |-> <<>>]
    /\ uplink = [i \in Instances |-> <<>>]
    /\ downlink = [i \in Instances |-> <<>>]
    /\ errors = 0
    /\ cut = {} /\ stray = {} /\ lost = {}

-----------------------------------------------------------------------------
(* The operations of the hub.                                               *)

\* What the viewers have been sent once r is delivered to those present on i.
Delivered(i, r) ==
    [v \in Viewers |-> IF v \in Present(i) THEN Append(got[v], r) ELSE got[v]]

Broadcast(r) ==
    /\ r \notin sent
    /\ sent' = sent \cup {r}
    /\ got' = Delivered(At[r], r)
    /\ outbox' = [outbox EXCEPT ![At[r]] = Append(@, r)]
    /\ UNCHANGED <<stage, channel, uplink, linked, downlink, errors, ghosts>>

\* Only the first subscriber of the instance asks for the channel, and gets
\* the one there is, if any.
OpenChannel(i, v) ==
    IF Present(i) = {} /\ entry[i] = NoViewer
    THEN /\ entry' = [entry EXCEPT ![i] = v]
         /\ pending' = pending \cup {v}
         /\ handling' = handling \cup {i}
         /\ uplink' = [uplink EXCEPT ![i] = Append(@, Subscription(v))]
         /\ cut' = cut \ {i}
    ELSE UNCHANGED <<entry, pending, handling, uplink, cut>>

Subscribe(v) ==
    /\ stage[v] = "new"
    /\ stage' = [stage EXCEPT ![v] = "in"]
    /\ OpenChannel(At[v], v)
    /\ UNCHANGED <<sent, got, awaited, outbox, linked, downlink, errors, stray, lost>>

\* The client forgets the listener and sends UNSUBSCRIBE, which takes effect whatever
\* subscription was forgotten before.
Unsubscribe(i, left) ==
    /\ handling' = handling \ {i}
    /\ uplink' = [uplink EXCEPT ![i] = Append(@, Unsubscription)]
    /\ cut' = IF left = {} THEN cut ELSE cut \cup {i}
    /\ stray' = stray \ {i}

\* Mutant: a subscription that is not settled is not waited for.
CloseSettled(i) ==
    /\ entry' = [entry EXCEPT ![i] = NoViewer]
    /\ UNCHANGED awaited
    /\ IF entry[i] \in pending \cup {NoViewer} THEN UNCHANGED <<handling, uplink, cut, stray>>
                                               ELSE Unsubscribe(i, {})

\* The last subscriber of an instance takes the channel out of the map, waits
\* for its subscription if that is not settled, and unsubscribes.
CloseChannel(i) ==
    /\ entry' = [entry EXCEPT ![i] = NoViewer]
    /\ IF entry[i] \in pending
       THEN awaited' = awaited \cup {entry[i]} /\ UNCHANGED <<handling, uplink, cut, stray>>
       ELSE /\ UNCHANGED awaited
            /\ IF entry[i] = NoViewer THEN UNCHANGED <<handling, uplink, cut, stray>>
                                      ELSE Unsubscribe(i, {})

\* Mutant: every viewer that leaves closes the channel, the last one or not.
LeaveAny(v) ==
    /\ stage[v] = "in"
    /\ stage' = [stage EXCEPT ![v] = "gone"]
    /\ CloseChannel(At[v])
    /\ UNCHANGED <<sent, got, pending, outbox, linked, downlink, errors, lost>>

Leave(v) ==
    /\ stage[v] = "in"
    /\ stage' = [stage EXCEPT ![v] = "gone"]
    /\ IF Present(At[v]) = {v} THEN CloseChannel(At[v])
                               ELSE UNCHANGED <<entry, awaited, handling, uplink, cut, stray>>
    /\ UNCHANGED <<sent, got, pending, outbox, linked, downlink, errors, lost>>

-----------------------------------------------------------------------------
(* Redis: commands in the order they were sent, replies and messages too.   *)

Reply(i, reply) == downlink' = [downlink EXCEPT ![i] = Append(@, reply)]

Accept(i) ==
    /\ uplink[i] # <<>>
    /\ uplink' = [uplink EXCEPT ![i] = Tail(@)]
    /\ IF Head(uplink[i]) = Unsubscription
       THEN linked' = linked \ {i} /\ UNCHANGED downlink
       ELSE linked' = linked \cup {i} /\ Reply(i, Settled(Head(uplink[i]).by, TRUE))
    /\ UNCHANGED <<people, got, channel, outbox, errors, ghosts>>

\* An unsubscription is on its way to Redis.
Ending(i) == \E k \in DOMAIN uplink[i] : uplink[i][k] = Unsubscription

\* A command fails, because the connection was not there for it: a SUBSCRIBE is answered
\* with the error; a failed UNSUBSCRIBE is logged, and the subscription stays, unless
\* another UNSUBSCRIBE follows.
Refuse(i) ==
    /\ uplink[i] # <<>>
    /\ errors < MaxErrors
    /\ errors' = errors + 1
    /\ uplink' = [uplink EXCEPT ![i] = Tail(@)]
    /\ IF Head(uplink[i]) = Unsubscription
       THEN /\ stray' = IF Ending(i)' THEN stray ELSE stray \cup {i}
            /\ UNCHANGED downlink
       ELSE /\ Reply(i, Settled(Head(uplink[i]).by, FALSE))
            /\ UNCHANGED stray
    /\ UNCHANGED <<people, got, channel, outbox, linked, cut, lost>>

Publish(i) ==
    /\ outbox[i] # <<>>
    /\ outbox' = [outbox EXCEPT ![i] = Tail(@)]
    /\ downlink' = [j \in Instances |->
          IF j \in linked THEN Append(downlink[j], Message(Head(outbox[i]))) ELSE downlink[j]]
    /\ UNCHANGED <<people, got, channel, uplink, linked, errors, ghosts>>

\* A failed PUBLISH is logged.
LosePublication(i) ==
    /\ outbox[i] # <<>>
    /\ errors < MaxErrors
    /\ errors' = errors + 1
    /\ outbox' = [outbox EXCEPT ![i] = Tail(@)]
    /\ lost' = lost \cup {Head(outbox[i])}
    /\ UNCHANGED <<people, got, channel, uplink, linked, downlink, cut, stray>>

-----------------------------------------------------------------------------
(* The instance takes the next reply or message off its connection.         *)

NextIs(i, kind) == downlink[i] # <<>> /\ Head(downlink[i]).kind = kind
Taken(i) == downlink' = [downlink EXCEPT ![i] = Tail(@)]

\* Mutant: the unsubscription that waited is not done with.
ConfirmedTwice(i) ==
    /\ NextIs(i, "ok")
    /\ Taken(i)
    /\ LET v == Head(downlink[i]).of
       IN  /\ pending' = pending \ {v}
           /\ IF v \in awaited THEN Unsubscribe(i, Present(i))
                               ELSE UNCHANGED <<handling, uplink, cut, stray>>
    /\ UNCHANGED <<people, got, entry, awaited, outbox, linked, errors, lost>>

\* The promise of a subscription resolves; an unsubscription that waits for it
\* goes on at once, whoever has subscribed in the meantime.
Confirmed(i) ==
    /\ NextIs(i, "ok")
    /\ Taken(i)
    /\ LET v == Head(downlink[i]).of
       IN  /\ pending' = pending \ {v}
           /\ awaited' = awaited \ {v}
           /\ IF v \in awaited THEN Unsubscribe(i, Present(i))
                               ELSE UNCHANGED <<handling, uplink, cut, stray>>
    /\ UNCHANGED <<people, got, entry, outbox, linked, errors, lost>>

\* The promise rejects: the channel's entry is deleted, by its name; who took
\* the subscription gives up, who subscribed with it stays without a channel.
Failed(i) ==
    /\ NextIs(i, "fail")
    /\ Taken(i)
    /\ LET v == Head(downlink[i]).of
       IN  /\ pending' = pending \ {v}
           /\ awaited' = awaited \ {v}
           /\ entry' = [entry EXCEPT ![i] = NoViewer]
           /\ cut' = IF v \in awaited THEN cut ELSE cut \cup {i}
           /\ stray' = IF entry[i] \in {v, NoViewer} THEN stray ELSE stray \cup {i}
    /\ UNCHANGED <<people, got, handling, outbox, uplink, linked, errors, lost>>

\* Mutant: messages of the own instance are not filtered out.
ReceivedEcho(i) ==
    /\ NextIs(i, "message")
    /\ Taken(i)
    /\ LET r == Head(downlink[i]).of
       IN  got' = IF i \in handling THEN Delivered(i, r) ELSE got
    /\ UNCHANGED <<people, channel, outbox, uplink, linked, errors, ghosts>>

\* Mutant: the filter is the wrong way round.
ReceivedOwn(i) ==
    /\ NextIs(i, "message")
    /\ Taken(i)
    /\ LET r == Head(downlink[i]).of
       IN  got' = IF i \in handling /\ At[r] = i THEN Delivered(i, r) ELSE got
    /\ UNCHANGED <<people, channel, outbox, uplink, linked, errors, ghosts>>

\* A message goes to the listener, which drops what its own instance published.
Received(i) ==
    /\ NextIs(i, "message")
    /\ Taken(i)
    /\ LET r == Head(downlink[i]).of
       IN  got' = IF i \in handling /\ At[r] # i THEN Delivered(i, r) ELSE got
    /\ UNCHANGED <<people, channel, outbox, uplink, linked, errors, ghosts>>

-----------------------------------------------------------------------------
ViewerStep(v) == Subscribe(v) \/ Leave(v)
ClientStep(i) == Confirmed(i) \/ Failed(i) \/ Received(i)
TransportStep(i) == Accept(i) \/ Refuse(i) \/ Publish(i) \/ LosePublication(i) \/ ClientStep(i)

Next ==
    \/ \E r \in Requests : Broadcast(r)
    \/ \E v \in Viewers : ViewerStep(v)
    \/ \E i \in Instances : TransportStep(i)

\* Redis answers and forwards what it is sent, and an instance reads its
\* connection.
Fairness == \A i \in Instances :
    WF_vars(Accept(i)) /\ WF_vars(Publish(i)) /\ WF_vars(ClientStep(i))

Spec == Init /\ [][Next]_vars /\ Fairness

-----------------------------------------------------------------------------
TypeOK ==
    /\ sent \subseteq Requests
    /\ stage \in [Viewers -> {"new", "in", "gone"}]
    /\ got \in [Viewers -> Seq(Requests)]
    /\ entry \in [Instances -> Viewers \cup {NoViewer}]
    /\ pending \subseteq Viewers
    /\ awaited \subseteq pending
    /\ handling \subseteq Instances
    /\ outbox \in [Instances -> Seq(Requests)]
    /\ uplink \in [Instances -> Seq(Commands)]
    /\ linked \subseteq Instances
    /\ downlink \in [Instances -> Seq(Replies)]
    /\ errors \in 0..MaxErrors
    /\ cut \subseteq Instances
    /\ stray \subseteq Instances
    /\ lost \subseteq Requests

\* Nothing is under way between instance i and Redis about its subscription.
Calm(i) ==
    /\ uplink[i] = <<>>
    /\ \A k \in DOMAIN downlink[i] : downlink[i][k].kind = "message"

\* No viewer is sent an event twice, once by its instance and once by
\* Redis or by two subscriptions, and any two viewers are sent the events
\* of one instance in the same order (genericRedisHub.ts:98-115 and 186-206).
DeliveredOnceInOrder == \A v, w \in Viewers :
    /\ IsInjective(got[v])
    /\ \A a, b \in DOMAIN got[v], c, d \in DOMAIN got[w] :
          /\ got[v][a] = got[w][c] /\ got[v][b] = got[w][d]
          /\ At[got[v][a]] = At[got[v][b]]
          => (a < b <=> c < d)

\* An instance with viewers whose commands are all answered is subscribed and
\* listens, unless its own subscription failed or an unsubscription that had
\* waited for an older subscription ran under it (genericRedisHub.ts:126-137).
DeafOnlyWhenCut == \A i \in Instances :
    Present(i) # {} /\ Calm(i) /\ i \notin cut => i \in linked \cap handling

\* An instance without viewers does not stay subscribed, unless a failed subscription
\* deleted the entry of a newer one (channelLifecycleManager.ts:54) or its last UNSUBSCRIBE
\* failed, after the entry and the listener were gone (genericRedisHub.ts:131-136).
NoOrphanChannel == \A i \in Instances :
    Present(i) = {} /\ Calm(i) /\ i \notin stray => i \notin linked

Reached(r, v) == \E k \in DOMAIN got[v] : got[v][k] = r

\* The announcement of r is on its way to viewer v of another instance: it waits to be
\* published, or is on the connection of v's instance, which is subscribed and has nothing
\* else under way.
OnItsWay(r, v) ==
    /\ stage[v] = "in"
    /\ Calm(At[v]) /\ At[v] \in linked \ cut
    /\ \/ \E k \in DOMAIN outbox[At[r]] : outbox[At[r]][k] = r
       \/ \E k \in DOMAIN downlink[At[v]] : downlink[At[v]][k] = Message(r)

NewsKept == \A r \in Requests, v \in Viewers :
    At[r] # At[v] /\ OnItsWay(r, v) =>
        OnItsWay(r, v)' \/ Reached(r, v)' \/ stage'[v] = "gone" \/ r \in lost'

\* What is on its way to a viewer is not dropped: viewers that come to the instance or
\* leave it do not close the channel, or take the listener off it, under the message; the
\* way ends with the viewer being sent it, leaving, or with a failed publication
\* (localSubscriptionManager.ts:25-56, genericRedisHub.ts:98-137).
NewsNotDropped == [][NewsKept]_vars

\* What an instance publishes reaches every viewer of another instance that is subscribed
\* by then, unless the publication fails or the viewer leaves (genericRedisHub.ts:186-206).
NewsArrives == \A r \in Requests, v \in Viewers :
    At[r] # At[v] => (OnItsWay(r, v) ~> Reached(r, v) \/ stage[v] = "gone" \/ r \in lost)

=============================================================================
