--------------------------- MODULE ChannelHub_proofs ---------------------------
(***************************************************************************)
(* Proofs about ChannelHub, for any instances, viewers and requests, and   *)
(* any number of failed commands: the shape of its state, that an instance *)
(* with viewers is deaf only when its channel was cut, that one without    *)
(* viewers keeps no subscription, that every viewer is sent every event    *)
(* once and in the order of its origin, that what is on its way to a       *)
(* viewer stays on it, and that with its log the hub implements            *)
(* EventChannel.                                                           *)
(***************************************************************************)
EXTENDS HubLog, SequenceTheorems, TLAPS

-----------------------------------------------------------------------------
(* Queues.                                                                  *)

\* Appending keeps what is in a queue and puts the new element last.
LEMMA AppendAt ==
    ASSUME NEW S, NEW s \in Seq(S), NEW e \in S
    PROVE  /\ Append(s, e) \in Seq(S)
           /\ Len(s) \in Nat /\ DOMAIN s = 1..Len(s)
           /\ Append(s, e) # <<>> /\ Len(Append(s, e)) = Len(s) + 1
           /\ DOMAIN Append(s, e) = 1..Len(s) + 1
           /\ \A k \in 1..Len(s) : Append(s, e)[k] = s[k]
           /\ Append(s, e)[Len(s) + 1] = e
  BY AppendProperties, LenProperties

\* Taking the head off a queue moves everything else one place forward.
LEMMA TailAt ==
    ASSUME NEW S, NEW s \in Seq(S), s # <<>>
    PROVE  /\ Head(s) \in S /\ Head(s) = s[1] /\ Tail(s) \in Seq(S)
           /\ Len(s) \in Nat \ {0} /\ DOMAIN s = 1..Len(s)
           /\ DOMAIN Tail(s) = 1..Len(s) - 1
           /\ Len(Tail(s)) = Len(s) - 1
           /\ \A k \in 1..Len(s) - 1 : Tail(s)[k] = s[k + 1]
<1>1. Len(s) \in Nat /\ DOMAIN s = 1..Len(s) /\ Len(s) # 0
  BY LenProperties, EmptySeq
<1>2. Tail(s) \in Seq(S) /\ Len(Tail(s)) = Len(s) - 1 /\ Head(s) \in S
  BY HeadTailProperties
<1>3. DOMAIN Tail(s) = 1..Len(s) - 1
  BY <1>2, LenProperties
<1>4. \A k \in 1..Len(s) - 1 : Tail(s)[k] = s[k + 1]
  BY <1>2, HeadTailProperties
<1>5. Head(s) = s[1]
  BY <1>1, HeadTailProperties
<1> QED  BY <1>1, <1>2, <1>3, <1>4, <1>5

\* A command is the unsubscription or the subscription of one viewer.
LEMMA CommandFacts ==
    /\ Unsubscription \in Commands
    /\ \A v \in Viewers : /\ Subscription(v) \in Commands /\ Subscription(v) # Unsubscription
                          /\ Subscription(v).by = v
    /\ \A c \in Commands : c # Unsubscription => c.by \in Viewers /\ c = Subscription(c.by)
  BY HubAssumption DEF Commands, Subscription, Unsubscription

\* A reply settles the subscription of one viewer, or is a message.
LEMMA ReplyFacts ==
    /\ \A v \in Viewers, ok \in BOOLEAN :
          /\ Settled(v, ok) \in Replies /\ Settled(v, ok).of = v
          /\ Settled(v, ok).kind = IF ok THEN "ok" ELSE "fail"
    /\ \A r \in Requests : /\ Message(r) \in Replies /\ Message(r).of = r
                           /\ Message(r).kind = "message"
    /\ \A m \in Replies :
          /\ m.kind \in {"ok", "fail", "message"}
          /\ m.kind = "message" => m.of \in Requests /\ m = Message(m.of)
          /\ m.kind # "message" => m.of \in Viewers
          /\ m.kind = "ok" => m = Settled(m.of, TRUE)
          /\ m.kind = "fail" => m = Settled(m.of, FALSE)
<1>1. \A v \in Viewers, ok \in BOOLEAN :
          /\ Settled(v, ok) \in Replies /\ Settled(v, ok).of = v
          /\ Settled(v, ok).kind = IF ok THEN "ok" ELSE "fail"
  BY DEF Settled, Replies
<1>2. \A r \in Requests : /\ Message(r) \in Replies /\ Message(r).of = r
                          /\ Message(r).kind = "message"
  BY DEF Message, Replies
<1>3. ASSUME NEW m \in Replies
      PROVE  /\ m.kind \in {"ok", "fail", "message"}
             /\ m.kind = "message" => m.of \in Requests /\ m = Message(m.of)
             /\ m.kind # "message" => m.of \in Viewers
             /\ m.kind = "ok" => m = Settled(m.of, TRUE)
             /\ m.kind = "fail" => m = Settled(m.of, FALSE)
  <2>1. (\E v \in Viewers, ok \in BOOLEAN : m = Settled(v, ok)) \/ \E r \in Requests : m = Message(r)
    BY DEF Replies
  <2>2. ASSUME NEW v \in Viewers, NEW ok \in BOOLEAN, m = Settled(v, ok)
        PROVE  /\ m.kind = IF ok THEN "ok" ELSE "fail"
               /\ m.of = v
    BY <2>2 DEF Settled
  <2>3. ASSUME NEW r \in Requests, m = Message(r) PROVE m.kind = "message" /\ m.of = r
    BY <2>3 DEF Message
  <2> QED  BY <2>1, <2>2, <2>3
<1> QED  BY <1>1, <1>2, <1>3

\* The head of a queue of an instance, and what is left when it is taken.
LEMMA UplinkHead ==
    ASSUME TypeOK, NEW i \in Instances, uplink[i] # <<>>
    PROVE  Head(uplink[i]) \in Commands /\ Tail(uplink[i]) \in Seq(Commands)
  BY TailAt DEF TypeOK

\* The reply an instance takes next.
LEMMA DownlinkHead ==
    ASSUME TypeOK, NEW i \in Instances, downlink[i] # <<>>
    PROVE  Head(downlink[i]) \in Replies /\ Tail(downlink[i]) \in Seq(Replies)
  BY TailAt DEF TypeOK

\* The publication of an instance that Redis takes next.
LEMMA OutboxHead ==
    ASSUME TypeOK, NEW i \in Instances, outbox[i] # <<>>
    PROVE  Head(outbox[i]) \in Requests /\ Tail(outbox[i]) \in Seq(Requests)
  BY TailAt DEF TypeOK

-----------------------------------------------------------------------------
(* The shape of the state.                                                  *)

\* Delivering an event appends it to what viewers have been sent.
LEMMA DeliveredType ==
    ASSUME TypeOK, NEW i \in Instances, NEW r \in Requests
    PROVE  Delivered(i, r) \in [Viewers -> Seq(Requests)]
<1>1. \A v \in Viewers : Append(got[v], r) \in Seq(Requests)
  BY AppendAt DEF TypeOK
<1> QED  BY <1>1 DEF Delivered, TypeOK

\* Sending a command keeps the queue a queue of commands.
LEMMA UplinkType ==
    ASSUME TypeOK, NEW i \in Instances, NEW c \in Commands
    PROVE  [uplink EXCEPT ![i] = Append(@, c)] \in [Instances -> Seq(Commands)]
<1>1. Append(uplink[i], c) \in Seq(Commands)
  BY AppendAt DEF TypeOK
<1> QED  BY <1>1 DEF TypeOK

\* So does sending a reply.
LEMMA ReplyType ==
    ASSUME TypeOK, NEW i \in Instances, NEW m \in Replies, Reply(i, m)
    PROVE  downlink' \in [Instances -> Seq(Replies)]
<1>1. Append(downlink[i], m) \in Seq(Replies)
  BY AppendAt DEF TypeOK
<1> QED  BY <1>1 DEF TypeOK, Reply

\* An unsubscription changes what it says it changes.
LEMMA UnsubscribeType ==
    ASSUME TypeOK, NEW i \in Instances, NEW left, Unsubscribe(i, left)
    PROVE  /\ handling' \subseteq Instances /\ cut' \subseteq Instances /\ stray' \subseteq Instances
           /\ uplink' \in [Instances -> Seq(Commands)]
<1>1. uplink' \in [Instances -> Seq(Commands)]
  BY UplinkType, CommandFacts DEF Unsubscribe
<1> QED  BY <1>1 DEF Unsubscribe, TypeOK

\* Every operation keeps the shape of the state.
LEMMA TypeKept == TypeOK /\ [Next]_vars => TypeOK'
<1> SUFFICES ASSUME TypeOK, [Next]_vars PROVE TypeOK'
  OBVIOUS
<1> USE DEF people, channel, redis, ghosts
<1>1. CASE UNCHANGED vars
  BY <1>1 DEF vars, TypeOK
<1>2. ASSUME NEW r \in Requests, Broadcast(r) PROVE TypeOK'
  <2>1. At[r] \in Instances
    BY HubAssumption
  <2>2. Append(outbox[At[r]], r) \in Seq(Requests)
    BY <2>1, AppendAt DEF TypeOK
  <2>3. outbox' \in [Instances -> Seq(Requests)]
    BY <1>2, <2>2 DEF Broadcast, TypeOK
  <2>4. got' \in [Viewers -> Seq(Requests)]
    BY <1>2, <2>1, DeliveredType DEF Broadcast
  <2> QED  BY <1>2, <2>3, <2>4 DEF Broadcast, TypeOK
<1>3. ASSUME NEW v \in Viewers, Subscribe(v) PROVE TypeOK'
  <2>1. At[v] \in Instances /\ Subscription(v) \in Commands
    BY HubAssumption, CommandFacts
  <2>2. uplink' \in [Instances -> Seq(Commands)]
    <3>1. [uplink EXCEPT ![At[v]] = Append(@, Subscription(v))] \in [Instances -> Seq(Commands)]
      BY <2>1, UplinkType
    <3>2. CASE UNCHANGED uplink
      BY <3>2 DEF TypeOK
    <3> QED  BY <1>3, <3>1, <3>2 DEF Subscribe, OpenChannel
  <2>3. /\ entry' \in [Instances -> Viewers \cup {NoViewer}]
        /\ pending' \subseteq Viewers /\ pending \subseteq pending'
        /\ handling' \subseteq Instances /\ cut' \subseteq Instances
    BY ZenonT(60), <1>3, <2>1 DEF Subscribe, OpenChannel, TypeOK
  <2> QED  BY <1>3, <2>2, <2>3 DEF Subscribe, TypeOK
<1>4. ASSUME NEW v \in Viewers, Leave(v) PROVE TypeOK'
  <2>1. At[v] \in Instances
    BY HubAssumption
  <2>2. CASE UNCHANGED <<entry, awaited, handling, uplink, cut, stray>>
    BY <1>4, <2>2 DEF Leave, TypeOK
  <2>3. CASE CloseChannel(At[v])
    <3>1. entry' \in [Instances -> Viewers \cup {NoViewer}]
      BY <2>3 DEF CloseChannel, TypeOK
    <3>2. awaited' \subseteq pending
      BY <2>3 DEF CloseChannel, TypeOK
    <3>3. /\ handling' \subseteq Instances /\ cut' \subseteq Instances /\ stray' \subseteq Instances
          /\ uplink' \in [Instances -> Seq(Commands)]
      <4>1. Unsubscribe(At[v], {}) \/ UNCHANGED <<handling, uplink, cut, stray>>
        BY <2>3 DEF CloseChannel
      <4>2. CASE Unsubscribe(At[v], {})
        BY <2>1, <4>2, UnsubscribeType
      <4>3. CASE UNCHANGED <<handling, uplink, cut, stray>>
        BY <4>3 DEF TypeOK
      <4> QED  BY <4>1, <4>2, <4>3
    <3> QED  BY <1>4, <3>1, <3>2, <3>3 DEF Leave, TypeOK
  <2> QED  BY <1>4, <2>2, <2>3 DEF Leave
<1>5. ASSUME NEW i \in Instances, Accept(i) \/ Refuse(i) PROVE TypeOK'
  <2>1. Head(uplink[i]) \in Commands /\ Tail(uplink[i]) \in Seq(Commands)
    BY <1>5, UplinkHead DEF Accept, Refuse
  <2>2. uplink' \in [Instances -> Seq(Commands)]
    BY <1>5, <2>1 DEF Accept, Refuse, TypeOK
  <2>3. downlink' \in [Instances -> Seq(Replies)]
    <3>1. CASE UNCHANGED downlink
      BY <3>1 DEF TypeOK
    <3>2. ASSUME NEW ok \in BOOLEAN, Reply(i, Settled(Head(uplink[i]).by, ok)),
                 Head(uplink[i]) # Unsubscription
          PROVE  downlink' \in [Instances -> Seq(Replies)]
      BY <2>1, <3>2, CommandFacts, ReplyFacts, ReplyType
    <3> QED  BY <1>5, <3>1, <3>2 DEF Accept, Refuse
  <2>4. errors' \in 0..MaxErrors
    <3>1. MaxErrors \in Nat /\ errors \in 0..MaxErrors
      BY HubAssumption DEF TypeOK
    <3>2. errors' = errors \/ (errors < MaxErrors /\ errors' = errors + 1)
      BY <1>5 DEF Accept, Refuse
    <3> QED  BY <3>1, <3>2
  <2>5. linked' \subseteq Instances /\ stray' \subseteq Instances
    BY <1>5 DEF Accept, Refuse, TypeOK, ghosts
  <2> QED  BY <1>5, <2>2, <2>3, <2>4, <2>5 DEF Accept, Refuse, TypeOK
<1>6. ASSUME NEW i \in Instances, Publish(i) PROVE TypeOK'
  <2>1. Head(outbox[i]) \in Requests /\ Tail(outbox[i]) \in Seq(Requests)
    BY <1>6, OutboxHead DEF Publish
  <2>2. \A j \in Instances : Append(downlink[j], Message(Head(outbox[i]))) \in Seq(Replies)
    BY <2>1, AppendAt, ReplyFacts DEF TypeOK
  <2>3. outbox' \in [Instances -> Seq(Requests)] /\ downlink' \in [Instances -> Seq(Replies)]
    BY <1>6, <2>1, <2>2 DEF Publish, TypeOK
  <2> QED  BY <1>6, <2>3 DEF Publish, TypeOK
<1>7. ASSUME NEW i \in Instances, LosePublication(i) PROVE TypeOK'
  <2>1. Head(outbox[i]) \in Requests /\ Tail(outbox[i]) \in Seq(Requests)
    BY <1>7, OutboxHead DEF LosePublication
  <2>2. errors' \in 0..MaxErrors
    BY <1>7, HubAssumption DEF LosePublication, TypeOK
  <2> QED  BY <1>7, <2>1, <2>2 DEF LosePublication, TypeOK
<1>8. ASSUME NEW i \in Instances, ClientStep(i) PROVE TypeOK'
  <2>1. downlink[i] # <<>> /\ Head(downlink[i]) \in Replies /\ Taken(i)
    BY <1>8, DownlinkHead DEF ClientStep, Confirmed, Failed, Received, NextIs
  <2>2. downlink' \in [Instances -> Seq(Replies)]
    BY <2>1, DownlinkHead DEF Taken, TypeOK
  <2>3. CASE Confirmed(i)
    <3>1. CASE Unsubscribe(i, Present(i))
      BY <2>2, <2>3, <3>1, UnsubscribeType DEF Confirmed, TypeOK
    <3>2. CASE UNCHANGED <<handling, uplink, cut, stray>>
      BY <2>2, <2>3, <3>2 DEF Confirmed, TypeOK
    <3> QED  BY <2>3, <3>1, <3>2 DEF Confirmed
  <2>4. CASE Failed(i)
    BY <2>2, <2>4 DEF Failed, TypeOK
  <2>5. CASE Received(i)
    <3>1. Head(downlink[i]).of \in Requests
      BY <2>1, <2>5, ReplyFacts DEF Received, NextIs
    <3>2. got' \in [Viewers -> Seq(Requests)]
      BY <2>5, <3>1, DeliveredType DEF Received, TypeOK
    <3> QED  BY <2>2, <2>5, <3>2 DEF Received, TypeOK
  <2> QED  BY <1>8, <2>3, <2>4, <2>5 DEF ClientStep
<1> QED
  BY <1>1, <1>2, <1>3, <1>4, <1>5, <1>6, <1>7, <1>8 DEF Next, ViewerStep, TransportStep

\* Nothing has happened yet.
LEMMA TypeInit == Init => TypeOK
  BY HubAssumption, EmptySeq DEF Init, TypeOK

\* The state of the hub always has its shape.
THEOREM TypeCorrect == Spec => []TypeOK
  BY TypeInit, TypeKept, PTL DEF Spec

-----------------------------------------------------------------------------
(* The subscription of an instance.  What makes the three invariants        *)
(* inductive is where the subscription of a viewer can be: every one that   *)
(* is under way belongs to the instance of its viewer and has one command   *)
(* or one reply (Unsettled); an instance with viewers listens and is        *)
(* subscribed, or its subscription is still under way and nobody takes it   *)
(* down (Hearing); and what Redis is subscribed to, or will be, has an owner *)
(* who will unsubscribe (Closing).                                          *)

\* The subscription v is asked for by a command, or answered by a reply.
Asks(c, v) == c = Subscription(v)
Answers(m, v) == m.kind # "message" /\ m.of = v

\* A viewer whose subscription is not settled has subscribed.
Begun == \A v \in pending : stage[v] # "new"

\* The channel of an instance is named by one of its viewers, and there are some.
Named(i) == entry[i] # NoViewer => At[entry[i]] = i /\ Present(i) # {}

\* The one command or reply of a subscription that is not settled.
Unsettled(i) ==
    /\ \A v \in Viewers : \A k \in DOMAIN uplink[i] : Asks(uplink[i][k], v) =>
          /\ At[v] = i /\ v \in pending
          /\ \A l \in DOMAIN uplink[i] : Asks(uplink[i][l], v) => l = k
    /\ \A v \in Viewers : \A k \in DOMAIN downlink[i] : Answers(downlink[i][k], v) =>
          /\ At[v] = i /\ v \in pending
          /\ \A l \in DOMAIN downlink[i] : Answers(downlink[i][l], v) => l = k
          /\ \A l \in DOMAIN uplink[i] : ~Asks(uplink[i][l], v)

\* The last command of an instance asks for a subscription nobody waits to end.
Asking(i) ==
    /\ uplink[i] # <<>>
    /\ \E v \in Viewers \ awaited : Asks(uplink[i][Len(uplink[i])], v)

\* A failure is on its way to an instance, of a subscription nobody waits to end.
Failing(i) ==
    \E v \in Viewers \ awaited : \E k \in DOMAIN downlink[i] : downlink[i][k] = Settled(v, FALSE)

Hearing(i) == Present(i) # {} /\ i \notin cut =>
    /\ i \in handling
    /\ (uplink[i] = <<>> /\ i \in linked) \/ Asking(i) \/ Failing(i)

\* Who will unsubscribe from what v has subscribed to: the channel's entry, or
\* the unsubscription that waits.
Owned(i, v) == At[v] = i /\ (v = entry[i] \/ v \in awaited)

\* An instance has sent an unsubscription after its k-th command.
Ends(i, k) == \E l \in DOMAIN uplink[i] : k < l /\ uplink[i][l] = Unsubscription

\* The subscription v holds, or the reply that says so is on its way.
Holds(i, v) ==
    v \notin pending \/ \E k \in DOMAIN downlink[i] : downlink[i][k] = Settled(v, TRUE)

Closing(i) == i \notin stray =>
    /\ \A v \in Viewers : \A k \in DOMAIN uplink[i] :
          Asks(uplink[i][k], v) => Owned(i, v) \/ Ends(i, k)
    /\ i \in linked /\ ~Ends(i, 0) => \E v \in Viewers : Owned(i, v) /\ Holds(i, v)

Sound(i) == Named(i) /\ Unsettled(i) /\ Hearing(i) /\ Closing(i)

Channels == TypeOK /\ Begun /\ \A i \in Instances : Sound(i)

\* What the step of another instance leaves alone.
Spared(i) ==
    /\ \A v \in Viewers : At[v] = i => /\ stage'[v] = stage[v]
                                       /\ v \in pending' <=> v \in pending
                                       /\ v \in awaited' <=> v \in awaited
    /\ entry'[i] = entry[i] /\ uplink'[i] = uplink[i]
    /\ i \in linked' <=> i \in linked
    /\ i \in handling' <=> i \in handling
    /\ i \in cut' <=> i \in cut
    /\ i \in stray' <=> i \in stray

-----------------------------------------------------------------------------
\* The subscription that a command asks for, or that a reply answers.
LEMMA WhoseIsIt ==
    ASSUME TypeOK, NEW i \in Instances
    PROVE  /\ uplink[i] \in Seq(Commands) /\ downlink[i] \in Seq(Replies)
           /\ Len(uplink[i]) \in Nat /\ DOMAIN uplink[i] = 1..Len(uplink[i])
           /\ Len(downlink[i]) \in Nat /\ DOMAIN downlink[i] = 1..Len(downlink[i])
           /\ \A k \in DOMAIN uplink[i] : uplink[i][k] \in Commands
           /\ \A k \in DOMAIN downlink[i] : downlink[i][k] \in Replies
<1>1. uplink[i] \in Seq(Commands) /\ downlink[i] \in Seq(Replies)
  BY DEF TypeOK
<1>2. /\ Len(uplink[i]) \in Nat /\ DOMAIN uplink[i] = 1..Len(uplink[i])
      /\ Len(downlink[i]) \in Nat /\ DOMAIN downlink[i] = 1..Len(downlink[i])
  BY <1>1, LenProperties
<1> QED  BY <1>1, <1>2, ElementOfSeq

\* Two subscriptions, or a subscription and the unsubscription, are different.
LEMMA Distinct ==
    /\ \A v, w \in Viewers : Asks(Subscription(w), v) <=> v = w
    /\ \A v \in Viewers : ~Asks(Unsubscription, v)
    /\ \A v \in Viewers, m \in Replies :
          Answers(m, v) <=> m = Settled(v, TRUE) \/ m = Settled(v, FALSE)
    /\ \A v \in Viewers, r \in Requests : ~Answers(Message(r), v)
    /\ \A v, w \in Viewers : Settled(v, TRUE) # Settled(w, FALSE)
    /\ \A v, w \in Viewers, ok \in BOOLEAN : Answers(Settled(v, ok), w) <=> v = w
    /\ \A v, w \in Viewers, ok \in BOOLEAN : Settled(v, ok) = Settled(w, ok) => v = w
    /\ \A v \in Viewers, r \in Requests, ok \in BOOLEAN : Settled(v, ok) # Message(r)
<1>1. /\ \A v, w \in Viewers : Asks(Subscription(w), v) <=> v = w
      /\ \A v \in Viewers : ~Asks(Unsubscription, v)
  BY CommandFacts DEF Asks
<1>2. \A v \in Viewers, m \in Replies :
          Answers(m, v) <=> m = Settled(v, TRUE) \/ m = Settled(v, FALSE)
  BY ZenonT(60), ReplyFacts DEF Answers
<1>3. \A v \in Viewers, r \in Requests : ~Answers(Message(r), v)
  BY ReplyFacts DEF Answers
<1>4. \A v, w \in Viewers : Settled(v, TRUE) # Settled(w, FALSE)
  BY DEF Settled
<1>5. \A v, w \in Viewers, ok \in BOOLEAN : Answers(Settled(v, ok), w) <=> v = w
  BY DEF Answers, Settled
<1>6. \A v, w \in Viewers, ok \in BOOLEAN : Settled(v, ok) = Settled(w, ok) => v = w
  BY DEF Settled
<1>7. \A v \in Viewers, r \in Requests, ok \in BOOLEAN : Settled(v, ok) # Message(r)
  BY DEF Settled, Message
<1> QED  BY <1>1, <1>2, <1>3, <1>4, <1>5, <1>6, <1>7

\* A step that leaves an instance alone, but for messages that Redis sends it,
\* leaves its subscription sound.
LEMMA Elsewhere ==
    ASSUME TypeOK, NEW i \in Instances, Sound(i), Spared(i),
           \/ downlink'[i] = downlink[i]
           \/ \E r \in Requests : downlink'[i] = Append(downlink[i], Message(r))
    PROVE  Sound(i)'
<1> USE WhoseIsIt, Distinct
<1>1. Present(i)' = Present(i)
  BY DEF Present, Spared
<1>2. /\ \A k \in DOMAIN downlink[i] : k \in DOMAIN downlink'[i] /\ downlink'[i][k] = downlink[i][k]
      /\ \A k \in DOMAIN downlink'[i], v \in Viewers :
            Answers(downlink'[i][k], v) => k \in DOMAIN downlink[i] /\ downlink'[i][k] = downlink[i][k]
  <2>1. CASE downlink'[i] = downlink[i]
    BY <2>1
  <2>2. ASSUME NEW r \in Requests, downlink'[i] = Append(downlink[i], Message(r))
        PROVE <1>2!1 /\ <1>2!2
    <3>1. /\ DOMAIN downlink'[i] = 1..Len(downlink[i]) + 1
          /\ \A k \in 1..Len(downlink[i]) : downlink'[i][k] = downlink[i][k]
          /\ downlink'[i][Len(downlink[i]) + 1] = Message(r)
      BY <2>2, ReplyFacts, AppendAt
    <3> QED  BY <3>1
  <2> QED  BY <2>1, <2>2
<1>3. Named(i)'
  <2>1. entry[i] # NoViewer => At[entry[i]] = i /\ Present(i) # {}
    BY DEF Sound, Named
  <2> QED  BY <1>1, <2>1 DEF Named, Spared
<1>4. Unsettled(i)'
  <2>1. ASSUME NEW v \in Viewers, NEW k \in DOMAIN uplink[i], Asks(uplink[i][k], v)
        PROVE  /\ At[v] = i /\ v \in pending'
               /\ \A l \in DOMAIN uplink[i] : Asks(uplink[i][l], v) => l = k
    BY <2>1 DEF Sound, Unsettled, Spared
  <2>2. ASSUME NEW v \in Viewers, NEW k \in DOMAIN downlink'[i], Answers(downlink'[i][k], v)
        PROVE  /\ At[v] = i /\ v \in pending'
               /\ \A l \in DOMAIN downlink'[i] : Answers(downlink'[i][l], v) => l = k
               /\ \A l \in DOMAIN uplink[i] : ~Asks(uplink[i][l], v)
    BY <1>2, <2>2 DEF Sound, Unsettled, Spared
  <2>3. uplink'[i] = uplink[i]
    BY DEF Spared
  <2> QED  BY <2>1, <2>2, <2>3 DEF Unsettled, Asks, Answers
<1>5. Hearing(i)'
  <2>1. uplink'[i] = uplink[i]
    BY DEF Spared
  <2>2. Asking(i) => Asking(i)'
    <3>1. uplink[i] # <<>> => Len(uplink[i]) \in DOMAIN uplink[i]
      BY EmptySeq
    <3> QED  BY <2>1, <3>1 DEF Asking, Sound, Unsettled, Spared, Asks
  <2>3. Failing(i) => Failing(i)'
    <3>1. ASSUME NEW v \in Viewers \ awaited, NEW k \in DOMAIN downlink[i],
                 downlink[i][k] = Settled(v, FALSE)
          PROVE  Failing(i)'
      <4>1. At[v] = i
        BY <3>1 DEF Sound, Unsettled
      <4>2. v \notin awaited'
        BY <4>1 DEF Spared
      <4> QED  BY <1>2, <3>1, <4>2 DEF Failing, Settled
    <3> QED  BY <3>1 DEF Failing
  <2> QED  BY <1>1, <2>1, <2>2, <2>3 DEF Sound, Hearing, Spared
<1>6. Closing(i)'
  <2>1. uplink'[i] = uplink[i] /\ (\A k \in Nat : Ends(i, k)' <=> Ends(i, k))
    BY DEF Spared, Ends, Unsubscription
  <2>2. \A v \in Viewers : Owned(i, v)' <=> Owned(i, v)
    BY DEF Spared, Owned
  <2>3. \A v \in Viewers : At[v] = i /\ Holds(i, v) => Holds(i, v)'
    BY <1>2 DEF Spared, Holds, Settled
  <2>4. \A v \in Viewers : Owned(i, v) => At[v] = i
    BY DEF Owned
  <2>5. ASSUME i \notin stray
        PROVE  /\ \A v \in Viewers : \A k \in DOMAIN uplink[i] :
                     Asks(uplink[i][k], v) => Owned(i, v)' \/ Ends(i, k)'
               /\ i \in linked /\ ~Ends(i, 0)' => \E v \in Viewers : Owned(i, v)' /\ Holds(i, v)'
    BY <2>1, <2>2, <2>3, <2>4, <2>5 DEF Sound, Closing
  <2> QED  BY <2>1, <2>5 DEF Closing, Spared, Asks
<1> QED  BY <1>3, <1>4, <1>5, <1>6 DEF Sound
-----------------------------------------------------------------------------
\* A viewer that has not come yet has no subscription anywhere.
LEMMA Unknown ==
    ASSUME TypeOK, Begun, NEW i \in Instances, Sound(i), NEW v \in Viewers, stage[v] = "new"
    PROVE  /\ v \notin pending /\ v \notin awaited
           /\ \A k \in DOMAIN uplink[i] : ~Asks(uplink[i][k], v)
           /\ \A k \in DOMAIN downlink[i] : ~Answers(downlink[i][k], v)
  BY DEF TypeOK, Begun, Sound, Unsettled

\* The first viewer of an instance asks for the channel.
LEMMA OpeningStep ==
    ASSUME TypeOK, Begun, NEW v \in Viewers, Sound(At[v]), Subscribe(v),
           Present(At[v]) = {}, entry[At[v]] = NoViewer
    PROVE  Sound(At[v])'
<1> DEFINE i == At[v]
<1> USE WhoseIsIt, Distinct, CommandFacts
<1>0. i \in Instances /\ v # NoViewer
  BY HubAssumption
<1>1. /\ entry'[i] = v /\ pending' = pending \cup {v} /\ handling' = handling \cup {i}
      /\ cut' = cut \ {i} /\ uplink'[i] = Append(uplink[i], Subscription(v))
      /\ UNCHANGED <<awaited, downlink, linked, stray>>
      /\ stage' = [stage EXCEPT ![v] = "in"]
  BY <1>0 DEF Subscribe, OpenChannel, TypeOK
<1>2. Present(i)' # {}
  <2>1. v \in Present(i)'
    BY <1>1 DEF Present, TypeOK
  <2> QED  BY <2>1
<1>3. /\ DOMAIN uplink'[i] = 1..Len(uplink[i]) + 1 /\ Len(uplink'[i]) = Len(uplink[i]) + 1
      /\ \A k \in 1..Len(uplink[i]) : uplink'[i][k] = uplink[i][k]
      /\ uplink'[i][Len(uplink[i]) + 1] = Subscription(v) /\ uplink'[i] # <<>>
  BY <1>0, <1>1, AppendAt
<1>4. /\ v \notin pending /\ v \notin awaited
      /\ \A k \in DOMAIN uplink[i] : ~Asks(uplink[i][k], v)
      /\ \A k \in DOMAIN downlink[i] : ~Answers(downlink[i][k], v)
  BY <1>0, Unknown DEF Subscribe
<1>5. Named(i)'
  BY <1>1, <1>2 DEF Named
<1>6. Unsettled(i)'
  <2>1. ASSUME NEW w \in Viewers, NEW k \in DOMAIN uplink'[i], Asks(uplink'[i][k], w)
        PROVE  /\ At[w] = i /\ w \in pending'
               /\ \A l \in DOMAIN uplink'[i] : Asks(uplink'[i][l], w) => l = k
    <3>1. CASE k = Len(uplink[i]) + 1
      <4>1. w = v
        BY <1>3, <2>1, <3>1
      <4> QED  BY <1>0, <1>1, <1>3, <1>4, <3>1, <4>1
    <3>2. CASE k \in DOMAIN uplink[i]
      <4>1. Asks(uplink[i][k], w) /\ w # v
        BY <1>0, <1>3, <1>4, <2>1, <3>2
      <4> QED  BY <1>0, <1>1, <1>3, <3>2, <4>1 DEF Sound, Unsettled
    <3> QED  BY <1>0, <1>3, <3>1, <3>2
  <2>2. ASSUME NEW w \in Viewers, NEW k \in DOMAIN downlink[i], Answers(downlink[i][k], w)
        PROVE  /\ At[w] = i /\ w \in pending'
               /\ \A l \in DOMAIN downlink[i] : Answers(downlink[i][l], w) => l = k
               /\ \A l \in DOMAIN uplink'[i] : ~Asks(uplink'[i][l], w)
    <3>1. w # v
      BY <1>4, <2>2
    <3> QED  BY <1>0, <1>1, <1>3, <2>2, <3>1 DEF Sound, Unsettled
  <2> QED  BY <1>1, <2>1, <2>2 DEF Unsettled, Asks, Answers
<1>7. Hearing(i)'
  <2>1. Asking(i)'
    BY <1>1, <1>3, <1>4 DEF Asking, Asks
  <2> QED  BY <1>1, <2>1 DEF Hearing
<1>8. Closing(i)'
  <2>1. \A w \in Viewers : Owned(i, w) => Owned(i, w)'
    BY <1>0, <1>1, HubAssumption DEF Owned
  <2>2. ASSUME NEW k \in Nat, Ends(i, k) PROVE Ends(i, k)'
    <3>1. PICK l \in DOMAIN uplink[i] : k < l /\ uplink[i][l] = Unsubscription
      BY <2>2 DEF Ends
    <3>2. l \in DOMAIN uplink'[i] /\ uplink'[i][l] = Unsubscription
      BY SMTT(30), <1>3, <3>1
    <3> QED  BY <3>1, <3>2 DEF Ends, Unsubscription
  <2>3. Owned(i, v)'
    BY <1>1 DEF Owned
  <2>4. \A w \in Viewers : Owned(i, w) /\ Holds(i, w) => Holds(i, w)'
    <3>1. \A w \in Viewers : Owned(i, w) => w # v
      BY <1>0, <1>4, HubAssumption DEF Owned
    <3> QED  BY <1>1, <3>1 DEF Holds, Settled
  <2>5. ASSUME i \notin stray
        PROVE  /\ \A w \in Viewers : \A k \in DOMAIN uplink'[i] :
                     Asks(uplink'[i][k], w) => Owned(i, w)' \/ Ends(i, k)'
               /\ i \in linked /\ ~Ends(i, 0)' => \E w \in Viewers : Owned(i, w)' /\ Holds(i, w)'
    <3>1. ASSUME NEW w \in Viewers, NEW k \in DOMAIN uplink'[i], Asks(uplink'[i][k], w)
          PROVE  Owned(i, w)' \/ Ends(i, k)'
      <4>1. CASE k = Len(uplink[i]) + 1
        <5>1. w = v
          BY <1>3, <3>1, <4>1
        <5> QED  BY <2>3, <5>1
      <4>2. CASE k \in DOMAIN uplink[i]
        <5>1. Asks(uplink[i][k], w) /\ k \in Nat
          BY <1>0, <1>3, <3>1, <4>2
        <5> QED  BY <2>1, <2>2, <2>5, <4>2, <5>1 DEF Sound, Closing
      <4> QED  BY <1>0, <1>3, <4>1, <4>2
    <3>2. ASSUME i \in linked, ~Ends(i, 0)' PROVE \E w \in Viewers : Owned(i, w)' /\ Holds(i, w)'
      BY <2>1, <2>2, <2>4, <2>5, <3>2 DEF Sound, Closing
    <3> QED  BY <3>1, <3>2
  <2> QED  BY <1>1, <2>5 DEF Closing, Asks
<1> QED  BY <1>5, <1>6, <1>7, <1>8 DEF Sound

\* An unsubscription leaves nothing of the instance without an owner.
LEMMA UnsubscribeStep ==
    ASSUME TypeOK, NEW i \in Instances, Unsettled(i), NEW left, Unsubscribe(i, left),
           left = {} => Present(i)' = {},
           \A v \in Viewers :
              \/ v \in pending' <=> v \in pending
              \/ \A k \in DOMAIN uplink[i] : ~Asks(uplink[i][k], v)
    PROVE  /\ \A v \in Viewers : \A k \in DOMAIN uplink'[i] : Asks(uplink'[i][k], v) =>
                  /\ At[v] = i /\ v \in pending' /\ k \in DOMAIN uplink[i] /\ Asks(uplink[i][k], v)
                  /\ \A l \in DOMAIN uplink'[i] : Asks(uplink'[i][l], v) => l = k
           /\ Hearing(i)' /\ Closing(i)'
<1> USE WhoseIsIt, Distinct, CommandFacts
<1>1. uplink'[i] = Append(uplink[i], Unsubscription)
  BY DEF Unsubscribe, TypeOK
<1>2. /\ DOMAIN uplink'[i] = 1..Len(uplink[i]) + 1
      /\ \A k \in 1..Len(uplink[i]) : uplink'[i][k] = uplink[i][k]
      /\ uplink'[i][Len(uplink[i]) + 1] = Unsubscription
  BY <1>1, AppendAt
<1>3. ASSUME NEW v \in Viewers, NEW k \in DOMAIN uplink'[i], Asks(uplink'[i][k], v)
      PROVE  k \in DOMAIN uplink[i] /\ Asks(uplink[i][k], v)
  BY <1>2, <1>3
<1>4. ASSUME NEW v \in Viewers, NEW k \in DOMAIN uplink'[i], Asks(uplink'[i][k], v)
      PROVE  /\ At[v] = i /\ v \in pending'
             /\ \A l \in DOMAIN uplink'[i] : Asks(uplink'[i][l], v) => l = k
  BY <1>3, <1>4 DEF Unsettled
<1>5. Hearing(i)'
  BY DEF Hearing, Unsubscribe
<1>6. \A k \in 0..Len(uplink[i]) : Ends(i, k)'
  BY <1>2 DEF Ends, Unsubscription
<1>7. Closing(i)'
  BY <1>2, <1>3, <1>6 DEF Closing, Asks
<1> QED  BY <1>3, <1>4, <1>5, <1>7

\* The last viewer of an instance closes the channel.
LEMMA ClosingStep ==
    ASSUME TypeOK, NEW v \in Viewers, Sound(At[v]), Leave(v), Present(At[v]) = {v}
    PROVE  Sound(At[v])'
<1> DEFINE i == At[v]
<1> USE WhoseIsIt, Distinct
<1>0. i \in Instances
  BY HubAssumption
<1>1. /\ CloseChannel(i) /\ stage' = [stage EXCEPT ![v] = "gone"]
      /\ UNCHANGED <<pending, linked, downlink>> /\ entry'[i] = NoViewer
  BY <1>0 DEF Leave, CloseChannel, TypeOK
<1>2. Present(i)' = {}
  BY <1>1 DEF Present, TypeOK
<1>3. Named(i)'
  BY <1>1 DEF Named
<1>4. CASE Unsubscribe(i, {})
  <2>1. Unsettled(i)
    BY DEF Sound
  <2>2. Hearing(i)' /\ Closing(i)'
    BY <1>0, <1>1, <1>2, <1>4, <2>1, UnsubscribeStep
  <2>3. \A w \in Viewers : \A k \in DOMAIN uplink'[i] : Asks(uplink'[i][k], w) =>
                  /\ At[w] = i /\ w \in pending' /\ k \in DOMAIN uplink[i] /\ Asks(uplink[i][k], w)
                  /\ \A l \in DOMAIN uplink'[i] : Asks(uplink'[i][l], w) => l = k
    BY <1>0, <1>1, <1>2, <1>4, <2>1, UnsubscribeStep
  <2>4. Unsettled(i)'
    BY <1>1, <2>1, <2>3 DEF Unsettled, Asks, Answers
  <2> QED  BY <1>3, <2>2, <2>4 DEF Sound
<1>5. CASE /\ UNCHANGED <<handling, uplink, cut, stray>>
           /\ awaited' = awaited \cup {entry[i]} \/ (entry[i] = NoViewer /\ UNCHANGED awaited)
  <2>1. Unsettled(i)'
    BY <1>1, <1>5 DEF Sound, Unsettled, Asks, Answers
  <2>2. Hearing(i)'
    BY <1>2 DEF Hearing
  <2>3. \A w \in Viewers : Owned(i, w) => Owned(i, w)'
    BY <1>5, HubAssumption DEF Owned
  <2>4. \A w \in Viewers : Holds(i, w)' <=> Holds(i, w)
    BY <1>1 DEF Holds, Settled
  <2>5. \A k \in Nat : Ends(i, k)' <=> Ends(i, k)
    BY <1>5 DEF Ends, Unsubscription
  <2>6. ASSUME i \notin stray
        PROVE  /\ \A w \in Viewers : \A k \in DOMAIN uplink[i] :
                     Asks(uplink[i][k], w) => Owned(i, w)' \/ Ends(i, k)'
               /\ i \in linked /\ ~Ends(i, 0)' => \E w \in Viewers : Owned(i, w)' /\ Holds(i, w)'
    BY <1>0, <2>3, <2>4, <2>5, <2>6 DEF Sound, Closing
  <2>7. Closing(i)'
    BY <1>1, <1>5, <2>6 DEF Closing, Asks
  <2> QED  BY <1>3, <2>1, <2>2, <2>7 DEF Sound
<1> QED  BY <1>1, <1>4, <1>5 DEF CloseChannel
\* Redis takes a command and answers it, but for an unsubscription.
LEMMA CommandStep ==
    ASSUME TypeOK, NEW i \in Instances, Sound(i), Accept(i) \/ Refuse(i)
    PROVE  Sound(i)'
<1>0. i \notin stray' => i \notin stray
  BY DEF Accept, Refuse, ghosts
<1>1. /\ uplink[i] # <<>> /\ uplink'[i] = Tail(uplink[i]) /\ Head(uplink[i]) = uplink[i][1]
      /\ Len(uplink[i]) \in Nat \ {0} /\ uplink[i][1] \in Commands
      /\ DOMAIN uplink'[i] = 1..Len(uplink[i]) - 1 /\ Len(uplink'[i]) = Len(uplink[i]) - 1
      /\ \A k \in 1..Len(uplink[i]) - 1 : uplink'[i][k] = uplink[i][k + 1]
      /\ Len(uplink[i]) # 1 => uplink'[i] # <<>>
  <2>1. uplink[i] # <<>> /\ uplink'[i] = Tail(uplink[i])
    BY DEF Accept, Refuse, TypeOK
  <2>2. uplink[i] \in Seq(Commands)
    BY WhoseIsIt
  <2>3. Tail(uplink[i]) \in Seq(Commands) /\ (Len(Tail(uplink[i])) # 0 => Tail(uplink[i]) # <<>>)
    BY <2>1, <2>2, TailAt, EmptySeq
  <2> QED  BY <2>1, <2>2, <2>3, TailAt
<1>2. /\ UNCHANGED <<stage, entry, pending, awaited, handling, cut>>
      /\ Present(i)' = Present(i)
  BY DEF Accept, Refuse, people, channel, ghosts, Present
<1> USE WhoseIsIt, Distinct
<1>3. Named(i)'
  BY <1>2 DEF Sound, Named
<1>4. \A k \in Nat : Ends(i, k + 1) => Ends(i, k)'
  <2>1. ASSUME NEW k \in Nat, NEW l \in DOMAIN uplink[i], k + 1 < l, uplink[i][l] = Unsubscription
        PROVE  Ends(i, k)'
    <3>1. l - 1 \in DOMAIN uplink'[i] /\ k < l - 1 /\ uplink'[i][l - 1] = Unsubscription
      BY <1>1, <2>1
    <3> QED  BY <3>1 DEF Ends, Unsubscription
  <2> QED  BY <2>1 DEF Ends
<1>5. \A w \in Viewers : Owned(i, w)' <=> Owned(i, w)
  BY <1>2 DEF Owned
<1>6. ASSUME NEW w \in Viewers, NEW k \in DOMAIN uplink'[i], Asks(uplink'[i][k], w)
      PROVE  /\ At[w] = i /\ w \in pending'
             /\ \A l \in DOMAIN uplink'[i] : Asks(uplink'[i][l], w) => l = k
  <2>1. k + 1 \in DOMAIN uplink[i] /\ Asks(uplink[i][k + 1], w)
    BY <1>1, <1>6
  <2>2. /\ At[w] = i /\ w \in pending
        /\ \A l \in DOMAIN uplink[i] : Asks(uplink[i][l], w) => l = k + 1
    BY <2>1 DEF Sound, Unsettled
  <2>3. ASSUME NEW l \in DOMAIN uplink'[i], Asks(uplink'[i][l], w) PROVE l = k
    <3>1. l + 1 \in DOMAIN uplink[i] /\ Asks(uplink[i][l + 1], w)
      BY <1>1, <2>3
    <3>2. l + 1 = k + 1
      BY <2>2, <3>1
    <3> QED  BY <1>1, <3>2
  <2> QED  BY <1>2, <2>2, <2>3
<1>7. CASE uplink[i][1] = Unsubscription
  <2>1. downlink'[i] = downlink[i] /\ (i \notin linked' \/ i \in stray' \/ Ends(i, 0)')
    <3>1. Head(uplink[i]) = Unsubscription
      BY <1>1, <1>7
    <3>2. Ending(i)' => Ends(i, 0)'
      BY <1>1 DEF Ending, Ends
    <3> QED  BY <3>1, <3>2 DEF Accept, Refuse
  <2>2. Unsettled(i)'
    <3>2. ASSUME NEW w \in Viewers, NEW k \in DOMAIN downlink[i], Answers(downlink[i][k], w)
          PROVE  /\ At[w] = i /\ w \in pending'
                 /\ \A l \in DOMAIN downlink[i] : Answers(downlink[i][l], w) => l = k
                 /\ \A l \in DOMAIN uplink'[i] : ~Asks(uplink'[i][l], w)
      BY <1>1, <1>2, <3>2 DEF Sound, Unsettled
    <3> QED  BY <2>1, <1>6, <3>2 DEF Unsettled, Asks, Answers
  <2>3. Hearing(i)'
    <3>1. Asking(i) => Asking(i)'
      <4>1. ASSUME NEW w \in Viewers \ awaited, Asks(uplink[i][Len(uplink[i])], w)
            PROVE  Asking(i)'
        <5>1. Len(uplink[i]) # 1
          BY <1>7, <4>1
        <5>2. /\ uplink'[i] # <<>>
              /\ uplink'[i][Len(uplink'[i])] = uplink[i][Len(uplink[i])]
          BY <1>1, <5>1 
        <5> QED  BY <1>2, <4>1, <5>2 DEF Asking, Asks
      <4> QED  BY <4>1 DEF Asking
    <3>2. Failing(i) => Failing(i)'
      BY <1>2, <2>1 DEF Failing, Settled
    <3> QED  BY <1>1, <1>2, <3>1, <3>2 DEF Sound, Hearing
  <2>4. Closing(i)'
    <3>1. ASSUME i \notin stray, NEW w \in Viewers, NEW k \in DOMAIN uplink'[i], Asks(uplink'[i][k], w)
          PROVE  Owned(i, w)' \/ Ends(i, k)'
      BY <1>1, <1>4, <1>5, <3>1 DEF Sound, Closing
    <3> QED  BY ONLY <1>0, <2>1, <3>1 DEF Closing, Asks
  <2> QED  BY <1>3, <2>2, <2>3, <2>4 DEF Sound
<1>8. ASSUME NEW v \in Viewers, uplink[i][1] = Subscription(v) PROVE Sound(i)'
  <2>1. PICK ok \in BOOLEAN : /\ downlink'[i] = Append(downlink[i], Settled(v, ok))
                              /\ ok => i \in linked'
                              /\ ~ok => (i \in linked' <=> i \in linked)
    <3>1. Head(uplink[i]) = Subscription(v) /\ Subscription(v).by = v /\ Subscription(v) # Unsubscription
      BY <1>1, <1>8, CommandFacts
    <3>2. \A m : Reply(i, m) => downlink'[i] = Append(downlink[i], m)
      BY DEF Reply, TypeOK
    <3>3. CASE Accept(i)
      <4>1. linked' = linked \cup {i} /\ Reply(i, Settled(v, TRUE))
        BY <3>1, <3>3 DEF Accept
      <4> QED  BY <3>2, <4>1
    <3>4. CASE Refuse(i)
      <4>1. linked' = linked /\ Reply(i, Settled(v, FALSE))
        BY <3>1, <3>4 DEF Refuse
      <4> QED  BY <3>2, <4>1
    <3> QED  BY <3>3, <3>4
  <2>2. /\ DOMAIN downlink[i] = 1..Len(downlink[i]) /\ Len(downlink[i]) \in Nat
        /\ DOMAIN downlink'[i] = 1..Len(downlink[i]) + 1
        /\ \A k \in 1..Len(downlink[i]) : downlink'[i][k] = downlink[i][k]
        /\ downlink'[i][Len(downlink[i]) + 1] = Settled(v, ok)
    <3>1. Settled(v, ok) \in Replies
      BY ReplyFacts
    <3> QED  BY <2>1, <3>1, AppendAt
  <2>3. /\ At[v] = i /\ v \in pending
        /\ \A k \in DOMAIN uplink[i] : Asks(uplink[i][k], v) => k = 1
        /\ \A k \in DOMAIN downlink[i] : ~Answers(downlink[i][k], v)
    BY <1>1, <1>8 DEF Sound, Unsettled
  <2>4. Unsettled(i)'
    <3>2. ASSUME NEW w \in Viewers, NEW k \in DOMAIN downlink'[i], Answers(downlink'[i][k], w)
          PROVE  /\ At[w] = i /\ w \in pending'
                 /\ \A l \in DOMAIN downlink'[i] : Answers(downlink'[i][l], w) => l = k
                 /\ \A l \in DOMAIN uplink'[i] : ~Asks(uplink'[i][l], w)
      <4>1. CASE k = Len(downlink[i]) + 1
        <5>1. w = v
          BY <2>2, <3>2, <4>1
        <5>2. \A l \in DOMAIN downlink'[i] : Answers(downlink'[i][l], w) => l = k
          BY <2>2, <2>3, <4>1, <5>1
        <5>3. \A l \in DOMAIN uplink'[i] : ~Asks(uplink'[i][l], w)
          <6>1. \A l \in DOMAIN uplink'[i] : l + 1 \in DOMAIN uplink[i] /\ uplink'[i][l] = uplink[i][l + 1]
            BY <1>1
          <6> QED  BY <1>1, <2>3, <5>1, <6>1
        <5> QED  BY <1>2, <2>3, <5>1, <5>2, <5>3
      <4>2. CASE k \in DOMAIN downlink[i]
        <5>1. Answers(downlink[i][k], w) /\ w # v
          BY <2>2, <2>3, <3>2, <4>2
        <5>2. /\ At[w] = i /\ w \in pending
              /\ \A l \in DOMAIN downlink[i] : Answers(downlink[i][l], w) => l = k
              /\ \A l \in DOMAIN uplink[i] : ~Asks(uplink[i][l], w)
          BY <4>2, <5>1 DEF Sound, Unsettled
        <5>3. ~Answers(Settled(v, ok), w)
          BY <5>1
        <5> QED  BY SMTT(30), <1>1, <1>2, <2>2, <5>2, <5>3
      <4> QED  BY <2>2, <4>1, <4>2
    <3> QED  BY <1>6, <3>2 DEF Unsettled, Asks, Answers
  <2>5. Hearing(i)'
    <3>1. Asking(i) => Asking(i)' \/ (uplink'[i] = <<>> /\ (i \in linked' \/ Failing(i)'))
      <4>1. ASSUME NEW w \in Viewers \ awaited, Asks(uplink[i][Len(uplink[i])], w)
            PROVE  Asking(i)' \/ (uplink'[i] = <<>> /\ (i \in linked' \/ Failing(i)'))
        <5>1. CASE Len(uplink[i]) = 1
          <6>1. w = v /\ uplink'[i] = <<>>
            BY <1>1, <1>8, <4>1, <5>1, EmptySeq
          <6>2. ~ok => Failing(i)'
            BY <1>2, <2>2, <4>1, <6>1 DEF Failing, Settled
          <6> QED  BY <2>1, <6>1, <6>2
        <5>2. CASE Len(uplink[i]) # 1
          <6>1. /\ uplink'[i] # <<>>
                /\ uplink'[i][Len(uplink'[i])] = uplink[i][Len(uplink[i])]
            BY <1>1, <5>2
          <6> QED  BY <1>2, <4>1, <6>1 DEF Asking, Asks
        <5> QED  BY <5>1, <5>2
      <4> QED  BY <4>1 DEF Asking
    <3>2. Failing(i) => Failing(i)'
      BY ONLY <1>2, <2>2 DEF Failing, Settled
    <3> QED  BY <1>1, <1>2, <3>1, <3>2 DEF Sound, Hearing
  <2>6. \A w \in Viewers : Holds(i, w) => Holds(i, w)'
    BY ONLY <1>2, <2>2 DEF Holds, Settled
  <2>7. Ends(i, 0) => Ends(i, 1)
    BY <1>1, <1>8 DEF Ends
  <2>8. Closing(i)'
    <3>1. ASSUME i \notin stray, NEW w \in Viewers, NEW k \in DOMAIN uplink'[i], Asks(uplink'[i][k], w)
          PROVE  Owned(i, w)' \/ Ends(i, k)'
      BY <1>1, <1>4, <1>5, <3>1 DEF Sound, Closing
    <3>2. ASSUME i \notin stray, i \in linked', ~Ends(i, 0)'
          PROVE  \E w \in Viewers : Owned(i, w)' /\ Holds(i, w)'
      <4>1. ~Ends(i, 1) /\ ~Ends(i, 0)
        BY <1>4, <2>7, <3>2
      <4>2. CASE ok
        <5>1. Owned(i, v)'
          BY <1>1, <1>5, <1>8, <3>2, <4>1 DEF Sound, Closing
        <5>2. Holds(i, v)'
          BY <2>2, <4>2 DEF Holds, Settled
        <5> QED  BY <5>1, <5>2
      <4>3. CASE ~ok
        BY <1>5, <2>1, <2>6, <3>2, <4>1, <4>3 DEF Sound, Closing
      <4> QED  BY <4>2, <4>3
    <3> QED  BY <1>0, <3>1, <3>2 DEF Closing, Asks
  <2> QED  BY <1>3, <2>4, <2>5, <2>8 DEF Sound
<1> QED  BY <1>1, <1>7, <1>8, CommandFacts
\* What is left of the replies when an instance takes the first.
LEMMA ReplyTaken ==
    ASSUME TypeOK, NEW i \in Instances, Unsettled(i), downlink[i] # <<>>, Taken(i)
    PROVE  /\ Head(downlink[i]) \in Replies
           /\ \A w \in Viewers : Answers(Head(downlink[i]), w) =>
                 At[w] = i /\ w \in pending /\ \A l \in DOMAIN uplink[i] : ~Asks(uplink[i][l], w)
           /\ \A w \in Viewers : \A k \in DOMAIN downlink'[i] : Answers(downlink'[i][k], w) =>
                 /\ ~Answers(Head(downlink[i]), w)
                 /\ At[w] = i /\ w \in pending
                 /\ \A l \in DOMAIN downlink'[i] : Answers(downlink'[i][l], w) => l = k
                 /\ \A l \in DOMAIN uplink[i] : ~Asks(uplink[i][l], w)
           /\ \A k \in DOMAIN downlink[i] : downlink[i][k] # Head(downlink[i]) =>
                 \E l \in DOMAIN downlink'[i] : downlink'[i][l] = downlink[i][k]
           /\ \A w \in Viewers, ok \in BOOLEAN, k \in DOMAIN downlink[i] :
                 downlink[i][k] = Settled(w, ok) /\ Answers(Head(downlink[i]), w) =>
                    Head(downlink[i]) = Settled(w, ok)
<1>1. /\ downlink'[i] = Tail(downlink[i]) /\ Head(downlink[i]) = downlink[i][1]
      /\ Len(downlink[i]) \in Nat \ {0} /\ downlink[i][1] \in Replies
      /\ DOMAIN downlink[i] = 1..Len(downlink[i])
      /\ DOMAIN downlink'[i] = 1..Len(downlink[i]) - 1
      /\ \A k \in 1..Len(downlink[i]) - 1 : downlink'[i][k] = downlink[i][k + 1]
  <2>1. downlink'[i] = Tail(downlink[i])
    BY DEF Taken, TypeOK
  <2>2. downlink[i] \in Seq(Replies)
    BY WhoseIsIt
  <2> QED  BY <2>1, <2>2, TailAt
<1>2. 1 \in DOMAIN downlink[i]
  BY <1>1
<1>3. \A w \in Viewers : Answers(Head(downlink[i]), w) =>
         /\ At[w] = i /\ w \in pending
         /\ \A l \in DOMAIN uplink[i] : ~Asks(uplink[i][l], w)
         /\ \A l \in DOMAIN downlink[i] : Answers(downlink[i][l], w) => l = 1
  BY <1>1, <1>2 DEF Unsettled
<1>4. ASSUME NEW w \in Viewers, NEW k \in DOMAIN downlink'[i], Answers(downlink'[i][k], w)
      PROVE  /\ ~Answers(Head(downlink[i]), w)
             /\ At[w] = i /\ w \in pending
             /\ \A l \in DOMAIN downlink'[i] : Answers(downlink'[i][l], w) => l = k
             /\ \A l \in DOMAIN uplink[i] : ~Asks(uplink[i][l], w)
  <2>1. \A l \in DOMAIN downlink'[i] : l + 1 \in DOMAIN downlink[i] /\ l + 1 # 1 /\ downlink'[i][l] = downlink[i][l + 1]
    BY <1>1
  <2>2. /\ At[w] = i /\ w \in pending
        /\ \A l \in DOMAIN downlink[i] : Answers(downlink[i][l], w) => l = k + 1
        /\ \A l \in DOMAIN uplink[i] : ~Asks(uplink[i][l], w)
    BY <1>4, <2>1 DEF Unsettled
  <2>3. ~Answers(Head(downlink[i]), w)
    BY <1>1, <1>2, <2>1, <2>2
  <2>4. ASSUME NEW l \in DOMAIN downlink'[i], Answers(downlink'[i][l], w) PROVE l = k
    <3>1. l + 1 = k + 1
      BY <2>1, <2>2, <2>4
    <3> QED  BY <1>1, <3>1
  <2> QED  BY <2>2, <2>3, <2>4
<1>5. ASSUME NEW k \in DOMAIN downlink[i], downlink[i][k] # Head(downlink[i])
      PROVE  \E l \in DOMAIN downlink'[i] : downlink'[i][l] = downlink[i][k]
  <2>1. k - 1 \in DOMAIN downlink'[i] /\ downlink'[i][k - 1] = downlink[i][k]
    BY <1>1, <1>5
  <2> QED  BY <2>1
<1>6. ASSUME NEW w \in Viewers, NEW ok \in BOOLEAN, NEW k \in DOMAIN downlink[i],
             downlink[i][k] = Settled(w, ok), Answers(Head(downlink[i]), w)
      PROVE  Head(downlink[i]) = Settled(w, ok)
  <2>1. k = 1
    BY <1>3, <1>6, Distinct
  <2> QED  BY <1>1, <1>6, <2>1
<1> QED  BY <1>1, <1>3, <1>4, <1>5, <1>6

\* A message changes nothing of the subscription.
LEMMA MessageStep ==
    ASSUME TypeOK, NEW i \in Instances, Sound(i), Received(i)
    PROVE  Sound(i)'
<1>1. /\ downlink[i] # <<>> /\ Taken(i) /\ Head(downlink[i]).kind = "message"
      /\ UNCHANGED <<stage, entry, pending, awaited, handling, uplink, linked, cut, stray>>
      /\ Present(i)' = Present(i)
  BY DEF Received, NextIs, people, channel, ghosts, Present
<1>2. \A w \in Viewers, ok \in BOOLEAN : Settled(w, ok) # Head(downlink[i])
  BY <1>1, ReplyFacts
<1>3. Named(i)'
  BY <1>1 DEF Sound, Named
<1>4. Unsettled(i)'
  BY <1>1, ReplyTaken DEF Sound, Unsettled, Asks, Answers
<1>5. \A w \in Viewers, ok \in BOOLEAN :
         (\E k \in DOMAIN downlink[i] : downlink[i][k] = Settled(w, ok)) =>
            \E k \in DOMAIN downlink'[i] : downlink'[i][k] = Settled(w, ok)
  BY <1>1, <1>2, ReplyTaken DEF Sound
<1>6. Hearing(i)'
  <2>1. Asking(i) => Asking(i)'
    BY <1>1 DEF Asking, Asks
  <2>2. Failing(i) => Failing(i)'
    BY <1>1, <1>5 DEF Failing, Settled
  <2> QED  BY <1>1, <2>1, <2>2 DEF Sound, Hearing
<1>7. Closing(i)'
  <2>1. \A w \in Viewers : Holds(i, w) => Holds(i, w)'
    BY <1>1, <1>5 DEF Holds, Settled
  <2>2. \A w \in Viewers : Owned(i, w)' <=> Owned(i, w)
    BY <1>1 DEF Owned
  <2>3. \A k : Ends(i, k)' <=> Ends(i, k)
    BY <1>1 DEF Ends, Unsubscription
  <2> QED  BY <1>1, <2>1, <2>2, <2>3 DEF Sound, Closing, Asks
<1> QED  BY <1>3, <1>4, <1>6, <1>7 DEF Sound

\* The subscription of an instance is confirmed.
LEMMA ConfirmedStep ==
    ASSUME TypeOK, NEW i \in Instances, Sound(i), Confirmed(i)
    PROVE  Sound(i)'
<1> DEFINE m == Head(downlink[i])
           v == m.of
<1>1. /\ downlink[i] # <<>> /\ Taken(i) /\ m.kind = "ok"
      /\ UNCHANGED <<stage, entry, linked>> /\ Present(i)' = Present(i)
      /\ pending' = pending \ {v} /\ awaited' = awaited \ {v}
      /\ IF v \in awaited THEN Unsubscribe(i, Present(i)) ELSE UNCHANGED <<handling, uplink, cut, stray>>
  BY DEF Confirmed, NextIs, people, Present
<1>2. m \in Replies /\ v \in Viewers /\ m = Settled(v, TRUE)
  BY <1>1, DownlinkHead, ReplyFacts
<1>3. /\ At[v] = i /\ \A l \in DOMAIN uplink[i] : ~Asks(uplink[i][l], v)
      /\ \A w \in Viewers : Answers(m, w) <=> w = v
  <2>1. \A w \in Viewers : Answers(m, w) <=> w = v
    BY <1>1 DEF Answers
  <2>2. Unsettled(i)
    BY DEF Sound
  <2> QED  BY <1>1, <1>2, <2>1, <2>2, ReplyTaken
<1> HIDE DEF v, m
<1>4. Named(i)'
  BY <1>1 DEF Sound, Named
<1>5. \A w \in Viewers : w # v => (w \in pending' <=> w \in pending)
  BY <1>1
<1>6. \A w \in Viewers : \A k \in DOMAIN downlink'[i] : Answers(downlink'[i][k], w) =>
         /\ At[w] = i /\ w \in pending'
         /\ \A l \in DOMAIN downlink'[i] : Answers(downlink'[i][l], w) => l = k
         /\ \A l \in DOMAIN uplink[i] : ~Asks(uplink[i][l], w)
  BY <1>1, <1>3, <1>5, ReplyTaken DEF Sound, m
<1>7. CASE v \in awaited
  <2>1. Unsettled(i) /\ Unsubscribe(i, Present(i)) /\ (Present(i) = {} => Present(i)' = {})
    BY <1>1, <1>7 DEF Sound
  <2>2. \A w \in Viewers : \/ w \in pending' <=> w \in pending
                           \/ \A k \in DOMAIN uplink[i] : ~Asks(uplink[i][k], w)
    BY <1>3, <1>5
  <2>3. Hearing(i)' /\ Closing(i)'
    BY <2>1, <2>2, UnsubscribeStep
  <2>4. \A w \in Viewers : \A k \in DOMAIN uplink'[i] : Asks(uplink'[i][k], w) =>
                  /\ At[w] = i /\ w \in pending' /\ k \in DOMAIN uplink[i] /\ Asks(uplink[i][k], w)
                  /\ \A l \in DOMAIN uplink'[i] : Asks(uplink'[i][l], w) => l = k
    BY <2>1, <2>2, UnsubscribeStep
  <2>5. Unsettled(i)'
    BY <1>6, <2>4 DEF Unsettled, Asks, Answers
  <2> QED  BY <1>4, <2>3, <2>5 DEF Sound
<1>8. CASE v \notin awaited
  <2>1. UNCHANGED <<handling, uplink, cut, stray, awaited>>
    BY <1>1, <1>8
  <2>2. Unsettled(i)'
    BY <1>3, <1>5, <1>6, <2>1 DEF Sound, Unsettled, Asks, Answers
  <2>3. \A w \in Viewers, ok \in BOOLEAN : Settled(w, ok) = m => ok /\ w = v
    BY <1>2, Distinct
  <2>4. \A w \in Viewers, ok \in BOOLEAN :
           (\E k \in DOMAIN downlink[i] : downlink[i][k] = Settled(w, ok)) =>
              (ok /\ w = v) \/ \E k \in DOMAIN downlink'[i] : downlink'[i][k] = Settled(w, ok)
    BY <1>1, <2>3, ReplyTaken DEF Sound, m
  <2>5. Hearing(i)'
    <3>1. Asking(i) => Asking(i)'
      BY <2>1 DEF Asking, Asks
    <3>2. Failing(i) => Failing(i)'
      BY <2>1, <2>4 DEF Failing, Settled
    <3> QED  BY <1>1, <2>1, <3>1, <3>2 DEF Sound, Hearing
  <2>6. Closing(i)'
    <3>1. \A w \in Viewers : Holds(i, w) => Holds(i, w)'
      BY <1>1, <2>4 DEF Holds, Settled
    <3>2. \A w \in Viewers : Owned(i, w)' <=> Owned(i, w)
      BY <1>1, <2>1 DEF Owned
    <3>3. \A k : Ends(i, k)' <=> Ends(i, k)
      BY <2>1 DEF Ends, Unsubscription
    <3> QED  BY <1>1, <2>1, <3>1, <3>2, <3>3 DEF Sound, Closing, Asks
  <2> QED  BY <1>4, <2>2, <2>5, <2>6 DEF Sound
<1> QED  BY <1>7, <1>8

\* The subscription of an instance fails.
LEMMA FailedStep ==
    ASSUME TypeOK, NEW i \in Instances, Sound(i), Failed(i)
    PROVE  Sound(i)'
<1> DEFINE m == Head(downlink[i])
           v == m.of
<1>1. /\ downlink[i] # <<>> /\ Taken(i) /\ m.kind = "fail"
      /\ UNCHANGED <<stage, linked, handling, uplink>> /\ Present(i)' = Present(i)
      /\ pending' = pending \ {v} /\ awaited' = awaited \ {v} /\ entry'[i] = NoViewer
      /\ cut' = IF v \in awaited THEN cut ELSE cut \cup {i}
      /\ stray' = IF entry[i] \in {v, NoViewer} THEN stray ELSE stray \cup {i}
  BY DEF Failed, NextIs, people, Present, TypeOK
<1>2. m \in Replies /\ v \in Viewers /\ m = Settled(v, FALSE)
  BY <1>1, DownlinkHead, ReplyFacts
<1>3. /\ At[v] = i /\ v \in pending /\ \A l \in DOMAIN uplink[i] : ~Asks(uplink[i][l], v)
      /\ \A w \in Viewers : Answers(m, w) <=> w = v
  <2>1. \A w \in Viewers : Answers(m, w) <=> w = v
    BY <1>1 DEF Answers
  <2>2. Unsettled(i)
    BY DEF Sound
  <2> QED  BY <1>1, <1>2, <2>1, <2>2, ReplyTaken
<1> HIDE DEF v, m
<1>4. Named(i)'
  BY <1>1 DEF Named
<1>5. \A w \in Viewers : w # v => (w \in pending' <=> w \in pending)
  BY <1>1
<1>6. \A w \in Viewers : \A k \in DOMAIN downlink'[i] : Answers(downlink'[i][k], w) =>
         /\ At[w] = i /\ w \in pending'
         /\ \A l \in DOMAIN downlink'[i] : Answers(downlink'[i][l], w) => l = k
         /\ \A l \in DOMAIN uplink[i] : ~Asks(uplink[i][l], w)
  BY <1>1, <1>3, <1>5, ReplyTaken DEF Sound, m
<1>7. Unsettled(i)'
  BY <1>1, <1>3, <1>5, <1>6 DEF Sound, Unsettled, Asks, Answers
<1>8. \A w \in Viewers, ok \in BOOLEAN : Settled(w, ok) = m => ~ok /\ w = v
  BY <1>2, Distinct
<1>9. \A w \in Viewers, ok \in BOOLEAN :
         (\E k \in DOMAIN downlink[i] : downlink[i][k] = Settled(w, ok)) =>
            w = v \/ \E k \in DOMAIN downlink'[i] : downlink'[i][k] = Settled(w, ok)
  BY <1>1, <1>8, ReplyTaken DEF Sound, m
<1>10. Hearing(i)'
  <2>1. CASE v \notin awaited
    BY <1>1, <2>1 DEF Hearing
  <2>2. CASE v \in awaited
    <3>1. Asking(i) => Asking(i)'
      BY <1>1 DEF Asking, Asks
    <3>2. Failing(i) => Failing(i)'
      BY <1>1, <1>9, <2>2 DEF Failing, Settled
    <3> QED  BY <1>1, <2>2, <3>1, <3>2 DEF Sound, Hearing
  <2> QED  BY <2>1, <2>2
<1>11. Closing(i)'
  <2>1. SUFFICES ASSUME i \notin stray, entry[i] \in {v, NoViewer} PROVE Closing(i)'
    BY <1>1 DEF Closing
  <2>2. \A w \in Viewers : Owned(i, w) /\ w # v => Owned(i, w)'
    BY <1>1, <2>1, HubAssumption DEF Owned
  <2>3. ~Holds(i, v)
    <3>1. ASSUME NEW k \in DOMAIN downlink[i], downlink[i][k] = Settled(v, TRUE) PROVE FALSE
      <4>1. m = Settled(v, TRUE)
        <5>1. Unsettled(i) /\ Answers(m, v) /\ TRUE \in BOOLEAN
          BY <1>2, <1>3 DEF Sound
        <5> QED  BY <1>1, <1>2, <3>1, <5>1, ReplyTaken DEF m
      <4> QED  BY <1>2, <4>1, Distinct
    <3> QED  BY <1>3, <3>1 DEF Holds
  <2>4. \A w \in Viewers : Holds(i, w) => Holds(i, w)'
    BY <1>1, <1>9, <2>3 DEF Holds, Settled
  <2>5. \A k : Ends(i, k)' <=> Ends(i, k)
    BY <1>1 DEF Ends, Unsubscription
  <2>6. \A w \in Viewers : \A k \in DOMAIN uplink[i] :
           Asks(uplink[i][k], w) => Owned(i, w)' \/ Ends(i, k)'
    BY <1>3, <2>1, <2>2, <2>5 DEF Sound, Closing
  <2>7. i \in linked /\ ~Ends(i, 0)' => \E w \in Viewers : Owned(i, w)' /\ Holds(i, w)'
    BY <2>1, <2>2, <2>3, <2>4, <2>5 DEF Sound, Closing
  <2> QED  BY <1>1, <2>6, <2>7 DEF Closing, Asks
<1> QED  BY <1>4, <1>7, <1>10, <1>11 DEF Sound
\* Viewers that come to an instance that has some, or leave some behind, change
\* nothing of its channel.
LEMMA CrowdStep ==
    ASSUME NEW i \in Instances, Sound(i),
           UNCHANGED <<channel, uplink, linked, downlink, cut, stray>>,
           Present(i) # {}, Present(i)' # {}
    PROVE  Sound(i)'
<1> USE DEF channel
<1>1. Named(i)'
  BY DEF Sound, Named
<1>2. Unsettled(i)'
  BY DEF Sound, Unsettled, Asks, Answers
<1>3. Hearing(i)'
  <2>1. (Asking(i) => Asking(i)') /\ (Failing(i) => Failing(i)')
    BY DEF Asking, Asks, Failing, Settled
  <2> QED  BY <2>1 DEF Sound, Hearing
<1>4. Closing(i)'
  <2>1. /\ \A w \in Viewers : Owned(i, w)' <=> Owned(i, w)
        /\ \A k : Ends(i, k)' <=> Ends(i, k)
    BY DEF Owned, Ends, Unsubscription
  <2>2. \A w \in Viewers : Holds(i, w)' <=> Holds(i, w)
    BY DEF Holds, Settled
  <2> QED  BY <2>1, <2>2 DEF Sound, Closing, Asks
<1> QED  BY <1>1, <1>2, <1>3, <1>4 DEF Sound

\* A viewer comes or goes.
LEMMA ViewerKeepsSound ==
    ASSUME Channels, NEW v \in Viewers, ViewerStep(v), NEW i \in Instances
    PROVE  Sound(i)'
<1> USE HubAssumption
<1>0. TypeOK /\ Begun /\ Sound(i) /\ Sound(At[v]) /\ At[v] \in Instances
  BY DEF Channels
<1>1. CASE i # At[v]
  <2>1. CASE Subscribe(v)
    <3>1. Spared(i)
      BY <1>0, <1>1, <2>1 DEF Subscribe, OpenChannel, Spared, TypeOK
    <3> QED  BY <1>0, <2>1, <3>1, Elsewhere DEF Subscribe
  <2>2. CASE Leave(v)
    <3>1. stage' = [stage EXCEPT ![v] = "gone"] /\ UNCHANGED <<pending, linked, downlink>>
      BY <2>2 DEF Leave
    <3>2. CASE UNCHANGED <<entry, awaited, handling, uplink, cut, stray>>
      <4>1. Spared(i)
        BY <1>0, <1>1, <3>1, <3>2 DEF Spared, TypeOK
      <4> QED  BY <1>0, <3>1, <4>1, Elsewhere
    <3>3. CASE CloseChannel(At[v])
      <4>1. entry'[i] = entry[i]
        BY <1>0, <1>1, <3>3 DEF CloseChannel, TypeOK
      <4>2. \A w \in Viewers : At[w] = i => (w \in awaited' <=> w \in awaited)
        <5>1. awaited' = awaited \/ (awaited' = awaited \cup {entry[At[v]]} /\ entry[At[v]] \in pending)
          BY <3>3 DEF CloseChannel
        <5>2. entry[At[v]] \in pending => At[entry[At[v]]] = At[v]
          BY <1>0 DEF Sound, Named, TypeOK
        <5> QED  BY <1>1, <5>1, <5>2
      <4>3. /\ uplink'[i] = uplink[i] /\ (i \in handling' <=> i \in handling)
            /\ (i \in cut' <=> i \in cut) /\ (i \in stray' <=> i \in stray)
        <5>1. UNCHANGED <<handling, uplink, cut, stray>> \/ Unsubscribe(At[v], {})
          BY <3>3 DEF CloseChannel
        <5> QED  BY <1>0, <1>1, <5>1 DEF Unsubscribe, TypeOK
      <4>4. Spared(i)
        BY <1>1, <3>1, <4>1, <4>2, <4>3 DEF Spared, TypeOK
      <4> QED  BY <1>0, <3>1, <4>4, Elsewhere
    <3> QED  BY <2>2, <3>2, <3>3 DEF Leave
  <2> QED  BY <2>1, <2>2 DEF ViewerStep
<1>2. CASE i = At[v] /\ Subscribe(v)
  <2>1. CASE Present(i) = {} /\ entry[i] = NoViewer
    BY <1>0, <1>2, <2>1, OpeningStep
  <2>2. CASE ~(Present(i) = {} /\ entry[i] = NoViewer)
    <3>1. Present(i) # {}
      BY <1>0, <2>2 DEF Sound, Named
    <3>2. Present(i)' # {}
      <4>1. v \in Present(i)'
        BY <1>0, <1>2 DEF Subscribe, Present, TypeOK
      <4> QED  BY <4>1
    <3>3. UNCHANGED <<channel, uplink, linked, downlink, cut, stray>>
      BY <1>2, <2>2 DEF Subscribe, OpenChannel, channel
    <3> QED  BY <1>0, <3>1, <3>2, <3>3, CrowdStep
  <2> QED  BY <2>1, <2>2
<1>3. CASE i = At[v] /\ Leave(v)
  <2>1. CASE Present(i) = {v}
    BY <1>0, <1>3, <2>1, ClosingStep
  <2>2. CASE Present(i) # {v}
    <3>1. v \in Present(i)
      BY <1>3 DEF Leave, Present
    <3>2. PICK w \in Present(i) : w # v
      BY <2>2, <3>1
    <3>3. w \in Present(i)'
      BY <1>0, <1>3, <3>2 DEF Leave, Present, TypeOK
    <3>4. UNCHANGED <<channel, uplink, linked, downlink, cut, stray>>
      BY <1>3, <2>2 DEF Leave, channel
    <3> QED  BY <1>0, <3>1, <3>3, <3>4, CrowdStep
  <2> QED  BY <2>1, <2>2
<1> QED  BY <1>1, <1>2, <1>3 DEF ViewerStep

\* Redis or an instance takes the next command, publication, reply or message.
LEMMA TransportKeepsSound ==
    ASSUME Channels, NEW j \in Instances, TransportStep(j), NEW i \in Instances
    PROVE  Sound(i)'
<1>0. TypeOK /\ Begun /\ Sound(i) /\ Sound(j)
  BY DEF Channels
<1>1. CASE Publish(j)
  <2>1. Spared(i)
    BY <1>1 DEF Publish, Spared, people, channel, ghosts
  <2>2. Head(outbox[j]) \in Requests
    BY <1>0, <1>1, OutboxHead DEF Publish
  <2>3. \/ downlink'[i] = downlink[i]
        \/ downlink'[i] = Append(downlink[i], Message(Head(outbox[j])))
    BY <1>1 DEF Publish
  <2> QED  BY <1>0, <2>1, <2>2, <2>3, Elsewhere
<1>2. CASE LosePublication(j)
  <2>1. Spared(i) /\ downlink'[i] = downlink[i]
    BY <1>2 DEF LosePublication, Spared, people, channel
  <2> QED  BY <1>0, <2>1, Elsewhere
<1>3. CASE i = j /\ (Accept(j) \/ Refuse(j) \/ ClientStep(j))
  BY <1>0, <1>3, CommandStep, ConfirmedStep, FailedStep, MessageStep DEF ClientStep
<1>4. CASE i # j /\ (Accept(j) \/ Refuse(j))
  <2>1. Spared(i)
    BY <1>0, <1>4 DEF Accept, Refuse, Spared, people, channel, ghosts, TypeOK
  <2>2. downlink'[i] = downlink[i]
    BY <1>0, <1>4 DEF Accept, Refuse, Reply, TypeOK
  <2> QED  BY <1>0, <2>1, <2>2, Elsewhere
<1>5. CASE i # j /\ ClientStep(j)
  <2>1. downlink[j] # <<>> /\ downlink'[i] = downlink[i]
    BY <1>0, <1>5 DEF ClientStep, Confirmed, Failed, Received, NextIs, Taken, TypeOK
  <2>2. CASE Received(j)
    <3>1. Spared(i)
      BY <2>2 DEF Received, Spared, people, channel, ghosts
    <3> QED  BY <1>0, <2>1, <3>1, Elsewhere
  <2>3. CASE Confirmed(j) \/ Failed(j)
    <3>1. Taken(j) /\ Head(downlink[j]).kind # "message"
      BY <2>3 DEF Confirmed, Failed, NextIs
    <3>2. Head(downlink[j]).of \in Viewers /\ Answers(Head(downlink[j]), Head(downlink[j]).of)
      BY <1>0, <2>1, <3>1, DownlinkHead, ReplyFacts DEF Answers
    <3>3. At[Head(downlink[j]).of] = j
      BY <1>0, <2>1, <3>1, <3>2, ReplyTaken DEF Sound
    <3>4. \A w \in Viewers : At[w] = i => /\ w \in pending' <=> w \in pending
                                          /\ w \in awaited' <=> w \in awaited
      BY <1>5, <2>3, <3>3 DEF Confirmed, Failed
    <3>5. CASE Failed(j)
      <4>1. Spared(i)
        <5>1. /\ UNCHANGED <<stage, linked, handling, uplink>> /\ entry'[i] = entry[i]
              /\ (i \in cut' <=> i \in cut) /\ (i \in stray' <=> i \in stray)
          BY <1>0, <1>5, <3>5 DEF Failed, people, TypeOK
        <5> QED  BY <3>4, <5>1 DEF Spared
      <4> QED  BY <1>0, <2>1, <4>1, Elsewhere
    <3>6. CASE Confirmed(j)
      <4>1. UNCHANGED <<handling, uplink, cut, stray>> \/ Unsubscribe(j, Present(j))
        BY <3>6 DEF Confirmed
      <4>2. /\ uplink'[i] = uplink[i] /\ (i \in handling' <=> i \in handling)
            /\ (i \in cut' <=> i \in cut) /\ (i \in stray' <=> i \in stray)
        BY <1>0, <1>5, <4>1 DEF Unsubscribe, TypeOK
      <4>3. Spared(i)
        <5>1. UNCHANGED <<stage, linked, entry>>
          BY <3>6 DEF Confirmed, people
        <5> QED  BY <3>4, <4>2, <5>1 DEF Spared
      <4> QED  BY <1>0, <2>1, <4>3, Elsewhere
    <3> QED  BY <2>3, <3>5, <3>6
  <2> QED  BY <1>5, <2>2, <2>3 DEF ClientStep
<1> QED  BY <1>1, <1>2, <1>3, <1>4, <1>5 DEF TransportStep

\* Every operation keeps the subscriptions sound.
LEMMA ChannelsKept == Channels /\ [Next]_vars => Channels'
<1> SUFFICES ASSUME Channels, [Next]_vars PROVE Channels'
  OBVIOUS
<1>1. TypeOK'
  BY TypeKept DEF Channels
<1>2. Begun'
  <2>1. ASSUME NEW v \in Viewers, v \in pending', ~(v \in pending)
        PROVE  stage'[v] # "new"
    <3>1. CASE UNCHANGED vars
      BY <2>1, <3>1 DEF vars, channel
    <3>2. ASSUME NEW w \in Viewers, Subscribe(w) PROVE stage'[v] # "new"
      <4>1. v = w
        BY <2>1, <3>2 DEF Subscribe, OpenChannel
      <4> QED  BY <3>2, <4>1 DEF Subscribe, Channels, TypeOK
    <3>3. ASSUME NEW w \in Viewers, Leave(w) PROVE FALSE
      BY <2>1, <3>3 DEF Leave
    <3>4. ASSUME NEW r \in Requests, Broadcast(r) PROVE FALSE
      BY <2>1, <3>4 DEF Broadcast, channel
    <3>5. ASSUME NEW i \in Instances, TransportStep(i) PROVE FALSE
      BY <2>1, <3>5 DEF TransportStep, ClientStep, Accept, Refuse, Publish, LosePublication,
                        Confirmed, Failed, Received, channel
    <3> QED  BY <3>1, <3>2, <3>3, <3>4, <3>5 DEF Next, ViewerStep
  <2>2. ASSUME NEW v \in Viewers, stage[v] # "new" PROVE stage'[v] # "new"
    <3>1. \/ UNCHANGED stage
          \/ \E w \in Viewers : \/ stage' = [stage EXCEPT ![w] = "in"]
                                \/ stage' = [stage EXCEPT ![w] = "gone"]
      BY DEF Next, ViewerStep, TransportStep, ClientStep, Broadcast, Subscribe, Leave, Accept, Refuse,
             Publish, LosePublication, Confirmed, Failed, Received, vars, people
    <3> QED  BY <2>2, <3>1 DEF Channels, TypeOK
  <2> QED  BY <1>1, <2>1, <2>2 DEF Channels, Begun, TypeOK
<1>3. ASSUME NEW i \in Instances PROVE Sound(i)'
  <2>0. TypeOK /\ Sound(i)
    BY DEF Channels
  <2>1. CASE UNCHANGED vars
    <3>1. Spared(i) /\ downlink'[i] = downlink[i]
      BY <2>1 DEF vars, people, channel, redis, ghosts, Spared
    <3> QED  BY <2>0, <3>1, Elsewhere
  <2>2. ASSUME NEW r \in Requests, Broadcast(r) PROVE Sound(i)'
    <3>1. Spared(i) /\ downlink'[i] = downlink[i]
      BY <2>2 DEF Broadcast, channel, ghosts, Spared
    <3> QED  BY <2>0, <3>1, Elsewhere
  <2>3. ASSUME NEW v \in Viewers, ViewerStep(v) PROVE Sound(i)'
    BY <2>3, ViewerKeepsSound
  <2>4. ASSUME NEW j \in Instances, TransportStep(j) PROVE Sound(i)'
    BY <2>4, TransportKeepsSound
  <2> QED  BY <2>1, <2>2, <2>3, <2>4 DEF Next
<1> QED  BY <1>1, <1>2, <1>3 DEF Channels

\* Nobody has come yet.
LEMMA ChannelsInit == Init => Channels
<1> SUFFICES ASSUME Init PROVE Channels
  OBVIOUS
<1>1. TypeOK
  BY TypeInit
<1>2. ASSUME NEW i \in Instances PROVE Sound(i)
  <2>1. entry[i] = NoViewer /\ Present(i) = {} /\ i \notin linked
    BY DEF Init, Present
  <2>2. DOMAIN uplink[i] = {} /\ DOMAIN downlink[i] = {}
    BY DEF Init
  <2> QED  BY <2>1, <2>2 DEF Sound, Named, Unsettled, Hearing, Closing
<1> QED  BY <1>1, <1>2 DEF Channels, Begun, Init

\* The subscriptions of the instances are sound in every state.
LEMMA AlwaysChannels == Spec => []Channels
  BY ChannelsInit, ChannelsKept, PTL DEF Spec

\* An instance with viewers that waits for nothing has nobody else's subscription
\* or failure under way, so it is subscribed and listens.
LEMMA HeardNow == Channels => DeafOnlyWhenCut
<1> SUFFICES ASSUME Channels, NEW i \in Instances, Present(i) # {}, Calm(i), i \notin cut
             PROVE  i \in linked \cap handling
  BY DEF DeafOnlyWhenCut
<1>1. uplink[i] = <<>>
  BY DEF Calm
<1>2. ~Asking(i)
  BY <1>1 DEF Asking
<1>3. ~Failing(i)
  <2>1. ASSUME NEW v \in Viewers, NEW k \in DOMAIN downlink[i], downlink[i][k] = Settled(v, FALSE)
        PROVE  FALSE
    <3>1. downlink[i][k].kind = "fail"
      BY <2>1 DEF Settled
    <3> QED  BY <3>1 DEF Calm
  <2> QED  BY <2>1 DEF Failing
<1> QED  BY <1>2, <1>3 DEF Channels, Sound, Hearing

\* An instance with viewers that waits for nothing is subscribed and listens,
\* unless its channel was cut under them: its first viewer asked for the channel
\* and nobody else can have closed it (genericRedisHub.ts:126-137).
THEOREM HeardUnlessCut == Spec => []DeafOnlyWhenCut
  BY HeardNow, AlwaysChannels, PTL

\* An instance without viewers that waits for nothing is not subscribed, unless it
\* forgot a subscription or its last UNSUBSCRIBE failed: what Redis holds for it has an
\* owner, and without viewers that is an unsubscription that waits for a reply
\* (channelLifecycleManager.ts:54, genericRedisHub.ts:126-137).
THEOREM ClosedUnlessStray == Spec => []NoOrphanChannel
<1>1. Channels => NoOrphanChannel
  <2> SUFFICES ASSUME Channels, NEW i \in Instances, Present(i) = {}, Calm(i), i \notin stray,
                      i \in linked
               PROVE  FALSE
    BY DEF NoOrphanChannel
  <2>1. uplink[i] = <<>> /\ TypeOK /\ Named(i) /\ Closing(i)
    BY DEF Calm, Channels, Sound
  <2>2. ~Ends(i, 0)
    BY <2>1 DEF Ends
  <2>3. PICK w \in Viewers : Owned(i, w) /\ Holds(i, w)
    BY <2>1, <2>2 DEF Closing
  <2>4. w \in awaited /\ w \in pending
    BY <2>1, <2>3, HubAssumption DEF Owned, Named, TypeOK
  <2>5. PICK k \in DOMAIN downlink[i] : downlink[i][k] = Settled(w, TRUE)
    BY <2>3, <2>4 DEF Holds
  <2>6. downlink[i][k].kind = "ok"
    BY <2>5 DEF Settled
  <2> QED  BY <2>6 DEF Calm
<1> QED  BY <1>1, AlwaysChannels, PTL

-----------------------------------------------------------------------------
(* The order of events.  Requests of one instance are numbered in the order *)
(* in which they announce; the numbers rise along what a viewer has been    *)
(* sent, what its instance has yet to read and what their instance has yet  *)
(* to publish.  The numbering is a witness: no variable of the hub holds it. *)

\* Only announced events are under way or have been delivered.
Announced ==
    /\ \A i \in Instances : \A a \in DOMAIN outbox[i] : outbox[i][a] \in sent /\ At[outbox[i][a]] = i
    /\ \A i \in Instances, r \in Requests : \A a \in DOMAIN downlink[i] :
          downlink[i][a] = Message(r) => r \in sent
    /\ \A v \in Viewers : \A a \in DOMAIN got[v] : got[v][a] \in sent

\* What an instance has yet to publish is in order.
OutOrder(f) == \A i \in Instances : \A a, b \in DOMAIN outbox[i] :
    a < b => f[outbox[i][a]] < f[outbox[i][b]]

\* So is what an instance has yet to read, and it comes before that.
DownOrder(f) == \A i \in Instances, r \in Requests : \A a \in DOMAIN downlink[i] :
    downlink[i][a] = Message(r) =>
        /\ \A b \in DOMAIN downlink[i], s \in Requests :
              downlink[i][b] = Message(s) /\ At[r] = At[s] /\ a < b => f[r] < f[s]
        /\ \A b \in DOMAIN outbox[At[r]] : f[r] < f[outbox[At[r]][b]]

\* So is what a viewer has been sent.
GotOrder(f) == \A v \in Viewers : \A a, b \in DOMAIN got[v] :
    At[got[v][a]] = At[got[v][b]] /\ a < b => f[got[v][a]] < f[got[v][b]]

\* The news of other instances in it comes before all that is under way.
Behind(f) == \A v \in Viewers, r \in Requests : \A a \in DOMAIN got[v] :
    got[v][a] = r /\ At[r] # At[v] =>
        /\ \A b \in DOMAIN outbox[At[r]] : f[r] < f[outbox[At[r]][b]]
        /\ \A b \in DOMAIN downlink[At[v]], s \in Requests :
              downlink[At[v]][b] = Message(s) /\ At[s] = At[r] => f[r] < f[s]

Numbers(f, n) ==
    /\ \A r \in sent : f[r] < n
    /\ OutOrder(f) /\ DownOrder(f) /\ GotOrder(f) /\ Behind(f)

Order == TypeOK /\ Announced /\ \E f \in [Requests -> Nat], n \in Nat : Numbers(f, n)

-----------------------------------------------------------------------------
\* The three kinds of queues hold what they should, at whole numbers.
LEMMA Queues ==
    ASSUME TypeOK
    PROVE  /\ \A i \in Instances :
                 /\ outbox[i] \in Seq(Requests) /\ Len(outbox[i]) \in Nat
                 /\ DOMAIN outbox[i] = 1..Len(outbox[i])
                 /\ \A a \in DOMAIN outbox[i] : outbox[i][a] \in Requests
           /\ \A i \in Instances :
                 /\ downlink[i] \in Seq(Replies) /\ Len(downlink[i]) \in Nat
                 /\ DOMAIN downlink[i] = 1..Len(downlink[i])
           /\ \A v \in Viewers :
                 /\ got[v] \in Seq(Requests) /\ Len(got[v]) \in Nat
                 /\ DOMAIN got[v] = 1..Len(got[v])
                 /\ \A a \in DOMAIN got[v] : got[v][a] \in Requests
           /\ \A x \in Viewers \cup Requests : At[x] \in Instances
<1>1. /\ \A i \in Instances : outbox[i] \in Seq(Requests) /\ downlink[i] \in Seq(Replies)
      /\ \A v \in Viewers : got[v] \in Seq(Requests)
  BY DEF TypeOK
<1> QED  BY <1>1, LenProperties, ElementOfSeq, HubAssumption

\* Taking the first element off queues, or adding replies that are not messages,
\* keeps the order of the queues and brings nothing new into them.
LEMMA QueuesForget ==
    ASSUME TypeOK, NEW f \in [Requests -> Nat], NEW n \in Nat, Numbers(f, n),
           \A i \in Instances : \E d \in {0, 1} : \A a \in DOMAIN outbox'[i] :
              a \in Nat /\ a + d \in DOMAIN outbox[i] /\ outbox'[i][a] = outbox[i][a + d],
           \A i \in Instances : \E d \in {0, 1} : \A a \in DOMAIN downlink'[i], r \in Requests :
              downlink'[i][a] = Message(r) =>
                 a \in Nat /\ a + d \in DOMAIN downlink[i] /\ downlink[i][a + d] = Message(r)
    PROVE  /\ \A i \in Instances : \A a \in DOMAIN outbox'[i] :
                 \E b \in DOMAIN outbox[i] : outbox'[i][a] = outbox[i][b]
           /\ \A i \in Instances, r \in Requests : \A a \in DOMAIN downlink'[i] :
                 downlink'[i][a] = Message(r) => \E b \in DOMAIN downlink[i] : downlink[i][b] = Message(r)
           /\ OutOrder(f)' /\ DownOrder(f)'
<1> USE Queues
<1>1. ASSUME NEW i \in Instances, NEW a \in DOMAIN outbox'[i]
      PROVE  \E b \in DOMAIN outbox[i] : outbox'[i][a] = outbox[i][b]
  OBVIOUS
<1>2. ASSUME NEW i \in Instances, NEW r \in Requests, NEW a \in DOMAIN downlink'[i],
             downlink'[i][a] = Message(r)
      PROVE  \E b \in DOMAIN downlink[i] : downlink[i][b] = Message(r)
  BY <1>2
<1>3. OutOrder(f)'
  <2> SUFFICES ASSUME NEW i \in Instances, NEW a \in DOMAIN outbox'[i], NEW b \in DOMAIN outbox'[i],
                      a < b
               PROVE  f[outbox'[i][a]] < f[outbox'[i][b]]
    BY DEF OutOrder
  <2>1. PICK d \in {0, 1} : \A c \in DOMAIN outbox'[i] :
              c \in Nat /\ c + d \in DOMAIN outbox[i] /\ outbox'[i][c] = outbox[i][c + d]
    OBVIOUS
  <2>2. a + d < b + d
    BY <2>1
  <2> QED  BY <2>1, <2>2 DEF Numbers, OutOrder
<1>4. DownOrder(f)'
  <2> SUFFICES ASSUME NEW i \in Instances, NEW r \in Requests, NEW a \in DOMAIN downlink'[i],
                      downlink'[i][a] = Message(r)
               PROVE  /\ \A b \in DOMAIN downlink'[i], s \in Requests :
                            downlink'[i][b] = Message(s) /\ At[r] = At[s] /\ a < b => f[r] < f[s]
                      /\ \A b \in DOMAIN outbox'[At[r]] : f[r] < f[outbox'[At[r]][b]]
    BY DEF DownOrder, Message
  <2>1. PICK d \in {0, 1} : \A c \in DOMAIN downlink'[i], s \in Requests :
              downlink'[i][c] = Message(s) =>
                 c \in Nat /\ c + d \in DOMAIN downlink[i] /\ downlink[i][c + d] = Message(s)
    OBVIOUS
  <2>2. ASSUME NEW b \in DOMAIN downlink'[i], NEW s \in Requests,
               downlink'[i][b] = Message(s), At[r] = At[s], a < b
        PROVE  f[r] < f[s]
    <3>1. a + d < b + d
      BY <2>1, <2>2
    <3> QED  BY <2>1, <2>2, <3>1 DEF Numbers, DownOrder
  <2>3. ASSUME NEW b \in DOMAIN outbox'[At[r]] PROVE f[r] < f[outbox'[At[r]][b]]
    <3>1. PICK c \in DOMAIN outbox[At[r]] : outbox'[At[r]][b] = outbox[At[r]][c]
      BY <1>1
    <3> QED  BY ZenonT(60), <2>1, <3>1 DEF Numbers, DownOrder
  <2> QED  BY <2>2, <2>3
<1> QED  BY <1>1, <1>2, <1>3, <1>4

\* Such a step keeps the whole order if it delivers nothing.
LEMMA OrderForgets ==
    ASSUME TypeOK, Announced, NEW f \in [Requests -> Nat], NEW n \in Nat, Numbers(f, n),
           UNCHANGED <<sent, got>>,
           \A i \in Instances : \E d \in {0, 1} : \A a \in DOMAIN outbox'[i] :
              a \in Nat /\ a + d \in DOMAIN outbox[i] /\ outbox'[i][a] = outbox[i][a + d],
           \A i \in Instances : \E d \in {0, 1} : \A a \in DOMAIN downlink'[i], r \in Requests :
              downlink'[i][a] = Message(r) =>
                 a \in Nat /\ a + d \in DOMAIN downlink[i] /\ downlink[i][a + d] = Message(r)
    PROVE  Announced' /\ Numbers(f, n)'
<1>0. /\ \A i \in Instances : \A a \in DOMAIN outbox'[i] :
            \E b \in DOMAIN outbox[i] : outbox'[i][a] = outbox[i][b]
      /\ \A i \in Instances, r \in Requests : \A a \in DOMAIN downlink'[i] :
            downlink'[i][a] = Message(r) => \E b \in DOMAIN downlink[i] : downlink[i][b] = Message(r)
      /\ OutOrder(f)' /\ DownOrder(f)'
  BY QueuesForget
<1> USE Queues
<1>3. Announced'
  BY <1>0 DEF Announced, Message
<1>6. GotOrder(f)'
  BY DEF Numbers, GotOrder
<1>7. Behind(f)'
  <2> SUFFICES ASSUME NEW v \in Viewers, NEW r \in Requests, NEW a \in DOMAIN got[v],
                      got[v][a] = r, At[r] # At[v]
               PROVE  /\ \A b \in DOMAIN outbox'[At[r]] : f[r] < f[outbox'[At[r]][b]]
                      /\ \A b \in DOMAIN downlink'[At[v]], s \in Requests :
                            downlink'[At[v]][b] = Message(s) /\ At[s] = At[r] => f[r] < f[s]
    BY DEF Behind, Message
  <2>1. ASSUME NEW b \in DOMAIN outbox'[At[r]] PROVE f[r] < f[outbox'[At[r]][b]]
    <3>1. PICK c \in DOMAIN outbox[At[r]] : outbox'[At[r]][b] = outbox[At[r]][c]
      BY <1>0
    <3> QED  BY <3>1 DEF Numbers, Behind
  <2>2. ASSUME NEW b \in DOMAIN downlink'[At[v]], NEW s \in Requests,
               downlink'[At[v]][b] = Message(s), At[s] = At[r]
        PROVE  f[r] < f[s]
    <3>1. PICK c \in DOMAIN downlink[At[v]] : downlink[At[v]][c] = Message(s)
      BY <1>0, <2>2
    <3> QED  BY <2>2, <3>1 DEF Numbers, Behind
  <2> QED  BY <2>1, <2>2
<1> QED  BY <1>0, <1>3, <1>6, <1>7 DEF Numbers
\* A viewer is sent at most one more event, by its own instance or by a message.
LEMMA DeliveredAt ==
    ASSUME TypeOK, NEW i \in Instances, NEW r \in Requests, got' = Delivered(i, r), NEW v \in Viewers
    PROVE  /\ v \in Present(i) => /\ DOMAIN got'[v] = 1..Len(got[v]) + 1
                                  /\ \A a \in 1..Len(got[v]) : got'[v][a] = got[v][a]
                                  /\ got'[v][Len(got[v]) + 1] = r
           /\ v \notin Present(i) => got'[v] = got[v]
<1>1. got[v] \in Seq(Requests)
  BY DEF TypeOK
<1> QED  BY <1>1, AppendAt DEF Delivered

\* A broadcast takes the next number.
LEMMA OrderBroadcast ==
    ASSUME TypeOK, Announced, NEW f \in [Requests -> Nat], NEW n \in Nat, Numbers(f, n),
           NEW r \in Requests, Broadcast(r)
    PROVE  /\ Announced'
           /\ [f EXCEPT ![r] = n] \in [Requests -> Nat]
           /\ Numbers([f EXCEPT ![r] = n], n + 1)'
<1> DEFINE g == [f EXCEPT ![r] = n]
<1> USE Queues
<1>1. /\ r \notin sent /\ sent' = sent \cup {r} /\ got' = Delivered(At[r], r)
      /\ downlink' = downlink
      /\ \A i \in Instances : i # At[r] => outbox'[i] = outbox[i]
      /\ outbox'[At[r]] = Append(outbox[At[r]], r)
  BY DEF Broadcast, TypeOK
<1>2. /\ DOMAIN outbox'[At[r]] = 1..Len(outbox[At[r]]) + 1
      /\ \A a \in 1..Len(outbox[At[r]]) : outbox'[At[r]][a] = outbox[At[r]][a]
      /\ outbox'[At[r]][Len(outbox[At[r]]) + 1] = r
  BY <1>1, AppendAt
<1>3. \A v \in Viewers :
         /\ v \in Present(At[r]) => /\ DOMAIN got'[v] = 1..Len(got[v]) + 1
                                    /\ \A a \in 1..Len(got[v]) : got'[v][a] = got[v][a]
                                    /\ got'[v][Len(got[v]) + 1] = r
         /\ v \notin Present(At[r]) => got'[v] = got[v]
  BY <1>1, DeliveredAt
<1>4. g \in [Requests -> Nat] /\ g[r] = n /\ \A s \in sent : g[s] = f[s] /\ g[s] < n
  BY <1>1 DEF Numbers, TypeOK
<1> HIDE DEF g
<1>5. \A v \in Viewers : \A a \in DOMAIN got'[v] :
         \/ a \in DOMAIN got[v] /\ got'[v][a] = got[v][a] /\ got[v][a] \in sent
         \/ a = Len(got[v]) + 1 /\ got'[v][a] = r /\ At[v] = At[r]
  <2> SUFFICES ASSUME NEW v \in Viewers, NEW a \in DOMAIN got'[v]
               PROVE  \/ a \in DOMAIN got[v] /\ got'[v][a] = got[v][a] /\ got[v][a] \in sent
                      \/ a = Len(got[v]) + 1 /\ got'[v][a] = r /\ At[v] = At[r]
    OBVIOUS
  <2>1. \A b \in DOMAIN got[v] : got[v][b] \in sent
    BY DEF Announced
  <2>2. CASE v \in Present(At[r])
    <3>1. At[v] = At[r]
      BY <2>2 DEF Present
    <3>2. /\ DOMAIN got'[v] = 1..Len(got[v]) + 1
          /\ \A b \in 1..Len(got[v]) : got'[v][b] = got[v][b]
          /\ got'[v][Len(got[v]) + 1] = r
          /\ DOMAIN got[v] = 1..Len(got[v]) /\ Len(got[v]) \in Nat
      BY <1>3, <2>2
    <3>3. a = Len(got[v]) + 1 \/ a \in 1..Len(got[v])
      BY ONLY <3>2, a \in DOMAIN got'[v]
    <3> QED  BY ONLY <2>1, <3>1, <3>2, <3>3
  <2>3. CASE v \notin Present(At[r])
    BY <1>3, <2>1, <2>3
  <2> QED  BY <2>2, <2>3
<1>6. \A i \in Instances : \A a \in DOMAIN outbox'[i] :
         \/ a \in DOMAIN outbox[i] /\ outbox'[i][a] = outbox[i][a] /\ outbox[i][a] \in sent
         \/ i = At[r] /\ a = Len(outbox[i]) + 1 /\ outbox'[i][a] = r
  <2>1. \A i \in Instances : \A a \in DOMAIN outbox[i] : outbox[i][a] \in sent
    BY DEF Announced
  <2>2. ASSUME NEW a \in DOMAIN outbox'[At[r]]
        PROVE  \/ /\ a \in DOMAIN outbox[At[r]] /\ outbox'[At[r]][a] = outbox[At[r]][a]
                  /\ outbox[At[r]][a] \in sent
               \/ a = Len(outbox[At[r]]) + 1 /\ outbox'[At[r]][a] = r
    <3>1. DOMAIN outbox[At[r]] = 1..Len(outbox[At[r]]) /\ Len(outbox[At[r]]) \in Nat
      OBVIOUS
    <3>2. a = Len(outbox[At[r]]) + 1 \/ a \in 1..Len(outbox[At[r]])
      BY ONLY <1>2, <3>1, a \in DOMAIN outbox'[At[r]]
    <3> QED  BY <1>2, <2>1, <3>1, <3>2
  <2> QED  BY <1>1, <2>1, <2>2
<1>7. \A i \in Instances, s \in Requests : \A a \in DOMAIN downlink[i] :
         downlink[i][a] = Message(s) => s \in sent
  BY DEF Announced
<1>8. Announced'
  BY <1>1, <1>5, <1>6, <1>7 DEF Announced, Message
<1>9. Numbers(g, n + 1)'
  <2>1. \A s \in sent' : g[s] < n + 1
    BY <1>1, <1>4 DEF TypeOK
  <2>2. OutOrder(g)'
    <3> SUFFICES ASSUME NEW i \in Instances, NEW a \in DOMAIN outbox'[i], NEW b \in DOMAIN outbox'[i],
                        a < b
                 PROVE  g[outbox'[i][a]] < g[outbox'[i][b]]
      BY DEF OutOrder
    <3>1. a \in DOMAIN outbox[i] /\ outbox'[i][a] = outbox[i][a] /\ outbox[i][a] \in sent
      BY <1>1, <1>2, <1>6
    <3>2. CASE outbox'[i][b] = r
      BY <1>4, <3>1, <3>2
    <3>3. CASE b \in DOMAIN outbox[i] /\ outbox'[i][b] = outbox[i][b] /\ outbox[i][b] \in sent
      BY <1>4, <3>1, <3>3 DEF Numbers, OutOrder
    <3> QED  BY <1>6, <3>2, <3>3
  <2>3. DownOrder(g)'
    <3> SUFFICES ASSUME NEW i \in Instances, NEW q \in Requests, NEW a \in DOMAIN downlink[i],
                        downlink[i][a] = Message(q)
                 PROVE  /\ \A b \in DOMAIN downlink[i], s \in Requests :
                              downlink[i][b] = Message(s) /\ At[q] = At[s] /\ a < b => g[q] < g[s]
                        /\ \A b \in DOMAIN outbox'[At[q]] : g[q] < g[outbox'[At[q]][b]]
      BY <1>1 DEF DownOrder, Message
    <3>1. ASSUME NEW b \in DOMAIN downlink[i], NEW s \in Requests,
                 downlink[i][b] = Message(s), At[q] = At[s], a < b
          PROVE  g[q] < g[s]
      BY <1>4, <1>7, <3>1 DEF Numbers, DownOrder
    <3>2. ASSUME NEW b \in DOMAIN outbox'[At[q]] PROVE g[q] < g[outbox'[At[q]][b]]
      <4>1. q \in sent
        BY <1>7
      <4>2. CASE outbox'[At[q]][b] = r
        BY <1>4, <4>1, <4>2
      <4>3. CASE b \in DOMAIN outbox[At[q]] /\ outbox'[At[q]][b] = outbox[At[q]][b] /\ outbox[At[q]][b] \in sent
        BY <1>4, <4>1, <4>3 DEF Numbers, DownOrder
      <4> QED  BY <1>6, <4>2, <4>3
    <3> QED  BY <3>1, <3>2
  <2>4. GotOrder(g)'
    <3> SUFFICES ASSUME NEW v \in Viewers, NEW a \in DOMAIN got'[v], NEW b \in DOMAIN got'[v],
                        At[got'[v][a]] = At[got'[v][b]], a < b
                 PROVE  g[got'[v][a]] < g[got'[v][b]]
      BY DEF GotOrder
    <3>1. a \in DOMAIN got[v] /\ got'[v][a] = got[v][a] /\ got[v][a] \in sent
      BY <1>3, <1>5
    <3>2. CASE got'[v][b] = r
      BY <1>4, <3>1, <3>2
    <3>3. CASE b \in DOMAIN got[v] /\ got'[v][b] = got[v][b] /\ got[v][b] \in sent
      BY <1>4, <3>1, <3>3 DEF Numbers, GotOrder
    <3> QED  BY <1>5, <3>2, <3>3
  <2>5. Behind(g)'
    <3> SUFFICES ASSUME NEW v \in Viewers, NEW q \in Requests, NEW a \in DOMAIN got'[v],
                        got'[v][a] = q, At[q] # At[v]
                 PROVE  /\ \A b \in DOMAIN outbox'[At[q]] : g[q] < g[outbox'[At[q]][b]]
                        /\ \A b \in DOMAIN downlink[At[v]], s \in Requests :
                              downlink[At[v]][b] = Message(s) /\ At[s] = At[q] => g[q] < g[s]
      BY ZenonT(60), <1>1 DEF Behind, Message
    <3>1. a \in DOMAIN got[v] /\ got[v][a] = q /\ q \in sent
      BY <1>5
    <3>2. ASSUME NEW b \in DOMAIN outbox'[At[q]] PROVE g[q] < g[outbox'[At[q]][b]]
      <4>1. CASE outbox'[At[q]][b] = r
        BY <1>4, <3>1, <4>1
      <4>2. CASE b \in DOMAIN outbox[At[q]] /\ outbox'[At[q]][b] = outbox[At[q]][b] /\ outbox[At[q]][b] \in sent
        BY <1>4, <3>1, <4>2 DEF Numbers, Behind
      <4> QED  BY <1>6, <4>1, <4>2
    <3>3. ASSUME NEW b \in DOMAIN downlink[At[v]], NEW s \in Requests,
                 downlink[At[v]][b] = Message(s), At[s] = At[q]
          PROVE  g[q] < g[s]
      BY <1>4, <1>7, <3>1, <3>3 DEF Numbers, Behind
    <3> QED  BY <3>2, <3>3
  <2> QED  BY <2>1, <2>2, <2>3, <2>4, <2>5 DEF Numbers
<1> QED  BY <1>4, <1>8, <1>9 DEF g
\* A publication goes behind what its instance published before.
LEMMA OrderPublish ==
    ASSUME TypeOK, Announced, NEW f \in [Requests -> Nat], NEW n \in Nat, Numbers(f, n),
           NEW i \in Instances, Publish(i)
    PROVE  Announced' /\ Numbers(f, n)'
<1> DEFINE h == Head(outbox[i])
<1>1. /\ outbox[i] # <<>> /\ outbox'[i] = Tail(outbox[i]) /\ UNCHANGED <<sent, got>>
      /\ \A j \in Instances : j # i => outbox'[j] = outbox[j]
      /\ \A j \in Instances : downlink'[j] = downlink[j] \/ downlink'[j] = Append(downlink[j], Message(h))
  BY DEF Publish, people, TypeOK
<1> USE Queues
<1>2. /\ h = outbox[i][1] /\ Len(outbox[i]) \in Nat \ {0} /\ h \in Requests
      /\ DOMAIN outbox[i] = 1..Len(outbox[i])
      /\ DOMAIN outbox'[i] = 1..Len(outbox[i]) - 1
      /\ \A a \in 1..Len(outbox[i]) - 1 : outbox'[i][a] = outbox[i][a + 1]
  BY <1>1, TailAt
<1>3. h \in sent /\ At[h] = i
  BY <1>2 DEF Announced
<1> HIDE DEF h
<1>4. ASSUME NEW j \in Instances, NEW a \in DOMAIN outbox'[j]
      PROVE  \E b \in DOMAIN outbox[j] : /\ outbox'[j][a] = outbox[j][b]
                                         /\ j = i => b = a + 1 /\ b > 1
                                         /\ j # i => b = a
  <2>1. CASE j = i
    <3>1. a + 1 \in DOMAIN outbox[i] /\ a + 1 > 1
      BY <1>2, <2>1
    <3> QED  BY <1>2, <2>1, <3>1
  <2>2. CASE j # i
    BY <1>1, <2>2
  <2> QED  BY <2>1, <2>2
<1>5. ASSUME NEW j \in Instances, NEW a \in DOMAIN downlink'[j], NEW s \in Requests,
             downlink'[j][a] = Message(s)
      PROVE  \/ a \in DOMAIN downlink[j] /\ downlink[j][a] = Message(s)
             \/ s = h /\ a \notin DOMAIN downlink[j] /\ \A b \in DOMAIN downlink'[j] : ~(a < b)
  <2>1. CASE downlink'[j] = downlink[j]
    BY <1>5, <2>1
  <2>2. CASE downlink'[j] = Append(downlink[j], Message(h))
    <3>1. /\ DOMAIN downlink'[j] = 1..Len(downlink[j]) + 1
          /\ \A b \in 1..Len(downlink[j]) : downlink'[j][b] = downlink[j][b]
          /\ downlink'[j][Len(downlink[j]) + 1] = Message(h)
          /\ DOMAIN downlink[j] = 1..Len(downlink[j]) /\ Len(downlink[j]) \in Nat
      BY <1>2, <2>2, ReplyFacts, AppendAt
    <3>2. CASE a = Len(downlink[j]) + 1
      <4>1. s = h
        BY <1>2, <1>5, <3>1, <3>2 DEF Message
      <4> QED  BY <3>1, <3>2, <4>1
    <3>3. CASE a \in 1..Len(downlink[j])
      BY <1>5, <3>1, <3>3
    <3> QED  BY <3>1, <3>2, <3>3
  <2> QED  BY <1>1, <2>1, <2>2
<1>6. Announced'
  <2>1. \A j \in Instances : \A a \in DOMAIN outbox'[j] : outbox'[j][a] \in sent /\ At[outbox'[j][a]] = j
    BY <1>4 DEF Announced
  <2>2. \A j \in Instances, s \in Requests : \A a \in DOMAIN downlink'[j] :
           downlink'[j][a] = Message(s) => s \in sent
    BY <1>3, <1>5 DEF Announced
  <2> QED  BY <1>1, <2>1, <2>2 DEF Announced, Message
<1>7. OutOrder(f)'
  <2> SUFFICES ASSUME NEW j \in Instances, NEW a \in DOMAIN outbox'[j], NEW b \in DOMAIN outbox'[j],
                      a < b
               PROVE  f[outbox'[j][a]] < f[outbox'[j][b]]
    BY DEF OutOrder
  <2>1. CASE j = i
    <3>1. /\ a + 1 \in DOMAIN outbox[i] /\ b + 1 \in DOMAIN outbox[i] /\ a + 1 < b + 1
          /\ outbox'[i][a] = outbox[i][a + 1] /\ outbox'[i][b] = outbox[i][b + 1]
      <4>1. a \in 1..Len(outbox[i]) - 1 /\ b \in 1..Len(outbox[i]) - 1
        BY <1>2, <2>1
      <4>2. a + 1 < b + 1 /\ a + 1 \in 1..Len(outbox[i]) /\ b + 1 \in 1..Len(outbox[i])
        <5>1. Len(outbox[i]) \in Nat
          BY <1>2
        <5> QED  BY ONLY <4>1, <5>1, a < b
      <4>3. outbox'[i][a] = outbox[i][a + 1] /\ outbox'[i][b] = outbox[i][b + 1]
        BY <1>2, <4>1
      <4> QED  BY <1>2, <4>2, <4>3
    <3> QED  BY <2>1, <3>1 DEF Numbers, OutOrder
  <2>2. CASE j # i
    BY <1>1, <2>2 DEF Numbers, OutOrder
  <2> QED  BY <2>1, <2>2
<1>8. DownOrder(f)'
  <2> SUFFICES ASSUME NEW j \in Instances, NEW q \in Requests, NEW a \in DOMAIN downlink'[j],
                      downlink'[j][a] = Message(q)
               PROVE  /\ \A b \in DOMAIN downlink'[j], s \in Requests :
                            downlink'[j][b] = Message(s) /\ At[q] = At[s] /\ a < b => f[q] < f[s]
                      /\ \A b \in DOMAIN outbox'[At[q]] : f[q] < f[outbox'[At[q]][b]]
    BY DEF DownOrder, Message
  <2>1. ASSUME NEW b \in DOMAIN downlink'[j], NEW s \in Requests,
               downlink'[j][b] = Message(s), At[q] = At[s], a < b
        PROVE  f[q] < f[s]
    <3>1. a \in DOMAIN downlink[j] /\ downlink[j][a] = Message(q)
      BY <1>5, <2>1
    <3>2. CASE b \in DOMAIN downlink[j] /\ downlink[j][b] = Message(s)
      BY <2>1, <3>1, <3>2 DEF Numbers, DownOrder
    <3>3. CASE s = h
      <4>1. At[q] = i /\ 1 \in DOMAIN outbox[i]
        BY <1>2, <1>3, <2>1, <3>3
      <4>2. f[q] < f[outbox[i][1]]
        BY <3>1, <4>1 DEF Numbers, DownOrder
      <4> QED  BY <1>2, <3>3, <4>2
    <3> QED  BY <1>5, <2>1, <3>2, <3>3
  <2>2. ASSUME NEW b \in DOMAIN outbox'[At[q]] PROVE f[q] < f[outbox'[At[q]][b]]
    <3>0. PICK c \in DOMAIN outbox[At[q]] : /\ outbox'[At[q]][b] = outbox[At[q]][c]
                                            /\ At[q] = i => c > 1
      <4>1. At[q] \in Instances
        OBVIOUS
      <4> QED  BY ONLY <1>4, <4>1, b \in DOMAIN outbox'[At[q]]
    <3>1. CASE downlink[j][a] = Message(q) /\ a \in DOMAIN downlink[j]
      BY <3>0, <3>1 DEF Numbers, DownOrder
    <3>2. CASE q = h
      <4>1. At[q] = i /\ c > 1 /\ 1 \in DOMAIN outbox[i]
        BY <1>2, <1>3, <3>0, <3>2
      <4>2. f[outbox[i][1]] < f[outbox[i][c]]
        BY <3>0, <4>1 DEF Numbers, OutOrder
      <4> QED  BY <1>2, <3>0, <3>2, <4>1, <4>2
    <3> QED  BY <1>5, <3>1, <3>2
  <2> QED  BY <2>1, <2>2
<1>9. GotOrder(f)'
  BY <1>1 DEF Numbers, GotOrder
<1>10. Behind(f)'
  <2> SUFFICES ASSUME NEW v \in Viewers, NEW r \in Requests, NEW a \in DOMAIN got[v],
                      got[v][a] = r, At[r] # At[v]
               PROVE  /\ \A b \in DOMAIN outbox'[At[r]] : f[r] < f[outbox'[At[r]][b]]
                      /\ \A b \in DOMAIN downlink'[At[v]], s \in Requests :
                            downlink'[At[v]][b] = Message(s) /\ At[s] = At[r] => f[r] < f[s]
    BY <1>1 DEF Behind, Message
  <2>1. ASSUME NEW b \in DOMAIN outbox'[At[r]] PROVE f[r] < f[outbox'[At[r]][b]]
    <3>1. PICK c \in DOMAIN outbox[At[r]] : outbox'[At[r]][b] = outbox[At[r]][c]
      BY <1>4
    <3> QED  BY <3>1 DEF Numbers, Behind
  <2>2. ASSUME NEW b \in DOMAIN downlink'[At[v]], NEW s \in Requests,
               downlink'[At[v]][b] = Message(s), At[s] = At[r]
        PROVE  f[r] < f[s]
    <3>1. CASE b \in DOMAIN downlink[At[v]] /\ downlink[At[v]][b] = Message(s)
      BY <2>2, <3>1 DEF Numbers, Behind
    <3>2. CASE s = h
      <4>1. At[r] = i /\ 1 \in DOMAIN outbox[i]
        BY <1>2, <1>3, <2>2, <3>2
      <4>2. f[r] < f[outbox[i][1]]
        BY <4>1 DEF Numbers, Behind
      <4> QED  BY <1>2, <3>2, <4>2
    <3> QED  BY <1>5, <2>2, <3>1, <3>2
  <2> QED  BY <2>1, <2>2
<1> QED  BY <1>1, <1>6, <1>7, <1>8, <1>9, <1>10 DEF Numbers
\* A message is delivered behind what was sent before, and before what is still
\* under way from its instance.
LEMMA OrderReceived ==
    ASSUME TypeOK, Announced, NEW f \in [Requests -> Nat], NEW n \in Nat, Numbers(f, n),
           NEW i \in Instances, Received(i)
    PROVE  Announced' /\ Numbers(f, n)'
<1> DEFINE h == Head(downlink[i]).of
<1>1. /\ downlink[i] # <<>> /\ downlink'[i] = Tail(downlink[i]) /\ UNCHANGED <<sent, outbox>>
      /\ \A j \in Instances : j # i => downlink'[j] = downlink[j]
      /\ got' = got \/ (got' = Delivered(i, h) /\ At[h] # i)
  BY DEF Received, NextIs, Taken, people, TypeOK
<1> USE Queues
<1>2. /\ h \in Requests /\ downlink[i][1] = Message(h) /\ Len(downlink[i]) \in Nat \ {0}
      /\ DOMAIN downlink[i] = 1..Len(downlink[i])
      /\ DOMAIN downlink'[i] = 1..Len(downlink[i]) - 1
      /\ \A a \in 1..Len(downlink[i]) - 1 : downlink'[i][a] = downlink[i][a + 1]
  <2>1. Head(downlink[i]).kind = "message"
    BY DEF Received, NextIs
  <2>2. /\ Head(downlink[i]) \in Replies /\ Head(downlink[i]) = downlink[i][1]
        /\ Len(downlink[i]) \in Nat \ {0} /\ DOMAIN downlink[i] = 1..Len(downlink[i])
        /\ DOMAIN downlink'[i] = 1..Len(downlink[i]) - 1
        /\ \A a \in 1..Len(downlink[i]) - 1 : downlink'[i][a] = downlink[i][a + 1]
    BY <1>1, TailAt
  <2> QED  BY <2>1, <2>2, ReplyFacts
<1>3. h \in sent /\ 1 \in DOMAIN downlink[i]
  BY <1>2 DEF Announced
<1> HIDE DEF h
<1>4. \A j \in Instances : \E d \in {0, 1} : \A a \in DOMAIN outbox'[j] :
         a \in Nat /\ a + d \in DOMAIN outbox[j] /\ outbox'[j][a] = outbox[j][a + d]
  <2> SUFFICES ASSUME NEW j \in Instances
               PROVE  \A a \in DOMAIN outbox'[j] :
                         a \in Nat /\ a + 0 \in DOMAIN outbox[j] /\ outbox'[j][a] = outbox[j][a + 0]
    OBVIOUS
  <2>1. DOMAIN outbox[j] = 1..Len(outbox[j]) /\ outbox' = outbox
    BY <1>1
  <2> QED  BY ONLY <2>1
<1>5. \A j \in Instances : \E d \in {0, 1} : \A a \in DOMAIN downlink'[j], s \in Requests :
         downlink'[j][a] = Message(s) =>
            a \in Nat /\ a + d \in DOMAIN downlink[j] /\ downlink[j][a + d] = Message(s)
  <2>1. ASSUME NEW j \in Instances, j # i
        PROVE  \A a \in DOMAIN downlink'[j], s \in Requests : downlink'[j][a] = Message(s) =>
                  a \in Nat /\ a + 0 \in DOMAIN downlink[j] /\ downlink[j][a + 0] = Message(s)
    <3>1. downlink'[j] = downlink[j] /\ DOMAIN downlink[j] = 1..Len(downlink[j])
      BY <1>1, <2>1
    <3> QED  BY ONLY <3>1
  <2>2. \A a \in DOMAIN downlink'[i], s \in Requests : downlink'[i][a] = Message(s) =>
           a \in Nat /\ a + 1 \in DOMAIN downlink[i] /\ downlink[i][a + 1] = Message(s)
    BY ONLY <1>2
  <2> QED  BY <2>1, <2>2
<1>6. CASE got' = got
  BY <1>1, <1>4, <1>5, <1>6, OrderForgets
<1>7. CASE got' = Delivered(i, h) /\ At[h] # i
  <2>1. /\ \A j \in Instances, s \in Requests : \A a \in DOMAIN downlink'[j] :
              downlink'[j][a] = Message(s) => \E b \in DOMAIN downlink[j] : downlink[j][b] = Message(s)
        /\ OutOrder(f)' /\ DownOrder(f)'
    BY <1>4, <1>5, QueuesForget
  <2>2. ASSUME NEW v \in Viewers, NEW a \in DOMAIN got'[v]
        PROVE  \/ a \in DOMAIN got[v] /\ got'[v][a] = got[v][a] /\ got[v][a] \in sent
               \/ /\ got'[v][a] = h /\ At[v] = i /\ a \notin DOMAIN got[v]
                  /\ \A b \in DOMAIN got'[v] : ~(a < b)
    <3>1. \A b \in DOMAIN got[v] : got[v][b] \in sent
      BY DEF Announced
    <3>2. CASE v \in Present(i)
      <4>1. At[v] = i
        BY <3>2 DEF Present
      <4>2. /\ DOMAIN got'[v] = 1..Len(got[v]) + 1
            /\ \A b \in 1..Len(got[v]) : got'[v][b] = got[v][b]
            /\ got'[v][Len(got[v]) + 1] = h
        BY <1>2, <1>7, <3>2, DeliveredAt
      <4>3. DOMAIN got[v] = 1..Len(got[v]) /\ Len(got[v]) \in Nat
        OBVIOUS
      <4>4. CASE a = Len(got[v]) + 1
        <5>1. a \notin DOMAIN got[v] /\ \A b \in DOMAIN got'[v] : ~(a < b)
          BY ONLY <4>2, <4>3, <4>4
        <5> QED  BY <4>1, <4>2, <4>4, <5>1
      <4>5. CASE a \in 1..Len(got[v])
        BY <3>1, <4>2, <4>3, <4>5
      <4>6. a = Len(got[v]) + 1 \/ a \in 1..Len(got[v])
        BY ONLY <4>2, <4>3, a \in DOMAIN got'[v]
      <4> QED  BY <4>4, <4>5, <4>6
    <3>3. CASE v \notin Present(i)
      <4>1. got'[v] = got[v]
        BY <1>2, <1>7, <3>3, DeliveredAt
      <4> QED  BY <3>1, <4>1
    <3> QED  BY <3>2, <3>3
  <2>3. Announced'
    <3>1. \A v \in Viewers : \A a \in DOMAIN got'[v] : got'[v][a] \in sent
      BY <1>3, <2>2
    <3>2. \A j \in Instances, s \in Requests : \A a \in DOMAIN downlink'[j] :
             downlink'[j][a] = Message(s) => s \in sent
      BY <2>1 DEF Announced
    <3>3. \A j \in Instances : \A a \in DOMAIN outbox[j] : outbox[j][a] \in sent /\ At[outbox[j][a]] = j
      BY DEF Announced
    <3> QED  BY <1>1, <3>1, <3>2, <3>3 DEF Announced, Message
  <2>4. GotOrder(f)'
    <3> SUFFICES ASSUME NEW v \in Viewers, NEW a \in DOMAIN got'[v], NEW b \in DOMAIN got'[v],
                        At[got'[v][a]] = At[got'[v][b]], a < b
                 PROVE  f[got'[v][a]] < f[got'[v][b]]
      BY DEF GotOrder
    <3>1. a \in DOMAIN got[v] /\ got'[v][a] = got[v][a] /\ got[v][a] \in Requests
      BY <2>2
    <3>2. CASE b \in DOMAIN got[v] /\ got'[v][b] = got[v][b]
      BY <3>1, <3>2 DEF Numbers, GotOrder
    <3>3. CASE got'[v][b] = h /\ At[v] = i
      BY ZenonT(60), <1>2, <1>3, <1>7, <3>1, <3>3 DEF Numbers, Behind
    <3> QED  BY <2>2, <3>2, <3>3
  <2>5. Behind(f)'
    <3> SUFFICES ASSUME NEW v \in Viewers, NEW r \in Requests, NEW a \in DOMAIN got'[v],
                        got'[v][a] = r, At[r] # At[v]
                 PROVE  /\ \A b \in DOMAIN outbox[At[r]] : f[r] < f[outbox[At[r]][b]]
                        /\ \A b \in DOMAIN downlink'[At[v]], s \in Requests :
                              downlink'[At[v]][b] = Message(s) /\ At[s] = At[r] => f[r] < f[s]
      BY <1>1 DEF Behind, Message
    <3>1. CASE a \in DOMAIN got[v] /\ got[v][a] = r
      <4>1. \A b \in DOMAIN outbox[At[r]] : f[r] < f[outbox[At[r]][b]]
        BY <3>1 DEF Numbers, Behind
      <4>2. ASSUME NEW b \in DOMAIN downlink'[At[v]], NEW s \in Requests,
                   downlink'[At[v]][b] = Message(s), At[s] = At[r]
            PROVE  f[r] < f[s]
        <5>1. PICK c \in DOMAIN downlink[At[v]] : downlink[At[v]][c] = Message(s)
          BY <2>1, <4>2
        <5> QED  BY <3>1, <4>2, <5>1 DEF Numbers, Behind
      <4> QED  BY <4>1, <4>2
    <3>2. CASE r = h /\ At[v] = i
      <4>1. \A b \in DOMAIN outbox[At[r]] : f[r] < f[outbox[At[r]][b]]
        BY <1>2, <1>3, <3>2 DEF Numbers, DownOrder
      <4>2. ASSUME NEW b \in DOMAIN downlink'[i], NEW s \in Requests,
                   downlink'[i][b] = Message(s), At[s] = At[r]
            PROVE  f[r] < f[s]
        <5>1. b + 1 \in DOMAIN downlink[i] /\ 1 < b + 1 /\ downlink[i][b + 1] = Message(s)
          BY ONLY <1>2, <4>2, b \in DOMAIN downlink'[i]
        <5> QED  BY <1>2, <1>3, <3>2, <4>2, <5>1 DEF Numbers, DownOrder
      <4> QED  BY <3>2, <4>1, <4>2
    <3> QED  BY <2>2, <3>1, <3>2
  <2> QED  BY <1>1, <2>1, <2>3, <2>4, <2>5 DEF Numbers
<1> QED  BY <1>1, <1>6, <1>7
\* Commands, replies and publications that fail deliver nothing.
LEMMA OrderElse ==
    ASSUME TypeOK, Announced, NEW f \in [Requests -> Nat], NEW n \in Nat, Numbers(f, n),
           \/ UNCHANGED vars
           \/ \E v \in Viewers : ViewerStep(v)
           \/ \E i \in Instances : \/ Accept(i) \/ Refuse(i) \/ LosePublication(i)
                                   \/ Confirmed(i) \/ Failed(i)
    PROVE  Announced' /\ Numbers(f, n)'
<1>1. /\ UNCHANGED <<sent, got>>
      /\ \A j \in Instances : outbox'[j] = outbox[j] \/ (outbox[j] # <<>> /\ outbox'[j] = Tail(outbox[j]))
      /\ \A j \in Instances :
            \/ downlink'[j] = downlink[j]
            \/ downlink[j] # <<>> /\ downlink'[j] = Tail(downlink[j])
            \/ \E v \in Viewers, ok \in BOOLEAN : downlink'[j] = Append(downlink[j], Settled(v, ok))
  <2>1. CASE UNCHANGED vars
    BY <2>1 DEF vars, people, redis
  <2>2. ASSUME NEW v \in Viewers, ViewerStep(v) PROVE UNCHANGED <<sent, got, outbox, downlink>>
    BY <2>2 DEF ViewerStep, Subscribe, Leave
  <2>3. ASSUME NEW i \in Instances, Accept(i) \/ Refuse(i)
        PROVE  /\ UNCHANGED <<sent, got, outbox>>
               /\ \A j \in Instances :
                     \/ downlink'[j] = downlink[j]
                     \/ \E v \in Viewers, ok \in BOOLEAN : downlink'[j] = Append(downlink[j], Settled(v, ok))
    <3>1. UNCHANGED <<sent, got, outbox>> /\ uplink[i] # <<>>
      BY <2>3 DEF Accept, Refuse, people
    <3>2. CASE UNCHANGED downlink
      BY <3>1, <3>2
    <3>3. ASSUME NEW ok \in BOOLEAN, Reply(i, Settled(Head(uplink[i]).by, ok)),
                 Head(uplink[i]) # Unsubscription
          PROVE  \A j \in Instances :
                     \/ downlink'[j] = downlink[j]
                     \/ \E v \in Viewers : downlink'[j] = Append(downlink[j], Settled(v, ok))
      <4>1. Head(uplink[i]).by \in Viewers
        BY <3>1, <3>3, UplinkHead, CommandFacts
      <4> QED  BY <3>3, <4>1 DEF Reply, TypeOK
    <3> QED  BY <2>3, <3>1, <3>2, <3>3 DEF Accept, Refuse
  <2>4. ASSUME NEW i \in Instances, LosePublication(i)
        PROVE  /\ UNCHANGED <<sent, got, downlink>>
               /\ \A j \in Instances : outbox'[j] = outbox[j] \/ (outbox[j] # <<>> /\ outbox'[j] = Tail(outbox[j]))
    BY <2>4 DEF LosePublication, people, TypeOK
  <2>5. ASSUME NEW i \in Instances, Confirmed(i) \/ Failed(i)
        PROVE  /\ UNCHANGED <<sent, got, outbox>>
               /\ \A j \in Instances :
                     downlink'[j] = downlink[j] \/ (downlink[j] # <<>> /\ downlink'[j] = Tail(downlink[j]))
    <3>1. UNCHANGED <<sent, got, outbox>>
      BY <2>5 DEF Confirmed, Failed, people
    <3>2. downlink[i] # <<>> /\ Taken(i)
      BY <2>5 DEF Confirmed, Failed, NextIs
    <3> QED  BY <3>1, <3>2 DEF Taken, TypeOK
  <2> QED  BY <2>1, <2>2, <2>3, <2>4, <2>5
<1>2. \A j \in Instances : \E d \in {0, 1} : \A a \in DOMAIN outbox'[j] :
         a \in Nat /\ a + d \in DOMAIN outbox[j] /\ outbox'[j][a] = outbox[j][a + d]
  <2> SUFFICES ASSUME NEW j \in Instances
               PROVE  \E d \in {0, 1} : \A a \in DOMAIN outbox'[j] :
                         a \in Nat /\ a + d \in DOMAIN outbox[j] /\ outbox'[j][a] = outbox[j][a + d]
    OBVIOUS
  <2>1. CASE outbox'[j] = outbox[j]
    <3>1. DOMAIN outbox[j] = 1..Len(outbox[j])
      BY Queues
    <3>2. \A a \in DOMAIN outbox'[j] :
             a \in Nat /\ a + 0 \in DOMAIN outbox[j] /\ outbox'[j][a] = outbox[j][a + 0]
      BY ONLY <2>1, <3>1
    <3> QED  BY <3>2
  <2>2. CASE outbox[j] # <<>> /\ outbox'[j] = Tail(outbox[j])
    <3>1. /\ Len(outbox[j]) \in Nat /\ DOMAIN outbox[j] = 1..Len(outbox[j])
          /\ DOMAIN outbox'[j] = 1..Len(outbox[j]) - 1
          /\ \A a \in 1..Len(outbox[j]) - 1 : outbox'[j][a] = outbox[j][a + 1]
      BY <2>2, Queues, TailAt
    <3>2. \A a \in DOMAIN outbox'[j] :
             a \in Nat /\ a + 1 \in DOMAIN outbox[j] /\ outbox'[j][a] = outbox[j][a + 1]
      BY ONLY <3>1
    <3> QED  BY <3>2
  <2> QED  BY <1>1, <2>1, <2>2
<1>3. \A j \in Instances : \E d \in {0, 1} : \A a \in DOMAIN downlink'[j], s \in Requests :
         downlink'[j][a] = Message(s) =>
            a \in Nat /\ a + d \in DOMAIN downlink[j] /\ downlink[j][a + d] = Message(s)
  <2> SUFFICES ASSUME NEW j \in Instances
               PROVE  \E d \in {0, 1} : \A a \in DOMAIN downlink'[j], s \in Requests :
                         downlink'[j][a] = Message(s) =>
                            a \in Nat /\ a + d \in DOMAIN downlink[j] /\ downlink[j][a + d] = Message(s)
    OBVIOUS
  <2>1. DOMAIN downlink[j] = 1..Len(downlink[j]) /\ Len(downlink[j]) \in Nat /\ downlink[j] \in Seq(Replies)
    BY Queues
  <2>2. CASE downlink'[j] = downlink[j]
    <3>1. \A a \in DOMAIN downlink'[j] :
             a \in Nat /\ a + 0 \in DOMAIN downlink[j] /\ downlink'[j][a] = downlink[j][a + 0]
      BY ONLY <2>1, <2>2
    <3> QED  BY <3>1
  <2>3. CASE downlink[j] # <<>> /\ downlink'[j] = Tail(downlink[j])
    <3>1. /\ DOMAIN downlink'[j] = 1..Len(downlink[j]) - 1
          /\ \A a \in 1..Len(downlink[j]) - 1 : downlink'[j][a] = downlink[j][a + 1]
      BY <2>1, <2>3, TailAt
    <3>2. \A a \in DOMAIN downlink'[j] :
             a \in Nat /\ a + 1 \in DOMAIN downlink[j] /\ downlink'[j][a] = downlink[j][a + 1]
      BY ONLY <2>1, <3>1
    <3> QED  BY <3>2
  <2>4. ASSUME NEW v \in Viewers, NEW ok \in BOOLEAN, downlink'[j] = Append(downlink[j], Settled(v, ok))
        PROVE  \A a \in DOMAIN downlink'[j], s \in Requests : downlink'[j][a] = Message(s) =>
                  a \in Nat /\ a + 0 \in DOMAIN downlink[j] /\ downlink[j][a + 0] = Message(s)
    <3>1. Settled(v, ok) \in Replies
      BY ReplyFacts
    <3>2. /\ DOMAIN downlink'[j] = 1..Len(downlink[j]) + 1
          /\ \A a \in 1..Len(downlink[j]) : downlink'[j][a] = downlink[j][a]
          /\ downlink'[j][Len(downlink[j]) + 1] = Settled(v, ok)
      BY <2>1, <2>4, <3>1, AppendAt
    <3>3. \A a \in DOMAIN downlink'[j] :
             \/ a = Len(downlink[j]) + 1
             \/ a \in Nat /\ a + 0 \in DOMAIN downlink[j] /\ downlink'[j][a] = downlink[j][a + 0]
      BY ONLY <2>1, <3>2
    <3>4. \A s \in Requests : Settled(v, ok) # Message(s)
      BY Distinct
    <3> QED  BY <3>2, <3>3, <3>4
  <2> QED  BY <1>1, <2>2, <2>3, <2>4
<1> QED  BY <1>1, <1>2, <1>3, OrderForgets

\* Every operation keeps the order; only a broadcast extends the numbering.
LEMMA OrderKept == Order /\ [Next]_vars => Order'
<1> SUFFICES ASSUME Order, [Next]_vars PROVE Order'
  OBVIOUS
<1>1. TypeOK /\ TypeOK' /\ Announced
  BY TypeKept DEF Order
<1>2. PICK f \in [Requests -> Nat], n \in Nat : Numbers(f, n)
  BY DEF Order
<1>3. Announced' /\ Numbers(f, n)' => Order'
  BY <1>1, <1>2 DEF Order
<1>4. ASSUME NEW r \in Requests, Broadcast(r) PROVE Order'
  <2> DEFINE g == [f EXCEPT ![r] = n]
  <2>1. Announced' /\ g \in [Requests -> Nat] /\ Numbers(g, n + 1)'
    BY <1>1, <1>2, <1>4, OrderBroadcast
  <2> HIDE DEF g
  <2>2. n + 1 \in Nat
    OBVIOUS
  <2> QED  BY <1>1, <2>1, <2>2 DEF Order
<1>5. ASSUME NEW i \in Instances, Publish(i) PROVE Announced' /\ Numbers(f, n)'
  BY <1>1, <1>2, <1>5, OrderPublish
<1>6. ASSUME NEW i \in Instances, Received(i) PROVE Announced' /\ Numbers(f, n)'
  BY <1>1, <1>2, <1>6, OrderReceived
<1>7. CASE \/ UNCHANGED vars
           \/ \E v \in Viewers : ViewerStep(v)
           \/ \E i \in Instances : \/ Accept(i) \/ Refuse(i) \/ LosePublication(i)
                                   \/ Confirmed(i) \/ Failed(i)
  <2>1. Announced' /\ Numbers(f, n)'
    BY <1>1, <1>2, <1>7, OrderElse
  <2> QED  BY <1>3, <2>1
<1> QED  BY <1>4, <1>5, <1>6, <1>7, <1>3 DEF Next, TransportStep, ClientStep

\* Nothing is announced yet.
LEMMA OrderInit == Init => Order
<1> SUFFICES ASSUME Init PROVE Order
  OBVIOUS
<1>1. /\ \A i \in Instances : DOMAIN outbox[i] = {} /\ DOMAIN downlink[i] = {}
      /\ \A v \in Viewers : DOMAIN got[v] = {}
      /\ sent = {}
  BY DEF Init
<1>2. Announced
  BY <1>1 DEF Announced
<1>3. Numbers([r \in Requests |-> 0], 0)
  BY <1>1 DEF Numbers, OutOrder, DownOrder, GotOrder, Behind
<1>4. [r \in Requests |-> 0] \in [Requests -> Nat] /\ 0 \in Nat
  OBVIOUS
<1> QED  BY <1>2, <1>3, <1>4, TypeInit DEF Order

\* No viewer is sent an event twice, and all are sent the events of an instance
\* in the order in which it announced them (genericRedisHub.ts:98-115 and 186-206).
THEOREM OnceInOrder == Spec => []DeliveredOnceInOrder
<1>1. Order => DeliveredOnceInOrder
  <2> SUFFICES ASSUME Order PROVE DeliveredOnceInOrder
    OBVIOUS
  <2>1. PICK f \in [Requests -> Nat] : GotOrder(f)
    BY DEF Order, Numbers
  <2>2. /\ \A v \in Viewers : Len(got[v]) \in Nat /\ DOMAIN got[v] = 1..Len(got[v])
        /\ \A v \in Viewers : \A a \in DOMAIN got[v] : got[v][a] \in Requests
    BY Queues DEF Order
  <2>3. ASSUME NEW v \in Viewers, NEW a \in DOMAIN got[v], NEW b \in DOMAIN got[v],
               At[got[v][a]] = At[got[v][b]]
        PROVE  a < b <=> f[got[v][a]] < f[got[v][b]]
    <3>1. a \in Nat /\ b \in Nat
      BY <2>2
    <3>2. f[got[v][a]] \in Nat /\ f[got[v][b]] \in Nat
      BY <2>2
    <3>3. (a < b => f[got[v][a]] < f[got[v][b]]) /\ (b < a => f[got[v][b]] < f[got[v][a]])
      BY <2>1, <2>3 DEF GotOrder
    <3> QED  BY <3>1, <3>2, <3>3
  <2>4. ASSUME NEW v \in Viewers, NEW a \in DOMAIN got[v], NEW b \in DOMAIN got[v], got[v][a] = got[v][b]
        PROVE  a = b
    <3>1. a \in Nat /\ b \in Nat /\ f[got[v][a]] \in Nat
      BY <2>2
    <3>2. ~(a < b) /\ ~(b < a)
      BY <2>3, <2>4, <3>1
    <3> QED  BY <3>1, <3>2
  <2>5. \A v \in Viewers : IsInjective(got[v])
    BY <2>4 DEF IsInjective
  <2>6. ASSUME NEW v \in Viewers, NEW w \in Viewers,
               NEW a \in DOMAIN got[v], NEW b \in DOMAIN got[v],
               NEW c \in DOMAIN got[w], NEW d \in DOMAIN got[w],
               got[v][a] = got[w][c], got[v][b] = got[w][d], At[got[v][a]] = At[got[v][b]]
        PROVE  a < b <=> c < d
    BY <2>3, <2>6
  <2> QED  BY <2>5, <2>6 DEF DeliveredOnceInOrder
<1> QED  BY <1>1, OrderInit, OrderKept, PTL DEF Spec

-----------------------------------------------------------------------------
(* What is on its way stays on it.                                          *)

\* An instance with nothing but messages under way, and viewers on an open channel, listens.
LEMMA WayOpen ==
    ASSUME Channels, NEW r \in Requests, NEW v \in Viewers, OnItsWay(r, v)
    PROVE  /\ TypeOK /\ At[r] \in Instances /\ At[v] \in Instances
           /\ v \in Present(At[v]) /\ uplink[At[v]] = <<>>
           /\ At[v] \in linked /\ At[v] \in handling /\ At[v] \notin cut
           /\ \A k \in DOMAIN downlink[At[v]] : downlink[At[v]][k].kind = "message"
<1>1. TypeOK /\ At[r] \in Instances /\ At[v] \in Instances
  BY HubAssumption DEF Channels
<1>2. v \in Present(At[v])
  BY DEF OnItsWay, Present
<1>3. At[v] \in linked \cap handling
  BY HeardNow, <1>1, <1>2 DEF DeafOnlyWhenCut, OnItsWay
<1> QED  BY <1>1, <1>2, <1>3 DEF OnItsWay, Calm

\* The way is as open after a step that leaves the connection of the viewer's instance,
\* its subscription and the viewer alone, as long as the message is still on it.
LEMMA WayStays ==
    ASSUME NEW r \in Requests, NEW v \in Viewers, OnItsWay(r, v),
           stage'[v] = stage[v], uplink'[At[v]] = uplink[At[v]],
           At[v] \in linked', At[v] \notin cut',
           \A k \in DOMAIN downlink'[At[v]] : downlink'[At[v]][k].kind = "message",
           \/ \E k \in DOMAIN outbox'[At[r]] : outbox'[At[r]][k] = r
           \/ \E k \in DOMAIN downlink'[At[v]] : downlink'[At[v]][k] = Message(r)
    PROVE  OnItsWay(r, v)'
  BY DEF OnItsWay, Calm

\* Viewers and other announcements do not touch what is on its way.
LEMMA WayPeople ==
    ASSUME Channels, NEW r \in Requests, NEW v \in Viewers, OnItsWay(r, v), stage'[v] # "gone",
           (\E q \in Requests : Broadcast(q)) \/ (\E w \in Viewers : ViewerStep(w))
    PROVE  OnItsWay(r, v)'
<1> DEFINE i == At[v]
<1>1. /\ TypeOK /\ At[r] \in Instances /\ i \in Instances /\ v \in Present(i)
      /\ i \in linked /\ i \notin cut
      /\ \A k \in DOMAIN downlink[i] : downlink[i][k].kind = "message"
  BY WayOpen
<1>2. CASE \E q \in Requests : Broadcast(q)
  <2>1. PICK q \in Requests : Broadcast(q)
    BY <1>2
  <2>2. At[q] \in Instances /\ outbox[At[r]] \in Seq(Requests)
    BY <1>1, HubAssumption DEF TypeOK
  <2>3. outbox'[At[r]] = outbox[At[r]] \/ outbox'[At[r]] = Append(outbox[At[r]], q)
    BY <1>1, <2>1, <2>2 DEF Broadcast, TypeOK
  <2>4. (\E k \in DOMAIN outbox[At[r]] : outbox[At[r]][k] = r)
        => \E k \in DOMAIN outbox'[At[r]] : outbox'[At[r]][k] = r
    <3>1. CASE outbox'[At[r]] = Append(outbox[At[r]], q)
      <4>1. /\ DOMAIN outbox[At[r]] = 1..Len(outbox[At[r]]) /\ Len(outbox[At[r]]) \in Nat
            /\ DOMAIN outbox'[At[r]] = 1..Len(outbox[At[r]]) + 1
            /\ \A k \in 1..Len(outbox[At[r]]) : outbox'[At[r]][k] = outbox[At[r]][k]
        BY <2>2, <3>1, AppendAt
      <4> QED  BY <4>1
    <3> QED  BY <2>3, <3>1
  <2>5. UNCHANGED <<stage, uplink, linked, downlink, cut>>
    BY <2>1 DEF Broadcast, ghosts
  <2> QED  BY <1>1, <2>4, <2>5, WayStays DEF OnItsWay
<1>3. CASE \E w \in Viewers : ViewerStep(w)
  <2>1. PICK w \in Viewers : ViewerStep(w)
    BY <1>3
  <2>2. At[w] \in Instances
    BY HubAssumption
  <2>3. CASE Subscribe(w)
    <3>1. w # v /\ stage'[v] = stage[v]
      BY <1>1, <2>3 DEF Subscribe, Present, TypeOK
    <3>2. uplink'[i] = uplink[i] /\ i \notin cut'
      BY <1>1, <2>2, <2>3 DEF Subscribe, OpenChannel, TypeOK
    <3>3. UNCHANGED <<outbox, linked, downlink>>
      BY <2>3 DEF Subscribe
    <3> QED  BY <1>1, <3>1, <3>2, <3>3, WayStays DEF OnItsWay
  <2>4. CASE Leave(w)
    <3>1. w # v /\ stage'[v] = stage[v]
      BY <1>1, <2>4 DEF Leave, TypeOK
    <3>2. Present(i) # {w}
      BY <1>1, <3>1
    <3>3. uplink'[i] = uplink[i] /\ i \notin cut'
      BY <1>1, <2>2, <2>4, <3>2 DEF Leave, CloseChannel, Unsubscribe, TypeOK
    <3>4. UNCHANGED <<outbox, linked, downlink>>
      BY <2>4 DEF Leave
    <3> QED  BY <1>1, <3>1, <3>3, <3>4, WayStays DEF OnItsWay
  <2> QED  BY <2>1, <2>3, <2>4 DEF ViewerStep
<1> QED  BY <1>2, <1>3

\* Redis puts a publication behind the messages on the connection, or fails to take it.
LEMMA WayPublication ==
    ASSUME Channels, NEW r \in Requests, NEW v \in Viewers, OnItsWay(r, v), r \notin lost',
           NEW j \in Instances, Publish(j) \/ LosePublication(j)
    PROVE  OnItsWay(r, v)'
<1> DEFINE i == At[v]
           h == Head(outbox[j])
<1>1. /\ TypeOK /\ At[r] \in Instances /\ i \in Instances
      /\ i \in linked /\ i \notin cut
      /\ \A k \in DOMAIN downlink[i] : downlink[i][k].kind = "message"
  BY WayOpen
<1>2. /\ UNCHANGED <<stage, uplink, linked, cut>>
      /\ outbox[j] # <<>> /\ outbox'[j] = Tail(outbox[j])
      /\ \A k \in Instances : k # j => outbox'[k] = outbox[k]
      /\ Publish(j) => downlink'[i] = Append(downlink[i], Message(h))
      /\ LosePublication(j) => downlink' = downlink /\ h \in lost'
  BY <1>1 DEF Publish, LosePublication, people, ghosts, TypeOK
<1>3. outbox[j] \in Seq(Requests) /\ downlink[i] \in Seq(Replies) /\ h \in Requests
  BY <1>1, <1>2, OutboxHead DEF TypeOK
<1>4. Message(h) \in Replies /\ Message(h).kind = "message"
  BY <1>3, ReplyFacts
<1>5. /\ \A k \in DOMAIN downlink'[i] : downlink'[i][k].kind = "message"
      /\ (\E k \in DOMAIN downlink[i] : downlink[i][k] = Message(r))
         => \E k \in DOMAIN downlink'[i] : downlink'[i][k] = Message(r)
      /\ Publish(j) => \E k \in DOMAIN downlink'[i] : downlink'[i][k] = Message(h)
  <2>1. CASE Publish(j)
    <3>1. /\ DOMAIN downlink[i] = 1..Len(downlink[i]) /\ Len(downlink[i]) \in Nat
          /\ DOMAIN downlink'[i] = 1..Len(downlink[i]) + 1
          /\ \A k \in 1..Len(downlink[i]) : downlink'[i][k] = downlink[i][k]
          /\ downlink'[i][Len(downlink[i]) + 1] = Message(h)
      BY <1>2, <1>3, <1>4, <2>1, AppendAt
    <3>2. \A k \in DOMAIN downlink'[i] : k \in DOMAIN downlink[i] \/ k = Len(downlink[i]) + 1
      BY <3>1
    <3>3. \A k \in DOMAIN downlink'[i] : downlink'[i][k].kind = "message"
      BY <1>1, <1>4, <3>1, <3>2
    <3>4. (\E k \in DOMAIN downlink[i] : downlink[i][k] = Message(r))
          => \E k \in DOMAIN downlink'[i] : downlink'[i][k] = Message(r)
      BY <3>1
    <3>5. Len(downlink[i]) + 1 \in DOMAIN downlink'[i]
      BY <3>1
    <3> QED  BY <3>1, <3>3, <3>4, <3>5
  <2>2. CASE LosePublication(j) /\ ~Publish(j)
    BY <1>1, <1>2, <2>2
  <2> QED  BY <2>1, <2>2
<1>6. ASSUME NEW k \in DOMAIN outbox[At[r]], outbox[At[r]][k] = r
      PROVE  h = r \/ \E l \in DOMAIN outbox'[At[r]] : outbox'[At[r]][l] = r
  <2>1. CASE At[r] # j
    BY <1>1, <1>2, <1>6, <2>1
  <2>2. CASE At[r] = j /\ k = 1
    BY <1>2, <1>3, <1>6, <2>2, TailAt
  <2>3. CASE At[r] = j /\ k # 1
    <3>1. /\ DOMAIN outbox[j] = 1..Len(outbox[j]) /\ Len(outbox[j]) \in Nat
          /\ DOMAIN outbox'[j] = 1..Len(outbox[j]) - 1
          /\ \A l \in 1..Len(outbox[j]) - 1 : outbox'[j][l] = outbox[j][l + 1]
      BY <1>2, <1>3, TailAt
    <3>2. k - 1 \in 1..Len(outbox[j]) - 1 /\ (k - 1) + 1 = k
      BY <1>6, <2>3, <3>1
    <3> QED  BY <1>6, <2>3, <3>1, <3>2
  <2> QED  BY <2>1, <2>2, <2>3
<1>7. h = r => Publish(j)
  BY <1>2
<1> HIDE DEF h
<1>8. \/ \E k \in DOMAIN outbox'[At[r]] : outbox'[At[r]][k] = r
      \/ \E k \in DOMAIN downlink'[i] : downlink'[i][k] = Message(r)
  BY <1>5, <1>6, <1>7 DEF OnItsWay
<1> QED  BY <1>1, <1>2, <1>5, <1>8, WayStays

\* The next message on the connection is delivered, and the others move up.
LEMMA WayReceived ==
    ASSUME Channels, NEW r \in Requests, NEW v \in Viewers, At[r] # At[v], OnItsWay(r, v),
           Received(At[v])
    PROVE  OnItsWay(r, v)' \/ Reached(r, v)'
<1> DEFINE i == At[v]
           m == Head(downlink[i])
<1>1. /\ TypeOK /\ At[r] \in Instances /\ i \in Instances /\ v \in Present(i)
      /\ i \in linked /\ i \in handling /\ i \notin cut
      /\ \A k \in DOMAIN downlink[i] : downlink[i][k].kind = "message"
  BY WayOpen
<1>2. /\ UNCHANGED <<stage, uplink, linked, cut, outbox>>
      /\ downlink[i] # <<>> /\ downlink'[i] = Tail(downlink[i])
      /\ got' = IF i \in handling /\ At[m.of] # i THEN Delivered(i, m.of) ELSE got
  BY <1>1 DEF Received, NextIs, Taken, people, channel, ghosts, TypeOK
<1>3. /\ downlink[i] \in Seq(Replies) /\ m = downlink[i][1]
      /\ DOMAIN downlink[i] = 1..Len(downlink[i]) /\ Len(downlink[i]) \in Nat
      /\ DOMAIN downlink'[i] = 1..Len(downlink[i]) - 1
      /\ \A l \in 1..Len(downlink[i]) - 1 : downlink'[i][l] = downlink[i][l + 1]
  <2>1. downlink[i] \in Seq(Replies)
    BY <1>1 DEF TypeOK
  <2> QED  BY <2>1, <1>2, TailAt
<1>4. CASE m = Message(r)
  <2>1. m.of = r
    BY <1>4, ReplyFacts
  <2>2. got' = Delivered(i, r)
    BY <1>1, <1>2, <2>1
  <2>3. DOMAIN got'[v] = 1..Len(got[v]) + 1 /\ got'[v][Len(got[v]) + 1] = r
    BY <1>1, <2>2, DeliveredAt
  <2>4. Len(got[v]) \in Nat
    BY <1>1, LenProperties DEF TypeOK
  <2> QED  BY <2>3, <2>4 DEF Reached
<1>5. CASE m # Message(r)
  <2>1. \A k \in DOMAIN downlink'[i] : downlink'[i][k].kind = "message"
    BY <1>1, <1>3
  <2>2. ASSUME NEW k \in DOMAIN downlink[i], downlink[i][k] = Message(r)
        PROVE  \E l \in DOMAIN downlink'[i] : downlink'[i][l] = Message(r)
    <3>1. k - 1 \in 1..Len(downlink[i]) - 1 /\ (k - 1) + 1 = k
      BY <1>3, <1>5, <2>2
    <3> QED  BY <1>3, <2>2, <3>1
  <2> QED  BY <1>1, <1>2, <2>1, <2>2, WayStays DEF OnItsWay
<1> QED  BY <1>4, <1>5

\* Commands and replies of other instances, and what they read, are on their own connections.
LEMMA WayElsewhere ==
    ASSUME Channels, NEW r \in Requests, NEW v \in Viewers, OnItsWay(r, v), NEW j \in Instances,
           \/ Accept(j) \/ Refuse(j) \/ Confirmed(j) \/ Failed(j)
           \/ Received(j) /\ j # At[v]
    PROVE  OnItsWay(r, v)'
<1> DEFINE i == At[v]
<1>1. /\ TypeOK /\ At[r] \in Instances /\ i \in Instances /\ uplink[i] = <<>>
      /\ i \in linked /\ i \notin cut
      /\ \A k \in DOMAIN downlink[i] : downlink[i][k].kind = "message"
  BY WayOpen
<1>2. j # i
  <2>1. ~Accept(i) /\ ~Refuse(i)
    BY <1>1 DEF Accept, Refuse
  <2>2. ASSUME downlink[i] # <<>> PROVE Head(downlink[i]).kind = "message"
    <3>1. downlink[i] \in Seq(Replies)
      BY <1>1 DEF TypeOK
    <3> QED  BY <1>1, <2>2, <3>1, TailAt
  <2>3. ~Confirmed(i) /\ ~Failed(i)
    BY <2>2 DEF Confirmed, Failed, NextIs
  <2> QED  BY <2>1, <2>3
<1>3. UNCHANGED <<stage, outbox>>
  BY DEF Accept, Refuse, Confirmed, Failed, Received, people
<1>4. uplink'[i] = uplink[i] /\ downlink'[i] = downlink[i]
  <2>1. CASE Accept(j) \/ Refuse(j)
    BY <1>1, <1>2, <2>1 DEF Accept, Refuse, Reply, TypeOK
  <2>2. CASE Confirmed(j)
    BY <1>1, <1>2, <2>2 DEF Confirmed, Taken, Unsubscribe, TypeOK
  <2>3. CASE Failed(j) \/ Received(j)
    BY <1>1, <1>2, <2>3 DEF Failed, Received, Taken, TypeOK
  <2> QED  BY <2>1, <2>2, <2>3
<1>5. i \in linked' /\ i \notin cut'
  BY <1>1, <1>2 DEF Accept, Refuse, Confirmed, Failed, Received, Unsubscribe, ghosts
<1> QED  BY <1>1, <1>3, <1>4, <1>5, WayStays DEF OnItsWay

\* Once a message is on its way to a viewer that is subscribed, no order of subscriptions,
\* departures, commands and failures takes it off: the channel is open because the viewer
\* is there (localSubscriptionManager.ts:25-56, genericRedisHub.ts:98-137).
THEOREM NewsIsKept == Spec => NewsNotDropped
<1>1. ASSUME Channels, [Next]_vars, NEW r \in Requests, NEW v \in Viewers, At[r] # At[v],
             OnItsWay(r, v), stage'[v] # "gone", r \notin lost'
      PROVE  OnItsWay(r, v)' \/ Reached(r, v)'
  <2>1. CASE (\E q \in Requests : Broadcast(q)) \/ (\E w \in Viewers : ViewerStep(w))
    BY <1>1, <2>1, WayPeople
  <2>2. ASSUME NEW j \in Instances, TransportStep(j) PROVE OnItsWay(r, v)' \/ Reached(r, v)'
    <3>1. CASE Publish(j) \/ LosePublication(j)
      BY <1>1, <3>1, WayPublication
    <3>2. CASE Received(j) /\ j = At[v]
      BY <1>1, <3>2, WayReceived
    <3>3. CASE \/ Accept(j) \/ Refuse(j) \/ Confirmed(j) \/ Failed(j)
               \/ Received(j) /\ j # At[v]
      BY <1>1, <3>3, WayElsewhere
    <3> QED  BY <2>2, <3>1, <3>2, <3>3 DEF TransportStep, ClientStep
  <2>3. CASE UNCHANGED vars
    BY <1>1, <2>3 DEF vars, people, channel, redis, ghosts, OnItsWay, Calm
  <2> QED  BY <1>1, <2>1, <2>2, <2>3 DEF Next
<1>2. Channels /\ [Next]_vars => [NewsKept]_vars
  BY <1>1 DEF NewsKept
<1> QED  BY <1>2, AlwaysChannels, PTL DEF Spec, NewsNotDropped

-----------------------------------------------------------------------------
(* The hub implements EventChannel.  A position in the log is as good as    *)
(* the number of the event there; what is under way comes later in the log  *)
(* than what has arrived from the same instance.                            *)

\* An instance's log holds what it has announced, and nothing else.
InLog ==
    /\ log \in [Instances -> Seq(Requests)]
    /\ \A i \in Instances : \A k \in DOMAIN log[i] : log[i][k] \in sent /\ At[log[i][k]] = i
    /\ \A r \in sent : \E k \in DOMAIN log[At[r]] : log[At[r]][k] = r

\* The numbers rise along every log.
LogOrder(f) == \A i \in Instances : \A k, l \in DOMAIN log[i] : k < l => f[log[i][k]] < f[log[i][l]]

Logs ==
    /\ TypeOK /\ Announced /\ InLog
    /\ \E f \in [Requests -> Nat], n \in Nat : Numbers(f, n) /\ LogOrder(f)

\* A log is a sequence of announcements.
LEMMA LogShape ==
    ASSUME InLog
    PROVE  \A i \in Instances :
              /\ log[i] \in Seq(Requests) /\ Len(log[i]) \in Nat /\ DOMAIN log[i] = 1..Len(log[i])
              /\ \A k \in DOMAIN log[i] : k \in Nat /\ log[i][k] \in Requests
<1>1. \A i \in Instances : log[i] \in Seq(Requests)
  BY DEF InLog
<1> QED  BY <1>1, LenProperties, ElementOfSeq

\* Only a broadcast announces anything.
LEMMA SilentElse ==
    ASSUME [Next]_vars, ~\E r \in Requests : Broadcast(r)
    PROVE  sent' = sent
BY DEF Next, vars, people, ViewerStep, Subscribe, Leave, TransportStep, ClientStep, Accept, Refuse,
       Publish, LosePublication, Confirmed, Failed, Received

\* A broadcast puts its event at the end of its instance's log.
LEMMA BroadcastLogged ==
    ASSUME TypeOK, InLog, NEW r \in Requests, Broadcast(r), Record
    PROVE  /\ InLog'
           /\ log' = [log EXCEPT ![At[r]] = Append(log[At[r]], r)]
           /\ \A i \in Instances : \A k \in DOMAIN log'[i] :
                 \/ k \in DOMAIN log[i] /\ log'[i][k] = log[i][k] /\ log[i][k] \in sent
                 \/ i = At[r] /\ k = Len(log[i]) + 1 /\ log'[i][k] = r
<1>1. r \notin sent /\ sent' = sent \cup {r} /\ At[r] \in Instances
  BY HubAssumption DEF Broadcast
<1>2. log' = [log EXCEPT ![At[r]] = Append(log[At[r]], r)]
  BY <1>1 DEF Record
<1>3. /\ log \in [Instances -> Seq(Requests)]
      /\ \A i \in Instances : \A k \in DOMAIN log[i] : log[i][k] \in sent /\ At[log[i][k]] = i
      /\ \A s \in sent : \E k \in DOMAIN log[At[s]] : log[At[s]][k] = s
  BY DEF InLog
<1>4. /\ Append(log[At[r]], r) \in Seq(Requests)
      /\ Len(log[At[r]]) \in Nat /\ DOMAIN log[At[r]] = 1..Len(log[At[r]])
      /\ DOMAIN Append(log[At[r]], r) = 1..Len(log[At[r]]) + 1
      /\ \A k \in 1..Len(log[At[r]]) : Append(log[At[r]], r)[k] = log[At[r]][k]
      /\ Append(log[At[r]], r)[Len(log[At[r]]) + 1] = r
  BY <1>1, <1>3, AppendAt
<1>5. /\ log' \in [Instances -> Seq(Requests)]
      /\ log'[At[r]] = Append(log[At[r]], r)
      /\ \A i \in Instances : i # At[r] => log'[i] = log[i]
  BY <1>1, <1>2, <1>3, <1>4
<1>6. ASSUME NEW i \in Instances, NEW k \in DOMAIN log'[i]
      PROVE  \/ k \in DOMAIN log[i] /\ log'[i][k] = log[i][k] /\ log[i][k] \in sent
             \/ i = At[r] /\ k = Len(log[i]) + 1 /\ log'[i][k] = r
  <2>1. CASE i # At[r]
    BY <1>3, <1>5, <2>1
  <2>2. CASE i = At[r]
    <3>0. DOMAIN log'[i] = 1..Len(log[i]) + 1 /\ Len(log[i]) \in Nat
      BY <1>4, <1>5, <2>2
    <3>1. k \in 1..Len(log[i]) \/ k = Len(log[i]) + 1
      BY ONLY <3>0, k \in DOMAIN log'[i]
    <3> QED  BY <1>3, <1>4, <1>5, <2>2, <3>1
  <2> QED  BY <2>1, <2>2
<1>7. \A i \in Instances : \A k \in DOMAIN log'[i] : log'[i][k] \in sent' /\ At[log'[i][k]] = i
  BY <1>1, <1>3, <1>6
<1>8. ASSUME NEW s \in sent' PROVE \E k \in DOMAIN log'[At[s]] : log'[At[s]][k] = s
  <2>1. CASE s = r
    <3>1. Len(log[At[r]]) + 1 \in DOMAIN log'[At[r]] /\ log'[At[r]][Len(log[At[r]]) + 1] = r
      BY <1>4, <1>5
    <3> QED  BY <2>1, <3>1
  <2>2. CASE s # r
    <3>1. PICK k \in DOMAIN log[At[s]] : log[At[s]][k] = s
      BY <1>1, <1>3, <2>2
    <3>2. At[s] \in Instances
      BY <1>1, <2>2, HubAssumption DEF TypeOK
    <3>3. k \in DOMAIN log'[At[s]] /\ log'[At[s]][k] = s
      <4>1. CASE At[s] = At[r]
        BY <1>4, <1>5, <3>1, <4>1
      <4>2. CASE At[s] # At[r]
        BY <1>5, <3>1, <3>2, <4>2
      <4> QED  BY <4>1, <4>2
    <3> QED  BY <3>3
  <2> QED  BY <2>1, <2>2
<1>9. InLog'
  BY <1>5, <1>7, <1>8 DEF InLog
<1> QED  BY <1>2, <1>6, <1>9

\* Every step keeps the logs.
LEMMA LogsKept == Logs /\ [Next /\ Record]_<<vars, log>> => Logs'
<1> SUFFICES ASSUME Logs, [Next /\ Record]_<<vars, log>> PROVE Logs'
  OBVIOUS
<1>1. TypeOK /\ TypeOK' /\ Announced /\ InLog /\ [Next]_vars
  BY TypeKept DEF Logs
<1>2. PICK f \in [Requests -> Nat], n \in Nat : Numbers(f, n) /\ LogOrder(f)
  BY DEF Logs
<1>3. ASSUME NEW r \in Requests, Broadcast(r), Record PROVE Logs'
  <2> DEFINE g == [f EXCEPT ![r] = n]
  <2>1. Announced' /\ g \in [Requests -> Nat] /\ Numbers(g, n + 1)'
    BY <1>1, <1>2, <1>3, OrderBroadcast
  <2>2. g[r] = n /\ \A s \in sent : s # r /\ s \in Requests /\ g[s] = f[s] /\ g[s] < n
    BY <1>1, <1>2, <1>3 DEF Numbers, TypeOK, Broadcast
  <2> HIDE DEF g
  <2>3. LogOrder(g)'
    <3> SUFFICES ASSUME NEW i \in Instances, NEW k \in DOMAIN log'[i], NEW l \in DOMAIN log'[i], k < l
                 PROVE  g[log'[i][k]] < g[log'[i][l]]
      BY DEF LogOrder
    <3>1. /\ \/ k \in DOMAIN log[i] /\ log'[i][k] = log[i][k] /\ log[i][k] \in sent
             \/ i = At[r] /\ k = Len(log[i]) + 1 /\ log'[i][k] = r
          /\ \/ l \in DOMAIN log[i] /\ log'[i][l] = log[i][l] /\ log[i][l] \in sent
             \/ i = At[r] /\ l = Len(log[i]) + 1 /\ log'[i][l] = r
      BY <1>1, <1>3, BroadcastLogged
    <3>2. DOMAIN log[i] = 1..Len(log[i]) /\ Len(log[i]) \in Nat
      BY <1>1, LogShape
    <3>3. k \in DOMAIN log[i] /\ log'[i][k] = log[i][k] /\ log[i][k] \in sent
      BY <3>1, <3>2
    <3>4. CASE log'[i][l] = r
      BY <2>2, <3>3, <3>4
    <3>5. CASE l \in DOMAIN log[i] /\ log'[i][l] = log[i][l] /\ log[i][l] \in sent
      BY <1>2, <2>2, <3>3, <3>5 DEF LogOrder
    <3> QED  BY <3>1, <3>4, <3>5
  <2>4. InLog' /\ n + 1 \in Nat
    BY <1>1, <1>3, BroadcastLogged
  <2> QED  BY <1>1, <2>1, <2>3, <2>4 DEF Logs
<1>4. ASSUME Announced', Numbers(f, n)', sent' = sent, log' = log PROVE Logs'
  <2>1. InLog' /\ LogOrder(f)'
    BY <1>1, <1>2, <1>4 DEF InLog, LogOrder
  <2> QED  BY <1>1, <1>2, <1>4, <2>1 DEF Logs
<1>5. CASE ~\E r \in Requests : Broadcast(r)
  <2>1. sent' = sent
    BY <1>1, <1>5, SilentElse
  <2>2. log' = log
    BY <2>1 DEF Record
  <2>3. Announced' /\ Numbers(f, n)'
    <3>1. ASSUME NEW i \in Instances, Publish(i) PROVE Announced' /\ Numbers(f, n)'
      BY <1>1, <1>2, <3>1, OrderPublish
    <3>2. ASSUME NEW i \in Instances, Received(i) PROVE Announced' /\ Numbers(f, n)'
      BY <1>1, <1>2, <3>2, OrderReceived
    <3>3. CASE \/ UNCHANGED vars
               \/ \E v \in Viewers : ViewerStep(v)
               \/ \E i \in Instances : \/ Accept(i) \/ Refuse(i) \/ LosePublication(i)
                                       \/ Confirmed(i) \/ Failed(i)
      BY <1>1, <1>2, <3>3, OrderElse
    <3> QED  BY <1>1, <1>5, <3>1, <3>2, <3>3 DEF Next, TransportStep, ClientStep
  <2> QED  BY <1>4, <2>1, <2>2, <2>3
<1>6. CASE \E r \in Requests : Broadcast(r)
  <2>1. PICK r \in Requests : Broadcast(r)
    BY <1>6
  <2>2. sent' # sent
    BY <2>1 DEF Broadcast
  <2>3. Record
    BY <2>2 DEF vars, people
  <2> QED  BY <1>3, <2>1, <2>3
<1> QED  BY <1>5, <1>6

\* Nothing is logged yet.
LEMMA LogsInit == LogInit => Logs
<1> SUFFICES ASSUME LogInit PROVE Logs
  OBVIOUS
<1>1. Order /\ sent = {} /\ \A i \in Instances : log[i] = <<>> /\ DOMAIN log[i] = {}
  BY OrderInit DEF LogInit, Init
<1>2. log \in [Instances -> Seq(Requests)]
  BY DEF LogInit
<1>3. InLog /\ \A f : LogOrder(f)
  BY <1>1, <1>2 DEF InLog, LogOrder
<1> QED  BY <1>1, <1>3 DEF Logs, Order

-----------------------------------------------------------------------------
\* A message that is delivered comes later in the log than all that its receivers have.
LEMMA DeliversLater ==
    ASSUME Logs, NEW i \in Instances, Received(i), got' # got, log' = log
    PROVE  \E j \in Instances : \E k \in DOMAIN log[j] : Channel!Deliver(j, k, i)
<1> DEFINE r == Head(downlink[i]).of
<1>1. TypeOK /\ Announced /\ InLog
  BY DEF Logs
<1>2. PICK f \in [Requests -> Nat], n \in Nat : Numbers(f, n) /\ LogOrder(f)
  BY DEF Logs
<1>3. /\ got' = Delivered(i, r) /\ At[r] # i /\ UNCHANGED <<stage>>
      /\ downlink[i] # <<>> /\ Head(downlink[i]).kind = "message"
  BY DEF Received, NextIs, people
<1>4. r \in Requests /\ 1 \in DOMAIN downlink[i] /\ downlink[i][1] = Message(r)
  <2>1. downlink[i] \in Seq(Replies)
    BY <1>1 DEF TypeOK
  <2>2. /\ Head(downlink[i]) \in Replies /\ Head(downlink[i]) = downlink[i][1]
        /\ 1 \in DOMAIN downlink[i]
    BY <1>3, <2>1, TailAt
  <2> QED  BY <1>3, <2>2, ReplyFacts
<1> HIDE DEF r
<1> DEFINE j == At[r]
<1>5. r \in sent /\ j \in Instances /\ j # i
  BY <1>1, <1>3, <1>4, HubAssumption DEF Announced
<1>6. PICK k \in DOMAIN log[j] : log[j][k] = r
  BY <1>1, <1>5 DEF InLog
<1>7. ASSUME NEW v \in Viewers, At[v] = i, NEW a \in DOMAIN got[v], NEW l \in DOMAIN log[j],
             got[v][a] = log[j][l]
      PROVE  l < k
  <2> DEFINE s == log[j][l]
  <2>1. s \in Requests /\ At[s] = j /\ l \in Nat /\ k \in Nat
    BY <1>1, <1>5, LogShape DEF InLog
  <2>2. f[s] < f[r]
    BY <1>2, <1>4, <1>5, <1>7, <2>1 DEF Numbers, Behind
  <2>3. f[s] \in Nat /\ f[r] \in Nat
    BY <1>4, <2>1
  <2>4. k < l => f[r] < f[s]
    BY <1>2, <1>5, <1>6 DEF LogOrder
  <2>5. k = l => f[r] = f[s]
    BY <1>6
  <2> HIDE DEF s
  <2> QED  BY <2>1, <2>2, <2>3, <2>4, <2>5
<1>8. got' = Channel!Sent(i, log[j][k])
  BY <1>3, <1>6 DEF Delivered, Present, Channel!Sent, Channel!Watching
<1>9. \A v \in Channel!Watching(i) : Channel!Awaits(v, j, k)
  BY <1>7 DEF Channel!Awaits, Channel!Watching
<1>10. Channel!Deliver(j, k, i)
  BY <1>3, <1>5, <1>8, <1>9 DEF Channel!Deliver
<1> QED  BY <1>5, <1>6, <1>10

\* Every step is one of the channel's or leaves it alone.
LEMMA ChannelStep ==
    Logs /\ [Next /\ Record]_<<vars, log>> => [Channel!Next]_Channel!channelVars
<1> SUFFICES ASSUME Logs, [Next /\ Record]_<<vars, log>>
             PROVE  [Channel!Next]_Channel!channelVars
  OBVIOUS
<1>1. TypeOK /\ Announced /\ InLog
  BY DEF Logs
<1>2. CASE UNCHANGED <<vars, log>>
  BY <1>2 DEF vars, people, Channel!channelVars
<1>3. ASSUME NEW r \in Requests, Broadcast(r), Record PROVE Channel!Announce(r)
  <2>1. log' = [log EXCEPT ![At[r]] = Append(log[At[r]], r)]
    BY <1>1, <1>3, BroadcastLogged
  <2>2. \A i \in Instances : \A k \in DOMAIN log[i] : log[i][k] # r
    BY <1>1, <1>3 DEF Broadcast, InLog
  <2>3. got' = Channel!Sent(At[r], r) /\ stage' = stage
    BY <1>3 DEF Broadcast, Delivered, Present, Channel!Sent, Channel!Watching
  <2> QED  BY <2>1, <2>2, <2>3 DEF Channel!Announce
<1>4. CASE Next /\ Record /\ ~\E r \in Requests : Broadcast(r)
  <2>1. log' = log
    <3>1. sent' = sent
      BY <1>4, SilentElse
    <3> QED  BY <1>4, <3>1 DEF Record
  <2>2. ASSUME NEW v \in Viewers, ViewerStep(v) PROVE Channel!Come(v) \/ Channel!Go(v)
    BY <2>1, <2>2 DEF ViewerStep, Subscribe, Leave, Channel!Come, Channel!Go
  <2>3. ASSUME NEW i \in Instances, Received(i)
        PROVE  \/ UNCHANGED <<log, got, stage>>
               \/ \E j \in Instances : \E k \in DOMAIN log[j] : Channel!Deliver(j, k, i)
    <3>1. CASE got' = got
      BY <2>1, <2>3, <3>1 DEF Received, people
    <3>2. CASE got' # got
      BY <2>1, <2>3, <3>2, DeliversLater
    <3> QED  BY <3>1, <3>2
  <2>4. ASSUME NEW i \in Instances, \/ Accept(i) \/ Refuse(i) \/ Publish(i) \/ LosePublication(i)
                                    \/ Confirmed(i) \/ Failed(i)
        PROVE  UNCHANGED <<log, got, stage>>
    BY <2>1, <2>4 DEF Accept, Refuse, Publish, LosePublication, Confirmed, Failed, people
  <2>5. CASE \E v \in Viewers : ViewerStep(v)
    BY <2>2, <2>5 DEF Channel!Next
  <2>6. CASE \E i \in Instances : Received(i)
    BY <2>3, <2>6 DEF Channel!Next, Channel!channelVars
  <2>7. CASE \E i \in Instances : \/ Accept(i) \/ Refuse(i) \/ Publish(i) \/ LosePublication(i)
                                  \/ Confirmed(i) \/ Failed(i)
    BY <2>4, <2>7 DEF Channel!channelVars
  <2> QED  BY <1>4, <2>5, <2>6, <2>7 DEF Next, TransportStep, ClientStep
<1> QED  BY <1>2, <1>3, <1>4 DEF Channel!Next

\* The hub keeps the promise of EventChannel for any number of instances, viewers, events
\* and failed commands (genericRedisHub.ts:98-115 and 186-206).
THEOREM ChannelKept == LogSpec => ImplementsChannel
<1>1. LogInit => Channel!Init
  BY DEF LogInit, Init, Channel!Init
<1>2. LogSpec => []Logs
  BY LogsInit, LogsKept, PTL DEF LogSpec
<1> QED  BY <1>1, <1>2, ChannelStep, PTL DEF LogSpec, ImplementsChannel, Channel!Spec

================================================================================
