------------------------ MODULE ConversationFeed_proofs ------------------------
(***************************************************************************)
(* Proofs about ConversationFeed: it is a behaviour of the hub, so that    *)
(* all that is proved of ChannelHub holds of it; the shape of its state;   *)
(* and that a list which shows an old version is one of the known cases.   *)
(***************************************************************************)
EXTENDS ConversationFeed, ChannelHub_proofs, FiniteSetTheorems

-----------------------------------------------------------------------------
(* The feed and the hub.                                                    *)

\* A request before it reads back what it wrote.
Asked(r) == Archive(r) \/ Share(r) \/ Drop(r) \/ GiveUp(r)

\* What happens in the feed is an operation of the hub or leaves it alone.
LEMMA FeedStepIsHubStep == [FeedNext]_<<hub, feed>> => [Next]_vars
<1>1. ASSUME NEW r \in Requests, Asked(r) \/ Refresh(r) \/ Fill(r) PROVE UNCHANGED vars
  BY <1>1 DEF Asked, Archive, Share, Write, Drop, GiveUp, Refresh, Fill, hub
<1>2. ASSUME LookUp \/ PutBack \/ Expire PROVE UNCHANGED vars
  BY <1>2 DEF LookUp, PutBack, Expire, hub
<1>3. ASSUME NEW v \in Viewers, ReadList(v) PROVE UNCHANGED vars
  BY <1>3 DEF ReadList, hub
<1>4. ASSUME NEW v \in Viewers, Join(v) PROVE Next
  BY <1>4 DEF Join, Next, ViewerStep
<1>5. ASSUME NEW r \in Requests, Announce(r) PROVE Next
  BY <1>5 DEF Announce, Next
<1>6. ASSUME HubStep PROVE Next
  BY <1>6 DEF HubStep, Next, ViewerStep
<1>7. CASE FeedNext
  BY <1>1, <1>2, <1>3, <1>4, <1>5, <1>6, <1>7 DEF FeedNext, Asked
<1> QED  BY <1>7 DEF hub

\* The feed is a behaviour of the hub (conversations/stream/route.ts and
\* conversations/[id]/route.ts use nothing but its broadcast and subscribe).
THEOREM FeedIsHub == FeedSpec => Spec
  BY FeedStepIsHubStep, PTL DEF FeedSpec, FeedInit, Spec

-----------------------------------------------------------------------------
(* What holds of requests, viewers and their versions.                      *)

\* A request is announced once it has read; a viewer subscribes once it has
\* read the list, and is sent nothing before.
Stages ==
    /\ record \in Nat
    /\ cache \subseteq 0 .. record /\ reads \subseteq 0 .. record
    /\ phase \in [Requests -> Phases]
    /\ held \in [Requests -> Nat] /\ \A r \in Requests : held[r] <= record
    /\ listed \subseteq Viewers
    /\ snap \in [Viewers -> Nat] /\ \A v \in Viewers : snap[v] <= record
    /\ raced \in BOOLEAN /\ slipped \in BOOLEAN
    /\ exposed \subseteq listed
    /\ \A r \in sent : phase[r] = "read"
    /\ \A v \in Viewers : stage[v] # "new" => v \in listed
    /\ \A v \in Viewers : stage[v] = "new" => got[v] = <<>>

\* Viewers come and go, and are sent events, one operation at a time.
LEMMA HubFrame ==
    ASSUME TypeOK, HubStep
    PROVE  /\ sent' = sent
           /\ \A v \in Viewers : stage'[v] = stage[v] \/ (stage[v] = "in" /\ stage'[v] = "gone")
           /\ \A v \in Viewers : stage[v] = "new" => got'[v] = got[v]
<1>1. ASSUME NEW v \in Viewers, Leave(v)
      PROVE  sent' = sent /\ got' = got /\ stage[v] = "in" /\ stage' = [stage EXCEPT ![v] = "gone"]
  BY <1>1 DEF Leave
<1>2. ASSUME NEW i \in Instances, TransportStep(i)
      PROVE  /\ sent' = sent /\ stage' = stage
             /\ \A v \in Viewers : stage[v] = "new" => got'[v] = got[v]
  <2>1. CASE Accept(i) \/ Refuse(i) \/ Publish(i) \/ LosePublication(i) \/ Confirmed(i) \/ Failed(i)
    BY <2>1 DEF Accept, Refuse, Publish, LosePublication, Confirmed, Failed, people
  <2>2. CASE Received(i)
    BY <2>2 DEF Received, people, Delivered, Present
  <2> QED  BY <1>2, <2>1, <2>2 DEF TransportStep, ClientStep
<1>3. CASE \E v \in Viewers : Leave(v)
  BY <1>1, <1>3 DEF TypeOK
<1>4. CASE \E i \in Instances : TransportStep(i)
  BY <1>2, <1>4
<1> QED  BY <1>3, <1>4 DEF HubStep

\* What Watch notes keeps its shape.
LEMMA WatchType ==
    ASSUME Watch, raced \in BOOLEAN, exposed \subseteq listed, listed \subseteq listed',
           listed' \subseteq Viewers, \A v \in Viewers : stage'[v] # "new" => v \in listed'
    PROVE  raced' \in BOOLEAN /\ exposed' \subseteq listed'
<1>1. raced' \in BOOLEAN
  BY DEF Watch
<1>2. \A v \in Viewers : Joining(v)' => v \in listed'
  BY DEF Joining
<1> QED  BY <1>1, <1>2 DEF Watch

\* Every operation of the feed keeps the stages.
LEMMA StagesKept == Order /\ Stages /\ [FeedNext]_<<hub, feed>> => Stages'
<1> SUFFICES ASSUME Order, Stages, [FeedNext]_<<hub, feed>> PROVE Stages'
  OBVIOUS
<1>0. TypeOK /\ Announced
  BY DEF Order
<1>1. CASE UNCHANGED <<hub, feed>>
  <2>1. UNCHANGED <<sent, stage, got>>
    BY <1>1 DEF hub, vars, people
  <2>2. UNCHANGED <<record, cache, reads, phase, held, listed, snap, raced, exposed, slipped>>
    BY <1>1 DEF feed, store, pages
  <2> QED  BY <2>1, <2>2 DEF Stages
<1>2. SUFFICES ASSUME FeedNext PROVE Stages'
  BY <1>1
<1> DEFINE Kept ==
       /\ record' \in Nat
       /\ cache' \subseteq 0 .. record' /\ reads' \subseteq 0 .. record'
       /\ phase' \in [Requests -> Phases] /\ slipped' \in BOOLEAN
       /\ held' \in [Requests -> Nat] /\ \A r \in Requests : held'[r] <= record'
       /\ listed \subseteq listed' /\ listed' \subseteq Viewers
       /\ snap' \in [Viewers -> Nat] /\ \A v \in Viewers : snap'[v] <= record'
       /\ \A r \in sent' : phase'[r] = "read"
       /\ \A v \in Viewers : stage'[v] # "new" => v \in listed'
       /\ \A v \in Viewers : stage'[v] = "new" => got'[v] = <<>>
<1>3. SUFFICES Kept
  <2>1. Watch /\ raced \in BOOLEAN /\ exposed \subseteq listed
    BY <1>2 DEF FeedNext, Stages
  <2> QED  BY <2>1, WatchType DEF Stages
<1>4. ASSUME NEW r \in Requests, Archive(r) \/ Share(r) PROVE Kept
  <2>1. /\ record' = record + 1 /\ phase[r] # "read" /\ phase' \in [Requests -> Phases]
        /\ \A q \in Requests \ {r} : phase'[q] = phase[q]
        /\ UNCHANGED <<sent, stage, got, cache, reads, held, listed, snap, slipped>>
    BY <1>4 DEF Go, Phases, Archive, Share, Write, Stages, hub, vars, people, pages
  <2>2. r \notin sent
    BY <2>1 DEF Stages
  <2>3. \A q \in Requests : held[q] <= record + 1
    BY DEF Stages
  <2>4. \A v \in Viewers : snap[v] <= record + 1
    BY DEF Stages
  <2>5. 0 .. record \subseteq 0 .. record + 1
    BY DEF Stages
  <2> QED  BY <1>0, <2>1, <2>2, <2>3, <2>4, <2>5 DEF Stages, TypeOK
<1>5. ASSUME NEW r \in Requests, Drop(r) \/ GiveUp(r) \/ Fill(r) PROVE Kept
  <2>1. /\ phase[r] # "read" /\ phase' \in [Requests -> Phases]
        /\ \A q \in Requests \ {r} : phase'[q] = phase[q]
        /\ UNCHANGED <<sent, stage, got, record, reads, held, listed, snap>>
    BY <1>5 DEF Go, Phases, Drop, GiveUp, Fill, Stages, hub, vars, people, store, pages
  <2>2. slipped' \in BOOLEAN
    BY <1>5 DEF Drop, GiveUp, Fill, Stages
  <2>3. held[r] \in 0 .. record
    BY DEF Stages
  <2>4. cache' \subseteq 0 .. record
    BY <1>5, <2>3 DEF Drop, GiveUp, Fill, Stages, store
  <2>5. r \notin sent
    BY <2>1 DEF Stages
  <2> QED  BY <1>0, <2>1, <2>2, <2>4, <2>5 DEF Stages, TypeOK
<1>10. ASSUME NEW r \in Requests, Refresh(r) PROVE Kept
  <2>1. /\ phase[r] # "read" /\ phase' \in [Requests -> Phases]
        /\ \A q \in Requests \ {r} : phase'[q] = phase[q]
        /\ UNCHANGED <<sent, stage, got, record, cache, reads, listed, snap, slipped>>
    BY <1>10 DEF Go, Phases, Refresh, Done, Stages, hub, vars, people, store, pages
  <2>2. PICK version \in 0 .. record : held' = [held EXCEPT ![r] = version]
    <3>1. record \in 0 .. record
      BY DEF Stages
    <3> QED  BY <1>10, <3>1 DEF Refresh, Stages
  <2>3. r \notin sent
    BY <2>1 DEF Stages
  <2> QED  BY <1>0, <2>1, <2>2, <2>3 DEF Stages, TypeOK
<1>11. CASE LookUp \/ PutBack \/ Expire
  <2>1. UNCHANGED <<sent, stage, got, record, phase, held, listed, snap, slipped>>
    BY <1>11 DEF LookUp, PutBack, Expire, hub, vars, people, pages
  <2>2. record \in 0 .. record
    BY DEF Stages
  <2>3. cache' \subseteq 0 .. record /\ reads' \subseteq 0 .. record
    BY <1>11, <2>2 DEF LookUp, PutBack, Expire, Stages
  <2> QED  BY <2>1, <2>3 DEF Stages
<1>6. ASSUME NEW r \in Requests, Announce(r) PROVE Kept
  <2>1. /\ phase[r] = "read" /\ sent' = sent \cup {r}
        /\ \A v \in Viewers : stage[v] = "new" => got'[v] = got[v]
        /\ UNCHANGED <<stage, record, cache, reads, phase, held, listed, snap, slipped>>
    BY <1>6 DEF Announce, Broadcast, Delivered, Present, store, pages
  <2> QED  BY <2>1 DEF Stages
<1>7. ASSUME NEW v \in Viewers, ReadList(v) PROVE Kept
  <2>1. /\ listed' = listed \cup {v} /\ snap' = [snap EXCEPT ![v] = record]
        /\ UNCHANGED <<sent, stage, got, record, cache, reads, phase, held, slipped>>
    BY <1>7 DEF ReadList, hub, vars, people, store
  <2> QED  BY <2>1 DEF Stages
<1>8. ASSUME NEW v \in Viewers, Join(v) PROVE Kept
  <2>1. /\ v \in listed /\ stage' = [stage EXCEPT ![v] = "in"]
        /\ UNCHANGED <<sent, got, record, cache, reads, phase, held, listed, snap, slipped>>
    BY <1>8 DEF Join, Subscribe, store, pages
  <2> QED  BY <1>0, <2>1 DEF Stages, TypeOK
<1>9. CASE HubStep
  <2>1. UNCHANGED <<record, cache, reads, phase, held, listed, snap, slipped>>
    BY <1>9 DEF HubStep, store, pages
  <2>2. /\ sent' = sent
        /\ \A v \in Viewers : stage'[v] = stage[v] \/ (stage[v] = "in" /\ stage'[v] = "gone")
        /\ \A v \in Viewers : stage[v] = "new" => got'[v] = got[v]
    BY <1>0, <1>9, HubFrame
  <2>3. \A v \in Viewers : stage'[v] # "new" => v \in listed
    BY <2>2 DEF Stages
  <2>4. \A v \in Viewers : stage'[v] = "new" => got'[v] = <<>>
    BY <2>2 DEF Stages
  <2> QED  BY <2>1, <2>2, <2>3, <2>4 DEF Stages
<1> QED  BY <1>2, <1>4, <1>5, <1>6, <1>7, <1>8, <1>9, <1>10, <1>11 DEF FeedNext

\* No request has begun.
LEMMA StagesInit == FeedInit => Stages
<1> SUFFICES ASSUME FeedInit PROVE Stages
  OBVIOUS
<1>1. /\ record = 0 /\ phase = [r \in Requests |-> "new"] /\ held = [r \in Requests |-> 0]
      /\ listed = {} /\ snap = [v \in Viewers |-> 0] /\ raced = FALSE /\ exposed = {}
      /\ cache = {} /\ reads = {} /\ slipped = FALSE
  BY DEF FeedInit
<1>2. sent = {} /\ stage = [v \in Viewers |-> "new"] /\ got = [v \in Viewers |-> <<>>]
  BY DEF FeedInit, Init
<1>3. \A v \in Viewers : stage[v] = "new" /\ got[v] = <<>> /\ snap[v] <= record
  BY <1>1, <1>2
<1>4. \A r \in Requests : held[r] <= record
  BY <1>1
<1>5. phase \in [Requests -> Phases]
  BY <1>1 DEF Phases
<1> QED  BY <1>1, <1>2, <1>3, <1>4, <1>5 DEF Stages

\* The hub's order and the stages hold in every state of the feed.
LEMMA AlwaysStages == FeedSpec => [](Order /\ Stages)
<1>1. FeedInit => Order /\ Stages
  BY StagesInit, OrderInit DEF FeedInit
<1>2. Order /\ Stages /\ [FeedNext]_<<hub, feed>> => (Order /\ Stages)'
  BY StagesKept, OrderKept, FeedStepIsHubStep
<1> QED  BY <1>1, <1>2, PTL DEF FeedSpec

\* Requests that may have written, and those that may have written the second time.
Wrote == {r \in Requests : phase[r] # "new"}
WroteAgain == {r \in Requests : phase[r] \notin {"new", "archiving", "archived"}}

\* The version of the record counts the writes.
Counted == record <= Cardinality(Wrote) + Cardinality(WroteAgain)

\* A set that keeps its members counts as many, and one more when there is a new one.
LEMMA CountsOn ==
    ASSUME IsFiniteSet(Requests), NEW S \in SUBSET Requests, NEW T \in SUBSET Requests, S \subseteq T
    PROVE  /\ Cardinality(S) \in Nat /\ Cardinality(T) \in Nat
           /\ Cardinality(S) <= Cardinality(T)
           /\ T # S => Cardinality(S) + 1 <= Cardinality(T)
<1>1. IsFiniteSet(T) /\ IsFiniteSet(S)
  BY FS_Subset
<1>2. /\ Cardinality(S) \in Nat /\ Cardinality(T) \in Nat
      /\ Cardinality(S) <= Cardinality(T)
      /\ Cardinality(S) = Cardinality(T) => S = T
  BY <1>1, FS_Subset, FS_CardinalityType
<1> QED  BY <1>2

\* Every operation of the feed keeps the count.
LEMMA CountKept ==
    ASSUME IsFiniteSet(Requests)
    PROVE  Stages /\ Counted /\ [FeedNext]_<<hub, feed>> => Counted'
<1> SUFFICES ASSUME Stages, Counted, [FeedNext]_<<hub, feed>> PROVE Counted'
  OBVIOUS
<1>1. ASSUME Wrote \subseteq Wrote', WroteAgain \subseteq WroteAgain',
             \/ record' = record
             \/ record' = record + 1 /\ (Wrote' # Wrote \/ WroteAgain' # WroteAgain)
      PROVE  Counted'
  <2>1. /\ Cardinality(Wrote) \in Nat /\ Cardinality(Wrote') \in Nat
        /\ Cardinality(Wrote) <= Cardinality(Wrote')
        /\ Wrote' # Wrote => Cardinality(Wrote) + 1 <= Cardinality(Wrote')
    BY <1>1, CountsOn DEF Wrote
  <2>2. /\ Cardinality(WroteAgain) \in Nat /\ Cardinality(WroteAgain') \in Nat
        /\ Cardinality(WroteAgain) <= Cardinality(WroteAgain')
        /\ WroteAgain' # WroteAgain => Cardinality(WroteAgain) + 1 <= Cardinality(WroteAgain')
    BY <1>1, CountsOn DEF WroteAgain
  <2>3. record \in Nat /\ record <= Cardinality(Wrote) + Cardinality(WroteAgain)
    BY DEF Stages, Counted
  <2> HIDE DEF Wrote, WroteAgain
  <2>4. record' <= Cardinality(Wrote') + Cardinality(WroteAgain')
    BY <1>1, <2>1, <2>2, <2>3
  <2> QED  BY <2>4 DEF Counted
<1>2. ASSUME NEW r \in Requests, Archive(r) \/ Share(r) PROVE Counted'
  <2>1. /\ record' = record + 1 /\ phase[r] \in {"new", "archived"}
        /\ phase'[r] \in {"archiving", "sharing"}
        /\ phase[r] = "archived" => phase'[r] = "sharing"
        /\ \A q \in Requests \ {r} : phase'[q] = phase[q]
    BY <1>2 DEF Go, Phases, Archive, Share, Write, Stages
  <2>2. Wrote \subseteq Wrote' /\ WroteAgain \subseteq WroteAgain'
    BY <2>1 DEF Wrote, WroteAgain
  <2>3. CASE phase[r] = "new"
    <3>1. r \in Wrote' /\ r \notin Wrote
      BY <2>1, <2>3 DEF Wrote
    <3> QED  BY <1>1, <2>1, <2>2, <3>1
  <2>4. CASE phase[r] = "archived"
    <3>1. r \in WroteAgain' /\ r \notin WroteAgain
      BY <2>1, <2>4 DEF WroteAgain
    <3> QED  BY <1>1, <2>1, <2>2, <3>1
  <2> QED  BY <2>1, <2>3, <2>4
<1>3. ASSUME NEW r \in Requests, Drop(r) \/ GiveUp(r) \/ Refresh(r) \/ Fill(r) PROVE Counted'
  <2>1. /\ record' = record
        /\ \A q \in Requests \ {r} : phase'[q] = phase[q]
        /\ phase'[r] # "new"
        /\ phase'[r] \in {"archiving", "archived"} => phase[r] = "archiving"
    BY <1>3 DEF Go, Phases, Drop, GiveUp, Refresh, Fill, Stages, store
  <2>2. Wrote \subseteq Wrote' /\ WroteAgain \subseteq WroteAgain'
    BY <2>1 DEF Wrote, WroteAgain
  <2> QED  BY <1>1, <2>1, <2>2
<1>4. CASE UNCHANGED <<record, phase>>
  <2>1. Wrote' = Wrote /\ WroteAgain' = WroteAgain
    BY <1>4 DEF Wrote, WroteAgain
  <2> QED  BY <1>1, <1>4, <2>1
<1>5. CASE UNCHANGED <<hub, feed>>
  BY <1>4, <1>5 DEF feed, store
<1>6. CASE FeedNext
  <2>1. ASSUME LookUp \/ PutBack \/ Expire \/ HubStep PROVE Counted'
    BY <1>4, <2>1 DEF LookUp, PutBack, Expire, HubStep, store
  <2>2. ASSUME NEW r \in Requests, Announce(r) PROVE Counted'
    BY <1>4, <2>2 DEF Announce, store
  <2>3. ASSUME NEW v \in Viewers, ReadList(v) \/ Join(v) PROVE Counted'
    BY <1>4, <2>3 DEF ReadList, Join, store
  <2> QED  BY <1>2, <1>3, <1>6, <2>1, <2>2, <2>3 DEF FeedNext
<1> QED  BY <1>5, <1>6

\* The feed always has its shape: nobody holds, caches or shows a version that the
\* record has not had, nobody is exposed before it has read the list, and there
\* are no more versions than two for each request, of which there are finitely many.
THEOREM FeedTypeCorrect ==
    ASSUME IsFiniteSet(Requests)
    PROVE  FeedSpec => []FeedTypeOK
<1>1. FeedInit => Counted
  <2> SUFFICES ASSUME FeedInit PROVE Counted
    OBVIOUS
  <2>1. Wrote = {} /\ WroteAgain = {} /\ record = 0
    BY DEF FeedInit, Wrote, WroteAgain
  <2>2. Cardinality({}) = 0
    BY FS_EmptySet
  <2> QED  BY <2>1, <2>2 DEF Counted
<1>2. Order /\ Stages /\ Counted => FeedTypeOK
  <2> SUFFICES ASSUME Order, Stages, Counted PROVE FeedTypeOK
    OBVIOUS
  <2>1. /\ Cardinality(Wrote) \in Nat /\ Cardinality(WroteAgain) \in Nat
        /\ Cardinality(Wrote) <= Cardinality(Requests)
        /\ Cardinality(WroteAgain) <= Cardinality(Requests)
        /\ Cardinality(Requests) \in Nat
    BY CountsOn DEF Wrote, WroteAgain
  <2>2. record \in 0 .. 2 * Cardinality(Requests)
    BY <2>1 DEF Stages, Counted
  <2> QED  BY <2>2 DEF Order, Stages, FeedTypeOK
<1>3. Stages /\ Counted /\ [FeedNext]_<<hub, feed>> => Counted'
  BY CountKept
<1> QED  BY <1>1, <1>2, <1>3, AlwaysStages, PTL DEF FeedSpec

-----------------------------------------------------------------------------
(* Where an old version can be shown.  While no two updates overlap and the *)
(* last write has not slipped, the cache and what is on its way into it are *)
(* the record, and so is what the open request has read (Current); and a    *)
(* viewer that did not join during an update shows the record or is owed    *)
(* the news of it (UpToDate), which the hub brings, because the viewer's    *)
(* channel is confirmed and its instance listens.                           *)

\* An event waits on its instance to be published, or is on its way to another.
Within(q, x) == \E k \in DOMAIN q : q[k] = x
Waiting(i, r) == Within(outbox[i], r)
Coming(i, r) == Within(downlink[i], Message(r))

\* Watch has noted who was joining and whether two requests were open.
Watched ==
    /\ \A v \in Viewers : Joining(v) /\ Open # {} => v \in exposed
    /\ \A r, s \in Open : r # s => raced

\* Requests that have written and not yet dropped the cached version.
Writing == {r \in Requests : phase[r] \in {"archiving", "sharing"}}

\* What the one open request has read, and the cache unless it is about to be dropped, is
\* the record.
Current == ~raced /\ ~slipped =>
    /\ \A r \in Open : phase[r] \in {"filling", "read"} => held[r] = record
    /\ Writing = {} => cache \subseteq {record} /\ reads \subseteq {record}

\* A viewer that joined outside of the updates and whose channel is its own.
Attending(v) ==
    v \in listed \ exposed /\ (stage[v] = "new" \/ (stage[v] = "in" /\ At[v] \notin cut))

\* What r announces is still to come to v.
Due(r, v) == r \notin sent \/ (At[r] # At[v] /\ (Waiting(At[r], r) \/ Coming(At[v], r)))

Settles(v) == Shown(v) = record \/ \E r \in Open : Due(r, v)

UpToDate == ~raced /\ ~slipped /\ lost = {} => \A v \in Viewers : Attending(v) => Settles(v)

Fed == Order /\ Channels /\ Stages /\ Watched /\ Current /\ UpToDate

-----------------------------------------------------------------------------
\* What is in a queue when its head is taken, or when something is appended.
LEMMA InTail ==
    ASSUME NEW S, NEW s \in Seq(S), s # <<>>, NEW x
    PROVE  Within(s, x) <=> x = Head(s) \/ Within(Tail(s), x)
<1>1. /\ Head(s) = s[1] /\ Len(s) \in Nat \ {0} /\ DOMAIN s = 1..Len(s)
      /\ DOMAIN Tail(s) = 1..Len(s) - 1
      /\ \A k \in 1..Len(s) - 1 : Tail(s)[k] = s[k + 1]
  BY TailAt
<1>2. ASSUME NEW k \in DOMAIN s, s[k] = x, k # 1 PROVE \E l \in DOMAIN Tail(s) : Tail(s)[l] = x
  <2>1. k - 1 \in DOMAIN Tail(s) /\ Tail(s)[k - 1] = s[k]
    BY <1>1, <1>2
  <2> QED  BY <1>2, <2>1
<1>3. ASSUME NEW k \in DOMAIN Tail(s), Tail(s)[k] = x PROVE \E l \in DOMAIN s : s[l] = x
  <2>1. k + 1 \in DOMAIN s /\ s[k + 1] = x
    BY <1>1, <1>3
  <2> QED  BY <2>1
<1>4. 1 \in DOMAIN s
  BY <1>1
<1> QED  BY <1>1, <1>2, <1>3, <1>4 DEF Within

\* What is in a queue when something is appended.
LEMMA InAppend ==
    ASSUME NEW S, NEW s \in Seq(S), NEW e \in S, NEW x
    PROVE  Within(Append(s, e), x) <=> x = e \/ Within(s, x)
<1>1. /\ Len(s) \in Nat /\ DOMAIN s = 1..Len(s)
      /\ DOMAIN Append(s, e) = 1..Len(s) + 1
      /\ \A k \in 1..Len(s) : Append(s, e)[k] = s[k]
      /\ Append(s, e)[Len(s) + 1] = e
  BY AppendAt
<1>2. ASSUME NEW k \in DOMAIN Append(s, e)
      PROVE  (k \in DOMAIN s /\ Append(s, e)[k] = s[k]) \/ Append(s, e)[k] = e
  <2>1. k = Len(s) + 1 \/ k \in 1..Len(s)
    BY <1>1, <1>2
  <2> QED  BY <1>1, <2>1
<1>3. ASSUME NEW k \in DOMAIN s PROVE k \in DOMAIN Append(s, e) /\ Append(s, e)[k] = s[k]
  BY <1>1, <1>3
<1>4. Len(s) + 1 \in DOMAIN Append(s, e)
  BY <1>1
<1> QED  BY <1>1, <1>2, <1>3, <1>4 DEF Within

\* A request travels when it waits or comes somewhere; it waits on its instance.
LEMMA WhereItTravels ==
    ASSUME Order
    PROVE  /\ \A r \in Requests :
                 Travelling(r) <=> \E i \in Instances : Waiting(i, r) \/ Coming(i, r)
           /\ \A i \in Instances, r \in Requests :
                 /\ Waiting(i, r) => At[r] = i /\ r \in sent
                 /\ Coming(i, r) => r \in sent
  BY DEF Travelling, Waiting, Coming, Within, Order, Announced

\* What the next state holds, told by its queues.
LEMMA NextQueues ==
    ASSUME NEW i \in Instances, NEW r \in Requests
    PROVE  /\ Coming(i, r)' <=> Within(downlink'[i], Message(r))
           /\ Waiting(i, r)' <=> Within(outbox'[i], r)
  BY DEF Coming, Waiting, Within, Message

\* Neither comings and goings nor commands and their replies move the news.
LEMMA NewsStays ==
    ASSUME TypeOK,
           \/ \E v \in Viewers : ViewerStep(v)
           \/ \E i \in Instances : Accept(i) \/ Refuse(i) \/ Confirmed(i) \/ Failed(i)
    PROVE  /\ UNCHANGED <<sent, got, outbox, lost>>
           /\ \A i \in Instances, r \in Requests : Coming(i, r)' <=> Coming(i, r)
<1>1. ASSUME NEW v \in Viewers, ViewerStep(v) PROVE UNCHANGED <<sent, got, outbox, lost, downlink>>
  BY <1>1 DEF ViewerStep, Subscribe, Leave
<1>2. ASSUME NEW i \in Instances, Accept(i) \/ Refuse(i)
      PROVE  /\ UNCHANGED <<sent, got, outbox, lost>>
             /\ \A j \in Instances : \/ downlink'[j] = downlink[j]
                                     \/ \E v \in Viewers, ok \in BOOLEAN :
                                           downlink'[j] = Append(downlink[j], Settled(v, ok))
  <2>1. UNCHANGED <<sent, got, outbox, lost>> /\ uplink[i] # <<>>
    BY <1>2 DEF Accept, Refuse, people, ghosts
  <2>2. CASE UNCHANGED downlink
    BY <2>1, <2>2
  <2>3. ASSUME NEW ok \in BOOLEAN, Reply(i, Settled(Head(uplink[i]).by, ok)),
               Head(uplink[i]) # Unsubscription
        PROVE  \A j \in Instances : \/ downlink'[j] = downlink[j]
                                    \/ \E v \in Viewers : downlink'[j] = Append(downlink[j], Settled(v, ok))
    <3>1. Head(uplink[i]).by \in Viewers
      BY <2>1, <2>3, UplinkHead, CommandFacts
    <3> QED  BY <2>3, <3>1 DEF Reply, TypeOK
  <2> QED  BY <1>2, <2>1, <2>2, <2>3 DEF Accept, Refuse
<1>3. ASSUME NEW i \in Instances, Confirmed(i) \/ Failed(i)
      PROVE  /\ UNCHANGED <<sent, got, outbox, lost>>
             /\ \A j \in Instances : \/ downlink'[j] = downlink[j]
                                     \/ /\ downlink[j] # <<>> /\ downlink'[j] = Tail(downlink[j])
                                        /\ Head(downlink[j]).kind # "message"
  <2>1. UNCHANGED <<sent, got, outbox, lost>>
    BY <1>3 DEF Confirmed, Failed, people
  <2>2. downlink[i] # <<>> /\ Taken(i) /\ Head(downlink[i]).kind # "message"
    BY <1>3 DEF Confirmed, Failed, NextIs
  <2> QED  BY <2>1, <2>2 DEF Taken, TypeOK
<1>4. UNCHANGED <<sent, got, outbox, lost>>
  BY <1>1, <1>2, <1>3
<1>5. ASSUME NEW j \in Instances, NEW r \in Requests PROVE Coming(j, r)' <=> Coming(j, r)
  <2>0. downlink[j] \in Seq(Replies)
    BY DEF TypeOK
  <2>1. CASE downlink'[j] = downlink[j]
    BY <2>1, NextQueues DEF Coming
  <2>2. ASSUME NEW v \in Viewers, NEW ok \in BOOLEAN, downlink'[j] = Append(downlink[j], Settled(v, ok))
        PROVE  Coming(j, r)' <=> Coming(j, r)
    <3>1. Settled(v, ok) \in Replies /\ Message(r) # Settled(v, ok)
      BY ReplyFacts, Distinct
    <3> QED  BY <2>0, <2>2, <3>1, NextQueues, InAppend DEF Coming
  <2>3. CASE /\ downlink[j] # <<>> /\ downlink'[j] = Tail(downlink[j])
             /\ Head(downlink[j]).kind # "message"
    <3>1. Message(r) # Head(downlink[j])
      BY <2>3, ReplyFacts
    <3>2. Coming(j, r) <=> Message(r) = Head(downlink[j]) \/ Within(Tail(downlink[j]), Message(r))
      BY <2>0, <2>3, InTail DEF Coming
    <3> QED  BY <2>3, <3>1, <3>2, NextQueues
  <2> QED  BY <1>1, <1>2, <1>3, <2>1, <2>2, <2>3
<1> QED  BY <1>4, <1>5

\* A publication is on its way to every instance that is subscribed.
LEMMA NewsPublished ==
    ASSUME TypeOK, NEW i \in Instances, Publish(i)
    PROVE  /\ UNCHANGED <<sent, stage, got, cut, lost>>
           /\ \A j \in Instances, r \in Requests :
                 /\ Waiting(j, r) <=> Waiting(j, r)' \/ (j = i /\ r = Head(outbox[i]))
                 /\ Coming(j, r)' <=> Coming(j, r) \/ (j \in linked /\ r = Head(outbox[i]))
<1>1. /\ outbox[i] # <<>> /\ outbox' = [outbox EXCEPT ![i] = Tail(@)]
      /\ UNCHANGED <<sent, stage, got, cut, lost>> /\ Head(outbox[i]) \in Requests
      /\ \A j \in Instances : downlink'[j] = IF j \in linked
                                             THEN Append(downlink[j], Message(Head(outbox[i])))
                                             ELSE downlink[j]
  BY OutboxHead DEF Publish, people, ghosts
<1>2. ASSUME NEW j \in Instances, NEW r \in Requests
      PROVE  Waiting(j, r) <=> Waiting(j, r)' \/ (j = i /\ r = Head(outbox[i]))
  <2>1. CASE j # i
    <3>1. outbox'[j] = outbox[j]
      BY <1>1, <2>1 DEF TypeOK
    <3> QED  BY <2>1, <3>1, NextQueues DEF Waiting
  <2>2. CASE j = i
    <3>1. outbox'[i] = Tail(outbox[i]) /\ outbox[i] \in Seq(Requests)
      BY <1>1 DEF TypeOK
    <3>2. Waiting(i, r) <=> r = Head(outbox[i]) \/ Within(Tail(outbox[i]), r)
      BY <1>1, <3>1, InTail DEF Waiting
    <3> QED  BY <2>2, <3>1, <3>2, NextQueues
  <2> QED  BY <2>1, <2>2
<1>3. ASSUME NEW j \in Instances, NEW r \in Requests
      PROVE  Coming(j, r)' <=> Coming(j, r) \/ (j \in linked /\ r = Head(outbox[i]))
  <2>1. CASE j \notin linked
    BY <1>1, <2>1, NextQueues DEF Coming
  <2>2. CASE j \in linked
    <3>1. Message(Head(outbox[i])) \in Replies /\ downlink[j] \in Seq(Replies)
      BY <1>1, ReplyFacts DEF TypeOK
    <3>2. downlink'[j] = Append(downlink[j], Message(Head(outbox[i])))
      BY <1>1, <2>2
    <3>3. Coming(j, r)' <=> Message(r) = Message(Head(outbox[i])) \/ Coming(j, r)
      BY <3>1, <3>2, NextQueues, InAppend DEF Coming
    <3>4. Message(r) = Message(Head(outbox[i])) <=> r = Head(outbox[i])
      BY DEF Message
    <3> QED  BY <2>2, <3>3, <3>4
  <2> QED  BY <2>1, <2>2
<1> QED  BY <1>1, <1>2, <1>3

\* A publication that fails only removes news, and is noted.
LEMMA NewsLost ==
    ASSUME TypeOK, NEW i \in Instances, LosePublication(i)
    PROVE  /\ UNCHANGED sent /\ lost' # {}
           /\ \A j \in Instances, r \in Requests :
                 (Waiting(j, r)' => Waiting(j, r)) /\ (Coming(j, r)' <=> Coming(j, r))
<1>1. /\ outbox[i] # <<>> /\ outbox' = [outbox EXCEPT ![i] = Tail(@)]
      /\ UNCHANGED <<sent, downlink>> /\ lost' # {}
  BY DEF LosePublication, people
<1>2. ASSUME NEW j \in Instances, NEW r \in Requests, Waiting(j, r)' PROVE Waiting(j, r)
  <2>1. CASE j # i
    <3>1. outbox'[j] = outbox[j]
      BY <1>1, <2>1 DEF TypeOK
    <3> QED  BY <1>2, <3>1, NextQueues DEF Waiting
  <2>2. CASE j = i
    <3>1. outbox'[i] = Tail(outbox[i]) /\ outbox[i] \in Seq(Requests)
      BY <1>1 DEF TypeOK
    <3>2. Waiting(i, r) <=> r = Head(outbox[i]) \/ Within(Tail(outbox[i]), r)
      BY <1>1, <3>1, InTail DEF Waiting
    <3> QED  BY <1>2, <2>2, <3>1, <3>2, NextQueues
  <2> QED  BY <2>1, <2>2
<1>3. \A j \in Instances, r \in Requests : Coming(j, r)' <=> Coming(j, r)
  BY <1>1, NextQueues DEF Coming
<1> QED  BY <1>1, <1>2, <1>3

\* A message that is received has come, and is the last its viewers are sent if
\* their instance listens and did not publish it.
LEMMA NewsReceived ==
    ASSUME TypeOK, NEW i \in Instances, Received(i)
    PROVE  \E h \in Requests :
              /\ UNCHANGED <<sent, stage, outbox, cut, lost>>
              /\ Coming(i, h)
              /\ \A j \in Instances, r \in Requests :
                    /\ Coming(j, r)' => Coming(j, r)
                    /\ Coming(j, r) => Coming(j, r)' \/ (j = i /\ r = h)
              /\ \A v \in Viewers :
                    got'[v] = IF v \in Present(i) /\ i \in handling /\ At[h] # i
                              THEN Append(got[v], h) ELSE got[v]
<1> DEFINE h == Head(downlink[i]).of
<1>1. /\ downlink[i] # <<>> /\ downlink' = [downlink EXCEPT ![i] = Tail(@)]
      /\ Head(downlink[i]).kind = "message"
      /\ UNCHANGED <<sent, stage, outbox, cut, lost>>
      /\ got' = IF i \in handling /\ At[h] # i THEN Delivered(i, h) ELSE got
  BY DEF Received, NextIs, Taken, people, ghosts
<1>2. h \in Requests /\ Head(downlink[i]) = Message(h)
  BY <1>1, DownlinkHead, ReplyFacts
<1>3. ASSUME NEW v \in Viewers
      PROVE  got'[v] = IF v \in Present(i) /\ i \in handling /\ At[h] # i
                       THEN Append(got[v], h) ELSE got[v]
  BY <1>1 DEF Delivered
<1> HIDE DEF h
<1>4. downlink[i] \in Seq(Replies) /\ downlink'[i] = Tail(downlink[i])
      /\ \A j \in Instances : j # i => downlink'[j] = downlink[j]
  BY <1>1 DEF TypeOK
<1>5. ASSUME NEW r \in Requests PROVE Coming(i, r) <=> r = h \/ Coming(i, r)'
  <2>1. Coming(i, r) <=> Message(r) = Head(downlink[i]) \/ Within(Tail(downlink[i]), Message(r))
    BY <1>1, <1>4, InTail DEF Coming
  <2>2. Message(r) = Message(h) <=> r = h
    BY DEF Message
  <2> QED  BY <1>2, <1>4, <2>1, <2>2, NextQueues
<1>6. ASSUME NEW j \in Instances, NEW r \in Requests, j # i PROVE Coming(j, r)' <=> Coming(j, r)
  BY <1>4, <1>6, NextQueues DEF Coming
<1> QED  BY <1>1, <1>2, <1>3, <1>5, <1>6

-----------------------------------------------------------------------------
\* Who is open, now and next.
LEMMA WhoIsOpen ==
    /\ \A r : r \in Open <=>
          /\ r \in Requests /\ phase[r] \notin {"new", "failed"}
          /\ r \notin sent \/ \E i \in Instances : Waiting(i, r) \/ Coming(i, r)
    /\ \A r : r \in Open' <=>
          /\ r \in Requests /\ phase'[r] \notin {"new", "failed"}
          /\ r \notin sent' \/ \E i \in Instances : Waiting(i, r)' \/ Coming(i, r)'
<1>1. \A r \in Requests : /\ Travelling(r) <=> \E i \in Instances : Waiting(i, r) \/ Coming(i, r)
                          /\ Travelling(r)' <=> \E i \in Instances : Waiting(i, r)' \/ Coming(i, r)'
  BY DEF Travelling, Waiting, Coming, Within, Message
<1> QED  BY <1>1 DEF Open

\* While an update is under way, who attends has a confirmed channel.
LEMMA AttendingOpen ==
    ASSUME Watched, NEW v \in Viewers, Attending(v), Open # {}
    PROVE  /\ stage[v] = "in" /\ At[v] \notin cut /\ v \in Present(At[v])
           /\ Calm(At[v]) /\ At[v] \in linked
  BY DEF Watched, Attending, Joining, Present

\* Watch keeps its notes.
LEMMA WatchedKept == Watched /\ [FeedNext]_<<hub, feed>> => Watched'
<1>1. ASSUME Watch PROVE Watched'
  BY <1>1 DEF Watch, Watched
<1>2. ASSUME Watched, UNCHANGED <<hub, feed>> PROVE Watched'
  <2>1. UNCHANGED <<sent, stage, outbox, uplink, downlink, linked, phase, listed, raced, exposed>>
    BY <1>2 DEF hub, feed, vars, people, redis, pages
  <2>2. Open' = Open
    BY <2>1 DEF Open, Travelling, Message
  <2>3. \A v \in Viewers : Joining(v)' <=> Joining(v)
    BY <2>1 DEF Joining, Calm
  <2> QED  BY <1>2, <2>1, <2>2, <2>3 DEF Watched
<1> QED  BY <1>1, <1>2 DEF FeedNext

\* What a step of the feed has to show of the open request and of who attends.
LEMMA FedByParts ==
    ASSUME Fed, FeedNext,
           Current',
           ASSUME ~raced, lost = {}, ~raced', lost' = {}, ~slipped', NEW v \in Viewers, Attending(v)'
           PROVE  Settles(v)'
    PROVE  Fed'
<1>1. Order' /\ Channels' /\ Stages' /\ Watched'
  BY OrderKept, ChannelsKept, StagesKept, WatchedKept, FeedStepIsHubStep DEF Fed
<1>2. raced => raced'
  BY DEF FeedNext, Watch
<1>3. lost \subseteq lost'
  <2>1. ASSUME UNCHANGED vars PROVE lost' = lost
    BY <2>1 DEF vars, ghosts
  <2>2. ASSUME NEW r \in Requests, Announce(r) PROVE lost' = lost
    BY <2>2 DEF Announce, Broadcast, ghosts
  <2>3. ASSUME NEW v \in Viewers, Subscribe(v) \/ Leave(v) PROVE lost' = lost
    BY <2>3 DEF Subscribe, Leave
  <2>4. ASSUME NEW i \in Instances, TransportStep(i) PROVE lost \subseteq lost'
    BY <2>4 DEF TransportStep, ClientStep, Accept, Refuse, Publish, LosePublication, Confirmed, Failed,
                Received, ghosts
  <2>5. ASSUME NEW r \in Requests, Asked(r) \/ Refresh(r) \/ Fill(r) PROVE UNCHANGED vars
    BY <2>5 DEF Asked, Archive, Share, Write, Drop, GiveUp, Refresh, Fill, hub
  <2>6. ASSUME LookUp \/ PutBack \/ Expire \/ \E v \in Viewers : ReadList(v) PROVE UNCHANGED vars
    BY <2>6 DEF LookUp, PutBack, Expire, ReadList, hub
  <2> QED  BY <2>1, <2>2, <2>3, <2>4, <2>5, <2>6 DEF FeedNext, Asked, Join, HubStep
<1>5. UpToDate'
  BY <1>2, <1>3 DEF UpToDate
<1> QED  BY <1>1, <1>5 DEF Fed

\* Requests that end leave what is read and cached as it is.
LEMMA CurrentStays ==
    ASSUME Fed, Watch, UNCHANGED <<record, cache, reads, phase, held, slipped>>,
           \A r \in Open' : r \in Open
    PROVE  Current'
<1>1. raced => raced'
  BY DEF Watch
<1>2. Writing' = Writing
  BY DEF Writing
<1>3. Current
  BY DEF Fed
<1> QED  BY <1>1, <1>2, <1>3 DEF Current

\* A list that shows the record, or is owed news that stay, is settled.
LEMMA SameShown ==
    ASSUME NEW v \in Viewers, got'[v] = got[v], UNCHANGED <<held, snap, record>>
    PROVE  Shown(v)' = Shown(v)
  BY DEF Shown

\* While a request has not announced anything, everybody is owed the news.
LEMMA OwedByOpen ==
    ASSUME NEW r \in Requests, phase'[r] \notin {"new", "failed"}, r \notin sent'
    PROVE  r \in Open' /\ \A v \in Viewers : Settles(v)'
<1>1. r \in Open'
  BY WhoIsOpen
<1> QED  BY <1>1 DEF Settles, Due

\* A write opens its request, and a drop leaves it open; if no read was on its way into the
\* cache from before the last write, nothing old is left there.
LEMMA FedAsked ==
    ASSUME Fed, FeedNext, NEW r \in Requests, Archive(r) \/ Share(r) \/ Drop(r)
    PROVE  Fed'
<1>1. /\ phase[r] # "read" /\ phase'[r] \in {"archiving", "archived", "sharing", "shared"}
      /\ \A q \in Requests \ {r} : phase'[q] = phase[q]
      /\ sent' = sent /\ Watch
  <2>1. phase \in [Requests -> Phases]
    BY DEF Fed, Stages
  <2> QED  BY <2>1 DEF Go, Phases, Archive, Share, Write, Drop, hub, vars, people, FeedNext
<1>2. r \in Open' /\ \A v \in Viewers : Settles(v)'
  <2>1. r \notin sent'
    BY <1>1 DEF Fed, Stages
  <2> QED  BY <1>1, <2>1, OwedByOpen
<1>3. ASSUME ~raced', NEW q \in Open' PROVE q = r
  BY <1>1, <1>2, <1>3 DEF Watch
<1>4. Writing' = {} => Drop(r)
  <2>1. Archive(r) \/ Share(r) => phase'[r] \in {"archiving", "sharing"}
    BY DEF Go, Archive, Share, Write, Fed, Stages
  <2> QED  BY <2>1 DEF Writing
<1>5. Drop(r) /\ ~slipped' => cache' \subseteq {record'} /\ reads' \subseteq {record'}
  BY DEF Drop
<1>6. Current'
  BY <1>1, <1>3, <1>4, <1>5 DEF Current
<1> QED  BY <1>2, <1>6, FedByParts

\* A request that fails after a write is noted.
LEMMA FedGivenUp ==
    ASSUME Fed, FeedNext, NEW r \in Requests, GiveUp(r)
    PROVE  Fed'
<1>1. slipped' = TRUE
  BY DEF GiveUp
<1>2. Current'
  BY <1>1 DEF Current
<1> QED  BY <1>1, <1>2, FedByParts

\* What is read back is the record, from the cache or from the database.
LEMMA FedRefresh ==
    ASSUME Fed, FeedNext, NEW r \in Requests, Refresh(r)
    PROVE  Fed'
<1>1. /\ phase[r] \in Done /\ phase'[r] \in {"filling", "read"}
      /\ \A q \in Requests \ {r} : phase'[q] = phase[q]
      /\ UNCHANGED <<sent, record, cache, reads, slipped>> /\ Watch /\ Current
  <2>1. phase \in [Requests -> Phases]
    BY DEF Fed, Stages
  <2> QED  BY <2>1 DEF Go, Phases, Refresh, hub, vars, people, store, FeedNext, Fed
<1>2. r \in Open' /\ \A v \in Viewers : Settles(v)'
  <2>1. r \notin sent'
    BY <1>1 DEF Fed, Stages, Done
  <2> QED  BY <1>1, <2>1, OwedByOpen
<1>3. ASSUME ~raced', NEW q \in Open' PROVE q = r
  BY <1>1, <1>2, <1>3 DEF Watch
<1>4. ASSUME ~raced', NEW q \in Writing PROVE FALSE
  <2>1. q # r /\ q \in Requests /\ phase'[q] \in {"archiving", "sharing"}
    BY <1>1 DEF Writing, Done
  <2>2. q \notin sent'
    BY <1>1, <1>4 DEF Writing, Fed, Stages
  <2>3. q \in Open'
    BY <2>1, <2>2, OwedByOpen
  <2> QED  BY <1>3, <1>4, <2>1, <2>3
<1>5. ASSUME ~raced', ~slipped' PROVE cache \subseteq {record} /\ reads \subseteq {record}
  <2>1. Writing = {} /\ ~raced
    BY <1>1, <1>4, <1>5 DEF Watch
  <2> QED  BY <1>1, <1>5, <2>1 DEF Current
<1>6. ASSUME ~raced', ~slipped' PROVE held'[r] = record'
  <2>1. cache \subseteq {record}
    BY <1>5, <1>6
  <2>2. \E version : held' = [held EXCEPT ![r] = version] /\ (version \in cache \/ version = record)
    BY DEF Refresh
  <2> QED  BY <1>1, <2>1, <2>2 DEF Fed, Stages
<1>7. Current'
  BY <1>1, <1>3, <1>5, <1>6 DEF Current
<1> QED  BY <1>2, <1>7, FedByParts

\* What is put into the cache is the record.
LEMMA FedFilled ==
    ASSUME Fed, FeedNext, NEW r \in Requests, Fill(r)
    PROVE  Fed'
<1>1. /\ phase[r] = "filling" /\ phase'[r] = "read"
      /\ \A q \in Requests \ {r} : phase'[q] = phase[q]
      /\ UNCHANGED <<sent, outbox, downlink, record, reads, held, slipped>> /\ Watch /\ Current
      /\ cache' \in {{held[r]}, cache}
  <2>1. phase \in [Requests -> Phases]
    BY DEF Fed, Stages
  <2> QED  BY <2>1 DEF Go, Phases, Fill, hub, vars, people, redis, FeedNext, Fed
<1>2. /\ r \in Open /\ r \in Open' /\ \A v \in Viewers : Settles(v)'
  <2>1. r \notin sent'
    BY <1>1 DEF Fed, Stages
  <2> QED  BY <1>1, <2>1, OwedByOpen, WhoIsOpen
<1>3. ASSUME ~raced', NEW q \in Open' PROVE q = r
  BY <1>1, <1>2, <1>3 DEF Watch
<1>4. ASSUME ~raced', ~slipped' PROVE ~raced /\ ~slipped /\ held[r] = record
  <2>1. ~raced /\ ~slipped
    BY <1>1, <1>4 DEF Watch
  <2> QED  BY <1>1, <1>2, <2>1 DEF Current
<1>5. Writing' = Writing
  BY <1>1 DEF Writing
<1>6. Current'
  BY <1>1, <1>3, <1>4, <1>5 DEF Current
<1> QED  BY <1>2, <1>6, FedByParts

\* An announcement reaches its own instance at once and waits for the others.
LEMMA FedAnnounce ==
    ASSUME Fed, FeedNext, NEW r \in Requests, Announce(r)
    PROVE  Fed'
<1>1. /\ phase[r] = "read" /\ r \notin sent /\ sent' = sent \cup {r}
      /\ got' = Delivered(At[r], r) /\ outbox' = [outbox EXCEPT ![At[r]] = Append(@, r)]
      /\ UNCHANGED <<stage, downlink, cut, lost, record, cache, reads, phase, held, listed, snap, slipped>>
      /\ Watch
  BY DEF Announce, Broadcast, FeedNext, ghosts, store, pages
<1>2. TypeOK /\ At[r] \in Instances /\ \A v \in Viewers : At[v] \in Instances
  BY HubAssumption DEF Fed, Order
<1>3. \A i \in Instances, q \in Requests : /\ Waiting(i, q)' <=> Waiting(i, q) \/ (i = At[r] /\ q = r)
                                           /\ Coming(i, q)' <=> Coming(i, q)
  <2> SUFFICES ASSUME NEW i \in Instances, NEW q \in Requests
               PROVE  /\ Waiting(i, q)' <=> Waiting(i, q) \/ (i = At[r] /\ q = r)
                      /\ Coming(i, q)' <=> Coming(i, q)
    OBVIOUS
  <2>1. outbox[i] \in Seq(Requests) /\ outbox'[i] = IF i = At[r] THEN Append(outbox[i], r) ELSE outbox[i]
    BY <1>1, <1>2 DEF TypeOK
  <2>2. Waiting(i, q)' <=> Waiting(i, q) \/ (i = At[r] /\ q = r)
    BY <2>1, NextQueues, InAppend DEF Waiting
  <2> QED  BY <1>1, <2>2, NextQueues DEF Coming
<1>4. r \in Open /\ Open' = Open
  BY <1>1, <1>2, <1>3, WhoIsOpen
<1>5. Current'
  BY <1>1, <1>4, CurrentStays
<1>6. ASSUME ~raced, lost = {}, ~raced', lost' = {}, ~slipped', NEW v \in Viewers, Attending(v)'
      PROVE  Settles(v)'
  <2>1. Attending(v)
    BY <1>1, <1>6 DEF Attending, Watch
  <2>2. v \in Present(At[v])
    BY <1>4, <2>1, AttendingOpen DEF Fed
  <2>3. CASE At[v] = At[r]
    <3>1. got'[v] = Append(got[v], r) /\ got[v] \in Seq(Requests)
      BY <1>1, <1>2, <2>2, <2>3 DEF Delivered, TypeOK
    <3>2. got'[v] # <<>> /\ got'[v][Len(got'[v])] = r
      BY <3>1, AppendAt
    <3>3. held[r] = record
      BY <1>1, <1>4, <1>6 DEF Fed, Current
    <3>4. Shown(v)' = record'
      BY <1>1, <3>2, <3>3 DEF Shown
    <3> QED  BY <3>4 DEF Settles
  <2>4. CASE At[v] # At[r]
    BY <1>2, <1>3, <1>4, <2>4 DEF Settles, Due
  <2> QED  BY <2>3, <2>4
<1> QED  BY <1>5, <1>6, FedByParts

\* A stream that reads the list reads the record.
LEMMA FedReadList ==
    ASSUME Fed, FeedNext, NEW w \in Viewers, ReadList(w)
    PROVE  Fed'
<1>1. /\ w \notin listed /\ listed' = listed \cup {w} /\ snap' = [snap EXCEPT ![w] = record]
      /\ UNCHANGED <<sent, stage, got, outbox, downlink, cut, lost>>
      /\ UNCHANGED <<record, cache, reads, phase, held, slipped>> /\ Watch
  BY DEF ReadList, hub, vars, people, redis, ghosts, store, FeedNext
<1>2. \A i \in Instances, q \in Requests : /\ Waiting(i, q)' <=> Waiting(i, q)
                                           /\ Coming(i, q)' <=> Coming(i, q)
  BY <1>1, NextQueues DEF Waiting, Coming
<1>3. Open' = Open
  BY <1>1, <1>2, WhoIsOpen
<1>4. Current'
  BY <1>1, <1>3, CurrentStays
<1>5. ASSUME ~raced, lost = {}, ~raced', lost' = {}, ~slipped', NEW v \in Viewers, Attending(v)'
      PROVE  Settles(v)'
  <2>1. CASE v = w
    <3>1. got[w] = <<>> /\ snap'[w] = record
      BY <1>1 DEF Fed, Stages
    <3>2. Shown(w)' = record'
      BY <1>1, <3>1 DEF Shown
    <3> QED  BY <2>1, <3>2 DEF Settles
  <2>2. CASE v # w
    <3>1. Attending(v)
      BY <1>1, <1>5, <2>2 DEF Attending, Watch
    <3>2. Settles(v)
      BY <1>1, <1>5, <3>1 DEF Fed, UpToDate
    <3>3. Shown(v)' = Shown(v)
      BY <1>1, <2>2 DEF Shown, Fed, Stages
    <3>4. \A q \in Open : Due(q, v)' <=> Due(q, v)
      BY <1>1, <1>2, HubAssumption, WhoIsOpen DEF Due
    <3> QED  BY <1>1, <1>3, <3>2, <3>3, <3>4 DEF Settles
  <2> QED  BY <2>1, <2>2
<1> QED  BY <1>4, <1>5, FedByParts

\* A step that moves no news and sends none keeps every list as it is, if who
\* attends afterwards attended before.
LEMMA FedQuiet ==
    ASSUME Fed, FeedNext,
           UNCHANGED <<sent, got, outbox, record, phase, held, snap, slipped>>,
           Current',
           \A i \in Instances, r \in Requests : Coming(i, r)' <=> Coming(i, r),
           \A v \in Viewers : Attending(v)' => Attending(v)
    PROVE  Fed'
<1>1. \A i \in Instances, q \in Requests : Waiting(i, q)' <=> Waiting(i, q)
  BY NextQueues DEF Waiting
<1>2. Open' = Open /\ Watch
  BY <1>1, WhoIsOpen DEF FeedNext
<1>3. ASSUME ~raced, lost = {}, ~raced', lost' = {}, ~slipped', NEW v \in Viewers, Attending(v)'
      PROVE  Settles(v)'
  <2>1. Settles(v)
    BY <1>3 DEF Fed, UpToDate
  <2>2. Shown(v)' = Shown(v)
    BY SameShown
  <2>3. \A q \in Open : Due(q, v)' <=> Due(q, v)
    BY <1>1, HubAssumption, WhoIsOpen DEF Due
  <2> QED  BY <1>2, <2>1, <2>2, <2>3 DEF Settles
<1> QED  BY <1>3, FedByParts

\* What other requests do to the cache: they put in what they have read since the last write.
LEMMA FedCached ==
    ASSUME Fed, FeedNext, LookUp \/ PutBack \/ Expire
    PROVE  Fed'
<1>1. /\ UNCHANGED <<sent, stage, got, outbox, downlink, cut>>
      /\ UNCHANGED <<record, phase, held, listed, snap, slipped>> /\ Watch /\ Current
  BY DEF LookUp, PutBack, Expire, hub, vars, people, redis, ghosts, pages, FeedNext, Fed
<1>2. \A i \in Instances, q \in Requests : /\ Waiting(i, q)' <=> Waiting(i, q)
                                           /\ Coming(i, q)' <=> Coming(i, q)
  BY <1>1, NextQueues DEF Waiting, Coming
<1>3. Open' = Open /\ Writing' = Writing
  BY <1>1, <1>2, WhoIsOpen DEF Writing
<1>4. ASSUME cache \subseteq {record}, reads \subseteq {record}
      PROVE  cache' \subseteq {record} /\ reads' \subseteq {record}
  BY <1>4 DEF LookUp, PutBack, Expire
<1>5. Current'
  BY <1>1, <1>3, <1>4 DEF Current, Watch
<1>6. \A v \in Viewers : Attending(v)' => Attending(v)
  BY <1>1 DEF Attending, Watch
<1> QED  BY <1>1, <1>2, <1>5, <1>6, FedQuiet

\* Comings and goings, commands and their replies.
LEMMA FedElse ==
    ASSUME Fed, FeedNext, UNCHANGED <<record, cache, reads, phase, held, snap, slipped>>,
           \/ \E w \in Viewers : Join(w)
           \/ (\E w \in Viewers : Leave(w)) /\ listed' = listed
           \/ (\E i \in Instances : Accept(i) \/ Refuse(i) \/ Confirmed(i) \/ Failed(i)) /\ listed' = listed
    PROVE  Fed'
<1>1. TypeOK /\ Watch
  BY DEF Fed, Order, FeedNext
<1>2. /\ UNCHANGED <<sent, got, outbox, lost>>
      /\ \A i \in Instances, r \in Requests : Coming(i, r)' <=> Coming(i, r)
  BY <1>1, NewsStays DEF Join, ViewerStep
<1>3. ASSUME NEW v \in Viewers, Attending(v)' PROVE Attending(v)
  <2>1. v \notin exposed
    BY <1>1, <1>3 DEF Attending, Watch
  <2>2. ASSUME NEW w \in Viewers, Join(w) PROVE Attending(v)
    <3>1. listed' = listed /\ Subscribe(w) /\ stage' = [stage EXCEPT ![w] = "in"] /\ stage[w] = "new"
      BY <2>2 DEF Join, Subscribe, pages
    <3>2. CASE v = w
      BY <1>1, <1>3, <2>1, <3>1, <3>2 DEF Attending
    <3>3. CASE v # w
      <4>1. stage'[v] = stage[v] /\ v \in listed
        BY <1>1, <1>3, <3>1, <3>3 DEF Attending, TypeOK
      <4>2. CASE stage[v] = "new"
        BY <2>1, <4>1, <4>2 DEF Attending
      <4>3. CASE stage[v] = "in" /\ At[v] \notin cut'
        <5>1. At[v] = At[w] => Present(At[w]) # {}
          BY <4>3 DEF Present
        <5>2. At[v] \notin cut
          BY <3>1, <4>3, <5>1 DEF Subscribe, OpenChannel
        <5> QED  BY <2>1, <4>1, <4>3, <5>2 DEF Attending
      <4> QED  BY <1>3, <4>1, <4>2, <4>3 DEF Attending
    <3> QED  BY <3>2, <3>3
  <2>3. ASSUME NEW w \in Viewers, Leave(w), listed' = listed PROVE Attending(v)
    <3>1. stage' = [stage EXCEPT ![w] = "gone"] /\ cut' = cut
      BY <2>3 DEF Leave, CloseChannel, Unsubscribe
    <3> QED  BY <1>1, <1>3, <2>1, <2>3, <3>1 DEF Attending, TypeOK
  <2>4. ASSUME NEW i \in Instances, Accept(i) \/ Refuse(i) \/ Confirmed(i) \/ Failed(i), listed' = listed
        PROVE  Attending(v)
    <3>1. stage' = stage
      BY <2>4 DEF Accept, Refuse, Confirmed, Failed, people
    <3>2. cut \subseteq cut'
      BY <2>4 DEF Accept, Refuse, Confirmed, Failed, Unsubscribe, ghosts
    <3> QED  BY <1>3, <2>1, <2>4, <3>1, <3>2 DEF Attending
  <2> QED  BY <2>2, <2>3, <2>4
<1>4. Current'
  <2>1. \A i \in Instances, q \in Requests : Waiting(i, q)' <=> Waiting(i, q)
    BY <1>2, NextQueues DEF Waiting
  <2>2. Open' = Open
    BY <1>2, <2>1, WhoIsOpen
  <2> QED  BY <1>1, <2>2, CurrentStays
<1> QED  BY <1>2, <1>3, <1>4, FedQuiet

\* A publication reaches every instance that has attending viewers.
LEMMA FedPublish ==
    ASSUME Fed, FeedNext, NEW i \in Instances, Publish(i),
           UNCHANGED <<record, cache, reads, phase, held, listed, snap, slipped>>
    PROVE  Fed'
<1>1. TypeOK /\ Order /\ Watch /\ Watched
  BY DEF Fed, Order, FeedNext
<1>2. /\ UNCHANGED <<sent, stage, got, cut, lost>>
      /\ \A j \in Instances, r \in Requests :
            /\ Waiting(j, r) <=> Waiting(j, r)' \/ (j = i /\ r = Head(outbox[i]))
            /\ Coming(j, r)' <=> Coming(j, r) \/ (j \in linked /\ r = Head(outbox[i]))
  BY <1>1, NewsPublished
<1>3. Head(outbox[i]) \in Requests /\ Waiting(i, Head(outbox[i]))
  BY <1>1, <1>2, OutboxHead DEF Publish
<1>4. \A r \in Open' : r \in Open
  BY <1>2, <1>3, WhoIsOpen
<1>5. Current'
  BY <1>4, <1>1, CurrentStays
<1>6. ASSUME ~raced, lost = {}, ~raced', lost' = {}, ~slipped', NEW v \in Viewers, Attending(v)'
      PROVE  Settles(v)'
  <2>1. Attending(v) /\ At[v] \in Instances
    BY <1>1, <1>2, <1>6, HubAssumption DEF Attending, Watch
  <2>2. Settles(v)
    BY <1>6, <2>1 DEF Fed, UpToDate
  <2>3. CASE Shown(v) = record
    <3>1. Shown(v)' = Shown(v)
      BY <1>2, SameShown
    <3> QED  BY <2>3, <3>1 DEF Settles
  <2>4. ASSUME NEW r \in Open, Due(r, v) PROVE Settles(v)'
    <3>1. r \in Requests /\ phase[r] # "new" /\ At[r] \in Instances
      BY <2>4, WhoIsOpen, HubAssumption
    <3>2. At[v] \in linked
      BY <1>1, <2>1, AttendingOpen
    <3>3. Due(r, v)'
      <4>1. CASE r \notin sent
        BY <1>2, <4>1 DEF Due
      <4>2. CASE At[r] # At[v] /\ (Waiting(At[r], r) \/ Coming(At[v], r))
        <5>1. Waiting(At[r], r)' \/ Coming(At[v], r)'
          BY <1>2, <2>1, <3>1, <3>2, <4>2
        <5> QED  BY <4>2, <5>1 DEF Due
      <4> QED  BY <2>4, <4>1, <4>2 DEF Due
    <3>4. r \in Open'
      BY <1>2, <2>1, <3>1, <3>3, WhoIsOpen DEF Due
    <3> QED  BY <3>3, <3>4 DEF Settles
  <2> QED  BY <2>2, <2>3, <2>4 DEF Settles
<1> QED  BY <1>5, <1>6, FedByParts

\* A publication that fails is noted.
LEMMA FedLose ==
    ASSUME Fed, FeedNext, NEW i \in Instances, LosePublication(i),
           UNCHANGED <<record, cache, reads, phase, held, listed, snap, slipped>>
    PROVE  Fed'
<1>1. TypeOK /\ Watch
  BY DEF Fed, Order, FeedNext
<1>2. /\ UNCHANGED sent /\ lost' # {}
      /\ \A j \in Instances, r \in Requests :
            (Waiting(j, r)' => Waiting(j, r)) /\ (Coming(j, r)' <=> Coming(j, r))
  BY <1>1, NewsLost
<1>3. \A r \in Open' : r \in Open
  BY <1>2, WhoIsOpen
<1>4. Current'
  BY <1>1, <1>3, CurrentStays
<1> QED  BY <1>2, <1>4, FedByParts

\* A message that is received updates the lists of all who attend there.
LEMMA FedReceived ==
    ASSUME Fed, FeedNext, NEW i \in Instances, Received(i),
           UNCHANGED <<record, cache, reads, phase, held, listed, snap, slipped>>
    PROVE  Fed'
<1>1. TypeOK /\ Order /\ Watch /\ Watched /\ Stages
  BY DEF Fed, Order, FeedNext
<1>2. PICK h \in Requests :
              /\ UNCHANGED <<sent, stage, outbox, cut, lost>>
              /\ Coming(i, h)
              /\ \A j \in Instances, r \in Requests :
                    /\ Coming(j, r)' => Coming(j, r)
                    /\ Coming(j, r) => Coming(j, r)' \/ (j = i /\ r = h)
              /\ \A v \in Viewers :
                    got'[v] = IF v \in Present(i) /\ i \in handling /\ At[h] # i
                              THEN Append(got[v], h) ELSE got[v]
  BY <1>1, NewsReceived
<1>3. \A j \in Instances, r \in Requests : Waiting(j, r)' <=> Waiting(j, r)
  BY <1>2, NextQueues DEF Waiting
<1>4. \A r \in Open' : r \in Open
  BY <1>2, <1>3, WhoIsOpen
<1>5. h \in Open /\ phase[h] = "read"
  BY <1>1, <1>2, WhereItTravels, WhoIsOpen DEF Stages
<1>6. Current'
  BY <1>1, <1>4, CurrentStays
<1>7. ASSUME ~raced, lost = {}, ~raced', lost' = {}, ~slipped', NEW v \in Viewers, Attending(v)'
      PROVE  Settles(v)'
  <2>1. Attending(v) /\ At[v] \in Instances
    BY <1>1, <1>2, <1>7, HubAssumption DEF Attending, Watch
  <2>2. /\ At[v] \notin cut /\ v \in Present(At[v]) /\ Calm(At[v])
    BY <1>1, <1>5, <2>1, AttendingOpen
  <2>3. At[v] \in handling
    BY <2>1, <2>2, HeardNow DEF Fed, DeafOnlyWhenCut
  <2>4. CASE At[v] = i /\ At[h] # i
    <3>1. got'[v] = Append(got[v], h) /\ got[v] \in Seq(Requests)
      BY <1>1, <1>2, <2>2, <2>3, <2>4 DEF TypeOK
    <3>2. got'[v] # <<>> /\ got'[v][Len(got'[v])] = h
      BY <3>1, AppendAt
    <3>3. held[h] = record
      BY <1>5, <1>7 DEF Fed, Current
    <3>4. Shown(v)' = record'
      BY <3>2, <3>3 DEF Shown
    <3> QED  BY <3>4 DEF Settles
  <2>5. CASE At[v] # i \/ At[h] = i
    <3>1. got'[v] = got[v]
      BY <1>2, <2>5 DEF Present
    <3>2. Shown(v)' = Shown(v)
      BY <3>1, SameShown
    <3>3. ASSUME NEW r \in Open, Due(r, v) PROVE r \in Open' /\ Due(r, v)'
      <4>1. r \in Requests /\ phase[r] # "new" /\ At[r] \in Instances
        BY <3>3, WhoIsOpen, HubAssumption
      <4>2. CASE r \notin sent
        BY <1>2, <4>1, <4>2, WhoIsOpen DEF Due
      <4>3. CASE At[r] # At[v] /\ (Waiting(At[r], r) \/ Coming(At[v], r))
        <5>1. Waiting(At[r], r)' \/ Coming(At[v], r)'
          BY <1>2, <1>3, <2>1, <2>5, <4>1, <4>3
        <5> QED  BY <2>1, <4>1, <4>3, <5>1, WhoIsOpen DEF Due
      <4> QED  BY <3>3, <4>2, <4>3 DEF Due
    <3>4. Settles(v)
      BY <1>7, <2>1 DEF Fed, UpToDate
    <3> QED  BY <3>2, <3>3, <3>4 DEF Settles
  <2> QED  BY <2>4, <2>5
<1> QED  BY <1>6, <1>7, FedByParts

\* Every operation of the feed keeps the lists up to date.
LEMMA FedKept == Fed /\ [FeedNext]_<<hub, feed>> => Fed'
<1> SUFFICES ASSUME Fed, [FeedNext]_<<hub, feed>> PROVE Fed'
  OBVIOUS
<1>1. CASE UNCHANGED <<hub, feed>>
  <2>1. /\ UNCHANGED <<sent, stage, got, outbox, downlink, cut, lost>>
        /\ UNCHANGED <<record, cache, reads, phase, held, listed, snap, raced, exposed, slipped>>
    BY <1>1 DEF hub, feed, vars, people, redis, ghosts, store, pages
  <2>2. Order' /\ Channels' /\ Stages' /\ Watched'
    BY OrderKept, ChannelsKept, StagesKept, WatchedKept, FeedStepIsHubStep DEF Fed
  <2>3. \A j \in Instances, r \in Requests : /\ Waiting(j, r)' <=> Waiting(j, r)
                                             /\ Coming(j, r)' <=> Coming(j, r)
    BY <2>1, NextQueues DEF Waiting, Coming
  <2>4. Open' = Open
    BY <2>1, <2>3, WhoIsOpen
  <2>5. Current'
    BY <2>1, <2>4 DEF Fed, Current, Writing
  <2>6. ASSUME NEW v \in Viewers PROVE (Attending(v)' <=> Attending(v)) /\ (Settles(v) => Settles(v)')
    <3>1. Shown(v)' = Shown(v)
      BY <2>1, SameShown
    <3>2. \A q \in Open : Due(q, v)' <=> Due(q, v)
      BY <2>1, <2>3, HubAssumption, WhoIsOpen DEF Due
    <3> QED  BY <2>1, <2>4, <3>1, <3>2 DEF Settles, Attending
  <2>7. UpToDate'
    BY <2>1, <2>6 DEF Fed, UpToDate
  <2> QED  BY <2>2, <2>5, <2>7 DEF Fed
<1>2. CASE FeedNext
  <2>1. ASSUME NEW r \in Requests, Asked(r) \/ Refresh(r) \/ Fill(r) \/ Announce(r) PROVE Fed'
    BY <1>2, <2>1, FedAsked, FedGivenUp, FedRefresh, FedFilled, FedAnnounce DEF Asked
  <2>5. CASE LookUp \/ PutBack \/ Expire
    BY <1>2, <2>5, FedCached
  <2>2. ASSUME NEW w \in Viewers, ReadList(w) PROVE Fed'
    BY <1>2, <2>2, FedReadList
  <2>3. ASSUME NEW w \in Viewers, Join(w) PROVE Fed'
    <3>1. UNCHANGED <<record, cache, reads, phase, held, snap, slipped>>
      BY <2>3 DEF Join, store, pages
    <3> QED  BY <1>2, <2>3, <3>1, FedElse
  <2>4. CASE HubStep
    <3>1. UNCHANGED <<record, cache, reads, phase, held, listed, snap, slipped>>
      BY <2>4 DEF HubStep, store, pages
    <3>2. ASSUME NEW w \in Viewers, Leave(w) PROVE Fed'
      BY <1>2, <3>1, <3>2, FedElse
    <3>3. ASSUME NEW i \in Instances, Accept(i) \/ Refuse(i) \/ Confirmed(i) \/ Failed(i) PROVE Fed'
      BY <1>2, <3>1, <3>3, FedElse
    <3>4. ASSUME NEW i \in Instances, Publish(i) \/ LosePublication(i) \/ Received(i) PROVE Fed'
      BY <1>2, <3>1, <3>4, FedPublish, FedLose, FedReceived
    <3> QED  BY <2>4, <3>2, <3>3, <3>4 DEF HubStep, TransportStep, ClientStep
  <2> QED  BY <1>2, <2>1, <2>2, <2>3, <2>4, <2>5 DEF FeedNext, Asked
<1> QED  BY <1>1, <1>2

\* Nobody shows anything yet.
LEMMA FedInit == FeedInit => Fed
<1> SUFFICES ASSUME FeedInit PROVE Fed
  OBVIOUS
<1>1. Order /\ Channels /\ Stages
  BY OrderInit, ChannelsInit, StagesInit DEF FeedInit
<1>2. Open = {} /\ listed = {} /\ cache = {} /\ reads = {}
  BY DEF FeedInit, Open
<1> QED  BY <1>1, <1>2 DEF Fed, Watched, Current, UpToDate, Attending

\* A list that shows an old version when all is quiet joined while an update
\* was under way, or two updates overlapped, or a publication failed, or its
\* channel was taken from under it, or the last write overtook a read on its way
\* into the cache, was not dropped from it, or belongs to a request that failed
\* (conversations/stream/route.ts, conversations/[id]/route.ts:125-162,
\* conversationStores.ts:1103-1198).
THEOREM UpToDateOutsideWindows == FeedSpec => []StaleOnlyInWindows
<1>1. Fed => StaleOnlyInWindows
  <2> SUFFICES ASSUME Fed, Quiet, ~raced, ~slipped, lost = {}, NEW v \in Viewers,
                      stage[v] = "in", v \notin exposed, At[v] \notin cut
               PROVE  Shown(v) = record
    BY DEF StaleOnlyInWindows
  <2>1. v \in listed
    BY DEF Fed, Stages
  <2>2. Attending(v)
    BY <2>1 DEF Attending
  <2>3. Settles(v)
    BY <2>2 DEF Fed, UpToDate
  <2> QED  BY <2>3 DEF Settles, Quiet
<1> QED  BY <1>1, FedInit, FedKept, PTL DEF FeedSpec
================================================================================
