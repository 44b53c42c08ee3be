-------------------------- MODULE ConversationFeed --------------------------
(***************************************************************************)
(* The conversation list that users have open, over the event hub: a       *)
(* request writes a conversation, reads it back and announces what it      *)
(* read; a viewer's stream reads the list, subscribes to the hub and sends *)
(* the list as a snapshot, before anything the hub delivers.               *)
(*                                                                         *)
(* One conversation, of which `record' is the version in the database.     *)
(* Reads of the conversation, but not those of the list, go through a      *)
(* cache, from which every write drops the entry.  The page replaces its   *)
(* copy with whatever an upsert brings.                                    *)
(***************************************************************************)
EXTENDS ChannelHub, FiniteSets

VARIABLES
    record,     \* the version of the conversation in the database
    cache,      \* the version in the cache, if any: {} or {version}
    reads,      \* versions that other requests have read and may put into the cache
    phase,      \* how far a request is
    held,       \* the version a request has read back and announces
    listed,     \* viewers whose stream has read the list
    snap,       \* the version that read returned
    raced,      \* whether an update ran while another was under way
    exposed,    \* viewers that were joining while an update was under way
    slipped     \* whether what the last write wrote may go unannounced

hub == vars
store == <<record, cache, reads>>
pages == <<listed, snap>>
feed == <<store, phase, held, pages, raced, exposed, slipped>>

\* A request writes up to two times, and after each write drops the cached version.
Phases == {"new", "archiving", "archived", "sharing", "shared", "filling", "read", "failed"}

FeedInit ==
    /\ Init
    /\ record = 0
    /\ cache = {} /\ reads = {}
    /\ phase = [r \in Requests |-> "new"]
    /\ held = [r \in Requests |-> 0]
    /\ listed = {}
    /\ snap = [v \in Viewers |-> 0]
    /\ raced = FALSE
    /\ exposed = {}
    /\ slipped = FALSE

\* Requests between their write and the arrival of what they announced.
Travelling(r) ==
    \E i \in Instances :
        \/ \E k \in DOMAIN outbox[i] : outbox[i][k] = r
        \/ \E k \in DOMAIN downlink[i] : downlink[i][k] = Message(r)

Open == {r \in Requests : phase[r] \notin {"new", "failed"} /\ (r \notin sent \/ Travelling(r))}

\* A viewer that has read the list and whose channel is not confirmed.
Joining(v) ==
    \/ v \in listed /\ stage[v] = "new"
    \/ stage[v] = "in" /\ ~(Calm(At[v]) /\ At[v] \in linked)

Watch ==
    /\ raced' = (raced \/ \E r, s \in Open' : r # s)
    /\ exposed' = exposed \cup {v \in Viewers : Joining(v)' /\ Open' # {}}

-----------------------------------------------------------------------------
(* The conversation and its cache. *)

Go(r, from, to) ==
    /\ phase[r] \in from
    /\ phase' = [phase EXCEPT ![r] = to]

Write(r, from, to) ==
    /\ Go(r, from, to)
    /\ record' = record + 1
    /\ UNCHANGED <<hub, cache, reads, held, pages, slipped>>

\* The PATCH handler writes the archived state, then the rest, or only one of them.
Archive(r) == Write(r, {"new"}, "archiving")

Share(r) == Write(r, {"new", "archived"}, "sharing")

\* Mutant: the write of the archived state does not drop the cached version.
DropWhenShared(r) ==
    /\ \/ Go(r, {"archiving"}, "archived") /\ UNCHANGED cache
       \/ Go(r, {"sharing"}, "shared") /\ cache' = {}
    /\ slipped' = \E version \in reads : version # record
    /\ UNCHANGED <<hub, record, reads, held, pages>>

\* After a write the cached version is dropped; a drop that fails is ignored.  A version that
\* another request has read before the write may still be on its way into the cache.
Drop(r) ==
    /\ \/ Go(r, {"archiving"}, "archived")
       \/ Go(r, {"sharing"}, "shared")
    /\ \/ cache' = {} /\ slipped' = \E version \in reads : version # record
       \/ UNCHANGED cache /\ slipped' = TRUE
    /\ UNCHANGED <<hub, record, reads, held, pages>>

\* A call fails after a write, or the write's answer is lost: nothing is announced.
GiveUp(r) ==
    /\ Go(r, {"archiving", "archived", "sharing", "shared"}, "failed")
    /\ slipped' = TRUE
    /\ UNCHANGED <<hub, store, held, pages>>

Done == {"new", "archived", "shared"}

\* The read-back: the cached version, or, if there is none or the cache does not answer,
\* that of the database, which it then puts into the cache.
Refresh(r) ==
    /\ \/ /\ Go(r, Done, "read")
          /\ \E version \in cache : held' = [held EXCEPT ![r] = version]
       \/ /\ Go(r, Done, "filling")
          /\ held' = [held EXCEPT ![r] = record]
    /\ UNCHANGED <<hub, store, pages, slipped>>

Fill(r) ==
    /\ Go(r, {"filling"}, "read")
    /\ cache' \in {{held[r]}, cache}
    /\ UNCHANGED <<hub, record, reads, held, pages, slipped>>

\* Some other request reads the conversation, misses the cache and reads the database.
LookUp ==
    /\ reads' = reads \cup {record}
    /\ UNCHANGED <<hub, record, cache, phase, held, pages, slipped>>

\* It puts what it has read into the cache, or fails to.
PutBack ==
    /\ \E version \in reads :
        /\ reads' = reads \ {version}
        /\ cache' \in {{version}, cache}
    /\ UNCHANGED <<hub, record, phase, held, pages, slipped>>

\* The entry's time is over, or a write to something else in the conversation drops it.
Expire ==
    /\ cache # {}
    /\ cache' = {}
    /\ UNCHANGED <<hub, record, reads, phase, held, pages, slipped>>

-----------------------------------------------------------------------------
(* The lists. *)

Announce(r) ==
    /\ phase[r] = "read"
    /\ Broadcast(r)
    /\ UNCHANGED <<store, phase, held, pages, slipped>>

ReadList(v) ==
    /\ v \notin listed
    /\ listed' = listed \cup {v}
    /\ snap' = [snap EXCEPT ![v] = record]
    /\ UNCHANGED <<hub, store, phase, held, slipped>>

Join(v) ==
    /\ v \in listed
    /\ Subscribe(v)
    /\ UNCHANGED <<store, phase, held, pages, slipped>>

HubStep ==
    /\ \/ \E v \in Viewers : Leave(v)
       \/ \E i \in Instances : TransportStep(i)
    /\ UNCHANGED <<store, phase, held, pages, slipped>>

FeedNext ==
    /\ \/ \E r \in Requests :
            \/ Archive(r) \/ Share(r) \/ Drop(r) \/ GiveUp(r)
            \/ Refresh(r) \/ Fill(r) \/ Announce(r)
       \/ LookUp \/ PutBack \/ Expire
       \/ \E v \in Viewers : ReadList(v) \/ Join(v)
       \/ HubStep
    /\ Watch

FeedSpec == FeedInit /\ [][FeedNext]_<<hub, feed>> /\ Fairness

-----------------------------------------------------------------------------
FeedTypeOK ==
    /\ TypeOK
    /\ record \in 0 .. 2 * Cardinality(Requests)
    /\ cache \subseteq 0 .. record
    /\ reads \subseteq 0 .. record
    /\ phase \in [Requests -> Phases]
    /\ \A r \in Requests : held[r] \in 0 .. record
    /\ listed \subseteq Viewers
    /\ \A v \in Viewers : snap[v] \in 0 .. record
    /\ raced \in BOOLEAN
    /\ exposed \subseteq listed
    /\ slipped \in BOOLEAN

\* The version a viewer shows: the last one it was sent.
Shown(v) == IF got[v] = <<>> THEN snap[v] ELSE held[got[v][Len(got[v])]]

\* Nothing is under way: every list should show the record.
Quiet == Open = {} /\ \A i \in Instances : Calm(i)

\* A list that shows an old version joined while an update was under way, or two updates
\* overlapped, or Redis failed, or the viewer's channel was taken from under it, or the
\* last write overtook a read that was on its way into the cache, was not dropped from it, or
\* belongs to a request that then failed: there is no other way to miss one
\* (conversations/stream/route.ts, conversations/[id]/route.ts:125-157,
\* conversationStores.ts:1103-1161).
StaleOnlyInWindows == Quiet /\ ~raced /\ ~slipped => \A v \in Viewers :
    stage[v] = "in" /\ v \notin exposed /\ At[v] \notin cut /\ lost = {} => Shown(v) = record

=============================================================================
