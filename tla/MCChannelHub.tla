---------------------------- MODULE MCChannelHub ----------------------------
(***************************************************************************)
(* Two application instances.  A run explores two instances of the model   *)
(* one after the other: in "hub" the event hub alone, where i1 announces   *)
(* twice and serves one viewer and i2 serves two, whose visits may overlap *)
(* or follow one another; the viewer of i1 stays.  In "feed" there is the  *)
(* conversation list over it: v2 watches, r1 of the other instance and r3  *)
(* of its own update the conversation, r1 in two writes, and one read at a *)
(* time is on its way into the cache.  What is announced is recorded for   *)
(* the refinement.                                                         *)
(***************************************************************************)
EXTENDS ConversationFeed, HubLog, TLC

CONSTANTS i1, i2, v1, v2, v3, r1, r2, r3

VARIABLE instance

MCInstances == {i1, i2}
MCViewers == {v1, v2, v3}
MCRequests == {r1, r2, r3}
MCAt == v1 :> i1 @@ v2 :> i2 @@ v3 :> i2 @@ r1 :> i1 @@ r2 :> i1 @@ r3 :> i2

MCInit == FeedInit /\ LogInit /\ instance \in {"hub", "feed"}

\* What v2 is excused from for good: StaleOnlyInWindows says nothing of it any more.
Excused == raced \/ lost # {} \/ v2 \in exposed

FeedStep ==
    /\ FeedNext
    /\ ~Excused
    /\ phase'[r2] = "new" /\ phase'[r3] # "archiving"
    /\ listed' \subseteq {v2}
    /\ Cardinality(reads') <= 1

MCNext ==
    /\ UNCHANGED instance
    /\ \/ instance = "hub" /\ Next /\ r3 \notin sent' /\ UNCHANGED feed
       \/ instance = "feed" /\ FeedStep
    /\ stage'[v1] # "gone"
    /\ Record

MCFeedInit == FeedInit /\ LogInit /\ instance = "feed"
MCFeedSpec == MCFeedInit /\ [][MCNext]_<<hub, feed, log, instance>>
MCSpec == MCInit /\ [][MCNext]_<<hub, feed, log, instance>> /\ Fairness

=============================================================================
