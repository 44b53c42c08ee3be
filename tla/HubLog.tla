--------------------------------- MODULE HubLog ---------------------------------
(***************************************************************************)
(* ChannelHub with a history variable, which no operation reads: the       *)
(* events that every instance has announced, in order.  With it the hub is *)
(* shown to implement EventChannel.                                        *)
(***************************************************************************)
EXTENDS ChannelHub

VARIABLE log

LogInit == Init /\ log = [i \in Instances |-> <<>>]

\* What the step announces goes to the end of its instance's log.
Record ==
    \/ sent' = sent /\ UNCHANGED log
    \/ \E r \in sent' \ sent : log' = [log EXCEPT ![At[r]] = Append(@, r)]

LogSpec == LogInit /\ [][Next /\ Record]_<<vars, log>>

Channel == INSTANCE EventChannel

\* However viewers come and go, subscriptions overlap, commands fail and messages wait in
\* Redis, every viewer is sent a part of every instance's log, in the log's order and no
\* event twice, and nothing that is in no log (genericRedisHub.ts:98-115 and 186-206).
ImplementsChannel == Channel!Spec

================================================================================
