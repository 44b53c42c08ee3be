------------------------ MODULE MCConversationPaths ------------------------
(***************************************************************************)
(* Small instances of ConversationPaths and PathResolution.  A run         *)
(* explores them one after the other.  In "race" two chat turns and a      *)
(* merge race on a path and its branch, and stop half-way; merges are      *)
(* selective, of all messages too, or summaries.  In "views" branches of   *)
(* branches come and go while one turn and full merges write, one after    *)
(* the other.  In both, inserts into one path do not overlap.  In          *)
(* "overlap" they do: a turn and a full merge write into one path at the   *)
(* same time.                                                              *)
(***************************************************************************)
EXTENDS PathResolution

VARIABLE instance

\* Chat turns are interchangeable, and so are merge requests.
Symmetry == Permutations(Turns) \cup Permutations(Mergers)

MCInit == Init /\ instance \in {"race", "views", "overlap"}

\* No request stops while its path is there.
Completes ==
    /\ \A t \in Turns :
        turn[t].pc = "insert" /\ LivePath(turn[t].path) /\ turn'[t] = IdleTurn => msgs' # msgs
    /\ \A g \in Mergers :
        merge[g].busy /\ LivePath(merge[g].source) /\ LivePath(merge[g].target) /\ ~merge'[g].busy
          => paths' # paths

Merging(modes) == \A g \in Mergers : merge'[g].mode \in modes \cup {"none"}

OneTurn == \E t \in Turns : \A u \in Turns \ {t} : turn'[u] = IdleTurn

Race ==
    /\ \A p \in PathIds : p > 2 => paths'[p].state = "none"
    /\ \A m \in MessageIds : m > 5 => msgs'[m].state = "none"
    /\ Merging({"selective", "summary"})

\* Between a request's first and last call the others make none.
OneAtATime ==
    /\ OneTurn
    /\ (\E t \in Turns : turn'[t].pc # "idle") => \A g \in Mergers : ~merge'[g].busy

Views ==
    /\ \A m \in MessageIds : m > 4 => msgs'[m].state = "none"
    /\ OneAtATime
    /\ Merging({"full"})
    /\ Completes

Overlapping ==
    /\ \A p \in PathIds : paths'[p].state # "gone" /\ (p > 2 => paths'[p].state = "none")
    /\ OneTurn
    /\ Merging({"full"})
    /\ Completes

MCNext ==
    /\ Next
    /\ UNCHANGED instance
    /\ \/ instance = "race" /\ Race
       \/ instance = "views" /\ Views
       \/ instance = "overlap" /\ Overlapping
    /\ instance # "overlap" => /\ \A t \in Turns : turn'[t].number = 0
                               /\ \A g \in Mergers : merge'[g].number = 0

MCSpec == MCInit /\ [][MCNext]_<<vars, instance>>
=============================================================================
