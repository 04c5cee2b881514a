---------------------------- MODULE ServiceGroup ----------------------------
(***************************************************************************)
(* What the supervisor promises of the services it starts.  It owns a      *)
(* service from its start until it has stopped it or seen its end, every   *)
(* process that runs is owned, services are started in dependency order    *)
(* from nothing, and a service is given up only when all that depend on it *)
(* have been, unless it ended by itself.                                   *)
(***************************************************************************)
EXTENDS Naturals

CONSTANT Services   \* 1 .. n: a service depends on the ones before it

VARIABLES
    owned,          \* the services the supervisor answers for
    live            \* the services whose processes run

groupVars == <<owned, live>>

GroupInit == owned = {} /\ live = {}

Acquire(s) ==
    /\ owned = 1 .. s - 1
    /\ owned' = owned \cup {s}
    /\ live' = live \cup {s}

EndsByItself(s) ==
    /\ s \in live
    /\ live' = live \ {s}
    /\ UNCHANGED owned

GiveUp(s) ==
    /\ s \in owned
    /\ s \in live => \A t \in owned : t <= s
    /\ owned' = owned \ {s}
    /\ live' = live \ {s}

GroupNext == \E s \in Services : Acquire(s) \/ EndsByItself(s) \/ GiveUp(s)

GroupSpec == GroupInit /\ [][GroupNext]_groupVars
=============================================================================
