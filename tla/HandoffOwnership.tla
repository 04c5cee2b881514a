-------------------------- MODULE HandoffOwnership --------------------------
(***************************************************************************)
(* HandoffControl with two history variables that the code does not keep:  *)
(* whose pause is in force, and which return calls began before the        *)
(* handoff that is now in force.  The control object records neither, so   *)
(* these are the questions its single #state cannot answer.                *)
(***************************************************************************)
EXTENDS HandoffControl

VARIABLES
    holder,     \* the preparation whose pause is in force, or NoPreparer
    outdated    \* the return calls older than the handoff in force

hvars == <<vars, holder, outdated>>

HInit == Init /\ holder = NoPreparer /\ outdated = {}

(* A preparation takes the pause when it blocks the session. *)
TakesPause(p) ==
    \/ prepareAt[p] = "idle" /\ prepareAt'[p] # "idle"
    \/ prepareAt[p] = "resumable" /\ prepareAt'[p] = "preparing"

HolderStops ==
    \/ state' = "user-handoff"
    \/ holder # NoPreparer /\ prepareAt'[holder] = "idle"

TrackHolder ==
    \/ \E p \in Preparers : TakesPause(p) /\ holder' = p
    \/ /\ \A p \in Preparers : ~TakesPause(p)
       /\ holder' = IF HolderStops THEN NoPreparer ELSE holder

(* A handoff begins when control passes to the user or when another        *)
(* interruption is recognised while it is the user's.                      *)
HandoffBegins ==
    state' = "user-handoff" /\ (state # "user-handoff" \/ interruption' # interruption)

TrackOutdated ==
    outdated' = (IF HandoffBegins THEN returning ELSE outdated) \cap returning'

HNext == Next /\ TrackHolder /\ TrackOutdated

HSpec == HInit /\ [][HNext]_hvars /\ Fairness

-----------------------------------------------------------------------------
(* The preparation that blocked the session keeps it blocked until it is   *)
(* over or the user takes control: nothing else resumes agent activity.    *)
PauseHeld == holder # NoPreparer => state \in {"quiescing", "preparing-handoff"}

(* A return call ends only a handoff it is younger than.  A call that was  *)
(* sent before the handoff began cannot report the user's return from it.  *)
ReturnIsNotOutdated ==
    [][\A r \in ReturnCalls :
          r \in returning \ returning' /\ state = "user-handoff" /\ state' = "active"
             => r \notin outdated]_hvars
=============================================================================
