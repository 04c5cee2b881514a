-------------------------- MODULE BrowserAuthority --------------------------
(***************************************************************************)
(* What the control protocol of the browser session promises its two       *)
(* users, whatever goes on inside: the agent or the user drives the        *)
(* browser, never both; the user gets it when a login interface is ready   *)
(* or a recognised interruption demands it, and only a call that reports   *)
(* the user's return gives it back.                                        *)
(***************************************************************************)

CONSTANTS
    ReturnCalls,    \* calls that report that the user returned control
    Interruptions,  \* access interruptions an adapter can recognise
    NoInterruption

VARIABLES
    authority,      \* who may start to drive the browser
    interruption,   \* the interruption the pause is retained for, if any
    returning       \* the return calls that are being served

vars == <<authority, interruption, returning>>

Init ==
    /\ authority = "agent"
    /\ interruption = NoInterruption
    /\ returning = {}

(* A login interface is ready: control passes to the user. *)
HandOver ==
    /\ authority = "agent"
    /\ authority' = "user"
    /\ interruption' = NoInterruption
    /\ UNCHANGED returning

(* A verification request or an access denial passes control at any time. *)
Interrupt(i) ==
    /\ authority' = "user"
    /\ interruption' = i
    /\ UNCHANGED returning

RequestReturn(r) ==
    /\ returning' = returning \cup {r}
    /\ UNCHANGED <<authority, interruption>>

(* The return is granted, unless the observation shows a new interruption. *)
Return(r, seen) ==
    /\ r \in returning
    /\ returning' = returning \ {r}
    /\ authority' = IF seen = NoInterruption THEN "agent" ELSE "user"
    /\ interruption' = seen

(* The call changes nothing: its observation failed or was not of a        *)
(* platform, or there was no pause to end.                                 *)
Withdraw(r) ==
    /\ r \in returning
    /\ returning' = returning \ {r}
    /\ UNCHANGED <<authority, interruption>>

Next ==
    \/ HandOver
    \/ \E i \in Interruptions : Interrupt(i)
    \/ \E r \in ReturnCalls :
          \/ RequestReturn(r)
          \/ Withdraw(r)
          \/ \E seen \in Interruptions \cup {NoInterruption} : Return(r, seen)

Spec == Init /\ [][Next]_vars
=============================================================================
