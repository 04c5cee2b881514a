------------------------------ MODULE Desktop ------------------------------
(***************************************************************************)
(* The desktop product: the manager, with the lifecycle of the visible     *)
(* browser inside its third service.  The Browser Session's health answer  *)
(* is the status of that lifecycle; its process boots the lifecycle, the   *)
(* end of its standard input aborts it, and it exits when the lifecycle    *)
(* has ended.                                                              *)
(***************************************************************************)
EXTENDS DesktopManager, BrowserLifecycle

CONSTANT MaxFaults      \* bound: crashes and browser faults together

desktopVars == <<managerVars, lifecycleVars>>

(* What a step of the manager or of a process does to the lifecycle. *)
Follows ==
    LET was == proc[Browser]
        is == proc'[Browser]
    IN  CASE was = is -> UNCHANGED lifecycleVars
          [] was = "none" /\ is = "alive" -> Boot
          [] was = "alive" /\ is = "asked" -> Abort
          [] was = "asked" /\ is = "exited" -> stage = "stopped" /\ Off
          [] OTHER -> Off

(* What a step of the lifecycle does to the answer of the service. *)
Answers ==
    /\ healthy' = IF Available' THEN healthy \cup {Browser} ELSE healthy \ {Browser}
    /\ UNCHANGED <<commands, updates, windowVars, controlVars, proc, crashes>>

ProcessNext ==
    \/ \E s \in {Workspace, Dashboard} : Serves(s)
    \/ \E s \in Services : Crashes(s) \/ Obeys(s)

DesktopInit == ManagerInit /\ LifecycleInit

DesktopNext ==
    /\ \/ (WindowNext \/ ControllerNext \/ ProcessNext \/ Gone) /\ Follows
       \/ LifecycleNext /\ Answers
    /\ crashes' + browserFaults' <= MaxFaults

(* Every turn of the two loops is taken, a service that can serve or stop  *)
(* does, the browser is launched again after its delay, and a health       *)
(* request is made every second while there is a browser to observe.       *)
DesktopFairness ==
    /\ WF_desktopVars(ApplyUpdate /\ Follows)
    /\ WF_desktopVars(ControllerNext /\ Follows)
    /\ SF_desktopVars(PollHealth /\ Follows)
    /\ WF_desktopVars(LifecycleGoesOn /\ Answers)

DesktopSpec == DesktopInit /\ [][DesktopNext]_desktopVars /\ DesktopFairness

-----------------------------------------------------------------------------
(* Stop and the end of the program take effect, wherever the controller    *)
(* is: every process that runs then is stopped, and a closed window ends   *)
(* the controller too.                                                     *)
StopIsObeyed ==
    (\E i \in DOMAIN commands : commands[i].op # "start")
        ~> (Live = {} /\ (window.closed => pc = "gone"))

(* If the browser stays available while the services run, the window ends  *)
(* up showing that it does.                                                *)
BrowserIsShown ==
    <>[](Available /\ started /\ Browser \in group /\ ~window.closed)
        => <>[](window.browser = "Running")

(* A lost or failed browser is launched again, until the session is asked  *)
(* to stop or its process ends, or unless a window it could not close      *)
(* stays open.                                                             *)
BrowserComesBack ==
    (stage # "off" /\ ~Available) ~> (Available \/ aborted \/ stage = "off" \/ windowOpen)
=============================================================================
