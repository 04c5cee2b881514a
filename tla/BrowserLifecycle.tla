-------------------------- MODULE BrowserLifecycle --------------------------
(***************************************************************************)
(* The supervision of the visible browser in Browser Session               *)
(* (managed-browser.ts): launch, loss of the window, failures, closing,    *)
(* retry with a growing delay, and shutdown.  The delay itself is left to  *)
(* the number of failures that determines it.                              *)
(*                                                                         *)
(* A window can be left behind: by a close() that fails, or by a launch    *)
(* under way when the session is asked to stop.  The browser locks its     *)
(* profile, so no other is launched while that window is open.             *)
(***************************************************************************)
EXTENDS Naturals

CONSTANT MaxBrowserFaults   \* bound: launch failures, lost windows, runtime failures

VARIABLES
    stage,          \* where supervise is
    phase,          \* lifecycle.phase
    lastFailure,    \* lifecycle.lastFailure.category
    context,        \* the context is set
    tools,          \* the tool executor is set
    windowOpen,     \* a window of the browser is open
    told,           \* the session was told that its window has closed
    unclosed,       \* a close() has failed, or a launch was not waited for
    cause,          \* how the present attempt ended
    failures,       \* failureCount
    aborted,        \* shutdown was requested
    browserFaults

lifecycleVars ==
    <<stage, phase, lastFailure, context, tools, windowOpen, told, unclosed, cause, failures,
      aborted, browserFaults>>

Available == context /\ tools

Fault ==
    /\ browserFaults < MaxBrowserFaults
    /\ browserFaults' = browserFaults + 1

NoFault == UNCHANGED browserFaults

(* The service process starts, and with it the first attempt. *)
Boot ==
    /\ stage' = "launching" /\ phase' = "starting" /\ lastFailure' = "none"
    /\ context' = FALSE /\ tools' = FALSE
    /\ windowOpen' = FALSE /\ told' = FALSE /\ unclosed' = FALSE
    /\ cause' = "none" /\ failures' = 0 /\ aborted' = FALSE
    /\ NoFault

(* The process is gone, and its browser with it. *)
Off ==
    /\ stage' = "off" /\ phase' = "starting" /\ lastFailure' = "none"
    /\ context' = FALSE /\ tools' = FALSE
    /\ windowOpen' = FALSE /\ told' = FALSE /\ unclosed' = FALSE
    /\ cause' = "none" /\ failures' = 0 /\ aborted' = FALSE
    /\ NoFault

Abort ==
    /\ aborted' = TRUE
    /\ UNCHANGED <<stage, phase, lastFailure, context, tools, windowOpen, told, unclosed, cause,
                   failures, browserFaults>>

Runs ==
    /\ stage = "launching" /\ ~aborted /\ ~windowOpen
    /\ stage' = "running"
    /\ context' = TRUE /\ tools' = TRUE
    /\ UNCHANGED <<phase, lastFailure, told, unclosed, cause, failures, aborted>>

Launched == Runs /\ windowOpen' = TRUE /\ NoFault

(* The window has closed again before the session listens for that: it     *)
(* holds a browser that is gone, and will not be told.                     *)
LaunchedInVain == Runs /\ UNCHANGED windowOpen /\ Fault

(* What the failure is called depends on the phase it came in. *)
Failed ==
    /\ lastFailure' = IF phase = "starting" THEN "launch-failed" ELSE "runtime-failed"
    /\ failures' = failures + 1

Waits ==
    /\ stage' = "waiting" /\ phase' = "retry-wait" /\ cause' = "none"

LaunchFails ==
    /\ stage = "launching" /\ ~aborted
    /\ Fault
    /\ Failed
    /\ Waits
    /\ UNCHANGED <<context, tools, windowOpen, told, unclosed, aborted>>

(* Mutant: the tool executor outlives the window. *)
WindowClosesUnseen ==
    /\ stage = "running" /\ windowOpen
    /\ Fault
    /\ windowOpen' = FALSE /\ told' = TRUE
    /\ lastFailure' = "window-closed" /\ phase' = "closing"
    /\ UNCHANGED <<stage, context, tools, unclosed, cause, failures, aborted>>

(* The close event of a window that the session is not closing itself.     *)
RecordsWindowClosed ==
    IF phase = "closing" THEN UNCHANGED <<lastFailure, tools, phase>>
    ELSE lastFailure' = "window-closed" /\ tools' = FALSE /\ phase' = "closing"

WindowCloses ==
    /\ stage = "running" /\ windowOpen
    /\ Fault
    /\ windowOpen' = FALSE /\ told' = TRUE
    /\ RecordsWindowClosed
    /\ UNCHANGED <<stage, context, unclosed, cause, failures, aborted>>

(* A window that was left behind closes.  If it is one that close() failed *)
(* for, its event is still heard, whatever the supervision does by then.   *)
LeftWindowCloses ==
    /\ stage \in {"waiting", "launching", "stopped"} /\ windowOpen
    /\ windowOpen' = FALSE
    /\ \/ RecordsWindowClosed
       \/ stage = "stopped" /\ UNCHANGED <<lastFailure, tools, phase>>
    /\ UNCHANGED <<stage, context, told, unclosed, cause, failures, aborted, browserFaults>>

Unwind(because) ==
    /\ stage = "running"
    /\ stage' = "unwinding" /\ cause' = because
    /\ context' = FALSE /\ tools' = FALSE /\ phase' = "closing" /\ told' = FALSE
    /\ UNCHANGED <<lastFailure, windowOpen, unclosed, failures, aborted>>

SeesClosed == told /\ Unwind("closed") /\ NoFault

(* The observer or the collector throws, with the window lost or not. *)
RuntimeFails ==
    /\ Unwind("error")
    /\ IF windowOpen THEN Fault ELSE NoFault

Cancelled == aborted /\ Unwind("cancelled") /\ NoFault

(* Mutant: a closed window ends the supervision. *)
ClosedIsFinal ==
    /\ stage = "unwinding"
    /\ windowOpen' = FALSE
    /\ IF cause = "error" THEN Failed /\ Waits
       ELSE /\ stage' = "stopped" /\ phase' = "stopped" /\ cause' = "none"
            /\ UNCHANGED <<lastFailure, failures>>
    /\ UNCHANGED <<context, tools, told, unclosed, aborted, browserFaults>>

(* context.close() has closed the window, or was told that it is closed. *)
ContextClosed ==
    /\ stage = "unwinding"
    /\ windowOpen' = FALSE
    /\ CASE cause = "closed" -> failures' = 1 /\ UNCHANGED lastFailure /\ Waits
         [] cause = "error" -> Failed /\ Waits
         [] cause = "cancelled" -> /\ stage' = "stopped" /\ phase' = "stopped"
                                   /\ cause' = "none"
                                   /\ UNCHANGED <<lastFailure, failures>>
    /\ UNCHANGED <<context, tools, told, unclosed, aborted, browserFaults>>

(* A failure to close counts as a failure of the attempt, also when the    *)
(* session stops; the window may stay.                                     *)
CloseFails ==
    /\ stage = "unwinding"
    /\ Failed
    /\ Waits
    /\ unclosed' = TRUE
    /\ IF cause = "cancelled" /\ windowOpen THEN Fault ELSE NoFault
    /\ UNCHANGED <<context, tools, windowOpen, told, aborted>>

RetryElapses ==
    /\ stage = "waiting" /\ ~aborted
    /\ stage' = "launching" /\ phase' = "starting"
    /\ UNCHANGED <<lastFailure, context, tools, windowOpen, told, unclosed, cause, failures,
                   aborted, browserFaults>>

(* A launch under way is not waited for, and may open its window later. *)
Stops ==
    /\ stage \in {"launching", "waiting"} /\ aborted
    /\ stage' = "stopped" /\ phase' = "stopped"
    /\ IF stage = "launching" THEN unclosed' = TRUE /\ windowOpen' \in {windowOpen, TRUE}
       ELSE UNCHANGED <<unclosed, windowOpen>>
    /\ UNCHANGED <<lastFailure, context, tools, told, cause, failures, aborted, browserFaults>>

LifecycleInit ==
    /\ stage = "off" /\ phase = "starting" /\ lastFailure = "none"
    /\ context = FALSE /\ tools = FALSE
    /\ windowOpen = FALSE /\ told = FALSE /\ unclosed = FALSE
    /\ cause = "none" /\ failures = 0 /\ aborted = FALSE
    /\ browserFaults = 0

(* What happens without a fault of the browser. *)
LifecycleGoesOn ==
    \/ Launched \/ LaunchFails
    \/ SeesClosed \/ Cancelled \/ ContextClosed \/ CloseFails
    \/ RetryElapses \/ Stops

LifecycleNext ==
    LifecycleGoesOn \/ LaunchedInVain \/ WindowCloses \/ LeftWindowCloses \/ RuntimeFails

(* Unless a close() fails or a launch is given up, a session that ends by  *)
(* request leaves no window, nor does one that waits before it launches    *)
(* another; and a session that was told that its window has closed does    *)
(* not report a browser.                                                   *)
BrowserIsClosed ==
    /\ context => stage = "running"
    /\ ~unclosed => /\ windowOpen => stage \in {"running", "unwinding"}
                    /\ told => ~Available
=============================================================================
