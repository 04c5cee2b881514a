--------------------------- MODULE DesktopManager ---------------------------
(***************************************************************************)
(* Desktop Manager: the window's thread and the controller's thread that   *)
(* starts, watches and stops the services (main.rs, service_supervisor.rs).*)
(* The two share a channel of commands and the event loop's queue of       *)
(* window updates; a service is a process with a health endpoint.          *)
(***************************************************************************)
EXTENDS DesktopPlan, FiniteSetsExt

CONSTANTS
    Executables,    \* the executables a user may name
    Files,          \* the settings files the manager may find at its start
    Edits,          \* the settings a user may enter
    MaxClicks,      \* bound: Start and Stop clicks
    MaxCrashes,     \* bound: unexpected exits and unanswered health requests
    MaxSaves        \* bound: settings saved

Services == 1 .. 3

VARIABLES
    commands,       \* channel to the controller: records [op, settings]
    updates,        \* window updates the event loop has not run yet
    window,         \* what the window shows, whether Settings is open
    settings,       \* the settings the window's thread holds
    file,           \* data/settings.json
    pc,             \* where the controller is
    after,          \* what it does once the services it stops have stopped
    inForce,        \* the settings and the browser of the present start
    next,           \* the service being started
    group,          \* RunningServices.services
    halting,        \* the services being stopped, the largest first
    started,        \* the controller's running services are Some
    monitor,        \* the tracker's last availability, or "none"
    proc,           \* the processes
    healthy,        \* services whose health endpoint says they are ready
    clicks, crashes, saves

windowVars == <<window, settings, file, clicks, saves>>
controlVars == <<pc, after, inForce, next, group, halting, started, monitor>>
processVars == <<proc, healthy, crashes>>
managerVars == <<commands, updates, windowVars, controlVars, processVars>>

(* The settings and the browser while no start is in force. *)
NoStart == [settings |-> Default, browser |-> Unset]

Live == {s \in Services : proc[s] \in {"alive", "asked"}}

-----------------------------------------------------------------------------
(* The window.                                                             *)

Starting(w) ==
    [w EXCEPT !.canStart = FALSE, !.canStop = TRUE, !.canConfigure = FALSE,
              !.core = "Starting", !.browser = "Starting"]

Running(w, browser) ==
    [w EXCEPT !.canStop = TRUE, !.canConfigure = FALSE,
              !.core = "Running", !.browser = browser]

Stopping(w) ==
    [w EXCEPT !.canStop = FALSE, !.canConfigure = FALSE,
              !.core = "Stopping", !.browser = "Stopping"]

Stopped(w, core) ==
    [w EXCEPT !.canStart = TRUE, !.canStop = FALSE, !.canConfigure = TRUE,
              !.core = core, !.browser = "Stopped"]

Applied(w, update) ==
    CASE update = "starting" -> Starting(w)
      [] update = "running" -> Running(w, "Running")
      [] update = "limited" -> Running(w, "Unavailable")
      [] update = "available" -> [w EXCEPT !.browser = "Running"]
      [] update = "unavailable" -> [w EXCEPT !.browser = "Unavailable"]
      [] update = "stopping" -> Stopping(w)
      [] update = "stopped" -> Stopped(w, "Stopped")
      [] update = "failed" -> Stopped(w, "Failed")

Show(update) == updates' = Append(updates, update)

ApplyUpdate ==
    /\ ~window.closed
    /\ updates # <<>>
    /\ window' = Applied(window, Head(updates))
    /\ updates' = Tail(updates)
    /\ UNCHANGED <<commands, settings, file, clicks, saves, controlVars, processVars>>

Send(op) == commands' = Append(commands, [op |-> op, settings |-> settings])

ClickStart ==
    /\ ~window.closed /\ ~window.settings /\ window.canStart
    /\ clicks < MaxClicks
    /\ clicks' = clicks + 1
    /\ Send("start")
    /\ UNCHANGED <<updates, window, settings, file, saves, controlVars, processVars>>

ClickStop ==
    /\ ~window.closed /\ ~window.settings /\ window.canStop
    /\ clicks < MaxClicks
    /\ clicks' = clicks + 1
    /\ Send("stop")
    /\ UNCHANGED <<updates, window, settings, file, saves, controlVars, processVars>>

OpenSettings ==
    /\ ~window.closed /\ ~window.settings /\ window.canConfigure
    /\ window' = [window EXCEPT !.settings = TRUE]
    /\ UNCHANGED <<commands, updates, settings, file, clicks, saves, controlVars, processVars>>

CancelSettings ==
    /\ ~window.closed /\ window.settings
    /\ window' = [window EXCEPT !.settings = FALSE]
    /\ UNCHANGED <<commands, updates, settings, file, clicks, saves, controlVars, processVars>>

(* Invalid settings, or a failed write, leave everything as it is and      *)
(* Settings open.  A valid save offers Start, whatever the services do.    *)
SaveSettings(edited, files) ==
    /\ ~window.closed /\ window.settings
    /\ saves < MaxSaves
    /\ Valid(edited, files)
    /\ saves' = saves + 1
    /\ settings' = edited
    /\ file' = edited
    /\ window' = [window EXCEPT !.canStart = TRUE, !.settings = FALSE]
    /\ UNCHANGED <<commands, updates, clicks, controlVars, processVars>>

CloseWindow ==
    /\ ~window.closed
    /\ window' = [window EXCEPT !.closed = TRUE]
    /\ Send("exit")
    /\ UNCHANGED <<updates, settings, file, clicks, saves, controlVars, processVars>>

WindowNext ==
    \/ ApplyUpdate \/ ClickStart \/ ClickStop \/ CloseWindow
    \/ OpenSettings \/ CancelSettings
    \/ \E edited \in Edits, files \in SUBSET Executables : SaveSettings(edited, files)

-----------------------------------------------------------------------------
(* The controller: cancellation.                                           *)

(* startup_cancellation_requested takes commands up to the first that is   *)
(* not a Start, and drops the Starts.                                      *)
OnlyStarts(n) == \A i \in 1 .. n : commands[i].op = "start"

(* Mutant: a start that goes on drops what it did not look at. *)
ProceedsRegardless == commands' = <<>>

Proceeds == OnlyStarts(Len(commands)) /\ commands' = <<>>

(* The start is given up; what was started is dropped, the last first. *)
GiveUp(stopped) ==
    /\ \E i \in DOMAIN commands :
        /\ commands[i].op # "start" /\ OnlyStarts(i - 1)
        /\ commands' = SubSeq(commands, i + 1, Len(commands))
        /\ IF commands[i].op = "exit" THEN after' = "exit" /\ UNCHANGED updates
           ELSE after' = "stopped" /\ Show("stopping")
    /\ halting' = stopped
    /\ pc' = "ask"
    /\ group' = {}
    /\ monitor' = "none"
    /\ UNCHANGED <<inForce, next, started, processVars>>

Fail(stopped) ==
    /\ after' = "failed"
    /\ halting' = stopped
    /\ pc' = "ask"
    /\ group' = {}
    /\ monitor' = "none"
    /\ UNCHANGED <<inForce, next, started, updates>>

-----------------------------------------------------------------------------
(* The controller: start.                                                  *)

ReceiveStart ==
    /\ pc = "recv" /\ commands # <<>> /\ Head(commands).op = "start"
    /\ commands' = Tail(commands)
    /\ IF started THEN pc' = "poll" /\ UNCHANGED <<updates, inForce>>
       ELSE /\ pc' = "start"
            /\ inForce' = [settings |-> Head(commands).settings, browser |-> Unset]
            /\ Show("starting")
    /\ UNCHANGED <<after, next, group, halting, started, monitor, windowVars, processVars>>

StartCancelled ==
    /\ pc = "start"
    /\ GiveUp({})
    /\ UNCHANGED windowVars

(* The admin port and the log file are prepared before anything starts. *)
PrepareFails ==
    /\ pc = "start"
    /\ Proceeds
    /\ Fail({})
    /\ UNCHANGED <<windowVars, processVars>>

Prepare(files) ==
    /\ pc = "start"
    /\ Proceeds
    /\ inForce' = [inForce EXCEPT !.browser = Discovered(inForce.settings, files)]
    /\ next' = 1
    /\ pc' = "spawn"
    /\ UNCHANGED <<updates, after, group, halting, started, monitor, windowVars, processVars>>

SpawnCancelled ==
    /\ pc = "spawn"
    /\ GiveUp(group)
    /\ UNCHANGED windowVars

(* A failed spawn fails the start, that of the browser too. *)
SpawnFails ==
    /\ pc = "spawn" /\ next <= Planned(inForce.browser)
    /\ Proceeds
    /\ Fail(group)
    /\ UNCHANGED <<windowVars, processVars>>

Spawn ==
    /\ pc = "spawn" /\ next <= Planned(inForce.browser)
    /\ Proceeds
    /\ proc' = [proc EXCEPT ![next] = "alive"]
    /\ pc' = "wait"
    /\ UNCHANGED <<updates, after, inForce, next, group, halting, started, monitor,
                   windowVars, healthy, crashes>>

(* Mutant: a cancelled start forgets the service it waits for. *)
CancelledForgetsAwaited ==
    /\ pc = "wait"
    /\ GiveUp(group)
    /\ UNCHANGED windowVars

WaitCancelled ==
    /\ pc = "wait"
    /\ GiveUp(group \cup {next})
    /\ UNCHANGED windowVars

WaitOn ==
    /\ pc = "wait" /\ commands # <<>>
    /\ Proceeds
    /\ UNCHANGED <<updates, windowVars, controlVars, processVars>>

Ready ==
    /\ pc = "wait"
    /\ Proceeds
    /\ proc[next] # "exited"
    /\ next \in healthy
    /\ group' = group \cup {next}
    /\ monitor' = IF Optional(next) THEN "available" ELSE monitor
    /\ next' = next + 1
    /\ pc' = "spawn"
    /\ UNCHANGED <<updates, after, inForce, halting, started, windowVars, processVars>>

(* An optional service that does not get ready is stopped and left out. *)
NotReady ==
    \/ /\ Optional(next)
       /\ pc' = "ask" /\ after' = "skip" /\ halting' = {next}
       /\ UNCHANGED <<updates, inForce, next, group, started, monitor>>
    \/ ~Optional(next) /\ Fail(group \cup {next})

ExitedInStartup ==
    /\ pc = "wait"
    /\ Proceeds
    /\ proc[next] = "exited"
    /\ NotReady
    /\ UNCHANGED <<windowVars, processVars>>

WaitTimesOut ==
    /\ pc = "wait"
    /\ NotReady
    /\ UNCHANGED <<commands, windowVars, processVars>>

(* Mutant: the first report says what discovery found, not what got ready. *)
StartedAsDiscovered ==
    /\ pc = "spawn" /\ next > Planned(inForce.browser)
    /\ Proceeds
    /\ Show(IF inForce.browser # Unset THEN "running" ELSE "limited")
    /\ started' = TRUE
    /\ pc' = "poll"
    /\ UNCHANGED <<after, inForce, next, group, halting, monitor, windowVars, processVars>>

Started ==
    /\ pc = "spawn" /\ next > Planned(inForce.browser)
    /\ Proceeds
    /\ Show(IF monitor = "available" THEN "running" ELSE "limited")
    /\ started' = TRUE
    /\ pc' = "poll"
    /\ UNCHANGED <<after, inForce, next, group, halting, monitor, windowVars, processVars>>

-----------------------------------------------------------------------------
(* The controller: stop.                                                   *)

StopAll(outcome) ==
    /\ pc' = "ask" /\ after' = outcome
    /\ halting' = group /\ group' = {}
    /\ started' = FALSE
    /\ monitor' = "none"
    /\ UNCHANGED <<inForce, next>>

ReceiveStop ==
    /\ pc = "recv" /\ commands # <<>> /\ Head(commands).op = "stop"
    /\ commands' = Tail(commands)
    /\ IF started THEN StopAll("stopped") /\ Show("stopping")
       ELSE pc' = "poll" /\ UNCHANGED <<updates, after, inForce, next, group, halting,
                                        started, monitor>>
    /\ UNCHANGED <<windowVars, processVars>>

ReceiveExit ==
    /\ pc = "recv" /\ commands # <<>> /\ Head(commands).op = "exit"
    /\ commands' = Tail(commands)
    /\ StopAll("exit")
    /\ UNCHANGED <<updates, windowVars, processVars>>

(* Mutant: services are stopped in the order they were started. *)
FirstStarted == Min(halting)

Current == Max(halting)

(* Standard input is closed; the request to the admin endpoint may fail. *)
Ask ==
    /\ pc = "ask" /\ halting # {}
    /\ pc' = "await"
    /\ \/ /\ proc[Current] = "alive"
          /\ proc' = [proc EXCEPT ![Current] = "asked"]
       \/ /\ proc[Current] = "exited" \/ StoppedBy(Current) = "admin endpoint"
          /\ UNCHANGED proc
    /\ UNCHANGED <<commands, updates, after, inForce, next, group, halting, started, monitor,
                   windowVars, healthy, crashes>>

Reap(s) ==
    /\ proc' = [proc EXCEPT ![s] = "none"]
    /\ healthy' = healthy \ {s}

(* It has exited, or is killed when the shutdown period is over. *)
Halted ==
    /\ pc = "await"
    /\ Reap(Current)
    /\ halting' = halting \ {Current}
    /\ pc' = "ask"
    /\ UNCHANGED <<commands, updates, after, inForce, next, group, started, monitor,
                   windowVars, crashes>>

EndStop ==
    /\ pc = "ask" /\ halting = {}
    /\ pc' = CASE after = "skip" -> "spawn" [] after = "exit" -> "gone" [] OTHER -> "recv"
    /\ IF after = "skip" THEN next' = next + 1 /\ UNCHANGED inForce
       ELSE next' = 1 /\ inForce' = NoStart
    /\ IF after \in {"stopped", "failed"} THEN Show(after) ELSE UNCHANGED updates
    /\ after' = "none"
    /\ UNCHANGED <<commands, group, halting, started, monitor, windowVars, processVars>>

-----------------------------------------------------------------------------
(* The controller: watching.  Every turn of its loop takes a command, or   *)
(* times out, and then polls.                                              *)

ReceiveTimesOut ==
    /\ pc = "recv" /\ commands = <<>>
    /\ pc' = "poll"
    /\ UNCHANGED <<commands, updates, after, inForce, next, group, halting, started, monitor,
                   windowVars, processVars>>

Exited == {s \in group : proc[s] = "exited"}

PollExit ==
    /\ pc = "poll" /\ Exited # {}
    /\ LET s == Min(Exited) IN
        /\ Reap(s)
        /\ IF Optional(s) THEN
              /\ Show("unavailable")
              /\ monitor' = "none"
              /\ group' = group \ {s}
              /\ pc' = "recv"
              /\ UNCHANGED <<after, inForce, next, halting, started>>
           ELSE
              /\ halting' = group \ {s}
              /\ pc' = "ask" /\ after' = "failed"
              /\ group' = {} /\ started' = FALSE /\ monitor' = "none"
              /\ UNCHANGED <<updates, inForce, next>>
    /\ UNCHANGED <<commands, windowVars, crashes>>

(* A process that cannot be inspected fails the services. *)
PollFails ==
    /\ pc = "poll" /\ group # {} /\ crashes < MaxCrashes
    /\ crashes' = crashes + 1
    /\ StopAll("failed")
    /\ UNCHANGED <<commands, updates, windowVars, proc, healthy>>

(* Mutant: only a loss is reported. *)
LossObserved(available) ==
    /\ pc = "poll" /\ Exited = {} /\ monitor # "none"
    /\ pc' = "recv"
    /\ monitor' = available
    /\ IF available = monitor \/ available = "available" THEN UNCHANGED updates
       ELSE Show(available)
    /\ UNCHANGED <<commands, after, inForce, next, group, halting, started, windowVars,
                   proc, healthy>>

(* The tracker reports only a change of the availability. *)
Observed(available) ==
    /\ pc = "poll" /\ Exited = {} /\ monitor # "none"
    /\ pc' = "recv"
    /\ monitor' = available
    /\ IF available = monitor THEN UNCHANGED updates ELSE Show(available)
    /\ UNCHANGED <<commands, after, inForce, next, group, halting, started, windowVars,
                   proc, healthy>>

PollHealth ==
    /\ Observed(IF Browser \in healthy THEN "available" ELSE "unavailable")
    /\ UNCHANGED crashes

(* No answer within a second, or none that can be read. *)
PollUnanswered ==
    /\ crashes < MaxCrashes
    /\ crashes' = crashes + 1
    /\ Observed("unavailable")

(* There is no browser to observe, or its time has not come. *)
PollNothing ==
    /\ pc = "poll" /\ Exited = {}
    /\ pc' = "recv"
    /\ UNCHANGED <<commands, updates, after, inForce, next, group, halting, started, monitor,
                   windowVars, processVars>>

ControllerNext ==
    \/ ReceiveStart \/ ReceiveStop \/ ReceiveExit \/ ReceiveTimesOut
    \/ StartCancelled \/ PrepareFails \/ \E files \in SUBSET Executables : Prepare(files)
    \/ SpawnCancelled \/ SpawnFails \/ Spawn
    \/ WaitCancelled \/ WaitOn \/ Ready \/ ExitedInStartup \/ WaitTimesOut \/ Started
    \/ Ask \/ Halted \/ EndStop
    \/ PollExit \/ PollFails \/ PollHealth \/ PollUnanswered \/ PollNothing

-----------------------------------------------------------------------------
(* The processes.                                                          *)

Serves(s) ==
    /\ proc[s] = "alive" /\ s \notin healthy
    /\ healthy' = healthy \cup {s}
    /\ UNCHANGED <<commands, updates, windowVars, controlVars, proc, crashes>>

Crashes(s) ==
    /\ proc[s] = "alive" /\ crashes < MaxCrashes
    /\ crashes' = crashes + 1
    /\ proc' = [proc EXCEPT ![s] = "exited"]
    /\ healthy' = healthy \ {s}
    /\ UNCHANGED <<commands, updates, windowVars, controlVars>>

Obeys(s) ==
    /\ proc[s] = "asked"
    /\ proc' = [proc EXCEPT ![s] = "exited"]
    /\ healthy' = healthy \ {s}
    /\ UNCHANGED <<commands, updates, windowVars, controlVars, crashes>>

(* The browser of a Browser Session comes and goes. *)
BrowserComesOrGoes ==
    /\ proc[Browser] \in {"alive", "asked"}
    /\ healthy' \in {healthy \cup {Browser}, healthy \ {Browser}}
    /\ UNCHANGED <<commands, updates, windowVars, controlVars, proc, crashes>>

Gone ==
    /\ pc = "gone"
    /\ UNCHANGED managerVars

ManagerInit ==
    /\ file \in Files
    /\ \E files \in SUBSET Executables :
        /\ settings = Loaded(file, files)
        /\ window = [canStart |-> ~LoadFails(file, files), canStop |-> FALSE,
                     canConfigure |-> TRUE,
                     core |-> IF LoadFails(file, files) THEN "Failed" ELSE "Stopped",
                     browser |-> "Stopped", settings |-> FALSE, closed |-> FALSE]
    /\ commands = <<>> /\ updates = <<>>
    /\ pc = "recv" /\ after = "none"
    /\ inForce = NoStart
    /\ next = 1 /\ group = {} /\ halting = {}
    /\ started = FALSE /\ monitor = "none"
    /\ proc = [s \in Services |-> "none"] /\ healthy = {}
    /\ clicks = 0 /\ crashes = 0 /\ saves = 0

ManagerNext ==
    \/ WindowNext \/ ControllerNext \/ Gone
    \/ \E s \in {Workspace, Dashboard} : Serves(s)
    \/ \E s \in Services : Crashes(s) \/ Obeys(s)
    \/ BrowserComesOrGoes

ManagerSpec == ManagerInit /\ [][ManagerNext]_managerVars

-----------------------------------------------------------------------------
(* The services the controller answers for. *)
Owned == group \cup halting \cup (IF pc = "wait" THEN {next} ELSE {})

(* Settings that passed the validation, now or at an earlier time. *)
Accepted ==
    {x \in Edits \cup (Files \ {NoFile, Unreadable}) \cup {Default} :
        \A s, t \in Services : s # t => x.ports[s] # x.ports[t]}

TypeOK ==
    /\ settings \in Accepted
    /\ inForce = [settings |-> inForce.settings, browser |-> inForce.browser]
    /\ inForce.settings \in Accepted
    /\ commands \in Seq([op : {"start", "stop", "exit"}, settings : Accepted])
    /\ pc \in {"recv", "start", "spawn", "wait", "ask", "await", "poll", "gone"}
    /\ after \in {"none", "stopped", "failed", "exit", "skip"}
    /\ next \in 1 .. 4
    /\ group \subseteq Services /\ halting \subseteq Services
    /\ started \in BOOLEAN
    /\ monitor \in {"none", "available", "unavailable"}
    /\ proc \in [Services -> {"none", "alive", "asked", "exited"}]

(* What the controller has started, wherever it is. *)
ControlOK ==
    /\ pc \notin {"ask", "await"} => halting = {}
    /\ pc = "await" => halting # {}
    /\ started => pc \in {"recv", "poll"}
    /\ pc \in {"recv", "poll", "start", "gone"} /\ ~started => group = {}
    /\ pc = "spawn" /\ next <= Planned(inForce.browser) => group = 1 .. next - 1
    /\ pc = "wait" => next <= 3 /\ group = 1 .. next - 1
    /\ pc \in {"ask", "await"} =>
        IF after = "skip" THEN next = 3 /\ group = {1, 2} /\ halting \subseteq {3}
        ELSE group = {}

(* Every process that runs is one the controller answers for.  So a start  *)
(* that failed or was cancelled, an exit or a Stop leaves none running     *)
(* when the controller is idle again or gone (start_services, Drop).       *)
NoOrphans == Live \subseteq Owned

(* Two processes that run at a time are never configured to listen on the  *)
(* same address, for any settings file found at start and any saved.       *)
AddressesDiffer ==
    \A s, t \in Live :
        s # t => ConfiguredPort(inForce.settings, s) # ConfiguredPort(inForce.settings, t)

ManagerInv == TypeOK /\ ControlOK /\ NoOrphans /\ AddressesDiffer

(* The window after the event loop has run the updates it was given. *)
Replayed(w, given) ==
    LET replay[n \in 0 .. Len(given)] ==
            IF n = 0 THEN w ELSE Applied(replay[n - 1], given[n])
    IN  replay[Len(given)]

Shown == Replayed(window, updates)

(* Once the event loop has run the updates it was given, the window says   *)
(* what the controller knows: Stop is offered exactly while services run,  *)
(* and the browser's state is the last one observed.                       *)
WindowTellsTruth ==
    pc \in {"recv", "poll"} =>
        /\ Shown.canStop <=> started
        /\ Shown.canConfigure <=> ~started
        /\ Shown.core = "Running" <=> started
        /\ Shown.browser = IF ~started THEN "Stopped"
                           ELSE IF monitor = "available" THEN "Running" ELSE "Unavailable"

Group == INSTANCE ServiceGroup WITH owned <- Owned, live <- Live

(* Start, stop, failure and cancellation keep the dependency order.        *)
RefinesServiceGroup == Group!GroupSpec
=============================================================================
