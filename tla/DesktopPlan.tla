---------------------------- MODULE DesktopPlan ----------------------------
(***************************************************************************)
(* What Desktop Manager computes before it starts a process: which         *)
(* settings it accepts, which browser it finds, and the services it plans, *)
(* in the order it starts them.  A port is a number, an executable a model *)
(* value; what a path or a URL looks like is left out.                     *)
(***************************************************************************)
EXTENDS Naturals, Sequences, SequencesExt

CONSTANTS
    Development,    \* the override of the environment, or Unset
    Unset,          \* no executable
    Unreadable,     \* a settings file that cannot be read or parsed
    NoFile          \* no settings file

Workspace == 1
Dashboard == 2
Browser == 3

Default == [executable |-> Unset, ports |-> <<1, 2, 3>>]

(* The executables that are files can change while the manager runs. *)
Valid(settings, files) ==
    /\ \A s \in 1 .. 3 : settings.ports[s] > 0
    /\ \A s, t \in 1 .. 3 : s # t => settings.ports[s] # settings.ports[t]
    /\ settings.executable \in files \cup {Unset}

(* What DesktopSettings::load returns, and whether it is an error. *)
LoadFails(file, files) ==
    /\ file # NoFile
    /\ file = Unreadable \/ ~Valid(file, files)

Loaded(file, files) ==
    IF file = NoFile \/ LoadFails(file, files) THEN Default ELSE file

(* The system locations, one for all the paths of a browser, in the order  *)
(* of macOS and Linux; Windows repeats it for every program directory.     *)
System == <<"chrome", "msedge", "chromium">>

Candidates(settings) ==
    IF settings.executable # Unset THEN <<settings.executable>>
    ELSE IF Development # Unset THEN <<Development>>
    ELSE System

(* The first candidate that is a file; Unset if there is none. *)
Discovered(settings, files) ==
    LET found == SelectSeq(Candidates(settings), LAMBDA c : c \in files)
    IN  IF found = <<>> THEN Unset ELSE Head(found)

(* The plan has the browser last, and only if one was found. *)
Planned(browser) == IF browser = Unset THEN 2 ELSE 3

Optional(s) == s = Browser

StoppedBy(s) == IF s = Dashboard THEN "admin endpoint" ELSE "standard input"

(* The address a service is configured to listen on.  Caddy, the dashboard *)
(* service, also has an admin port, which the system chooses for each      *)
(* start and nothing here compares with these.                             *)
ConfiguredPort(settings, s) == settings.ports[s]
=============================================================================
