------------------------ MODULE DesktopManagerProofs ------------------------
(***************************************************************************)
(* The supervision of the desktop services, for any executables, settings  *)
(* files, edits and bounds: ManagerInv is an invariant, the manager        *)
(* implements ServiceGroup, the window catches up, and a stop gets done.   *)
(***************************************************************************)
EXTENDS DesktopManager, FiniteSetTheorems, WellFoundedInduction, TLAPS

LEMMA MaxOfServices ==
    ASSUME NEW S, S \subseteq Services, S # {}
    PROVE  Max(S) \in S /\ \A t \in S : t <= Max(S)
<1>1. \E x \in S : \A y \in S : x >= y
  <2>1. CASE 3 \in S
    BY <2>1 DEF Services
  <2>2. CASE 3 \notin S /\ 2 \in S
    BY <2>2 DEF Services
  <2>3. CASE 3 \notin S /\ 2 \notin S
    <3>1. PICK x \in S : TRUE
      OBVIOUS
    <3>2. \A y \in S : y = 1
      BY <2>3 DEF Services
    <3>3. QED BY <3>1, <3>2
  <2>4. QED BY <2>1, <2>2, <2>3
<1>2. Max(S) \in S /\ \A y \in S : Max(S) >= y
  BY <1>1 DEF Max
<1>3. QED BY <1>2 DEF Services

LEMMA MinOfServices ==
    ASSUME NEW S, S \subseteq Services, S # {}
    PROVE  Min(S) \in S
<1>1. \E x \in S : \A y \in S : x <= y
  <2>1. CASE 1 \in S
    BY <2>1 DEF Services
  <2>2. CASE 1 \notin S /\ 2 \in S
    BY <2>2 DEF Services
  <2>3. CASE 1 \notin S /\ 2 \notin S
    <3>1. PICK x \in S : TRUE
      OBVIOUS
    <3>2. \A y \in S : y = 3
      BY <2>3 DEF Services
    <3>3. QED BY <3>1, <3>2
  <2>4. QED BY <2>1, <2>2, <2>3
<1>2. QED BY <1>1 DEF Min

(* Addresses of running services differ because accepted ports do. *)
LEMMA AcceptedPortsDiffer ==
    ASSUME TypeOK
    PROVE  AddressesDiffer
BY DEF TypeOK, AddressesDiffer, Accepted, ConfiguredPort, Live

LEMMA InitHolds ==
    ASSUME ManagerInit
    PROVE  TypeOK /\ ControlOK /\ NoOrphans
<1>1. PICK files \in SUBSET Executables : settings = Loaded(file, files)
  BY DEF ManagerInit
<1>2. Default \in Accepted
  BY DEF Accepted, Default, Services
<1>3. settings \in Accepted
  <2>1. CASE file = NoFile \/ LoadFails(file, files)
    BY <1>1, <1>2, <2>1 DEF Loaded
  <2>2. CASE ~(file = NoFile \/ LoadFails(file, files))
    BY <1>1, <2>2 DEF Loaded, LoadFails, Valid, Accepted, ManagerInit, Services
  <2>3. QED BY <2>1, <2>2
<1>4. TypeOK
  <2>1. /\ inForce = [settings |-> inForce.settings, browser |-> inForce.browser]
        /\ inForce.settings \in Accepted
    BY <1>2 DEF ManagerInit, NoStart
  <2>2. commands \in Seq([op : {"start", "stop", "exit"}, settings : Accepted])
    BY DEF ManagerInit
  <2>3. proc \in [Services -> {"none", "alive", "asked", "exited"}]
    BY DEF ManagerInit
  <2>4. group = {} /\ halting = {} /\ next = 1 /\ started = FALSE
    BY DEF ManagerInit
  <2>5. /\ pc = "recv" /\ after = "none" /\ monitor = "none"
    BY DEF ManagerInit
  <2>6. /\ pc \in {"recv", "start", "spawn", "wait", "ask", "await", "poll", "gone"}
        /\ after \in {"none", "stopped", "failed", "exit", "skip"}
        /\ monitor \in {"none", "available", "unavailable"}
    BY <2>5
  <2>7. next \in 1 .. 4
    BY <2>4
  <2>8. started \in BOOLEAN
    BY <2>4
  <2>9. group \subseteq Services /\ halting \subseteq Services
    BY <2>4
  <2>10. QED BY <1>3, <2>1, <2>2, <2>3, <2>6, <2>7, <2>8, <2>9 DEF TypeOK
<1>5. Live = {}
  BY DEF ManagerInit, Live
<1>6. ControlOK /\ NoOrphans
  BY <1>5 DEF ManagerInit, ControlOK, NoOrphans
<1>7. QED BY <1>4, <1>6

Command == [op : {"start", "stop", "exit"}, settings : Accepted]

(* What is left of the channel, and what was taken from it.                *)
LEMMA CommandsLeft ==
    ASSUME NEW i \in DOMAIN commands, commands \in Seq(Command)
    PROVE  /\ SubSeq(commands, i + 1, Len(commands)) \in Seq(Command)
           /\ Tail(commands) \in Seq(Command)
           /\ Head(commands).settings \in Accepted
<1>1. Head(commands) \in Command
  OBVIOUS
<1>2. Head(commands).settings \in Accepted
  BY <1>1 DEF Command
<1>3. QED BY <1>2

(* Every step of the controller preserves the invariant. *)
LEMMA ControllerPreserves ==
    ASSUME TypeOK, ControlOK, NoOrphans, ControllerNext
    PROVE  (TypeOK /\ ControlOK /\ NoOrphans)'
<1> USE DEF TypeOK, ControlOK, NoOrphans, Live, Owned, Services, Planned, Browser,
            windowVars, controlVars, processVars
<1>1. CASE ReceiveStart
  <2>1. commands # <<>> /\ commands' = Tail(commands)
    BY <1>1 DEF ReceiveStart
  <2>a. commands \in Seq(Command) /\ 1 \in DOMAIN commands
    BY <2>1 DEF Command
  <2>2. commands' \in Seq(Command) /\ Head(commands).settings \in Accepted
    BY <2>1, <2>a, CommandsLeft
  <2>3. /\ inForce' = [settings |-> inForce'.settings, browser |-> inForce'.browser]
        /\ inForce'.settings \in Accepted
    BY <1>1, <2>2 DEF ReceiveStart
  <2>4. QED BY <1>1, <2>2, <2>3 DEF ReceiveStart, Command
<1>2. CASE ReceiveStop
  <2>1. commands # <<>> /\ commands' = Tail(commands)
    BY <1>2 DEF ReceiveStop
  <2>2. commands' \in Seq(Command)
    BY <2>1, CommandsLeft DEF Command
  <2>3. QED BY <1>2, <2>2 DEF ReceiveStop, StopAll, Command
<1>3. CASE ReceiveExit
  <2>1. commands # <<>> /\ commands' = Tail(commands)
    BY <1>3 DEF ReceiveExit
  <2>2. commands' \in Seq(Command)
    BY <2>1, CommandsLeft DEF Command
  <2>3. QED BY <1>3, <2>2 DEF ReceiveExit, StopAll, Command
<1>4. CASE ReceiveTimesOut
  BY <1>4 DEF ReceiveTimesOut
<1>5. CASE StartCancelled
  <2>1. commands' \in Seq(Command)
    BY <1>5, CommandsLeft DEF StartCancelled, GiveUp, Command
  <2>2. QED BY <1>5, <2>1 DEF StartCancelled, GiveUp, Show, Command
<1>6. CASE PrepareFails
  BY <1>6 DEF PrepareFails, Fail, Proceeds
<1>7. CASE SpawnCancelled
  <2>1. commands' \in Seq(Command)
    BY <1>7, CommandsLeft DEF SpawnCancelled, GiveUp, Command
  <2>2. QED BY <1>7, <2>1 DEF SpawnCancelled, GiveUp, Show, Command
<1>8. CASE SpawnFails
  BY <1>8 DEF SpawnFails, Fail, Proceeds
<1>9. CASE Spawn
  BY <1>9 DEF Spawn, Proceeds
<1>10. CASE WaitCancelled
  <2>1. commands' \in Seq(Command)
    BY <1>10, CommandsLeft DEF WaitCancelled, GiveUp, Command
  <2>2. QED BY <1>10, <2>1 DEF WaitCancelled, GiveUp, Show, Command
<1>11. CASE WaitOn
  BY <1>11 DEF WaitOn, Proceeds
<1>12. CASE Ready
  BY <1>12 DEF Ready, Proceeds, Optional
<1>13. CASE ExitedInStartup
  BY <1>13 DEF ExitedInStartup, NotReady, Fail, Proceeds, Optional
<1>14. CASE WaitTimesOut
  BY <1>14 DEF WaitTimesOut, NotReady, Fail, Optional
<1>15. CASE Started
  BY <1>15 DEF Started, Proceeds
<1>16. CASE Ask
  BY MaxOfServices, <1>16 DEF Ask, StoppedBy, Current
<1>17. CASE Halted
  BY MaxOfServices, <1>17 DEF Halted, Reap, Current
<1>18. CASE EndStop
  <2>1. Default \in Accepted
    BY DEF Accepted, Default, Services
  <2>2. inForce' = inForce \/ inForce' = NoStart
    BY <1>18 DEF EndStop
  <2>3. /\ inForce' = [settings |-> inForce'.settings, browser |-> inForce'.browser]
        /\ inForce'.settings \in Accepted
    BY <2>1, <2>2 DEF NoStart
  <2>4. CASE after = "skip"
    BY <1>18, <2>4, <2>3 DEF EndStop
  <2>5. CASE after # "skip"
    BY <1>18, <2>5, <2>3 DEF EndStop
  <2>6. QED BY <2>4, <2>5
<1>19. CASE PollExit
  BY MinOfServices, <1>19 DEF PollExit, Reap, Optional, Exited
<1>20. CASE PollFails
  BY <1>20 DEF PollFails, StopAll
<1>21. CASE PollHealth
  BY <1>21 DEF PollHealth, Observed
<1>22. CASE PollUnanswered
  BY <1>22 DEF PollUnanswered, Observed
<1>23. CASE PollNothing
  BY <1>23 DEF PollNothing
<1>24. ASSUME NEW files \in SUBSET Executables, Prepare(files)
         PROVE  (TypeOK /\ ControlOK /\ NoOrphans)'
  BY <1>24 DEF Prepare, Proceeds
<1>25. QED BY <1>1, <1>2, <1>3, <1>4, <1>5, <1>6, <1>7, <1>8, <1>9, <1>10, <1>11, <1>12, <1>13,
       <1>14, <1>15, <1>16, <1>17, <1>18, <1>19, <1>20, <1>21, <1>22, <1>23, <1>24
    DEF ControllerNext

(* So does every step of the window.  Settings saved have been validated.  *)
LEMMA WindowPreserves ==
    ASSUME TypeOK, ControlOK, NoOrphans, WindowNext
    PROVE  (TypeOK /\ ControlOK /\ NoOrphans)'
<1> USE DEF TypeOK, ControlOK, NoOrphans, Live, Owned, Planned, windowVars, controlVars,
            processVars
<1>1. ASSUME NEW op \in {"start", "stop", "exit"}, Send(op)
      PROVE  commands' \in Seq([op : {"start", "stop", "exit"}, settings : Accepted])
  <2>1. [op |-> op, settings |-> settings] \in [op : {"start", "stop", "exit"}, settings : Accepted]
    OBVIOUS
  <2>2. QED BY <1>1, <2>1 DEF Send
<1>2. CASE ApplyUpdate
  BY <1>2 DEF ApplyUpdate
<1>3. CASE ClickStart
  BY <1>1, <1>3 DEF ClickStart
<1>4. CASE ClickStop
  BY <1>1, <1>4 DEF ClickStop
<1>5. CASE CloseWindow
  BY <1>1, <1>5 DEF CloseWindow
<1>6. CASE OpenSettings
  BY <1>6 DEF OpenSettings
<1>7. CASE CancelSettings
  BY <1>7 DEF CancelSettings
<1>8. ASSUME NEW edited \in Edits, NEW files \in SUBSET Executables, SaveSettings(edited, files)
      PROVE  (TypeOK /\ ControlOK /\ NoOrphans)'
  <2>1. edited \in Accepted
    BY <1>8 DEF SaveSettings, Valid, Accepted, Services
  <2>2. QED BY <1>8, <2>1 DEF SaveSettings
<1>9. QED BY <1>2, <1>3, <1>4, <1>5, <1>6, <1>7, <1>8 DEF WindowNext

(* And every step of a process. *)
LEMMA ProcessPreserves ==
    ASSUME TypeOK, ControlOK, NoOrphans,
           \/ Gone
           \/ \E s \in {Workspace, Dashboard} : Serves(s)
           \/ \E s \in Services : Crashes(s) \/ Obeys(s)
           \/ BrowserComesOrGoes
           \/ UNCHANGED managerVars
    PROVE  (TypeOK /\ ControlOK /\ NoOrphans)'
<1> USE DEF TypeOK, ControlOK, NoOrphans, Live, Owned, Planned, Services, windowVars,
            controlVars, processVars, managerVars
<1>1. CASE Gone
  BY <1>1 DEF Gone
<1>2. CASE \E s \in {Workspace, Dashboard} : Serves(s)
  BY <1>2 DEF Serves
<1>3. ASSUME NEW s \in Services, Crashes(s)
      PROVE  (TypeOK /\ ControlOK /\ NoOrphans)'
  BY <1>3 DEF Crashes
<1>4. ASSUME NEW s \in Services, Obeys(s)
      PROVE  (TypeOK /\ ControlOK /\ NoOrphans)'
  BY <1>4 DEF Obeys
<1>5. CASE BrowserComesOrGoes
  BY <1>5 DEF BrowserComesOrGoes
<1>6. CASE UNCHANGED managerVars
  BY <1>6
<1>7. QED BY <1>1, <1>2, <1>3, <1>4, <1>5, <1>6

(* The supervision is safe: the controller answers for every process that  *)
(* runs, and no two of them are configured to listen on the same address.  *)
THEOREM Supervision == ManagerSpec => []ManagerInv
<1>1. ManagerInit => TypeOK /\ ControlOK /\ NoOrphans
  BY InitHolds
<1>2. TypeOK /\ ControlOK /\ NoOrphans /\ [ManagerNext]_managerVars
        => (TypeOK /\ ControlOK /\ NoOrphans)'
  BY ControllerPreserves, WindowPreserves, ProcessPreserves DEF ManagerNext
<1>3. TypeOK /\ ControlOK /\ NoOrphans => ManagerInv
  BY AcceptedPortsDiffer DEF ManagerInv
<1>4. QED BY <1>1, <1>2, <1>3, PTL DEF ManagerSpec

-----------------------------------------------------------------------------
(* Each step of the manager is one of ServiceGroup, or changes neither the *)
(* owned services nor the running ones.                                    *)
LEMMA ControllerImplements ==
    ASSUME TypeOK, ControlOK, NoOrphans, ControllerNext
    PROVE  [Group!GroupNext]_<<Owned, Live>>
<1> USE DEF TypeOK, ControlOK, NoOrphans, Live, Owned, Services, Planned, Browser,
            windowVars, controlVars, processVars, Group!GroupNext, Group!Acquire,
            Group!EndsByItself, Group!GiveUp
<1>1. CASE ReceiveStart
  BY <1>1 DEF ReceiveStart
<1>2. CASE ReceiveStop
  BY <1>2 DEF ReceiveStop, StopAll
<1>3. CASE ReceiveExit
  BY <1>3 DEF ReceiveExit, StopAll
<1>4. CASE ReceiveTimesOut
  BY <1>4 DEF ReceiveTimesOut
<1>5. CASE StartCancelled
  BY <1>5 DEF StartCancelled, GiveUp, Show
<1>6. CASE PrepareFails
  BY <1>6 DEF PrepareFails, Fail, Proceeds
<1>7. CASE SpawnCancelled
  BY <1>7 DEF SpawnCancelled, GiveUp, Show
<1>8. CASE SpawnFails
  BY <1>8 DEF SpawnFails, Fail, Proceeds
<1>9. CASE Spawn
  BY <1>9 DEF Spawn, Proceeds
<1>10. CASE WaitCancelled
  BY <1>10 DEF WaitCancelled, GiveUp, Show
<1>11. CASE WaitOn
  BY <1>11 DEF WaitOn, Proceeds
<1>12. CASE Ready
  BY <1>12 DEF Ready, Proceeds, Optional
<1>13. CASE ExitedInStartup
  BY <1>13 DEF ExitedInStartup, NotReady, Fail, Proceeds, Optional
<1>14. CASE WaitTimesOut
  BY <1>14 DEF WaitTimesOut, NotReady, Fail, Optional
<1>15. CASE Started
  BY <1>15 DEF Started, Proceeds
<1>16. CASE Ask
  BY MaxOfServices, <1>16 DEF Ask, StoppedBy, Current
<1>17. CASE Halted
  BY MaxOfServices, <1>17 DEF Halted, Reap, Current
<1>18. CASE EndStop
  BY <1>18 DEF EndStop
<1>19. CASE PollExit
  <2> DEFINE s == Min(Exited)
  <2>1. s \in group /\ s \notin Live /\ s \in Services
    <3>1. Exited \subseteq Services /\ Exited # {}
      BY <1>19 DEF PollExit, Exited
    <3>2. s \in Exited
      BY <3>1, MinOfServices
    <3>3. QED BY <3>2 DEF Exited
  <2>2. Live' = Live
    BY <1>19, <2>1 DEF PollExit, Reap
  <2>3. Owned' = Owned \ {s}
    <3>1. halting = {}
      BY <1>19 DEF PollExit
    <3>2. CASE Optional(s)
      BY <1>19, <3>1, <3>2 DEF PollExit, Optional
    <3>3. CASE ~Optional(s)
      BY <1>19, <3>1, <3>3 DEF PollExit, Optional
    <3>4. QED BY <3>2, <3>3
  <2>4. Group!GiveUp(s)
    BY <2>1, <2>2, <2>3
  <2>5. QED BY <2>1, <2>4
<1>20. CASE PollFails
  BY <1>20 DEF PollFails, StopAll
<1>21. CASE PollHealth
  BY <1>21 DEF PollHealth, Observed
<1>22. CASE PollUnanswered
  BY <1>22 DEF PollUnanswered, Observed
<1>23. CASE PollNothing
  BY <1>23 DEF PollNothing
<1>24. ASSUME NEW files \in SUBSET Executables, Prepare(files)
         PROVE  [Group!GroupNext]_<<Owned, Live>>
  BY <1>24 DEF Prepare, Proceeds
<1>25. QED BY <1>1, <1>2, <1>3, <1>4, <1>5, <1>6, <1>7, <1>8, <1>9, <1>10, <1>11, <1>12, <1>13,
       <1>14, <1>15, <1>16, <1>17, <1>18, <1>19, <1>20, <1>21, <1>22, <1>23, <1>24
    DEF ControllerNext

(* The window does not reach the services, and of the steps of a process   *)
(* only its end is seen: it ends by itself.                                *)
LEMMA OthersImplement ==
    ASSUME TypeOK, ControlOK, NoOrphans,
           \/ WindowNext \/ Gone
           \/ \E s \in {Workspace, Dashboard} : Serves(s)
           \/ \E s \in Services : Crashes(s) \/ Obeys(s)
           \/ BrowserComesOrGoes
           \/ UNCHANGED managerVars
    PROVE  [Group!GroupNext]_<<Owned, Live>>
<1>1. CASE UNCHANGED <<proc, group, halting, pc, next>>
  BY <1>1 DEF Owned, Live
<1>2. CASE WindowNext
  <2>1. UNCHANGED <<proc, group, halting, pc, next>>
    BY <1>2 DEF WindowNext, ApplyUpdate, ClickStart, ClickStop, CloseWindow, OpenSettings,
                CancelSettings, SaveSettings, controlVars, processVars
  <2>2. QED BY <1>1, <2>1
<1>3. CASE Gone \/ BrowserComesOrGoes \/ UNCHANGED managerVars
  BY <1>1, <1>3 DEF Gone, BrowserComesOrGoes, controlVars, processVars, managerVars
<1>4. CASE \E s \in {Workspace, Dashboard} : Serves(s)
  BY <1>1, <1>4 DEF Serves, controlVars, processVars
<1>5. ASSUME NEW s \in Services, Crashes(s) \/ Obeys(s)
      PROVE  [Group!GroupNext]_<<Owned, Live>>
  <2>1. Live' = Live \ {s} /\ s \in Live
    BY <1>5 DEF Crashes, Obeys, Live, TypeOK
  <2>2. Owned' = Owned
    BY <1>5 DEF Crashes, Obeys, Owned, controlVars
  <2>3. Group!EndsByItself(s)
    BY <2>1, <2>2 DEF Group!EndsByItself
  <2>4. QED BY <2>3 DEF Group!GroupNext
<1>6. QED BY <1>2, <1>3, <1>4, <1>5

(* The manager implements ServiceGroup: starts, failures, cancellations,   *)
(* exits and stops keep the dependency order.                              *)
THEOREM Refinement == ManagerSpec => RefinesServiceGroup
<1>1. ManagerInit => Group!GroupInit
  BY DEF ManagerInit, Group!GroupInit, Owned, Live
<1>2. TypeOK /\ ControlOK /\ NoOrphans /\ [ManagerNext]_managerVars
        => [Group!GroupNext]_<<Owned, Live>>
  BY ControllerImplements, OthersImplement DEF ManagerNext
<1>3. ManagerInv => TypeOK /\ ControlOK /\ NoOrphans
  BY DEF ManagerInv
<1>4. QED BY <1>1, <1>2, <1>3, Supervision, PTL
          DEF ManagerSpec, RefinesServiceGroup, Group!GroupSpec, Group!groupVars
-----------------------------------------------------------------------------
(* The window catches up.  What it will show is computed by replaying the  *)
(* updates it was given, so the lemmas below are by induction on them; the *)
(* induction is that of a set of numbers that holds 0 and all successors.  *)

Smaller == {ss \in Nat \X Nat : ss[1] < ss[2]}

(* A set of numbers that is not empty holds a least one. *)
LEMMA Least ==
    ASSUME NEW T, T \subseteq Nat, T # {}
    PROVE  \E n \in T : \A m \in T : n <= m
<1>1. IsWellFoundedOn(Smaller, Nat)
  BY NatLessThanWellFounded, Zenon DEF OpToRel, Smaller
<1>2. PICK n \in T : \A m \in T : ~(<<m, n>> \in Smaller)
  BY <1>1, WFMin
<1>3. ASSUME NEW m \in T PROVE n <= m
  <2>1. n \in Nat /\ m \in Nat
    OBVIOUS
  <2>2. ~(m < n)
    BY <1>2, <2>1 DEF Smaller
  <2>3. QED BY <2>1, <2>2
<1>4. QED BY <1>3

(* Induction up to a number, as a fact about sets. *)
LEMMA UpTo ==
    ASSUME NEW N \in Nat, NEW S, 0 \in S,
           \A n \in 0 .. N - 1 : n \in S => n + 1 \in S
    PROVE  \A n \in 0 .. N : n \in S
<1> SUFFICES ASSUME (0 .. N) \ S # {} PROVE FALSE
  OBVIOUS
<1>1. PICK n \in (0 .. N) \ S : \A m \in (0 .. N) \ S : n <= m
  <2>1. (0 .. N) \ S \subseteq Nat
    OBVIOUS
  <2>2. QED BY <2>1, Least
<1>2. n - 1 \in 0 .. N - 1 /\ n = (n - 1) + 1 /\ ~(n <= n - 1)
  BY <1>1
<1>3. n - 1 \in S
  BY <1>1, <1>2
<1>4. QED BY <1>1, <1>2, <1>3

(* r[n] is the window after the first n of the updates. *)
IsReplay(r, w, given, N) ==
    r = [n \in 0 .. N |-> IF n = 0 THEN w ELSE Applied(r[n - 1], given[n])]

LEMMA ReplayExists ==
    ASSUME NEW w, NEW given, NEW N \in Nat
    PROVE  \E r : IsReplay(r, w, given, N)
<1> DEFINE S == {n \in Nat : \E r : IsReplay(r, w, given, n)}
<1>1. 0 \in S
  <2> DEFINE r == [n \in 0 .. 0 |-> w]
  <2>1. IsReplay(r, w, given, 0)
    BY DEF IsReplay
  <2>2. QED BY <2>1
<1>2. ASSUME NEW k \in 0 .. N - 1, k \in S PROVE k + 1 \in S
  <2>1. PICK r : IsReplay(r, w, given, k)
    BY <1>2
  <2> DEFINE q == [n \in 0 .. k + 1 |-> IF n = k + 1 THEN Applied(r[k], given[n]) ELSE r[n]]
  <2>2. ASSUME NEW n \in 0 .. k + 1
        PROVE  q[n] = IF n = 0 THEN w ELSE Applied(q[n - 1], given[n])
    <3>1. CASE n = k + 1
      BY <3>1
    <3>2. CASE n \in 0 .. k
      <4>1. r[n] = IF n = 0 THEN w ELSE Applied(r[n - 1], given[n])
        BY <2>1, <3>2, Zenon DEF IsReplay
      <4>2. q[n] = r[n] /\ (n # 0 => q[n - 1] = r[n - 1])
        BY <3>2
      <4>3. QED BY <4>1, <4>2
    <3>3. QED BY <3>1, <3>2
  <2>3. q = [n \in 0 .. k + 1 |-> IF n = 0 THEN w ELSE Applied(q[n - 1], given[n])]
    BY <2>2
  <2>4. IsReplay(q, w, given, k + 1)
    BY <2>3, Zenon DEF IsReplay
  <2>5. QED BY <2>4
<1> HIDE DEF S
<1>3. N \in S
  BY <1>1, <1>2, UpTo
<1>4. QED BY <1>3 DEF S

LEMMA ReplayedIs ==
    ASSUME NEW w, NEW given, Len(given) \in Nat
    PROVE  \E r : IsReplay(r, w, given, Len(given)) /\ Replayed(w, given) = r[Len(given)]
<1> DEFINE Step(r, n) == IF n = 0 THEN w ELSE Applied(r[n - 1], given[n])
           r == CHOOSE q : q = [n \in 0 .. Len(given) |-> Step(q, n)]
<1>1. \E q : q = [n \in 0 .. Len(given) |-> Step(q, n)]
  <2>1. PICK q : IsReplay(q, w, given, Len(given))
    BY ReplayExists
  <2>2. QED BY <2>1, Zenon DEF IsReplay
<1>2. r = [n \in 0 .. Len(given) |-> Step(r, n)]
  BY <1>1, Zenon
<1>3. Replayed(w, given) = r[Len(given)]
  BY Zenon DEF Replayed
<1>4. QED BY <1>2, <1>3, Zenon DEF IsReplay

LEMMA ReplaySteps ==
    ASSUME NEW r, NEW w, NEW given, NEW N \in Nat, IsReplay(r, w, given, N)
    PROVE  r[0] = w /\ \A n \in 0 .. N - 1 : r[n + 1] = Applied(r[n], given[n + 1])
<1>1. \A n \in 0 .. N : r[n] = IF n = 0 THEN w ELSE Applied(r[n - 1], given[n])
  BY Zenon DEF IsReplay
<1>2. 0 \in 0 .. N
  OBVIOUS
<1>3. ASSUME NEW n \in 0 .. N - 1 PROVE r[n + 1] = Applied(r[n], given[n + 1])
  <2>1. n + 1 \in 0 .. N /\ n + 1 # 0 /\ (n + 1) - 1 = n
    OBVIOUS
  <2>2. QED BY <1>1, <2>1
<1>4. QED BY <1>1, <1>2, <1>3

Updates == {"starting", "running", "limited", "available", "unavailable",
            "stopping", "stopped", "failed"}

Windows == [canStart : BOOLEAN, canStop : BOOLEAN, canConfigure : BOOLEAN,
            core : {"Starting", "Running", "Stopping", "Stopped", "Failed"},
            browser : {"Starting", "Running", "Unavailable", "Stopping", "Stopped"},
            settings : BOOLEAN, closed : BOOLEAN]

(* What the window tells of the services. *)
Told(w) == <<w.canStop, w.canConfigure, w.core, w.browser>>

LEMMA AppliedTold ==
    ASSUME NEW v \in Windows, NEW w \in Windows, NEW x \in Updates, Told(v) = Told(w)
    PROVE  Applied(w, x) \in Windows /\ Told(Applied(v, x)) = Told(Applied(w, x))
<1> DEFINE Follow(a, b) == b \in Windows /\ Told(a) = Told(b)
<1> USE DEF Windows, Told
<1>1. Follow(Starting(v), Starting(w))
  BY DEF Starting
<1>2. \A b \in {"Running", "Unavailable"} : Follow(Running(v, b), Running(w, b))
  BY DEF Running
<1>3. Follow(Stopping(v), Stopping(w))
  BY DEF Stopping
<1>4. \A c \in {"Stopped", "Failed"} : Follow(Stopped(v, c), Stopped(w, c))
  BY DEF Stopped
<1>5. \A b \in {"Running", "Unavailable"} :
         Follow([v EXCEPT !.browser = b], [w EXCEPT !.browser = b])
  OBVIOUS
<1> HIDE DEF Windows, Told
<1>6. QED BY <1>1, <1>2, <1>3, <1>4, <1>5 DEF Updates, Applied

(* An update that is given later is applied last. *)
LEMMA ReplayedAppend ==
    ASSUME NEW w, NEW given \in Seq(Updates), NEW x \in Updates
    PROVE  Replayed(w, Append(given, x)) = Applied(Replayed(w, given), x)
<1> DEFINE N == Len(given)
           more == Append(given, x)
<1>1. N \in Nat /\ Len(more) = N + 1 /\ more[N + 1] = x
  OBVIOUS
<1>2. \A n \in 1 .. N : more[n] = given[n]
  OBVIOUS
<1> HIDE DEF N, more
<1>3. PICK r : IsReplay(r, w, given, N) /\ Replayed(w, given) = r[N]
  BY <1>1, ReplayedIs DEF N
<1>4. PICK q : IsReplay(q, w, more, N + 1) /\ Replayed(w, more) = q[N + 1]
  BY <1>1, ReplayedIs
<1>5. r[0] = w /\ \A n \in 0 .. N - 1 : r[n + 1] = Applied(r[n], given[n + 1])
  BY <1>1, <1>3, ReplaySteps
<1>6. q[0] = w /\ \A n \in 0 .. N : q[n + 1] = Applied(q[n], more[n + 1])
  <2>1. N + 1 \in Nat /\ (N + 1) - 1 = N
    BY <1>1
  <2>2. /\ q[0] = w
        /\ \A n \in 0 .. (N + 1) - 1 : q[n + 1] = Applied(q[n], more[n + 1])
    BY <1>4, <2>1, ReplaySteps
  <2>3. QED BY <2>1, <2>2
<1> DEFINE S == {n \in 0 .. N : r[n] = q[n]}
<1>7. 0 \in S
  BY <1>1, <1>5, <1>6
<1>8. ASSUME NEW n \in 0 .. N - 1, n \in S PROVE n + 1 \in S
  <2>1. n \in 0 .. N /\ n + 1 \in 0 .. N /\ n + 1 \in 1 .. N
    BY <1>1
  <2>2. r[n + 1] = q[n + 1]
    BY <1>2, <1>5, <1>6, <1>8, <2>1
  <2>3. QED BY <2>1, <2>2
<1>9. N \in S
  <2> HIDE DEF S
  <2>1. N \in 0 .. N
    BY <1>1
  <2>2. QED BY <1>1, <1>7, <1>8, <2>1, UpTo
<1>10. q[N + 1] = Applied(r[N], x)
  BY <1>1, <1>6, <1>9
<1>11. QED BY <1>3, <1>4, <1>10 DEF more

(* Applying the first update that waits leaves what will be shown alone. *)
LEMMA ReplayedTail ==
    ASSUME NEW w, NEW given \in Seq(Updates), given # <<>>
    PROVE  Replayed(Applied(w, Head(given)), Tail(given)) = Replayed(w, given)
<1> DEFINE rest == Tail(given)
           N == Len(rest)
<1>1. N \in Nat /\ Len(given) = N + 1 /\ Head(given) = given[1]
  OBVIOUS
<1>2. \A n \in 1 .. N : rest[n] = given[n + 1]
  OBVIOUS
<1> HIDE DEF N, rest
<1>3. PICK r : IsReplay(r, w, given, N + 1) /\ Replayed(w, given) = r[N + 1]
  BY <1>1, ReplayedIs
<1>4. PICK q : IsReplay(q, Applied(w, given[1]), rest, N)
               /\ Replayed(Applied(w, given[1]), rest) = q[N]
  BY <1>1, ReplayedIs DEF N
<1>5. r[0] = w /\ \A n \in 0 .. N : r[n + 1] = Applied(r[n], given[n + 1])
  <2>1. N + 1 \in Nat /\ (N + 1) - 1 = N
    BY <1>1
  <2>2. /\ r[0] = w
        /\ \A n \in 0 .. (N + 1) - 1 : r[n + 1] = Applied(r[n], given[n + 1])
    BY <1>3, <2>1, ReplaySteps
  <2>3. QED BY <2>1, <2>2
<1>6. /\ q[0] = Applied(w, given[1])
      /\ \A n \in 0 .. N - 1 : q[n + 1] = Applied(q[n], rest[n + 1])
  BY <1>1, <1>4, ReplaySteps
<1> DEFINE S == {n \in 0 .. N : q[n] = r[n + 1]}
<1>7. 0 \in S
  <2>1. 0 \in 0 .. N /\ 0 + 1 = 1
    BY <1>1
  <2>2. r[0 + 1] = Applied(r[0], given[0 + 1])
    BY <1>5, <2>1
  <2>3. QED BY <1>5, <1>6, <2>1, <2>2
<1>8. ASSUME NEW n \in 0 .. N - 1, n \in S PROVE n + 1 \in S
  <2>1. n + 1 \in 0 .. N /\ n + 1 \in 1 .. N
    BY <1>1
  <2>2. q[n + 1] = Applied(r[n + 1], given[(n + 1) + 1])
    BY <1>2, <1>6, <1>8, <2>1
  <2>3. r[(n + 1) + 1] = Applied(r[n + 1], given[(n + 1) + 1])
    BY <1>5, <2>1
  <2>4. QED BY <2>1, <2>2, <2>3
<1>9. N \in S
  <2> HIDE DEF S
  <2>1. N \in 0 .. N
    BY <1>1
  <2>2. QED BY <1>1, <1>7, <1>8, <2>1, UpTo
<1>10. QED BY <1>1, <1>3, <1>4, <1>9 DEF rest

(* Windows that tell the same of the services tell the same later. *)
LEMMA ReplayedTold ==
    ASSUME NEW v \in Windows, NEW w \in Windows, Told(v) = Told(w),
           NEW given \in Seq(Updates)
    PROVE  /\ Replayed(w, given) \in Windows
           /\ Told(Replayed(v, given)) = Told(Replayed(w, given))
<1> DEFINE N == Len(given)
<1>1. N \in Nat /\ \A n \in 1 .. N : given[n] \in Updates
  OBVIOUS
<1> HIDE DEF N
<1>2. PICK r : IsReplay(r, v, given, N) /\ Replayed(v, given) = r[N]
  BY <1>1, ReplayedIs DEF N
<1>3. PICK q : IsReplay(q, w, given, N) /\ Replayed(w, given) = q[N]
  BY <1>1, ReplayedIs DEF N
<1>4. r[0] = v /\ \A n \in 0 .. N - 1 : r[n + 1] = Applied(r[n], given[n + 1])
  BY <1>1, <1>2, ReplaySteps
<1>5. q[0] = w /\ \A n \in 0 .. N - 1 : q[n + 1] = Applied(q[n], given[n + 1])
  BY <1>1, <1>3, ReplaySteps
<1> DEFINE S == {n \in 0 .. N : r[n] \in Windows /\ q[n] \in Windows /\ Told(r[n]) = Told(q[n])}
<1>6. 0 \in S
  BY <1>1, <1>4, <1>5
<1>7. ASSUME NEW n \in 0 .. N - 1, n \in S PROVE n + 1 \in S
  <2>1. n + 1 \in 0 .. N /\ given[n + 1] \in Updates
    BY <1>1
  <2>2. r[n] \in Windows /\ q[n] \in Windows /\ Told(r[n]) = Told(q[n])
    BY <1>7
  <2>3. /\ Applied(r[n], given[n + 1]) \in Windows
        /\ Applied(q[n], given[n + 1]) \in Windows
        /\ Told(Applied(r[n], given[n + 1])) = Told(Applied(q[n], given[n + 1]))
    BY <2>1, <2>2, AppliedTold
  <2>4. QED BY <1>4, <1>5, <2>1, <2>3
<1>8. N \in S
  <2> HIDE DEF S
  <2>1. N \in 0 .. N
    BY <1>1
  <2>2. QED BY <1>1, <1>6, <1>7, <2>1, UpTo
<1>9. QED BY <1>2, <1>3, <1>8
(* The inductive invariant behind WindowTellsTruth: the tracker has no     *)
(* last availability unless services run or are being started, so a loop   *)
(* without services tells nothing new.                                     *)
TrackerOK ==
    /\ window \in Windows /\ updates \in Seq(Updates)
    /\ pc \in {"ask", "await"} => after # "none"
    /\ \/ pc \in {"recv", "poll"} /\ ~started
       \/ pc \in {"ask", "await"} /\ after # "skip"
       => monitor = "none"

LEMMA ShownIsWindow ==
    ASSUME TrackerOK
    PROVE  Shown \in Windows
BY ReplayedTold DEF TrackerOK, Shown

LEMMA ShowAppends ==
    ASSUME TrackerOK, NEW x \in Updates, Show(x), UNCHANGED window
    PROVE  Shown' = Applied(Shown, x) /\ updates' \in Seq(Updates)
<1>1. updates' = Append(updates, x) /\ updates \in Seq(Updates)
  BY DEF Show, TrackerOK
<1>2. Replayed(window, Append(updates, x)) = Applied(Replayed(window, updates), x)
  BY <1>1, ReplayedAppend
<1>3. QED BY <1>1, <1>2 DEF Shown

LEMMA ShownStays ==
    ASSUME UNCHANGED <<updates, window>>
    PROVE  Shown' = Shown
BY DEF Shown

(* What the updates that end a start or a stop make the window show. *)
LEMMA AppliedShows ==
    ASSUME NEW w \in Windows
    PROVE  /\ \A x \in {"running", "limited"} :
                /\ Applied(w, x).canStop /\ ~Applied(w, x).canConfigure
                /\ Applied(w, x).core = "Running"
                /\ Applied(w, x).browser = IF x = "running" THEN "Running" ELSE "Unavailable"
           /\ \A x \in {"stopped", "failed"} :
                /\ ~Applied(w, x).canStop /\ Applied(w, x).canConfigure
                /\ Applied(w, x).core # "Running"
                /\ Applied(w, x).browser = "Stopped"
           /\ \A x \in {"available", "unavailable"} :
                /\ Applied(w, x).canStop = w.canStop
                /\ Applied(w, x).canConfigure = w.canConfigure
                /\ Applied(w, x).core = w.core
                /\ Applied(w, x).browser = IF x = "available" THEN "Running" ELSE "Unavailable"
<1> USE DEF Windows, Applied
<1>1. ASSUME NEW b \in {"Running", "Unavailable"}
      PROVE  /\ Running(w, b).canStop /\ ~Running(w, b).canConfigure
             /\ Running(w, b).core = "Running" /\ Running(w, b).browser = b
  BY DEF Running
<1>2. ASSUME NEW c \in {"Stopped", "Failed"}
      PROVE  /\ ~Stopped(w, c).canStop /\ Stopped(w, c).canConfigure
             /\ Stopped(w, c).core = c /\ Stopped(w, c).browser = "Stopped"
  BY DEF Stopped
<1>3. QED BY <1>1, <1>2

(* Every step of the controller keeps the window true. *)
LEMMA ControllerTells ==
    ASSUME TypeOK, ControlOK, TrackerOK, WindowTellsTruth, ControllerNext
    PROVE  TrackerOK' /\ WindowTellsTruth'
<1> USE DEF windowVars, controlVars, processVars
<1>1. UNCHANGED window
  BY DEF ControllerNext, ReceiveStart, ReceiveStop, ReceiveExit, ReceiveTimesOut, StartCancelled,
         PrepareFails, Prepare, SpawnCancelled, SpawnFails, Spawn, WaitCancelled, WaitOn, Ready,
         ExitedInStartup, WaitTimesOut, Started, Ask, Halted, EndStop, PollExit, PollFails,
         PollHealth, PollUnanswered, Observed, PollNothing
(* The loop goes on: nothing that is told has changed. *)
<1>2. ASSUME UNCHANGED <<updates, started, monitor>>,
             pc \in {"recv", "poll"}, pc' \in {"recv", "poll"}
      PROVE  TrackerOK' /\ WindowTellsTruth'
  BY <1>1, <1>2, ShownStays DEF TrackerOK, WindowTellsTruth
(* The controller is in a start. *)
<1>3. ASSUME updates' \in Seq(Updates), pc' \in {"start", "spawn", "wait", "gone"}
      PROVE  TrackerOK' /\ WindowTellsTruth'
  BY <1>1, <1>3 DEF TrackerOK, WindowTellsTruth
(* Or in a stop. *)
<1>4. ASSUME updates' \in Seq(Updates), pc' \in {"ask", "await"}, after' # "none",
             after' = "skip" \/ monitor' = "none"
      PROVE  TrackerOK' /\ WindowTellsTruth'
  BY <1>1, <1>4 DEF TrackerOK, WindowTellsTruth
<1>5. updates \in Seq(Updates)
  BY DEF TrackerOK
<1>6. \A x \in Updates : Show(x) => updates' \in Seq(Updates)
  BY <1>1, ShowAppends
<1>7. CASE ReceiveStart
  <2>1. started => pc' = "poll" /\ UNCHANGED <<updates, started, monitor>>
    BY <1>7 DEF ReceiveStart
  <2>2. ~started => pc' = "start" /\ Show("starting")
    BY <1>7 DEF ReceiveStart
  <2>3. QED BY <1>2, <1>3, <1>6, <1>7, <2>1, <2>2 DEF ReceiveStart, Updates
<1>8. CASE ReceiveStop
  <2>1. started => pc' = "ask" /\ after' = "stopped" /\ monitor' = "none" /\ Show("stopping")
    BY <1>8 DEF ReceiveStop, StopAll
  <2>2. ~started => pc' = "poll" /\ UNCHANGED <<updates, started, monitor>>
    BY <1>8 DEF ReceiveStop
  <2>3. QED BY <1>2, <1>4, <1>6, <1>8, <2>1, <2>2 DEF ReceiveStop, Updates
<1>9. CASE ReceiveExit \/ PollFails
  BY <1>4, <1>5, <1>9 DEF ReceiveExit, PollFails, StopAll
<1>10. CASE ReceiveTimesOut \/ PollNothing
  BY <1>2, <1>10 DEF ReceiveTimesOut, PollNothing
<1>11. CASE StartCancelled \/ SpawnCancelled \/ WaitCancelled
  <2>1. PICK stopped : GiveUp(stopped)
    BY <1>11 DEF StartCancelled, SpawnCancelled, WaitCancelled
  <2>2. /\ pc' = "ask" /\ monitor' = "none" /\ after' \in {"exit", "stopped"}
        /\ UNCHANGED updates \/ Show("stopping")
    BY <2>1 DEF GiveUp
  <2>3. QED BY <1>4, <1>5, <1>6, <2>2 DEF Updates
<1>12. CASE PrepareFails \/ SpawnFails
  BY <1>4, <1>5, <1>12 DEF PrepareFails, SpawnFails, Fail
<1>13. ASSUME NEW files \in SUBSET Executables, Prepare(files) PROVE TrackerOK' /\ WindowTellsTruth'
  BY <1>3, <1>5, <1>13 DEF Prepare
<1>14. CASE Spawn \/ Ready
  BY <1>3, <1>5, <1>14 DEF Spawn, Ready
<1>15. CASE WaitOn
  BY <1>3, <1>5, <1>15 DEF WaitOn
<1>16. CASE ExitedInStartup \/ WaitTimesOut
  <2>1. NotReady
    BY <1>16 DEF ExitedInStartup, WaitTimesOut
  <2>2. /\ pc' = "ask" /\ UNCHANGED updates
        /\ after' = "skip" \/ (after' = "failed" /\ monitor' = "none")
    BY <2>1 DEF NotReady, Fail
  <2>3. QED BY <1>4, <1>5, <2>2
<1>17. CASE Started
  <2>1. PICK x \in {"running", "limited"} : Show(x) /\ (x = "running" <=> monitor = "available")
    BY <1>17 DEF Started
  <2>2. pc' = "poll" /\ started' /\ UNCHANGED monitor
    BY <1>17 DEF Started
  <2>3. Shown' = Applied(Shown, x) /\ updates' \in Seq(Updates)
    BY <1>1, <2>1, ShowAppends DEF Updates
  <2>4. WindowTellsTruth'
    BY <2>1, <2>2, <2>3, ShownIsWindow, AppliedShows DEF WindowTellsTruth
  <2>5. QED BY <1>1, <2>2, <2>3, <2>4 DEF TrackerOK
<1>18. CASE Ask \/ Halted
  <2>1. pc \in {"ask", "await"} /\ pc' \in {"ask", "await"}
        /\ UNCHANGED <<updates, after, monitor>>
    BY <1>18 DEF Ask, Halted
  <2>2. QED BY <1>4, <1>5, <2>1 DEF TrackerOK
<1>19. CASE EndStop
  <2>1. pc = "ask" /\ ~started /\ UNCHANGED <<started, monitor>>
    BY <1>19 DEF EndStop, ControlOK
  <2>2. CASE after \in {"skip", "exit"}
    BY <1>3, <1>5, <1>19, <2>2 DEF EndStop
  <2>3. CASE after \in {"stopped", "failed"}
    <3>1. pc' = "recv" /\ Show(after) /\ monitor' = "none"
      BY <1>19, <2>1, <2>3 DEF EndStop, TrackerOK
    <3>2. PICK x \in {"stopped", "failed"} : Show(x)
      BY <2>3, <3>1
    <3>3. Shown' = Applied(Shown, x) /\ updates' \in Seq(Updates)
      BY <1>1, <3>2, ShowAppends DEF Updates
    <3>4. WindowTellsTruth'
      BY <2>1, <3>1, <3>3, ShownIsWindow, AppliedShows DEF WindowTellsTruth
    <3>5. QED BY <1>1, <3>1, <3>3, <3>4 DEF TrackerOK
  <2>4. QED BY <1>19, <2>1, <2>2, <2>3 DEF TypeOK, TrackerOK
<1>20. CASE PollExit
  <2> DEFINE s == Min(Exited)
  <2>1. CASE Optional(s)
    <3>1. /\ pc' = "recv" /\ Show("unavailable") /\ monitor' = "none" /\ UNCHANGED started
      BY <1>20, <2>1 DEF PollExit
    <3>2. started /\ pc = "poll"
      BY <1>20 DEF PollExit, Exited, ControlOK
    <3>3. Shown' = Applied(Shown, "unavailable") /\ updates' \in Seq(Updates)
      BY <1>1, <3>1, ShowAppends DEF Updates
    <3>4. WindowTellsTruth'
      BY <3>1, <3>2, <3>3, ShownIsWindow, AppliedShows DEF WindowTellsTruth
    <3>5. QED BY <1>1, <3>1, <3>3, <3>4 DEF TrackerOK
  <2>2. CASE ~Optional(s)
    BY <1>4, <1>5, <1>20, <2>2 DEF PollExit
  <2>3. QED BY <2>1, <2>2
<1>21. CASE PollHealth \/ PollUnanswered
  <2>1. PICK a \in {"available", "unavailable"} : Observed(a)
    BY <1>21 DEF PollHealth, PollUnanswered
  <2>2. CASE a = monitor
    BY <1>2, <2>1, <2>2 DEF Observed
  <2>3. CASE a # monitor
    <3>1. /\ pc = "poll" /\ pc' = "recv" /\ Show(a) /\ monitor' = a /\ UNCHANGED started
          /\ monitor # "none"
      BY <2>1, <2>3 DEF Observed
    <3>2. started
      BY <3>1 DEF TrackerOK
    <3>3. Shown' = Applied(Shown, a) /\ updates' \in Seq(Updates)
      BY <1>1, <3>1, ShowAppends DEF Updates
    <3>4. WindowTellsTruth'
      BY <3>1, <3>2, <3>3, ShownIsWindow, AppliedShows DEF WindowTellsTruth
    <3>5. QED BY <1>1, <3>1, <3>2, <3>3, <3>4 DEF TrackerOK
  <2>4. QED BY <2>2, <2>3
<1>22. QED
  BY <1>7, <1>8, <1>9, <1>10, <1>11, <1>12, <1>13, <1>14, <1>15, <1>16, <1>17, <1>18, <1>19,
     <1>20, <1>21
  DEF ControllerNext

(* The window's own steps change nothing of what it tells in the end: an   *)
(* update that is applied was counted already, and what the user does      *)
(* touches only what is not told.                                          *)
LEMMA WindowTells ==
    ASSUME TypeOK, ControlOK, TrackerOK, WindowTellsTruth, WindowNext
    PROVE  (TrackerOK /\ WindowTellsTruth)'
<1> USE DEF windowVars, controlVars, processVars
<1>1. UNCHANGED <<pc, after, started, monitor>>
  BY DEF WindowNext, ApplyUpdate, ClickStart, ClickStop, CloseWindow, OpenSettings,
         CancelSettings, SaveSettings
<1>2. /\ window' \in Windows /\ updates' \in Seq(Updates)
      /\ Told(Shown') = Told(Shown)
  <2>1. CASE ApplyUpdate
    <3>1. /\ updates \in Seq(Updates) /\ updates # <<>> /\ window \in Windows
          /\ window' = Applied(window, Head(updates)) /\ updates' = Tail(updates)
      BY <2>1 DEF ApplyUpdate, TrackerOK
    <3>2. Head(updates) \in Updates /\ Tail(updates) \in Seq(Updates)
      BY <3>1
    <3>3. window' \in Windows
      BY <3>1, <3>2, AppliedTold
    <3>4. Shown' = Shown
      BY <3>1, ReplayedTail DEF Shown
    <3>5. QED BY <3>1, <3>2, <3>3, <3>4
  <2>2. CASE ~ApplyUpdate
    <3>1. UNCHANGED updates
      BY <2>2 DEF WindowNext, ClickStart, ClickStop, CloseWindow, OpenSettings,
             CancelSettings, SaveSettings
    <3>2. window \in Windows /\ updates \in Seq(Updates)
      BY DEF TrackerOK
    <3>3. window' \in Windows /\ Told(window') = Told(window)
      BY <2>2, <3>2 DEF WindowNext, ClickStart, ClickStop, CloseWindow, OpenSettings,
             CancelSettings, SaveSettings, Windows, Told
    <3>4. QED BY <3>1, <3>2, <3>3, ReplayedTold DEF Shown
  <2>3. QED BY <2>1, <2>2
<1>3. WindowTellsTruth'
  <2>1. /\ Shown'.canStop = Shown.canStop /\ Shown'.canConfigure = Shown.canConfigure
        /\ Shown'.core = Shown.core /\ Shown'.browser = Shown.browser
    BY <1>2 DEF Told
  <2>2. QED BY <1>1, <2>1 DEF WindowTellsTruth
<1>4. QED BY <1>1, <1>2, <1>3 DEF TrackerOK

(* Once it has run the updates it was given, the window offers Stop while  *)
(* services run and Settings while they do not, and shows the last         *)
(* availability observed, for any services, clicks, saves and crashes.     *)
THEOREM WindowTruth == ManagerSpec => []WindowTellsTruth
<1>1. ManagerInit => TrackerOK /\ WindowTellsTruth
  <2> SUFFICES ASSUME ManagerInit PROVE TrackerOK /\ WindowTellsTruth
    OBVIOUS
  <2>1. window \in Windows /\ ~window.canStop /\ window.canConfigure
        /\ window.core # "Running" /\ window.browser = "Stopped"
    BY DEF ManagerInit, Windows
  <2>2. updates = <<>> /\ pc = "recv" /\ ~started /\ monitor = "none"
    BY DEF ManagerInit
  <2>3. Shown = window
    <3>1. Len(updates) = 0
      BY <2>2
    <3>2. PICK r : IsReplay(r, window, updates, 0) /\ Shown = r[0]
      BY <3>1, ReplayedIs DEF Shown
    <3>3. QED BY <3>2, ReplaySteps
  <2>4. QED BY <2>1, <2>2, <2>3 DEF TrackerOK, WindowTellsTruth
<1>2. TypeOK /\ ControlOK /\ TrackerOK /\ WindowTellsTruth /\ [ManagerNext]_managerVars
        => (TrackerOK /\ WindowTellsTruth)'
  <2> SUFFICES ASSUME TypeOK, ControlOK, TrackerOK, WindowTellsTruth, [ManagerNext]_managerVars
               PROVE  (TrackerOK /\ WindowTellsTruth)'
    OBVIOUS
  <2>1. CASE UNCHANGED <<updates, window, pc, after, started, monitor>>
    BY <2>1, ShownStays DEF TrackerOK, WindowTellsTruth
  <2>2. ASSUME \/ Gone \/ BrowserComesOrGoes \/ UNCHANGED managerVars
               \/ \E s \in {Workspace, Dashboard} : Serves(s)
               \/ \E s \in Services : Crashes(s) \/ Obeys(s)
        PROVE  UNCHANGED <<updates, window, pc, after, started, monitor>>
    BY <2>2 DEF Gone, BrowserComesOrGoes, Serves, Crashes, Obeys, managerVars, windowVars,
                controlVars
  <2>3. QED BY <2>1, <2>2, ControllerTells, WindowTells DEF ManagerNext
<1>3. ManagerInv => TypeOK /\ ControlOK
  BY DEF ManagerInv
<1>4. QED BY <1>1, <1>2, <1>3, Supervision, PTL DEF ManagerSpec

-----------------------------------------------------------------------------
(* How a stop comes to its end                                             *)

(* The first command of the channel that is not a Start.                   *)
StopAt(i) == i \in DOMAIN commands /\ commands[i].op # "start" /\ OnlyStarts(i - 1)

(* What the controller still does before it receives the next command.     *)
Turns ==
    IF pc \in {"wait", "poll"} THEN 9
    ELSE IF pc = "ask" THEN 2 * Cardinality(halting) + 2
    ELSE IF pc = "await" THEN 2 * Cardinality(halting) + 1 ELSE 0

(* It is taken, and what runs is being stopped, if anything does.          *)
StopTaken(i) ==
    /\ commands' = SubSeq(commands, i + 1, Len(commands))
    /\ (pc' = "ask" /\ after' \in {"stopped", "exit"}) \/ Live' = {}

StopNearer(i) ==
    IF ControllerNext
    THEN StopTaken(i) \/ (i > 1 /\ StopAt(i - 1)') \/ (StopAt(i)' /\ Turns' < Turns)
    ELSE StopAt(i)' /\ Turns' = Turns

(* Services are being stopped, for a Stop or the end of the program.       *)
Ending == pc \in {"ask", "await"} /\ after \in {"stopped", "exit"}

EndNearer ==
    /\ Live' \subseteq Live
    /\ IF ControllerNext
       THEN /\ Turns' < Turns
            /\ \/ (Ending' /\ after' = after)
               \/ (Live' = {} /\ pc' = (IF after = "exit" THEN "gone" ELSE "recv"))
       ELSE Turns' = Turns /\ Ending' /\ after' = after

LEMMA Halts ==
    ASSUME NEW S, S \subseteq Services
    PROVE  /\ IsFiniteSet(S) /\ Cardinality(S) \in 0 .. 3
           /\ \A s \in S : Cardinality(S \ {s}) = Cardinality(S) - 1
<1>1. IsFiniteSet(1 .. 3) /\ Cardinality(1 .. 3) = 3
  <2>1. 1 \in Int /\ 3 \in Int
    OBVIOUS
  <2>2. IsFiniteSet(1 .. 3) /\ Cardinality(1 .. 3) = IF 1 > 3 THEN 0 ELSE 3 - 1 + 1
    BY <2>1, FS_Interval
  <2> QED
    BY <2>2
<1>2. IsFiniteSet(S) /\ Cardinality(S) <= 3
  BY <1>1, FS_Subset DEF Services
<1>3. Cardinality(S) \in Nat
  BY <1>2, FS_CardinalityType
<1>4. \A s \in S : Cardinality(S \ {s}) = Cardinality(S) - 1
  BY <1>2, FS_RemoveElement
<1> QED
  BY <1>2, <1>3, <1>4

(* Stopping the services: one after the other, and nothing starts.         *)
LEMMA StoppingSteps ==
    ASSUME TypeOK, ControlOK, NoOrphans, (TypeOK /\ ControlOK /\ NoOrphans)',
           Ask \/ Halted \/ EndStop
    PROVE  /\ Turns' < Turns
           /\ Live' \subseteq Live
           /\ Ending => \/ (Ending' /\ after' = after)
                        \/ (Live' = {} /\ pc' = (IF after = "exit" THEN "gone" ELSE "recv"))
<1>1. halting \subseteq Services /\ halting' \subseteq Services
  BY DEF TypeOK
<1>2. PICK n \in Nat : n = Cardinality(halting)
  BY <1>1, Halts
<1>3. CASE Ask
  <2>1. pc = "ask" /\ pc' = "await" /\ halting' = halting /\ after' = after
    BY <1>3 DEF Ask
  <2>2. Turns = 2 * n + 2 /\ Turns' = 2 * n + 1
    BY <1>2, <2>1 DEF Turns
  <2>3. Live' \subseteq Live
    BY <1>3 DEF Ask, Live, TypeOK
  <2> QED
    BY <2>1, <2>2, <2>3 DEF Ending
<1>4. CASE Halted
  <2>1. pc = "await" /\ pc' = "ask" /\ after' = after /\ halting' = halting \ {Current}
    BY <1>4 DEF Halted
  <2>2. Current \in halting
    BY <1>1, <2>1, MaxOfServices DEF ControlOK, Current
  <2>3. Cardinality(halting') = n - 1
    BY <1>1, <1>2, <2>1, <2>2, Halts
  <2>4. Turns = 2 * n + 1 /\ Turns' = 2 * (n - 1) + 2
    BY <1>2, <2>1, <2>3 DEF Turns
  <2>5. Live' \subseteq Live
    BY <1>4 DEF Halted, Reap, Live, TypeOK
  <2> QED
    BY <2>1, <2>4, <2>5 DEF Ending
<1>5. CASE EndStop
  <2>1. pc = "ask" /\ proc' = proc /\ pc' \in {"spawn", "gone", "recv"}
    BY <1>5 DEF EndStop, processVars
  <2>2. Turns = 2 * n + 2 /\ Turns' = 0
    BY <1>2, <2>1 DEF Turns
  <2>3. Live' \subseteq Live
    BY <2>1 DEF Live
  <2>4. Ending => pc' = (IF after = "exit" THEN "gone" ELSE "recv")
    BY <1>5 DEF EndStop, Ending
  <2>5. Ending => Live' = {}
    <3>1. ~started' /\ halting' = {}
      BY <1>5, <2>1 DEF EndStop, ControlOK
    <3>2. Ending => group' = {}
      BY <2>4, <3>1 DEF ControlOK
    <3> QED
      BY <2>4, <3>1, <3>2 DEF NoOrphans, Owned
  <2> QED
    BY <2>2, <2>3, <2>4, <2>5
<1> QED
  BY <1>3, <1>4, <1>5

(* What is not the controller's leaves it to its work. *)
LEMMA OthersLeaveStops ==
    ASSUME TypeOK, [ManagerNext]_managerVars, ~ControllerNext
    PROVE  /\ UNCHANGED <<pc, after, halting>>
           /\ Live' \subseteq Live
           /\ \A i \in DOMAIN commands : StopAt(i) => StopAt(i)'
<1> USE DEF windowVars, controlVars, processVars
<1>1. /\ UNCHANGED controlVars
      /\ UNCHANGED commands \/ \E op \in {"start", "stop", "exit"} : Send(op)
      /\ \/ UNCHANGED proc
         \/ \E s \in Services : proc' = [proc EXCEPT ![s] = "exited"]
         \/ \E s \in Services : proc' = [proc EXCEPT ![s] = "none"]
         \/ Live' \subseteq Live
  <2>1. CASE WindowNext
    BY <2>1 DEF WindowNext, ApplyUpdate, ClickStart, ClickStop, CloseWindow, OpenSettings,
                CancelSettings, SaveSettings
  <2>2. CASE Gone
    BY <2>2 DEF Gone, managerVars
  <2>3. CASE \E s \in {Workspace, Dashboard} : Serves(s)
    BY <2>3 DEF Serves
  <2>4. CASE \E s \in Services : Crashes(s) \/ Obeys(s)
    BY <2>4 DEF Crashes, Obeys
  <2>5. CASE BrowserComesOrGoes
    BY <2>5 DEF BrowserComesOrGoes
  <2>6. CASE UNCHANGED managerVars
    BY <2>6 DEF managerVars
  <2> QED
    BY <2>1, <2>2, <2>3, <2>4, <2>5, <2>6 DEF ManagerNext
<1>2. Live' \subseteq Live
  BY <1>1 DEF Live, TypeOK
<1>3. commands \in Seq(Command)
  BY DEF TypeOK, Command
<1>4. ASSUME NEW i \in DOMAIN commands, StopAt(i)
      PROVE  StopAt(i)'
  <2>1. CASE UNCHANGED commands
    BY <1>4, <2>1 DEF StopAt, OnlyStarts
  <2>2. CASE \E op \in {"start", "stop", "exit"} : Send(op)
    <3>1. PICK c : commands' = Append(commands, c)
      BY <2>2 DEF Send
    <3>2. /\ i \in DOMAIN commands'
          /\ \A j \in 1 .. i : commands'[j] = commands[j]
      BY <1>3, <1>4, <3>1
    <3> QED
      BY <1>3, <1>4, <3>2 DEF StopAt, OnlyStarts
  <2> QED
    BY <1>1, <2>1, <2>2
<1> QED
  BY <1>1, <1>2, <1>4

(* A start that has not seen the stop does not go on, and one that has     *)
(* seen it takes it.                                                       *)
LEMMA StopIsFirst ==
    ASSUME TypeOK, NEW i, StopAt(i)
    PROVE  /\ i \in 1 .. Len(commands) /\ commands[i] \in Command
           /\ ~Proceeds
           /\ UNCHANGED commands => StopAt(i)'
           /\ \A stopped : GiveUp(stopped) => StopTaken(i)
<1>1. commands \in Seq(Command)
  BY DEF TypeOK, Command
<1>2. i \in 1 .. Len(commands) /\ commands[i] \in Command /\ commands[i].op # "start"
  BY <1>1 DEF StopAt
<1>3. ~Proceeds
  BY <1>1, <1>2 DEF Proceeds, OnlyStarts
<1>4. UNCHANGED commands => StopAt(i)'
  BY DEF StopAt, OnlyStarts
<1>5. ASSUME NEW stopped, GiveUp(stopped)
      PROVE  StopTaken(i)
  <2>1. PICK j \in DOMAIN commands :
            /\ commands[j].op # "start" /\ OnlyStarts(j - 1)
            /\ commands' = SubSeq(commands, j + 1, Len(commands))
            /\ after' \in {"stopped", "exit"}
    BY <1>5 DEF GiveUp
  <2>2. j = i
    BY <1>1, <1>2, <2>1 DEF StopAt, OnlyStarts
  <2>3. pc' = "ask"
    BY <1>5 DEF GiveUp
  <2> QED
    BY <2>1, <2>2, <2>3 DEF StopTaken
<1> QED
  BY <1>2, <1>3, <1>4, <1>5

(* Whatever the controller does, it gets nearer to a stop that waits.      *)
LEMMA StopSteps ==
    ASSUME TypeOK, ControlOK, NoOrphans, (TypeOK /\ ControlOK /\ NoOrphans)',
           ControllerNext, NEW i, StopAt(i)
    PROVE  StopTaken(i) \/ (i > 1 /\ StopAt(i - 1)') \/ (StopAt(i)' /\ Turns' < Turns)
<1>1. /\ i \in 1 .. Len(commands) /\ commands[i].op # "start" /\ commands \in Seq(Command)
      /\ ~Proceeds
      /\ UNCHANGED commands => StopAt(i)'
      /\ \A stopped : GiveUp(stopped) => StopTaken(i)
  BY StopIsFirst DEF TypeOK, Command, StopAt
<1>2. CASE ReceiveStart
  <2>1. commands[1].op = "start" /\ commands' = Tail(commands)
    BY <1>1, <1>2 DEF ReceiveStart
  <2>2. i > 1
    BY <1>1, <2>1
  <2>3. /\ Len(commands') = Len(commands) - 1
        /\ \A j \in 1 .. Len(commands) - 1 : commands'[j] = commands[j + 1]
    BY <1>1, <2>1
  <2>4. i - 1 \in DOMAIN commands' /\ commands'[i - 1].op # "start"
    BY <1>1, <2>1, <2>2, <2>3
  <2>5. ASSUME NEW j \in 1 .. i - 2
        PROVE  commands'[j].op = "start"
    <3>1. j \in 1 .. Len(commands) - 1 /\ j + 1 \in 1 .. i - 1
      BY <1>1, <2>2
    <3>2. commands'[j] = commands[j + 1]
      BY <2>3, <3>1
    <3>3. commands[j + 1].op = "start"
      BY <3>1 DEF StopAt, OnlyStarts
    <3> QED
      BY <3>2, <3>3
  <2> QED
    BY <1>1, <2>2, <2>4, <2>5 DEF StopAt, OnlyStarts
<1>3. CASE ReceiveStop \/ ReceiveExit
  <2>1. commands[1].op # "start" /\ commands' = Tail(commands)
    BY <1>1, <1>3 DEF ReceiveStop, ReceiveExit
  <2>2. i = 1
    BY <1>1, <2>1 DEF StopAt, OnlyStarts
  <2>3. commands' = SubSeq(commands, i + 1, Len(commands))
    BY <1>1, <2>1, <2>2
  <2>4. CASE ReceiveStop /\ ~started
    <3>1. pc = "recv" /\ pc' = "poll" /\ proc' = proc
      BY <2>4 DEF ReceiveStop, processVars
    <3>2. group = {} /\ halting = {}
      BY <2>4, <3>1 DEF ControlOK
    <3>3. Live = {}
      BY <3>1, <3>2 DEF NoOrphans, Owned
    <3> QED
      BY <2>3, <3>1, <3>3 DEF StopTaken, Live
  <2>5. CASE ReceiveExit \/ started
    BY <1>3, <2>3, <2>5 DEF ReceiveStop, ReceiveExit, StopAll, StopTaken
  <2> QED
    BY <1>3, <2>4, <2>5
<1>4. CASE ReceiveTimesOut
  BY <1>1, <1>4 DEF ReceiveTimesOut
<1>5. CASE StartCancelled \/ SpawnCancelled \/ WaitCancelled
  BY <1>1, <1>5 DEF StartCancelled, SpawnCancelled, WaitCancelled
<1>6. CASE \/ PrepareFails \/ SpawnFails \/ Spawn \/ WaitOn \/ Ready \/ ExitedInStartup
           \/ Started \/ \E files \in SUBSET Executables : Prepare(files)
  BY <1>1, <1>6 DEF PrepareFails, Prepare, SpawnFails, Spawn, WaitOn, Ready, ExitedInStartup,
                    Started
<1>7. CASE Ask \/ Halted \/ EndStop
  <2>1. UNCHANGED commands
    BY <1>7 DEF Ask, Halted, EndStop
  <2> QED
    BY <1>1, <1>7, <2>1, StoppingSteps
<1>8. CASE WaitTimesOut \/ PollExit \/ PollFails \/ PollHealth \/ PollUnanswered \/ PollNothing
  <2>1. pc \in {"wait", "poll"} /\ pc' \in {"ask", "recv"} /\ UNCHANGED commands
    BY <1>8 DEF WaitTimesOut, NotReady, Fail, PollExit, PollFails, StopAll, PollHealth,
                PollUnanswered, PollNothing, Observed
  <2>2. PICK n \in 0 .. 3 : n = Cardinality(halting')
    BY Halts DEF TypeOK
  <2>3. Turns = 9 /\ (Turns' = 2 * n + 2 \/ Turns' = 0)
    BY <2>1, <2>2 DEF Turns
  <2> QED
    BY <1>1, <2>1, <2>2, <2>3
<1> QED
  BY <1>2, <1>3, <1>4, <1>5, <1>6, <1>7, <1>8 DEF ControllerNext

(* A Stop or the end of the program that waits in the channel is taken:    *)
(* each step of the controller takes it, or takes a Start before it, or    *)
(* leaves one step less before it receives again; no other step puts it    *)
(* off.  So it waits for no answer of a service and for no later command   *)
(* (startup_cancellation_requested, stop_services).                        *)
THEOREM StopComesNearer ==
    ManagerSpec => [][\A i \in DOMAIN commands : StopAt(i) => StopNearer(i)]_managerVars
<1> DEFINE Inv == TypeOK /\ ControlOK /\ NoOrphans
<1>1. Inv /\ Inv' /\ [ManagerNext]_managerVars
        => [\A i \in DOMAIN commands : StopAt(i) => StopNearer(i)]_managerVars
  <2> SUFFICES ASSUME Inv, Inv', [ManagerNext]_managerVars,
                      NEW i \in DOMAIN commands, StopAt(i)
               PROVE  StopNearer(i)
    OBVIOUS
  <2>1. CASE ControllerNext
    BY <2>1, StopSteps DEF StopNearer
  <2>2. CASE ~ControllerNext
    BY <2>2, OthersLeaveStops DEF StopNearer, Turns
  <2> QED
    BY <2>1, <2>2
<1>2. ManagerInv => Inv
  BY DEF ManagerInv
<1> QED
  BY <1>1, <1>2, Supervision, PTL DEF ManagerSpec

(* Once taken it ends: while services are being stopped for it nothing     *)
(* starts, and each step of the controller lowers what is left to do,      *)
(* until no service runs and the controller is idle or gone.               *)
THEOREM StopsEnd ==
    ManagerSpec => [][Ending => EndNearer]_managerVars
<1> DEFINE Inv == TypeOK /\ ControlOK /\ NoOrphans
<1>1. Inv /\ Inv' /\ [ManagerNext]_managerVars => [Ending => EndNearer]_managerVars
  <2> SUFFICES ASSUME Inv, Inv', [ManagerNext]_managerVars, Ending
               PROVE  EndNearer
    OBVIOUS
  <2>1. CASE ControllerNext
    <3>1. Ask \/ Halted \/ EndStop
      BY <2>1 DEF Ending, ControllerNext, ReceiveStart, ReceiveStop, ReceiveExit,
                  ReceiveTimesOut, StartCancelled, PrepareFails, Prepare, SpawnCancelled,
                  SpawnFails, Spawn, WaitCancelled, WaitOn, Ready, ExitedInStartup,
                  WaitTimesOut, Started, PollExit, PollFails, PollHealth, PollUnanswered,
                  PollNothing, Observed
    <3> QED
      BY <2>1, <3>1, StoppingSteps DEF EndNearer
  <2>2. CASE ~ControllerNext
    BY <2>2, OthersLeaveStops DEF EndNearer, Turns, Ending
  <2> QED
    BY <2>1, <2>2
<1>2. ManagerInv => Inv
  BY DEF ManagerInv
<1> QED
  BY <1>1, <1>2, Supervision, PTL DEF ManagerSpec
=============================================================================
