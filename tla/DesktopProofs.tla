---------------------------- MODULE DesktopProofs ----------------------------
(***************************************************************************)
(* The composition: with the lifecycle of the browser as its third service *)
(* the manager still behaves as specified for a service that comes and     *)
(* goes as it likes, so what is proved of the manager holds of the desktop *)
(* product; and unless closing fails or a launch is given up the lifecycle *)
(* neither reports nor leaves behind a browser that it does not hold.      *)
(***************************************************************************)
EXTENDS Desktop, DesktopManagerProofs

LifecycleOK ==
    /\ stage \in {"off", "launching", "running", "unwinding", "waiting", "stopped"}
    /\ context => stage = "running"
    /\ windowOpen => stage \in {"running", "unwinding"} \/ unclosed
    /\ told => stage = "running"
    /\ stage = "launching" => phase = "starting" \/ unclosed
    /\ stage = "running" => \/ ~told /\ phase = "starting"
                           \/ ~tools \/ unclosed
    /\ told => ~tools \/ unclosed
    /\ stage = "unwinding" => cause \in {"closed", "error", "cancelled"}

(* The lifecycle runs exactly while its process does.                      *)
Linked == stage # "off" => proc[Browser] \in {"alive", "asked"}

LEMMA LifecycleGuards ==
    ASSUME LifecycleOK, LifecycleNext
    PROVE  stage # "off" /\ stage' # "off"
BY DEF LifecycleOK, LifecycleNext, LifecycleGoesOn, Launched, LaunchedInVain, Runs, LaunchFails,
       SeesClosed, Cancelled, Unwind, ContextClosed, CloseFails, RetryElapses, Stops, WindowCloses,
       LeftWindowCloses, RuntimeFails, Waits

LEMMA LifecyclePreserves ==
    ASSUME LifecycleOK, LifecycleNext
    PROVE  LifecycleOK'
<1> USE DEF LifecycleOK
<1>1. CASE Launched \/ LaunchedInVain
  BY <1>1 DEF Launched, LaunchedInVain, Runs
<1>2. CASE LaunchFails
  BY <1>2 DEF LaunchFails, Waits
<1>3. CASE SeesClosed \/ Cancelled \/ RuntimeFails
  BY <1>3 DEF SeesClosed, Cancelled, RuntimeFails, Unwind
<1>4. CASE ContextClosed
  BY <1>4 DEF ContextClosed, Waits, Failed
<1>5. CASE CloseFails
  BY <1>5 DEF CloseFails, Waits
<1>6. CASE RetryElapses \/ Stops
  <2>1. CASE RetryElapses
    BY <2>1 DEF RetryElapses
  <2>2. CASE Stops /\ stage = "launching"
    BY <2>2 DEF Stops
  <2>3. CASE Stops /\ stage = "waiting"
    BY <2>3 DEF Stops
  <2>4. QED BY <1>6, <2>1, <2>2, <2>3 DEF Stops
<1>7. CASE WindowCloses \/ LeftWindowCloses
  BY <1>7 DEF WindowCloses, LeftWindowCloses, RecordsWindowClosed
<1>8. QED BY <1>1, <1>2, <1>3, <1>4, <1>5, <1>6, <1>7 DEF LifecycleNext, LifecycleGoesOn

(* Whatever a step of the manager does to the lifecycle keeps it sound.    *)
LEMMA FollowsPreserves ==
    ASSUME LifecycleOK, Linked, Follows
    PROVE  LifecycleOK' /\ Linked'
<1>1. CASE UNCHANGED lifecycleVars /\ proc[Browser] = proc'[Browser]
  BY <1>1 DEF LifecycleOK, Linked, lifecycleVars
<1>2. CASE Boot /\ proc'[Browser] = "alive"
  BY <1>2 DEF LifecycleOK, Linked, Boot
<1>3. CASE Abort /\ proc'[Browser] = "asked"
  BY <1>3 DEF LifecycleOK, Linked, Abort
<1>4. CASE Off
  BY <1>4 DEF LifecycleOK, Linked, Off
<1>5. QED BY <1>1, <1>2, <1>3, <1>4 DEF Follows

LEMMA StepsPreserve ==
    ASSUME LifecycleOK, Linked, [DesktopNext]_desktopVars
    PROVE  /\ LifecycleOK' /\ Linked'
           /\ [ManagerNext]_managerVars
<1>1. CASE (WindowNext \/ ControllerNext \/ ProcessNext \/ Gone) /\ Follows
  BY <1>1, FollowsPreserves DEF ManagerNext, ProcessNext
<1>2. CASE LifecycleNext /\ Answers
  <2>1. LifecycleOK' /\ Linked'
    BY <1>2, LifecyclePreserves, LifecycleGuards DEF Linked, Answers
  <2>2. proc[Browser] \in {"alive", "asked"}
    BY <1>2, LifecycleGuards DEF Linked
  <2>3. BrowserComesOrGoes
    BY <1>2, <2>2 DEF Answers, BrowserComesOrGoes
  <2>4. QED BY <2>1, <2>3 DEF ManagerNext
<1>3. CASE UNCHANGED desktopVars
  BY <1>3 DEF desktopVars, lifecycleVars, managerVars, processVars, LifecycleOK, Linked
<1>4. QED BY <1>1, <1>2, <1>3 DEF DesktopNext

LEMMA LifecycleInvariant == DesktopSpec => [](LifecycleOK /\ Linked)
<1>1. DesktopInit => LifecycleOK /\ Linked
  BY DEF DesktopInit, LifecycleInit, LifecycleOK, Linked
<1>2. LifecycleOK /\ Linked /\ [DesktopNext]_desktopVars => (LifecycleOK /\ Linked)'
  BY StepsPreserve
<1>3. QED BY <1>1, <1>2, PTL DEF DesktopSpec

(* The composed product implements the manager with an arbitrary browser.  *)
THEOREM Composition == DesktopSpec => ManagerSpec
<1>1. DesktopInit => ManagerInit
  BY DEF DesktopInit
<1>2. LifecycleOK /\ Linked /\ [DesktopNext]_desktopVars => [ManagerNext]_managerVars
  BY StepsPreserve
<1>3. QED BY <1>1, <1>2, LifecycleInvariant, PTL DEF DesktopSpec, ManagerSpec

(* Unless a close() has failed or a launch was given up, a session that    *)
(* ended by request has closed its browser, and one that was told that its *)
(* window has closed reports no browser.                                   *)
THEOREM BrowserClosed == DesktopSpec => []BrowserIsClosed
<1>1. LifecycleOK => BrowserIsClosed
  BY DEF LifecycleOK, BrowserIsClosed, Available
<1>2. QED BY <1>1, LifecycleInvariant, PTL

(* The composed product owns every process it runs, in dependency order.   *)
THEOREM DesktopSupervision == DesktopSpec => []ManagerInv /\ RefinesServiceGroup
BY Composition, Supervision, Refinement, PTL

(* And its window tells the truth about the services, with a browser that  *)
(* launches, is lost and comes back as the lifecycle lets it.              *)
THEOREM DesktopWindow == DesktopSpec => []WindowTellsTruth
BY Composition, WindowTruth, PTL

(* And a Stop, or the end of the program, gets done in it, step by step.   *)
THEOREM DesktopStops ==
    DesktopSpec => /\ [][\A i \in DOMAIN commands : StopAt(i) => StopNearer(i)]_managerVars
                   /\ [][Ending => EndNearer]_managerVars
BY Composition, StopComesNearer, StopsEnd, PTL
=============================================================================
