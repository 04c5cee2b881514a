-------------------------- MODULE LoginPreparation --------------------------
(***************************************************************************)
(* browser_prepare_login: waits until no collection reads a page, looks    *)
(* for a page of the platform the user can log in at, or opens one, and    *)
(* hands the browser over.  A page is judged by what was read of it, and   *)
(* may have changed by the time it is chosen.  How requests compete for    *)
(* the control state is the subject of HandoffControl: here one            *)
(* preparation runs at a time.                                             *)
(***************************************************************************)
EXTENDS ToolCalls

CONSTANT MaxRounds      \* loginHandoffMaximumObservations

ASSUME LoginAssumption == MaxRounds \in Nat \ {0}

VARIABLE login          \* the local variables of the preparation

(* pages: those still to be read (in this round); ready and candidates:    *)
(* those judged so far; page: the page that is sent to the login or        *)
(* chosen; opened: is it one the preparation opened; handoff: is it handed *)
(* over, or authenticated already; read: the last reading.                 *)
Unread == [at |-> "blank", shows |-> "unreadable"]

NoLogin == [pc |-> "none", pages |-> <<>>, ready |-> <<>>, candidates |-> <<>>, round |-> 0,
            page |-> NoPage, opened |-> FALSE, handoff |-> FALSE,
            read |-> Unread]

loginRest == <<refs, nextRef, call, calls, control>>

(* cancelUserHandoff *)
CancelUserHandoff ==
    control' = IF control \in {"quiescing", "preparing"} THEN "active" ELSE control

LoginFails ==
    /\ login' = NoLogin
    /\ CancelUserHandoff
    /\ ClearElementReferences

(* A page that is handed over needs the control state to be as it was left *)
(* (completeUserHandoff); one that is authenticated leaves control.        *)
LoginCompletes(handoff) ==
    /\ login' = NoLogin
    /\ control' = IF handoff /\ control = "preparing" THEN "user-handoff"
                  ELSE IF control \in {"quiescing", "preparing"} THEN "active" ELSE control
    /\ ClearElementReferences

(* What was read shows evidence of an account, or a control for the user.  *)
ShowsAccount(read) == read.shows = "account" /\ InScope(read.at)
ShowsControl(read) == read.shows = "control"

-----------------------------------------------------------------------------
(* Choosing among the pages there are.                                     *)

StillAtLogin(p) == page[p].state = "open" /\ page[p].at = "login"

(* Selected and brought to the front, unless it has lost its tab. *)
ChooseExisting(p, handoff) ==
    \/ /\ TabOf(p) = {}
       /\ LoginFails
       /\ UNCHANGED <<browserVars, nextRef, call, calls>>
    \/ /\ TabOf(p) # {}
       /\ SelectPage(p)
       /\ login' = [NoLogin EXCEPT !.pc = "front", !.page = p, !.handoff = handoff]
       /\ UNCHANGED <<page, nextNode, loginRest>>

(* #openLoginPage: an empty page that is open, or a new one. *)
OpenLoginPage ==
    LET blank == First({t \in Registered : page[tabs[t]].state = "open" /\ page[tabs[t]].at = "blank"})
    IN  \/ \E t \in blank :
               /\ MarkSelected(t)
               /\ login' = [NoLogin EXCEPT !.pc = "goto", !.page = tabs[t], !.opened = TRUE]
               /\ UNCHANGED <<page, nextNode, tabs, nextTab, loginRest>>
        \/ /\ blank = {}
           /\ login' = [NoLogin EXCEPT !.pc = "create", !.opened = TRUE]
           /\ UNCHANGED <<browserVars, loginRest>>

StillThere(candidates) ==
    InOrder(candidates, {i \in DOMAIN candidates : StillAtLogin(candidates[i])})

FirstReady(ready) == First({i \in DOMAIN ready : StillAtLogin(ready[i])})

(* Mutant: a page judged ready is not asked again where it is. *)
ChooseReadyAsJudged(ready, candidates) ==
    IF ready # <<>> THEN ChooseExisting(ready[1], TRUE)
    ELSE IF \E i \in DOMAIN candidates : StillAtLogin(candidates[i])
    THEN LET current == StillThere(candidates) IN
         /\ login' = [NoLogin EXCEPT !.pc = "observe", !.pages = current, !.candidates = current,
                                   !.round = 1]
         /\ UNCHANGED <<browserVars, loginRest>>
    ELSE OpenLoginPage

(* When every page has been judged: a ready one that still is, or else the *)
(* pages at the login are observed, or else one is opened.                 *)
Choose(ready, candidates) ==
    IF FirstReady(ready) # {}
    THEN \E i \in FirstReady(ready) : ChooseExisting(ready[i], TRUE)
    ELSE IF \E i \in DOMAIN candidates : StillAtLogin(candidates[i])
    THEN LET current == StillThere(candidates) IN
         /\ login' = [NoLogin EXCEPT !.pc = "observe", !.pages = current, !.candidates = current,
                                   !.round = 1]
         /\ UNCHANGED <<browserVars, loginRest>>
    ELSE OpenLoginPage

-----------------------------------------------------------------------------
(* In the bound of calls it counts for two. *)
PrepareBegins ==
    /\ login.pc = "none" /\ control = "active" /\ calls + 1 < MaxCalls
    /\ control' = "quiescing"
    /\ calls' = calls + 2
    /\ login' = [NoLogin EXCEPT !.pc = "quiesce"]
    /\ UNCHANGED <<browserVars, refs, nextRef, call>>

(* The pages to be judged: those of the platform, in the order of tabs. *)
PlatformPages == InOrder(tabs, {t \in Registered : InScope(page[tabs[t]].at)})

(* No collection reads a page; control may have changed meanwhile. *)
Quiesced(collecting) ==
    /\ login.pc = "quiesce" /\ ~collecting
    /\ \/ /\ control \in {"quiescing", "active"}
          /\ control' = "preparing"
          /\ login' = [login EXCEPT !.pc = "judge", !.pages = PlatformPages]
       \/ /\ control = "user-handoff"
          /\ login' = NoLogin
          /\ UNCHANGED control
    /\ UNCHANGED <<browserVars, refs, nextRef, call, calls>>

(* The page is read, or is closed or too slow. *)
Reads(pc, next) ==
    /\ login.pc = pc /\ login.pages # <<>>
    /\ LET p == Head(login.pages) IN
        \/ /\ page[p].state = "open"
           /\ login' = [login EXCEPT !.pc = next, !.read = [at |-> page[p].at, shows |-> page[p].shows]]
        \/ login' = [login EXCEPT !.pc = next, !.read = Unread]
    /\ UNCHANGED <<browserVars, loginRest>>

JudgeReads == Reads("judge", "judged")

(* What is read shows an interruption of access: it is observed, control   *)
(* passes to the user, and the preparation fails.                          *)
InterruptionRead ==
    /\ login.pc \in {"judge", "observe"} /\ login.pages # <<>>
    /\ page[Head(login.pages)].state = "open"
    /\ InScope(page[Head(login.pages)].at)
    /\ control' = "user-handoff"
    /\ login' = NoLogin
    /\ ClearElementReferences
    /\ UNCHANGED <<browserVars, nextRef, call, calls>>

NothingToJudge ==
    /\ login.pc = "judge" /\ login.pages = <<>>
    /\ Choose(<<>>, <<>>)

(* classifyExistingPageForLogin, and the choice after the last page. *)
Judged ==
    /\ login.pc = "judged"
    /\ LET p == Head(login.pages)
           AtLogin == login.read.at = "login"
           ready == IF AtLogin /\ ShowsControl(login.read)
                    THEN Append(login.ready, p) ELSE login.ready
           candidates == IF AtLogin /\ login.read.shows = "plain"
                         THEN Append(login.candidates, p) ELSE login.candidates
       IN  IF ShowsAccount(login.read)
           THEN ChooseExisting(p, FALSE)
           ELSE IF Len(login.pages) = 1 THEN Choose(ready, candidates)
           ELSE /\ login' = [login EXCEPT !.pc = "judge", !.pages = Tail(@),
                                          !.ready = ready, !.candidates = candidates, !.read = Unread]
                /\ UNCHANGED <<browserVars, loginRest>>

-----------------------------------------------------------------------------
(* observeLoginHandoffCandidates: the pages at the login are read again,   *)
(* at most so many times, until one can be handed over.                    *)

Remaining(p) ==
    InOrder(login.candidates, {i \in DOMAIN login.candidates : login.candidates[i] # p})

(* The round goes on with the candidates that are left, or the next one    *)
(* begins, or the preparation fails.                                       *)
GoesOn(left) ==
    LET rest == Tail(login.pages) IN
    IF rest # <<>>
    THEN /\ login' = [login EXCEPT !.pc = "observe", !.pages = rest, !.candidates = left, !.read = Unread]
         /\ UNCHANGED <<browserVars, loginRest>>
    ELSE IF left # <<>> /\ login.round < MaxRounds
    THEN /\ login' = [login EXCEPT !.pc = "observe", !.pages = left, !.candidates = left,
                                   !.round = @ + 1, !.read = Unread]
         /\ UNCHANGED <<browserVars, loginRest>>
    ELSE LoginFails /\ UNCHANGED <<browserVars, nextRef, call, calls>>

CandidateClosed ==
    /\ login.pc = "observe"
    /\ page[Head(login.pages)].state = "closed"
    /\ GoesOn(Remaining(Head(login.pages)))

CandidateReads ==
    /\ login.pc = "observe"
    /\ page[Head(login.pages)].state = "open"
    /\ Reads("observe", "observed")

(* A page that is ready is chosen; one the preparation opened is selected  *)
(* already, and handed over at once.                                       *)
IsChosen(p, handoff) ==
    IF login.opened
    THEN LoginCompletes(handoff) /\ UNCHANGED <<browserVars, nextRef, call, calls>>
    ELSE ChooseExisting(p, handoff)

Observed ==
    /\ login.pc = "observed"
    /\ LET p == Head(login.pages) IN
       \/ /\ login.read = Unread
          /\ GoesOn(login.candidates)
       \/ /\ ShowsAccount(login.read)
          /\ IsChosen(p, FALSE)
       \/ /\ login.read # Unread /\ ~ShowsAccount(login.read)
          /\ \/ /\ ~(login.read.at = "login" /\ page[p].at = "login")
                /\ GoesOn(Remaining(p))
             \/ /\ login.read.at = "login" /\ page[p].at = "login"
                /\ IF ShowsControl(login.read)
                   THEN IsChosen(p, TRUE) ELSE GoesOn(login.candidates)

-----------------------------------------------------------------------------
BroughtForward ==
    /\ login.pc = "front"
    /\ \/ page[login.page].state = "open" /\ LoginCompletes(login.handoff)
       \/ page[login.page].state = "closed" /\ LoginFails
    /\ UNCHANGED <<browserVars, nextRef, call, calls>>

LoginPageAppears ==
    /\ login.pc = "create"
    /\ \E p \in Pages :
        /\ Appears(p, "blank")
        /\ login' = [login EXCEPT !.pc = "created", !.page = p]
    /\ UNCHANGED loginRest

LoginPageCreated ==
    /\ login.pc = "created"
    /\ SelectPage(login.page)
    /\ login' = [login EXCEPT !.pc = "goto"]
    /\ UNCHANGED <<page, nextNode, loginRest>>

(* The login route may redirect, or may not load in time. *)
LoginPageLoads ==
    /\ login.pc = "goto"
    /\ page[login.page].state = "open"
    /\ \/ \E shows \in {"control", "plain"} : Loads(login.page, "login", shows, "none")
       \/ Loads(login.page, "entry", "account", "none")
       \/ UNCHANGED <<page, nextNode>>
    /\ login' = [login EXCEPT !.pc = "opened"]
    /\ UNCHANGED <<tabVars, loginRest>>

(* The page is closed, or cannot load: only a timeout is put up with.      *)
LoginPageFails ==
    /\ login.pc = "goto"
    /\ LoginFails
    /\ UNCHANGED <<browserVars, nextRef, call, calls>>

LoginPageOpened ==
    /\ login.pc = "opened"
    /\ \/ /\ page[login.page].state = "open"
          /\ login' = [login EXCEPT !.pc = "observe", !.pages = <<login.page>>,
                                    !.candidates = <<login.page>>, !.round = 1]
          /\ UNCHANGED loginRest
       \/ /\ page[login.page].state = "closed"
          /\ LoginFails
          /\ UNCHANGED <<nextRef, call, calls>>
    /\ UNCHANGED browserVars

LoginNext(collecting) ==
    \/ PrepareBegins \/ Quiesced(collecting) \/ JudgeReads \/ InterruptionRead
    \/ NothingToJudge \/ Judged
    \/ CandidateClosed \/ CandidateReads \/ Observed \/ BroughtForward
    \/ LoginPageAppears \/ LoginPageCreated \/ LoginPageLoads \/ LoginPageFails \/ LoginPageOpened

-----------------------------------------------------------------------------
(* The page chosen for the user is, when it is chosen, at the login and    *)
(* the selected one, however long ago it was judged and whatever the calls *)
(* that are still running do; one that is ready is open too.  And a page   *)
(* the preparation opened is at the login when it is handed over.          *)
Chosen ==
    /\ (login.pc # "front" /\ login'.pc = "front" /\ login'.handoff)
           => /\ page[login'.page].at = "login" /\ tabs[selected'] = login'.page
              /\ login.pc = "judged" => StillAtLogin(login'.page)
    /\ (login.opened /\ login.pc = "observed" /\ login'.pc = "none"
            /\ control # control' /\ control' = "user-handoff")
           => page[login.page].at = "login"

(* A page that was found is brought to the front before it is handed over, *)
(* and nobody asks again where it is.  Until then it leaves the login only *)
(* by itself, by the user, or by a call that was running already; and what *)
(* is handed over is that page, open.                                      *)
ComesToFront ==
    login.pc = "front" =>
        /\ (page[login.page].at = "login" /\ page'[login.page].at # "login")
               => \/ UNCHANGED <<toolVars, login>>
                  \/ \E c \in Calls : call[c].pc # "idle" /\ call'[c] # call[c]
        /\ login' # login =>
               /\ login'.pc = "none"
               /\ (control # control' /\ control' = "user-handoff")
                      => login.handoff /\ page[login.page].state = "open"

HandsOver == Chosen /\ ComesToFront

HandsOverLogin == [][HandsOver]_<<browserVars, toolVars, login>>
=============================================================================
