---------------------------- MODULE WebPartsProofs ----------------------------
(***************************************************************************)
(* Theorems about the parts MCWebParts puts side by side: BrowserSession,  *)
(* NoteEditor, NoteMarkdown, NoteLinks and NoteGraph, for any number of    *)
(* requests, texts, lines, notes and tags.  Each part has its inductive    *)
(* invariant; the last theorem joins them.                                 *)
(***************************************************************************)
EXTENDS MCWebParts, InductionLemmas, SequenceTheorems, FunctionTheorems, TLAPS

(* BrowserSession.                                                         *)

Request == [for: {"nothing", "refresh", "poll", "sign-in", "lock"},
            at: {"start", "bootstrap", "me", "setup", "login", "lock"},
            answer: {"none", "ok", "new", "denied", "lost"}, older: BOOLEAN]

\* The parts of the type invariant, by the variables that change together.
RequestsTyped == request \in [Requests -> Request]
FlagsTyped ==
  /\ setUp \in BOOLEAN /\ live \in BOOLEAN /\ authed \in BOOLEAN
  /\ initialized \in {"unknown", "yes", "no"}
TimersTyped ==
  /\ idleFor \in 0..(IdleLimit + 1) /\ idleTimer \in Stopped..IdleLimit /\ pollDue \in 0..PollEvery
  /\ deeds \in 0..MaxDeeds /\ lost \in 0..MaxLost

LEMMA TypeParts ==
  /\ SessionTypeOK <=> RequestsTyped /\ FlagsTyped /\ TimersTyped
  /\ SessionTypeOK' <=> RequestsTyped' /\ FlagsTyped' /\ TimersTyped'
BY DEF SessionTypeOK, RequestsTyped, FlagsTyped, TimersTyped, Request

LEMMA Limits == IdleLimit \in Nat \ {0} /\ PollEvery \in Nat \ {0} /\ MaxDeeds \in Nat /\ MaxLost \in Nat
BY SessionAssumption

LEMMA NewRequests == NoRequest \in Request /\ Refresh \in Request
BY DEF NoRequest, Refresh, Request

\* A page loaded anew has one request, its refresh.
LEMMA LoadedTyped == Loaded \subseteq [Requests -> Request]
BY NewRequests DEF Loaded

\* A request that is sent, goes on, ends or is put aside is a request.
LEMMA RequestSteps ==
  ASSUME RequestsTyped
  PROVE  /\ \A for \in {"poll", "sign-in", "lock"}, place \in {"me", "setup", "login", "lock"} :
              Send(for, place) => RequestsTyped'
         /\ \A r \in Requests : Finish(r) => RequestsTyped'
         /\ \A r \in Requests, place \in {"me", "login"} : Continue(r, place) => RequestsTyped'
         /\ \A q \in [Requests -> Request] : Aged(q) \in [Requests -> Request]
<1>1. ASSUME NEW for \in {"poll", "sign-in", "lock"}, NEW place \in {"me", "setup", "login", "lock"}, Send(for, place)
      PROVE  RequestsTyped'
  <2>1. PICK r \in Requests : request' = [request EXCEPT ![r].for = for, ![r].at = place]
    BY <1>1 DEF Send
  <2>2. [[request[r] EXCEPT !.for = for] EXCEPT !.at = place] \in Request
    BY DEF RequestsTyped, Request
  <2> QED
    BY <2>1, <2>2 DEF RequestsTyped
<1>2. ASSUME NEW r \in Requests, Finish(r) PROVE RequestsTyped'
  BY <1>2, NewRequests DEF Finish, RequestsTyped
<1>3. ASSUME NEW r \in Requests, NEW place \in {"me", "login"}, Continue(r, place) PROVE RequestsTyped'
  <2>1. [[request[r] EXCEPT !.at = place] EXCEPT !.answer = "none"] \in Request
    BY DEF RequestsTyped, Request
  <2> QED
    BY <1>3, <2>1 DEF RequestsTyped, Continue
<1>4. ASSUME NEW q \in [Requests -> Request] PROVE Aged(q) \in [Requests -> Request]
  <2>1. \A r \in Requests : [q[r] EXCEPT !.older = TRUE] \in Request
    BY DEF Request
  <2> QED
    BY <2>1 DEF Aged
<1> QED
  BY <1>1, <1>2, <1>3, <1>4

\* What a request's answer makes of the page.
LEMMA Shown ==
  ASSUME SessionTypeOK, ShowVault \/ ShowSignIn \/ UNCHANGED <<authed, idleTimer>>
  PROVE  authed' \in BOOLEAN /\ idleTimer' \in Stopped..IdleLimit
<1>1. idleTimer' \in Stopped..IdleLimit
  BY TypeParts, Limits DEF ShowVault, ShowSignIn, TimersTyped, Stopped
<1>2. authed' \in BOOLEAN
  BY TypeParts DEF ShowVault, ShowSignIn, FlagsTyped
<1> QED
  BY <1>1, <1>2

\* The server's handlers, and requests that fail.
LEMMA ServedTyped ==
  ASSUME SessionTypeOK, NEW r \in Requests,
         ServeGuarded(r) \/ ServeBootstrap(r) \/ ServeSetup(r) \/ ServeLogin(r) \/ Lose(r)
  PROVE  SessionTypeOK'
<1> USE TypeParts
<1>1. RequestsTyped'
  <2>1. PICK answer \in {"ok", "new", "denied", "lost"} : request' = [request EXCEPT ![r].answer = answer]
    BY DEF ServeGuarded, Guarded, ServeBootstrap, ServeSetup, ServeLogin, Lose
  <2>2. [request[r] EXCEPT !.answer = answer] \in Request
    BY DEF RequestsTyped, Request
  <2> QED
    BY <2>1, <2>2 DEF RequestsTyped
<1>2. FlagsTyped'
  <2>1. UNCHANGED pageState
    BY DEF ServeGuarded, Guarded, ServeBootstrap, ServeSetup, ServeLogin, Lose
  <2>2. live' \in BOOLEAN
    BY DEF ServeGuarded, Guarded, ServeBootstrap, ServeSetup, ServeLogin, Lose, FlagsTyped
  <2>3. setUp' \in BOOLEAN
    BY DEF ServeGuarded, Guarded, ServeBootstrap, ServeSetup, ServeLogin, Lose, FlagsTyped
  <2> QED
    BY <2>1, <2>2, <2>3 DEF FlagsTyped, pageState
<1>3. TimersTyped'
  <2>1. UNCHANGED <<pageState, deeds>>
    BY DEF ServeGuarded, Guarded, ServeBootstrap, ServeSetup, ServeLogin, Lose
  <2>2. idleFor' = idleFor \/ idleFor' = 0
    BY DEF ServeGuarded, Guarded, ServeBootstrap, ServeSetup, ServeLogin, Lose
  <2>3. lost' = lost \/ (lost < MaxLost /\ lost' = lost + 1)
    BY DEF ServeGuarded, Guarded, ServeBootstrap, ServeSetup, ServeLogin, Lose
  <2> QED
    BY <2>1, <2>2, <2>3, Limits DEF TimersTyped, pageState
<1> QED
  BY <1>1, <1>2, <1>3

\* What follows an answer.
LEMMA AnsweredTyped ==
  ASSUME SessionTypeOK, NEW r \in Requests,
         \/ BootstrapAnswered(r) \/ refresh(r) \/ PollAnswered(r) \/ Locked(r)
         \/ SetupAnswered(r) \/ onAuthed(r) \/ SignInFails(r)
  PROVE  SessionTypeOK'
<1> USE TypeParts, RequestSteps
<1>1. RequestsTyped'
  <2>1. CASE BootstrapAnswered(r) \/ PollAnswered(r) \/ SetupAnswered(r) \/ SignInFails(r)
    BY <2>1 DEF BootstrapAnswered, PollAnswered, SetupAnswered, SignInFails
  <2>2. CASE refresh(r) \/ onAuthed(r)
    <3>1. [request EXCEPT ![r] = NoRequest] \in [Requests -> Request]
      BY NewRequests DEF RequestsTyped
    <3>2. Finish(r) \/ request' = Aged([request EXCEPT ![r] = NoRequest])
      BY <2>2 DEF refresh, onAuthed
    <3>3. CASE request' = Aged([request EXCEPT ![r] = NoRequest])
      BY <3>1, <3>3 DEF RequestsTyped
    <3> QED
      BY <3>2, <3>3
  <2>3. CASE Locked(r)
    BY <2>3, NewRequests DEF Locked, RequestsTyped
  <2> QED
    BY <2>1, <2>2, <2>3
<1>2. UNCHANGED <<setUp, live, idleFor, pollDue, deeds, lost>>
  BY DEF BootstrapAnswered, refresh, PollAnswered, Locked, SetupAnswered, onAuthed, SignInFails, pageState
<1>3. ShowVault \/ ShowSignIn \/ UNCHANGED <<authed, idleTimer>>
  BY DEF BootstrapAnswered, refresh, PollAnswered, Locked, SetupAnswered, onAuthed, SignInFails, pageState
<1>4. initialized' \in {"unknown", "yes", "no"}
  BY DEF BootstrapAnswered, refresh, PollAnswered, Locked, SetupAnswered, onAuthed, SignInFails, pageState, FlagsTyped
<1>5. authed' \in BOOLEAN /\ idleTimer' \in Stopped..IdleLimit
  BY <1>3, Shown
<1>6. FlagsTyped'
  BY <1>2, <1>4, <1>5 DEF FlagsTyped
<1>7. TimersTyped'
  BY <1>2, <1>5 DEF TimersTyped
<1> QED
  BY <1>1, <1>6, <1>7

\* The operator, the timers and time.
LEMMA OperatorTyped ==
  ASSUME SessionTypeOK, SubmitSignIn \/ Move \/ PressLock \/ Reload \/ SendPollOfMe \/ IdleFires \/ Passes
  PROVE  SessionTypeOK'
<1> USE TypeParts
<1>1. RequestsTyped'
  <2>1. CASE SubmitSignIn \/ PressLock \/ SendPollOfMe \/ IdleFires
    BY <2>1, RequestSteps DEF SubmitSignIn, PressLock, SendPollOfMe, IdleFires
  <2>2. CASE Reload
    BY <2>2, LoadedTyped DEF Reload, RequestsTyped
  <2>3. CASE Move \/ Passes
    BY <2>3 DEF Move, Passes, RequestsTyped
  <2> QED
    BY <2>1, <2>2, <2>3
<1>2. FlagsTyped'
  <2>1. UNCHANGED <<setUp, live>>
    BY DEF SubmitSignIn, Move, PressLock, Reload, SendPollOfMe, IdleFires, Passes
  <2>2. (initialized' = initialized \/ initialized' = "unknown") /\ (authed' = authed \/ authed' = FALSE)
    BY DEF SubmitSignIn, Move, PressLock, Reload, SendPollOfMe, IdleFires, Passes, pageState
  <2> QED
    BY <2>1, <2>2 DEF FlagsTyped
<1>3. TimersTyped'
  <2>1. CASE Passes
    <3>1. /\ pollDue > 0 /\ pollDue' = pollDue - 1
          /\ idleTimer' = IF idleTimer > 0 THEN idleTimer - 1 ELSE idleTimer
          /\ idleFor' = idleFor \/ (idleFor <= IdleLimit /\ idleFor' = idleFor + 1)
          /\ UNCHANGED <<deeds, lost>>
      BY <2>1 DEF Passes
    <3> QED
      BY <3>1, Limits DEF TimersTyped, Stopped
  <2>2. ASSUME ~Passes PROVE TimersTyped'
    <3>1. /\ pollDue' = pollDue \/ pollDue' = PollEvery
          /\ idleTimer' \in {idleTimer, IdleLimit, Stopped}
          /\ UNCHANGED <<idleFor, lost>>
          /\ deeds' = deeds \/ (deeds < MaxDeeds /\ deeds' = deeds + 1)
      BY <2>2 DEF SubmitSignIn, Move, PressLock, Reload, SendPollOfMe, IdleFires, Deed, pageState
    <3> QED
      BY <3>1, Limits DEF TimersTyped, Stopped
  <2> QED
    BY <2>1, <2>2
<1> QED
  BY <1>1, <1>2, <1>3

\* The page as it is loaded, and where another part runs.
LEMMA SessionStarts == ASSUME SessionInit \/ SessionOff PROVE SessionTypeOK
<1>1. RequestsTyped
  <2>1. [NoRequest EXCEPT !.answer = "lost"] \in Request
    BY DEF NoRequest, Request
  <2> QED
    BY <2>1, LoadedTyped DEF SessionInit, SessionOff, RequestsTyped
<1>2. FlagsTyped
  BY DEF SessionInit, SessionOff, FlagsTyped
<1>3. TimersTyped
  <2>1. CASE SessionInit
    BY <2>1, Limits DEF SessionInit, TimersTyped, Stopped
  <2>2. CASE SessionOff
    <3>1. /\ idleFor = 0 /\ idleTimer = Stopped /\ pollDue = 0 /\ deeds = 0 /\ lost = 0
      BY <2>2 DEF SessionOff
    <3> QED
      BY <3>1, Limits DEF TimersTyped, Stopped
  <2> QED
    BY <2>1, <2>2
<1> QED
  BY <1>1, <1>2, <1>3, TypeParts

LEMMA SessionStep == ASSUME SessionTypeOK, [SessionNext]_sessionVars PROVE SessionTypeOK'
<1>1. CASE UNCHANGED sessionVars
  <2>1. RequestsTyped'
    BY <1>1, TypeParts DEF sessionVars, RequestsTyped
  <2>2. FlagsTyped'
    BY <1>1, TypeParts DEF sessionVars, pageState, FlagsTyped
  <2>3. TimersTyped'
    BY <1>1, TypeParts DEF sessionVars, pageState, TimersTyped
  <2> QED
    BY <2>1, <2>2, <2>3, TypeParts
<1>2. CASE SessionNext
  BY <1>2, OperatorTyped, ServedTyped, AnsweredTyped DEF SessionNext, Requested
<1> QED
  BY <1>1, <1>2

\* The signed-in state of the page keeps its types.
THEOREM SessionTypeCorrect == SessionSpec => []SessionTypeOK
<1>1. SessionInit => SessionTypeOK
  BY SessionStarts
<1> QED
  BY <1>1, SessionStep, PTL DEF SessionSpec

(***************************************************************************)
(* A refresh takes any failure for a session that is gone.  It is sent     *)
(* only while the sign-in form is shown, so that while the vault is, the   *)
(* refreshes under way are older than it.                                  *)
(***************************************************************************)

OlderInv == authed => \A r \in Requests : request[r].for = "refresh" => request[r].older

\* What keeps the vault on the screen and sends or ages no refresh keeps it.
LEMMA OlderSame ==
  ASSUME OlderInv, authed' => authed,
         \A r \in Requests : request'[r].for = "refresh" =>
           request[r].for = "refresh" /\ request'[r].older = request[r].older
  PROVE  OlderInv'
BY DEF OlderInv

LEMMA OlderRequested == ASSUME SessionTypeOK, OlderInv, NEW r \in Requests, Requested(r) \/ Lose(r) PROVE OlderInv'
<1> USE TypeParts DEF RequestsTyped
<1>1. CASE ServeGuarded(r) \/ ServeBootstrap(r) \/ ServeSetup(r) \/ ServeLogin(r) \/ Lose(r)
  <2>1. UNCHANGED authed
    BY <1>1 DEF ServeGuarded, Guarded, ServeBootstrap, ServeSetup, ServeLogin, Lose, pageState
  <2>2. PICK answer : request' = [request EXCEPT ![r].answer = answer]
    BY <1>1 DEF ServeGuarded, Guarded, ServeBootstrap, ServeSetup, ServeLogin, Lose
  <2>3. \A s \in Requests : request'[s].for = request[s].for /\ request'[s].older = request[s].older
    BY <2>2 DEF Request
  <2> QED
    BY <2>1, <2>3, OlderSame
<1>2. CASE BootstrapAnswered(r) \/ SetupAnswered(r)
  <2>1. UNCHANGED authed
    BY <1>2 DEF BootstrapAnswered, SetupAnswered, pageState
  <2>2. PICK place : Continue(r, place)
    BY <1>2 DEF BootstrapAnswered, SetupAnswered
  <2>3. \A s \in Requests : request'[s].for = request[s].for /\ request'[s].older = request[s].older
    BY <2>2 DEF Continue, Request
  <2> QED
    BY <2>1, <2>3, OlderSame
<1>3. CASE PollAnswered(r) \/ SignInFails(r)
  <2>1. authed' => authed
    BY <1>3 DEF PollAnswered, SignInFails, ShowSignIn, pageState
  <2>2. Finish(r)
    BY <1>3 DEF PollAnswered, SignInFails
  <2>3. \A s \in Requests : request'[s] = request[s] \/ request'[s].for # "refresh"
    BY <2>2 DEF Finish, NoRequest
  <2> QED
    BY <2>1, <2>3, OlderSame
<1>4. CASE refresh(r) \/ onAuthed(r)
  <2>1. ~authed' \/ request' = Aged([request EXCEPT ![r] = NoRequest])
    BY <1>4 DEF refresh, onAuthed, ShowSignIn
  <2>2. CASE request' = Aged([request EXCEPT ![r] = NoRequest])
    <3> DEFINE q == [request EXCEPT ![r] = NoRequest]
    <3>1. q \in [Requests -> Request]
      BY NewRequests
    <3> HIDE DEF q
    <3>2. \A s \in Requests : Aged(q)[s].for = "refresh" => Aged(q)[s].older
      BY <3>1 DEF Aged, NoRequest, Request
    <3> QED
      BY <2>2, <3>2 DEF OlderInv, q
  <2> QED
    BY <2>1, <2>2 DEF OlderInv
<1>5. CASE Locked(r)
  BY <1>5 DEF Locked, ShowSignIn, OlderInv
<1> QED
  BY <1>1, <1>2, <1>3, <1>4, <1>5 DEF Requested

LEMMA OlderOperator ==
  ASSUME SessionTypeOK, OlderInv,
         SubmitSignIn \/ Move \/ PressLock \/ Reload \/ SendPollOfMe \/ IdleFires \/ Passes
  PROVE  OlderInv'
<1> USE TypeParts DEF RequestsTyped
<1>1. CASE Reload
  BY <1>1 DEF Reload, OlderInv
<1>2. CASE Move \/ Passes
  BY <1>2 DEF Move, Passes, OlderInv
<1>3. CASE SubmitSignIn \/ PressLock \/ SendPollOfMe \/ IdleFires
  <2>1. UNCHANGED authed
    BY <1>3 DEF SubmitSignIn, PressLock, SendPollOfMe, IdleFires, pageState
  <2>2. PICK for \in {"sign-in", "lock", "poll"}, place \in {"setup", "login", "lock", "me"} : Send(for, place)
    BY <1>3 DEF SubmitSignIn, PressLock, SendPollOfMe, IdleFires
  <2>3. PICK r \in Requests : request' = [request EXCEPT ![r].for = for, ![r].at = place]
    BY <2>2 DEF Send
  <2>4. \A s \in Requests : request'[s] = request[s] \/ request'[s].for # "refresh"
    BY <2>3 DEF Request
  <2> QED
    BY <2>1, <2>4, OlderSame
<1> QED
  BY <1>1, <1>2, <1>3

\* The operator is sent to the sign-in form only by a lock, by a refusal, or by
\* a request from before the vault was shown.
THEOREM NobodySentAwayForNothing == SessionSpec => SentAwayForAReason
<1>1. SessionInit => OlderInv
  BY DEF SessionInit, OlderInv
<1>2. SessionTypeOK /\ OlderInv /\ [SessionNext]_sessionVars => OlderInv'
  <2> SUFFICES ASSUME SessionTypeOK, OlderInv, [SessionNext]_sessionVars PROVE OlderInv'
    OBVIOUS
  <2>1. CASE UNCHANGED sessionVars
    BY <2>1 DEF sessionVars, pageState, OlderInv
  <2> QED
    BY <2>1, OlderOperator, OlderRequested DEF SessionNext
<1>3. /\ SessionTypeOK /\ OlderInv /\ [SessionNext]_sessionVars
      => [authed /\ ~authed' =>
            \/ initialized' = "unknown"
            \/ \E r \in Requests :
                 /\ request'[r] # request[r]
                 /\ request[r].at = "lock" \/ request[r].answer = "denied" \/ request[r].older]_sessionVars
  <2> SUFFICES ASSUME SessionTypeOK, OlderInv, SessionNext, authed, ~authed'
               PROVE  \/ initialized' = "unknown"
                      \/ \E r \in Requests :
                           /\ request'[r] # request[r]
                           /\ request[r].at = "lock" \/ request[r].answer = "denied" \/ request[r].older
    OBVIOUS
  <2> USE TypeParts DEF RequestsTyped
  <2>1. CASE Reload
    BY <2>1 DEF Reload
  <2>2. SubmitSignIn \/ Move \/ PressLock \/ SendPollOfMe \/ IdleFires \/ Passes => authed' = authed
    BY DEF SubmitSignIn, Move, PressLock, SendPollOfMe, IdleFires, Passes, pageState
  <2>3. ASSUME NEW r \in Requests, Requested(r) \/ Lose(r)
        PROVE  /\ request'[r] # request[r]
               /\ request[r].at = "lock" \/ request[r].answer = "denied" \/ request[r].older
    <3>1. refresh(r) \/ PollAnswered(r) \/ Locked(r)
      BY <2>3 DEF Requested, Lose, ServeGuarded, Guarded, ServeBootstrap, ServeSetup, ServeLogin,
                  BootstrapAnswered, SetupAnswered, onAuthed, ShowVault, SignInFails, pageState
    <3>2. CASE refresh(r)
      <4>1. request'[r] = NoRequest /\ request[r].for = "refresh"
        BY <3>2 DEF refresh, ShowVault, Finish
      <4> QED
        BY <4>1 DEF OlderInv, NoRequest
    <3>3. CASE PollAnswered(r)
      <4>1. request'[r] = NoRequest /\ request[r].for = "poll" /\ request[r].answer = "denied"
        BY <3>3 DEF PollAnswered, Finish
      <4> QED
        BY <4>1 DEF NoRequest
    <3>4. CASE Locked(r)
      BY <3>4 DEF Locked, Came, Refresh, NoRequest
    <3> QED
      BY <3>1, <3>2, <3>3, <3>4
  <2> QED
    BY <2>1, <2>2, <2>3 DEF SessionNext
<1> QED
  BY <1>1, <1>2, <1>3, SessionTypeCorrect, PTL DEF SessionSpec, SentAwayForAReason

-----------------------------------------------------------------------------
(* NoteEditor.                                                             *)
Stages == {"idle", "call", "answer"}
SaveType == [text: Texts \cup {None}, stage: Stages]

\* A save under way carries a text.
TypeInv == EditorTypeOK /\ \A s \in Saves : save[s].stage # "idle" => save[s].text \in Texts

LEMMA TypeStep == ASSUME TypeInv, [EditorNext]_editorVars PROVE TypeInv'
<1> USE DEF EditorTypeOK, TypeInv
<1>1. CASE Type \/ ApplyTemplate
  BY <1>1, EditorAssumption DEF Type, ApplyTemplate, Edit, Saving
<1>2. CASE Render \/ SyncSource
  BY <1>2 DEF Render, SyncSource, history
<1>3. CASE SwitchMode
  BY <1>3 DEF SwitchMode, history
<1>4. CASE Save
  BY <1>4 DEF Save, work, Saving
<1>5. CASE HandleCancel
  BY <1>5 DEF HandleCancel, work
<1>6. ASSUME NEW s \in Saves, Store(s) \/ Answered(s) \/ SaveFails(s)
      PROVE  TypeInv'
  <2>1. save \in [Saves -> SaveType]
    BY DEF SaveType, Stages
  <2>2. /\ save' \in [Saves -> SaveType] /\ storedText' \in Texts
        /\ \A r \in Saves : save'[r].stage # "idle" => save'[r].text \in Texts
    BY <1>6, <2>1 DEF Store, Answered, SaveFails, NoSave, SaveType, Stages
  <2>3. UNCHANGED <<work, edits, history>> /\ open' \in BOOLEAN
    BY <1>6 DEF Store, Answered, SaveFails
  <2> QED
    BY <2>2, <2>3 DEF work, history, SaveType, Stages
<1>7. CASE UNCHANGED editorVars
  BY <1>7 DEF editorVars, work, history
<1> QED
  BY <1>1, <1>2, <1>3, <1>4, <1>5, <1>6, <1>7 DEF EditorNext

LEMMA EditorStarts == ASSUME EditorInit \/ EditorOff PROVE TypeInv
<1>1. save \in [Saves -> SaveType] /\ \A s \in Saves : save[s].stage = "idle"
  BY DEF EditorInit, EditorOff, NoSave, SaveType, Stages
<1>2. /\ {source, queued, effect} \subseteq Texts \cup {None}
      /\ {body, storedText, typed} \subseteq Texts
      /\ mode = "edit" /\ edits = 0
  BY EditorAssumption DEF EditorInit, EditorOff
<1>3. {open, raced, late} \subseteq BOOLEAN
  BY Zenon DEF EditorInit, EditorOff
<1>4. edits \in 0..MaxEdits
  BY <1>2, EditorAssumption
<1> QED
  BY <1>1, <1>2, <1>3, <1>4 DEF TypeInv, EditorTypeOK, SaveType, Stages

LEMMA TypeStays == EditorSpec => []TypeInv
<1>1. EditorInit => TypeInv
  BY EditorStarts
<1> QED
  BY <1>1, TypeStep, PTL DEF EditorSpec

\* The two copies of the text, the saves and the flags keep their types.
THEOREM EditorTypeCorrect == EditorSpec => []EditorTypeOK
<1>1. TypeInv => EditorTypeOK
  BY DEF TypeInv
<1> QED
  BY <1>1, TypeStays, PTL

(***************************************************************************)
(* The copies.  What was given last is the body set last.  The view and    *)
(* that body differ only while an effect is pending, which will write the  *)
(* body, or after a template was applied: what was typed came from the     *)
(* view and is in it.  So an effect that still has to change the view      *)
(* carries the template, and so does the body set meanwhile, if any is.    *)
(***************************************************************************)
CopiesAgree ==
  /\ typed = IF queued = None THEN body ELSE queued
  /\ queued \in {None, source, Template}
  /\ effect = None => source \in {body, queued, None}
  /\ effect # None => effect = body /\ (source = effect \/ effect = Template)
                      /\ queued \in {None, Template}
CopiesInv == open /\ ~raced => CopiesAgree

LEMMA CopiesStep == ASSUME TypeInv, CopiesInv, [EditorNext]_editorVars PROVE CopiesInv'
<1> USE DEF CopiesInv, CopiesAgree
<1> None \notin Texts /\ Template \in Texts /\ body \in Texts
  BY EditorAssumption DEF TypeInv, EditorTypeOK
<1>1. CASE Type
  BY <1>1 DEF Type, Edit
<1>2. CASE ApplyTemplate
  BY <1>2 DEF ApplyTemplate, Edit
<1>3. CASE Render
  BY <1>3 DEF Render, history
<1>4. CASE SyncSource
  BY <1>4 DEF SyncSource, history
<1>5. CASE SwitchMode
  BY <1>5 DEF SwitchMode, history
<1>6. CASE HandleCancel
  BY <1>6 DEF HandleCancel
<1>7. CASE Save \/ UNCHANGED editorVars
  BY <1>7 DEF Save, editorVars, work, history
<1>8. ASSUME NEW s \in Saves, Store(s) \/ Answered(s) \/ SaveFails(s)
      PROVE  CopiesInv'
  BY <1>8 DEF Store, Answered, SaveFails, work, history
<1> QED
  BY <1>1, <1>2, <1>3, <1>4, <1>5, <1>6, <1>7, <1>8 DEF EditorNext

LEMMA CopiesStay == EditorSpec => []CopiesInv
<1>1. EditorInit => CopiesInv
  BY EditorAssumption DEF EditorInit, CopiesInv, CopiesAgree
<1> QED
  BY <1>1, CopiesStep, TypeStays, PTL DEF EditorSpec

\* Unless an edit met a pending effect, or a template an edit not rendered, the
\* view and the body come to hold what the user gave last.
THEOREM EditsAlwaysSurvive == EditorSpec => []EditsSurvive
<1>1. CopiesInv => EditsSurvive
  BY DEF CopiesInv, CopiesAgree, EditsSurvive, Quiet
<1> QED
  BY <1>1, CopiesStay, PTL

(***************************************************************************)
(* Saving.  Unless something was late, every save under way carries what   *)
(* was typed last, and one that has reached the table has left it there.   *)
(***************************************************************************)
SavesTyped ==
  /\ \A s \in Saves : /\ save[s] # NoSave => save[s].text = typed
                      /\ save[s].stage = "answer" => storedText = typed
  /\ ~open => storedText = typed
SavesInv == ~raced /\ ~late => SavesTyped

LEMMA SavesStep == ASSUME TypeInv, CopiesInv, SavesInv, [EditorNext]_editorVars PROVE SavesInv'
<1> USE DEF SavesInv, SavesTyped
<1> save \in [Saves -> SaveType]
  BY DEF TypeInv, EditorTypeOK, SaveType, Stages
<1>1. CASE Type \/ ApplyTemplate
  <2>0. PICK text \in Texts : Edit(text)
    BY Zenon, <1>1, EditorAssumption DEF Type, ApplyTemplate
  <2>1. /\ open' /\ UNCHANGED save
        /\ late' = (late \/ Saving)
    <3>1. open' /\ UNCHANGED save
      BY SMT, <2>0 DEF Edit
    <3>2. late' = (late \/ Saving)
      BY Zenon, <2>0 DEF Edit
    <3> QED
      BY <3>1, <3>2
  <2>2. ~late' => \A s \in Saves : save[s] = NoSave
    BY Zenon, <2>1 DEF Saving
  <2> QED
    BY <2>1, <2>2 DEF NoSave
<1>2. CASE Render \/ SyncSource \/ SwitchMode
  BY <1>2 DEF Render, SyncSource, SwitchMode, history
<1>3. CASE Save
  <2>1. PICK s \in Saves : save[s] = NoSave /\ save' = [save EXCEPT ![s] = [text |-> body, stage |-> "call"]]
    BY <1>3 DEF Save
  <2>2. UNCHANGED <<storedText, open, typed, raced>> /\ open
    BY <1>3 DEF Save
  <2>3. ASSUME ~raced, ~late' PROVE ~late /\ body = typed
    BY <1>3, <2>2, <2>3 DEF Save, CopiesInv, CopiesAgree
  <2> QED
    BY <2>1, <2>2, <2>3
<1>4. CASE HandleCancel
  BY <1>4 DEF HandleCancel
<1>5. ASSUME NEW s \in Saves, Store(s)
      PROVE  SavesInv'
  BY <1>5 DEF Store, history, SaveType, NoSave
<1>6. ASSUME NEW s \in Saves, Answered(s) \/ SaveFails(s)
      PROVE  SavesInv'
  BY <1>6 DEF Answered, SaveFails, history, NoSave
<1>7. CASE UNCHANGED editorVars
  BY <1>7 DEF editorVars, history
<1> QED
  BY <1>1, <1>2, <1>3, <1>4, <1>5, <1>6, <1>7 DEF EditorNext

\* A save that closed the editor has stored what the user gave last, unless
\* a part of it was not rendered, or typed or saved again, meanwhile.
THEOREM SavesStoreWhatWasTyped == EditorSpec => []SavedIsTyped
<1>1. EditorInit => SavesInv
  BY DEF EditorInit, SavesInv, SavesTyped, NoSave
<1>2. SavesInv => SavedIsTyped
  BY DEF SavesInv, SavesTyped, SavedIsTyped
<1> QED
  BY <1>1, <1>2, SavesStep, TypeStays, CopiesStay, PTL DEF EditorSpec

-----------------------------------------------------------------------------
(* NoteMarkdown.                                                           *)
LineNumbers == 1..MaxLines
BlockForms ==
  [kind: {"code", "table", "heading", "task", "bullet", "ordered", "quote", "rule", "text"},
   lines: Seq(LineNumbers), spans: SUBSET (LineNumbers \X {"wiki", "empty", "tag"})]

\* Of the lines of a text up to r: which one may stand in a block of a kind,
\* what a block shows of them, and what the blocks of a view show.
Fits(text, n, k) ==
  /\ ~Dropped(text, n) /\ (Enclosed(text, n) <=> k = "code")
  /\ ~Enclosed(text, n) => (k = "table" <=> text[n].table = "row")
Listed(text, ns, k, r) == Ascending(ns) /\ \A n \in ToSet(ns) : n \in 1..r /\ Fits(text, n, k)
ShowsLink(inline, line) ==
  /\ wikiTargets(line) \/ line.link = "noAlias"
  /\ line.within \notin {"code", "bold", IF inline = "rich" THEN "star" ELSE "underscore"}
Linked(inline, text, block) ==
  \A n \in LineNumbers :
    <<n, "wiki">> \in block.spans <=>
      /\ n \in ToSet(block.lines) /\ block.kind # "code" /\ ShowsLink(inline, text[n])
      /\ block.kind = "table" => text[n].link = "plain"
Told(inline, text, block, r) == Listed(text, block.lines, block.kind, r) /\ Linked(inline, text, block)
LinesOf(blocks) == UNION {ToSet(blocks[i].lines) : i \in DOMAIN blocks}
BlocksRead(inline, text, blocks, r) ==
  /\ blocks \in Seq(BlockForms)
  /\ \A i \in DOMAIN blocks : Told(inline, text, blocks[i], r)
  /\ \A i, k \in DOMAIN blocks :
       i < k => \A m \in ToSet(blocks[i].lines), n \in ToSet(blocks[k].lines) : m < n

\* A view that has read the lines up to r holds those it has not shown yet in
\* the code block or the table it is in; they come after the ones it shows.
Pending(view) == ToSet(view.code) \cup ToSet(view.table)
Collected(inline, text, view, r) ==
  /\ view \in View
  /\ (view.inCode \/ view.code = <<>>) /\ (~view.inCode \/ view.table = <<>>)
  /\ Listed(text, view.code, "code", r) /\ Listed(text, view.table, "table", r)
  /\ BlocksRead(inline, text, view.blocks, r)
  /\ \A m \in LinesOf(view.blocks), n \in Pending(view) : m < n
Complete(text, view, r) ==
  \A n \in 1..r : ~Dropped(text, n) => n \in LinesOf(view.blocks) \cup Pending(view)
ViewRead(inline, text, view, r) ==
  Collected(inline, text, view, r) /\ Complete(text, view, r) /\ (view.inCode <=> Enclosed(text, r + 1))

Empty(ns) == ns = <<>>

LEMMA Limit == MaxLines \in Nat /\ Lines \subseteq LineForms
BY LinesAssumption

\* A fence turns the parity of the fences above.
LEMMA Parity ==
  ASSUME NEW text, NEW n \in Nat \ {0}
  PROVE  Enclosed(text, n + 1) <=> IF Toggles(text[n]) THEN ~Enclosed(text, n) ELSE Enclosed(text, n)
<1> DEFINE Above(m) == {k \in 1..(m - 1) : Toggles(text[k])}
           few == Above(n)
           more == Above(n + 1)
<1>1. IsFiniteSet(1..(n - 1)) /\ few \subseteq 1..(n - 1)
  BY IntervalFinite
<1>2. IsFiniteSet(few)
  <2> HIDE DEF few
  <2> QED
    BY <1>1, FS_Subset
<1>3. more = IF Toggles(text[n]) THEN few \cup {n} ELSE few
  <2>1. 1..((n + 1) - 1) = 1..(n - 1) \cup {n}
    OBVIOUS
  <2> QED
    BY <2>1
<1>4. n \notin few
  OBVIOUS
<1>5. Enclosed(text, n) <=> Cardinality(few) % 2 = 1
  BY DEF Enclosed
<1>6. Enclosed(text, n + 1) <=> Cardinality(more) % 2 = 1
  BY DEF Enclosed
<1> HIDE DEF few, more
<1>7. Cardinality(few) \in Nat
  BY <1>2, FS_CardinalityType
<1>8. CASE Toggles(text[n])
  <2>1. Cardinality(more) = Cardinality(few) + 1
    BY <1>2, <1>3, <1>4, <1>8, FS_AddElement
  <2>2. \A c0 \in Nat : (c0 + 1) % 2 = 1 <=> ~(c0 % 2 = 1)
    OBVIOUS
  <2> QED
    BY <1>5, <1>6, <1>7, <1>8, <2>1, <2>2
<1>9. CASE ~Toggles(text[n])
  BY <1>3, <1>5, <1>6, <1>9
<1> QED
  BY <1>8, <1>9

\* What a text says of its lines a longer one says too.
LEMMA Grown ==
  ASSUME NEW text \in Seq(Lines), NEW line \in Lines
  PROVE  LET more == Append(text, line)
         IN /\ more \in Seq(Lines) /\ Len(more) = Len(text) + 1 /\ more[Len(more)] = line
            /\ \A n \in 1..Len(text) : more[n] = text[n]
            /\ \A n \in 1..(Len(text) + 1) : Enclosed(more, n) <=> Enclosed(text, n)
            /\ \A n \in 1..Len(text) : Dropped(more, n) <=> Dropped(text, n)
<1> DEFINE more == Append(text, line)
<1>1. more \in Seq(Lines) /\ Len(more) = Len(text) + 1 /\ more[Len(more)] = line
  OBVIOUS
<1>2. \A n \in 1..Len(text) : more[n] = text[n]
  OBVIOUS
<1>3. ASSUME NEW n \in 1..(Len(text) + 1) PROVE Enclosed(more, n) <=> Enclosed(text, n)
  <2>1. \A k \in 1..(n - 1) : k \in 1..Len(text)
    OBVIOUS
  <2> HIDE DEF more
  <2>2. {k \in 1..(n - 1) : Toggles(more[k])} = {k \in 1..(n - 1) : Toggles(text[k])}
    BY <1>2, <2>1
  <2> QED
    BY <2>2 DEF Enclosed
<1>4. \A n \in 1..Len(text) : n \in 1..(Len(text) + 1)
  OBVIOUS
<1> HIDE DEF more
<1>5. \A n \in 1..Len(text) : Dropped(more, n) <=> Dropped(text, n)
  BY <1>2, <1>3, <1>4 DEF Dropped
<1> QED
  BY <1>1, <1>2, <1>3, <1>5 DEF more

LEMMA GrownRead ==
  ASSUME NEW text \in Seq(Lines), NEW line \in Lines, NEW inline, NEW view, ViewRead(inline, text, view, Len(text))
  PROVE  ViewRead(inline, Append(text, line), view, Len(text))
<1> DEFINE more == Append(text, line)
           r == Len(text)
<1>1. /\ \A n \in 1..r : more[n] = text[n]
      /\ \A n \in 1..(r + 1) : Enclosed(more, n) <=> Enclosed(text, n)
      /\ \A n \in 1..r : Dropped(more, n) <=> Dropped(text, n)
      /\ r \in Nat
  BY Grown
<1> HIDE DEF more, r
<1>2. r + 1 \in 1..(r + 1) /\ \A n \in 1..r : n \in 1..(r + 1)
  BY <1>1
<1>3. \A n \in 1..r : \A k : Fits(text, n, k) <=> Fits(more, n, k)
  BY <1>1, <1>2 DEF Fits
<1>4. \A ns, k : Listed(text, ns, k, r) => Listed(more, ns, k, r)
  BY <1>3 DEF Listed
<1>5. ASSUME NEW block, Told(inline, text, block, r) PROVE Told(inline, more, block, r)
  <2>1. Listed(more, block.lines, block.kind, r) /\ \A n \in ToSet(block.lines) : more[n] = text[n]
    BY <1>1, <1>4, <1>5 DEF Told, Listed
  <2>2. Linked(inline, more, block)
    BY <1>5, <2>1 DEF Told, Linked, ShowsLink, wikiTargets
  <2> QED
    BY <2>1, <2>2 DEF Told
<1>6. BlocksRead(inline, text, view.blocks, r) => BlocksRead(inline, more, view.blocks, r)
  BY <1>5 DEF BlocksRead
<1>7. ViewRead(inline, text, view, r)
  BY DEF r
<1>8. Collected(inline, more, view, r)
  BY <1>4, <1>6, <1>7 DEF ViewRead, Collected
<1>9. Complete(more, view, r)
  BY <1>1, <1>7 DEF ViewRead, Complete
<1>10. view.inCode <=> Enclosed(more, r + 1)
  BY <1>1, <1>2, <1>7 DEF ViewRead
<1>11. ViewRead(inline, more, view, r)
  BY <1>8, <1>9, <1>10 DEF ViewRead
<1> QED
  BY <1>11 DEF more, r

\* what a sequence holds once one more is appended
LEMMA OneAppended ==
  ASSUME NEW S, NEW s \in Seq(S), NEW e \in S
  PROVE  /\ Append(s, e) \in Seq(S) /\ Append(s, e) # <<>>
         /\ ToSet(Append(s, e)) = ToSet(s) \cup {e}
<1> DEFINE more == Append(s, e)
           N == Len(s)
<1>1. /\ N \in Nat /\ DOMAIN s = 1..N /\ DOMAIN more = 1..(N + 1) /\ more[N + 1] = e
      /\ \A i \in 1..N : more[i] = s[i]
  OBVIOUS
<1>2. more \in Seq(S) /\ more # <<>>
  BY AppendProperties
<1> HIDE DEF more, N
<1>3. ToSet(more) = ToSet(s) \cup {e}
  BY <1>1 DEF ToSet
<1> QED
  BY <1>2, <1>3 DEF more

\* What is said of the lines up to r holds of those up to r + 1.
LEMMA Widened ==
  ASSUME NEW text, NEW inline, NEW view, NEW r \in Nat, Collected(inline, text, view, r)
  PROVE  Collected(inline, text, view, r + 1)
<1>1. \A n \in 1..r : n \in 1..(r + 1)
  OBVIOUS
<1>2. \A ns, k : Listed(text, ns, k, r) => Listed(text, ns, k, r + 1)
  BY <1>1 DEF Listed
<1>3. \A block : Told(inline, text, block, r) => Told(inline, text, block, r + 1)
  BY <1>2 DEF Told
<1>4. BlocksRead(inline, text, view.blocks, r) => BlocksRead(inline, text, view.blocks, r + 1)
  BY <1>3 DEF BlocksRead
<1> QED
  BY <1>2, <1>4 DEF Collected

\* The fields of a view, changed one at a time or with its blocks.
WithInCode(view, x) == [view EXCEPT !.inCode = x]
WithCode(view, x) == [view EXCEPT !.code = x]
WithTable(view, x) == [view EXCEPT !.table = x]
TableShown(view, bs) == [[view EXCEPT !.blocks = bs] EXCEPT !.table = <<>>]
CodeShown(view, bs) == [[view EXCEPT !.blocks = bs] EXCEPT !.code = <<>>]
WithBlocks(view, x) == [view EXCEPT !.blocks = x]

LEMMA ViewForm ==
  LET S == Seq(LineNumbers) IN View = [inCode: BOOLEAN, code: S, table: S, blocks: Seq(BlockForms)]
BY DEF View, BlockForms, LineNumbers

LEMMA ViewFields ==
  ASSUME NEW view \in View
  PROVE  /\ view.inCode \in BOOLEAN /\ view.code \in Seq(LineNumbers) /\ view.table \in Seq(LineNumbers)
         /\ view.blocks \in Seq(BlockForms)
BY ViewForm

LEMMA ViewCoded ==
  ASSUME NEW view \in View, NEW x \in BOOLEAN
  PROVE  LET u == WithInCode(view, x)
         IN u \in View /\ u.inCode = x /\ u.code = view.code /\ u.table = view.table /\ u.blocks = view.blocks
<1> DEFINE S == Seq(LineNumbers)
           T == Seq(BlockForms)
<1>1. View = [inCode: BOOLEAN, code: S, table: S, blocks: T] /\ x \in BOOLEAN
  BY ViewForm
<1> HIDE DEF S, T
<1> QED
  BY <1>1 DEF WithInCode

LEMMA ViewCode ==
  ASSUME NEW view \in View, NEW x \in Seq(LineNumbers)
  PROVE  LET u == WithCode(view, x)
         IN u \in View /\ u.inCode = view.inCode /\ u.code = x /\ u.table = view.table /\ u.blocks = view.blocks
<1> DEFINE S == Seq(LineNumbers)
           T == Seq(BlockForms)
<1>1. View = [inCode: BOOLEAN, code: S, table: S, blocks: T] /\ x \in S
  BY ViewForm
<1> HIDE DEF S, T
<1> QED
  BY <1>1 DEF WithCode

LEMMA ViewTable ==
  ASSUME NEW view \in View, NEW x \in Seq(LineNumbers)
  PROVE  LET u == WithTable(view, x)
         IN u \in View /\ u.inCode = view.inCode /\ u.code = view.code /\ u.table = x /\ u.blocks = view.blocks
<1> DEFINE S == Seq(LineNumbers)
           T == Seq(BlockForms)
<1>1. View = [inCode: BOOLEAN, code: S, table: S, blocks: T] /\ x \in S
  BY ViewForm
<1> HIDE DEF S, T
<1> QED
  BY <1>1 DEF WithTable

LEMMA ViewBlocks ==
  ASSUME NEW view \in View, NEW x \in Seq(BlockForms)
  PROVE  LET u == WithBlocks(view, x)
         IN u \in View /\ u.inCode = view.inCode /\ u.code = view.code /\ u.table = view.table /\ u.blocks = x
<1> DEFINE S == Seq(LineNumbers)
           T == Seq(BlockForms)
<1>1. View = [inCode: BOOLEAN, code: S, table: S, blocks: T] /\ x \in T
  BY ViewForm
<1> HIDE DEF S, T
<1> QED
  BY <1>1 DEF WithBlocks

LEMMA TablePushed ==
  ASSUME NEW view \in View, NEW bs \in Seq(BlockForms)
  PROVE  LET u == TableShown(view, bs)
         IN u \in View /\ u.inCode = view.inCode /\ u.code = view.code /\ u.table = <<>> /\ u.blocks = bs
<1> DEFINE S == Seq(LineNumbers)
           T == Seq(BlockForms)
           none == <<>>
           u == TableShown(view, bs)
<1>1. View = [inCode: BOOLEAN, code: S, table: S, blocks: T] /\ none \in S /\ bs \in T
  BY ViewForm
<1>2. u = [[view EXCEPT !.blocks = bs] EXCEPT !.table = none]
  BY DEF TableShown
<1> HIDE DEF S, T, none, u
<1>3. u \in View /\ u.inCode = view.inCode /\ u.code = view.code /\ u.table = none /\ u.blocks = bs
  BY <1>1, <1>2
<1> QED
  BY <1>3 DEF none, u

LEMMA CodePushed ==
  ASSUME NEW view \in View, NEW bs \in Seq(BlockForms)
  PROVE  LET u == CodeShown(view, bs)
         IN u \in View /\ u.inCode = view.inCode /\ u.table = view.table /\ u.code = <<>> /\ u.blocks = bs
<1> DEFINE S == Seq(LineNumbers)
           T == Seq(BlockForms)
           none == <<>>
           u == CodeShown(view, bs)
<1>1. View = [inCode: BOOLEAN, code: S, table: S, blocks: T] /\ none \in S /\ bs \in T
  BY ViewForm
<1>2. u = [[view EXCEPT !.blocks = bs] EXCEPT !.code = none]
  BY DEF CodeShown
<1> HIDE DEF S, T, none, u
<1>3. u \in View /\ u.inCode = view.inCode /\ u.table = view.table /\ u.code = none /\ u.blocks = bs
  BY <1>1, <1>2
<1> QED
  BY <1>3 DEF none, u

\* A block that comes after the blocks there are.
Precede(blocks, block) == \A m \in LinesOf(blocks), n \in ToSet(block.lines) : m < n
PushKeeps(inline, text, blocks, block, r) ==
  /\ BlocksRead(inline, text, Append(blocks, block), r)
  /\ LinesOf(Append(blocks, block)) = LinesOf(blocks) \cup ToSet(block.lines)
LEMMA PushedBlock ==
  ASSUME NEW inline, NEW text, NEW blocks, NEW block \in BlockForms, NEW r,
         BlocksRead(inline, text, blocks, r), Told(inline, text, block, r), Precede(blocks, block)
  PROVE  PushKeeps(inline, text, blocks, block, r)
<1> DEFINE more == Append(blocks, block)
           N == Len(blocks)
<1>1. /\ blocks \in Seq(BlockForms) /\ N \in Nat /\ DOMAIN blocks = 1..N
      /\ more \in Seq(BlockForms) /\ DOMAIN more = 1..(N + 1)
      /\ \A i \in 1..N : more[i] = blocks[i]
      /\ more[N + 1] = block
  BY DEF BlocksRead
<1>2. \A i \in 1..(N + 1) : i = N + 1 \/ i \in 1..N
  BY <1>1
<1>3. \A i, k \in 1..(N + 1) : i < k => i \in 1..N
  BY <1>1
<1>4. N + 1 \in 1..(N + 1) /\ \A i \in 1..N : i \in 1..(N + 1)
  BY <1>1
<1> HIDE DEF more, N
<1>5. LinesOf(more) = LinesOf(blocks) \cup ToSet(block.lines)
  <2>1. ASSUME NEW n \in LinesOf(more) PROVE n \in LinesOf(blocks) \cup ToSet(block.lines)
    <3>1. PICK i \in 1..(N + 1) : n \in ToSet(more[i].lines)
      BY <1>1, <2>1 DEF LinesOf
    <3> QED
      BY <1>1, <1>2, <3>1 DEF LinesOf
  <2>2. ASSUME NEW n \in LinesOf(blocks) \cup ToSet(block.lines) PROVE n \in LinesOf(more)
    <3>1. CASE n \in ToSet(block.lines)
      BY <1>1, <1>4, <3>1 DEF LinesOf
    <3>2. CASE n \in LinesOf(blocks)
      <4>1. PICK i \in 1..N : n \in ToSet(blocks[i].lines)
        BY <1>1, <3>2 DEF LinesOf
      <4> QED
        BY <1>1, <1>4, <4>1 DEF LinesOf
    <3> QED
      BY <2>2, <3>1, <3>2
  <2> QED
    BY <2>1, <2>2
<1>6. \A i \in DOMAIN more : Told(inline, text, more[i], r)
  BY <1>1, <1>2 DEF BlocksRead
<1>7. ASSUME NEW i \in DOMAIN more, NEW k \in DOMAIN more, i < k,
             NEW m \in ToSet(more[i].lines), NEW n \in ToSet(more[k].lines)
      PROVE  m < n
  <2>1. i \in 1..N /\ more[i] = blocks[i] /\ m \in LinesOf(blocks)
    BY <1>1, <1>3, <1>7 DEF LinesOf
  <2>2. CASE k = N + 1
    BY <1>1, <1>7, <2>1, <2>2 DEF Precede
  <2>3. CASE k \in 1..N
    BY <1>1, <1>7, <2>1, <2>3 DEF BlocksRead
  <2> QED
    BY <1>1, <1>2, <2>2, <2>3
<1>8. BlocksRead(inline, text, more, r)
  BY <1>1, <1>6, <1>7 DEF BlocksRead
<1> QED
  BY <1>5, <1>8 DEF more, PushKeeps

\* The links a view shows in a line are those it does not take for code or
\* emphasis, and in a cell the ones without a bar.
LEMMA LinkSpans ==
  ASSUME NEW line \in Lines, NEW inline, NEW cell \in BOOLEAN
  PROVE  /\ Spans(inline, line, cell) \subseteq {"wiki", "empty", "tag"}
         /\ "wiki" \in Spans(inline, line, cell) <=> ShowsLink(inline, line) /\ (cell => line.link = "plain")
<1> DEFINE spans == WikiSpans(line, cell)
<1>1. line.link \in {"none", "plain", "alias", "noAlias", "empty"}
  BY Limit DEF LineForms
<1>2. spans \subseteq {"wiki", "empty"}
  BY DEF WikiSpans
<1>3. "wiki" \in spans <=> (wikiTargets(line) \/ line.link = "noAlias") /\ (cell => line.link = "plain")
  BY <1>1 DEF WikiSpans, wikiTargets
<1>4. "wiki" # "tag"
  OBVIOUS
<1>5. Spans(inline, line, cell) =
        IF inline = "rich" THEN (IF line.within \in {"code", "bold", "star"} THEN {} ELSE spans)
                                  \cup (IF line.tag = "bare" THEN {"tag"} ELSE {})
        ELSE IF line.within \in {"code", "bold", "underscore"} THEN {} ELSE spans
  BY DEF Spans, renderInline, renderRichInline
<1> HIDE DEF spans
<1>6. CASE inline = "rich"
  BY <1>2, <1>3, <1>4, <1>5, <1>6 DEF ShowsLink
<1>7. CASE inline # "rich"
  BY <1>2, <1>3, <1>5, <1>7 DEF ShowsLink
<1> QED
  BY <1>6, <1>7

LEMMA EmptyLists ==
  /\ <<>> \in Seq(LineNumbers) /\ ToSet(<<>>) = {}
  /\ \A text, k, r : Listed(text, <<>>, k, r)
BY DEF ToSet, Listed, Ascending

LEMMA LinesInRange ==
  ASSUME NEW ns \in Seq(LineNumbers)
  PROVE  ToSet(ns) \subseteq LineNumbers
BY DEF ToSet

\* A table is shown and no line is lost when something ends it.
LEMMA Flushed ==
  ASSUME NEW text \in Seq(Lines), NEW r \in 0..Len(text), NEW view, NEW inline, Collected(inline, text, view, r)
  PROVE  LET u == flushTable(view, text, inline)
         IN /\ Collected(inline, text, u, r) /\ u.table = <<>> /\ u.code = view.code /\ u.inCode = view.inCode
            /\ LinesOf(u.blocks) \cup Pending(u) = LinesOf(view.blocks) \cup Pending(view)
<1> DEFINE u == flushTable(view, text, inline)
           spans == UNION {{n} \X Spans(inline, text[n], TRUE) : n \in ToSet(view.table)}
           block == Block("table", view.table, spans)
           blocks == Append(view.blocks, block)
<1>1. view \in View /\ Listed(text, view.table, "table", r) /\ BlocksRead(inline, text, view.blocks, r)
  BY DEF Collected
<1>2. /\ view.table \in Seq(LineNumbers) /\ ToSet(view.table) \subseteq LineNumbers
      /\ view.blocks \in Seq(BlockForms)
  BY <1>1, ViewFields, LinesInRange
<1>3. CASE view.table = <<>>
  BY <1>3 DEF flushTable
<1>4. CASE view.table # <<>>
  <2>1. \A n \in ToSet(view.table) : text[n] \in Lines
    BY <1>1 DEF Listed
  <2>2. spans \subseteq LineNumbers \X {"wiki", "empty", "tag"}
    <3>1. \A m \in LineNumbers : \A S : S \subseteq {"wiki", "empty", "tag"} => {m} \X S \subseteq LineNumbers \X {"wiki", "empty", "tag"}
      OBVIOUS
    <3>2. \A n \in ToSet(view.table) :
            n \in LineNumbers /\ Spans(inline, text[n], TRUE) \subseteq {"wiki", "empty", "tag"}
      BY <1>2, <2>1, LinkSpans
    <3>3. \A n \in ToSet(view.table) :
            {n} \X Spans(inline, text[n], TRUE) \subseteq LineNumbers \X {"wiki", "empty", "tag"}
      BY <3>1, <3>2
    <3> QED
      BY <3>3
  <2>3. /\ block \in BlockForms /\ block.kind = "table" /\ block.lines = view.table /\ block.spans = spans
    <3> HIDE DEF spans
    <3> QED
      BY <1>2, <2>2 DEF BlockForms, Block
  <2>4. Linked(inline, text, block)
    <3>1. ASSUME NEW n \in LineNumbers
          PROVE  <<n, "wiki">> \in spans <=>
                   n \in ToSet(view.table) /\ ShowsLink(inline, text[n]) /\ text[n].link = "plain"
      <4>1. \A m \in ToSet(view.table) : \A S : <<n, "wiki">> \in {m} \X S <=> n = m /\ "wiki" \in S
        OBVIOUS
      <4>2. <<n, "wiki">> \in spans <=> \E m \in ToSet(view.table) : <<n, "wiki">> \in {m} \X Spans(inline, text[m], TRUE)
        OBVIOUS
      <4>3. <<n, "wiki">> \in spans <=> n \in ToSet(view.table) /\ "wiki" \in Spans(inline, text[n], TRUE)
        <5> HIDE DEF spans
        <5> QED
          BY <4>1, <4>2
      <4> QED
        BY <2>1, <4>3, LinkSpans
    <3> HIDE DEF spans, block
    <3> QED
      BY <2>3, <3>1 DEF Linked
  <2>5. Told(inline, text, block, r)
    <3> HIDE DEF block
    <3> QED
      BY <1>1, <2>3, <2>4 DEF Told
  <2>6. Precede(view.blocks, block)
    BY DEF Collected, Pending, Block, Precede
  <2> HIDE DEF block, spans, u
  <2>71. BlocksRead(inline, text, blocks, r) /\ LinesOf(blocks) = LinesOf(view.blocks) \cup ToSet(block.lines)
    <3> DEFINE was == view.blocks
    <3>1. /\ BlocksRead(inline, text, was, r) /\ block \in BlockForms
          /\ Told(inline, text, block, r) /\ Precede(was, block)
      BY <1>1, <2>3, <2>5, <2>6
    <3> HIDE DEF was
    <3>2. PushKeeps(inline, text, was, block, r)
      BY <3>1, PushedBlock
    <3> QED
      BY <3>2 DEF was, PushKeeps
  <2>7. BlocksRead(inline, text, blocks, r) /\ LinesOf(blocks) = LinesOf(view.blocks) \cup ToSet(view.table)
    BY <2>3, <2>71
  <2>8. blocks \in Seq(BlockForms)
    BY <2>7 DEF BlocksRead
  <2>9. u = TableShown(view, blocks)
    BY <1>4 DEF flushTable, Push, block, spans, u, TableShown
  <2> HIDE DEF blocks
  <2>10. u \in View /\ u.inCode = view.inCode /\ u.code = view.code /\ u.table = <<>> /\ u.blocks = blocks
    BY <1>1, <2>8, <2>9, TablePushed
  <2>11. view.inCode \/ view.code = <<>>
    BY DEF Collected
  <2>12. view.code = <<>>
    BY <1>4 DEF Collected
  <2>13. Pending(u) = {} /\ Pending(view) = ToSet(view.table)
    BY <2>10, <2>12, EmptyLists DEF Pending
  <2>14. Collected(inline, text, u, r)
    BY <2>7, <2>10, <2>12, <2>13, EmptyLists DEF Collected
  <2> QED
    BY <2>7, <2>10, <2>13, <2>14 DEF u
<1> QED
  BY <1>3, <1>4

\* A code block is shown and no line is lost when something ends it.
CutOff(inline, text, view, u, r) ==
  /\ Collected(inline, text, u, r) /\ u.code = <<>> /\ u.table = <<>> /\ u.inCode
  /\ LinesOf(u.blocks) \cup Pending(u) = LinesOf(view.blocks) \cup Pending(view)
LEMMA CodeCut ==
  ASSUME NEW text \in Seq(Lines), NEW r \in 0..Len(text), NEW inline, NEW view, Collected(inline, text, view, r), view.inCode
  PROVE  CutOff(inline, text, view, CodeBlock(view), r)
<1> DEFINE u == CodeBlock(view)
           block == Block("code", view.code, {})
           blocks == Append(view.blocks, block)
<1>1. /\ view \in View /\ Listed(text, view.code, "code", r) /\ BlocksRead(inline, text, view.blocks, r)
      /\ view.table = <<>>
  BY DEF Collected
<1>2. view.code \in Seq(LineNumbers) /\ ToSet(view.code) \subseteq LineNumbers
  BY <1>1, ViewFields, LinesInRange
<1>3. block \in BlockForms /\ block.kind = "code" /\ block.lines = view.code /\ block.spans = {}
  BY <1>2 DEF BlockForms, Block
<1>4. Told(inline, text, block, r)
  <2> HIDE DEF block
  <2> QED
    BY <1>1, <1>3 DEF Told, Linked
<1>5. Precede(view.blocks, block)
  BY DEF Collected, Pending, Block, Precede
<1>6. u = CodeShown(view, blocks)
  BY DEF CodeBlock, CodeShown, Push
<1> HIDE DEF block, u
<1>7. BlocksRead(inline, text, blocks, r) /\ LinesOf(blocks) = LinesOf(view.blocks) \cup ToSet(block.lines)
  <2> DEFINE was == view.blocks
  <2>1. /\ BlocksRead(inline, text, was, r) /\ block \in BlockForms
        /\ Told(inline, text, block, r) /\ Precede(was, block)
    BY <1>1, <1>3, <1>4, <1>5
  <2> HIDE DEF was
  <2>2. PushKeeps(inline, text, was, block, r)
    BY <2>1, PushedBlock
  <2> QED
    BY <2>2 DEF was, PushKeeps
<1>8. blocks \in Seq(BlockForms)
  BY <1>7 DEF BlocksRead
<1> HIDE DEF blocks
<1>9. u \in View /\ u.inCode = view.inCode /\ u.table = view.table /\ u.code = <<>> /\ u.blocks = blocks
  BY <1>1, <1>6, <1>8, CodePushed
<1>10. Pending(u) = {} /\ Pending(view) = ToSet(view.code)
  BY <1>1, <1>9, EmptyLists DEF Pending
<1>11. Collected(inline, text, u, r)
  BY <1>1, <1>7, <1>9, <1>10, EmptyLists DEF Collected
<1>12. LinesOf(u.blocks) \cup Pending(u) = LinesOf(view.blocks) \cup Pending(view)
  BY <1>3, <1>7, <1>9, <1>10
<1> QED
  BY <1>1, <1>9, <1>11, <1>12 DEF u, CutOff

\* A list of lines with one more.
LEMMA OneMoreLine ==
  ASSUME NEW text, NEW r \in Nat, r + 1 \in LineNumbers, NEW ns \in Seq(LineNumbers), NEW k,
         Listed(text, ns, k, r), Fits(text, r + 1, k)
  PROVE  /\ Append(ns, r + 1) \in Seq(LineNumbers) /\ Append(ns, r + 1) # <<>>
         /\ Listed(text, Append(ns, r + 1), k, r + 1)
         /\ ToSet(Append(ns, r + 1)) = ToSet(ns) \cup {r + 1}
<1> DEFINE more == Append(ns, r + 1)
           N == Len(ns)
<1>1. /\ N \in Nat /\ DOMAIN ns = 1..N /\ DOMAIN more = 1..(N + 1) /\ more \in Seq(LineNumbers)
      /\ \A i \in 1..N : more[i] = ns[i]
      /\ more[N + 1] = r + 1 /\ more # <<>> /\ Len(more) = N + 1
  OBVIOUS
<1>2. /\ \A i \in 1..(N + 1) : i = N + 1 \/ i \in 1..N
      /\ \A i, k0 \in 1..(N + 1) : i < k0 => i \in 1..N
      /\ N + 1 \in 1..(N + 1) /\ \A i \in 1..N : i \in 1..(N + 1)
  BY <1>1
<1> HIDE DEF more, N
<1>3. ToSet(more) = {more[i] : i \in 1..(N + 1)} /\ ToSet(ns) = {ns[i] : i \in 1..N}
  BY <1>1 DEF ToSet
<1>4. ToSet(more) = ToSet(ns) \cup {r + 1}
  BY <1>1, <1>2, <1>3
<1>5. \A n \in ToSet(ns) : n \in 1..r /\ n < r + 1 /\ n \in 1..(r + 1) /\ Fits(text, n, k)
  BY DEF Listed
<1>6. ASSUME NEW i \in DOMAIN more, NEW k0 \in DOMAIN more, i < k0
      PROVE  more[i] < more[k0]
  <2>1. i \in 1..N /\ more[i] = ns[i] /\ ns[i] \in ToSet(ns)
    BY <1>1, <1>2, <1>3, <1>6
  <2>2. CASE k0 = N + 1
    BY <1>1, <1>5, <2>1, <2>2
  <2>3. CASE k0 \in 1..N
    BY <1>1, <1>6, <2>1, <2>3 DEF Listed, Ascending
  <2> QED
    BY <1>1, <1>2, <2>2, <2>3
<1>7. Listed(text, more, k, r + 1)
  <2>1. r + 1 \in 1..(r + 1)
    OBVIOUS
  <2>2. Ascending(more)
    BY <1>6 DEF Ascending
  <2>3. \A n \in ToSet(more) : n \in 1..(r + 1) /\ Fits(text, n, k)
    BY <1>4, <1>5, <2>1
  <2> QED
    BY <2>2, <2>3 DEF Listed
<1> QED
  BY <1>1, <1>4, <1>7 DEF more

LEMMA NextNumber ==
  ASSUME NEW r \in Nat
  PROVE  \A n \in 1..(r + 1) : n = r + 1 \/ n \in 1..r
OBVIOUS

LEMMA ShownBefore ==
  ASSUME NEW text, NEW r \in Nat, NEW inline, NEW blocks, BlocksRead(inline, text, blocks, r)
  PROVE  \A m \in LinesOf(blocks) : m \in 1..r /\ m < r + 1
<1>1. ASSUME NEW m \in LinesOf(blocks) PROVE m \in 1..r
  <2>1. PICK i \in DOMAIN blocks : m \in ToSet(blocks[i].lines)
    BY DEF LinesOf
  <2> QED
    BY <2>1 DEF BlocksRead, Told, Listed
<1> QED
  BY <1>1

\* The lines that end up in no block, and the fences.
LEMMA LineDropped ==
  ASSUME NEW text, NEW inline, NEW view, NEW r \in Nat, ViewRead(inline, text, view, r),
         Dropped(text, r + 1), ~Toggles(text[r + 1])
  PROVE  ViewRead(inline, text, view, r + 1)
<1>1. Collected(inline, text, view, r + 1)
  BY Widened DEF ViewRead
<1>2. Complete(text, view, r + 1)
  BY NextNumber DEF ViewRead, Complete
<1>3. view.inCode <=> Enclosed(text, (r + 1) + 1)
  BY Parity DEF ViewRead
<1> QED
  BY <1>1, <1>2, <1>3 DEF ViewRead

LEMMA FenceRead ==
  ASSUME NEW text \in Seq(Lines), NEW r \in Nat, r + 1 <= Len(text), NEW inline, NEW view, ViewRead(inline, text, view, r),
         Empty(view.table), Toggles(text[r + 1])
  PROVE  ViewRead(inline, text, Fence(view), r + 1)
<1>1. /\ Enclosed(text, (r + 1) + 1) <=> ~view.inCode
      /\ Dropped(text, r + 1)
  <2>1. r + 1 \in Nat \ {0}
    OBVIOUS
  <2>2. Enclosed(text, (r + 1) + 1) <=> ~Enclosed(text, r + 1)
    BY <2>1, Parity
  <2>3. view.inCode <=> Enclosed(text, r + 1)
    BY DEF ViewRead
  <2> QED
    BY <2>2, <2>3 DEF Dropped
<1>2. \A n \in 1..(r + 1) : ~Dropped(text, n) => n \in LinesOf(view.blocks) \cup Pending(view)
  BY <1>1, NextNumber DEF ViewRead, Complete
<1>0. r \in 0..Len(text)
  OBVIOUS
<1>3. CASE view.inCode
  <2> DEFINE u == CodeBlock(view)
             w == WithInCode(u, FALSE)
  <2>1. /\ Collected(inline, text, u, r) /\ u.code = <<>> /\ u.table = <<>> /\ u.inCode
        /\ LinesOf(u.blocks) \cup Pending(u) = LinesOf(view.blocks) \cup Pending(view)
    <3>1. Collected(inline, text, view, r)
      BY DEF ViewRead
    <3>2. CutOff(inline, text, view, u, r)
      BY <1>0, <1>3, <3>1, CodeCut
    <3> HIDE DEF u
    <3> QED
      BY <3>2 DEF CutOff
  <2>2. w = Fence(view)
    BY <1>3 DEF Fence, WithInCode
  <2> HIDE DEF u
  <2>3. u \in View
    BY <2>1 DEF Collected
  <2>4. w \in View /\ w.inCode = FALSE /\ w.code = u.code /\ w.table = u.table /\ w.blocks = u.blocks
    BY <2>3, ViewCoded
  <2>5. Collected(inline, text, u, r + 1)
    BY <2>1, Widened
  <2> HIDE DEF w
  <2>6. Collected(inline, text, w, r + 1)
    BY <2>1, <2>4, <2>5 DEF Collected, Pending
  <2>7. Complete(text, w, r + 1)
    BY <1>2, <2>1, <2>4 DEF Complete, Pending
  <2>8. ViewRead(inline, text, w, r + 1)
    BY <1>1, <1>3, <2>4, <2>6, <2>7 DEF ViewRead
  <2> QED
    BY <2>2, <2>8
<1>4. CASE ~view.inCode
  <2> DEFINE w == WithInCode(view, TRUE)
  <2>1. view \in View /\ Collected(inline, text, view, r + 1) /\ view.code = <<>>
    BY <1>4, Widened DEF ViewRead, Collected
  <2>2. w = Fence(view)
    BY <1>4 DEF Fence, WithInCode
  <2>3. w \in View /\ w.inCode = TRUE /\ w.code = view.code /\ w.table = view.table /\ w.blocks = view.blocks
    BY <2>1, ViewCoded
  <2> HIDE DEF w
  <2>4. Collected(inline, text, w, r + 1)
    BY <2>1, <2>3 DEF Collected, Pending, Empty
  <2>5. Complete(text, w, r + 1)
    BY <1>2, <2>3 DEF Complete, Pending
  <2>6. ViewRead(inline, text, w, r + 1)
    BY <1>1, <1>4, <2>3, <2>4, <2>5 DEF ViewRead
  <2> QED
    BY <2>2, <2>6
<1> QED
  BY <1>3, <1>4

\* The lines of a code block, of a table and of a block of one line.
LEMMA CodeRead ==
  ASSUME NEW text, NEW r \in Nat, r + 1 \in LineNumbers, NEW inline, NEW view, ViewRead(inline, text, view, r),
         view.inCode, ~Toggles(text[r + 1])
  PROVE  ViewRead(inline, text, WithCode(view, Append(view.code, r + 1)), r + 1)
<1> DEFINE code == Append(view.code, r + 1)
           u == WithCode(view, code)
<1>1. view \in View /\ Listed(text, view.code, "code", r) /\ view.code \in Seq(LineNumbers)
  BY ViewFields DEF ViewRead, Collected
<1>2. Enclosed(text, r + 1) /\ Enclosed(text, (r + 1) + 1)
  BY Parity DEF ViewRead
<1>3. Fits(text, r + 1, "code")
  BY <1>2 DEF Fits, Dropped
<1>4. /\ code \in Seq(LineNumbers) /\ Listed(text, code, "code", r + 1)
      /\ ToSet(code) = ToSet(view.code) \cup {r + 1}
  BY <1>1, <1>3, OneMoreLine
<1> HIDE DEF code
<1>5. u \in View /\ u.inCode = view.inCode /\ u.code = code /\ u.table = view.table /\ u.blocks = view.blocks
  BY <1>1, <1>4, ViewCode
<1> HIDE DEF u
<1>6. Collected(inline, text, view, r + 1) /\ Collected(inline, text, view, r)
  BY Widened DEF ViewRead
<1>7. Pending(u) = Pending(view) \cup {r + 1}
  BY <1>4, <1>5 DEF Pending
<1>8. \A m \in LinesOf(view.blocks) : m < r + 1
  BY <1>6, ShownBefore DEF Collected
<1>9. Collected(inline, text, u, r + 1)
  BY <1>4, <1>5, <1>6, <1>7, <1>8 DEF Collected
<1>10. Complete(text, u, r + 1)
  BY <1>5, <1>7, NextNumber DEF ViewRead, Complete
<1>11. ViewRead(inline, text, u, r + 1)
  BY <1>2, <1>5, <1>9, <1>10 DEF ViewRead
<1> QED
  BY <1>11 DEF u, code

LEMMA RowRead ==
  ASSUME NEW text, NEW r \in Nat, r + 1 \in LineNumbers, NEW inline, NEW view, ViewRead(inline, text, view, r),
         ~view.inCode, ~Toggles(text[r + 1]), text[r + 1].table = "row", ~text[r + 1].blank
  PROVE  ViewRead(inline, text, WithTable(view, Append(view.table, r + 1)), r + 1)
<1> DEFINE table == Append(view.table, r + 1)
           u == WithTable(view, table)
<1>1. view \in View /\ Listed(text, view.table, "table", r) /\ view.table \in Seq(LineNumbers)
  BY ViewFields DEF ViewRead, Collected
<1>2. ~Enclosed(text, r + 1) /\ ~Enclosed(text, (r + 1) + 1)
  BY Parity DEF ViewRead
<1>3. Fits(text, r + 1, "table")
  BY <1>2 DEF Fits, Dropped
<1>4. /\ table \in Seq(LineNumbers) /\ Listed(text, table, "table", r + 1)
      /\ ToSet(table) = ToSet(view.table) \cup {r + 1}
  BY <1>1, <1>3, OneMoreLine
<1> HIDE DEF table
<1>5. u \in View /\ u.inCode = view.inCode /\ u.code = view.code /\ u.table = table /\ u.blocks = view.blocks
  BY <1>1, <1>4, ViewTable
<1> HIDE DEF u
<1>6. Collected(inline, text, view, r + 1) /\ Collected(inline, text, view, r)
  BY Widened DEF ViewRead
<1>7. Pending(u) = Pending(view) \cup {r + 1}
  BY <1>4, <1>5 DEF Pending
<1>8. \A m \in LinesOf(view.blocks) : m < r + 1
  BY <1>6, ShownBefore DEF Collected
<1>9. Collected(inline, text, u, r + 1)
  BY <1>4, <1>5, <1>6, <1>7, <1>8 DEF Collected
<1>10. Complete(text, u, r + 1)
  BY <1>5, <1>7, NextNumber DEF ViewRead, Complete
<1>11. ViewRead(inline, text, u, r + 1)
  BY <1>2, <1>5, <1>9, <1>10 DEF ViewRead
<1> QED
  BY <1>11 DEF u, table

\* A line is of one kind, and of that of no code block or table.
LEMMA KindsOfText ==
  ASSUME NEW line
  PROVE  KindOf(line) \in {"heading", "task", "bullet", "ordered", "quote", "rule", "text"}
<1> DEFINE tests == {i \in DOMAIN Order : Order[i] \in line.matches}
<1>1. DOMAIN Order = 1..6
  BY DEF Order
<1>2. CASE tests = {}
  BY <1>2 DEF KindOf
<1>3. CASE tests # {}
  <2>1. \E i \in tests : \A k \in tests : i <= k
    <3>1. tests \subseteq Nat
      BY <1>1
    <3> HIDE DEF tests
    <3> QED
      BY <1>3, <3>1, LeastNatural
  <2>2. PICK i \in tests : KindOf(line) = Order[i]
    BY <1>3, <2>1 DEF KindOf
  <2> QED
    BY <1>1, <2>2 DEF Order
<1> QED
  BY <1>2, <1>3

LEMMA TextRead ==
  ASSUME NEW text \in Seq(Lines), NEW r \in Nat, r + 1 \in LineNumbers, r + 1 <= Len(text),
         NEW inline, NEW view, ViewRead(inline, text, view, r),
         ~view.inCode, Empty(view.table), ~Toggles(text[r + 1]), text[r + 1].table = "no", ~text[r + 1].blank
  PROVE  ViewRead(inline, text, Push(view, Block(KindOf(text[r + 1]), <<r + 1>>, {r + 1} \X Spans(inline, text[r + 1], FALSE))),
                  r + 1)
<1> DEFINE line == text[r + 1]
           spans == {r + 1} \X Spans(inline, line, FALSE)
           block == Block(KindOf(line), <<r + 1>>, spans)
           blocks == Append(view.blocks, block)
           u == WithBlocks(view, blocks)
<1>1. view \in View /\ Collected(inline, text, view, r + 1) /\ BlocksRead(inline, text, view.blocks, r + 1)
  BY Widened DEF ViewRead, Collected
<1>2. ~Enclosed(text, r + 1) /\ ~Enclosed(text, (r + 1) + 1)
  BY Parity DEF ViewRead
<1>3. Fits(text, r + 1, KindOf(line))
  BY <1>2, KindsOfText DEF Fits, Dropped
<1>4. line \in Lines
  <2>1. r + 1 \in 1..Len(text)
    OBVIOUS
  <2> QED
    BY <2>1
<1>5. /\ spans \subseteq LineNumbers \X {"wiki", "empty", "tag"}
      /\ \A n : <<n, "wiki">> \in spans <=> n = r + 1 /\ ShowsLink(inline, line)
  <2>1. /\ Spans(inline, line, FALSE) \subseteq {"wiki", "empty", "tag"}
        /\ "wiki" \in Spans(inline, line, FALSE) <=> ShowsLink(inline, line)
    BY <1>4, LinkSpans
  <2> HIDE DEF line
  <2> QED
    BY <2>1
<1>6. <<r + 1>> \in Seq(LineNumbers) /\ ToSet(<<r + 1>>) = {r + 1} /\ Ascending(<<r + 1>>)
  BY DEF ToSet, Ascending
<1>7. block \in BlockForms /\ block.kind = KindOf(line) /\ block.lines = <<r + 1>> /\ block.spans = spans
  <2> HIDE DEF spans, line
  <2> QED
    BY <1>5, <1>6, KindsOfText DEF BlockForms, Block
<1> HIDE DEF block, spans
<1>8. Listed(text, block.lines, block.kind, r + 1)
  <2>1. r + 1 \in 1..(r + 1)
    OBVIOUS
  <2>2. ToSet(block.lines) = {r + 1} /\ Ascending(block.lines)
    BY <1>6, <1>7
  <2> QED
    BY <1>3, <1>7, <2>1, <2>2 DEF Listed
<1>9. Linked(inline, text, block)
  <2>1. block.kind # "code" /\ block.kind # "table"
    BY <1>7, KindsOfText
  <2>2. \A n : n \in ToSet(block.lines) <=> n = r + 1
    BY <1>6, <1>7
  <2>3. \A n : <<n, "wiki">> \in block.spans <=> n = r + 1 /\ ShowsLink(inline, text[r + 1])
    BY <1>5, <1>7
  <2> QED
    BY <2>1, <2>2, <2>3 DEF Linked
<1>10. Told(inline, text, block, r + 1)
  BY <1>8, <1>9 DEF Told
<1>11. \A m \in LinesOf(view.blocks) : m \in 1..r
  BY ShownBefore DEF ViewRead, Collected
<1>12. ToSet(block.lines) = {r + 1}
  BY <1>6, <1>7
<1>13. Precede(view.blocks, block)
  BY <1>11, <1>12 DEF Precede
<1>14. BlocksRead(inline, text, blocks, r + 1) /\ LinesOf(blocks) = LinesOf(view.blocks) \cup ToSet(block.lines)
  <2> DEFINE was == view.blocks
             q == r + 1
  <2>1. /\ BlocksRead(inline, text, was, q) /\ block \in BlockForms
        /\ Told(inline, text, block, q) /\ Precede(was, block)
    BY <1>1, <1>7, <1>10, <1>13
  <2> HIDE DEF was, q
  <2>2. PushKeeps(inline, text, was, block, q)
    BY <2>1, PushedBlock
  <2> QED
    BY <2>2 DEF was, q, PushKeeps
<1>15. blocks \in Seq(BlockForms)
  BY <1>14 DEF BlocksRead
<1> HIDE DEF blocks
<1>16. u \in View /\ u.inCode = view.inCode /\ u.code = view.code /\ u.table = view.table /\ u.blocks = blocks
  BY <1>1, <1>15, ViewBlocks
<1>17. Push(view, block) = u
  BY DEF Push, WithBlocks, blocks
<1> HIDE DEF u
<1>18. Pending(u) = {} /\ Pending(view) = {} /\ view.code = <<>>
  <2>1. view.code = <<>>
    BY <1>1 DEF Collected
  <2> QED
    BY <1>16, <2>1, EmptyLists DEF Pending, Empty
<1>19. Collected(inline, text, u, r + 1)
  BY <1>1, <1>14, <1>16, <1>18 DEF Collected
<1>20. Complete(text, u, r + 1)
  BY <1>12, <1>14, <1>16, <1>18, NextNumber DEF ViewRead, Complete
<1>21. ViewRead(inline, text, u, r + 1)
  BY <1>2, <1>16, <1>19, <1>20 DEF ViewRead
<1> QED
  BY <1>17, <1>21 DEF block, spans

LEMMA FlushedRead ==
  ASSUME NEW text \in Seq(Lines), NEW r \in 0..Len(text), NEW view, NEW inline, ViewRead(inline, text, view, r)
  PROVE  LET u == flushTable(view, text, inline)
         IN ViewRead(inline, text, u, r) /\ Empty(u.table) /\ (u.inCode <=> view.inCode) /\ u.code = view.code
<1> DEFINE u == flushTable(view, text, inline)
<1>1. /\ Collected(inline, text, u, r) /\ Empty(u.table) /\ u.code = view.code /\ u.inCode = view.inCode
      /\ LinesOf(u.blocks) \cup Pending(u) = LinesOf(view.blocks) \cup Pending(view)
  BY Flushed DEF ViewRead, Empty
<1> HIDE DEF u
<1>2. ViewRead(inline, text, u, r)
  BY <1>1 DEF ViewRead, Complete
<1> QED
  BY <1>1, <1>2 DEF u

\* One line more is read: whatever it is, no line is lost and none is shown
\* twice or as what it is not.
LEMMA BlockLineReads ==
  ASSUME NEW text \in Seq(Lines), NEW r \in Nat, Len(text) = r + 1, r + 1 <= MaxLines,
         NEW view, NEW inline, ViewRead(inline, text, view, r)
  PROVE  ViewRead(inline, text, BlockLine(view, text, inline), r + 1)
<1> DEFINE line == text[r + 1]
           u == flushTable(view, text, inline)
           next == BlockLine(view, text, inline)
<1>1. r + 1 \in LineNumbers /\ r + 1 \in 1..Len(text) /\ r \in 0..Len(text)
  BY Limit DEF LineNumbers
<1>2. line \in Lines
  BY <1>1
<1>3. line \in LineForms /\ (line.blank => line.table = "no")
  BY <1>2, LinesAssumption
<1>4. /\ line.table \in {"no", "row", "separator"}
      /\ Toggles(line) <=> line.fence \in {"plain", "indented"}
  BY <1>3 DEF LineForms, Toggles
<1>5. ViewRead(inline, text, u, r) /\ Empty(u.table) /\ (u.inCode <=> view.inCode)
  BY <1>1, FlushedRead
<1>6. view.inCode <=> Enclosed(text, r + 1)
  BY DEF ViewRead
<1>7. next =
        IF Toggles(line) THEN Fence(u)
        ELSE IF view.inCode THEN WithCode(view, Append(view.code, r + 1))
        ELSE IF line.table = "row" THEN WithTable(view, Append(view.table, r + 1))
        ELSE IF line.table = "separator" THEN view
        ELSE IF line.blank THEN u
        ELSE Push(u, Block(KindOf(line), <<r + 1>>, {r + 1} \X Spans(inline, line, FALSE)))
  <2> HIDE DEF u
  <2> QED
    BY <1>4 DEF BlockLine, WithCode, WithTable, u
<1> SUFFICES ViewRead(inline, text, next, r + 1)
  OBVIOUS
<1> HIDE DEF u, next
<1>8. CASE Toggles(line)
  <2>1. r + 1 <= Len(text)
    OBVIOUS
  <2> QED
    BY <1>5, <1>7, <1>8, <2>1, FenceRead
<1>9. CASE ~Toggles(line) /\ view.inCode
  BY <1>1, <1>7, <1>9, CodeRead
<1>10. CASE ~Toggles(line) /\ ~view.inCode /\ line.table = "row"
  <2>1. ~line.blank
    BY <1>3, <1>10
  <2> QED
    BY <1>1, <1>7, <1>10, <2>1, RowRead
<1>11. CASE ~Toggles(line) /\ ~view.inCode /\ line.table = "separator"
  <2>1. Dropped(text, r + 1)
    BY <1>6, <1>11 DEF Dropped
  <2> QED
    BY <1>7, <1>11, <2>1, LineDropped
<1>12. CASE ~Toggles(line) /\ ~view.inCode /\ line.table = "no" /\ line.blank
  <2>1. Dropped(text, r + 1)
    BY <1>6, <1>12 DEF Dropped
  <2> QED
    BY <1>5, <1>7, <1>12, <2>1, LineDropped
<1>13. CASE ~Toggles(line) /\ ~view.inCode /\ line.table = "no" /\ ~line.blank
  <2>1. r + 1 <= Len(text)
    OBVIOUS
  <2>2. next = Push(u, Block(KindOf(line), <<r + 1>>, {r + 1} \X Spans(inline, line, FALSE)))
    BY <1>7, <1>13
  <2> QED
    BY <1>1, <1>5, <1>13, <2>1, <2>2, TextRead
<1> QED
  BY <1>4, <1>8, <1>9, <1>10, <1>11, <1>12, <1>13

\* At the end of the note nothing is pending.
LEMMA BlockEndReads ==
  ASSUME NEW text \in Seq(Lines), NEW view, NEW inline, ViewRead(inline, text, view, Len(text))
  PROVE  LET u == BlockEnd(view, text, inline)
         IN ViewRead(inline, text, u, Len(text)) /\ Pending(u) = {}
<1> DEFINE r == Len(text)
           w == IF view.inCode /\ view.code # <<>> THEN CodeBlock(view) ELSE view
           u == flushTable(w, text, inline)
<1>1. r \in 0..Len(text)
  OBVIOUS
<1>2. ViewRead(inline, text, w, r) /\ w.code = <<>>
  <2>1. CASE view.inCode /\ view.code # <<>>
    <3>0. w = CodeBlock(view)
      BY <2>1
    <3>1. /\ Collected(inline, text, w, r) /\ w.code = <<>> /\ w.inCode
          /\ LinesOf(w.blocks) \cup Pending(w) = LinesOf(view.blocks) \cup Pending(view)
      BY <1>1, <2>1, <3>0, CodeCut DEF ViewRead, CutOff
    <3> HIDE DEF w
    <3> QED
      BY <2>1, <3>1 DEF ViewRead, Complete
  <2>2. CASE ~(view.inCode /\ view.code # <<>>)
    <3>1. w = view
      BY <2>2
    <3> HIDE DEF w
    <3> QED
      BY <2>2, <3>1 DEF ViewRead, Collected
  <2> QED
    BY <2>1, <2>2
<1>3. u = BlockEnd(view, text, inline)
  BY DEF BlockEnd
<1> HIDE DEF w
<1>4. ViewRead(inline, text, u, r) /\ Empty(u.table) /\ u.code = w.code
  BY <1>1, <1>2, FlushedRead
<1> HIDE DEF u
<1>5. Pending(u) = {}
  BY <1>2, <1>4, EmptyLists DEF Pending, Empty
<1> QED
  BY <1>3, <1>4, <1>5

-----------------------------------------------------------------------------
(* The inductive invariant of NoteMarkdown.                                *)
TextTyped ==
  /\ note \in Seq(Lines) /\ Len(note) <= MaxLines /\ ended \in BOOLEAN
  /\ outline \in Seq(0..MaxLines - 1) /\ ToSet(outline) \subseteq 0..Len(note) - 1
  /\ tagger \in [inCode: BOOLEAN, found: SUBSET (1..Len(note))]
ViewsInv ==
  /\ ViewRead("rich", note, reader, Len(note)) /\ ViewRead("plain", note, preview, Len(note))
  /\ ended => Pending(reader) = {} /\ Pending(preview) = {}
TagsInv ==
  FencesAgree =>
    /\ tagger.inCode <=> Enclosed(note, Len(note) + 1)
    /\ \A n \in DOMAIN note :
         note[n].tag = "bare" /\ note[n].fence = "no" /\ "heading" \notin note[n].matches
           => (n \in tagger.found <=> ~Enclosed(note, n))
MarkdownInv == TextTyped /\ ViewsInv /\ TagsInv

LEMMA NothingRead ==
  ASSUME NEW none, NEW inline, none = <<>>
  PROVE  /\ Len(none) = 0 /\ ViewRead(inline, none, NewView, 0) /\ Pending(NewView) = {} /\ ~Enclosed(none, 1)
<1>1. ~Enclosed(none, 1)
  <2>1. {k \in 1..(1 - 1) : Toggles(none[k])} = {}
    OBVIOUS
  <2>2. Cardinality({k \in 1..(1 - 1) : Toggles(none[k])}) = 0
    BY <2>1, FS_EmptySet
  <2> QED
    BY <2>2 DEF Enclosed
<1>2. NewView \in View /\ NewView.code = <<>> /\ NewView.table = <<>> /\ NewView.blocks = <<>> /\ NewView.inCode = FALSE
  BY DEF View, NewView
<1>3. Pending(NewView) = {} /\ LinesOf(NewView.blocks) = {}
  BY <1>2, EmptyLists DEF Pending, LinesOf
<1>4. BlocksRead(inline, none, NewView.blocks, 0)
  BY <1>2 DEF BlocksRead
<1>5. Collected(inline, none, NewView, 0)
  BY <1>2, <1>3, <1>4, EmptyLists DEF Collected
<1>6. Complete(none, NewView, 0)
  BY DEF Complete
<1>7. 0 + 1 = 1 /\ Len(none) = 0
  OBVIOUS
<1> QED
  BY <1>1, <1>2, <1>3, <1>5, <1>6, <1>7 DEF ViewRead

LEMMA MarkdownStarts ==
  ASSUME note = <<>>, outline = <<>>, ended \in BOOLEAN, reader = NewView, preview = NewView,
         tagger = [inCode |-> FALSE, found |-> {}]
  PROVE  MarkdownInv
<1>1. Len(note) = 0 /\ (\A inline : ViewRead(inline, note, NewView, 0)) /\ Pending(NewView) = {} /\ ~Enclosed(note, 1)
  BY NothingRead
<1>2. TextTyped
  <2>1. note \in Seq(Lines) /\ outline \in Seq(0..MaxLines - 1) /\ ToSet(outline) = {}
    BY DEF ToSet
  <2>2. tagger \in [inCode: BOOLEAN, found: SUBSET (1..Len(note))]
    OBVIOUS
  <2> QED
    BY <1>1, <2>1, <2>2, Limit DEF TextTyped
<1>3. ViewsInv
  BY <1>1 DEF ViewsInv
<1>4. TagsInv
  BY <1>1 DEF TagsInv
<1> QED
  BY <1>2, <1>3, <1>4 DEF MarkdownInv

LEMMA MarkdownInitInv == MarkdownInit => MarkdownInv
BY MarkdownStarts DEF MarkdownInit

\* What the tag detector makes of a line.
TagFence(line) == line.fence \in {"plain", "info"}
Offers(state, line) ==
  ~TagFence(line) /\ ~state.inCode /\ "heading" \notin line.matches /\ line.tag = "bare"
TagsNext(next, state, line, r) ==
  /\ next \in [inCode: BOOLEAN, found: SUBSET (1..(r + 1))]
  /\ next.inCode = (IF TagFence(line) THEN ~state.inCode ELSE state.inCode)
  /\ next.found = state.found \cup (IF Offers(state, line) THEN {r + 1} ELSE {})

LEMMA TagsStep ==
  ASSUME NEW text \in Seq(Lines), NEW line \in Lines, NEW more, more = Append(text, line),
         NEW state \in [inCode: BOOLEAN, found: SUBSET (1..Len(text))]
  PROVE  TagsNext(detectBodyTags(state, more), state, line, Len(text))
<1> DEFINE r == Len(text)
           S == SUBSET (1..r)
           T == SUBSET (1..(r + 1))
           grown == state.found \cup {r + 1}
           next == detectBodyTags(state, more)
           fence == TagFence(line)
<1>1. more[Len(more)] = line /\ Len(more) = r + 1 /\ r \in Nat
  BY Grown
<1>2. state.inCode \in BOOLEAN /\ state.found \in S /\ state \in [inCode: BOOLEAN, found: S]
  OBVIOUS
<1>3. state.found \in T /\ grown \in T
  BY <1>1, <1>2
<1>4. next = IF fence THEN [state EXCEPT !.inCode = ~state.inCode]
             ELSE IF state.inCode \/ "heading" \in line.matches \/ line.tag # "bare" THEN state
             ELSE [state EXCEPT !.found = grown]
  <2> HIDE DEF r
  <2> QED
    BY <1>1 DEF detectBodyTags, TagFence
<1> HIDE DEF r, S, T, next, fence, grown
<1>5. CASE fence
  <2>1. next = [state EXCEPT !.inCode = ~state.inCode]
    BY <1>4, <1>5
  <2>2. next \in [inCode: BOOLEAN, found: T] /\ next.inCode = ~state.inCode /\ next.found = state.found
    BY <1>2, <1>3, <2>1
  <2> QED
    BY <1>5, <2>2 DEF next, fence, r, T, TagsNext, Offers
<1>6. CASE ~fence /\ (state.inCode \/ "heading" \in line.matches \/ line.tag # "bare")
  <2>1. next = state
    BY <1>4, <1>6
  <2>2. next \in [inCode: BOOLEAN, found: T] /\ next.inCode = state.inCode /\ next.found = state.found
    BY <1>2, <1>3, <2>1
  <2> QED
    BY <1>6, <2>2 DEF next, fence, r, T, TagsNext, Offers
<1>7. CASE ~fence /\ ~(state.inCode \/ "heading" \in line.matches \/ line.tag # "bare")
  <2>1. next = [state EXCEPT !.found = grown]
    BY <1>4, <1>7
  <2>2. next \in [inCode: BOOLEAN, found: T] /\ next.inCode = state.inCode /\ next.found = grown
    BY <1>2, <1>3, <2>1
  <2> QED
    BY <1>7, <2>2 DEF next, fence, r, T, TagsNext, Offers, grown
<1> QED
  BY <1>5, <1>6, <1>7

LEMMA MarkdownStep == MarkdownInv /\ [MarkdownNext]_markdownVars => MarkdownInv'
<1> SUFFICES ASSUME MarkdownInv, [MarkdownNext]_markdownVars PROVE MarkdownInv'
  OBVIOUS
<1>0. TextTyped /\ ViewsInv /\ TagsInv
  BY DEF MarkdownInv
<1>1. CASE ReadLine
  <2>1. PICK line \in Lines :
          /\ note' = Append(note, line)
          /\ reader' = RichMarkdownView(reader, note') /\ preview' = MarkdownPreview(preview, note')
          /\ outline' = parseOutline(outline, note') /\ tagger' = detectBodyTags(tagger, note')
    BY <1>1 DEF ReadLine
  <2>2. ~ended /\ ended' = ended /\ Len(note) < MaxLines
    BY <1>1 DEF ReadLine
  <2>3. note \in Seq(Lines) /\ Len(note) \in Nat
    BY <1>0 DEF TextTyped
  <2> DEFINE r == Len(note)
  <2>4. /\ note' \in Seq(Lines) /\ Len(note') = r + 1 /\ note'[r + 1] = line
        /\ \A n \in 1..r : note'[n] = note[n]
        /\ \A n \in 1..(r + 1) : Enclosed(note', n) <=> Enclosed(note, n)
    BY <2>1, <2>3, Grown
  <2>5. r \in Nat /\ r + 1 <= MaxLines
    BY <2>2, <2>3, Limit
  <2> HIDE DEF r
  <2>6. ViewsInv'
    <3>1. ViewRead("rich", note', reader, r) /\ ViewRead("plain", note', preview, r)
      BY <1>0, <2>1, <2>3, GrownRead DEF ViewsInv, r
    <3>2. ViewRead("rich", note', reader', r + 1)
      BY <2>1, <2>4, <2>5, <3>1, BlockLineReads DEF RichMarkdownView
    <3>3. ViewRead("plain", note', preview', r + 1)
      BY <2>1, <2>4, <2>5, <3>1, BlockLineReads DEF MarkdownPreview
    <3> QED
      BY <2>2, <2>4, <3>2, <3>3 DEF ViewsInv
  <2> DEFINE fence == TagFence(line)
             offered == Offers(tagger, line)
  <2>7. tagger \in [inCode: BOOLEAN, found: SUBSET (1..Len(note))] /\ \A n \in tagger.found : n \in 1..r
    BY <1>0 DEF TextTyped, r
  <2>81. TagsNext(tagger', tagger, line, r)
    BY <2>1, <2>3, <2>7, TagsStep DEF r
  <2>8. /\ tagger' \in [inCode: BOOLEAN, found: SUBSET (1..(r + 1))]
        /\ tagger'.inCode = (IF fence THEN ~tagger.inCode ELSE tagger.inCode)
        /\ tagger'.found = tagger.found \cup (IF offered THEN {r + 1} ELSE {})
    BY <2>81 DEF TagsNext
  <2>9. outline' \in Seq(0..MaxLines - 1) /\ ToSet(outline') \subseteq 0..Len(note') - 1
    <3> DEFINE S == 0..MaxLines - 1
    <3>1. /\ outline \in Seq(S) /\ ToSet(outline) \subseteq 0..r - 1
          /\ r \in S /\ Len(note') - 1 = r
      BY <1>0, <2>4, <2>5, Limit DEF TextTyped, r
    <3>2. Append(outline, r) \in Seq(S) /\ ToSet(Append(outline, r)) = ToSet(outline) \cup {r}
      <4> HIDE DEF S
      <4> QED
        BY <3>1, OneAppended
    <3>3. outline' \in {outline, Append(outline, r)}
      BY <2>1, <3>1 DEF parseOutline
    <3>4. 0..r - 1 \subseteq 0..r /\ r \in 0..r /\ Len(note') - 1 = r
      BY <2>5, <3>1
    <3> QED
      BY <3>1, <3>2, <3>3, <3>4
  <2>10. TextTyped'
    BY <1>0, <2>2, <2>4, <2>5, <2>8, <2>9 DEF TextTyped
  <2>11. TagsInv'
    <3> SUFFICES ASSUME FencesAgree'
                 PROVE  /\ tagger'.inCode <=> Enclosed(note', Len(note') + 1)
                        /\ \A n \in DOMAIN note' :
                             note'[n].tag = "bare" /\ note'[n].fence = "no" /\ "heading" \notin note'[n].matches
                               => (n \in tagger'.found <=> ~Enclosed(note', n))
      BY DEF TagsInv
    <3>1. DOMAIN note = 1..r /\ DOMAIN note' = 1..(r + 1)
      BY <2>3, <2>4 DEF r
    <3>2. line.fence \in {"no", "plain"}
      <4>1. r + 1 \in 1..(r + 1)
        BY <2>5
      <4> QED
        BY <2>4, <3>1, <4>1 DEF FencesAgree
    <3>3. FencesAgree
      <4>1. \A n \in 1..r : n \in 1..(r + 1)
        BY <2>5
      <4> QED
        BY <2>4, <3>1, <4>1 DEF FencesAgree
    <3>4. /\ tagger.inCode <=> Enclosed(note, r + 1)
          /\ \A n \in 1..r :
               note[n].tag = "bare" /\ note[n].fence = "no" /\ "heading" \notin note[n].matches
                 => (n \in tagger.found <=> ~Enclosed(note, n))
      BY <1>0, <3>1, <3>3 DEF TagsInv, r
    <3>5. r + 1 \in Nat \ {0} /\ r + 1 \in 1..(r + 1) /\ \A n \in 1..r : n \in 1..(r + 1)
      BY <2>5
    <3>6. Toggles(line) <=> line.fence \in {"plain", "info"}
      BY <3>2 DEF Toggles
    <3>7. Enclosed(note', (r + 1) + 1) <=> IF Toggles(line) THEN ~Enclosed(note', r + 1) ELSE Enclosed(note', r + 1)
      <4>1. \A text : Enclosed(text, (r + 1) + 1) <=>
                        IF Toggles(text[r + 1]) THEN ~Enclosed(text, r + 1) ELSE Enclosed(text, r + 1)
        BY <3>5, Parity
      <4> QED
        BY <2>4, <4>1
    <3>8. tagger'.inCode <=> Enclosed(note', (r + 1) + 1)
      <4>1. tagger.inCode <=> Enclosed(note', r + 1)
        BY <2>4, <3>4, <3>5
      <4>2. tagger'.inCode <=> IF Toggles(line) THEN ~tagger.inCode ELSE tagger.inCode
        <5>1. Toggles(line) <=> fence
          BY <3>6 DEF TagFence
        <5> HIDE DEF fence
        <5> QED
          BY <2>8, <5>1
      <4> QED
        BY <3>7, <4>1, <4>2
    <3>9. ASSUME NEW n \in 1..(r + 1), note'[n].tag = "bare", note'[n].fence = "no", "heading" \notin note'[n].matches
          PROVE  n \in tagger'.found <=> ~Enclosed(note', n)
      <4>1. CASE n = r + 1
        <5>1. line.tag = "bare" /\ line.fence = "no" /\ "heading" \notin line.matches
          BY <2>4, <3>9, <4>1
        <5>2. offered <=> ~tagger.inCode
          BY <5>1 DEF Offers, TagFence
        <5>3. r + 1 \notin tagger.found
          BY <2>5, <2>7
        <5> HIDE DEF offered
        <5>4. n \in tagger'.found <=> offered
          BY <2>8, <4>1, <5>3
        <5> QED
          BY <2>4, <3>4, <3>5, <4>1, <5>2, <5>4
      <4>2. CASE n \in 1..r
        <5>1. n # r + 1
          BY <2>5, <4>2
        <5> HIDE DEF offered
        <5>2. n \in tagger'.found <=> n \in tagger.found
          BY <2>8, <5>1
        <5> QED
          BY <2>4, <3>4, <3>5, <3>9, <4>2, <5>2
      <4> QED
        BY <2>5, <4>1, <4>2, NextNumber
    <3> QED
      BY <2>4, <3>1, <3>8, <3>9
  <2> QED
    BY <2>6, <2>10, <2>11 DEF MarkdownInv
<1>2. CASE End
  <2>1. /\ ended' = TRUE /\ note' = note /\ outline' = outline /\ tagger' = tagger
        /\ reader' = BlockEnd(reader, note, "rich") /\ preview' = BlockEnd(preview, note, "plain")
    BY <1>2 DEF End
  <2>2. note \in Seq(Lines)
    BY <1>0 DEF TextTyped
  <2>3. ViewRead("rich", note, reader', Len(note)) /\ Pending(reader') = {}
    BY <1>0, <2>1, <2>2, BlockEndReads DEF ViewsInv
  <2>4. ViewRead("plain", note, preview', Len(note)) /\ Pending(preview') = {}
    BY <1>0, <2>1, <2>2, BlockEndReads DEF ViewsInv
  <2>5. ViewsInv'
    BY <2>1, <2>3, <2>4 DEF ViewsInv
  <2>6. TextTyped' /\ TagsInv'
    BY <1>0, <2>1 DEF TextTyped, TagsInv, FencesAgree
  <2> QED
    BY <2>5, <2>6 DEF MarkdownInv
<1>3. CASE UNCHANGED markdownVars
  BY <1>0, <1>3 DEF markdownVars, MarkdownInv, TextTyped, ViewsInv, TagsInv, FencesAgree
<1> QED
  BY <1>1, <1>2, <1>3 DEF MarkdownNext

LEMMA MarkdownStays == MarkdownSpec => []MarkdownInv
  BY MarkdownInitInv, MarkdownStep, PTL DEF MarkdownSpec

LEMMA MarkdownInvType == MarkdownInv => MarkdownTypeOK
<1> SUFFICES ASSUME MarkdownInv PROVE MarkdownTypeOK
  OBVIOUS
<1>1. reader \in View /\ preview \in View
  BY DEF MarkdownInv, ViewsInv, ViewRead, Collected
<1>2. tagger.inCode \in BOOLEAN /\ tagger.found \subseteq 1..Len(note)
  BY DEF MarkdownInv, TextTyped
<1> QED
  BY <1>1, <1>2 DEF MarkdownInv, TextTyped, MarkdownTypeOK, LineNumbers

\* What a view shows once the note has ended.
LEMMA EndedViews ==
  ASSUME MarkdownInv, ended, NEW inline \in {"rich", "plain"}, NEW view,
         view = IF inline = "rich" THEN reader ELSE preview
  PROVE  /\ BlocksRead(inline, note, view.blocks, Len(note))
         /\ LinesOf(view.blocks) = {n \in DOMAIN note : ~Dropped(note, n)}
<1>1. ViewRead(inline, note, view, Len(note)) /\ Pending(view) = {} /\ note \in Seq(Lines)
  BY DEF MarkdownInv, ViewsInv, TextTyped
<1>2. BlocksRead(inline, note, view.blocks, Len(note))
  BY <1>1 DEF ViewRead, Collected
<1>3. \A n \in 1..Len(note) : ~Dropped(note, n) => n \in LinesOf(view.blocks)
  BY <1>1 DEF ViewRead, Complete
<1>4. \A n \in LinesOf(view.blocks) : n \in 1..Len(note) /\ ~Dropped(note, n)
  BY <1>2 DEF LinesOf, BlocksRead, Told, Listed, Fits
<1>5. DOMAIN note = 1..Len(note)
  BY <1>1
<1> QED
  BY <1>2, <1>3, <1>4, <1>5

\* Both views show every line of a note of any length, once, in its order,
\* and as code exactly what the fences enclose.
THEOREM ViewsLoseNothing == MarkdownSpec => []EveryLineShown
<1>1. MarkdownInv => EveryLineShown
  <2> SUFFICES ASSUME MarkdownInv, ended, NEW view \in {reader, preview}
               PROVE  /\ ShownLines(view) = {n \in DOMAIN note : ~Dropped(note, n)} /\ InOrder(view)
                      /\ \A i \in DOMAIN view.blocks : \A n \in ToSet(view.blocks[i].lines) :
                           Enclosed(note, n) <=> view.blocks[i].kind = "code"
    BY DEF EveryLineShown
  <2>1. PICK inline \in {"rich", "plain"} :
          /\ BlocksRead(inline, note, view.blocks, Len(note))
          /\ LinesOf(view.blocks) = {n \in DOMAIN note : ~Dropped(note, n)}
    BY EndedViews
  <2>2. ShownLines(view) = LinesOf(view.blocks)
    BY DEF ShownLines, LinesOf
  <2>3. InOrder(view)
    BY <2>1 DEF InOrder, BlocksRead, Told, Listed
  <2>4. \A i \in DOMAIN view.blocks : \A n \in ToSet(view.blocks[i].lines) :
          Enclosed(note, n) <=> view.blocks[i].kind = "code"
    BY <2>1 DEF BlocksRead, Told, Listed, Fits
  <2> QED
    BY <2>1, <2>2, <2>3, <2>4
<1> QED
  BY <1>1, MarkdownStays, PTL

\* Which lines have a button in a view that is shown to its end.
LEMMA ButtonsShown ==
  ASSUME MarkdownInv, ended, NEW inline \in {"rich", "plain"}, NEW view,
         view = IF inline = "rich" THEN reader ELSE preview, NEW n \in DOMAIN note
  PROVE  HasButton(view.blocks, n) <=>
           /\ ShowsLink(inline, note[n])
           /\ ~(Dropped(note, n) \/ Enclosed(note, n) \/ (note[n].table = "row" /\ note[n].link # "plain"))
<1>1. /\ BlocksRead(inline, note, view.blocks, Len(note))
      /\ LinesOf(view.blocks) = {m \in DOMAIN note : ~Dropped(note, m)}
  BY EndedViews
<1>2. n \in LineNumbers
  <2>1. DOMAIN note = 1..Len(note) /\ Len(note) \in Nat /\ Len(note) <= MaxLines
    BY DEF MarkdownInv, TextTyped
  <2> QED
    BY <2>1, Limit DEF LineNumbers
<1>3. ASSUME NEW i \in DOMAIN view.blocks, <<n, "wiki">> \in view.blocks[i].spans
      PROVE  /\ ShowsLink(inline, note[n])
             /\ ~(Dropped(note, n) \/ Enclosed(note, n) \/ (note[n].table = "row" /\ note[n].link # "plain"))
  <2> DEFINE block == view.blocks[i]
  <2>1. Linked(inline, note, block) /\ Listed(note, block.lines, block.kind, Len(note))
    BY <1>1 DEF BlocksRead, Told
  <2>2. /\ n \in ToSet(block.lines) /\ block.kind # "code" /\ ShowsLink(inline, note[n])
        /\ block.kind = "table" => note[n].link = "plain"
    BY <1>2, <1>3, <2>1 DEF Linked
  <2>3. Fits(note, n, block.kind)
    BY <2>1, <2>2 DEF Listed
  <2> QED
    BY <2>2, <2>3 DEF Fits
<1>4. ASSUME ShowsLink(inline, note[n]), ~Dropped(note, n), ~Enclosed(note, n),
             ~(note[n].table = "row" /\ note[n].link # "plain")
      PROVE  \E i \in DOMAIN view.blocks : <<n, "wiki">> \in view.blocks[i].spans
  <2>1. PICK i \in DOMAIN view.blocks : n \in ToSet(view.blocks[i].lines)
    BY <1>1, <1>4 DEF LinesOf
  <2> DEFINE block == view.blocks[i]
  <2>2. Linked(inline, note, block) /\ Listed(note, block.lines, block.kind, Len(note))
    BY <1>1 DEF BlocksRead, Told
  <2>3. Fits(note, n, block.kind)
    BY <2>1, <2>2 DEF Listed
  <2>4. block.kind # "code" /\ (block.kind = "table" => note[n].link = "plain")
    BY <1>4, <2>3 DEF Fits
  <2>5. <<n, "wiki">> \in block.spans
    BY <1>2, <1>4, <2>1, <2>2, <2>4 DEF Linked
  <2> QED
    BY <2>5
<1> QED
  BY <1>3, <1>4 DEF HasButton

\* A tag is offered for the text it stands in, and for no code, in every note
\* whose fences the detector and the views read alike.  A view has a button
\* for a link the analysis counts, or for one whose alias is empty, and for
\* each of them, unless the line or its quoting is code, emphasis encloses the
\* link, or a table cuts it.
THEOREM FoundIsAlwaysShown == MarkdownSpec => []FoundIsShown
<1>1. MarkdownInv => TagsComeFromText
  BY DEF MarkdownInv, TagsInv, TagsComeFromText
<1>2. MarkdownInv => ButtonsAreLinks
  <2> SUFFICES ASSUME MarkdownInv, ended, NEW n \in DOMAIN note
               PROVE  LET line == note[n]
                          cut == Dropped(note, n) \/ Enclosed(note, n) \/ (line.table = "row" /\ line.link # "plain")
                          leads == wikiTargets(line) \/ line.link = "noAlias"
                      IN /\ HasButton(reader.blocks, n) <=> leads /\ ~cut /\ ~Hides("reader", line)
                         /\ HasButton(preview.blocks, n) <=> leads /\ ~cut /\ ~Hides("preview", line)
    BY DEF ButtonsAreLinks
  <2> DEFINE cut == Dropped(note, n) \/ Enclosed(note, n) \/ (note[n].table = "row" /\ note[n].link # "plain")
  <2>1. HasButton(reader.blocks, n) <=> ShowsLink("rich", note[n]) /\ ~cut
    BY ButtonsShown
  <2>2. HasButton(preview.blocks, n) <=> ShowsLink("plain", note[n]) /\ ~cut
    BY ButtonsShown
  <2> HIDE DEF cut
  <2>3. /\ HasButton(reader.blocks, n) <=>
             (wikiTargets(note[n]) \/ note[n].link = "noAlias") /\ ~cut /\ ~Hides("reader", note[n])
        /\ HasButton(preview.blocks, n) <=>
             (wikiTargets(note[n]) \/ note[n].link = "noAlias") /\ ~cut /\ ~Hides("preview", note[n])
    BY <2>1, <2>2 DEF ShowsLink, Hides
  <2> QED
    BY <2>3 DEF cut
<1> QED
  BY <1>1, <1>2, MarkdownStays, PTL DEF FoundIsShown

-----------------------------------------------------------------------------
(* NoteLinks.                                                              *)
ListTyped == notes \in Seq(NoteForms) /\ passed \in 0..Len(notes)

VaultInv == vault \in [Names -> {0} \cup 1..passed]

\* the note a step takes
LEMMA NoteTaken ==
  ASSUME ListTyped, LinksNext
  PROVE  /\ passed' = passed + 1 /\ passed' \in 1..Len(notes) /\ notes' = notes /\ ListTyped'
         /\ passed \in Nat /\ Len(notes) \in Nat /\ notes[passed'] \in NoteForms
BY DEF ListTyped, LinksNext, NextNote

LEMMA NamesOfNotes ==
  ASSUME ListTyped, NEW id \in DOMAIN notes
  PROVE  notes[id].title \in Titles /\ SafeName(notes[id].title) \in Names
<1>1. notes[id] \in NoteForms
  BY DEF ListTyped
<1>2. notes[id].title \in Titles
  BY <1>1 DEF NoteForms
<1> QED
  BY <1>2 DEF Names

LEMMA VaultStep ==
  ASSUME ListTyped, VaultInv, LinksNext
  PROVE  VaultInv'
<1> DEFINE file == SafeName(notes[passed'].title)
<1>1. /\ passed' = passed + 1 /\ passed' \in 1..Len(notes) /\ notes' = notes
      /\ passed \in Nat /\ Len(notes) \in Nat
  BY NoteTaken
<1>2. file \in Names /\ vault' = [vault EXCEPT ![file] = passed']
  BY <1>1, NamesOfNotes DEF ListTyped, LinksNext, NextNote, exportVaultAsZip
<1> QED
  BY <1>1, <1>2 DEF VaultInv

LEMMA ListTypedInit == LinksInit => ListTyped
BY TablesAssumption DEF LinksInit, ListTyped

LEMMA VaultInit == LinksInit => VaultInv
BY TablesAssumption DEF LinksInit, VaultInv


-----------------------------------------------------------------------------
(* The folders hold the notes passed, each at every place on the way to one *)
(* of its tags.                                                            *)
PlacesOf(id) == UNION {Places(tag) : tag \in ToSet(notes[id].tags)}
FoldersInv ==
  /\ DOMAIN folders = UNION {PlacesOf(id) : id \in 1..passed}
  /\ \A p \in DOMAIN folders : folders[p] = {id \in 1..passed : p \in PlacesOf(id)}
  /\ untagged = {id \in 1..passed : notes[id].tags = <<>>}

LEMMA FoldersInit == LinksInit => FoldersInv
<1> SUFFICES ASSUME LinksInit PROVE FoldersInv
  OBVIOUS
<1>1. passed = 0 /\ 1..passed = {} /\ DOMAIN folders = {} /\ untagged = {}
  BY DEF LinksInit
<1> QED
  BY <1>1 DEF FoldersInv

LEMMA FoldersStep ==
  ASSUME ListTyped, FoldersInv, LinksNext
  PROVE  FoldersInv'
<1> DEFINE here == PlacesOf(passed + 1)
           before == [p \in DOMAIN folders \cup here |-> IF p \in DOMAIN folders THEN folders[p] ELSE {}]
<1>1. /\ passed' = passed + 1 /\ notes' = notes /\ passed \in Nat
      /\ 1..passed' = 1..passed \cup {passed + 1} /\ passed + 1 \notin 1..passed
  BY NoteTaken
<1>2. folders' = [p \in DOMAIN before |-> before[p] \cup (IF p \in here THEN {passed + 1} ELSE {})]
  BY <1>1 DEF LinksNext, NextNote, buildFolderTree, PlacesOf
<1>3. untagged' = IF notes[passed + 1].tags = <<>> THEN untagged \cup {passed + 1} ELSE untagged
  BY <1>1 DEF LinksNext, NextNote
<1>4. \A id : PlacesOf(id)' = PlacesOf(id)
  BY <1>1 DEF PlacesOf
<1> HIDE DEF here
<1>5. DOMAIN folders' = DOMAIN folders \cup here
  BY <1>2
<1>6. DOMAIN folders' = UNION {PlacesOf(id) : id \in 1..passed'}
  BY <1>1, <1>5 DEF FoldersInv, here
<1>7. ASSUME NEW p \in DOMAIN folders'
      PROVE  folders'[p] = {id \in 1..passed' : p \in PlacesOf(id)}
  <2>1. folders'[p] = before[p] \cup (IF p \in here THEN {passed + 1} ELSE {})
    BY <1>2, <1>7
  <2>2. before[p] = {id \in 1..passed : p \in PlacesOf(id)}
    BY <1>5, <1>7 DEF FoldersInv
  <2> HIDE DEF before
  <2> QED
    BY <1>1, <2>1, <2>2 DEF here
<1>8. untagged' = {id \in 1..passed' : notes[id].tags = <<>>}
  BY <1>1, <1>3 DEF FoldersInv
<1> QED
  BY <1>1, <1>4, <1>6, <1>7, <1>8 DEF FoldersInv

\* The path a folder is chosen by is its place, unless the tag starts with a
\* slash.
LEMMA PathIsPlace ==
  ASSUME NEW S, NEW place \in Seq(S), place # <<>>, place[1] # Nothing
  PROVE  fullPath(place) = place
<1> DEFINE N == Len(place)
           Paths == Seq(S)
           none == <<>>
           Further(p, n) == IF p \in {<<>>, <<Nothing>>} THEN <<place[n]>> ELSE Append(p, place[n])
           PathAt(f, n) == IF n = 0 THEN none ELSE Further(f[n - 1], n)
           Step == [x \in Paths \X (1..N) |-> Further(x[1], x[2])]
           Walks(f) == f = [n \in 0..N |-> PathAt(f, n)]
           g == PathTo(place)
           Upto(n) == SubSeq(place, 1, n)
<1>1. N \in Nat /\ N > 0 /\ none \in Paths /\ \A n \in 1..N : place[n] \in S
  OBVIOUS
<1>2. ASSUME NEW p \in Paths, NEW n \in 1..N PROVE Step[<<p, n>>] = Further(p, n) /\ Further(p, n) \in Paths
  BY <1>1
<1>3. Step \in [Paths \X (1..N) -> Paths]
  BY <1>1, <1>2
<1>4. (\E f : Walks(f)) => Walks(g)
  BY DEF PathTo
<1>5. Upto(1) = <<place[1]>> /\ Upto(N) = place
  <2>1. Upto(1) \in Seq(S) /\ Len(Upto(1)) = 1 /\ Upto(1)[1] = place[1]
    BY <1>1
  <2>2. <<place[1]>> \in Seq(S) /\ Len(<<place[1]>>) = 1 /\ <<place[1]>>[1] = place[1]
    BY <1>1
  <2>3. Upto(1) = <<place[1]>>
    <3> HIDE DEF Upto
    <3>1. \A i \in 1..Len(Upto(1)) : Upto(1)[i] = <<place[1]>>[i]
      BY <2>1, <2>2
    <3> QED
      BY <2>1, <2>2, <3>1, SeqEqual
  <2> QED
    BY <2>3, SubSeqFull
<1>6. ASSUME NEW n \in 1..(N - 1) PROVE Further(Upto(n), n + 1) = Upto(n + 1)
  <2>1. Upto(n) \in Seq(S) /\ Len(Upto(n)) = n /\ Upto(n)[1] = place[1]
    BY <1>1
  <2>2. Upto(n) \notin {<<>>, <<Nothing>>}
    <3> HIDE DEF Upto
    <3>1. Len(<<>>) = 0 /\ <<Nothing>>[1] = Nothing
      OBVIOUS
    <3> QED
      BY <2>1, <3>1
  <2>3. Append(Upto(n), place[n + 1]) = Upto(n + 1)
    BY <1>1
  <2> QED
    BY <2>2, <2>3
<1>7. Further(none, 1) = Upto(1)
  BY <1>5
<1> HIDE DEF N, Paths, none, Further, Step, g, Upto
<1>8. PICK f \in [0..N -> Paths] : Iterates(f, none, N, Step)
  BY <1>1, <1>3, IterationExists
<1>9. Walks(f)
  <2>1. ASSUME NEW n \in 1..N PROVE f[n] = Further(f[n - 1], n)
    <3>1. f[n - 1] \in Paths
      BY <1>1
    <3> QED
      BY <1>2, <1>8, <3>1 DEF Iterates
  <2>2. ASSUME NEW n \in 0..N PROVE f[n] = PathAt(f, n)
    BY <1>1, <1>8, <2>1 DEF Iterates
  <2> HIDE DEF PathAt
  <2> QED
    BY <2>2
<1>10. ASSUME NEW n \in 0..N PROVE g[n] = PathAt(g, n)
  <2> HIDE DEF PathAt
  <2> QED
    BY <1>4, <1>9
<1> DEFINE G == {n \in Nat : n + 1 <= N => g[n + 1] = Upto(n + 1)}
<1>11. 0 \in G
  <2>1. g[0] = none /\ g[1] = Further(g[0], 1)
    BY <1>1, <1>10
  <2> QED
    BY <1>7, <2>1
<1>12. ASSUME NEW n \in Nat, n \in G PROVE n + 1 \in G
  <2> SUFFICES ASSUME n + 2 <= N PROVE g[n + 2] = Upto(n + 2)
    BY <1>1
  <2>1. g[n + 1] = Upto(n + 1) /\ n + 1 \in 1..(N - 1) /\ n + 2 \in 0..N /\ n + 2 # 0 /\ n + 2 - 1 = n + 1
        /\ n + 1 + 1 = n + 2
    BY <1>1, <1>12
  <2>2. g[n + 2] = Further(g[n + 1], n + 2)
    BY <1>10, <2>1
  <2> QED
    BY <1>6, <2>1, <2>2
<1>13. N - 1 \in G
  <2> HIDE DEF G
  <2> QED
    BY <1>1, <1>11, <1>12, SetInduction
<1>14. g[N] = Upto(N)
  BY <1>1, <1>13
<1> QED
  BY <1>5, <1>14 DEF fullPath, g, N

\* the places on the way to a tag are its prefixes
LEMMA PlacesArePrefixes ==
  ASSUME NEW S, NEW tag \in Seq(S)
  PROVE  /\ \A place \in Places(tag) : place \in Seq(S) /\ place # <<>> /\ place[1] = tag[1]
         /\ \A place \in Seq(S) : place # <<>> => (IsPrefix(place, tag) <=> place \in Places(tag))
<1>1. ASSUME NEW n \in 1..Len(tag)
      PROVE  LET place == SubSeq(tag, 1, n)
             IN /\ place \in Seq(S) /\ Len(place) = n /\ place # <<>> /\ place[1] = tag[1]
                /\ SubSeq(place, 1, n) = place
  OBVIOUS
<1>2. ASSUME NEW place \in Seq(S), place # <<>>, IsPrefix(place, tag) PROVE place \in Places(tag)
  <2>1. Len(place) \in 1..Len(tag) /\ SubSeq(place, 1, Len(place)) = place
    BY <1>2 DEF IsPrefix
  <2>2. place = SubSeq(tag, 1, Len(place))
    BY <1>2, <2>1 DEF IsPrefix
  <2> QED
    BY <2>1, <2>2 DEF Places
<1>3. ASSUME NEW place \in Places(tag)
      PROVE  place \in Seq(S) /\ place # <<>> /\ place[1] = tag[1] /\ IsPrefix(place, tag)
  <2>1. PICK n \in 1..Len(tag) : place = SubSeq(tag, 1, n)
    BY DEF Places
  <2>2. /\ place \in Seq(S) /\ Len(place) = n /\ place # <<>> /\ place[1] = tag[1]
        /\ SubSeq(place, 1, n) = place
    BY <1>1, <2>1
  <2>3. Len(place) <= Len(tag) /\ SubSeq(place, 1, Len(place)) = SubSeq(tag, 1, Len(place))
    BY <2>1, <2>2
  <2> QED
    BY <2>2, <2>3 DEF IsPrefix
<1> QED
  BY <1>2, <1>3

\* what tags are cut into
Parts == UNION {ToSet(tag) : tag \in Tags} \cup {Nothing}

LEMMA TagsAreSequences ==
  ASSUME ListTyped, NEW id \in DOMAIN notes, NEW tag \in ToSet(notes[id].tags)
  PROVE  tag \in Tags /\ tag \in Seq(Parts) /\ tag # <<>>
<1>1. notes[id] \in NoteForms
  BY DEF ListTyped
<1>2. notes[id].tags \in Seq(Tags)
  BY <1>1 DEF NoteForms
<1>3. tag \in Tags
  BY <1>2 DEF ToSet
<1> QED
  BY <1>3, TablesAssumption DEF Parts


-----------------------------------------------------------------------------
(* The link analysis.  F holds the links followed so far, as pairs of a    *)
(* note and a title: what the loops have gathered tells of exactly these.  *)
HealthForm == [status: {"healthy", "broken", "orphan"}, brokenTargets: Seq(Titles), referencedBy: Seq(Ids)]
Analysis == [health: [Ids -> HealthForm], broken: Seq(Ids \X Titles), gaps: [Titles -> Nat]]
LinksTo(broken, t) == {i \in DOMAIN broken : broken[i][2] = t}
Tells(st, F) ==
  /\ st \in Analysis
  /\ \A id \in Ids : st.health[id].brokenTargets = <<>> <=> \A t : <<id, t>> \in F => titleToId(t) # 0
  /\ \A id \in Ids : st.health[id].referencedBy # <<>> <=> \E x \in F : titleToId(x[2]) = id
  /\ ToSet(st.broken) = {x \in F : titleToId(x[2]) = 0}
  /\ \A t \in Titles : st.gaps[t] = Cardinality(LinksTo(st.broken, t))

\* a link is listed twice only where a note has it twice
NoneTwice(broken) ==
  \A i, k \in DOMAIN broken : i < k /\ broken[i] = broken[k] => Repeats(broken[i][1], broken[i][2])

Gathered == [health |-> health, broken |-> brokenLinks, gaps |-> gapCount]
Links(id) == {<<id, t>> : t \in ToSet(notes[id].links)}
Gone == UNION {Links(id) : id \in 1..passed}
HealthInv ==
  /\ Tells(Gathered, Gone) /\ NoneTwice(brokenLinks)
  /\ Done => \A id \in Ids : health[id].status = Status(health[id], id)

LEMMA GoneTyped ==
  ASSUME ListTyped, 1..passed \subseteq Ids
  PROVE  Gone \subseteq Ids \X Titles
<1> SUFFICES ASSUME NEW i \in Ids PROVE Links(i) \subseteq Ids \X Titles
  BY DEF Gone
<1>1. notes[i] \in NoteForms
  BY DEF ListTyped, Ids
<1>2. notes[i].links \in Seq(Titles)
  BY <1>1 DEF NoteForms
<1>3. ToSet(notes[i].links) \subseteq Titles
  BY <1>2 DEF ToSet
<1> QED
  BY <1>3 DEF Links

\* a title is looked up in the list, from either end
LEMMA TitleLookups ==
  ASSUME ListTyped, NEW t
  PROVE  /\ titleToId(t) \in {0} \cup Ids
         /\ titleToId(t) = 0 <=> \A id \in Ids : notes[id].title # t
         /\ openWikiNote(t) = 0 <=> titleToId(t) = 0
         /\ titleToId(t) # 0 => notes[titleToId(t)].title = t
         /\ openWikiNote(t) # 0 => notes[openWikiNote(t)].title = t /\ openWikiNote(t) \in Ids
<1> DEFINE ids == {id \in Ids : notes[id].title = t}
<1>1. Len(notes) \in Nat /\ ids \subseteq 0..Len(notes) /\ ids \subseteq Nat /\ 0 \notin ids /\ ids \subseteq Ids
  BY DEF ListTyped, Ids
<1>2. titleToId(t) = IF ids = {} THEN 0 ELSE CHOOSE id \in ids : \A other \in ids : other <= id
  BY DEF titleToId
<1>3. openWikiNote(t) = IF ids = {} THEN 0 ELSE CHOOSE id \in ids : \A other \in ids : other >= id
  BY DEF openWikiNote
<1> HIDE DEF ids
<1>4. CASE ids = {}
  BY <1>2, <1>3, <1>4 DEF ids
<1>5. CASE ids # {}
  <2>1. \E id \in ids : \A other \in ids : other <= id
    BY <1>1, <1>5, GreatestNatural
  <2>2. \E id \in ids : \A other \in ids : other >= id
    <3>1. PICK id \in ids : \A other \in ids : id <= other
      BY <1>1, <1>5, LeastNatural
    <3>2. \A other \in ids : other >= id
      BY <1>1, <3>1
    <3> QED
      BY <3>2
  <2>3. titleToId(t) \in ids
    BY <1>2, <1>5, <2>1
  <2>4. openWikiNote(t) \in ids
    BY <1>3, <1>5, <2>2
  <2> QED
    BY <1>1, <2>3, <2>4 DEF ids
<1> QED
  BY <1>4, <1>5

\* from both ends the same note, if no other has its title
LEMMA LookupsAgree ==
  ASSUME ListTyped, NEW id \in Ids, ~Shares(id), NEW t
  PROVE  titleToId(t) = id <=> openWikiNote(t) = id
<1>1. /\ titleToId(t) # 0 => notes[titleToId(t)].title = t /\ titleToId(t) \in Ids
      /\ openWikiNote(t) # 0 => notes[openWikiNote(t)].title = t /\ openWikiNote(t) \in Ids
      /\ openWikiNote(t) = 0 <=> titleToId(t) = 0
  BY TitleLookups
<1>2. id # 0
  BY DEF Ids, ListTyped
<1> QED
  BY <1>1, <1>2 DEF Shares

\* one more broken link to a title
LEMMA LinksToMore ==
  ASSUME NEW S, NEW broken \in Seq(S), NEW x \in S, NEW t
  PROVE  /\ Cardinality(LinksTo(broken, t)) \in Nat
         /\ Cardinality(LinksTo(Append(broken, x), t)) =
              Cardinality(LinksTo(broken, t)) + (IF x[2] = t THEN 1 ELSE 0)
         /\ Cardinality(LinksTo(broken, t)) # 0 <=> \E y \in ToSet(broken) : y[2] = t
<1> DEFINE more == Append(broken, x)
           N == Len(broken)
<1>1. N \in Nat /\ DOMAIN broken = 1..N /\ DOMAIN more = 1..(N + 1) /\ more[N + 1] = x
      /\ \A i \in 1..N : more[i] = broken[i]
  OBVIOUS
<1> HIDE DEF more, N
<1>2. IsFiniteSet(1..N)
  BY <1>1, IntervalFinite
<1>3. IsFiniteSet(LinksTo(broken, t))
  BY <1>1, <1>2, FS_Subset DEF LinksTo
<1>4. LinksTo(more, t) = LinksTo(broken, t) \cup (IF x[2] = t THEN {N + 1} ELSE {})
  BY <1>1 DEF LinksTo
<1>5. N + 1 \notin LinksTo(broken, t)
  BY <1>1 DEF LinksTo
<1>6. Cardinality(LinksTo(broken, t)) # 0 <=> LinksTo(broken, t) # {}
  BY <1>3, FS_EmptySet
<1>7. Cardinality(LinksTo(broken, t)) \in Nat
  BY <1>3, FS_CardinalityType
<1>8. LinksTo(broken, t) # {} <=> \E y \in ToSet(broken) : y[2] = t
  BY DEF LinksTo, ToSet
<1>9. Cardinality(LinksTo(more, t)) = Cardinality(LinksTo(broken, t)) + (IF x[2] = t THEN 1 ELSE 0)
  <2>1. CASE x[2] = t
    <3>1. LinksTo(more, t) = LinksTo(broken, t) \cup {N + 1}
      BY <1>4, <2>1
    <3>2. Cardinality(LinksTo(broken, t) \cup {N + 1}) = Cardinality(LinksTo(broken, t)) + 1
      BY <1>3, <1>5, FS_AddElement
    <3> QED
      BY <2>1, <3>1, <3>2
  <2>2. CASE x[2] # t
    <3>1. LinksTo(more, t) = LinksTo(broken, t)
      BY <1>4, <2>2
    <3> QED
      BY <1>7, <2>2, <3>1
  <2> QED
    BY <2>1, <2>2
<1> QED
  BY <1>6, <1>7, <1>8, <1>9 DEF more

\* following one more link
LEMMA FollowTells ==
  ASSUME ListTyped, NEW st, NEW F, F \subseteq Ids \X Titles, Tells(st, F), NEW id \in Ids, NEW target \in Titles
  PROVE  Tells(Follow(st, id, target), F \cup {<<id, target>>})
<1> DEFINE x == <<id, target>>
           to == titleToId(target)
           new == Follow(st, id, target)
<1>1. /\ st.health \in [Ids -> HealthForm] /\ st.broken \in Seq(Ids \X Titles) /\ st.gaps \in [Titles -> Nat]
      /\ st = [health |-> st.health, broken |-> st.broken, gaps |-> st.gaps]
  BY DEF Tells, Analysis
<1>2. to \in {0} \cup Ids /\ 0 \notin Ids
  BY TitleLookups DEF ListTyped, Ids
<1>3. x \in Ids \X Titles /\ x[1] = id /\ x[2] = target
  OBVIOUS
<1>4. CASE to # 0
  <2> DEFINE refs == Append(st.health[to].referencedBy, id)
             row == [st.health[to] EXCEPT !.referencedBy = refs]
  <2>1. to \in Ids /\ st.health[to] \in HealthForm
    BY <1>1, <1>2, <1>4
  <2>2. refs \in Seq(Ids) /\ refs # <<>>
    <3>1. st.health[to].referencedBy \in Seq(Ids)
      BY <2>1 DEF HealthForm
    <3> QED
      BY <3>1, OneAppended
  <2>3. new = [st EXCEPT !.health = [st.health EXCEPT ![to] = row]]
    BY <1>1, <1>4, <2>1 DEF Follow
  <2> HIDE DEF refs
  <2>4. row \in HealthForm /\ row.brokenTargets = st.health[to].brokenTargets /\ row.referencedBy = refs
    BY <2>1, <2>2 DEF HealthForm
  <2> HIDE DEF row, new, to
  <2>5. /\ new \in Analysis /\ new.broken = st.broken /\ new.gaps = st.gaps
        /\ new.health = [st.health EXCEPT ![to] = row]
    BY <1>1, <2>1, <2>3, <2>4 DEF Analysis
  <2>6. \A i \in Ids : new.health[i].brokenTargets = st.health[i].brokenTargets
    BY <1>1, <2>4, <2>5
  <2>7. \A i \in Ids : new.health[i].referencedBy = IF i = to THEN refs ELSE st.health[i].referencedBy
    BY <1>1, <2>4, <2>5
  <2>8. \A i \in Ids : new.health[i].brokenTargets = <<>> <=>
          \A t : <<i, t>> \in F \cup {x} => titleToId(t) # 0
    BY <1>4, <2>6 DEF Tells, to
  <2>9. ASSUME NEW i \in Ids
        PROVE  new.health[i].referencedBy # <<>> <=> \E y \in F \cup {x} : titleToId(y[2]) = i
    <3>1. CASE i = to
      BY <1>3, <2>2, <2>7, <3>1 DEF to
    <3>2. CASE i # to
      BY <1>3, <2>7, <3>2 DEF Tells, to
    <3> QED
      BY <3>1, <3>2
  <2>10. ToSet(new.broken) = {y \in F \cup {x} : titleToId(y[2]) = 0}
    BY <1>3, <1>4, <2>5 DEF Tells, to
  <2> QED
    BY <2>5, <2>8, <2>9, <2>10 DEF Tells, new
<1>5. CASE to = 0
  <2> DEFINE targets == Append(st.health[id].brokenTargets, target)
             row == [st.health[id] EXCEPT !.brokenTargets = targets]
             broken == Append(st.broken, x)
  <2>1. st.health[id] \in HealthForm
    BY <1>1
  <2>2. targets \in Seq(Titles) /\ targets # <<>>
    <3>1. st.health[id].brokenTargets \in Seq(Titles)
      BY <2>1 DEF HealthForm
    <3> QED
      BY <3>1, OneAppended
  <2>3. new = [st EXCEPT !.health = [st.health EXCEPT ![id] = row], !.broken = broken,
                         !.gaps = [st.gaps EXCEPT ![target] = st.gaps[target] + 1]]
    BY <1>1, <1>5, <2>1 DEF Follow
  <2>4. broken \in Seq(Ids \X Titles) /\ ToSet(broken) = ToSet(st.broken) \cup {x}
    <3> DEFINE S == Ids \X Titles
    <3>1. st.broken \in Seq(S) /\ x \in S
      BY <1>1, <1>3
    <3> HIDE DEF S, x
    <3>2. Append(st.broken, x) \in Seq(S) /\ ToSet(Append(st.broken, x)) = ToSet(st.broken) \cup {x}
      BY <3>1, OneAppended
    <3> QED
      BY <3>2 DEF S
  <2>5. \A t : Cardinality(LinksTo(broken, t)) =
                 Cardinality(LinksTo(st.broken, t)) + (IF target = t THEN 1 ELSE 0)
    <3> DEFINE S == Ids \X Titles
    <3>1. st.broken \in Seq(S) /\ x \in S /\ x[2] = target
      BY <1>1, <1>3
    <3> HIDE DEF S, x
    <3>2. \A t : Cardinality(LinksTo(Append(st.broken, x), t)) =
                   Cardinality(LinksTo(st.broken, t)) + (IF x[2] = t THEN 1 ELSE 0)
      BY <3>1, LinksToMore
    <3> QED
      BY <3>1, <3>2
  <2> HIDE DEF targets
  <2>6. row \in HealthForm /\ row.brokenTargets = targets /\ row.referencedBy = st.health[id].referencedBy
    BY <2>1, <2>2 DEF HealthForm
  <2> HIDE DEF row, new, to, broken, x
  <2>7. /\ new.broken = broken
        /\ new.health = [st.health EXCEPT ![id] = row]
        /\ new.gaps = [st.gaps EXCEPT ![target] = st.gaps[target] + 1]
        /\ new = [health |-> new.health, broken |-> new.broken, gaps |-> new.gaps]
    BY <1>1, <2>3
  <2>8. new \in Analysis
    <3>1. new.health \in [Ids -> HealthForm] /\ new.gaps \in [Titles -> Nat]
      BY <1>1, <2>6, <2>7
    <3> QED
      BY <2>4, <2>7, <3>1 DEF Analysis
  <2>9. \A i \in Ids : /\ new.health[i].brokenTargets = IF i = id THEN targets ELSE st.health[i].brokenTargets
                       /\ new.health[i].referencedBy = st.health[i].referencedBy
    BY <1>1, <2>6, <2>7
  <2>10. ASSUME NEW i \in Ids
         PROVE  new.health[i].brokenTargets = <<>> <=> \A t : <<i, t>> \in F \cup {x} => titleToId(t) # 0
    <3>1. CASE i = id
      BY <1>5, <2>2, <2>9, <3>1 DEF to, x
    <3>2. CASE i # id
      BY <2>9, <3>2 DEF Tells, x
    <3> QED
      BY <3>1, <3>2
  <2>11. ASSUME NEW i \in Ids
         PROVE  new.health[i].referencedBy # <<>> <=> \E y \in F \cup {x} : titleToId(y[2]) = i
    BY <1>2, <1>3, <1>5, <2>9 DEF Tells, to
  <2>12. ToSet(new.broken) = {y \in F \cup {x} : titleToId(y[2]) = 0}
    BY <1>3, <1>5, <2>4, <2>7 DEF Tells, to
  <2>13. \A t \in Titles : new.gaps[t] = Cardinality(LinksTo(new.broken, t))
    BY <1>1, <2>5, <2>7 DEF Tells
  <2> QED
    BY <2>8, <2>10, <2>11, <2>12, <2>13 DEF Tells, new, x
<1> QED
  BY <1>4, <1>5

LEMMA FollowTwice ==
  ASSUME ListTyped, NEW st, NEW F, Tells(st, F), NEW id \in Ids, NEW target \in Titles,
         NoneTwice(st.broken), <<id, target>> \in F => Repeats(id, target)
  PROVE  NoneTwice(Follow(st, id, target).broken)
<1> DEFINE x == <<id, target>>
           new == Follow(st, id, target)
           S == Ids \X Titles
<1>1. /\ st.broken \in Seq(S) /\ x \in S /\ x[1] = id /\ x[2] = target
      /\ st = [health |-> st.health, broken |-> st.broken, gaps |-> st.gaps]
  BY DEF Tells, Analysis
<1>2. CASE titleToId(target) # 0
  <2>1. new.broken = st.broken
    BY <1>1, <1>2 DEF Follow
  <2> QED
    BY <2>1
<1>3. CASE titleToId(target) = 0
  <2> DEFINE more == Append(st.broken, x)
             N == Len(st.broken)
  <2>1. new.broken = more
    BY <1>1, <1>3 DEF Follow
  <2>2. /\ N \in Nat /\ DOMAIN st.broken = 1..N /\ DOMAIN more = 1..(N + 1) /\ more[N + 1] = x
        /\ \A i \in 1..N : more[i] = st.broken[i]
    <3> HIDE DEF S, x
    <3> QED
      BY <1>1
  <2>3. \A i \in 1..N : st.broken[i] \in F
    <3>1. \A i \in 1..N : st.broken[i] \in ToSet(st.broken)
      BY <2>2 DEF ToSet
    <3> QED
      BY <3>1 DEF Tells
  <2> HIDE DEF more, N, x, new
  <2>4. ASSUME NEW i \in 1..(N + 1), NEW k \in 1..(N + 1), i < k, more[i] = more[k]
        PROVE  Repeats(more[i][1], more[i][2])
    <3>1. i \in 1..N
      BY <2>2, <2>4
    <3>2. CASE k = N + 1
      <4>1. st.broken[i] = x /\ more[i] = x /\ x \in F
        BY <2>2, <2>3, <2>4, <3>1, <3>2
      <4> QED
        BY <1>1, <4>1 DEF x
    <3>3. CASE k # N + 1
      <4>1. k \in 1..N
        BY <2>2, <3>3
      <4> QED
        BY <2>2, <2>4, <3>1, <4>1 DEF NoneTwice
    <3> QED
      BY <3>2, <3>3
  <2>5. NoneTwice(more)
    BY <2>2, <2>4 DEF NoneTwice
  <2> QED
    BY <2>1, <2>5 DEF new
<1> QED
  BY <1>2, <1>3

\* following all links of a note
LEMMA AnalyzeTells ==
  ASSUME ListTyped, NEW F, F \subseteq Ids \X Titles, Tells(Gathered, F), NEW id \in Ids,
         NoneTwice(brokenLinks), \A x \in F : x[1] # id
  PROVE  /\ Tells(analyzeLinks(id), F \cup Links(id)) /\ Links(id) \subseteq Ids \X Titles
         /\ NoneTwice(analyzeLinks(id).broken)
<1> DEFINE links == notes[id].links
           N == Len(links)
           Telling == {st \in Analysis : \E E \in SUBSET (Ids \X Titles) : Tells(st, E)}
           Reached(n) == F \cup {<<id, links[k]>> : k \in 1..n}
           StateAt(f, n) == IF n = 0 THEN Gathered ELSE Follow(f[n - 1], id, links[n])
           Step == [x \in Telling \X (1..N) |-> Follow(x[1], id, links[x[2]])]
           Follows(f) == f = [n \in 0..N |-> StateAt(f, n)]
           g == Followed(id)
<1>1. links \in Seq(Titles)
  <2>1. notes[id] \in NoteForms
    BY DEF ListTyped, Ids
  <2> QED
    BY <2>1 DEF NoteForms
<1> HIDE DEF links
<1>2. N \in Nat /\ (\A n \in 1..N : links[n] \in Titles) /\ DOMAIN links = 1..N
  BY <1>1
<1>3. \A n \in 0..N : Reached(n) \subseteq Ids \X Titles
  BY <1>2
<1>4. Links(id) \subseteq Ids \X Titles /\ Reached(N) = F \cup Links(id) /\ Reached(0) = F
  BY <1>2 DEF Links, ToSet, links
<1>5. \A n \in 0..(N - 1) : Reached(n + 1) = Reached(n) \cup {<<id, links[n + 1]>>}
  BY <1>2
<1>6. Gathered \in Telling
  BY DEF Tells
<1>7. ASSUME NEW st \in Telling, NEW n \in 1..N
      PROVE  Step[<<st, n>>] = Follow(st, id, links[n]) /\ Follow(st, id, links[n]) \in Telling
  <2>1. PICK E \in SUBSET (Ids \X Titles) : Tells(st, E)
    OBVIOUS
  <2>2. links[n] \in Titles
    BY <1>2
  <2>3. Tells(Follow(st, id, links[n]), E \cup {<<id, links[n]>>})
    BY <2>1, <2>2, FollowTells
  <2>4. E \cup {<<id, links[n]>>} \in SUBSET (Ids \X Titles)
    BY <2>2
  <2>5. Follow(st, id, links[n]) \in Analysis
    BY <2>3 DEF Tells
  <2> QED
    BY <2>3, <2>4, <2>5
<1>8. Step \in [Telling \X (1..N) -> Telling]
  BY <1>7
<1>9. (\E f : Follows(f)) => Follows(g)
  BY DEF Followed, Gathered, links
<1> HIDE DEF N, Telling, Reached, Step, g
<1>10. PICK f \in [0..N -> Telling] : Iterates(f, Gathered, N, Step)
  BY <1>2, <1>6, <1>8, IterationExists
<1>11. Follows(f)
  <2>1. ASSUME NEW n \in 1..N PROVE f[n] = Follow(f[n - 1], id, links[n])
    <3>1. f[n - 1] \in Telling
      BY <1>2
    <3> QED
      BY <1>7, <1>10, <3>1 DEF Iterates
  <2>2. ASSUME NEW n \in 0..N PROVE f[n] = StateAt(f, n)
    BY <1>2, <1>10, <2>1 DEF Iterates
  <2> HIDE DEF StateAt
  <2> QED
    BY <2>2
<1>12. ASSUME NEW n \in 0..N PROVE g[n] = StateAt(g, n)
  <2> HIDE DEF StateAt
  <2> QED
    BY <1>9, <1>11
<1>17. ASSUME NEW n \in 0..(N - 1), <<id, links[n + 1]>> \in Reached(n) PROVE Repeats(id, links[n + 1])
  <2>1. <<id, links[n + 1]>> \notin F
    OBVIOUS
  <2>2. PICK k \in 1..n : <<id, links[k]>> = <<id, links[n + 1]>>
    BY <1>17, <2>1 DEF Reached
  <2>3. k # n + 1 /\ k \in DOMAIN links /\ n + 1 \in DOMAIN links /\ links[k] = links[n + 1]
    BY <1>2, <2>2
  <2>4. {links[k], links[n + 1]} = {links[n + 1]}
    BY <2>3
  <2> QED
    BY <2>3, <2>4 DEF Repeats, links
<1> DEFINE Good(n) == Tells(g[n], Reached(n)) /\ NoneTwice(g[n].broken)
           G == {n \in Nat : n <= N => Good(n)}
<1>13. 0 \in G
  <2>1. g[0] = Gathered
    BY <1>2, <1>12
  <2>2. Gathered.broken = brokenLinks
    BY DEF Gathered
  <2> QED
    BY <1>4, <2>1, <2>2
<1>14. ASSUME NEW n \in Nat, n \in G PROVE n + 1 \in G
  <2> SUFFICES ASSUME n + 1 <= N PROVE Good(n + 1)
    OBVIOUS
  <2>1. Good(n) /\ n \in 0..(N - 1) /\ n + 1 \in 0..N /\ n \in 0..N /\ n + 1 # 0
        /\ n + 1 - 1 = n /\ n + 1 \in 1..N
    BY <1>2, <1>14
  <2>2. g[n + 1] = Follow(g[n], id, links[n + 1])
    BY <1>12, <2>1
  <2>3. Reached(n) \subseteq Ids \X Titles /\ links[n + 1] \in Titles
    BY <1>2, <1>3, <2>1
  <2>4. Tells(Follow(g[n], id, links[n + 1]), Reached(n) \cup {<<id, links[n + 1]>>})
    BY <2>1, <2>3, FollowTells
  <2>5. NoneTwice(Follow(g[n], id, links[n + 1]).broken)
    BY <1>17, <2>1, <2>3, FollowTwice
  <2> QED
    BY <1>5, <2>1, <2>2, <2>4, <2>5
<1>15. N \in G
  <2> HIDE DEF G
  <2> QED
    BY <1>2, <1>13, <1>14, SetInduction
<1>16. Tells(g[N], F \cup Links(id)) /\ NoneTwice(g[N].broken)
  <2>1. N <= N
    BY <1>2
  <2>2. Good(N)
    BY <1>15, <2>1
  <2> QED
    BY <1>4, <2>2
<1> QED
  BY <1>4, <1>16 DEF analyzeLinks, g, N, links

\* marking the notes leaves what is told of the links
LEMMA MarkTells ==
  ASSUME ListTyped, NEW st, NEW F, Tells(st, F), NEW h \in [Ids -> HealthForm],
         \A i \in Ids : /\ h[i].brokenTargets = st.health[i].brokenTargets
                       /\ h[i].referencedBy = st.health[i].referencedBy
  PROVE  Tells([health |-> h, broken |-> st.broken, gaps |-> st.gaps], F)
<1> DEFINE new == [health |-> h, broken |-> st.broken, gaps |-> st.gaps]
<1>1. new \in Analysis /\ new.health = h /\ new.broken = st.broken /\ new.gaps = st.gaps
  BY DEF Tells, Analysis
<1> HIDE DEF new
<1>2. Tells(new, F)
  BY <1>1 DEF Tells
<1> QED
  BY <1>2 DEF new

LEMMA HealthInit == LinksInit => HealthInv
<1> SUFFICES ASSUME LinksInit PROVE HealthInv
  OBVIOUS
<1>1. notes \in Seq(NoteForms) /\ passed = 0 /\ 1..passed = {} /\ Gone = {}
  BY TablesAssumption DEF LinksInit, Gone
<1>2. Gathered \in Analysis
  BY DEF LinksInit, Gathered, Analysis, HealthForm
<1>3. \A t \in Titles : LinksTo(brokenLinks, t) = {} /\ gapCount[t] = 0
  BY DEF LinksInit, LinksTo
<1>4. \A id \in Ids : health[id].brokenTargets = <<>> /\ health[id].referencedBy = <<>>
  BY DEF LinksInit
<1>5. ToSet(brokenLinks) = {} /\ NoneTwice(brokenLinks)
  BY DEF LinksInit, ToSet, NoneTwice
<1>6. \A t \in Titles : gapCount[t] = Cardinality(LinksTo(brokenLinks, t))
  BY <1>3, FS_EmptySet
<1>7. Tells(Gathered, Gone)
  BY <1>1, <1>2, <1>4, <1>5, <1>6 DEF Tells, Gathered
<1>8. Done => Ids = {}
  BY <1>1 DEF Done, Ids
<1> QED
  BY <1>5, <1>7, <1>8 DEF HealthInv

LEMMA HealthStep ==
  ASSUME ListTyped, HealthInv, LinksNext
  PROVE  HealthInv'
<1> DEFINE id == passed + 1
           st == analyzeLinks(id)
<1>1. /\ passed' = id /\ id \in Ids /\ notes' = notes /\ passed \in Nat
      /\ 1..passed' = 1..passed \cup {id} /\ Ids' = Ids /\ 1..passed \subseteq Ids
  BY NoteTaken DEF Ids, ListTyped
<1>2. /\ health' = IF passed' = Len(notes) THEN Marked(st.health) ELSE st.health
      /\ brokenLinks' = st.broken /\ gapCount' = st.gaps
  BY <1>1 DEF LinksNext, NextNote
<1>3. \A i : Links(i)' = Links(i)
  BY <1>1 DEF Links
<1>4. Gone' = Gone \cup Links(id)
  BY <1>1, <1>3 DEF Gone
<1>5. Gone \subseteq Ids \X Titles
  BY <1>1, GoneTyped
<1>11. \A x \in Gone : x[1] # id
  BY <1>1 DEF Gone, Links
<1>6. Tells(st, Gone') /\ NoneTwice(st.broken)
  BY <1>1, <1>4, <1>5, <1>11, AnalyzeTells DEF HealthInv
<1> HIDE DEF id, st
<1>7. \A t : titleToId(t)' = titleToId(t)
  BY <1>1 DEF titleToId
<1>12. NoneTwice(brokenLinks)'
  <2>1. \A i, t : Repeats(i, t)' <=> Repeats(i, t)
    BY <1>1 DEF Repeats
  <2> QED
    BY <1>2, <1>6, <2>1 DEF NoneTwice
<1>8. /\ st.health \in [Ids -> HealthForm] /\ st.broken \in Seq(Ids \X Titles) /\ st.gaps \in [Titles -> Nat]
  BY <1>6 DEF Tells, Analysis
<1>9. CASE passed' = Len(notes)
  <2>1. health' = [i \in Ids |-> [st.health[i] EXCEPT !.status = Status(st.health[i], i)]]
    BY <1>2, <1>9 DEF Marked
  <2>2. ASSUME NEW i \in Ids
        PROVE  /\ health'[i] \in HealthForm
               /\ health'[i].brokenTargets = st.health[i].brokenTargets
               /\ health'[i].referencedBy = st.health[i].referencedBy
               /\ health'[i].status = Status(st.health[i], i)
    <3>1. st.health[i] \in HealthForm
      BY <1>8
    <3>2. Status(st.health[i], i) \in {"healthy", "broken", "orphan"}
      BY DEF Status
    <3>3. health'[i] = [st.health[i] EXCEPT !.status = Status(st.health[i], i)]
      BY <2>1
    <3> DEFINE s == Status(st.health[i], i)
               h == st.health[i]
    <3> HIDE DEF s, h
    <3> QED
      BY <3>1, <3>2, <3>3 DEF HealthForm, s, h
  <2>3. \A i \in Ids : Status(health'[i], i) = Status(st.health[i], i)
    BY <2>2 DEF Status
  <2>4. health' \in [Ids -> HealthForm]
    BY <2>1, <2>2
  <2>5. Tells([health |-> health', broken |-> st.broken, gaps |-> st.gaps], Gone')
    BY <1>6, <2>2, <2>4, MarkTells
  <2>6. Tells(Gathered', Gone')
    BY <1>2, <2>5 DEF Gathered
  <2>7. \A i \in Ids' : health'[i].status = Status(health[i], i)'
    BY <1>1, <2>2, <2>3 DEF Status
  <2> QED
    BY <1>1, <1>7, <1>12, <2>6, <2>7 DEF HealthInv, Tells, Analysis, HealthForm
<1>10. CASE passed' # Len(notes)
  <2>1. ~Done'
    BY <1>1, <1>10 DEF Done
  <2>2. Gathered' = st
    BY <1>2, <1>6, <1>10 DEF Gathered, Tells, Analysis
  <2>3. Tells(Gathered', Gone')
    BY <1>6, <2>2
  <2> QED
    BY <1>1, <1>7, <1>12, <2>1, <2>3 DEF HealthInv, Tells, Analysis, HealthForm
<1> QED
  BY <1>9, <1>10

LinksInv == ListTyped /\ VaultInv /\ FoldersInv /\ HealthInv

LEMMA LinksInitInv == LinksInit => LinksInv
BY ListTypedInit, VaultInit, FoldersInit, HealthInit DEF LinksInv

\* where another part runs
LEMMA LinksOffInv == LinksOff => LinksInv
<1> SUFFICES ASSUME LinksOff PROVE LinksInv
  OBVIOUS
<1>1. notes = <<>> /\ notes \in Seq(NoteForms) /\ Len(notes) = 0 /\ passed = 0 /\ 1..passed = {} /\ Ids = {}
  BY EmptySeq DEF LinksOff, Ids
<1>2. ListTyped /\ VaultInv
  BY <1>1 DEF LinksOff, ListTyped, VaultInv
<1>3. DOMAIN folders = {} /\ untagged = {}
  BY DEF LinksOff
<1>4. FoldersInv
  BY <1>1, <1>3 DEF FoldersInv
<1>5. health \in [Ids -> HealthForm]
  BY <1>1 DEF LinksOff
<1>6. brokenLinks \in Seq(Ids \X Titles) /\ DOMAIN brokenLinks = {}
  BY EmptySeq DEF LinksOff
<1>7. gapCount \in [Titles -> Nat] /\ \A t \in Titles : gapCount[t] = 0
  BY DEF LinksOff
<1>8. Gone = {} /\ ToSet(brokenLinks) = {} /\ \A t \in Titles : LinksTo(brokenLinks, t) = {}
  BY <1>1, <1>6 DEF Gone, ToSet, LinksTo
<1>9. Tells(Gathered, Gone)
  BY <1>1, <1>5, <1>6, <1>7, <1>8, FS_EmptySet DEF Tells, Gathered, Analysis
<1>10. NoneTwice(brokenLinks)
  BY <1>6 DEF NoneTwice
<1> QED
  BY <1>1, <1>2, <1>4, <1>9, <1>10 DEF LinksInv, HealthInv

LEMMA LinksStep == LinksInv /\ [LinksNext]_linkVars => LinksInv'
<1>1. ASSUME LinksInv, LinksNext PROVE LinksInv'
  BY <1>1, NoteTaken, VaultStep, FoldersStep, HealthStep DEF LinksInv
<1>2. ASSUME LinksInv, UNCHANGED linkVars PROVE LinksInv'
  <2>1. ListTyped' /\ VaultInv'
    BY <1>2 DEF LinksInv, ListTyped, VaultInv, linkVars
  <2>2. FoldersInv'
    BY <1>2 DEF LinksInv, FoldersInv, PlacesOf, linkVars
  <2>3. HealthInv'
    <3>1. /\ notes' = notes /\ passed' = passed /\ health' = health /\ brokenLinks' = brokenLinks
          /\ gapCount' = gapCount
      BY <1>2 DEF linkVars, analysis
    <3>2. Ids' = Ids /\ Gathered' = Gathered /\ Gone' = Gone /\ (Done' <=> Done)
      BY <3>1 DEF Ids, Gathered, Gone, Links, Done
    <3>3. \A t : titleToId(t)' = titleToId(t)
      BY <3>1, <3>2 DEF titleToId
    <3>4. Tells(Gathered, Gone)'
      BY <1>2, <3>2, <3>3 DEF LinksInv, HealthInv, Tells, Analysis, HealthForm
    <3>5. \A id \in Ids : Status(health[id], id)' = Status(health[id], id)
      BY <3>1 DEF Status
    <3>6. NoneTwice(brokenLinks)'
      <4>1. \A i, t : Repeats(i, t)' <=> Repeats(i, t)
        BY <3>1 DEF Repeats
      <4> QED
        BY <1>2, <3>1, <4>1 DEF LinksInv, HealthInv, NoneTwice
    <3> QED
      BY <1>2, <3>1, <3>2, <3>4, <3>5, <3>6 DEF LinksInv, HealthInv
  <2> QED
    BY <2>1, <2>2, <2>3 DEF LinksInv
<1> QED
  BY <1>1, <1>2

LEMMA LinksInvType == LinksInv => LinksTypeOK
<1> SUFFICES ASSUME LinksInv PROVE LinksTypeOK
  OBVIOUS
<1>1. notes \in Seq(NoteForms) /\ passed \in 0..Len(notes) /\ vault \in [Names -> {0} \cup 1..passed]
  BY DEF LinksInv, ListTyped, VaultInv
<1>2. health \in [Ids -> HealthForm] /\ brokenLinks \in Seq(Ids \X Titles) /\ gapCount \in [Titles -> Nat]
  BY DEF LinksInv, HealthInv, Tells, Gathered, Analysis
<1>3. ASSUME NEW id \in Ids
      PROVE  /\ health[id].status \in {"healthy", "broken", "orphan"}
             /\ ToSet(health[id].brokenTargets) \subseteq Titles
             /\ ToSet(health[id].referencedBy) \subseteq Ids
  <2>1. /\ health[id].status \in {"healthy", "broken", "orphan"}
        /\ health[id].brokenTargets \in Seq(Titles) /\ health[id].referencedBy \in Seq(Ids)
    BY <1>2 DEF HealthForm
  <2> QED
    BY <2>1 DEF ToSet
<1>4. ToSet(brokenLinks) \subseteq Ids \X Titles
  <2> DEFINE S == Ids \X Titles
  <2>1. brokenLinks \in Seq(S)
    BY <1>2
  <2> HIDE DEF S
  <2>2. ToSet(brokenLinks) \subseteq S
    BY <2>1 DEF ToSet
  <2> QED
    BY <2>2 DEF S
<1>5. ASSUME NEW place \in DOMAIN folders PROVE folders[place] \subseteq 1..passed /\ folders[place] # {}
  BY DEF LinksInv, FoldersInv
<1>6. untagged \subseteq 1..passed
  BY DEF LinksInv, FoldersInv
<1> QED
  BY <1>1, <1>2, <1>3, <1>4, <1>5, <1>6 DEF LinksTypeOK

LEMMA LinksStay == LinksSpec => []LinksInv
<1> QED
  BY LinksInitInv, LinksStep, PTL DEF LinksSpec

LEMMA TwoOf ==
  ASSUME NEW S, IsFiniteSet(S)
  PROVE  Cardinality(S) >= 2 <=> \E i, k \in S : i # k
<1>1. Cardinality(S) \in Nat /\ (Cardinality(S) = 0 <=> S = {})
  BY FS_EmptySet, FS_CardinalityType
<1>2. ASSUME NEW i \in S, NEW k \in S, i # k PROVE Cardinality(S) >= 2
  <2>1. Cardinality(S) = 1 => \E x : S = {x}
    BY FS_Singleton
  <2>2. ~\E x : S = {x}
    BY <1>2
  <2> QED
    BY <1>1, <1>2, <2>1, <2>2
<1>3. ASSUME Cardinality(S) >= 2 PROVE \E i, k \in S : i # k
  <2>1. PICK i \in S : TRUE
    BY <1>1, <1>3
  <2>2. S # {i}
    BY <1>3, FS_Singleton
  <2> QED
    BY <2>1, <2>2
<1> QED
  BY <1>2, <1>3

\* The analysis and the navigation agree on which links are broken, and so on
\* which notes; where titles differ they agree on the orphans, and where no
\* note repeats a link the gaps are what two notes miss.
THEOREM HealthIsTrue == LinksSpec => []HealthTellsTheTruth
<1>1. LinksInv => HealthTellsTheTruth
  <2> SUFFICES ASSUME LinksInv, Done PROVE HealthTellsTheTruth
    BY DEF HealthTellsTheTruth
  <2>1. ListTyped /\ Tells(Gathered, Gone) /\ Ids = 1..passed
    BY DEF LinksInv, HealthInv, Done, Ids, ListTyped
  <2>2. \A id \in Ids : \A t : <<id, t>> \in Gone <=> t \in ToSet(notes[id].links)
    BY <2>1 DEF Gone, Links
  <2>3. \A t : openWikiNote(t) = 0 <=> titleToId(t) = 0
    BY <2>1, TitleLookups
  <2>4. \A id \in Ids : health[id].referencedBy # <<>> <=> \E x \in Gone : titleToId(x[2]) = id
    BY <2>1 DEF Tells, Gathered
  <2>5. ToSet(brokenLinks) = {x \in Gone : titleToId(x[2]) = 0}
    BY <2>1 DEF Tells, Gathered
  <2>6. \A id \in Ids : health[id].brokenTargets = <<>> <=> \A t : <<id, t>> \in Gone => titleToId(t) # 0
    BY <2>1 DEF Tells, Gathered
  <2>7. \A id \in Ids : health[id].status = Status(health[id], id)
    BY DEF LinksInv, HealthInv
  <2>8. ASSUME NEW t \in Titles
        PROVE  LET missed == openWikiNote(t) = 0 /\ \E id, other \in Linking(t) : id # other
               IN /\ missed => t \in knowledgeGaps
                  /\ t \in knowledgeGaps /\ (\A id \in Ids : ~Repeats(id, t)) => missed
    <3>1. gapCount[t] = Cardinality(LinksTo(brokenLinks, t))
      BY <2>1 DEF Tells, Gathered
    <3>2. PICK S : brokenLinks \in Seq(S)
      BY <2>1 DEF Tells, Gathered, Analysis
    <3>3. IsFiniteSet(LinksTo(brokenLinks, t))
      <4>1. Len(brokenLinks) \in Nat /\ DOMAIN brokenLinks = 1..Len(brokenLinks)
        BY <3>2
      <4>2. IsFiniteSet(DOMAIN brokenLinks)
        BY <4>1, IntervalFinite
      <4> QED
        BY <4>2, FS_Subset DEF LinksTo
    <3>4. t \in knowledgeGaps <=> \E i, k \in LinksTo(brokenLinks, t) : i # k
      BY <3>1, <3>3, TwoOf DEF knowledgeGaps
    <3>5. Gone \subseteq {<<id, u>> : id \in Ids, u \in Titles}
      BY <2>1, GoneTyped
    <3>6. ASSUME NEW i \in LinksTo(brokenLinks, t)
          PROVE  \E id \in Linking(t) : brokenLinks[i] = <<id, t>> /\ openWikiNote(t) = 0
      <4>1. brokenLinks[i] \in Gone /\ titleToId(t) = 0 /\ brokenLinks[i][2] = t
        BY <2>5, <3>6 DEF LinksTo, ToSet
      <4>2. PICK id \in Ids, u \in Titles : brokenLinks[i] = <<id, u>>
        BY <3>5, <4>1
      <4>3. u = t
        BY <4>1, <4>2
      <4> QED
        BY <2>2, <2>3, <4>1, <4>2, <4>3 DEF Linking
    <3>7. ASSUME openWikiNote(t) = 0, NEW id \in Linking(t), NEW other \in Linking(t), id # other
          PROVE  t \in knowledgeGaps
      <4>1. <<id, t>> \in ToSet(brokenLinks) /\ <<other, t>> \in ToSet(brokenLinks)
        BY <2>2, <2>3, <2>5, <3>7 DEF Linking
      <4>2. PICK i \in DOMAIN brokenLinks : brokenLinks[i] = <<id, t>>
        BY <4>1 DEF ToSet
      <4>3. PICK k \in DOMAIN brokenLinks : brokenLinks[k] = <<other, t>>
        BY <4>1 DEF ToSet
      <4>4. i # k /\ i \in LinksTo(brokenLinks, t) /\ k \in LinksTo(brokenLinks, t)
        BY <3>7, <4>2, <4>3 DEF LinksTo
      <4> QED
        BY <3>4, <4>4
    <3>8. ASSUME t \in knowledgeGaps, \A id \in Ids : ~Repeats(id, t)
          PROVE  openWikiNote(t) = 0 /\ \E id, other \in Linking(t) : id # other
      <4>1. PICK i \in LinksTo(brokenLinks, t), k \in LinksTo(brokenLinks, t) : i # k
        BY <3>4, <3>8
      <4>2. PICK id \in Linking(t) : brokenLinks[i] = <<id, t>> /\ openWikiNote(t) = 0
        BY <3>6
      <4>3. PICK other \in Linking(t) : brokenLinks[k] = <<other, t>>
        BY <3>6
      <4>4. id # other
        <5> SUFFICES ASSUME id = other PROVE FALSE
          OBVIOUS
        <5>1. i \in DOMAIN brokenLinks /\ k \in DOMAIN brokenLinks /\ id \in Ids
          BY <4>1 DEF LinksTo, Linking
        <5>2. i \in Int /\ k \in Int
          BY <3>2, <5>1
        <5>3. NoneTwice(brokenLinks)
          BY DEF LinksInv, HealthInv
        <5>4. brokenLinks[i] = brokenLinks[k] /\ brokenLinks[i][1] = id /\ brokenLinks[i][2] = t
          BY <4>2, <4>3
        <5>5. Repeats(id, t)
          <6>1. CASE i < k
            BY <5>1, <5>3, <5>4, <6>1 DEF NoneTwice
          <6>2. CASE k < i
            BY <5>1, <5>3, <5>4, <6>2 DEF NoneTwice
          <6> QED
            BY <4>1, <5>2, <6>1, <6>2
        <5> QED
          BY <3>8, <5>1, <5>5
      <4> QED
        BY <4>2, <4>4
    <3> QED
      BY <3>7, <3>8
  <2>9. ASSUME NEW id \in Ids, NEW t \in ToSet(notes[id].links)
        PROVE  <<id, t>> \in ToSet(brokenLinks) <=> openWikiNote(t) = 0
    BY <2>2, <2>3, <2>5
  <2>10. ASSUME NEW id \in Ids
         PROVE  health[id].status = "broken" <=> \E t \in ToSet(notes[id].links) : openWikiNote(t) = 0
    <3>1. health[id].brokenTargets # <<>> <=> \E t \in ToSet(notes[id].links) : openWikiNote(t) = 0
      BY <2>2, <2>3, <2>6
    <3>2. health[id].brokenTargets # <<>> => notes[id].links # <<>>
      <4>1. notes[id].links = <<>> => ToSet(notes[id].links) = {}
        BY DEF ToSet
      <4> QED
        BY <3>1, <4>1
    <3> QED
      BY <2>7, <3>1, <3>2 DEF Status
  <2>11. ASSUME NEW id \in Ids, ~Shares(id)
         PROVE  health[id].status = "orphan" <=>
                  /\ notes[id].links = <<>>
                  /\ \A other \in Ids : \A t \in ToSet(notes[other].links) : openWikiNote(t) # id
    <3>1. \A t : titleToId(t) = id <=> openWikiNote(t) = id
      BY <2>1, <2>11, LookupsAgree
    <3>2. health[id].referencedBy # <<>> <=>
            \E other \in Ids : \E t \in ToSet(notes[other].links) : openWikiNote(t) = id
      <4>1. \A other \in Ids : \A t \in ToSet(notes[other].links) : <<other, t>> \in Gone
        BY <2>2
      <4>2. \A x \in Gone : \E other \in Ids : \E t \in ToSet(notes[other].links) : x = <<other, t>>
        BY <2>1 DEF Gone, Links
      <4>3. \A other, t : <<other, t>>[2] = t
        OBVIOUS
      <4>4. (\E x \in Gone : titleToId(x[2]) = id) =>
              \E other \in Ids : \E t \in ToSet(notes[other].links) : titleToId(t) = id
        <5> SUFFICES ASSUME NEW x \in Gone, titleToId(x[2]) = id
                     PROVE  \E other \in Ids : \E t \in ToSet(notes[other].links) : titleToId(t) = id
          OBVIOUS
        <5>0. PICK other \in Ids : \E t \in ToSet(notes[other].links) : x = <<other, t>>
          BY <4>2
        <5>1. PICK t \in ToSet(notes[other].links) : x = <<other, t>>
          BY <5>0
        <5>2. x[2] = t
          BY <4>3, <5>1
        <5> QED
          BY <5>2
      <4>5. ASSUME NEW other \in Ids, NEW t \in ToSet(notes[other].links), titleToId(t) = id
            PROVE  \E x \in Gone : titleToId(x[2]) = id
        <5>1. <<other, t>> \in Gone /\ <<other, t>>[2] = t
          BY <4>1, <4>3
        <5> QED
          BY <4>5, <5>1
      <4> QED
        BY <2>4, <3>1, <4>4, <4>5
    <3>3. notes[id].links = <<>> => health[id].brokenTargets = <<>>
      <4>1. notes[id].links = <<>> => ToSet(notes[id].links) = {}
        BY DEF ToSet
      <4> QED
        BY <2>2, <2>6, <4>1
    <3> QED
      BY <2>7, <3>2, <3>3 DEF Status
  <2> QED
    BY <2>8, <2>9, <2>10, <2>11 DEF HealthTellsTheTruth
<1> QED
  BY <1>1, LinksStay, PTL

\* The number beside a folder is that of the notes choosing it shows, but for
\* tags that start with a slash.
THEOREM FoldersCountRight == LinksSpec => []FolderCountsMatch
<1>1. LinksInv => FolderCountsMatch
  <2> SUFFICES ASSUME LinksInv, Done,
                      \A tag \in Tags : (\E id \in Ids : tag \in ToSet(notes[id].tags)) => Head(tag) # Nothing
               PROVE  /\ \A place \in DOMAIN folders : folders[place] = Filtered(fullPath(place))
                      /\ \A id \in Ids : id \in untagged <=> \A place \in DOMAIN folders : id \notin folders[place]
    BY DEF FolderCountsMatch
  <2>0. ListTyped /\ FoldersInv
    BY DEF LinksInv
  <2>1. Ids = 1..passed /\ Ids = DOMAIN notes
    BY <2>0 DEF Ids, Done, ListTyped
  <2>2. ASSUME NEW id \in Ids, NEW tag \in ToSet(notes[id].tags)
        PROVE  tag \in Seq(Parts) /\ tag # <<>> /\ tag[1] # Nothing
    <3>1. tag \in Tags /\ tag \in Seq(Parts) /\ tag # <<>>
      BY <2>0, <2>1, <2>2, TagsAreSequences
    <3>2. Head(tag) # Nothing /\ Head(tag) = tag[1]
      BY <2>2, <3>1
    <3> QED
      BY <3>1, <3>2
  <2>3. ASSUME NEW place \in DOMAIN folders PROVE folders[place] = Filtered(fullPath(place))
    <3>1. PICK id \in Ids : \E tag \in ToSet(notes[id].tags) : place \in Places(tag)
      BY <2>0, <2>1 DEF FoldersInv, PlacesOf
    <3>2. place \in Seq(Parts) /\ place # <<>> /\ place[1] # Nothing
      BY <2>2, <3>1, PlacesArePrefixes
    <3>3. fullPath(place) = place
      BY <3>2, PathIsPlace
    <3>4. place # <<Nothing>>
      BY <3>2
    <3>5. \A other \in Ids : \A tag \in ToSet(notes[other].tags) : IsPrefix(place, tag) <=> place \in Places(tag)
      BY <2>2, <3>2, PlacesArePrefixes
    <3>6. \A other \in Ids : place \in PlacesOf(other) <=> \E tag \in ToSet(notes[other].tags) : IsPrefix(place, tag)
      BY <3>5 DEF PlacesOf
    <3>7. folders[place] = {other \in Ids : place \in PlacesOf(other)}
      BY <2>0, <2>1 DEF FoldersInv
    <3> QED
      BY <3>3, <3>4, <3>6, <3>7 DEF Filtered
  <2>4. ASSUME NEW id \in Ids
        PROVE  id \in untagged <=> \A place \in DOMAIN folders : id \notin folders[place]
    <3>1. notes[id].tags = <<>> <=> PlacesOf(id) = {}
      <4>1. notes[id].tags \in Seq(Tags)
        <5>1. notes[id] \in NoteForms
          BY <2>0, <2>1 DEF ListTyped
        <5> QED
          BY <5>1 DEF NoteForms
      <4>2. CASE notes[id].tags = <<>>
        <5>1. ToSet(notes[id].tags) = {}
          BY <4>2 DEF ToSet
        <5> QED
          BY <4>2, <5>1 DEF PlacesOf
      <4>3. CASE notes[id].tags # <<>>
        <5> DEFINE tags == notes[id].tags
        <5>1. 1 \in DOMAIN tags
          <6> HIDE DEF tags
          <6> QED
            BY <4>1, <4>3 DEF tags
        <5>2. PICK tag : tag \in ToSet(tags)
          BY <5>1 DEF ToSet
        <5>3. 1 \in 1..Len(tag)
          BY <2>2, <5>2
        <5>4. SubSeq(tag, 1, 1) \in Places(tag)
          BY <5>3 DEF Places
        <5>5. SubSeq(tag, 1, 1) \in PlacesOf(id)
          BY <5>2, <5>4 DEF PlacesOf
        <5> QED
          BY <4>3, <5>5
      <4> QED
        BY <4>2, <4>3
    <3>2. id \in 1..passed /\ PlacesOf(id) \subseteq DOMAIN folders
      BY <2>0, <2>1 DEF FoldersInv
    <3>3. \A place \in DOMAIN folders : id \in folders[place] <=> place \in PlacesOf(id)
      BY <2>0, <3>2 DEF FoldersInv
    <3> QED
      BY <2>0, <3>1, <3>2, <3>3 DEF FoldersInv
  <2> QED
    BY <2>3, <2>4
<1> QED
  BY <1>1, LinksStay, PTL

-----------------------------------------------------------------------------
(* NoteGraph.                                                              *)
LEMMA NotesFinite == IsFiniteSet(Notes) /\ Count \in Nat
BY GraphAssumption, IntervalFinite DEF Notes

LEMMA PairsFinite == IsFiniteSet(Pairs) /\ \A S \in SUBSET Pairs : IsFiniteSet(S)
<1>1. IsFiniteSet(SUBSET Notes) /\ Pairs \subseteq SUBSET Notes
  BY NotesFinite, FS_SUBSET DEF Pairs
<1>2. IsFiniteSet(Pairs)
  BY <1>1, FS_Subset
<1> QED
  BY <1>2, FS_Subset

\* A pair has two ends, and each has the other.
LEMMA PairEnds ==
  ASSUME NEW p \in Pairs
  PROVE  \E x, y \in Notes : x < y /\ p = {x, y}
<1>1. p \subseteq Notes /\ Cardinality(p) = 2 /\ IsFiniteSet(p)
  BY NotesFinite, FS_Subset DEF Pairs
<1>2. p # {}
  BY <1>1, FS_EmptySet
<1>3. PICK x \in p : TRUE
  BY <1>2
<1>4. IsFiniteSet(p \ {x}) /\ Cardinality(p \ {x}) = 1
  BY <1>1, <1>3, FS_RemoveElement
<1>5. PICK y : p \ {x} = {y}
  BY <1>4, FS_Singleton
<1>6. p = {x, y} /\ x # y /\ x \in Notes /\ y \in Notes
  BY <1>1, <1>3, <1>5
<1>7. x \in Nat /\ y \in Nat
  BY <1>6 DEF Notes
<1>8. x < y \/ y < x
  BY <1>6, <1>7
<1> QED
  BY <1>6, <1>8

LEMMA OtherEnd ==
  ASSUME NEW p \in Pairs, NEW n \in p
  PROVE  Other(p, n) \in p /\ Other(p, n) # n /\ p = {n, Other(p, n)} /\ p \subseteq Notes
<1>1. PICK x, y \in Notes : x < y /\ p = {x, y}
  BY PairEnds
<1>2. x # y
  BY <1>1 DEF Notes
<1>3. \E m \in p : m # n
  BY <1>1, <1>2
<1>4. Other(p, n) \in p /\ Other(p, n) # n
  BY <1>3 DEF Other
<1> QED
  BY <1>1, <1>4

LEMMA LowestMember ==
  ASSUME NEW T, T \subseteq Nat, T # {}
  PROVE  Lowest(T) \in T /\ \A m \in T : Lowest(T) <= m
BY LeastNatural DEF Lowest

-----------------------------------------------------------------------------
(* The choice of topics.                                                   *)
GraphTyped ==
  /\ phase \in Phases /\ kind \in [Pairs -> Kinds] /\ candidates \in Seq(Pairs)
  /\ degree \in [Notes -> Nat] /\ at \in Nat

Topics(ks, n) == {p \in Pairs : n \in p /\ ks[p] = "topic"}
HubsInv == \A n \in Notes : degree[n] <= 4 /\ degree[n] = Cardinality(Topics(kind, n))

\* The notes the first pass has gone over have a relationship, or nobody to
\* relate to.
Passed(n) == phase \in {"second", "clusters", "drawn"} \/ (phase = "first" /\ n <= at)
Settled(n) ==
  (\A p \in Related : n \notin p) =>
    \A i \in DOMAIN candidates : n \in candidates[i] => degree[Other(candidates[i], n)] = 4
LeftOutInv == \A n \in Notes : Passed(n) => Settled(n)
TopicInv ==
  /\ GraphTyped /\ HubsInv /\ LeftOutInv
  /\ phase = "first" => at <= Count
  /\ phase = "links" => degree = [n \in Notes |-> 0]

\* One topic more, at both ends of its pair.
LEMMA TopicCounts ==
  ASSUME NEW ks, NEW more, NEW p \in Pairs, ks[p] = "none", more[p] = "topic",
         \A q \in Pairs : q # p => more[q] = ks[q], NEW n \in Notes
  PROVE  Cardinality(Topics(more, n)) =
           IF n \in p THEN Cardinality(Topics(ks, n)) + 1 ELSE Cardinality(Topics(ks, n))
<1>1. Topics(more, n) = IF n \in p THEN Topics(ks, n) \cup {p} ELSE Topics(ks, n)
  BY DEF Topics
<1>2. p \notin Topics(ks, n)
  BY DEF Topics
<1>3. IsFiniteSet(Topics(ks, n))
  <2>1. Topics(ks, n) \subseteq Pairs
    BY DEF Topics
  <2> QED
    BY <2>1, PairsFinite
<1>4. CASE n \in p
  BY <1>1, <1>2, <1>3, <1>4, FS_AddElement
<1>5. CASE n \notin p
  BY <1>1, <1>5
<1> QED
  BY <1>4, <1>5

LEMMA Selected ==
  ASSUME GraphTyped, HubsInv, NEW p \in Pairs, SelectTopic(p), \A n \in p : degree[n] < 4
  PROVE  /\ kind' \in [Pairs -> Kinds] /\ degree' \in [Notes -> Nat] /\ HubsInv'
         /\ Related \subseteq Related' /\ p \in Related'
         /\ \A n \in Notes : degree[n] = 4 => degree'[n] = 4
<1>1. kind \in [Pairs -> Kinds] /\ degree \in [Notes -> Nat]
  BY DEF GraphTyped
<1>2. CASE p \in Related
  BY <1>1, <1>2 DEF SelectTopic, HubsInv, Related, Topics
<1>3. CASE p \notin Related
  <2>1. kind[p] = "none"
    BY <1>3 DEF Related
  <2>2. /\ kind' = [kind EXCEPT ![p] = "topic"]
        /\ degree' = [n \in Notes |-> IF n \in p THEN degree[n] + 1 ELSE degree[n]]
    BY <1>3 DEF SelectTopic
  <2>3. kind' \in [Pairs -> Kinds] /\ degree' \in [Notes -> Nat]
    BY <1>1, <2>2 DEF Kinds
  <2>4. \A n \in Notes : degree'[n] = Cardinality(Topics(kind', n))
    <3>1. kind'[p] = "topic" /\ \A q \in Pairs : q # p => kind'[q] = kind[q]
      BY <1>1, <2>2
    <3>2. \A n \in Notes :
            Cardinality(Topics(kind', n)) =
              IF n \in p THEN Cardinality(Topics(kind, n)) + 1 ELSE Cardinality(Topics(kind, n))
      BY <2>1, <3>1, TopicCounts
    <3> QED
      BY <2>2, <3>2 DEF HubsInv
  <2>5. \A n \in Notes : degree'[n] <= 4 /\ (degree[n] = 4 => degree'[n] = 4)
    BY <1>1, <2>2 DEF HubsInv
  <2>6. Related \subseteq Related' /\ p \in Related'
    BY <1>1, <2>2 DEF Related
  <2> QED
    BY <2>3, <2>4, <2>5, <2>6 DEF HubsInv
<1> QED
  BY <1>2, <1>3

\* A note with a topic has a relationship.
LEMMA TopicsRelate ==
  ASSUME GraphTyped, HubsInv, NEW n \in Notes, degree[n] # 0
  PROVE  \E p \in Related : n \in p
<1>1. Topics(kind, n) # {}
  BY FS_EmptySet DEF HubsInv
<1> QED
  BY <1>1 DEF Topics, Related

LEMMA CandidateOf ==
  ASSUME GraphTyped, NEW i \in DOMAIN candidates
  PROVE  candidates[i] \in Pairs
BY DEF GraphTyped

LEMMA TopicsStart ==
  ASSUME phase \in {"links", "drawn"}, kind = [p \in Pairs |-> "none"], candidates = <<>>,
         degree = [n \in Notes |-> 0], at = 0
  PROVE  TopicInv
<1>1. GraphTyped
  BY DEF GraphTyped, Phases, Kinds
<1>2. HubsInv
  <2>1. \A n : Topics(kind, n) = {}
    BY DEF Topics
  <2> QED
    BY <2>1, FS_EmptySet DEF HubsInv
<1>3. LeftOutInv
  BY DEF LeftOutInv, Settled
<1> QED
  BY <1>1, <1>2, <1>3 DEF TopicInv

LEMMA TopicsInit == GraphInit => TopicInv
BY TopicsStart DEF GraphInit

\* A pass over a note or a candidate leaves settled whom it leaves alone.
LEMMA StaySettled ==
  ASSUME GraphTyped, Related \subseteq Related', candidates' = candidates,
         \A n \in Notes : degree[n] = 4 => degree'[n] = 4,
         NEW n \in Notes, Settled(n)
  PROVE  Settled(n)'
<1> SUFFICES ASSUME \A p \in Related' : n \notin p, NEW i \in DOMAIN candidates, n \in candidates[i]
             PROVE  degree'[Other(candidates[i], n)] = 4
  BY DEF Settled
<1>1. \A p \in Related : n \notin p
  OBVIOUS
<1>2. candidates[i] \in Pairs
  BY CandidateOf
<1>3. Other(candidates[i], n) \in Notes
  BY <1>2, OtherEnd
<1>4. degree[Other(candidates[i], n)] = 4
  BY <1>1 DEF Settled
<1> QED
  BY <1>3, <1>4

LEMMA FirstPassSteps ==
  ASSUME TopicInv, FirstPass
  PROVE  TopicInv'
<1>0. /\ GraphTyped /\ HubsInv /\ LeftOutInv /\ phase = "first" /\ at < Count /\ at' = at + 1
      /\ phase' = phase /\ candidates' = candidates /\ Count \in Nat /\ at \in Nat
  BY NotesFinite DEF TopicInv, FirstPass, GraphTyped
<1> DEFINE me == at'
<1>1. me \in Notes /\ me = at + 1
  BY <1>0 DEF Notes
<1>2. PICK m : m = at'
  OBVIOUS
<1>3. m \in Notes /\ m = at + 1 /\ at' = m
  BY <1>1, <1>2
<1>4. IF degree[m] = 0 /\ Best(m) # {} THEN SelectTopic(candidates[Lowest(Best(m))])
      ELSE UNCHANGED <<kind, degree>>
  BY <1>2 DEF FirstPass
<1>5. /\ kind' \in [Pairs -> Kinds] /\ degree' \in [Notes -> Nat] /\ HubsInv'
      /\ Related \subseteq Related' /\ \A n \in Notes : degree[n] = 4 => degree'[n] = 4
      /\ Settled(m)'
  <2>1. CASE degree[m] = 0 /\ Best(m) # {}
    <3> DEFINE i == Lowest(Best(m))
    <3>1. Best(m) \subseteq Nat
      BY <1>0 DEF Best, GraphTyped
    <3>2. i \in Best(m)
      BY <2>1, <3>1, LowestMember
    <3>3. SelectTopic(candidates[i])
      BY <1>4, <2>1
    <3> HIDE DEF i
    <3>4. /\ i \in DOMAIN candidates /\ m \in candidates[i] /\ degree[Other(candidates[i], m)] < 4
      BY <3>2 DEF Best
    <3>5. PICK p \in Pairs : p = candidates[i]
      BY <1>0, <3>4, CandidateOf
    <3>6. p = {m, Other(p, m)} /\ \A n \in p : degree[n] < 4
      <4>1. p = {m, Other(p, m)}
        BY <3>4, <3>5, OtherEnd
      <4> QED
        BY <2>1, <3>4, <3>5, <4>1
    <3>7. /\ kind' \in [Pairs -> Kinds] /\ degree' \in [Notes -> Nat] /\ HubsInv'
          /\ Related \subseteq Related' /\ p \in Related'
          /\ \A n \in Notes : degree[n] = 4 => degree'[n] = 4
      BY <1>0, <3>3, <3>5, <3>6, Selected
    <3>8. Settled(m)'
      BY <3>6, <3>7 DEF Settled
    <3> QED
      BY <3>7, <3>8
  <2>2. CASE ~(degree[m] = 0 /\ Best(m) # {})
    <3>1. kind' = kind /\ degree' = degree
      BY <1>4, <2>2
    <3>2. Settled(m)
      <4>1. CASE degree[m] # 0
        BY <1>0, <1>3, <4>1, TopicsRelate DEF Settled
      <4>2. CASE Best(m) = {}
        <5>1. ASSUME NEW i \in DOMAIN candidates, m \in candidates[i]
              PROVE  degree[Other(candidates[i], m)] = 4
          <6>1. ~(degree[Other(candidates[i], m)] < 4)
            BY <4>2, <5>1 DEF Best
          <6>2. Other(candidates[i], m) \in Notes
            BY <1>0, <5>1, CandidateOf, OtherEnd
          <6>3. degree[Other(candidates[i], m)] \in Nat /\ degree[Other(candidates[i], m)] <= 4
            BY <1>0, <6>2 DEF GraphTyped, HubsInv
          <6> QED
            BY <6>1, <6>3
        <5> QED
          BY <5>1 DEF Settled
      <4> QED
        BY <2>2, <4>1, <4>2
    <3>3. kind' \in [Pairs -> Kinds] /\ degree' \in [Notes -> Nat] /\ HubsInv' /\ Related' = Related
      BY <1>0, <3>1 DEF GraphTyped, HubsInv, Related
    <3>4. Settled(m)'
      BY <1>0, <3>1, <3>2, <3>3 DEF Settled
    <3> QED
      BY <3>1, <3>3, <3>4
  <2> QED
    BY <2>1, <2>2
<1>6. GraphTyped'
  BY <1>0, <1>5 DEF GraphTyped
<1>7. LeftOutInv'
  <2> SUFFICES ASSUME NEW n \in Notes, Passed(n)' PROVE Settled(n)'
    BY DEF LeftOutInv
  <2>1. CASE n = m
    BY <1>5, <2>1
  <2>2. CASE n # m
    <3>1. n <= at
      BY <1>0, <1>3, <2>2 DEF Passed, Notes
    <3>2. Settled(n)
      BY <1>0, <3>1 DEF LeftOutInv, Passed
    <3> QED
      BY <1>0, <1>5, <3>2, StaySettled
  <2> QED
    BY <2>1, <2>2
<1>8. phase' = "first" => at' <= Count
  BY <1>0
<1> QED
  BY <1>0, <1>5, <1>6, <1>7, <1>8 DEF TopicInv

LEMMA SecondPassSteps ==
  ASSUME TopicInv, SecondPass
  PROVE  TopicInv'
<1>0. /\ GraphTyped /\ HubsInv /\ LeftOutInv /\ phase = "second" /\ at < Len(candidates) /\ at' = at + 1
      /\ phase' = phase /\ candidates' = candidates /\ at \in Nat /\ candidates \in Seq(Pairs)
  BY DEF TopicInv, SecondPass, GraphTyped
<1>1. PICK i : i = at'
  OBVIOUS
<1>2. i \in DOMAIN candidates /\ at' \in Nat
  BY <1>0, <1>1
<1>3. IF \A n \in candidates[i] : degree[n] < 3 THEN SelectTopic(candidates[i]) ELSE UNCHANGED <<kind, degree>>
  BY <1>1 DEF SecondPass
<1>4. /\ kind' \in [Pairs -> Kinds] /\ degree' \in [Notes -> Nat] /\ HubsInv'
      /\ Related \subseteq Related' /\ \A n \in Notes : degree[n] = 4 => degree'[n] = 4
  <2>1. CASE \A n \in candidates[i] : degree[n] < 3
    <3>1. PICK p \in Pairs : p = candidates[i]
      BY <1>0, <1>2, CandidateOf
    <3>2. SelectTopic(p)
      BY <1>3, <2>1, <3>1
    <3>3. \A n \in p : degree[n] < 4
      <4>1. p \subseteq Notes
        BY DEF Pairs
      <4>2. \A n \in p : degree[n] \in Nat
        BY <1>0, <4>1 DEF GraphTyped
      <4> QED
        BY <2>1, <3>1, <4>2
    <3> QED
      BY <1>0, <3>2, <3>3, Selected
  <2>2. CASE ~\A n \in candidates[i] : degree[n] < 3
    <3>1. kind' = kind /\ degree' = degree
      BY <1>3, <2>2
    <3> QED
      BY <1>0, <3>1 DEF GraphTyped, HubsInv, Related
  <2> QED
    BY <2>1, <2>2
<1>5. GraphTyped'
  BY <1>0, <1>2, <1>4 DEF GraphTyped
<1>6. LeftOutInv'
  <2> SUFFICES ASSUME NEW n \in Notes PROVE Settled(n)'
    BY DEF LeftOutInv
  <2>1. Settled(n)
    BY <1>0 DEF LeftOutInv, Passed
  <2> QED
    BY <1>0, <1>4, <2>1, StaySettled
<1> QED
  BY <1>0, <1>4, <1>5, <1>6 DEF TopicInv

\* The candidates are pairs, and a note is related by a link or by a tag
\* before any topic.
LEMMA RelateSteps ==
  ASSUME TopicInv, RelateNotes
  PROVE  TopicInv'
<1>0. /\ GraphTyped /\ HubsInv /\ phase = "links" /\ phase' = "first" /\ at' = 0 /\ degree' = degree
  BY DEF TopicInv, RelateNotes
<1>1. PICK linked \in SUBSET Linkable, shared \in SUBSET Sharing, alike \in SUBSET Alike :
        /\ kind' = [p \in Pairs |-> Stronger(IF p \in linked THEN "wiki" ELSE "none",
                                             IF p \in shared THEN "tag" ELSE "none")]
        /\ candidates' \in SetToSeqs(alike)
  BY DEF RelateNotes
<1>2. \A x \in {"wiki", "none"}, y \in {"tag", "none"} : Stronger(x, y) \in {"none", "tag", "wiki"}
  BY DEF Stronger
<1>3. \A p \in Pairs : kind'[p] \in {"none", "tag", "wiki"}
  BY <1>1, <1>2
<1>4. kind' \in [Pairs -> Kinds]
  <2>1. \A p \in Pairs : kind'[p] \in Kinds
    BY <1>3 DEF Kinds
  <2> QED
    BY <1>1, <2>1
<1>5. candidates' \in Seq(Pairs)
  <2>1. alike \in SUBSET Pairs
    BY GraphAssumption
  <2>2. IsFiniteSet(alike)
    BY <2>1, PairsFinite
  <2>3. PICK k : k = Cardinality(alike)
    OBVIOUS
  <2>4. k \in Nat
    BY <2>2, <2>3, FS_CardinalityType
  <2>5. candidates' \in [1..k -> alike]
    BY <1>1, <2>3 DEF SetToSeqs
  <2> QED
    BY <2>1, <2>4, <2>5
<1>6. GraphTyped'
  BY <1>0, <1>4, <1>5 DEF GraphTyped, Phases
<1>7. HubsInv'
  <2>1. \A n : Topics(kind', n) = {}
    BY <1>3 DEF Topics
  <2>2. \A n \in Notes : degree'[n] = 0
    BY <1>0 DEF TopicInv
  <2> QED
    BY <2>1, <2>2, FS_EmptySet DEF HubsInv
<1>8. LeftOutInv'
  BY <1>0 DEF LeftOutInv, Passed, Notes
<1> QED
  BY <1>0, <1>6, <1>7, <1>8, NotesFinite DEF TopicInv

LEMMA TopicsStep == TopicInv /\ [GraphNext]_graphVars => TopicInv'
<1> SUFFICES ASSUME TopicInv, [GraphNext]_graphVars PROVE TopicInv'
  OBVIOUS
<1>1. CASE RelateNotes
  BY <1>1, RelateSteps
<1>2. CASE FirstPass
  BY <1>2, FirstPassSteps
<1>3. CASE SecondPass
  BY <1>3, SecondPassSteps
<1>4. ASSUME phase' = phase \/ (phase = "first" /\ at = Count) \/ (phase \in {"second", "clusters"} /\ phase' # "links" /\ phase' # "first"),
             phase' \in Phases, phase' # "links" \/ phase = "links", phase' = "first" => phase = "first" /\ at' = at,
             UNCHANGED <<kind, candidates, degree>>, at' \in Nat
      PROVE  TopicInv'
  <2>0. GraphTyped /\ HubsInv /\ LeftOutInv
    BY DEF TopicInv
  <2>1. GraphTyped' /\ HubsInv' /\ Related' = Related
    BY <1>4, <2>0 DEF GraphTyped, HubsInv, Related
  <2>2. \A n \in Notes : Passed(n)' => Passed(n)
    BY <1>4, NotesFinite DEF Passed, Notes
  <2>3. \A n \in Notes : Settled(n) <=> Settled(n)'
    BY <1>4, <2>1 DEF Settled
  <2>4. LeftOutInv'
    BY <2>0, <2>2, <2>3 DEF LeftOutInv
  <2> QED
    BY <1>4, <2>1, <2>4 DEF TopicInv
<1>5. CASE JoinClusters
  <2>1. at' \in Nat
    BY <1>5 DEF JoinClusters, TopicInv, GraphTyped
  <2> QED
    BY <1>4, <1>5, <2>1 DEF JoinClusters, Phases
<1>6. CASE NextLoop
  BY <1>4, <1>6 DEF NextLoop, Phases
<1>7. CASE UNCHANGED graphVars
  BY <1>4, <1>7 DEF graphVars, TopicInv, GraphTyped
<1> QED
  BY <1>1, <1>2, <1>3, <1>5, <1>6, <1>7 DEF GraphNext

LEMMA TopicsStay == GraphSpec => []TopicInv
  BY TopicsInit, TopicsStep, PTL DEF GraphSpec

\* No note is drawn with more than four topics, and one without any
\* relationship resembles nobody who had room.
THEOREM TopicsAreWell == GraphSpec => []TopicsChosenWell
<1>1. TopicInv => TopicsChosenWell
  <2> SUFFICES ASSUME TopicInv PROVE NoNoisyHubs /\ NobodyLeftOut
    BY DEF TopicsChosenWell
  <2>1. NoNoisyHubs
    BY DEF TopicInv, HubsInv, Topics, NoNoisyHubs
  <2>2. NobodyLeftOut
    <3> SUFFICES ASSUME phase \in {"second", "clusters", "drawn"}, NEW n \in Notes,
                        \A p \in Related : n \notin p, NEW p \in ToSet(candidates), n \in p
                 PROVE  degree[Other(p, n)] = 4
      BY DEF NobodyLeftOut
    <3>1. Settled(n)
      BY DEF TopicInv, LeftOutInv, Passed
    <3>2. PICK i \in DOMAIN candidates : p = candidates[i]
      BY DEF ToSet
    <3> QED
      BY <3>1, <3>2 DEF Settled
  <2> QED
    BY <2>1, <2>2
<1> QED
  BY <1>1, TopicsStay, PTL

-----------------------------------------------------------------------------
(* The forest of the union-find.                                           *)
Ranked(par, rank) == \A n \in Notes : par[n] # n => rank[par[n]] < rank[n]
Forest(par) ==
  par \in [Notes -> Notes] /\ \E K \in Nat : \E rank \in [Notes -> 0..K] : Ranked(par, rank)

\* What holds of the roots and of a note once it holds of its parent holds of
\* all notes.
LEMMA ForestInduction ==
  ASSUME NEW par, Forest(par), NEW G,
         \A n \in Notes : par[n] = n \/ par[n] \in G => n \in G
  PROVE  Notes \subseteq G
<1>1. PICK K \in Nat : \E rank \in [Notes -> 0..K] : Ranked(par, rank)
  BY DEF Forest
<1>2. PICK rank \in [Notes -> 0..K] : Ranked(par, rank)
  BY <1>1
<1> DEFINE H == {k \in Nat : \A n \in Notes : rank[n] = k => n \in G}
<1>3. ASSUME NEW k \in Nat, \A m \in 0..(k - 1) : m \in H PROVE k \in H
  <2> SUFFICES ASSUME NEW n \in Notes, rank[n] = k PROVE n \in G
    OBVIOUS
  <2>1. CASE par[n] = n
    BY <2>1
  <2>2. CASE par[n] # n
    <3>1. par[n] \in Notes /\ rank[par[n]] \in 0..K /\ rank[par[n]] < k
      BY <1>2, <2>2 DEF Ranked, Forest
    <3>2. rank[par[n]] \in 0..(k - 1)
      BY <3>1
    <3>3. rank[par[n]] \in H
      BY <1>3, <3>2
    <3> QED
      BY <3>1, <3>3
  <2> QED
    BY <2>1, <2>2
<1>4. Nat \subseteq H
  <2> HIDE DEF H
  <2> QED
    BY <1>3, StrongInduction
<1>5. ASSUME NEW n \in Notes PROVE n \in G
  <2>1. rank[n] \in Nat
    BY <1>2
  <2>2. rank[n] \in H
    BY <1>4, <2>1
  <2> QED
    BY <2>2
<1> QED
  BY <1>5

Recurs(f, par, Base, Step) ==
  \A n \in Notes : f[n] = IF par[n] = n THEN Base[n] ELSE Step[<<n, f[par[n]]>>]

\* A function that a note has from that of its parent exists.
LEMMA RecursionExists ==
  ASSUME NEW par, Forest(par), NEW D, NEW Base \in [Notes -> D], NEW Step \in [Notes \X D -> D]
  PROVE  \E f \in [Notes -> D] : Recurs(f, par, Base, Step)
<1>1. PICK K \in Nat : \E rank \in [Notes -> 0..K] : Ranked(par, rank)
  BY DEF Forest
<1>2. PICK rank \in [Notes -> 0..K] : Ranked(par, rank)
  BY <1>1
<1>3. par \in [Notes -> Notes] /\ \A n \in Notes : rank[n] \in 0..K
  BY <1>2 DEF Forest
<1> DEFINE Defined(f, k) ==
      \A n \in Notes : rank[n] < k => f[n] = IF par[n] = n THEN Base[n] ELSE Step[<<n, f[par[n]]>>]
           G == {k \in Nat : \E f \in [Notes -> D] : Defined(f, k)}
<1>4. 0 \in G
  BY <1>3
<1>5. ASSUME NEW k \in Nat, k \in G PROVE k + 1 \in G
  <2>1. PICK f \in [Notes -> D] : Defined(f, k)
    BY <1>5
  <2> DEFINE Next0(n) == IF par[n] = n THEN Base[n] ELSE Step[<<n, f[par[n]]>>]
             g == [n \in Notes |-> IF rank[n] = k THEN Next0(n) ELSE f[n]]
  <2>2. ASSUME NEW n \in Notes PROVE Next0(n) \in D
    <3>1. par[n] \in Notes /\ f[par[n]] \in D /\ <<n, f[par[n]]>> \in Notes \X D
      BY <1>3, <2>1
    <3> QED
      BY <3>1
  <2>3. g \in [Notes -> D]
    <3> HIDE DEF Next0
    <3> QED
      BY <2>1, <2>2
  <2>4. ASSUME NEW n \in Notes, rank[n] < k + 1
        PROVE  g[n] = IF par[n] = n THEN Base[n] ELSE Step[<<n, g[par[n]]>>]
    <3>1. rank[n] = k \/ rank[n] < k
      BY <1>3, <2>4
    <3>2. g[n] = Next0(n)
      BY <2>1, <3>1
    <3>3. par[n] # n => g[par[n]] = f[par[n]]
      <4>1. par[n] # n => par[n] \in Notes /\ rank[par[n]] # k
        BY <1>2, <1>3, <2>4 DEF Ranked
      <4> HIDE DEF Next0
      <4> QED
        BY <4>1
    <3> HIDE DEF g
    <3> QED
      BY <3>2, <3>3
  <2>5. Defined(g, k + 1)
    <3> HIDE DEF g
    <3> QED
      BY <2>4
  <2>6. k + 1 \in Nat
    OBVIOUS
  <2>7. \E h \in [Notes -> D] : Defined(h, k + 1)
    <3> HIDE DEF g, Defined
    <3> QED
      BY <2>3, <2>5
  <2> QED
    BY <2>6, <2>7
<1>6. K + 1 \in G
  <2> HIDE DEF G
  <2> QED
    BY <1>4, <1>5, SetInduction
<1>7. PICK f \in [Notes -> D] : Defined(f, K + 1)
  BY <1>6
<1>8. \A n \in Notes : rank[n] < K + 1
  BY <1>3
<1> QED
  BY <1>7, <1>8 DEF Recurs

RootOf(par) == CHOOSE f : f = [n \in Notes |-> IF par[n] = n THEN n ELSE f[par[n]]]
PathOf(par) == CHOOSE f : f = [n \in Notes |-> {n} \cup (IF par[n] = n THEN {} ELSE f[par[n]])]

LEMMA RootAndPath == Root = RootOf(parent) /\ Path = PathOf(parent)
BY DEF Root, Path, RootOf, PathOf

LEMMA RootForm ==
  ASSUME NEW par, Forest(par)
  PROVE  /\ RootOf(par) \in [Notes -> Notes]
         /\ \A n \in Notes : RootOf(par)[n] = IF par[n] = n THEN n ELSE RootOf(par)[par[n]]
<1> DEFINE Base == [n \in Notes |-> n]
           Step == [x \in Notes \X Notes |-> x[2]]
           Leads(f) == f = [n \in Notes |-> IF par[n] = n THEN n ELSE f[par[n]]]
           r == RootOf(par)
<1>0. par \in [Notes -> Notes]
  BY DEF Forest
<1>1. Base \in [Notes -> Notes] /\ Step \in [Notes \X Notes -> Notes]
  OBVIOUS
<1>2. PICK f \in [Notes -> Notes] : Recurs(f, par, Base, Step)
  <2> HIDE DEF Base, Step
  <2> QED
    BY <1>1, RecursionExists
<1>3. ASSUME NEW n \in Notes PROVE f[n] = IF par[n] = n THEN n ELSE f[par[n]]
  <2>1. par[n] \in Notes /\ f[par[n]] \in Notes
    BY <1>0
  <2>2. Base[n] = n /\ Step[<<n, f[par[n]]>>] = f[par[n]]
    BY <2>1
  <2> QED
    BY <1>2, <2>2 DEF Recurs
<1>4. Leads(f)
  BY <1>2, <1>3
<1>5. Leads(r)
  BY <1>4 DEF RootOf
<1> HIDE DEF r
<1>6. \A n \in Notes : r[n] = IF par[n] = n THEN n ELSE r[par[n]]
  BY <1>5
<1> DEFINE G == {n \in Notes : r[n] \in Notes}
<1>7. Notes \subseteq G
  <2>1. \A n \in Notes : par[n] = n \/ par[n] \in G => n \in G
    BY <1>6
  <2> HIDE DEF G
  <2> QED
    BY <2>1, ForestInduction
<1>8. r \in [Notes -> Notes]
  <2>1. \A n \in Notes : r[n] \in Notes
    BY <1>7
  <2>2. r = [n \in Notes |-> r[n]]
    BY <1>5
  <2> QED
    BY <2>1, <2>2
<1> QED
  BY <1>6, <1>8 DEF r

\* A function that takes the roots to themselves and a note where its parent
\* goes takes every note to its root.
LEMMA RootUnique ==
  ASSUME NEW par, Forest(par), NEW g,
         \A n \in Notes : g[n] = IF par[n] = n THEN n ELSE g[par[n]]
  PROVE  \A n \in Notes : RootOf(par)[n] = g[n]
<1> DEFINE r == RootOf(par)
           G == {n \in Notes : r[n] = g[n]}
<1>1. \A n \in Notes : r[n] = IF par[n] = n THEN n ELSE r[par[n]]
  BY RootForm
<1> HIDE DEF r
<1>2. \A n \in Notes : par[n] = n \/ par[n] \in G => n \in G
  BY <1>1
<1>3. Notes \subseteq G
  <2> HIDE DEF G
  <2> QED
    BY <1>2, ForestInduction
<1> QED
  BY <1>3 DEF r

\* A root is its own parent and its own root.
LEMMA RootsAreRoots ==
  ASSUME NEW par, Forest(par), NEW n \in Notes
  PROVE  LET r == RootOf(par) IN r[n] \in Notes /\ par[r[n]] = r[n] /\ r[r[n]] = r[n]
<1> DEFINE r == RootOf(par)
           G == {m \in Notes : par[r[m]] = r[m]}
<1>1. r \in [Notes -> Notes] /\ \A m \in Notes : r[m] = IF par[m] = m THEN m ELSE r[par[m]]
  BY RootForm
<1> HIDE DEF r
<1>2. \A m \in Notes : par[m] = m \/ par[m] \in G => m \in G
  BY <1>1
<1>3. Notes \subseteq G
  <2> HIDE DEF G
  <2> QED
    BY <1>2, ForestInduction
<1>4. r[n] \in Notes /\ par[r[n]] = r[n]
  BY <1>1, <1>3
<1>5. r[r[n]] = r[n]
  BY <1>1, <1>4
<1> QED
  BY <1>4, <1>5 DEF r

\* A note's path leads through notes of its cluster up to its root.
OnPath(par, path, root, n) ==
  /\ n \in path[n] /\ root[n] \in path[n]
  /\ \A m \in path[n] : m \in Notes /\ root[m] = root[n]
LEMMA PathsLead ==
  ASSUME NEW par, Forest(par)
  PROVE  \A n \in Notes : OnPath(par, PathOf(par), RootOf(par), n)
<1> DEFINE Base == [n \in Notes |-> {n}]
           Step == [x \in Notes \X SUBSET Notes |-> {x[1]} \cup x[2]]
           Leads(f) == f = [n \in Notes |-> {n} \cup (IF par[n] = n THEN {} ELSE f[par[n]])]
           path == PathOf(par)
           r == RootOf(par)
<1>0. par \in [Notes -> Notes]
  BY DEF Forest
<1>1. Base \in [Notes -> SUBSET Notes] /\ Step \in [Notes \X SUBSET Notes -> SUBSET Notes]
  <2>1. Base \in [Notes -> SUBSET Notes]
    OBVIOUS
  <2>2. \A x \in Notes \X SUBSET Notes : {x[1]} \cup x[2] \in SUBSET Notes
    OBVIOUS
  <2> QED
    BY <2>1, <2>2
<1>2. PICK f \in [Notes -> SUBSET Notes] : Recurs(f, par, Base, Step)
  <2> HIDE DEF Base, Step
  <2> QED
    BY <1>1, RecursionExists
<1>3. ASSUME NEW n \in Notes PROVE f[n] = {n} \cup (IF par[n] = n THEN {} ELSE f[par[n]])
  <2>1. par[n] \in Notes /\ f[par[n]] \in SUBSET Notes /\ <<n, f[par[n]]>> \in Notes \X SUBSET Notes
    BY <1>0
  <2>2. Base[n] = {n} /\ Step[<<n, f[par[n]]>>] = {n} \cup f[par[n]]
    BY <2>1
  <2>3. f[n] = IF par[n] = n THEN {n} ELSE {n} \cup f[par[n]]
    <3> HIDE DEF Base, Step
    <3> QED
      BY <1>2, <2>2 DEF Recurs
  <2> QED
    BY <2>3
<1>4. Leads(f)
  BY <1>2, <1>3
<1>5. Leads(path)
  BY <1>4 DEF PathOf
<1>6. r \in [Notes -> Notes] /\ \A n \in Notes : r[n] = IF par[n] = n THEN n ELSE r[par[n]]
  BY RootForm
<1> HIDE DEF path, r
<1>7. \A n \in Notes : path[n] = {n} \cup (IF par[n] = n THEN {} ELSE path[par[n]])
  BY <1>5
<1> DEFINE G == {n \in Notes : OnPath(par, path, r, n)}
<1>8. ASSUME NEW n \in Notes, par[n] = n \/ par[n] \in G PROVE n \in G
  <2>1. CASE par[n] = n
    <3>1. path[n] = {n} /\ r[n] = n
      BY <1>6, <1>7, <2>1
    <3> QED
      BY <3>1 DEF OnPath
  <2>2. CASE par[n] # n
    <3>1. path[n] = {n} \cup path[par[n]] /\ r[n] = r[par[n]] /\ OnPath(par, path, r, par[n])
      BY <1>6, <1>7, <1>8, <2>2
    <3> QED
      BY <3>1 DEF OnPath
  <2> QED
    BY <2>1, <2>2
<1>9. Notes \subseteq G
  <2> HIDE DEF G
  <2> QED
    BY <1>8, ForestInduction
<1> QED
  BY <1>9 DEF path, r

\* What union makes of a forest.
United(par, s, t) ==
  [n \in Notes |->
     IF n \in PathOf(par)[s] \cup {RootOf(par)[t]} THEN RootOf(par)[s]
     ELSE IF n \in PathOf(par)[t] THEN RootOf(par)[t] ELSE par[n]]

LEMMA UnitedForest ==
  ASSUME NEW par, Forest(par), NEW s \in Notes, NEW t \in Notes
  PROVE  /\ Forest(United(par, s, t))
         /\ \A n \in Notes : RootOf(United(par, s, t))[n] =
              IF RootOf(par)[n] \in {RootOf(par)[s], RootOf(par)[t]} THEN RootOf(par)[s] ELSE RootOf(par)[n]
<1> DEFINE r == RootOf(par)
           path == PathOf(par)
           rs == r[s]
           rt == r[t]
           next == United(par, s, t)
           g == [n \in Notes |-> IF r[n] \in {rs, rt} THEN rs ELSE r[n]]
<1>1. /\ r \in [Notes -> Notes] /\ par \in [Notes -> Notes]
      /\ \A n \in Notes : r[n] = IF par[n] = n THEN n ELSE r[par[n]]
  BY RootForm DEF Forest
<1>2. /\ rs \in Notes /\ par[rs] = rs /\ r[rs] = rs
      /\ rt \in Notes /\ par[rt] = rt /\ r[rt] = rt
  BY RootsAreRoots
<1>3. /\ s \in path[s] /\ rs \in path[s] /\ \A m \in path[s] : m \in Notes /\ r[m] = rs
      /\ t \in path[t] /\ rt \in path[t] /\ \A m \in path[t] : m \in Notes /\ r[m] = rt
  BY PathsLead DEF OnPath
<1>4. next = [n \in Notes |-> IF n \in path[s] \cup {rt} THEN rs ELSE IF n \in path[t] THEN rt ELSE par[n]]
  BY DEF United
<1> HIDE DEF r, path, next, rs, rt
<1>5. \A n \in Notes : next[n] = IF n \in path[s] \/ n = rt THEN rs ELSE IF n \in path[t] THEN rt ELSE par[n]
  BY <1>4
<1>6. next \in [Notes -> Notes]
  BY <1>1, <1>2, <1>4
<1>7. \A n \in Notes : g[n] = IF r[n] = rs \/ r[n] = rt THEN rs ELSE r[n]
  OBVIOUS
<1> HIDE DEF g
<1>8. Forest(next)
  <2>1. PICK K \in Nat : \E rank \in [Notes -> 0..K] : Ranked(par, rank)
    BY DEF Forest
  <2>2. PICK rank \in [Notes -> 0..K] : Ranked(par, rank)
    BY <2>1
  <2> DEFINE higher == [n \in Notes |-> IF n = rs THEN 0 ELSE IF n = rt THEN 1 ELSE rank[n] + 2]
  <2>3. \A n \in Notes : rank[n] \in 0..K
    BY <2>2
  <2>4. higher \in [Notes -> 0..(K + 2)]
    <3>1. \A n \in Notes : rank[n] + 2 \in 0..(K + 2)
      BY <2>3
    <3>2. 0 \in 0..(K + 2) /\ 1 \in 0..(K + 2)
      OBVIOUS
    <3> QED
      BY <3>1, <3>2
  <2>5. /\ higher[rs] = 0 /\ (rs # rt => higher[rt] = 1) /\ higher[rt] <= 1
        /\ \A n \in Notes : n # rs /\ n # rt => higher[n] = rank[n] + 2
        /\ \A n \in Notes : higher[n] <= rank[n] + 2
    BY <1>2, <2>3
  <2>6. \A n \in Notes : n # rs => higher[n] > 0
    BY <2>3
  <2> HIDE DEF higher
  <2>7. ASSUME NEW n \in Notes, next[n] # n PROVE higher[next[n]] < higher[n]
    <3>1. CASE n \in path[s] \/ n = rt
      <4>1. next[n] = rs /\ n # rs
        BY <1>5, <2>7, <3>1
      <4> QED
        BY <2>5, <2>6, <4>1
    <3>2. CASE ~(n \in path[s] \/ n = rt) /\ n \in path[t]
      <4>1. next[n] = rt /\ n # rs /\ n # rt
        BY <1>3, <1>5, <3>2
      <4>2. higher[n] = rank[n] + 2 /\ rank[n] >= 0 /\ higher[rt] <= 1 /\ higher[rt] \in 0..(K + 2)
        BY <1>2, <2>3, <2>4, <2>5, <4>1
      <4> QED
        BY <2>3, <4>1, <4>2
    <3>3. CASE ~(n \in path[s] \/ n = rt) /\ n \notin path[t]
      <4>1. next[n] = par[n] /\ n # rs /\ n # rt /\ par[n] # n /\ par[n] \in Notes
        BY <1>1, <1>3, <1>5, <2>7, <3>3
      <4>2. rank[par[n]] < rank[n]
        BY <2>2, <4>1 DEF Ranked
      <4>3. higher[par[n]] <= rank[par[n]] + 2 /\ higher[n] = rank[n] + 2 /\ higher[par[n]] \in 0..(K + 2)
        BY <2>4, <2>5, <4>1
      <4> QED
        BY <2>3, <4>1, <4>2, <4>3
    <3> QED
      BY <3>1, <3>2, <3>3
  <2>8. Ranked(next, higher)
    BY <2>7 DEF Ranked
  <2>9. K + 2 \in Nat
    OBVIOUS
  <2> QED
    BY <1>6, <2>4, <2>8, <2>9 DEF Forest
<1>9. ASSUME NEW n \in Notes PROVE g[n] = IF next[n] = n THEN n ELSE g[next[n]]
  <2>1. CASE n \in path[s] \/ n = rt
    <3>1. next[n] = rs /\ g[n] = rs /\ g[rs] = rs
      BY <1>2, <1>3, <1>5, <1>7, <2>1
    <3> QED
      BY <3>1
  <2>2. CASE ~(n \in path[s] \/ n = rt) /\ n \in path[t]
    <3>1. next[n] = rt /\ g[n] = rs /\ g[rt] = rs /\ n # rt
      BY <1>2, <1>3, <1>5, <1>7, <2>2
    <3> QED
      BY <3>1
  <2>3. CASE ~(n \in path[s] \/ n = rt) /\ n \notin path[t]
    <3>1. next[n] = par[n] /\ n # rs /\ n # rt /\ par[n] \in Notes
      BY <1>1, <1>3, <1>5, <2>3
    <3>2. CASE par[n] = n
      <4>1. r[n] = n
        BY <1>1, <3>2
      <4> QED
        BY <1>7, <3>1, <3>2, <4>1
    <3>3. CASE par[n] # n
      <4>1. r[n] = r[par[n]]
        BY <1>1, <3>3
      <4> QED
        BY <1>7, <3>1, <3>3, <4>1
    <3> QED
      BY <3>2, <3>3
  <2> QED
    BY <2>1, <2>2, <2>3
<1>10. \A n \in Notes : RootOf(next)[n] = g[n]
  BY <1>8, <1>9, RootUnique
<1>11. \A n \in Notes : RootOf(next)[n] = IF r[n] \in {rs, rt} THEN rs ELSE r[n]
  BY <1>7, <1>10
<1> QED
  BY <1>8, <1>11 DEF r, next, rs, rt

-----------------------------------------------------------------------------
(* The order of the relationships.                                         *)
LEMMA KeyForm ==
  ASSUME NEW p \in Pairs
  PROVE  \E x, y \in 1..Count : x < y /\ p = {x, y} /\ Key(p) = Count * x + y
<1>1. PICK x, y \in Notes : x < y /\ p = {x, y}
  BY PairEnds
<1>2. p \subseteq Nat /\ p # {} /\ x \in Nat /\ y \in Nat
  BY <1>1 DEF Notes
<1>3. Lowest(p) \in p /\ \A m \in p : Lowest(p) <= m
  BY <1>2, LowestMember
<1>4. Lowest(p) = x
  BY <1>1, <1>2, <1>3
<1>5. Other(p, x) \in p /\ Other(p, x) # x
  BY <1>1, OtherEnd
<1>6. Other(p, x) = y
  BY <1>1, <1>5
<1>7. Key(p) = Count * x + y
  BY <1>4, <1>6 DEF Key
<1> QED
  BY <1>1, <1>7 DEF Notes

\* x and y can be told from N * x + y while y is at most N.
LEMMA RowsApart ==
  ASSUME NEW N \in Nat, NEW x \in Nat, NEW y \in 1..N, NEW u \in Nat, NEW v \in 1..N, x < u
  PROVE  N * x + y < N * u + v
<1> DEFINE G == {d \in Nat : N * (x + 1) <= N * (x + 1 + d)}
<1>1. 0 \in G
  OBVIOUS
<1>2. ASSUME NEW d \in Nat, d \in G PROVE d + 1 \in G
  <2>1. N * (x + 1 + (d + 1)) = N * (x + 1 + d) + N
    OBVIOUS
  <2>2. N * (x + 1) \in Nat /\ N * (x + 1 + d) \in Nat
    OBVIOUS
  <2> QED
    BY <1>2, <2>1, <2>2
<1>3. u - (x + 1) \in G
  <2>1. u - (x + 1) \in Nat
    OBVIOUS
  <2> HIDE DEF G
  <2> QED
    BY <1>1, <1>2, <2>1, SetInduction
<1>4. x + 1 + (u - (x + 1)) = u
  OBVIOUS
<1>5. N * (x + 1) <= N * u
  BY <1>3, <1>4
<1>6. N * (x + 1) = N * x + N /\ N * x \in Nat /\ N * u \in Nat
  OBVIOUS
<1> QED
  BY <1>5, <1>6

LEMMA RowsDiffer ==
  ASSUME NEW N \in Nat, NEW x \in Nat, NEW y \in 1..N, NEW u \in Nat, NEW v \in 1..N, N * x + y = N * u + v
  PROVE  x = u /\ y = v
<1> DEFINE left == N * x
           right == N * u
<1>1. left \in Nat /\ right \in Nat
  OBVIOUS
<1>2. (x < u => left + y < right + v) /\ (u < x => right + v < left + y)
  BY RowsApart
<1>3. (x = u => left = right) /\ left + y = right + v
  OBVIOUS
<1> HIDE DEF left, right
<1> QED
  BY <1>1, <1>2, <1>3

LEMMA KeysDiffer ==
  ASSUME NEW p \in Pairs, NEW q \in Pairs, Key(p) = Key(q)
  PROVE  p = q
<1>1. PICK x, y \in 1..Count : x < y /\ p = {x, y} /\ Key(p) = Count * x + y
  BY KeyForm
<1>2. PICK u, v \in 1..Count : u < v /\ q = {u, v} /\ Key(q) = Count * u + v
  BY KeyForm
<1>3. Count \in Nat /\ x \in Nat /\ u \in Nat
  BY NotesFinite
<1>4. Count * x + y = Count * u + v
  BY <1>1, <1>2
<1>5. x = u /\ y = v
  BY <1>3, <1>4, RowsDiffer
<1> QED
  BY <1>1, <1>2, <1>5

KeysUpTo(R, p) == {k \in {Key(q) : q \in R} : k <= Key(p)}
NthOf(R, i) == CHOOSE p \in R : Cardinality(KeysUpTo(R, p)) = i

LEMMA NthIsNth == \A i : Nth(i) = NthOf(Related, i)
BY DEF Nth, NthOf, KeysUpTo

\* Every relationship has its turn.
LEMMA Enumerated ==
  ASSUME NEW R \in SUBSET Pairs
  PROVE  /\ \A i \in 1..Cardinality(R) : NthOf(R, i) \in R
         /\ \A p \in R : \E i \in 1..Cardinality(R) : NthOf(R, i) = p
<1> DEFINE keys == {Key(q) : q \in R}
           N == Cardinality(R)
           f == [p \in R |-> Key(p)]
           c0 == [p \in R |-> Cardinality(KeysUpTo(R, p))]
<1>1. IsFiniteSet(R) /\ N \in Nat
  BY PairsFinite, FS_CardinalityType
<1>2. \A p \in R : Key(p) \in Nat
  <2>1. \A p \in Pairs : Key(p) \in Nat
    BY KeyForm, NotesFinite
  <2> QED
    BY <2>1
<1>3. IsFiniteSet(keys) /\ Cardinality(keys) <= N
  <2>1. f \in Surjection(R, keys)
    BY DEF Surjection
  <2> HIDE DEF f, keys
  <2> QED
    BY <1>1, <2>1, FS_Surjection
<1>4. Cardinality(keys) \in Nat
  BY <1>3, FS_CardinalityType
<1>5. ASSUME NEW p \in R
      PROVE  /\ IsFiniteSet(KeysUpTo(R, p)) /\ Cardinality(KeysUpTo(R, p)) \in 1..N
             /\ Key(p) \in KeysUpTo(R, p)
  <2>1. KeysUpTo(R, p) \in SUBSET keys /\ Key(p) \in KeysUpTo(R, p)
    BY <1>2 DEF KeysUpTo
  <2> HIDE DEF keys
  <2>2. IsFiniteSet(KeysUpTo(R, p)) /\ Cardinality(KeysUpTo(R, p)) <= Cardinality(keys)
    BY <1>3, <2>1, FS_Subset
  <2>3. Cardinality(KeysUpTo(R, p)) \in Nat /\ Cardinality(KeysUpTo(R, p)) # 0
    BY <2>1, <2>2, FS_CardinalityType, FS_EmptySet
  <2> HIDE DEF N
  <2> QED
    BY <1>1, <1>3, <1>4, <2>1, <2>2, <2>3
<1>6. ASSUME NEW p \in R, NEW q \in R, Key(p) < Key(q)
      PROVE  Cardinality(KeysUpTo(R, p)) # Cardinality(KeysUpTo(R, q))
  <2>1. KeysUpTo(R, p) \in SUBSET KeysUpTo(R, q)
    BY <1>2, <1>6 DEF KeysUpTo
  <2>2. Key(q) \in KeysUpTo(R, q) /\ Key(q) \notin KeysUpTo(R, p)
    BY <1>2, <1>6 DEF KeysUpTo
  <2> QED
    BY <1>5, <2>1, <2>2, FS_Subset
<1>7. ASSUME NEW p \in R, NEW q \in R, Cardinality(KeysUpTo(R, p)) = Cardinality(KeysUpTo(R, q))
      PROVE  p = q
  <2>1. ~(Key(p) < Key(q)) /\ ~(Key(q) < Key(p))
    BY <1>6, <1>7
  <2>2. Key(p) = Key(q)
    BY <1>2, <2>1
  <2> QED
    BY <2>2, KeysDiffer
<1>8. c0 \in Injection(R, 1..N)
  <2>1. \A p \in R : c0[p] = Cardinality(KeysUpTo(R, p))
    OBVIOUS
  <2>2. c0 \in [R -> 1..N]
    BY <1>5
  <2> HIDE DEF c0, N
  <2>3. \A p, q \in R : c0[p] = c0[q] => p = q
    BY <1>7, <2>1
  <2> QED
    BY <2>2, <2>3 DEF Injection, IsInjective
<1>9. c0 \in Surjection(R, 1..N)
  <2>1. IsFiniteSet(1..N) /\ Cardinality(1..N) = N
    BY <1>1, IntervalFinite
  <2>2. Cardinality(R) = N
    OBVIOUS
  <2> HIDE DEF c0, N
  <2> QED
    BY <1>8, <2>1, <2>2, FS_Injection
<1>10. ASSUME NEW i \in 1..N PROVE NthOf(R, i) \in R /\ Cardinality(KeysUpTo(R, NthOf(R, i))) = i
  <2>1. \E p \in R : c0[p] = i
    <3> HIDE DEF c0, N
    <3> QED
      BY <1>9, <1>10 DEF Surjection
  <2>2. \E p \in R : Cardinality(KeysUpTo(R, p)) = i
    BY <2>1
  <2> QED
    BY <2>2 DEF NthOf
<1>11. ASSUME NEW p \in R PROVE \E i \in 1..N : NthOf(R, i) = p
  <2> DEFINE i == Cardinality(KeysUpTo(R, p))
  <2>1. i \in 1..N
    BY <1>5
  <2>2. NthOf(R, i) \in R /\ Cardinality(KeysUpTo(R, NthOf(R, i))) = i
    BY <1>10, <2>1
  <2>3. NthOf(R, i) = p
    BY <1>7, <2>2
  <2> QED
    BY <2>1, <2>3
<1> QED
  BY <1>10, <1>11

-----------------------------------------------------------------------------
(* The clusters.  Two notes of a pair that was joined have one root, and a *)
(* set that no relationship leaves holds a note with its root.             *)
Alone == [n \in Notes |-> n]
Same(par, p) == \A n, m \in p : RootOf(par)[n] = RootOf(par)[m]
ClosedIn(R, S) == \A p \in R : p \cap S # {} => p \subseteq S
Kept(par, R) ==
  \A S \in SUBSET Notes : ClosedIn(R, S) => \A n \in Notes : n \in S <=> RootOf(par)[n] \in S
ClustersInv ==
  /\ Forest(parent) /\ Kept(parent, Related)
  /\ phase \notin {"clusters", "drawn"} => parent = Alone
  /\ phase = "clusters" =>
       at <= Cardinality(Related) /\ \A i \in 1..at : Same(parent, NthOf(Related, i))
  /\ phase = "drawn" => \A p \in Related : Same(parent, p)

LEMMA RelatedPairs ==
  Related \in SUBSET Pairs /\ Cardinality(Related) \in Nat
<1>1. Related \in SUBSET Pairs
  BY DEF Related
<1> QED
  BY <1>1, PairsFinite, FS_CardinalityType

LEMMA EachAlone ==
  ASSUME NEW R
  PROVE  Forest(Alone) /\ Kept(Alone, R)
<1>1. Alone \in [Notes -> Notes] /\ \A n \in Notes : Alone[n] = n
  BY DEF Alone
<1>2. Forest(Alone)
  <2> DEFINE rank == [n \in Notes |-> 0]
  <2>1. rank \in [Notes -> 0..0] /\ 0 \in Nat
    OBVIOUS
  <2>2. Ranked(Alone, rank)
    BY <1>1 DEF Ranked
  <2> HIDE DEF rank
  <2> QED
    BY <1>1, <2>1, <2>2 DEF Forest
<1>3. \A n \in Notes : RootOf(Alone)[n] = n
  BY <1>1, <1>2, RootForm
<1>4. Kept(Alone, R)
  BY <1>3 DEF Kept
<1> QED
  BY <1>2, <1>4

\* One relationship is joined.
LEMMA JoinedPair ==
  ASSUME NEW par, Forest(par), NEW R \in SUBSET Pairs, Kept(par, R), NEW p \in R,
         NEW s \in Notes, NEW t \in Notes, p = {s, t}
  PROVE  LET next == United(par, s, t)
         IN Forest(next) /\ Kept(next, R) /\ Same(next, p) /\ \A q \in R : Same(par, q) => Same(next, q)
<1> DEFINE next == United(par, s, t)
           r == RootOf(par)
           u == RootOf(next)
<1>1. Forest(next) /\ \A n \in Notes : u[n] = IF r[n] \in {r[s], r[t]} THEN r[s] ELSE r[n]
  BY UnitedForest
<1> HIDE DEF next, r, u
<1>2. Same(next, p)
  <2>1. u[s] = r[s] /\ u[t] = r[s]
    BY <1>1
  <2>2. \A n, m \in p : u[n] = u[m]
    BY <2>1
  <2> QED
    BY <2>2 DEF Same, u
<1>3. ASSUME NEW q \in R, Same(par, q) PROVE Same(next, q)
  <2>1. q \subseteq Notes
    BY DEF Pairs
  <2>2. \A n, m \in q : r[n] = r[m]
    BY <1>3 DEF Same, r
  <2>3. \A n, m \in q : u[n] = u[m]
    BY <1>1, <2>1, <2>2
  <2> QED
    BY <2>3 DEF Same, u
<1>4. Kept(next, R)
  <2> SUFFICES ASSUME NEW S \in SUBSET Notes, ClosedIn(R, S), NEW n \in Notes PROVE n \in S <=> u[n] \in S
    BY DEF Kept, u
  <2>1. \A m \in Notes : m \in S <=> r[m] \in S
    BY DEF Kept, r
  <2>2. s \in S <=> t \in S
    BY DEF ClosedIn
  <2>3. r[s] \in S <=> r[t] \in S
    BY <2>1, <2>2
  <2>4. CASE r[n] \in {r[s], r[t]}
    BY <1>1, <2>1, <2>3, <2>4
  <2>5. CASE r[n] \notin {r[s], r[t]}
    BY <1>1, <2>1, <2>5
  <2> QED
    BY <2>4, <2>5
<1> QED
  BY <1>1, <1>2, <1>3, <1>4 DEF next

LEMMA UnionIsUnited == \A s, t : Union(s, t) = United(parent, s, t)
BY RootAndPath DEF Union, United

LEMMA JoinSteps ==
  ASSUME GraphTyped, ClustersInv, JoinClusters
  PROVE  ClustersInv'
<1>1. /\ phase = "clusters" /\ phase' = phase /\ at < Cardinality(Related) /\ at' = at + 1 /\ at \in Nat
      /\ Related' = Related /\ Cardinality(Related) \in Nat
      /\ Forest(parent) /\ Kept(parent, Related) /\ \A i \in 1..at : Same(parent, NthOf(Related, i))
  BY RelatedPairs DEF JoinClusters, Related, ClustersInv, GraphTyped
<1>2. PICK R : R = Related
  OBVIOUS
<1>3. PICK k : k = at'
  OBVIOUS
<1>4. R \in SUBSET Pairs /\ k \in 1..Cardinality(R) /\ k = at + 1 /\ Related' = R
  BY <1>1, <1>2, <1>3, RelatedPairs
<1>5. PICK p : p = NthOf(R, k)
  OBVIOUS
<1>6. p \in R /\ p \in Pairs
  BY <1>4, <1>5, Enumerated
<1>7. PICK s \in p : parent' = Union(s, Other(p, s))
  <2>1. Nth(k) = p
    BY <1>2, <1>5, NthIsNth
  <2> QED
    BY <1>3, <2>1 DEF JoinClusters
<1>8. PICK t : t = Other(p, s)
  OBVIOUS
<1>9. s \in Notes /\ t \in Notes /\ p = {s, t}
  BY <1>6, <1>7, <1>8, OtherEnd
<1>10. parent' = United(parent, s, t)
  BY <1>7, <1>8, UnionIsUnited
<1>11. Forest(parent') /\ Kept(parent', R) /\ Same(parent', p) /\ \A q \in R : Same(parent, q) => Same(parent', q)
  BY <1>1, <1>2, <1>4, <1>6, <1>9, <1>10, JoinedPair
<1>12. ASSUME NEW i \in 1..k PROVE Same(parent', NthOf(R, i))
  <2>1. CASE i = k
    BY <1>5, <1>11, <2>1
  <2>2. CASE i # k
    <3>1. i \in 1..at /\ i \in 1..Cardinality(R)
      BY <1>1, <1>2, <1>4, <2>2
    <3>2. NthOf(R, i) \in R
      BY <1>4, <3>1, Enumerated
    <3> QED
      BY <1>1, <1>2, <1>11, <3>1, <3>2
  <2> QED
    BY <2>1, <2>2
<1>13. Cardinality(Related') = Cardinality(R) /\ k <= Cardinality(R)
  BY <1>1, <1>2, <1>4
<1> QED
  BY <1>1, <1>3, <1>4, <1>11, <1>12, <1>13 DEF ClustersInv

LEMMA ClustersStep == GraphTyped /\ ClustersInv /\ [GraphNext]_graphVars => ClustersInv'
<1> SUFFICES ASSUME GraphTyped, ClustersInv, [GraphNext]_graphVars PROVE ClustersInv'
  OBVIOUS
<1>1. ASSUME phase \notin {"clusters", "drawn"}, phase' \notin {"clusters", "drawn"}, parent' = parent
      PROVE  ClustersInv'
  BY <1>1, EachAlone DEF ClustersInv
<1>2. CASE RelateNotes \/ FirstPass \/ SecondPass
  BY <1>1, <1>2 DEF RelateNotes, FirstPass, SecondPass
<1>3. CASE JoinClusters
  BY <1>3, JoinSteps
<1>4. CASE NextLoop
  <2>0. parent' = parent /\ at' = 0 /\ Related' = Related
    BY <1>4 DEF NextLoop, Related
  <2>1. CASE phase = "first" /\ phase' = "second"
    BY <1>1, <2>0, <2>1
  <2>2. CASE phase = "second" /\ phase' = "clusters"
    <3>1. Forest(parent) /\ Kept(parent, Related)
      BY DEF ClustersInv
    <3>2. \A i : i \notin 1..0
      OBVIOUS
    <3>3. 0 <= Cardinality(Related)
      BY RelatedPairs
    <3> QED
      BY <2>0, <2>2, <3>1, <3>2, <3>3 DEF ClustersInv
  <2>3. CASE phase = "clusters" /\ at = Cardinality(Related) /\ phase' = "drawn"
    <3>1. \A i \in 1..Cardinality(Related) : Same(parent, NthOf(Related, i))
      BY <2>3 DEF ClustersInv
    <3>2. \A p \in Related : Same(parent, p)
      BY <3>1, RelatedPairs, Enumerated
    <3> QED
      BY <2>0, <2>3, <3>2 DEF ClustersInv
  <2> QED
    BY <1>4, <2>1, <2>2, <2>3 DEF NextLoop
<1>5. CASE UNCHANGED graphVars
  BY <1>5 DEF graphVars, ClustersInv, Related
<1> QED
  BY <1>2, <1>3, <1>4, <1>5 DEF GraphNext

LEMMA ClustersStart ==
  ASSUME phase \in {"links", "drawn"}, kind = [p \in Pairs |-> "none"], parent = [n \in Notes |-> n]
  PROVE  ClustersInv
<1>1. Related = {} /\ parent = Alone
  BY DEF Related, Alone
<1> QED
  BY <1>1, EachAlone DEF ClustersInv

\* The inductive invariant of NoteGraph.
GraphInv == TopicInv /\ ClustersInv

LEMMA GraphStarts ==
  ASSUME phase \in {"links", "drawn"}, kind = [p \in Pairs |-> "none"], candidates = <<>>,
         degree = [n \in Notes |-> 0], at = 0, parent = [n \in Notes |-> n]
  PROVE  GraphInv
BY TopicsStart, ClustersStart DEF GraphInv

LEMMA GraphInitInv == GraphInit => GraphInv
BY GraphStarts DEF GraphInit

LEMMA GraphStep == GraphInv /\ [GraphNext]_graphVars => GraphInv'
BY TopicsStep, ClustersStep DEF GraphInv, TopicInv

LEMMA GraphInvType == GraphInv => GraphTypeOK
BY DEF GraphInv, TopicInv, GraphTyped, ClustersInv, Forest, GraphTypeOK

LEMMA GraphStays == GraphSpec => []GraphInv
  BY GraphInitInv, GraphStep, PTL DEF GraphSpec

\* The clusters of the union-find are what relationships connect.
LEMMA RootsHold ==
  ASSUME GraphInv
  PROVE  /\ Root \in [Notes -> Notes] /\ \A n \in Notes : Root[Root[n]] = Root[n]
         /\ \A n \in Notes : Cluster(n) = {m \in Notes : Root[m] = Root[n]}
<1>1. Forest(parent)
  BY DEF GraphInv, ClustersInv
<1>2. /\ RootOf(parent) \in [Notes -> Notes]
      /\ \A n \in Notes : RootOf(parent)[RootOf(parent)[n]] = RootOf(parent)[n]
  BY <1>1, RootForm, RootsAreRoots
<1> QED
  BY <1>2, RootAndPath DEF Cluster

LEMMA GroupsAreClusters ==
  ASSUME GraphInv, phase = "drawn"
  PROVE  Groups = {Cluster(n) : n \in Notes}
<1> DEFINE closed == {S \in SUBSET Notes : Closed(Related, S)}
           Group(n) == {m \in Notes : \A S \in closed : n \in S => m \in S}
<1>1. (\A p \in Related : Same(parent, p)) /\ Kept(parent, Related) /\ Root = RootOf(parent)
  BY RootAndPath DEF GraphInv, ClustersInv
<1>2. ASSUME NEW n \in Notes PROVE Group(n) = Cluster(n)
  <2>1. Cluster(n) = {m \in Notes : Root[m] = Root[n]} /\ n \in Cluster(n)
    BY RootsHold
  <2>2. Cluster(n) \in closed
    <3>1. ASSUME NEW p \in Related, NEW m \in p, m \in Cluster(n), NEW k \in p PROVE k \in Cluster(n)
      <4>1. k \in Notes
        BY DEF Related, Pairs
      <4>2. Root[k] = Root[m]
        BY <1>1 DEF Same
      <4> QED
        BY <2>1, <3>1, <4>1, <4>2
    <3>2. Closed(Related, Cluster(n))
      BY <3>1 DEF Closed
    <3> QED
      BY <2>1, <3>2
  <2>3. ASSUME NEW S \in closed, n \in S, NEW m \in Cluster(n) PROVE m \in S
    <3>1. S \in SUBSET Notes /\ ClosedIn(Related, S)
      BY DEF Closed, ClosedIn
    <3>2. \A k \in Notes : k \in S <=> Root[k] \in S
      BY <1>1, <3>1 DEF Kept
    <3> QED
      BY <2>1, <2>3, <3>2
  <2> HIDE DEF closed
  <2> QED
    BY <2>1, <2>2, <2>3
<1>3. Groups = {Group(n) : n \in Notes}
  BY DEF Groups
<1> HIDE DEF Group
<1> QED
  BY <1>2, <1>3

\* The colours are dealt in the order in which the clusters begin.
LEMMA ClusterBegins ==
  ASSUME GraphInv, NEW n \in Notes
  PROVE  LET first == Lowest(Cluster(n))
         IN first \in Notes /\ Root[first] = Root[n] /\ \A m \in 1..(first - 1) : m \in Notes /\ Root[m] # Root[n]
<1> DEFINE first == Lowest(Cluster(n))
<1>1. Cluster(n) = {m \in Notes : Root[m] = Root[n]} /\ n \in Cluster(n) /\ Cluster(n) \subseteq Nat
  BY RootsHold DEF Notes
<1>2. first \in Cluster(n) /\ \A m \in Cluster(n) : first <= m
  BY <1>1, LowestMember
<1> HIDE DEF first
<1>3. first \in 1..Count /\ Count \in Nat
  BY <1>1, <1>2, NotesFinite DEF Notes
<1>4. \A m \in 1..(first - 1) : m \in Notes /\ ~(first <= m)
  BY <1>3 DEF Notes
<1>5. \A m \in 1..(first - 1) : Root[m] # Root[n]
  BY <1>1, <1>2, <1>4
<1> QED
  BY <1>1, <1>2, <1>4, <1>5 DEF first

LEMMA BeforeFinite ==
  ASSUME GraphInv, NEW n \in Notes
  PROVE  /\ ClustersBefore(n) \subseteq {Root[m] : m \in Notes} /\ IsFiniteSet(ClustersBefore(n))
         /\ Cardinality(ClustersBefore(n)) \in Nat /\ Root[n] \notin ClustersBefore(n)
<1>1. ClustersBefore(n) \subseteq {Root[m] : m \in Notes} /\ Root[n] \notin ClustersBefore(n)
  BY ClusterBegins DEF ClustersBefore
<1>2. ClustersBefore(n) \in SUBSET Notes
  BY <1>1, RootsHold
<1> QED
  BY <1>1, <1>2, NotesFinite, FS_Subset, FS_CardinalityType

LEMMA LaterClusterHasMore ==
  ASSUME GraphInv, NEW n \in Notes, NEW m \in Notes, Lowest(Cluster(n)) < Lowest(Cluster(m))
  PROVE  Cardinality(ClustersBefore(n)) < Cardinality(ClustersBefore(m))
<1>1. PICK i : i = Lowest(Cluster(n))
  OBVIOUS
<1>2. PICK k : k = Lowest(Cluster(m))
  OBVIOUS
<1>3. i \in Notes /\ k \in Notes /\ i < k /\ Root[i] = Root[n]
  BY <1>1, <1>2, ClusterBegins
<1>4. i \in 1..(k - 1) /\ 1..(i - 1) \subseteq 1..(k - 1)
  BY <1>3 DEF Notes
<1>5. ClustersBefore(n) = {Root[x] : x \in 1..(i - 1)} /\ ClustersBefore(m) = {Root[x] : x \in 1..(k - 1)}
  BY <1>1, <1>2 DEF ClustersBefore
<1>6. ClustersBefore(n) \subseteq ClustersBefore(m) /\ Root[n] \in ClustersBefore(m)
  BY <1>3, <1>4, <1>5
<1>7. ClustersBefore(n) # ClustersBefore(m)
  BY <1>6, BeforeFinite
<1>8. /\ Cardinality(ClustersBefore(n)) <= Cardinality(ClustersBefore(m))
      /\ Cardinality(ClustersBefore(n)) # Cardinality(ClustersBefore(m))
  BY <1>6, <1>7, BeforeFinite, FS_Subset
<1>9. Cardinality(ClustersBefore(n)) \in Nat /\ Cardinality(ClustersBefore(m)) \in Nat
  BY BeforeFinite
<1> QED
  BY <1>8, <1>9

LEMMA FewerThanClusters ==
  ASSUME GraphInv, NEW n \in Notes
  PROVE  Cardinality(ClustersBefore(n)) < Cardinality({Cluster(m) : m \in Notes})
<1> DEFINE roots == {Root[m] : m \in Notes}
           clusters == {Cluster(m) : m \in Notes}
           f == [x \in roots |-> Cluster(x)]
<1>1. roots \subseteq Notes /\ \A x \in roots : Root[x] = x
  BY RootsHold
<1>2. IsFiniteSet(roots) /\ IsFiniteSet(clusters)
  <2>1. IsFiniteSet(SUBSET Notes)
    BY NotesFinite, FS_SUBSET
  <2>2. clusters \in SUBSET SUBSET Notes
    BY DEF Cluster
  <2> HIDE DEF clusters, roots
  <2> QED
    BY <1>1, <2>1, <2>2, NotesFinite, FS_Subset
<1>3. f \in [roots -> clusters]
  <2>1. \A x \in roots : Cluster(x) \in clusters
    BY <1>1
  <2> HIDE DEF roots, clusters
  <2> QED
    BY <2>1
<1>4. ASSUME NEW x \in roots, NEW y \in roots, f[x] = f[y] PROVE x = y
  <2>1. Cluster(x) = Cluster(y)
    BY <1>4
  <2>2. x \in Cluster(x) /\ Cluster(y) = {m \in Notes : Root[m] = Root[y]}
    BY <1>1, RootsHold
  <2>3. Root[x] = Root[y]
    BY <2>1, <2>2
  <2> QED
    BY <1>1, <2>3
<1> HIDE DEF f
<1>5. f \in Injection(roots, clusters)
  BY <1>3, <1>4 DEF Injection, IsInjective
<1>6. Cardinality(roots) <= Cardinality(clusters)
  BY <1>2, <1>5, FS_Injection
<1>7. ClustersBefore(n) \subseteq roots /\ ClustersBefore(n) # roots
  BY BeforeFinite
<1> HIDE DEF roots, clusters
<1>8. /\ Cardinality(ClustersBefore(n)) <= Cardinality(roots)
      /\ Cardinality(ClustersBefore(n)) # Cardinality(roots)
  BY <1>2, <1>7, FS_Subset
<1>9. /\ Cardinality(ClustersBefore(n)) \in Nat /\ Cardinality(roots) \in Nat
      /\ Cardinality(clusters) \in Nat
  BY <1>2, BeforeFinite, FS_CardinalityType
<1>10. Cardinality(ClustersBefore(n)) < Cardinality(clusters)
  BY <1>6, <1>8, <1>9
<1> QED
  BY <1>10 DEF clusters

LEMMA SmallRemainder == \A k, q \in Nat : k < q => k % q = k
OBVIOUS

\* Notes that relationships connect are drawn in one colour; notes that are
\* not, in two, while no colour has to be used again.
THEOREM ColoursAlwaysTell == GraphSpec => []ColoursTellClusters
<1>1. GraphInv => ColoursTellClusters
  <2> SUFFICES ASSUME GraphInv, phase = "drawn" PROVE ColoursTellClusters
    BY DEF ColoursTellClusters
  <2>1. Groups = {Cluster(n) : n \in Notes}
    BY GroupsAreClusters
  <2>2. ASSUME NEW n \in Notes PROVE Colors(Cluster(n)) = {noteColor(n)}
    <3>1. Cluster(n) = {m \in Notes : Root[m] = Root[n]} /\ n \in Cluster(n)
      BY RootsHold
    <3>2. ASSUME NEW m \in Cluster(n) PROVE noteColor(m) = noteColor(n)
      <4>1. Cluster(m) = Cluster(n)
        BY <3>1, RootsHold
      <4> QED
        BY <4>1 DEF noteColor, ClustersBefore
    <3> QED
      BY <3>1, <3>2 DEF Colors
  <2>3. ASSUME Cardinality(Groups) <= Palette, NEW n \in Notes, NEW m \in Notes, Cluster(n) # Cluster(m)
        PROVE  noteColor(n) # noteColor(m)
    <3>1. PICK i : i = Cardinality(ClustersBefore(n))
      OBVIOUS
    <3>2. PICK k : k = Cardinality(ClustersBefore(m))
      OBVIOUS
    <3>3. PICK q : q = Cardinality(Groups)
      OBVIOUS
    <3>4. i \in Nat /\ k \in Nat /\ i < q /\ k < q
      BY <2>1, <3>1, <3>2, <3>3, BeforeFinite, FewerThanClusters
    <3>5. q \in Nat /\ Palette \in Nat
      <4>1. IsFiniteSet(SUBSET Notes)
        BY NotesFinite, FS_SUBSET
      <4>2. Groups \in SUBSET SUBSET Notes
        BY <2>1 DEF Cluster
      <4> QED
        BY <3>3, <4>1, <4>2, FS_Subset, FS_CardinalityType, GraphAssumption
    <3>6. noteColor(n) = i % Palette /\ noteColor(m) = k % Palette
      BY <3>1, <3>2 DEF noteColor
    <3>7. i < Palette /\ k < Palette
      BY <2>3, <3>3, <3>4, <3>5
    <3>8. noteColor(n) = i /\ noteColor(m) = k
      BY <3>4, <3>5, <3>6, <3>7, SmallRemainder
    <3>9. i # k
      <4>1. Lowest(Cluster(n)) # Lowest(Cluster(m))
        <5>1. Root[n] # Root[m]
          BY <2>3, RootsHold
        <5> QED
          BY <5>1, ClusterBegins
      <4>2. Lowest(Cluster(n)) \in Nat /\ Lowest(Cluster(m)) \in Nat
        BY ClusterBegins DEF Notes
      <4>3. Lowest(Cluster(n)) < Lowest(Cluster(m)) \/ Lowest(Cluster(m)) < Lowest(Cluster(n))
        BY <4>1, <4>2
      <4>4. i < k \/ k < i
        BY <3>1, <3>2, <4>3, LaterClusterHasMore
      <4> QED
        BY <3>4, <4>4
    <3> QED
      BY <3>8, <3>9
  <2>4. \A g \in Groups : \A k1, k2 \in Colors(g) : k1 = k2
    BY <2>1, <2>2
  <2>5. ASSUME Cardinality(Groups) <= Palette, NEW g \in Groups, NEW h \in Groups, g # h
        PROVE  Colors(g) \cap Colors(h) = {}
    <3>1. PICK n \in Notes : g = Cluster(n)
      BY <2>1
    <3>2. PICK m \in Notes : h = Cluster(m)
      BY <2>1
    <3>3. noteColor(n) # noteColor(m)
      BY <2>3, <2>5, <3>1, <3>2
    <3> QED
      BY <2>2, <3>1, <3>2, <3>3
  <2> QED
    BY <2>4, <2>5 DEF ColoursTellClusters
<1> QED
  BY <1>1, GraphStays, PTL

-----------------------------------------------------------------------------
(* The five side by side.                                                  *)

PartsInv == MarkdownInv /\ LinksInv /\ GraphInv /\ TypeInv /\ SessionTypeOK

LEMMA PartsStart == PartsInit => PartsInv
<1> SUFFICES ASSUME PartsInit PROVE PartsInv
  OBVIOUS
<1>1. MarkdownOff => MarkdownInv
  BY MarkdownStarts DEF MarkdownOff
<1>2. GraphOff => GraphInv
  BY GraphStarts DEF GraphOff
<1>3. MarkdownInv
  BY <1>1, MarkdownInitInv DEF PartsInit
<1>4. LinksInv
  BY LinksInitInv, LinksOffInv DEF PartsInit
<1>5. GraphInv
  BY <1>2, GraphInitInv DEF PartsInit
<1>6. TypeInv
  BY EditorStarts DEF PartsInit
<1>7. SessionTypeOK
  BY SessionStarts DEF PartsInit
<1> QED
  BY <1>3, <1>4, <1>5, <1>6, <1>7 DEF PartsInv

\* In a step each part takes a step of its own or none.
LEMMA PartsStep == PartsInv /\ [PartsNext]_partVars => PartsInv'
<1> SUFFICES ASSUME PartsInv, [PartsNext]_partVars PROVE PartsInv'
  OBVIOUS
<1>1. /\ [MarkdownNext]_markdownVars /\ [LinksNext]_linkVars /\ [GraphNext]_graphVars
      /\ [EditorNext]_editorVars /\ [SessionNext]_sessionVars
  BY DEF PartsNext, partVars, textVars
<1>2. MarkdownInv' /\ LinksInv' /\ GraphInv'
  BY <1>1, MarkdownStep, LinksStep, GraphStep DEF PartsInv
<1>3. TypeInv' /\ SessionTypeOK'
  BY <1>1, TypeStep, SessionStep DEF PartsInv
<1> QED
  BY <1>2, <1>3 DEF PartsInv

\* Whichever part of the client runs, all that it keeps has its type.
THEOREM PartsTypeCorrect == PartsSpec => []PartsTypeOK
<1>1. PartsInv => PartsTypeOK
  BY MarkdownInvType, LinksInvType, GraphInvType DEF PartsInv, PartsTypeOK, TypeInv
<1> QED
  BY <1>1, PartsStart, PartsStep, PTL DEF PartsSpec
===============================================================================
