--------------------------- MODULE BrowserSession ---------------------------
(***************************************************************************)
(* The signed-in state of the web client: App, its poll of /api/me, the    *)
(* sign-in form, and the idle timer and lock button of Layout.             *)
(*                                                                         *)
(* App shows the sign-in form or the vault by the flag authed.  What sets  *)
(* it are answers of requests that may overlap: the poll, which runs on    *)
(* the sign-in form too, the refresh of a loaded page and of one that has  *)
(* been locked, and the sign-in itself.  Every request the server accepts, *)
(* the poll included, makes the session fresh again.  The model follows    *)
(* one tab and the session its cookie names.                               *)
(***************************************************************************)
EXTENDS Integers

CONSTANTS
  Requests,     \* identifiers of requests under way
  IdleLimit,    \* ticks of inactivity after which the page, and the server, lock
  PollEvery,    \* ticks between two polls
  MaxDeeds,     \* bound: what the operator does
  MaxLost       \* bound: requests that fail on the way

ASSUME SessionAssumption ==
  {IdleLimit, PollEvery} \subseteq Nat \ {0} /\ {MaxDeeds, MaxLost} \subseteq Nat

VARIABLES
  setUp,        \* the vault has its first account
  live, idleFor,             \* the session of the cookie, and the ticks since its last request
  initialized,  \* what the page knows of setUp
  authed,
  idleTimer,    \* the timeout of Layout, which is mounted while authed
  pollDue,      \* ticks to the next poll
  request,
  deeds, lost

pageState == <<initialized, authed, idleTimer, pollDue>>
sessionVars == <<setUp, live, idleFor, pageState, request, deeds, lost>>

Stopped == -1
NoRequest == [for |-> "nothing", at |-> "start", answer |-> "none", older |-> FALSE]
Refresh == [NoRequest EXCEPT !.for = "refresh", !.at = "bootstrap"]

SessionTypeOK ==
  /\ {setUp, live, authed} \subseteq BOOLEAN /\ initialized \in {"unknown", "yes", "no"}
  /\ idleFor \in 0..(IdleLimit + 1) /\ idleTimer \in Stopped..IdleLimit /\ pollDue \in 0..PollEvery
  /\ request \in [Requests -> [for: {"nothing", "refresh", "poll", "sign-in", "lock"},
                               at: {"start", "bootstrap", "me", "setup", "login", "lock"},
                               answer: {"none", "ok", "new", "denied", "lost"}, older: BOOLEAN]]
  /\ deeds \in 0..MaxDeeds /\ lost \in 0..MaxLost

-----------------------------------------------------------------------------
(* Requests.                                                               *)

Send(for, at) ==
  \E r \in Requests : /\ request[r] = NoRequest
                      /\ request' = [request EXCEPT ![r].for = for, ![r].at = at]
Finish(r) == request' = [request EXCEPT ![r] = NoRequest]
Continue(r, at) == request' = [request EXCEPT ![r].at = at, ![r].answer = "none"]
Came(r, at, answers) == request[r].at = at /\ request[r].answer \in answers

Fresh == live /\ idleFor <= IdleLimit

\* authed guards a request: an expired session is dropped, a live one made fresh
Guarded(r) ==
  /\ request' = [request EXCEPT ![r].answer = IF Fresh THEN "ok" ELSE "denied"]
  /\ live' = (Fresh /\ request[r].at # "lock")
  /\ idleFor' = IF Fresh THEN 0 ELSE idleFor
  /\ UNCHANGED <<setUp, pageState, deeds, lost>>

ServeGuarded(r) == Came(r, request[r].at, {"none"}) /\ request[r].at \in {"me", "lock"} /\ Guarded(r)

ServeBootstrap(r) ==
  /\ Came(r, "bootstrap", {"none"})
  /\ request' = [request EXCEPT ![r].answer = IF setUp THEN "ok" ELSE "new"]
  /\ UNCHANGED <<setUp, live, idleFor, pageState, deeds, lost>>

ServeSetup(r) ==
  /\ Came(r, "setup", {"none"})
  /\ request' = [request EXCEPT ![r].answer = IF setUp THEN "denied" ELSE "ok"]
  /\ setUp' = TRUE
  /\ UNCHANGED <<live, idleFor, pageState, deeds, lost>>

\* a new session takes the place of the old one in the cookie
ServeLogin(r) ==
  /\ Came(r, "login", {"none"})
  /\ \/ /\ setUp /\ live' = TRUE /\ idleFor' = 0
        /\ request' = [request EXCEPT ![r].answer = "ok"]
     \/ /\ request' = [request EXCEPT ![r].answer = "denied"]
        /\ UNCHANGED <<live, idleFor>>
  /\ UNCHANGED <<setUp, pageState, deeds, lost>>

\* on the way there, or its answer on the way back
Lose(r) ==
  /\ request[r] # NoRequest /\ request[r].answer # "lost" /\ lost < MaxLost
  /\ request' = [request EXCEPT ![r].answer = "lost"]
  /\ lost' = lost + 1
  /\ UNCHANGED <<setUp, live, idleFor, pageState, deeds>>

-----------------------------------------------------------------------------
(* App.                                                                    *)

\* Layout is mounted, with its timer, and unmounted as authed changes
ShowVault == authed' = TRUE /\ idleTimer' = IF authed THEN idleTimer ELSE IdleLimit
ShowSignIn == authed' = FALSE /\ idleTimer' = Stopped

\* those under way while the vault comes into view date from before
Aged(q) == [r \in Requests |-> IF q[r] = NoRequest THEN q[r] ELSE [q[r] EXCEPT !.older = TRUE]]

\* a bootstrap that fails counts as a vault that is not set up
BootstrapAnswered(r) ==
  /\ Came(r, "bootstrap", {"ok", "new", "lost"})
  /\ initialized' = IF request[r].answer = "ok" THEN "yes" ELSE "no"
  /\ Continue(r, "me")
  /\ UNCHANGED <<setUp, live, idleFor, authed, idleTimer, pollDue, deeds, lost>>

\* refresh takes any failure for a session that is gone
refresh(r) ==
  /\ Came(r, "me", {"ok", "denied", "lost"}) /\ request[r].for = "refresh"
  /\ IF request[r].answer = "ok"
     THEN ShowVault /\ request' = Aged([request EXCEPT ![r] = NoRequest])
     ELSE ShowSignIn /\ Finish(r)
  /\ UNCHANGED <<setUp, live, idleFor, initialized, pollDue, deeds, lost>>

\* Mutant of PollAnswered: the poll takes any failure for a refusal
PollAnsweredAny(r) ==
  /\ Came(r, "me", {"ok", "denied", "lost"}) /\ request[r].for = "poll"
  /\ IF request[r].answer # "ok" THEN ShowSignIn ELSE UNCHANGED <<authed, idleTimer>>
  /\ Finish(r)
  /\ UNCHANGED <<setUp, live, idleFor, initialized, pollDue, deeds, lost>>

\* the poll only a refusal; an answer updates role and reveal state
PollAnswered(r) ==
  /\ Came(r, "me", {"ok", "denied", "lost"}) /\ request[r].for = "poll"
  /\ IF request[r].answer = "denied" THEN ShowSignIn ELSE UNCHANGED <<authed, idleTimer>>
  /\ Finish(r)
  /\ UNCHANGED <<setUp, live, idleFor, initialized, pollDue, deeds, lost>>

SendPollOfMe ==
  /\ pollDue = 0 /\ pollDue' = PollEvery
  /\ Send("poll", "me")
  /\ UNCHANGED <<setUp, live, idleFor, initialized, authed, idleTimer, deeds, lost>>

\* Mutant of Locked: the catch of the lock is gone: onLocked follows success alone
LockedIfOk(r) ==
  /\ Came(r, "lock", {"ok", "denied", "lost"})
  /\ IF request[r].answer = "ok"
     THEN /\ ShowSignIn
          /\ request' = [request EXCEPT ![r] = Refresh]
     ELSE Finish(r) /\ UNCHANGED <<authed, idleTimer>>
  /\ UNCHANGED <<setUp, live, idleFor, initialized, pollDue, deeds, lost>>

\* onLocked, whether or not the request succeeded
Locked(r) ==
  /\ Came(r, "lock", {"ok", "denied", "lost"})
  /\ ShowSignIn
  /\ request' = [request EXCEPT ![r] = Refresh]
  /\ UNCHANGED <<setUp, live, idleFor, initialized, pollDue, deeds, lost>>

IdleFires ==
  /\ idleTimer = 0 /\ idleTimer' = Stopped
  /\ Send("lock", "lock")
  /\ UNCHANGED <<setUp, live, idleFor, initialized, authed, pollDue, deeds, lost>>

-----------------------------------------------------------------------------
(* AuthGate: in setup mode the account is created first.                   *)

SetupAnswered(r) ==
  /\ Came(r, "setup", {"ok"}) /\ Continue(r, "login")
  /\ UNCHANGED <<setUp, live, idleFor, pageState, deeds, lost>>
onAuthed(r) ==
  /\ Came(r, "login", {"ok"})
  /\ ShowVault /\ request' = Aged([request EXCEPT ![r] = NoRequest])
  /\ UNCHANGED <<setUp, live, idleFor, initialized, pollDue, deeds, lost>>
SignInFails(r) ==
  /\ request[r].for = "sign-in" /\ request[r].answer \in {"denied", "lost"} /\ Finish(r)
  /\ UNCHANGED <<setUp, live, idleFor, pageState, deeds, lost>>

-----------------------------------------------------------------------------
(* The operator, and time.                                                 *)

Deed == deeds < MaxDeeds /\ deeds' = deeds + 1

\* Enter submits again while an answer is awaited
SubmitSignIn ==
  /\ Deed /\ ~authed /\ initialized # "unknown"
  /\ Send("sign-in", IF initialized = "no" THEN "setup" ELSE "login")
  /\ UNCHANGED <<setUp, live, idleFor, pageState, lost>>
\* any event restarts the timer; the lock button is a click too
Move ==
  /\ Deed /\ authed
  /\ idleTimer' = IdleLimit
  /\ UNCHANGED <<setUp, live, idleFor, initialized, authed, pollDue, request, lost>>
PressLock ==
  /\ Deed /\ authed
  /\ idleTimer' = IdleLimit
  /\ Send("lock", "lock")
  /\ UNCHANGED <<setUp, live, idleFor, initialized, authed, pollDue, lost>>
\* a page loaded anew; what the old one had asked has no one to answer
Loaded == {[s \in Requests |-> IF s = r THEN Refresh ELSE NoRequest] : r \in Requests}
Reload ==
  /\ Deed
  /\ request' \in Loaded
  /\ initialized' = "unknown" /\ authed' = FALSE /\ idleTimer' = Stopped /\ pollDue' = PollEvery
  /\ UNCHANGED <<setUp, live, idleFor, lost>>

\* a timer that is due fires before time goes on
Passes ==
  /\ pollDue > 0 /\ idleTimer # 0
  /\ pollDue' = pollDue - 1
  /\ idleTimer' = IF idleTimer > 0 THEN idleTimer - 1 ELSE idleTimer
  /\ idleFor' = IF live /\ idleFor <= IdleLimit THEN idleFor + 1 ELSE idleFor
  /\ UNCHANGED <<setUp, live, initialized, authed, request, deeds, lost>>

SessionInit ==
  /\ setUp \in BOOLEAN /\ live \in {setUp, FALSE} /\ idleFor = 0
  /\ initialized = "unknown" /\ authed = FALSE /\ idleTimer = Stopped /\ pollDue = PollEvery
  /\ request \in Loaded
  /\ deeds = 0 /\ lost = 0

Requested(r) ==
  \/ ServeGuarded(r) \/ ServeBootstrap(r) \/ ServeSetup(r) \/ ServeLogin(r)
  \/ BootstrapAnswered(r) \/ refresh(r) \/ PollAnswered(r) \/ Locked(r)
  \/ SetupAnswered(r) \/ onAuthed(r) \/ SignInFails(r)
SessionNext ==
  \/ SubmitSignIn \/ Move \/ PressLock \/ Reload
  \/ SendPollOfMe \/ IdleFires \/ Passes
  \/ \E r \in Requests : Requested(r) \/ Lose(r)

\* time passes, timers fire, and requests are handled and answered, or fail
SessionFairness ==
  /\ WF_sessionVars(Passes) /\ WF_sessionVars(SendPollOfMe) /\ WF_sessionVars(IdleFires)
  /\ \A r \in Requests : WF_sessionVars(Requested(r))
SessionSpec == SessionInit /\ [][SessionNext]_sessionVars /\ SessionFairness

-----------------------------------------------------------------------------
(* Properties.                                                             *)

\* The vault goes from the screen for good when the operator does: however
\* the last requests overlap, and although a lock that fails is undone by the
\* refresh that follows it.
UnattendedPageLocks == <>[]~authed

\* The operator is sent to the sign-in form only by a lock, by a refusal, or by
\* a request from before the vault was shown: a failure of any other does not
\* end a session of the page (App.tsx:57).
SentAwayForAReason ==
  [][authed /\ ~authed' =>
       \/ initialized' = "unknown"
       \/ \E r \in Requests : /\ request'[r] # request[r]
                              /\ request[r].at = "lock" \/ request[r].answer = "denied" \/ request[r].older
    ]_sessionVars
=============================================================================
