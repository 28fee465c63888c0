--------------------------- MODULE CredentialsPage ---------------------------
(***************************************************************************)
(* The credentials page: secrets on the screen and in the clipboard.       *)
(*                                                                         *)
(* The server keeps a reveal window for the session.  A button that needs  *)
(* it asks /api/me whether it is open and goes on, or puts up the prompt   *)
(* for the master password, whose answer carries on with the action that   *)
(* was pending when it was submitted.  Timers close the detail and clear   *)
(* the clipboard.  A request is handled and its answer arrives in two      *)
(* steps, either of which may fail; the answer of /api/me gives the length *)
(* of a whole window, however much of it is left.                          *)
(***************************************************************************)
EXTENDS Integers

CONSTANTS
  Creds, NoCred,
  Jobs,       \* identifiers of promise chains
  RevealTTL,    \* ticks a reveal window lasts
  ClipTTL,      \* ticks a copied password stays
  PollPeriod,   \* ticks between two polls of the window
  MaxActs       \* bound: buttons pressed that start a job

ASSUME CredentialsAssumption ==
  /\ NoCred \notin Creds
  /\ {RevealTTL, ClipTTL, PollPeriod} \subseteq Nat \ {0} /\ MaxActs \in Nat

VARIABLES
  window,       \* ticks left of the server's window
  table,        \* the credentials the server has
  items,         \* items: those the page shows
  form,         \* formOpen, form and showPassword
  saving, deleting,
  viewing, revealTtl,
  pollTimer, poll,             \* the interval of the poll, and the poll under way
  overdue,      \* ticks the detail has been shown with the window closed
  showReveal, pendingAction,
  clip,         \* what the clipboard holds
  clipTimer,    \* clipboardTimerRef, and copyCountdown
  refused,      \* the browser refused to clear that password
  job, acts,
  mounted       \* the page has not been left

server == <<window, table>>
dialogs == <<form, saving, deleting>>
detail == <<viewing, revealTtl, pollTimer, poll, overdue>>
prompt == <<showReveal, pendingAction>>
clipboard == <<clip, clipTimer, refused>>
credsVars == <<server, items, dialogs, detail, prompt, clipboard, job, acts, mounted>>

Off == -1
MaybeCred == Creds \cup {NoCred}
Action == [type: {"none", "view", "user", "pass", "rotate", "save", "delete", "load"}, cred: MaybeCred]
NoAction == [type |-> "none", cred |-> NoCred]
Asking == {"me", "reveal", "view", "session", "copy", "rotate", "save", "delete", "list"}
FreeJob == [act |-> NoAction, stage |-> "free", answer |-> "none", rows |-> {}]
FirstLoad == [FreeJob EXCEPT !.act = [type |-> "load", cred |-> NoCred], !.stage = "list"]
ClosedForm == [open |-> FALSE, cred |-> NoCred, titled |-> FALSE, show |-> FALSE]

CredentialsTypeOK ==
  /\ window \in 0..RevealTTL /\ table \subseteq Creds /\ items \subseteq Creds
  /\ form \in [open: BOOLEAN, cred: MaybeCred, titled: BOOLEAN, show: BOOLEAN]
  /\ {saving, showReveal, refused, mounted} \subseteq BOOLEAN /\ {deleting, viewing} \subseteq MaybeCred
  /\ revealTtl \in 0..RevealTTL /\ pollTimer \in Off..PollPeriod /\ clipTimer \in Off..ClipTTL
  /\ poll \in {"none", "sent", "open", "closed"} /\ overdue \in 0..(PollPeriod + 1)
  /\ pendingAction \in Action /\ clip \in {"other", "user", "pass"} /\ acts \in 0..MaxActs
  /\ job \in [Jobs -> [act: Action, stage: Asking \cup {"free", "write", "written"},
                           answer: {"none", "yes", "closed", "failed"}, rows: SUBSET Creds]]

\* React ignores what the handlers of a page that is gone set
Kept(new, old) == IF mounted THEN new ELSE old
Down(n) == IF n > 0 THEN n - 1 ELSE n

Launch(act, stage) ==
  /\ acts < MaxActs /\ acts' = acts + 1
  /\ \E c \in Jobs : job[c] = FreeJob /\ job' = [job EXCEPT ![c].act = act, ![c].stage = stage]
Goes(c, stage) == job' = [job EXCEPT ![c].stage = stage, ![c].answer = "none"]
Ends(c) == job' = [job EXCEPT ![c] = FreeJob]
At(c, stage, answers) == job[c].stage = stage /\ job[c].answer \in answers

-----------------------------------------------------------------------------
(* Buttons.  A modal covers for the pointer what is below it; the prompt   *)
(* lies over the detail, the detail over the form, the question whether to *)
(* delete over all of them.                                                *)

PromptReachable == showReveal /\ deleting = NoCred
DetailReachable == viewing # NoCred /\ ~showReveal /\ deleting = NoCred
FormReachable == form.open /\ viewing = NoCred /\ ~showReveal /\ deleting = NoCred
ListReachable == mounted /\ ~form.open /\ viewing = NoCred /\ ~showReveal /\ deleting = NoCred

requireReveal ==
  /\ ListReachable
  /\ \E type \in {"view", "user", "pass", "rotate"}, cred \in items : Launch([type |-> type, cred |-> cred], "me")
  /\ UNCHANGED <<server, items, dialogs, detail, prompt, clipboard, mounted>>

\* the buttons of the detail copy what is shown
CopyShown ==
  /\ DetailReachable
  /\ \E type \in {"user", "pass"} : Launch([type |-> type, cred |-> viewing], "write")
  /\ UNCHANGED <<server, items, dialogs, detail, prompt, clipboard, mounted>>

closeView ==
  /\ DetailReachable
  /\ viewing' = NoCred /\ revealTtl' = 0 /\ pollTimer' = Off /\ overdue' = 0
  /\ UNCHANGED <<server, items, dialogs, poll, prompt, clipboard, job, acts, mounted>>

\* Enter submits again while an answer is awaited; the button does not
submit ==
  /\ PromptReachable
  /\ Launch(pendingAction, "reveal")
  /\ UNCHANGED <<server, items, dialogs, detail, prompt, clipboard, mounted>>

\* Cancel is disabled while an answer is awaited, the cross and the backdrop
\* are not: the answer carries on all the same
CancelReveal ==
  /\ PromptReachable
  /\ showReveal' = FALSE /\ pendingAction' = NoAction
  /\ UNCHANGED <<server, items, dialogs, detail, clipboard, job, acts, mounted>>

openNew ==
  /\ ListReachable
  /\ form' = [ClosedForm EXCEPT !.open = TRUE]
  /\ UNCHANGED <<server, items, saving, deleting, detail, prompt, clipboard, job, acts, mounted>>

openEdit ==
  /\ ListReachable
  /\ \E cred \in items : form' = [ClosedForm EXCEPT !.open = TRUE, !.cred = cred, !.titled = TRUE]
  /\ UNCHANGED <<server, items, saving, deleting, detail, prompt, clipboard, job, acts, mounted>>

\* a field, the eye, or Generate, which shows the password it made
Fill ==
  /\ FormReachable
  /\ form' \in {[form EXCEPT !.titled = TRUE], [form EXCEPT !.show = ~@], [form EXCEPT !.show = TRUE]}
  /\ UNCHANGED <<server, items, saving, deleting, detail, prompt, clipboard, job, acts, mounted>>

closeForm ==
  /\ FormReachable
  /\ form' = ClosedForm
  /\ UNCHANGED <<server, items, saving, deleting, detail, prompt, clipboard, job, acts, mounted>>

saveCredential ==
  /\ FormReachable /\ ~saving /\ form.titled
  /\ Launch([type |-> "save", cred |-> form.cred], "save")
  /\ saving' = TRUE
  /\ UNCHANGED <<server, items, form, deleting, detail, prompt, clipboard, mounted>>

AskDelete ==
  /\ ListReachable
  /\ deleting' \in items
  /\ UNCHANGED <<server, items, form, saving, detail, prompt, clipboard, job, acts, mounted>>

KeepIt ==
  /\ deleting # NoCred
  /\ deleting' = NoCred
  /\ UNCHANGED <<server, items, form, saving, detail, prompt, clipboard, job, acts, mounted>>

deleteCredential ==
  /\ deleting # NoCred
  /\ Launch([type |-> "delete", cred |-> deleting], "delete")
  /\ UNCHANGED <<server, items, dialogs, detail, prompt, clipboard, mounted>>

-----------------------------------------------------------------------------
(* The server, and requests that fail.                                     *)

\* only the handlers of view and copy ask for the window
Grants(stage, cred) ==
  /\ stage \in {"view", "copy"} => window > 0
  /\ stage \in {"view", "copy", "rotate", "delete"} \/ (stage = "save" /\ cred # NoCred) => cred \in table

Change(stage, cred) ==
  CASE stage = "delete" -> table' = table \ {cred}
    [] stage = "save" /\ cred = NoCred /\ table # Creds -> \E new \in Creds \ table : table' = table \cup {new}
    [] OTHER -> UNCHANGED table

Serve(c) ==
  /\ At(c, job[c].stage, {"none"}) /\ job[c].stage \in Asking /\ Grants(job[c].stage, job[c].act.cred)
  /\ Change(job[c].stage, job[c].act.cred)
  /\ job' = [job EXCEPT ![c].answer = IF job[c].stage \in {"me", "session"} /\ window = 0 THEN "closed"
                                          ELSE "yes",
                            ![c].rows = IF job[c].stage = "list" THEN table ELSE @]
  /\ window' = IF job[c].stage = "reveal" THEN RevealTTL ELSE window
  /\ UNCHANGED <<items, dialogs, detail, prompt, clipboard, acts, mounted>>

\* refused, a wrong password, or lost on the way there or back
Fails(c) ==
  /\ job[c].stage \in Asking /\ job[c].answer # "failed"
  /\ job' = [job EXCEPT ![c].answer = "failed"]
  /\ UNCHANGED <<server, items, dialogs, detail, prompt, clipboard, acts, mounted>>

-----------------------------------------------------------------------------
(* What follows an answer.                                                 *)

FirstStage(act) == IF act.type = "rotate" THEN "rotate" ELSE "view"

MeAnswered(c) ==
  \/ /\ At(c, "me", {"yes"}) /\ Goes(c, FirstStage(job[c].act))
     /\ UNCHANGED <<server, items, dialogs, detail, prompt, clipboard, acts, mounted>>
  \/ /\ At(c, "me", {"closed"}) /\ Ends(c)
     /\ pendingAction' = Kept(job[c].act, pendingAction) /\ showReveal' = Kept(TRUE, showReveal)
     /\ UNCHANGED <<server, items, dialogs, detail, clipboard, acts, mounted>>

\* closes the prompt that is open by now; the action is that of the submission
completeReveal(c) ==
  /\ At(c, "reveal", {"yes"})
  /\ pendingAction' = NoAction /\ showReveal' = FALSE
  /\ IF job[c].act = NoAction THEN Ends(c) ELSE Goes(c, FirstStage(job[c].act))
  /\ UNCHANGED <<server, items, dialogs, detail, clipboard, acts, mounted>>

\* executeAction waits for the secrets and for /api/me together: both must
\* have found the window open, whichever was handled first
ViewAnswered(c) ==
  /\ At(c, "view", {"yes"})
  /\ Goes(c, IF job[c].act.type = "view" THEN "session" ELSE "write")
  /\ UNCHANGED <<server, items, dialogs, detail, prompt, clipboard, acts, mounted>>

\* Mutant of ShowDetail: the polling is started by the first answer of a poll
ShowDetailUnpolled(c) ==
  /\ At(c, "session", {"yes"}) /\ Ends(c)
  /\ viewing' = Kept(job[c].act.cred, viewing) /\ revealTtl' = Kept(RevealTTL, revealTtl)
  /\ overdue' = 0
  /\ UNCHANGED <<server, items, dialogs, pollTimer, poll, prompt, clipboard, acts, mounted>>

ShowDetail(c) ==
  /\ At(c, "session", {"yes"}) /\ Ends(c)
  /\ viewing' = Kept(job[c].act.cred, viewing) /\ revealTtl' = Kept(RevealTTL, revealTtl)
  /\ pollTimer' = Kept(PollPeriod, pollTimer) /\ overdue' = 0
  /\ UNCHANGED <<server, items, dialogs, poll, prompt, clipboard, acts, mounted>>

RotateAnswered(c) ==
  /\ At(c, "rotate", {"yes"}) /\ Goes(c, "write")
  /\ UNCHANGED <<server, items, dialogs, detail, prompt, clipboard, acts, mounted>>

WriteClipboard(c) ==
  /\ job[c].stage = "write"
  /\ clip' = IF job[c].act.type = "user" THEN "user" ELSE "pass"
  /\ refused' = FALSE
  /\ Goes(c, IF job[c].act.type = "user" THEN "copy" ELSE "written")
  /\ UNCHANGED <<server, items, dialogs, detail, prompt, clipTimer, acts, mounted>>

\* the browser refuses while another window has the focus
WriteRefused(c) ==
  /\ job[c].stage = "write" /\ Ends(c)
  /\ UNCHANGED <<server, items, dialogs, detail, prompt, clipboard, acts, mounted>>

\* Mutant of startClipboardClear: the timer is started when the copy has been recorded
startClipboardClearLate(c) ==
  \/ /\ job[c].stage = "written" /\ Goes(c, "copy")
     /\ UNCHANGED <<server, items, dialogs, detail, prompt, clipboard, acts, mounted>>
  \/ /\ At(c, "copy", {"yes"}) /\ Ends(c) /\ clipTimer' = ClipTTL
     /\ UNCHANGED <<server, items, dialogs, detail, prompt, clip, refused, acts, mounted>>

startClipboardClear(c) ==
  /\ job[c].stage = "written" /\ Goes(c, "copy")
  /\ clipTimer' = ClipTTL
  /\ UNCHANGED <<server, items, dialogs, detail, prompt, clip, refused, acts, mounted>>

CopyAnswered(c) ==
  /\ At(c, "copy", {"yes"})
  /\ IF job[c].act.type = "rotate" THEN Goes(c, "list") ELSE Ends(c)
  /\ UNCHANGED <<server, items, dialogs, detail, prompt, clipboard, acts, mounted>>

\* closes the form, or the question, that is open by now
SaveAnswered(c) ==
  /\ At(c, "save", {"yes"}) /\ Goes(c, "list")
  /\ form' = ClosedForm
  /\ UNCHANGED <<server, items, saving, deleting, detail, prompt, clipboard, acts, mounted>>
DeleteAnswered(c) ==
  /\ At(c, "delete", {"yes"}) /\ Goes(c, "list")
  /\ deleting' = NoCred
  /\ UNCHANGED <<server, items, form, saving, detail, prompt, clipboard, acts, mounted>>

load(c) ==
  /\ At(c, "list", {"yes"}) /\ Ends(c)
  /\ items' = Kept(job[c].rows, items)
  /\ saving' = (saving /\ job[c].act.type # "save")
  /\ UNCHANGED <<server, form, deleting, detail, prompt, clipboard, acts, mounted>>

\* a message, and nothing else: the prompt stays, and so do a form and a question
ShowsError(c) ==
  /\ job[c].answer = "failed" \/ At(c, "session", {"closed"})
  /\ Ends(c)
  /\ saving' = (saving /\ job[c].act.type # "save")
  /\ UNCHANGED <<server, items, form, deleting, detail, prompt, clipboard, acts, mounted>>

-----------------------------------------------------------------------------
(* Time.  A timer that is due fires before time goes on, and a poll is     *)
(* answered, or fails, before the next is due (a bound of the model).      *)

Tick ==
  /\ clipTimer # 0 /\ pollTimer # 0
  /\ window' = Down(window) /\ clipTimer' = Down(clipTimer)
  /\ LET expires == viewing # NoCred /\ revealTtl = 1
     IN  /\ viewing' = IF expires THEN NoCred ELSE viewing
         /\ revealTtl' = IF viewing = NoCred THEN revealTtl ELSE Down(revealTtl)
         /\ pollTimer' = IF expires THEN Off ELSE Down(pollTimer)
         /\ overdue' = IF expires \/ viewing = NoCred \/ window > 0 THEN 0
                       ELSE IF overdue > PollPeriod THEN overdue ELSE overdue + 1
  /\ UNCHANGED <<table, items, dialogs, poll, prompt, clip, refused, job, acts, mounted>>

SendPoll ==
  /\ pollTimer = 0 /\ poll = "none"
  /\ poll' = "sent" /\ pollTimer' = PollPeriod
  /\ UNCHANGED <<server, items, dialogs, viewing, revealTtl, overdue, prompt, clipboard, job, acts, mounted>>

ServePoll ==
  /\ poll = "sent"
  /\ poll' = IF window > 0 THEN "open" ELSE "closed"
  /\ UNCHANGED <<server, items, dialogs, viewing, revealTtl, pollTimer, overdue, prompt, clipboard, job, acts, mounted>>

\* a poll that fails closes the detail too
syncRevealWindow ==
  \/ /\ poll = "open"
     /\ poll' = "none" /\ revealTtl' = Kept(RevealTTL, revealTtl)
     /\ UNCHANGED <<server, items, dialogs, viewing, pollTimer, overdue, prompt, clipboard, job, acts, mounted>>
  \/ /\ poll # "none"
     /\ poll' = "none" /\ viewing' = NoCred /\ revealTtl' = 0 /\ pollTimer' = Off /\ overdue' = 0
     /\ UNCHANGED <<server, items, dialogs, prompt, clipboard, job, acts, mounted>>

\* a refusal is ignored, and the page says that the clipboard is cleared
ClearClipboard ==
  /\ clipTimer = 0
  /\ clipTimer' = Off
  /\ \E done \in BOOLEAN : /\ clip' = IF done THEN "other" ELSE clip
                           /\ refused' = (refused \/ ~done)
  /\ UNCHANGED <<server, items, dialogs, detail, prompt, job, acts, mounted>>

\* leaving the page stops its timers
Unmount ==
  /\ mounted /\ mounted' = FALSE
  /\ clipTimer' = Off /\ pollTimer' = Off
  /\ form' = ClosedForm /\ deleting' = NoCred
  /\ viewing' = NoCred /\ revealTtl' = 0 /\ overdue' = 0 /\ showReveal' = FALSE /\ pendingAction' = NoAction
  /\ UNCHANGED <<server, items, saving, poll, clip, refused, job, acts>>

\* the window may be open since an earlier visit to the page
CredentialsInit ==
  /\ window \in 0..RevealTTL /\ table \in SUBSET Creds /\ items = {}
  /\ form = ClosedForm /\ saving = FALSE /\ deleting = NoCred
  /\ viewing = NoCred /\ revealTtl = 0 /\ pollTimer = Off /\ poll = "none" /\ overdue = 0
  /\ showReveal = FALSE /\ pendingAction = NoAction
  /\ clip = "other" /\ clipTimer = Off /\ refused = FALSE
  /\ \E c \in Jobs :
       job = [d \in Jobs |-> IF d = c THEN FirstLoad ELSE FreeJob]
  /\ acts = 0 /\ mounted = TRUE

Operator ==
  \/ requireReveal \/ CopyShown \/ closeView \/ submit \/ CancelReveal
  \/ openNew \/ openEdit \/ Fill \/ closeForm \/ saveCredential
  \/ AskDelete \/ KeepIt \/ deleteCredential \/ Unmount
executeAction(c) ==
  \/ ViewAnswered(c) \/ ShowDetail(c) \/ RotateAnswered(c)
  \/ WriteClipboard(c) \/ WriteRefused(c) \/ startClipboardClear(c) \/ CopyAnswered(c)
Continues(c) ==
  \/ MeAnswered(c) \/ completeReveal(c) \/ executeAction(c)
  \/ SaveAnswered(c) \/ DeleteAnswered(c) \/ load(c) \/ ShowsError(c)
CredentialsNext ==
  \/ Operator \/ Tick \/ SendPoll \/ ServePoll \/ syncRevealWindow \/ ClearClipboard
  \/ \E c \in Jobs : Serve(c) \/ Fails(c) \/ Continues(c)
CredentialsSpec == CredentialsInit /\ [][CredentialsNext]_credsVars

-----------------------------------------------------------------------------
(* Properties.                                                             *)

\* A password is in the clipboard only while a timer runs that will clear it,
\* or is just about to be started: whatever becomes of the request that
\* records the copy, and whichever copies overlap.  It outlives that when the
\* page is left, whose timers are stopped, and when the browser refuses the
\* clearing.
ClipboardGuarded ==
  clip = "pass" /\ mounted /\ ~refused =>
    clipTimer # Off \/ \E c \in Jobs : job[c].stage = "written"

\* Secrets stay on the screen no longer than a poll of the window, and the
\* answer of the one under way, after the server's window has closed: also
\* when the detail was opened late, reopened, or when a poll failed.
SecretsLeaveScreen == window > 0 \/ overdue <= PollPeriod \/ poll # "none"

\* The client clears the clipboard (docs/SECURITY.md:98), also when the
\* operator goes to another page or window.
ClipboardCleared ==
  clip = "pass" => clipTimer # Off \/ \E c \in Jobs : job[c].stage = "written"

\* The detail closes when the reveal window expires
\* (docs/CREDENTIALS_PAGE_KB.md:356): at the latest a tick later, or when the
\* request under way is answered.
DetailClosesWithWindow == window > 0 \/ overdue = 0 \/ poll # "none"
=============================================================================
