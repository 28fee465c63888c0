# DRISHTI-Vault: a verification development

DRISHTI-Vault is a local password vault: a Go HTTP server over SQLite (`apps/api-go`), an
older Python server with the same interface kept as a fallback (`apps/api`), and a React
client (`apps/web`). This directory holds TLA+ models of its control logic, the TLC
configurations that check them, and theorems about them proved with TLAPS.
`PROJECT.json` is the index: the source lines of every definition, every run, the mutants
that show each property can fail, the findings, the hazards and the theorems.

Paths below are relative to the repository; `server.go`, `users.go`, `resources.go` and
`backup_import.go` are in `apps/api-go/internal/server`.

## 1. Inventory

| Part | State it keeps | Operations | What makes it hard | What makes it correct |
|---|---|---|---|---|
| Session store, `internal/sessions` | id -> user, role, a copy of the data key (DEK), LastSeen, RevealUntil | Create, Get, Lock, OpenReveal, RevealOpen | handlers keep pointers to sessions that have been wiped; expiry happens only inside `Get` | a key is usable exactly from Create to the wipe; a wiped id never comes back |
| Accounts and keys, `server.go`, `users.go` | `users` rows: verifier, salt, wrapped DEK, role, active, must_change_pw | setup, login, lock, reveal, me, change-master, create/update/deactivate/reset user | each handler reads, spends a tenth of a second in Argon2, then writes, with no transaction around it | verifier and wrapped key stay together; one data key; the reserved account stays intact; temporary passwords stay marked |
| Credentials, `resources.go` | `credentials`: site, asset, encrypted fields | list, create, update, rotate, view, copy, delete | key used through the session pointer; scope checked on a row read earlier; blank fields written back | what is stored can be decrypted; a secret answered was taken while its session lived; writes stay in scope |
| Sites and scoping, `server.go`, `users.go` | `sites`, `user_sites` | CRUD, assignSites, allowedSites, canAccessSite | ON DELETE SET NULL and CASCADE under running requests | no row refers to a missing site |
| Assets, network reference, change log, `resources.go` | three tables with a `site_id` | CRUD | scope of the form checked, of the row not; site ids that arrive as text | as for credentials |
| Backup and restore, `backup_import.go` | staged previews by token; `backup_events`; files outside | export, preview, commit (replace, merge), history | table-by-table export; replace under live sessions; steps after the transaction | a preview is restored once at most, by its owner, in time; the database stays whole |
| CSV and Excel import, `backup_import.go`, `excel.go` | rows inserted one at a time | preview, commit | no transaction: partial failure and repetition | a failed row is reported and nothing else is lost |
| Notes, `notes.go` | `notes` rows, encrypted, by owner | CRUD, pin, list, DOCX/Markdown import | read-then-write pin; one bad row fails a list | notes are their owner's |
| Database, `internal/database` | one pooled SQLite connection | Open, seed, Audit | foreign keys and their ON DELETE rules | every statement and transaction is atomic |
| Python server, `apps/api` | the same tables; own sessions, throttle, staging | the same routes | thread pool; check and record in separate steps | as for Go |
| Session in the browser, `App.tsx`, `Layout.tsx` | initialized, authed, the idle timeout, the poll's interval | refresh, poll, sign-in, setup, lock, idle timeout | answers of overlapping requests all set one flag; every poll keeps the session fresh | an unattended page locks; nobody is sent away without a reason |
| Credentials page | items, the open detail, the reveal prompt and its pending action, the clipboard timer | view, copy, rotate, save, delete, poll of the window, countdown | an action resumes after a prompt; timers race answers; a failed poll | secrets leave the screen and the clipboard |
| Notes workspace, `NotesPage.tsx` | the list, the reader's and the editor's copies, the import loop; the text of the editor twice | load, save, pin, delete, import with replace, daily note, wiki links; parse, analyse, relate, export | three copies of a note of different age over ids that are used again; React state and CodeMirror document copied into each other; one text parsed four times | writes hit the note meant; no edit is lost; what the analyses say agrees |
| Record pages and settings page | rows, open dialog, form; import previews, restore dialogs | list, save, delete, deactivate, reset, assign; CSV and Excel import, export, restore, change of password | dialogs, requests and listings that overlap and are not matched with each other | a dialog changes its own row; an import commits what it showed, once |

How they interact. The browser polls `/api/me` and calls handlers. `authed` asks the
session store for the session and hands its *pointer* to the handler, on a goroutine of
its own; the handler talks to SQLite one statement at a time through the single pooled
connection, so other handlers run between any two of its statements. The data key is
unwrapped at login, copied into the session, and used from there by every handler that
encrypts or decrypts. A lock or an expiry overwrites that copy in place while handlers may
still hold the pointer. Staged restores live in a map under a mutex of their own. A restart
loses sessions, staged restores and running requests and keeps the database.

The hard behaviours are therefore: interleavings of handlers at statement granularity, the
key being overwritten under a running handler, rows read before and written after somebody
else's write, expiry by calls only, torn multi-statement reads, and restarts. In the browser
they are promise chains that overlap, fail or answer late, state captured before an await and
used after it, timers, and ids that SQLite gives out again.

## 2. Modules

```
AccessGate                 what one session promises               (abstract)
   ^ implemented by
SessionStore  <--- SessionStoreProofs
   ^ EXTENDS
   +-- VaultAuth        <--- MCVaultAuth,       VaultAuthProofs
   +-- CredentialStore  <--- MCCredentialStore, CredentialStoreProofs
   +-- BackupRestore    <--- MCBackupRestore,   BackupRestoreProofs
          | implements
       OneShotTicket       what a restore preview promises         (abstract)

NotesWorkspace, CredentialsPage   --- MCWorkPages <--- WorkPagesProofs
RecordPages, SettingsPage         --- MCWebPages  <--- WebPagesProofs
NoteMarkdown, NoteLinks, NoteGraph,
NoteEditor, BrowserSession        --- MCWebParts  <--- WebPartsProofs

InductionLemmas            induction for the proofs about the pages
```

**SessionStore** (`sessions.go`). `sess[s]` is the Session object with identifier `s` and
whether the table still holds it; a wiped session keeps its record because handlers keep
pointers. Each operation is one step, as the store's mutex makes it. `Get` is two actions:
`GetFresh` refreshes LastSeen, `GetStale` wipes and answers nil. Times are distances from
now, counted up to the limit the code compares them with, so no clock grows; those of a wiped session,
which nothing reads, are dropped.

**AccessGate** is its abstract specification: a gate per identifier that goes from absent to
open, may be revealing for a while, and closes for good; it carries a key exactly while open.

**VaultAuth** (`server.go` login to change-master, `users.go`). A row of `users` holds
verifier, salt, wrapped key, role, active and must_change_pw. A request is a record
`req[t]`: *authed* once `authed` returned its session pointer, *drafted* once it has read
its row and computed, in Argon2, what it will write. The step from drafted to free is the
one SQL statement. `Evict` is any call on a session past the limit; `Restart` is the
process dying. `raced` is a history variable: a session was wiped under a request that
still has to read the key in it.

**CredentialStore** (`resources.go` credentials, `server.go` sites and scoping, `users.go`
assignments). A request goes through authed, admitted (the reveal check), fetched (SELECT),
scoped (canAccessSite on the row), placed (canAccessSite on the site in the form), drafted
(encryption) and its write; a view is opened once it has decrypted, a rotation written once it
has updated, and both then wait for the audit row on the one connection before they answer. Every
other request may run between two of these. The site in a form is a number or text; text is
passed on unasked. History fields: `overtaken`, a credential or the grants this request relies on
have changed since it read them; `unasked`, its site is one it may not touch and came as text;
`takenLive`, the session was in the table when the request last used its key. Deleting a site sets NULL on credentials and cascades on assignments.

**BackupRestore** (`backup_import.go`). The database is the key that the users table wraps,
the sites by name and the credentials as pairs of a site and the key of their ciphertext. An
export reads users, sites and credentials in three steps; a replace or merge is one
transaction that either leaves a database whose references hold or changes nothing; locking
the session and writing the event row are later steps. A stage that left the map keeps its
entry, whose phase tells what became of it.

**OneShotTicket** is the abstract specification of a staged preview: issued to one holder
for one payload, taken at most once before it expires, then applied or void.

The modules of the web client model JavaScript as it runs: one handler, up to its next await,
is one step, and between two of them any other handler, timer, answer or rendering may run. A
request is handled by the server and its answer arrives in two steps; it may be lost before the
first or the second, so that a request the page takes for failed may have been done.

**BrowserSession** (`App.tsx`, `Layout.tsx`, `Auth.tsx`). `initialized` and `authed` are the
states of App, `idleTimer` the timeout of Layout, `pollDue` the interval of five seconds,
`live` and `idleFor` the server's session, which every accepted request refreshes. `request[r]`
is a request under way, with the call it waits for; a sign-in goes on from setup to login, a
refresh from bootstrap to me. `older` is a history field: the request was sent before the vault
was last shown.

**CredentialsPage** (`CredentialsPage.tsx`). `window` is what is left of the server's reveal
window; `viewing` and `revealTtl` the open detail and its countdown, `pollTimer` and `poll` the
interval that asks whether the window is still open, `showReveal` and `pendingAction` the prompt
for the master password, `clip` and `clipTimer` the clipboard. `job[c]` is a promise chain:
asking /api/me, prompting, then the action itself (`executeAction`). `overdue` is a history
variable: how long the detail has been shown with the window closed.

**NotesWorkspace** (`NotesPage.tsx`, the page component). `stored` is the table, `list`,
`reader` and `editor` the copies the page holds, `import` the loop over picked files with its
replacements, `chain[c]` a save, pin, deletion or listing. A note carries a `serial`, so that a
note which got the id of a deleted one can be told from it; the code has no such number, which is
the point.

**NoteEditor** (`NoteEditor`, `MarkdownSourceEditor`). `source` is the CodeMirror document, `body`
the React state as last rendered, `queued` a state set and not rendered, `effect` the text that
the effect of the last rendering will write into the view; `save` the saves under way.

**NoteMarkdown**, **NoteLinks**, **NoteGraph** are the page's algorithms, one loop iteration a
step, against definitions of what they compute: the two block renderers with their inline
patterns, the outline and the tag detector over the same lines; `analyzeLinks`, `buildFolderTree`
and its filter, and `exportVaultAsZip` over all notes; `buildNoteRelationships`, the union-find
of `noteColor` and the colours it gives out, the first again after the last.

**RecordPages** is the seven pages that list rows of one table (sites, assets, network, changes,
users, audit, dashboard), with `mountedPage` for the differences: `table` on the server, `listed`
on the page, `editing` and `form` the dialog, `asked` the confirmations, `handler[c]` the promise
chains. **SettingsPage** is the two imports (`csv`, `excel`), the dialogs of export and restore
(`dialog`, `restoreFile`, `mode`, `busy`), and `call[c]`, the requests under way; `imported`
counts how often the server has put the rows of a pick into its tables.

Definitions whose comment begins with "Mutant of" are not part of the specification; they
are the altered forms that the properties are shown to reject. Each stands before the definition
it alters.

### Abstractions to know of

- Cryptography is ideal: what is sealed under one key or password opens under it only.
  `Zeroed` is a key buffer overwritten wholly or in part.
- A password is what a form sends, accepted or not by comparison; lengths, names, titles and
  messages are left out. Wrong passwords are choices that end the request.
- A site in a credential's form arrives as a number, as `CredentialsPage.tsx` sends it, or as text
  that spells one, as the other pages send theirs; text that spells none is refused like a site
  that does not exist, and left out.
- In BackupRestore credentials are a set, so merging one backup twice is not told from
  merging it once. The users table is its key: role and password of restored accounts are
  not followed.
- SQLite statements and transactions are atomic; `audit_log` is write-only and left out.
- CredentialStore draws ids as SQLite does without AUTOINCREMENT (one past the largest in
  use), so an id may be used again after a delete; so do NotesWorkspace and RecordPages.
- The pages model the server by what its handlers do to one table, for one user; `Elsewhere`
  and its like are the changes others make.
- An open modal covers the page for the pointer, so what lies under it cannot be clicked.
- A poll is answered, or fails, before the next one is due.
- Texts, titles and rows are model values; a line of Markdown is what the patterns of the
  parsers can tell of it (`LineForms`); titles are compared as the page does, without letter
  case; which notes link, share tags and resemble each other is any choice, in any order.

## 3. Runs

| Run | Shows | Bounds |
|---|---|---|
| `auth_keys` | verifier and wrapped key never separate; one data key except by the named race; passwords chosen by others are marked, and only those | 2 sessions, 2 requests, 2 accounts, 2 passwords, 2 salts |
| `auth_access` | the reserved account stays active and alone; the sessions still implement AccessGate under concurrent requests | 2 sessions, 2 requests, limits of one tick |
| `cred_secrets` | stored secrets stay readable except by the named race; a secret answered, though after a lock, was taken before it; a blank edit keeps the password it found | 2 sessions, 2 requests, all six handlers, 2 secrets, 1 id |
| `cred_scope` | rows refer to existing sites; writes of a location admin stay in scope unless overtaken, or placed by a site sent as text | 2 sessions (an admin's and a location admin's), 2 requests, 2 sites, 1 id |
| `restore_tickets` | the staged previews implement OneShotTicket | 2 sessions, 2 requests, 2 tokens, right and wrong mode, timing and owner |
| `restore_whole` | the database stays whole whatever torn backups are restored; an event row is written only for a restore that happened | 2 sessions, 1 request beside the direct edits, 1 site, 2 files |
| `work_pages` | notes: writes hit the note meant, imports report their losses, the list settles; credentials: no secret stays on the screen or in the clipboard without a timer that ends it | 2 ids, 3 notes ever, 2 clicks, 2 files, 2 chains; 1 credential, 2 chains, 2 clicks |
| `web_pages` | a dialog changes its own row and the table shown settles, on each page; an import commits what it showed, once | 2 ids, 3 rows ever, 3 requests or changes elsewhere, 2 chains; 2 picks, 5 requests, 2 at once |
| `web_parts` | the renderers lose no line and agree with tags and links up to named forms; link health, folders, topics and the colours of clusters are what they claim; the editor loses no edit and settles; the session of the page ends when left alone, and not without a reason | 4 lines of 13 forms; 3 notes with up to 2 links; 6 notes, 3 colours; 3 texts, 3 edits, 2 saves; 2 requests, 3 deeds, 2 losses |
| `auto_lock` | *violated*: a session left alone keeps its key | liveness, WF of the clock |
| `clipboard_kept` | *violated*: a copied password is cleared though the page was left | 1 credential, 2 chains, 3 clicks |
| `detail_lingers` | *violated*: the detail closes when the reveal window does | as above |

Why the bounds suffice on the server. Every hazard there is a race of two requests, or of one
request with a lock, an expiry, an edit or a restart, on one row; two requests and two sessions
give every ordering of such a pair, and the theorems in section 4 hold for any number. A second
password and a second salt are what makes a wrong pairing visible; a second site is what
makes a credential move. One credential id is enough because no handler relates two
credentials, and an id freed by a delete is taken again by the next create. IdleLimit and
RevealTTL are 0 where expiry may simply happen at any tick, and 1 where a window has to be
open for part of the run; a RevealTTL of 0 keeps the window closed, used in runs whose
handlers never ask for it. MaxSite and MaxId bound the ids, MaxFiles the files an export may
leave: steps past a bound are not taken.

On the pages. One page is mounted at a time and the parts of `web_parts` share no state, so a
behaviour of `work_pages`, `web_pages` and `web_parts` chooses one of them and runs it alone;
the others have no step. What bounds a page is what its user does: MaxClicks (notes), MaxActs
(credentials), MaxSteps (record pages, with the changes made elsewhere), MaxCalls (settings),
MaxEdits (editor), MaxDeeds (session); MaxLost bounds failures on the way, where fairness needs
it. Two chains, jobs, handlers, calls or saves are under way at once: every hazard of a page is
one answer that comes before, after or instead of another. A stale copy needs a note deleted,
its id given out again and the copy used, which MaxBorn = 3 over MaxId = 2 allows with a
bystander left; MaxRows over MaxRowId does the same for rows. The vault of `work_pages` starts
with one note, of the name of a file to import; a note of another title is created or imported. One credential is enough, since no property tells two
apart; RevealTTL is longer than two poll periods, so that a window closes between polls and after
one. A `window` may be open at the start, from an earlier visit. MaxLines = 4 holds a fence, what
it encloses, the fence that ends it and a line after it, or a table with a row after its
separator; six notes that all resemble one are the fewest for which the limit of four topics
decides, and with three colours in place of ten they make more clusters than colours. The texts of the editor are two and a template, so that going back to an earlier text
happens.

Symmetry. Sessions, threads, tokens, secrets, passwords, salts, chains, jobs, handlers, calls and
picks are permuted only in runs of safety properties (invariants and box-action properties),
where it is sound; none is used in `auto_lock` and `web_parts`, which check liveness.

Each instance restricts `Calls`, the handlers clients call, to those its question is about;
between them the passing runs fire every action of every next-state relation they check.
Deadlock is checked in the server's runs: time and restarts always go on. In the
runs of pages it is not, because a page whose user has used up the bound comes to rest.

Fairness. `TimedStoreSpec` (`auto_lock`) assumes weak fairness of `Tick`: the clock runs. It
assumes nothing of the clients, because nothing in the code obliges a browser to call again, and
the store has no timer of its own. The counterexample is exactly that. `SessionFairness`
(`UnattendedPageLocks`) assumes that time passes, that the interval and the timeout fire when due
(the browser keeps its timers) and that a request under way is answered or fails; it assumes
nothing of the operator, so that the property says what happens when there is none.
`EditorFairness` (`EditorSettles`) assumes that React renders what is queued and runs the effects
of a rendering, and nothing of the user.

### Findings

Three runs show the code doing other than the repository says; each is quoted with its line
in `PROJECT.json`.

1. *Auto-lock needs a visitor* (`auto_lock`). `SECURITY.md` says an idle session and its key
   are wiped from RAM; `Get` is the only place that does, so a session no request asks for
   again keeps its key as long as the process lives.
2. *The clipboard outlives the page* (`clipboard_kept`). `SECURITY.md` says the client clears it
   after 30 s; leaving the page stops the timer, and a refusal of the browser is swallowed.
   `ClipboardGuarded` shows these to be the only ways.
3. *A detail outlives its window* (`detail_lingers`). `me` answers the configured length of a
   window, not what is left, and every view and poll restarts the countdown with it.
   `SecretsLeaveScreen` shows that the poll closes the detail all the same, at most a period and
   an answer late.

Further differences were met while modelling and are part of the modelled behaviour. No run is
spent on them, because a property that names the exception tells them, or one call shows them.

- Data races and stale reads on the server: a lock during a create, rotate or reset stores a
  secret, or a copy of the data key, that nobody can read (`ReadableUnlessRaced`,
  `OneKeyUnlessRaced`; `SECURITY.md:31`). `changeMaster` writes over a reset it never saw, and
  the mark with it (`SECURITY.md:26-27`): `TemporaryPasswordsFlagged` holds it to marking what
  it writes itself. An edit with a blank password writes back the ciphertext it read, over a
  rotation (`BlankKeepsPassword`; `CREDENTIALS_PAGE_KB.md:266,363`). A view or rotation may answer
  with its secret after a lock that ran between the use of the key and the answer
  (`AnswersTakenWhileLive`).
- `backupPayload` reads table after table without a transaction, so that an export during edits
  may give a file that full restore refuses (`DatabaseWhole` shows that it harms nothing else;
  `RECOVERY.md:36-38,48`). After a full replace only the session that asked is locked
  (`SECURITY.md:183-184`), and no `backup_events` row is written (`SECURITY.md:186-187`). A
  merge adds ciphertexts of another vault that no password of this one opens.
- `siteVal` hands a `site_id` that is no JSON number on to the statement, with 0 for the scope check,
  and SQLite makes the number of it: a location admin may so place a credential in a site nobody
  assigned to them (`resources.go:60-61`, 206, 241), though `SECURITY.md:22-23` says that scoping is
  enforced on the server on every create and edit. `WritesStayInScope` names the case (`unasked`), and
  shows it to be the only way past the check of the target site but for a write that was overtaken.
- `rotateCredential` never asks for the reveal window (`CREDENTIALS_PAGE_KB.md:57` says
  reveal-gated). A credential whose site is NULL is open to every location admin
  (`README.md:57` says assigned sites only), which is why `WritesStayInScope` allows it.
- The poll of `App.tsx:49` is a request like any other and keeps the server's session fresh, also
  behind the sign-in form: with an open tab only the idle timeout of the browser locks, and a
  lock that fails there leaves the server's session live.
- In the editor an edit between a rendering and its effect is overwritten by the older text, and a
  template that undoes an edit not yet rendered leaves the view with it (`raced` in NoteEditor);
  a save that answers late closes whichever editor is open (`late`).
- The tag detector recognises other fences than the renderers (`FencesAgree`). A link inside inline
  code or emphasis has no button, the longer token being taken first (`NotesPage.tsx:1567,3570`), and
  `[[t|]]` has one though the link analysis refuses it (line 372): `FoundIsShown` names these. A tag
  that starts with a slash makes a folder whose filter shows nothing (`FolderCountsMatch`).
- Of two notes whose titles give one file name, the same title or titles that differ in a character
  no file name has, the exported vault holds the later (line 467), though line 460 says that every
  note is exported. NoteLinks has the export as it is; no property is spent on one overwrite.
- Of two notes of one title the analysis credits the last with the links and a click opens the first,
  which may be marked an orphan (lines 561, 756, 1169); a title linked twice by one note counts as a
  gap, which lines 555 and 1364 say is linked by several notes (`HealthTellsTheTruth`). With more
  clusters than colours, two clusters share one (line 2314; `ColoursTellClusters`).

## 4. Theorems

All hold for every value of the constants that the `ASSUME`s allow: any finite or infinite
sets of sessions, accounts, threads, tokens, chains, files, lines, titles or tags, any limits, any
number of notes. The assumptions say that limits are naturals (periods at least one tick), that
sentinel values (`Zeroed`, `Nobody`, `NoRow`, `NoSite`, `Blank`, `NoCred`, `None`) are not members
of the sets they mark the absence from, that the initial key and the reserved account exist, and
what the data of the pages look like: a blank line is no row of a table, a tag has at least one
part, there is a colour, the name of the daily note is a title, no chain is named `import` or `none`.

| Theorem | Property |
|---|---|
| `SessionStoreProofs!StoreTypeCorrect`, `StoreImplementsGate` | the store refines AccessGate |
| `VaultAuthProofs!AuthTypeCorrect` | type invariant, requests well formed |
| `VaultAuthProofs!KeysAlwaysAgree` | `KeysAgree` |
| `VaultAuthProofs!SuperAdminStaysIntact` | `SuperAdminIntact` |
| `VaultAuthProofs!OneKeyUntilRaced` | `OneKeyUnlessRaced` |
| `VaultAuthProofs!TemporaryPasswordsStayFlagged` | `TemporaryPasswordsFlagged` |
| `VaultAuthProofs!AuthImplementsGate` | refinement under concurrent requests and restarts |
| `CredentialStoreProofs!CredTypeCorrect` | type invariant and foreign keys |
| `CredentialStoreProofs!SecretsReadableUntilRaced` | `ReadableUnlessRaced` |
| `CredentialStoreProofs!AnswersAreTakenWhileLive` | `AnswersTakenWhileLive` |
| `CredentialStoreProofs!CredWritesStayInScope` | `WritesStayInScope` |
| `CredentialStoreProofs!BlankEditsKeepPassword` | `BlankKeepsPassword` |
| `BackupRestoreProofs!BackupTypeCorrect` | type invariant, a taken stage has one holder |
| `BackupRestoreProofs!DatabaseStaysWhole` | `DatabaseWhole` |
| `BackupRestoreProofs!RecordedRestoresDidHappen` | `RecordedRestoresHappened` |
| `BackupRestoreProofs!BackupImplementsTickets` | refinement of OneShotTicket |
| `WorkPagesProofs!WorkTypeCorrect`, `CredentialsTypeCorrect` | type invariants of both pages; the counts of an import |
| `WorkPagesProofs!ClipboardStaysGuarded` | `ClipboardGuarded` |
| `WorkPagesProofs!SecretsAlwaysLeave` | `SecretsLeaveScreen` |
| `WorkPagesProofs!ImportsReportLosses` | `ImportReportsLosses` |
| `WorkPagesProofs!ListsSettle` | `ListSettles` |
| `WorkPagesProofs!WritesAim` | `WritesHitTheirNote` |
| `WebPagesProofs!PagesTypeCorrect` | type invariants of the pages of rows and of settings |
| `WebPagesProofs!PagesSettle` | `PageSettles` |
| `WebPagesProofs!RecordWritesAim` | `WritesHitTheirRow` |
| `WebPartsProofs!PartsTypeCorrect`, `SessionTypeCorrect`, `EditorTypeCorrect` | type invariants of the five parts |
| `WebPartsProofs!NobodySentAwayForNothing` | `SentAwayForAReason` |
| `WebPagesProofs!PreviewsImportedOnce` | `ImportedOnce` |
| `WebPagesProofs!CommitsAreWhatWasShown` | `CommitsWhatWasShown` |
| `WebPartsProofs!EditsAlwaysSurvive` | `EditsSurvive` |
| `WebPartsProofs!SavesStoreWhatWasTyped` | `SavedIsTyped` |
| `WebPartsProofs!ViewsLoseNothing` | `EveryLineShown` |
| `WebPartsProofs!FoundIsAlwaysShown` | `FoundIsShown` |
| `WebPartsProofs!HealthIsTrue` | `HealthTellsTheTruth` |
| `WebPartsProofs!FoldersCountRight` | `FolderCountsMatch` |
| `WebPartsProofs!TopicsAreWell` | `TopicsChosenWell` |
| `WebPartsProofs!ColoursAlwaysTell` | `ColoursTellClusters` |

The arguments. Few of the invariants are inductive alone; each is strengthened with what the
requests in flight carry, which is where the interleavings are.

- *Refinement of AccessGate*: `StoreInv` says that a session outside the table carries no
  key (`SessionStoreProofs`). Given it, each store operation is a gate step or a stutter.
- *KeysAgree*: `KeysInv` adds that every row a request has drafted already pairs its verifier
  with its wrapped key; since the UPDATE writes the four columns together, the pairing does
  not depend on what the row held before.
- *SuperAdminIntact*: `SuperAdminInv` adds that no drafted create, update or deactivate is
  aimed at the reserved account or gives its role. It holds because the role looked up by
  `protectedUser` can never change between the check and the write.
- *TemporaryPasswordsFlagged*: `MarkInv` adds that a row drafted by a change of one's own password
  is of the session's own account and unmarked, and one drafted by a creation or a reset is marked;
  that a reset is of somebody else follows from the role in the session being the account's own.
- *OneKeyUnlessRaced*, *ReadableUnlessRaced*: `OneKeyInv` and `ReadableInv` add that rows and
  tokens drafted are under the vault's key and that a request that has still to use the
  key finds it in its session, all unless `raced`. The step cases show that only a wipe under
  such a request sets `raced`.
- *AnswersTakenWhileLive*: `TakenInv` says it of every request that holds a secret to answer. A view
  gets there from a token that, by `ReadableInv`, is under the vault's key, which by `StoreInv` no
  wiped session holds; a rotation, because a wipe before its encryption would have set `raced`.
- *WritesStayInScope*: `ScopeInv` says that, until something overtakes the request, the checks
  it has passed still hold of the credential and of the site in the form.
- *DatabaseWhole*: inductive given the type invariant; the transaction is the only step that
  could break it, and it commits a whole payload or nothing.
- *RecordedRestoresHappened*: `RecordedInv` adds that a commit about to answer has applied
  its own stage; `AppliedStays` says that no later step touches that.
- *OneShotTicket*: the type invariant carries `CommitsHoldTokens`, that a commit past the map
  lookup is the only request with its token, which makes Apply follow Take once.
- *BlankKeepsPassword*: `TokenInv` says that until something overtakes an edit, the row it
  carries has the credential's token, and keeps it to the write when the field is blank.
- *ClipboardGuarded*: `ClipInv` adds that a chain that has just written the password has not
  failed, for nothing is asked of the server before the timer is started.
- *SecretsLeaveScreen*: `ScreenInv` says that a detail shown has its poll armed, and that the ticks
  it has been overdue and those until the next poll are together at most a period, unless the
  answer that will close it is under way. It is indifferent to what the countdown shows, which is
  why the restart of finding 3 does not hurt it.
- *SentAwayForAReason*: only a refresh takes any failure for a refusal. `OlderInv` says that while
  the vault is shown every refresh under way is older than it; polls and locks have their reason
  in the property.
- *ImportedOnce*, *CommitsWhatWasShown*: `ImportInv` says that each import has at most one request
  under way, that file, preview and request are about one pick, that a pick belongs to one of the
  two imports, and that all that is left of an imported pick is its answer; so no second commit of
  it can start unless the page has reported a failure.
- *EditsSurvive*: `CopiesInv` says that what was given last is the body set last, and that view and
  body differ only while an effect is pending or a template waits to be rendered; an effect that
  still has to change the view then carries the template.
- *SavedIsTyped*: `SavesInv` says that, unless something was late, each save under way carries what
  was typed last, and that one past the table has left it there.

- *ImportReportsLosses*: the invariant counts: a file picked is still to come, has failed or has
  made a note, and the one whose note is made but not yet read is counted on both sides.
- *ListSettles*, *PageSettles*: `SettleInv` and `RecordsSettleInv` say that, unless a listing was
  missed or a change came from elsewhere, the list is the table or a listing is owed by whoever
  changed it, and that what the last listing has read and not delivered is the table.
- *WritesHitTheirNote*, *WritesHitTheirRow*: `PlaceInv` and `PlacedRows` say of every copy a page
  holds, in the list, the dialogs or a request, that while the row it was made of exists this row
  still has its id. A deletion only makes this easier; SQLite gives out an id that is free, to a
  row with a new serial.
- *EveryLineShown*, *FoundIsShown*: `ViewRead` says, of a view that has read the lines up to r,
  that its blocks and what it holds back for the code block or table it is in are, in order, the
  lines read that are not dropped, each in a block of its kind and with its links; and that it is
  in a code block exactly when the fences above are odd in number. One lemma for each kind of line
  shows that a step keeps it. `TagsInv` says that, while all fences are plain, the tag detector is
  inside code exactly when those above are odd in number, as the readers are.
- *HealthTellsTheTruth*: `Tells` says of what the loops have gathered that it tells of exactly the
  links followed so far. A note's links are followed by an inner loop, over which the lemma
  `AnalyzeTells` is by induction.
- *FolderCountsMatch*: `FoldersInv` says which notes each place holds. That the path shown for a
  place is the place itself unless it begins with an empty part, is by induction over its parts.
- *TopicsChosenWell*: `TopicInv` says that degrees count the topics chosen and never pass four, that
  both ends of a candidate are notes, and that a note passed by the first loop is related or has
  no candidate with room; degrees only grow, so that it stays so.
- *ColoursTellClusters*: `ClustersInv` says that the parents form a forest, in which a walk from any
  note ends at a root, and that two notes joined by a relationship passed so far have one root,
  and that a set closed under the relationships holds a note exactly when it holds its root. Roots and paths are
  recursive, so that the forest has an induction principle of its own; the numbering of the
  relationships by `Nth` is shown to pass each of them. A cluster that begins later in the list has
  more clusters before it, and less than there are in all, so that the remainders differ while the
  colours suffice.
- *PartsTypeOK*, *PagesTypeOK*, *WorkTypeOK*: the conjunction of the inductive invariants of the
  parts; each part takes a step of its own or none.

Induction. The provers cannot instantiate a theorem that takes an operator, as the induction
theorems of the library do. `InductionLemmas` states what is needed without one: a set of naturals
with 0 that is closed under adding one holds all of them, up to a bound; a set of naturals has a
least and, when bounded, a greatest member; and a recursive function over 0..N exists, as the
iteration of a step that is itself a function. The recursive definitions of the modules that are
proved about are therefore recursive functions, over an interval or over the notes.

Checked by TLC only: liveness (`AbandonedSessionsWiped`, `UnattendedPageLocks`, `EditorSettles`),
which the prover has no means for. The violated properties are false.

## 5. Not modelled

- Account details: names that are equal up to letter case (`UNIQUE` on `users.username` tells them
  apart, the login does not), `updateUser` writing back an active flag, and what a live session of a
  deactivated account may do, of which no document says anything to hold the code to.
- Two first launches at once (`setup` counts no users twice); BrowserSession takes a setup for
  one step. The seed is the initial state; a restart is modelled where sessions are.
- The scope of a location admin over assets, network reference and change log: `RecordPages` has
  the pages and their rows. `savePlainResource` checks the site in the form and not that of the
  row; `siteVal` and its way with text are modelled for credentials.
- How many rows an import inserts that fails half-way, and how many a repeated merge adds: the
  settings page is held to committing a preview once.
- Ownership and encryption of notes: they follow the pattern of the credentials. A listing of notes
  that fails because one row does not decrypt is one of the failures NotesWorkspace allows.
- The force layout of the two graph views and dragging in them, scores of candidates, colours
  of tags, the theme, syntax highlighting: numbers and constants that no property could tell right from
  wrong. The starred notes live in the page only.
- Listings, dashboard, audit view and page serving on the server: they only read.
- The DOCX and Markdown parsers of the server and the conversions of CSV and Excel cells:
  functions of their input.
- The Python server (`apps/api`): a fallback that is started instead of the Go one, over the same
  tables and with the same promises; its throttle of failed attempts has no counterpart in Go.
- Cryptographic primitives, and the install, start and conversion scripts; the text in `Notes/`.

## 6. Running

`tlc -config AuthKeys.cfg MCVaultAuth`, and so on with the module and configuration named in
`PROJECT.json`; `tlapm VaultAuthProofs.tla`. The longest runs (`work_pages`, `web_pages`, `web_parts`,
`cred_scope`, `auth_keys`, `auth_access`) take two to four minutes with two workers, the others
about one or less; the proofs take about a quarter of an hour in all, of
which `WebPartsProofs` takes five minutes.
