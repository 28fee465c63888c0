---------------------------- MODULE SettingsPage ----------------------------
(***************************************************************************)
(* The settings page of the web client (SettingsPage.tsx): the CSV and the *)
(* Excel import, the change of the master password, the export and the     *)
(* three dialogs of a restore, with the file picker and the password       *)
(* prompt they use.                                                        *)
(*                                                                         *)
(* An import is two requests, a dry run whose preview is shown and the     *)
(* commit; the flag that disables its controls is set before each and      *)
(* reset when it settles.  The other requests share one flag and one       *)
(* dialog, which each answer sets whatever the user has opened meanwhile.  *)
(* A request ends for the page when it is answered, refused or, for the    *)
(* CSV ones, after 30 s (api.ts), and the server may have done it anyway.  *)
(***************************************************************************)
EXTENDS Integers

CONSTANTS
  Picks,      \* files picked; the same file picked again is another
  Calls,      \* identifiers of requests
  MaxCalls,   \* bound: requests started
  None

ASSUME SettingsAssumption == MaxCalls \in Nat /\ None \notin Picks

VARIABLES
  csv,        \* csvFile, csvPreview (the pick it shows) and csvBusy
  csvResult,  \* csvResult is shown
  excel,      \* importPreview and excelBusy
  dialog,     \* DialogState; file is the pick whose meta and token it holds
  restoreFile,
  mode,       \* restoreCommitMode
  busy,       \* the flag of the export and the restore
  reloading,  \* the reload after a restore that locked the vault is due
  call,       \* requests under way
  started,    \* requests started so far
  unpicked,   \* picks the user has not made
  imported,   \* how often the server has imported a pick
  warned      \* picks whose import the page has reported as failed

dialogs == <<dialog, restoreFile, mode, busy, reloading>>
settingsVars == <<csv, csvResult, excel, dialogs, call, started, unpicked, imported, warned>>

Ops == {"csvPreview", "csvCommit", "excelPreview", "excelCommit", "change", "export", "decrypt", "restore"}
NoCall == [op |-> "idle", file |-> None, answered |-> FALSE]
NoCsv == [file |-> None, preview |-> None, busy |-> FALSE]
NoExcel == [preview |-> None, busy |-> FALSE]
NoDialog == [kind |-> "none", file |-> None]
Pick == Picks \cup {None}

SettingsTypeOK ==
  /\ csv \in [file: Pick, preview: Pick, busy: BOOLEAN]
  /\ excel \in [preview: Pick, busy: BOOLEAN]
  /\ {csvResult, busy, reloading} \subseteq BOOLEAN
  /\ dialog \in [kind: {"none", "changeMaster", "export", "restoreMaster", "restoreConfirm"}, file: Pick]
  /\ dialog.file # None <=> dialog.kind = "restoreConfirm"
  /\ restoreFile \in Pick /\ mode \in {"none", "merge", "replace"}
  /\ call \in [Calls -> [op: Ops \cup {"idle"}, file: Pick, answered: BOOLEAN]]
  /\ started \in 0..MaxCalls
  /\ unpicked \subseteq Picks /\ warned \subseteq Picks
  /\ imported \in [Picks -> 0..MaxCalls]

\* the modals lie over the page and over each other in the order of the render
Top == CASE mode # "none" -> "prompt"
         [] dialog.kind # "none" -> dialog.kind
         [] excel.preview # None -> "excel"
         [] csvResult -> "result"
         [] csv.preview # None -> "csv"
         [] OTHER -> "page"

Send(op, file) ==
  /\ started < MaxCalls /\ started' = started + 1
  /\ \E c \in Calls :
       /\ call[c] = NoCall
       /\ call' = [call EXCEPT ![c] = [op |-> op, file |-> file, answered |-> FALSE]]

\* Mutant of DropZone: the picker does not look at busy
DropZoneAlways(zone) == Top = "page"

\* a DropZone takes no file, picked or dropped, while it is busy
DropZone(zone) == Top = "page" /\ ~zone.busy
PickFile(file) == file \in unpicked /\ unpicked' = unpicked \ {file}

-----------------------------------------------------------------------------
(* The CSV import.                                                         *)

PickCsv ==
  /\ DropZone(csv)
  /\ \E file \in Picks :
       /\ PickFile(file) /\ Send("csvPreview", file)
       /\ csv' = [csv EXCEPT !.file = file, !.busy = TRUE]
  /\ csvResult' = FALSE
  /\ UNCHANGED <<excel, dialogs, imported, warned>>

\* Mutant of CloseCsv: closing the preview resets the flag as well
CloseCsvIdle ==
  /\ Top = "csv"
  /\ csv' = NoCsv
  /\ UNCHANGED <<csvResult, excel, dialogs, call, started, unpicked, imported, warned>>

\* ✕, the backdrop and Cancel, which a running import does not disable
CloseCsv ==
  /\ Top = "csv"
  /\ csv' = [csv EXCEPT !.file = None, !.preview = None]
  /\ UNCHANGED <<csvResult, excel, dialogs, call, started, unpicked, imported, warned>>

CommitCsv ==
  /\ Top = "csv" /\ csv.file # None /\ ~csv.busy
  /\ csv' = [csv EXCEPT !.busy = TRUE]
  /\ Send("csvCommit", csv.file)
  /\ UNCHANGED <<csvResult, excel, dialogs, unpicked, imported, warned>>

CloseResult ==
  /\ Top = "result" /\ csvResult' = FALSE
  /\ UNCHANGED <<csv, excel, dialogs, call, started, unpicked, imported, warned>>

-----------------------------------------------------------------------------
(* The Excel import: the commit sends the rows of the preview back.        *)

PickImport ==
  /\ DropZone(excel)
  /\ \E file \in Picks : PickFile(file) /\ Send("excelPreview", file)
  /\ excel' = [excel EXCEPT !.busy = TRUE]
  /\ UNCHANGED <<csv, csvResult, dialogs, imported, warned>>

CloseImport ==
  /\ Top = "excel" /\ excel' = [excel EXCEPT !.preview = None]
  /\ UNCHANGED <<csv, csvResult, dialogs, call, started, unpicked, imported, warned>>

CommitImport ==
  /\ Top = "excel" /\ ~excel.busy
  /\ excel' = [excel EXCEPT !.busy = TRUE]
  /\ Send("excelCommit", excel.preview)
  /\ UNCHANGED <<csv, csvResult, dialogs, unpicked, imported, warned>>

-----------------------------------------------------------------------------
(* Master password, export and restore.                                    *)

OpenDialog ==
  /\ Top = "page"
  /\ \E kind \in {"changeMaster", "export"} :
       /\ kind = "export" => ~busy
       /\ dialog' = [kind |-> kind, file |-> None]
  /\ UNCHANGED <<csv, csvResult, excel, restoreFile, mode, busy, reloading, call, started,
                 unpicked, imported, warned>>

\* the label is not disabled
PickRestore ==
  /\ Top = "page"
  /\ \E file \in Picks : PickFile(file) /\ restoreFile' = file
  /\ dialog' = [kind |-> "restoreMaster", file |-> None]
  /\ UNCHANGED <<csv, csvResult, excel, mode, busy, reloading, call, started, imported, warned>>

\* ✕ and the backdrop, which a running request does not disable
CloseDialog ==
  /\ Top = dialog.kind
  /\ dialog' = NoDialog
  /\ restoreFile' = IF dialog.kind \in {"restoreMaster", "restoreConfirm"} THEN None ELSE restoreFile
  /\ UNCHANGED <<csv, csvResult, excel, mode, busy, reloading, call, started, unpicked, imported, warned>>

\* Enter submits a prompt again while its request runs
MultiPasswordPrompt(op, file, flag) ==
  /\ Send(op, file)
  /\ busy' = (busy \/ flag)
  /\ UNCHANGED <<csv, csvResult, excel, dialog, restoreFile, mode, reloading, unpicked, imported, warned>>
OnChangeMaster == Top = "changeMaster" /\ MultiPasswordPrompt("change", None, FALSE)
OnExport == Top = "export" /\ MultiPasswordPrompt("export", None, TRUE)
OnRestorePreview == /\ Top = "restoreMaster" /\ restoreFile # None
                    /\ MultiPasswordPrompt("decrypt", restoreFile, TRUE)

ChooseMode ==
  /\ Top = "restoreConfirm" /\ ~busy
  /\ mode' \in {"merge", "replace"}
  /\ UNCHANGED <<csv, csvResult, excel, dialog, restoreFile, busy, reloading, call, started,
                 unpicked, imported, warned>>
CancelMode ==
  /\ mode # "none" /\ mode' = "none"
  /\ UNCHANGED <<csv, csvResult, excel, dialog, restoreFile, busy, reloading, call, started,
                 unpicked, imported, warned>>
\* does nothing when an answer has taken the dialog away under the prompt
DoCommitWithMaster == /\ mode # "none" /\ dialog.kind = "restoreConfirm"
                      /\ MultiPasswordPrompt("restore", dialog.file, TRUE)

-----------------------------------------------------------------------------
(* Requests.                                                               *)

\* the server imports, and its answer is under way
ServeCall(c) ==
  /\ call[c] # NoCall /\ ~call[c].answered
  /\ call' = [call EXCEPT ![c].answered = TRUE]
  /\ imported' = IF call[c].op \in {"csvCommit", "excelCommit"}
                 THEN [imported EXCEPT ![call[c].file] = @ + 1] ELSE imported
  /\ UNCHANGED <<csv, csvResult, excel, dialogs, started, unpicked, warned>>

\* the answer arrives, and changes the page whatever is open by now
AnswerCsv(c) ==
  LET preview == call[c].op = "csvPreview" IN
  /\ call[c].op \in {"csvPreview", "csvCommit"} /\ call[c].answered
  /\ csv' = IF preview THEN [csv EXCEPT !.preview = call[c].file, !.busy = FALSE] ELSE NoCsv
  /\ csvResult' = (csvResult \/ ~preview)
  /\ UNCHANGED <<excel, dialogs>>
AnswerExcel(c) ==
  /\ call[c].op \in {"excelPreview", "excelCommit"} /\ call[c].answered
  /\ excel' = [preview |-> IF call[c].op = "excelPreview" THEN call[c].file ELSE None, busy |-> FALSE]
  /\ UNCHANGED <<csv, csvResult, dialogs>>
AnswerDialog(c) ==
  /\ call[c].op \in {"change", "export", "decrypt", "restore"} /\ call[c].answered
  /\ dialog' = IF call[c].op = "decrypt" THEN [kind |-> "restoreConfirm", file |-> call[c].file] ELSE NoDialog
  /\ busy' = (busy /\ call[c].op = "change")
  /\ IF call[c].op = "restore"
     THEN mode' = "none" /\ restoreFile' = None /\ reloading' \in {reloading, TRUE}
     ELSE UNCHANGED <<mode, restoreFile, reloading>>
  /\ UNCHANGED <<csv, csvResult, excel>>
Answers(c) ==
  /\ AnswerCsv(c) \/ AnswerExcel(c) \/ AnswerDialog(c)
  /\ call' = [call EXCEPT ![c] = NoCall]
  /\ UNCHANGED <<started, unpicked, imported, warned>>

\* refused, lost or timed out, before or after the server did it
CallLost(c) ==
  LET op == call[c].op IN
  /\ op # "idle"
  /\ csv' = CASE op = "csvPreview" -> [csv EXCEPT !.file = None, !.busy = FALSE]
              [] op = "csvCommit" -> [csv EXCEPT !.busy = FALSE]
              [] OTHER -> csv
  /\ excel' = IF op \in {"excelPreview", "excelCommit"} THEN [excel EXCEPT !.busy = FALSE] ELSE excel
  /\ busy' = (busy /\ op \notin {"export", "decrypt", "restore"})
  /\ warned' = IF op \in {"csvCommit", "excelCommit"} THEN warned \cup {call[c].file} ELSE warned
  /\ call' = [call EXCEPT ![c] = NoCall]
  /\ UNCHANGED <<csvResult, dialog, restoreFile, mode, reloading, started, unpicked, imported>>

-----------------------------------------------------------------------------
SettingsInit ==
  /\ csv = NoCsv /\ csvResult = FALSE /\ excel = NoExcel /\ dialog = NoDialog
  /\ restoreFile = None /\ mode = "none" /\ busy = FALSE /\ reloading = FALSE
  /\ call = [c \in Calls |-> NoCall]
  /\ started = 0 /\ unpicked = Picks /\ imported = [p \in Picks |-> 0] /\ warned = {}

\* the page starts anew, and what was under way is answered to nobody
Reload ==
  /\ reloading
  /\ csv' = NoCsv /\ csvResult' = FALSE /\ excel' = NoExcel /\ dialog' = NoDialog
  /\ restoreFile' = None /\ mode' = "none" /\ busy' = FALSE /\ reloading' = FALSE
  /\ call' = [c \in Calls |-> NoCall]
  /\ UNCHANGED <<started, unpicked, imported, warned>>

CsvImport == PickCsv \/ CloseCsv \/ CommitCsv \/ CloseResult
ExcelImport == PickImport \/ CloseImport \/ CommitImport
Passwords == OpenDialog \/ OnChangeMaster \/ OnExport \/ CloseDialog
Restore == PickRestore \/ OnRestorePreview \/ ChooseMode \/ CancelMode \/ DoCommitWithMaster \/ Reload
SettingsNext ==
  \/ CsvImport \/ ExcelImport \/ Passwords \/ Restore
  \/ \E c \in Calls : ServeCall(c) \/ Answers(c) \/ CallLost(c)
SettingsSpec == SettingsInit /\ [][SettingsNext]_settingsVars

-----------------------------------------------------------------------------
(* Properties.                                                             *)

\* What an import commits is what its preview shows.  The CSV commit sends
\* csvFile and the table of csvPreview, two states that are set on the two
\* sides of an await: "Preview is a dry run", line 316 of the page, is worth
\* something only when they are about the same file.
CommitsWhatWasShown ==
  [][\A c \in Calls : call[c] = NoCall =>
       /\ call'[c].op = "csvCommit" => call'[c].file = csv.preview
       /\ call'[c].op = "excelCommit" => call'[c].file = excel.preview]_settingsVars

\* The rows of one preview enter the tables once, unless the page has said
\* that an import of it failed: no order of clicks and answers, closing the
\* preview while its import runs included, commits them again.
ImportedOnce == \A p \in Picks : imported[p] > 1 => p \in warned
=============================================================================
