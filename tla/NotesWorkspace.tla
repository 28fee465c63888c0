--------------------------- MODULE NotesWorkspace ---------------------------
(***************************************************************************)
(* The Notes page of the web client (NotesPage.tsx): the list it loads,    *)
(* the reader, the editor, the import loop and the requests they start.    *)
(*                                                                         *)
(* Every handler that awaits is a promise chain: a request changes the     *)
(* notes table, a listing follows, and its answer is put into the page.    *)
(* Between two steps of a chain anything else may run.  The page holds     *)
(* three kinds of copies of a note, all taken at other moments: the list,  *)
(* the note open in the reader and the one open in the editor.  The table  *)
(* gives the id of a deleted last row to the next note (INTEGER PRIMARY    *)
(* KEY without AUTOINCREMENT), so a copy may name another note by then:    *)
(* serial, a number no two notes share, tells the two apart.               *)
(***************************************************************************)
EXTENDS Integers, Sequences, FiniteSets, FiniteSetsExt

CONSTANTS
  MaxId,      \* bound: ids of notes are 1..MaxId
  MaxBorn,    \* bound: notes ever stored
  MaxClicks,  \* bound: requests and imports the user starts
  Titles,     \* titles, up to the letter case the page ignores
  Today,      \* the title of today's daily note
  Untitled,   \* the empty title
  Typed,      \* the body a user types
  Template,   \* the body of the daily template
  Imported,   \* the body an imported file gives
  Blank,      \* the empty body
  Files,      \* [name, title]: the file's name and the title its content gives
  MaxFiles,   \* bound: files picked at once
  Chains,     \* identifiers of promise chains
  NoNote

ASSUME WorkspaceAssumption ==
  /\ {MaxClicks, MaxFiles} \subseteq Nat /\ {MaxId, MaxBorn} \subseteq Nat \ {0}
  /\ Today \in Titles
  /\ Files \subseteq [name: Titles, title: Titles]
  /\ {"import", "none"} \cap Chains = {}

VARIABLES
  stored,     \* the notes table, decrypted
  born,       \* notes stored so far
  list,       \* notes: the rows of the listing shown
  loadError,  \* loadError is set
  reader,     \* docBrowserNote
  editor,     \* EditorState, and the text in the NoteEditor
  chain,      \* the promise chains of load, saveNote, togglePin, removeNote
  import,     \* the importFiles loop and what its last message reports
  dupCheck,   \* the duplicate-import warning
  clicks,     \* requests and imports started so far
  lastRead,   \* the chain whose listing the server answered last
  shownLast,  \* that answer is the one shown
  missed      \* the listing after a change failed, and none has been read since

page == <<list, loadError, reader, editor, dupCheck>>
history == <<lastRead, shownLast, missed>>
vars == <<stored, born, page, chain, import, clicks, history>>

Ids == 1..MaxId
Bodies == {Typed, Template, Imported, Blank}
Text == [title: Titles \cup {Untitled}, body: Bodies]
Note == [title: Titles \cup {Untitled}, body: Bodies, pinned: BOOLEAN, serial: 1..MaxBorn]
Table == [Ids -> Note \cup {NoNote}]
NoRows == [id \in Ids |-> NoNote]
NoText == [title |-> Untitled, body |-> Blank]
Copy == [id: Ids \cup {0}, serial: 0..MaxBorn, text: Text]    \* what a copy keeps of a note
NoCopy == [id |-> 0, serial |-> 0, text |-> NoText]
Closed == [kind |-> "none", note |-> NoCopy, title |-> Untitled, text |-> NoText]
Idle == [op |-> "idle", note |-> NoCopy, text |-> NoText, stage |-> "end", rows |-> NoRows]
NoImport == [files |-> <<>>, replace |-> {}, stage |-> "end", rows |-> NoRows, id |-> 0,
             last |-> NoCopy, picked |-> 0, failed |-> 0, made |-> 0]
NoDup == [files |-> <<>>, existing |-> {}]

TypeOK ==
  /\ stored \in Table /\ list \in Table
  /\ born \in 0..MaxBorn /\ clicks \in 0..MaxClicks
  /\ {loadError, shownLast, missed} \subseteq BOOLEAN
  /\ reader \in Copy
  /\ editor \in [kind: {"none", "new", "edit"}, note: Copy,
                 title: Titles \cup {Untitled}, text: Text]
  /\ chain \in [Chains -> [op: {"idle", "load", "create", "update", "pin", "delete"},
                           note: Copy, text: Text, stage: {"end", "call", "list", "rows"},
                           rows: Table]]
  /\ dupCheck.files \in Seq(Files) /\ dupCheck.existing \subseteq Copy
  /\ import.files \in Seq(Files) /\ import.replace \subseteq Copy
  /\ import.stage \in {"end", "delete", "post", "list", "rows"}
  /\ import.rows \in Table /\ import.last \in Copy /\ import.id \in Ids \cup {0}
  /\ import.picked \in 0..MaxFiles
  /\ import.failed \in 0..import.picked /\ import.made \in 0..import.picked
  /\ lastRead \in Chains \cup {"import", "none"}

-----------------------------------------------------------------------------
(* The notes table: what the handlers of the server do to it.              *)

TextOf(note) == [title |-> note.title, body |-> note.body]
CopyOf(table, id) == [id |-> id, serial |-> table[id].serial, text |-> TextOf(table[id])]
Rows(table) == {id \in Ids : table[id] # NoNote}

\* SQLite gives the largest rowid plus one: that of a deleted last row again
NextId == Max({0} \cup Rows(stored)) + 1
Fresh(text) == [title |-> text.title, body |-> text.body, pinned |-> FALSE, serial |-> born + 1]

Insert(text) ==
  /\ NextId \in Ids /\ born < MaxBorn
  /\ stored' = [stored EXCEPT ![NextId] = Fresh(text)]
  /\ born' = born + 1
Update(id, text) ==
  /\ stored[id] # NoNote
  /\ stored' = [stored EXCEPT ![id].title = text.title, ![id].body = text.body]
  /\ UNCHANGED born
TogglePin(id) ==
  /\ stored[id] # NoNote
  /\ stored' = [stored EXCEPT ![id].pinned = ~@]
  /\ UNCHANGED born
Delete(id) ==
  /\ stored[id] # NoNote
  /\ stored' = [stored EXCEPT ![id] = NoNote]
  /\ UNCHANGED born

-----------------------------------------------------------------------------
(* What the page shows, and who opens an editor.                           *)

\* the editor and the duplicate warning lie over the rest of the page
PageReachable == editor.kind = "none" /\ dupCheck = NoDup

\* a NoteEditor keeps its text when React finds the same key again
OpenEditor(kind, note, title, initial) ==
  LET key(k, n, t) == <<k, n.id, t>>
      kept == key(kind, note, title) = key(editor.kind, editor.note, editor.title)
  IN editor' = [kind |-> kind, note |-> note, title |-> title,
                text |-> IF kept THEN editor.text ELSE initial]
EditNote(copy) == OpenEditor("edit", copy, Untitled, copy.text)
NewNote(title, body) == OpenEditor("new", NoCopy, title, [title |-> title, body |-> body])

Titled(t) == {id \in Rows(list) : list[id].title = t}

\* the grid, the list and the sidebar open the copy of the list
OpenListed == /\ PageReachable
              /\ \E id \in Rows(list) : EditNote(CopyOf(list, id))
              /\ UNCHANGED <<stored, born, list, loadError, reader, dupCheck, chain, import, clicks, history>>
OpenBlank == /\ PageReachable /\ NewNote(Untitled, Blank)
             /\ UNCHANGED <<stored, born, list, loadError, reader, dupCheck, chain, import, clicks, history>>

OpenToday ==
  /\ PageReachable
  /\ \/ \E id \in Titled(Today) : EditNote(CopyOf(list, id))
     \/ Titled(Today) = {} /\ NewNote(Today, Template)
  /\ UNCHANGED <<stored, born, list, loadError, reader, dupCheck, chain, import, clicks, history>>

\* a [[link]] or a backlink leads away from whatever the editor holds
OpenWikiNote ==
  /\ editor.kind # "none" \/ PageReachable
  /\ \E t \in Titles :
       \/ \E id \in Titled(t) : EditNote(CopyOf(list, id))
       \/ Titled(t) = {} /\ NewNote(t, Blank)
  /\ UNCHANGED <<stored, born, list, loadError, reader, dupCheck, chain, import, clicks, history>>

OpenReaderNote ==
  /\ PageReachable
  /\ \E id \in Rows(list) : reader' = CopyOf(list, id)
  /\ UNCHANGED <<stored, born, list, loadError, editor, dupCheck, chain, import, clicks, history>>

\* the reader opens its own copy, whatever the list has become
EditFromReader ==
  /\ PageReachable /\ reader # NoCopy
  /\ EditNote(reader)
  /\ UNCHANGED <<stored, born, list, loadError, reader, dupCheck, chain, import, clicks, history>>

Type ==
  /\ editor.kind # "none"
  /\ \E t \in Titles :
       /\ editor.text.title \in {t, Untitled}
       /\ editor' = [editor EXCEPT !.text = [title |-> t, body |-> Typed]]
  /\ UNCHANGED <<stored, born, list, loadError, reader, dupCheck, chain, import, clicks, history>>

\* leaving a changed text asks first; the user agrees
Cancel ==
  /\ editor.kind # "none"
  /\ editor' = Closed
  /\ UNCHANGED <<stored, born, list, loadError, reader, dupCheck, chain, import, clicks, history>>

-----------------------------------------------------------------------------
(* Promise chains: a request, the listing after it, its answer.            *)

Start(op, note, text, stage) ==
  /\ clicks < MaxClicks
  /\ clicks' = clicks + 1
  /\ \E c \in Chains :
       /\ chain[c] = Idle
       /\ chain' = [chain EXCEPT ![c] = [op |-> op, note |-> note, text |-> text,
                                         stage |-> stage, rows |-> NoRows]]
  /\ UNCHANGED <<stored, born, page, import, history>>

\* the button is disabled while a save runs, Ctrl+S is not
Save ==
  /\ editor.kind # "none"
  /\ Start(IF editor.kind = "new" THEN "create" ELSE "update", editor.note, editor.text, "call")
Pin == PageReachable /\ \E id \in Rows(list) : Start("pin", CopyOf(list, id), NoText, "call")
Remove == PageReachable /\ \E id \in Rows(list) : Start("delete", CopyOf(list, id), NoText, "call")
Load == PageReachable /\ loadError /\ Start("load", NoCopy, NoText, "list")

Effect(c) ==
  LET r == chain[c] IN
  \/ r.op = "create" /\ Insert(r.text)
  \/ r.op = "update" /\ Update(r.note.id, r.text)
  \/ r.op = "pin" /\ TogglePin(r.note.id)
  \/ r.op = "delete" /\ Delete(r.note.id)

\* Mutant of Answer: removeNote drops its refresh
AnswerUnlisted(c) ==
  /\ chain[c].stage = "call" /\ Effect(c)
  /\ chain' = IF chain[c].op = "delete" THEN [chain EXCEPT ![c] = Idle]
              ELSE [chain EXCEPT ![c].stage = "list"]
  /\ UNCHANGED <<page, import, clicks, history>>

\* the request succeeds and the chain asks for a listing
Answer(c) ==
  /\ chain[c].stage = "call" /\ Effect(c)
  /\ chain' = [chain EXCEPT ![c].stage = "list"]
  /\ UNCHANGED <<page, import, clicks, history>>

\* the request is refused or lost before it ran, or its answer is lost after
CallFails(c) ==
  /\ chain[c].stage = "call"
  /\ chain' = [chain EXCEPT ![c] = Idle]
  /\ \/ UNCHANGED <<stored, born, missed>>
     \/ Effect(c) /\ missed' = TRUE
  /\ UNCHANGED <<page, import, clicks, lastRead, shownLast>>

Read(c) ==
  /\ chain[c].stage = "list"
  /\ chain' = [chain EXCEPT ![c].stage = "rows", ![c].rows = stored]
  /\ lastRead' = c /\ shownLast' = FALSE /\ missed' = FALSE
  /\ UNCHANGED <<stored, born, page, import, clicks>>

\* the listing fails, or its answer is lost: the page keeps what it showed
ListFails(c) ==
  /\ chain[c].stage \in {"list", "rows"}
  /\ chain' = [chain EXCEPT ![c] = Idle]
  /\ loadError' = (loadError \/ chain[c].op = "load")
  /\ missed' = (missed \/ chain[c].stage = "list")
  /\ UNCHANGED <<stored, born, list, reader, editor, dupCheck, import, clicks, lastRead, shownLast>>

\* the answer is put into the page, and a save closes the editor, whichever is open
Deliver(c) ==
  /\ chain[c].stage = "rows"
  /\ list' = chain[c].rows
  /\ shownLast' = (lastRead = c)
  /\ editor' = IF chain[c].op \in {"create", "update"} THEN Closed ELSE editor
  /\ loadError' = (loadError /\ chain[c].op # "load")
  /\ chain' = [chain EXCEPT ![c] = Idle]
  /\ UNCHANGED <<stored, born, reader, dupCheck, import, clicks, lastRead, missed>>

-----------------------------------------------------------------------------
(* The import loop.                                                        *)

Replaced(files, replace) ==
  IF files = <<>> THEN {} ELSE {copy \in replace : copy.text.title = Head(files).name}

\* where the loop stands with the file at the head of files
Enter(files, replace) ==
  CASE files = <<>> -> "end"
    [] Replaced(files, replace) # {} -> "delete"
    [] OTHER -> "post"

ImportFiles(files, replace) ==
  /\ clicks < MaxClicks /\ clicks' = clicks + 1
  /\ import' = [NoImport EXCEPT !.files = files, !.replace = replace, !.picked = Len(files),
                                !.stage = Enter(files, replace)]

\* the DropZone is busy while an import runs
PickFiles ==
  /\ import.stage = "end" /\ PageReachable
  /\ \E n \in 1..MaxFiles : \E files \in [1..n -> Files] :
       LET names == {files[i].name : i \in 1..n}
           found == {t \in names : Titled(t) # {}}
       IN \/ /\ found = {}
             /\ ImportFiles(files, {}) /\ UNCHANGED dupCheck
          \/ /\ found # {}
             /\ \E pick \in [found -> Ids] :
                  /\ \A t \in found : pick[t] \in Titled(t)
                  /\ dupCheck' = [files |-> files, existing |-> {CopyOf(list, pick[t]) : t \in found}]
             /\ UNCHANGED <<import, clicks>>
  /\ UNCHANGED <<stored, born, list, loadError, reader, editor, chain, history>>

\* the first n files without those whose names are known
NotIn(known, files) ==
  LET kept[n \in 0..Len(files)] ==
        IF n = 0 THEN <<>>
        ELSE IF files[n].name \in known THEN kept[n - 1] ELSE Append(kept[n - 1], files[n])
  IN kept

SkipDuplicates ==
  /\ dupCheck # NoDup
  /\ dupCheck' = NoDup
  /\ LET known == {copy.text.title : copy \in dupCheck.existing}
         fresh == NotIn(known, dupCheck.files)[Len(dupCheck.files)]
     IN IF fresh = <<>> THEN UNCHANGED <<import, clicks>> ELSE ImportFiles(fresh, {})
  /\ UNCHANGED <<stored, born, list, loadError, reader, editor, chain, history>>
ReplaceExisting ==
  /\ dupCheck # NoDup
  /\ dupCheck' = NoDup
  /\ ImportFiles(dupCheck.files, dupCheck.existing)
  /\ UNCHANGED <<stored, born, list, loadError, reader, editor, chain, history>>
CancelImport ==
  /\ dupCheck # NoDup
  /\ dupCheck' = NoDup
  /\ UNCHANGED <<stored, born, list, loadError, reader, editor, chain, import, clicks, history>>

\* Mutant of NextFile: the loop tries a failed file again
NextFileAgain(imp) ==
  LET rest == IF imp.failed > import.failed THEN imp.files ELSE Tail(imp.files)
  IN /\ import' = [imp EXCEPT !.files = rest, !.stage = Enter(rest, imp.replace),
                              !.rows = NoRows, !.id = 0]
     /\ UNCHANGED reader

\* Mutant of NextFile: the catch of the loop counts nothing
NextFileUncounted(imp) ==
  LET rest == Tail(imp.files)
  IN /\ import' = [imp EXCEPT !.files = rest, !.stage = Enter(rest, imp.replace),
                              !.rows = NoRows, !.id = 0, !.failed = import.failed]
     /\ UNCHANGED reader

\* the next file; after the last one the reader opens what was imported last
NextFile(imp) ==
  LET rest == Tail(imp.files)
      opens == rest = <<>> /\ imp.last # NoCopy /\ (imp.picked > 1 \/ imp.failed = 0)
  IN /\ import' = [imp EXCEPT !.files = rest, !.stage = Enter(rest, imp.replace),
                              !.rows = NoRows, !.id = 0]
     /\ reader' = IF opens THEN imp.last ELSE reader

\* Mutant of DeleteReplaced: the loop looks the name of the file up again
DeleteReplacedByTitle == \E id \in Titled(Head(import.files).name) : Delete(id)

DeleteReplaced ==
  \E copy \in Replaced(import.files, import.replace) : Delete(copy.id)
PostFile == Insert([title |-> Head(import.files).title, body |-> Imported])

ImportDelete ==
  /\ import.stage = "delete" /\ DeleteReplaced
  /\ import' = [import EXCEPT !.stage = "post"]
  /\ UNCHANGED <<page, chain, clicks, history>>

ImportPost ==
  /\ import.stage = "post" /\ PostFile
  /\ import' = [import EXCEPT !.stage = "list", !.id = NextId, !.made = @ + 1]
  /\ UNCHANGED <<page, chain, clicks, history>>

ImportRead ==
  /\ import.stage = "list"
  /\ import' = [import EXCEPT !.stage = "rows", !.rows = stored]
  /\ lastRead' = "import" /\ shownLast' = FALSE /\ missed' = FALSE
  /\ UNCHANGED <<stored, born, page, chain, clicks>>

ImportShow ==
  /\ import.stage = "rows"
  /\ list' = import.rows /\ shownLast' = (lastRead = "import")
  /\ LET here == import.rows[import.id] # NoNote
     IN NextFile(IF here THEN [import EXCEPT !.last = CopyOf(import.rows, import.id)] ELSE import)
  /\ UNCHANGED <<stored, born, loadError, editor, dupCheck, chain, clicks, lastRead, missed>>

\* a step of one file fails, its answer is lost, or the upload times out
ImportFails ==
  LET failing == [import EXCEPT !.failed = @ + 1] IN
  /\ \/ /\ import.stage \in {"delete", "post"}
        /\ NextFile(failing)
        \* the deletion before a failed upload stands, and no listing follows it
        /\ missed' = (missed \/ (import.stage = "post" /\ Replaced(import.files, import.replace) # {}))
        /\ UNCHANGED <<stored, born>>
     \/ /\ import.stage = "delete" /\ DeleteReplaced
        /\ NextFile(failing) /\ missed' = TRUE
     \/ /\ import.stage = "post" /\ PostFile
        /\ NextFile([failing EXCEPT !.made = @ + 1]) /\ missed' = TRUE
     \/ /\ import.stage \in {"list", "rows"}
        /\ NextFile(failing) /\ missed' = (missed \/ import.stage = "list")
        /\ UNCHANGED <<stored, born>>
  /\ UNCHANGED <<list, loadError, editor, dupCheck, chain, clicks, lastRead, shownLast>>

-----------------------------------------------------------------------------
\* mounting the page starts load
Init ==
  /\ stored \in {[NoRows EXCEPT ![1] = [title |-> t, body |-> Template, pinned |-> FALSE,
                                        serial |-> 1]] : t \in Titles}
  /\ born = 1 /\ clicks = 0
  /\ list = NoRows /\ loadError = FALSE /\ reader = NoCopy /\ editor = Closed
  /\ dupCheck = NoDup /\ import = NoImport
  /\ \E c \in Chains : chain = [d \in Chains |-> IF d = c THEN [Idle EXCEPT !.op = "load", !.stage = "list"]
                                                 ELSE Idle]
  /\ lastRead = "none" /\ shownLast = FALSE /\ missed = TRUE

User == \/ OpenListed \/ OpenBlank \/ OpenToday \/ OpenWikiNote \/ OpenReaderNote
        \/ EditFromReader \/ Type \/ Cancel \/ Save \/ Pin \/ Remove \/ Load
        \/ PickFiles \/ SkipDuplicates \/ ReplaceExisting \/ CancelImport
Chained(c) == Answer(c) \/ CallFails(c) \/ Read(c) \/ ListFails(c) \/ Deliver(c)
Importing == ImportDelete \/ ImportPost \/ ImportRead \/ ImportShow \/ ImportFails
Next == User \/ Importing \/ \E c \in Chains : Chained(c)

Spec == Init /\ [][Next]_vars

-----------------------------------------------------------------------------
(* Properties.                                                             *)

\* What the last message of an import says is true: the files it does not
\* count as failed have each put a note into the table.  A file whose note
\* was deleted to be replaced and could not be imported is among the failed.
ImportReportsLosses ==
  import.picked - Len(import.files) - import.failed <= import.made

\* With no request under way, the list is the table, unless the answer of an
\* older listing has overtaken that of a newer one, or a listing after a
\* change failed: every change the page makes is followed by a listing.
Quiet == import.stage = "end" /\ \A c \in Chains : chain[c] = Idle
ListSettles == Quiet /\ shownLast /\ ~missed => list = stored

\* The ids are reused, and the copies on the page grow old: still a save, a
\* pin or a deletion changes no other note than the one the user had before
\* him while that note exists.
Aim == {chain[c].note : c \in Chains} \cup import.replace
Lives(serial) == \E id \in Ids : stored[id] # NoNote /\ stored[id].serial = serial
Hit(id) == stored[id] # NoNote /\ stored'[id] # stored[id]
WritesHitTheirNote ==
  [][\A id \in Ids : Hit(id) =>
       \E copy \in Aim : /\ copy.id = id
                         /\ copy.serial = stored[id].serial \/ ~Lives(copy.serial)]_vars
=============================================================================
