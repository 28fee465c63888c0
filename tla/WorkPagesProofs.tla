---------------------------- MODULE WorkPagesProofs ----------------------------
(***************************************************************************)
(* Theorems about NotesWorkspace and CredentialsPage, the pages MCWorkPages*)
(* puts side by side: types, what an import reports, that the list settles *)
(* on the table and no write misses its note, and that secrets leave the   *)
(* screen and the clipboard, for any number of notes, files, chains and jobs.*)
(***************************************************************************)
EXTENDS MCWorkPages, InductionLemmas, TLAPS

\* the files left when those of known names are skipped
LEMMA KeptFiles ==
  ASSUME NEW known, NEW files \in Seq(Files)
  PROVE  LET kept == NotIn(known, files)[Len(files)]
         IN kept \in Seq(Files) /\ Len(kept) <= Len(files)
<1> DEFINE N == Len(files)
           FileSeq == Seq(Files)
           Size(s) == Len(s)
           none == <<>>
           Appended(s, n) == IF files[n].name \in known THEN s ELSE Append(s, files[n])
           KeptAt(g, n) == IF n = 0 THEN none ELSE Appended(g[n - 1], n)
           Step == [p \in FileSeq \X (1..N) |-> Appended(p[1], p[2])]
           Keeps(g) == g = [n \in 0..N |-> KeptAt(g, n)]
<1>1. N \in Nat /\ none \in FileSeq /\ Size(none) = 0 /\ \A n \in 1..N : files[n] \in Files
  OBVIOUS
<1>2. ASSUME NEW s \in FileSeq, NEW n \in 1..N
      PROVE  /\ Step[<<s, n>>] = Appended(s, n) /\ Appended(s, n) \in FileSeq
             /\ Size(Appended(s, n)) <= Size(s) + 1
             /\ Size(s) \in Nat /\ Size(Appended(s, n)) \in Nat
  BY <1>1
<1>3. Step \in [FileSeq \X (1..N) -> FileSeq]
  BY <1>1, <1>2
<1> DEFINE g == NotIn(known, files)
<1>4. (\E f : Keeps(f)) => Keeps(g)
  BY DEF NotIn
<1> HIDE DEF N, FileSeq, Size, none, Appended, Step, g
<1>5. PICK f \in [0..N -> FileSeq] : Iterates(f, none, N, Step)
  BY <1>1, <1>3, IterationExists
<1>6. Keeps(f)
  <2>1. ASSUME NEW n \in 1..N PROVE f[n] = Appended(f[n - 1], n)
    <3>1. f[n - 1] \in FileSeq
      BY <1>1
    <3> QED
      BY <1>2, <1>5, <3>1 DEF Iterates
  <2>2. ASSUME NEW n \in 0..N PROVE f[n] = KeptAt(f, n)
    BY <1>1, <1>5, <2>1 DEF Iterates
  <2> HIDE DEF KeptAt
  <2> QED
    BY <2>2
<1>7. ASSUME NEW n \in 0..N PROVE g[n] = KeptAt(g, n)
  <2> HIDE DEF KeptAt
  <2> QED
    BY <1>4, <1>6
<1> DEFINE Short(n) == {s \in FileSeq : Size(s) <= n}
           G == {n \in Nat : n <= N => g[n] \in Short(n)}
<1>8. 0 \in G
  <2>1. g[0] = none
    BY <1>1, <1>7
  <2> QED
    BY <1>1, <2>1
<1>9. ASSUME NEW n \in Nat, n \in G PROVE n + 1 \in G
  <2> SUFFICES ASSUME n + 1 <= N PROVE g[n + 1] \in Short(n + 1)
    OBVIOUS
  <2>1. g[n] \in Short(n) /\ n + 1 \in 1..N /\ n + 1 - 1 = n
    BY <1>1, <1>9
  <2>2. g[n + 1] = Appended(g[n], n + 1)
    BY <1>1, <1>7, <2>1
  <2>3. /\ Appended(g[n], n + 1) \in FileSeq /\ Size(Appended(g[n], n + 1)) <= Size(g[n]) + 1
        /\ Size(g[n]) \in Nat /\ Size(Appended(g[n], n + 1)) \in Nat
    BY <1>2, <2>1
  <2>4. Size(g[n]) <= n
    BY <2>1
  <2>5. Size(Appended(g[n], n + 1)) <= n + 1
    BY <2>3, <2>4
  <2> QED
    BY <2>2, <2>3, <2>5
<1>10. N \in G
  <2> HIDE DEF G
  <2> QED
    BY <1>1, <1>8, <1>9, SetInduction
<1> QED
  BY <1>1, <1>10 DEF g, N, FileSeq, Size

-----------------------------------------------------------------------------
TitlesOrNone == Titles \cup {Untitled}
EditorType == [kind: {"none", "new", "edit"}, note: Copy, title: TitlesOrNone, text: Text]
ChainType == [op: {"idle", "load", "create", "update", "pin", "delete"}, note: Copy, text: Text,
              stage: {"end", "call", "list", "rows"}, rows: Table]
ImportType == [files: Seq(Files), replace: SUBSET Copy, stage: {"end", "delete", "post", "list", "rows"},
               rows: Table, id: Ids \cup {0}, last: Copy, picked: 0..MaxFiles, failed: Nat, made: Nat]
DupType == [files: Seq(Files), existing: SUBSET Copy]

Posted(imp) == imp.stage \in {"list", "rows"}
ImportCounts(imp) ==
  /\ imp.stage = "end" <=> imp.files = <<>>
  /\ Posted(imp) => imp.id \in Ids
  /\ Len(imp.files) + imp.failed <= imp.picked
  /\ imp.made + Len(imp.files) <= imp.picked + (IF Posted(imp) THEN 1 ELSE 0)
  /\ imp.picked + (IF Posted(imp) THEN 1 ELSE 0) <= Len(imp.files) + imp.failed + imp.made

\* Types, and the counts of an import: every file picked is still to come, has
\* failed or has made a note, but for the one under way.
TypeInv ==
  /\ stored \in Table /\ list \in Table /\ reader \in Copy
  /\ born \in 0..MaxBorn /\ clicks \in 0..MaxClicks
  /\ loadError \in BOOLEAN /\ shownLast \in BOOLEAN /\ missed \in BOOLEAN
  /\ editor \in EditorType
  /\ chain \in [Chains -> ChainType]
  /\ dupCheck \in DupType /\ Len(dupCheck.files) <= MaxFiles /\ (dupCheck = NoDup \/ dupCheck.files # <<>>)
  /\ import \in ImportType /\ ImportCounts(import)
  /\ lastRead \in Chains \cup {"import", "none"}

\* so no more files have failed, or made notes, than were picked
LEMMA TypeInvType == TypeInv => TypeOK
<1> SUFFICES ASSUME TypeInv PROVE TypeOK
  OBVIOUS
<1>1. /\ import.files \in Seq(Files) /\ import.replace \subseteq Copy
      /\ import.stage \in {"end", "delete", "post", "list", "rows"}
      /\ import.rows \in Table /\ import.last \in Copy /\ import.id \in Ids \cup {0}
      /\ import.picked \in 0..MaxFiles
  BY DEF TypeInv, ImportType
<1>2. import.failed \in 0..import.picked /\ import.made \in 0..import.picked
  <2>1. /\ import.picked \in Nat /\ import.failed \in Nat /\ import.made \in Nat /\ Len(import.files) \in Nat
        /\ ImportCounts(import)
    BY WorkspaceAssumption DEF TypeInv, ImportType
  <2>2. Posted(import) => Len(import.files) > 0
    BY <1>1, <2>1 DEF ImportCounts, Posted
  <2> QED
    BY <2>1, <2>2 DEF ImportCounts
<1>3. dupCheck.files \in Seq(Files) /\ dupCheck.existing \subseteq Copy
  BY DEF TypeInv, DupType
<1>4. {loadError, shownLast, missed} \subseteq BOOLEAN
  BY Zenon DEF TypeInv
<1>5. /\ stored \in Table /\ list \in Table /\ reader \in Copy
      /\ born \in 0..MaxBorn /\ clicks \in 0..MaxClicks
      /\ editor \in EditorType
      /\ chain \in [Chains -> ChainType]
      /\ lastRead \in Chains \cup {"import", "none"}
  BY DEF TypeInv
<1> QED
  BY Zenon, <1>1, <1>2, <1>3, <1>4, <1>5 DEF TypeOK, EditorType, ChainType, TitlesOrNone

LEMMA Copies ==
  ASSUME NEW grid \in Table, NEW id \in Ids, grid[id] # NoNote
  PROVE  CopyOf(grid, id) \in Copy
<1>1. grid[id] \in Note
  BY DEF Table
<1> QED
  BY <1>1, WorkspaceAssumption DEF CopyOf, TextOf, Copy, Text, Note

LEMMA Nulls ==
  /\ NoRows \in Table /\ NoText \in Text /\ NoCopy \in Copy /\ Closed \in EditorType /\ Idle \in ChainType
  /\ NoDup \in DupType /\ Len(NoDup.files) = 0
  /\ NoImport \in ImportType /\ ImportCounts(NoImport)
<1>1. NoRows \in Table /\ NoText \in Text
  BY DEF NoRows, Table, NoText, Text, Bodies
<1>2. NoCopy \in Copy
  BY <1>1, WorkspaceAssumption DEF NoCopy, Copy
<1>3. Closed \in EditorType /\ Idle \in ChainType
  BY <1>1, <1>2 DEF Closed, EditorType, Idle, ChainType, TitlesOrNone
<1>4. NoDup \in DupType /\ Len(NoDup.files) = 0
  BY DEF NoDup, DupType
<1>5. NoImport \in ImportType
  BY <1>1, <1>2, WorkspaceAssumption DEF NoImport, ImportType
<1>6. ImportCounts(NoImport)
  BY DEF NoImport, ImportCounts, Posted
<1> QED
  BY <1>1, <1>2, <1>3, <1>4, <1>5, <1>6

\* what the handlers of the server leave is a table again
LEMMA TableSteps ==
  ASSUME TypeInv
  PROVE  /\ \A text \in Text : Insert(text) => stored' \in Table /\ born' \in 0..MaxBorn
         /\ \A id \in Ids \cup {0}, text \in Text : Update(id, text) => stored' \in Table /\ born' \in 0..MaxBorn
         /\ \A id \in Ids \cup {0} : TogglePin(id) => stored' \in Table /\ born' \in 0..MaxBorn
         /\ \A id \in Ids \cup {0} : Delete(id) => stored' \in Table /\ born' \in 0..MaxBorn
<1>1. /\ stored \in [Ids -> Note \cup {NoNote}] /\ born \in 0..MaxBorn /\ MaxBorn \in Nat
  BY WorkspaceAssumption DEF TypeInv, Table
<1>2. ASSUME NEW text \in Text, Insert(text) PROVE stored' \in Table /\ born' \in 0..MaxBorn
  <2>1. Fresh(text) \in Note
    BY <1>1, <1>2 DEF Insert, Fresh, Note, Text
  <2> QED
    BY <1>1, <1>2, <2>1 DEF Insert, Table
<1>3. ASSUME NEW id \in Ids \cup {0}, NEW text \in Text, Update(id, text)
      PROVE  stored' \in Table /\ born' \in 0..MaxBorn
  <2>1. CASE id \in Ids
    <3>1. stored[id] \in Note
      BY <1>1, <1>3, <2>1 DEF Update
    <3>2. [stored[id] EXCEPT !.title = text.title, !.body = text.body] \in Note
      BY <3>1 DEF Note, Text
    <3> QED
      BY <1>1, <1>3, <2>1, <3>2 DEF Update, Table
  <2>2. CASE id \notin Ids
    BY <1>1, <1>3, <2>2 DEF Update, Table
  <2> QED
    BY <2>1, <2>2
<1>4. ASSUME NEW id \in Ids \cup {0}, TogglePin(id)
      PROVE  stored' \in Table /\ born' \in 0..MaxBorn
  <2>1. CASE id \in Ids
    <3>1. stored[id] \in Note
      BY <1>1, <1>4, <2>1 DEF TogglePin
    <3>2. [stored[id] EXCEPT !.pinned = ~@] \in Note
      BY <3>1 DEF Note
    <3> QED
      BY <1>1, <1>4, <2>1, <3>2 DEF TogglePin, Table
  <2>2. CASE id \notin Ids
    BY <1>1, <1>4, <2>2 DEF TogglePin, Table
  <2> QED
    BY <2>1, <2>2
<1>5. ASSUME NEW id \in Ids \cup {0}, Delete(id)
      PROVE  stored' \in Table /\ born' \in 0..MaxBorn
  BY <1>1, <1>5 DEF Delete, Table
<1> QED
  BY <1>2, <1>3, <1>4, <1>5

LEMMA EditorOpens ==
  ASSUME TypeInv
  PROVE  /\ \A copy \in Copy : EditNote(copy) => editor' \in EditorType
         /\ \A title \in TitlesOrNone, body \in Bodies : NewNote(title, body) => editor' \in EditorType
<1>1. editor \in EditorType
  BY DEF TypeInv
<1>2. ASSUME NEW copy \in Copy, EditNote(copy) PROVE editor' \in EditorType
  <2>1. copy.text \in Text /\ Untitled \in TitlesOrNone
    BY DEF Copy, TitlesOrNone
  <2> QED
    BY <1>1, <1>2, <2>1 DEF EditNote, OpenEditor, EditorType
<1>3. ASSUME NEW title \in TitlesOrNone, NEW body \in Bodies, NewNote(title, body)
      PROVE  editor' \in EditorType
  <2>1. [title |-> title, body |-> body] \in Text /\ NoCopy \in Copy
    BY Nulls DEF Text, TitlesOrNone
  <2> QED
    BY <1>1, <1>3, <2>1 DEF NewNote, OpenEditor, EditorType
<1> QED
  BY <1>2, <1>3

\* a chain that starts holds a well-formed copy and text
LEMMA ChainStarts ==
  ASSUME TypeInv,
         NEW op \in {"idle", "load", "create", "update", "pin", "delete"}, NEW note \in Copy,
         NEW text \in Text, NEW stage \in {"end", "call", "list", "rows"},
         Start(op, note, text, stage)
  PROVE  chain' \in [Chains -> ChainType] /\ clicks' \in 0..MaxClicks
<1>1. clicks \in 0..MaxClicks /\ MaxClicks \in Nat /\ chain \in [Chains -> ChainType]
  BY WorkspaceAssumption DEF TypeInv
<1>2. clicks' \in 0..MaxClicks
  BY <1>1 DEF Start
<1>3. [op |-> op, note |-> note, text |-> text, stage |-> stage, rows |-> NoRows] \in ChainType
  BY Nulls DEF ChainType
<1>4. chain' \in [Chains -> ChainType]
  BY <1>1, <1>3 DEF Start
<1> QED
  BY <1>2, <1>4

LEMMA ImportStarts ==
  ASSUME TypeInv, NEW files \in Seq(Files), NEW replace \in SUBSET Copy,
         Len(files) <= MaxFiles, files # <<>>, ImportFiles(files, replace)
  PROVE  /\ import' \in ImportType /\ ImportCounts(import') /\ clicks' \in 0..MaxClicks
<1>1. clicks \in 0..MaxClicks /\ MaxClicks \in Nat /\ Len(files) \in Nat /\ Len(files) > 0 /\ MaxFiles \in Nat
  BY WorkspaceAssumption DEF TypeInv
<1>2. clicks' \in 0..MaxClicks
  BY <1>1 DEF ImportFiles
<1>3. Enter(files, replace) \in {"delete", "post"}
  BY DEF Enter
<1>4. import' = [NoImport EXCEPT !.files = files, !.replace = replace, !.picked = Len(files),
                                 !.stage = Enter(files, replace)]
  BY DEF ImportFiles
<1>5. import' \in ImportType
  <2> DEFINE stage == Enter(files, replace)
             n == Len(files)
  <2>1. stage \in {"delete", "post"} /\ n \in 0..MaxFiles /\ NoImport \in ImportType
    BY <1>1, <1>3, Nulls
  <2>2. import' = [NoImport EXCEPT !.files = files, !.replace = replace, !.picked = n, !.stage = stage]
    BY <1>4
  <2> HIDE DEF stage, n
  <2> QED
    BY <2>1, <2>2 DEF ImportType
<1>6. ImportCounts(import')
  <2>1. /\ import'.files = files /\ import'.picked = Len(files) /\ import'.stage \in {"delete", "post"}
        /\ import'.failed = 0 /\ import'.made = 0
    BY <1>3, <1>4 DEF NoImport
  <2> QED
    BY <1>1, <2>1 DEF ImportCounts, Posted
<1> QED
  BY <1>2, <1>5, <1>6

\* the loop moves on when the file at hand is counted
LEMMA OneFileLess ==
  ASSUME NEW n \in Nat, NEW failed \in Nat, NEW made \in Nat, NEW picked \in Nat,
         n + failed <= picked + 1, made + n <= picked + 1, picked + 1 <= n + failed + made
  PROVE  /\ (n - 1) + failed <= picked /\ made + (n - 1) <= picked
         /\ picked <= (n - 1) + failed + made
  OBVIOUS

LEMMA FileCounted ==
  ASSUME TypeInv, NEW imp \in ImportType, NextFile(imp), imp.files # <<>>,
         Len(imp.files) + imp.failed <= imp.picked + 1,
         imp.made + Len(imp.files) <= imp.picked + 1,
         imp.picked + 1 <= Len(imp.files) + imp.failed + imp.made
  PROVE  import' \in ImportType /\ ImportCounts(import') /\ reader' \in Copy
<1> DEFINE rest == Tail(imp.files)
<1>1. /\ imp.files \in Seq(Files) /\ imp.last \in Copy /\ reader \in Copy
      /\ imp.failed \in Nat /\ imp.made \in Nat /\ imp.picked \in 0..MaxFiles /\ MaxFiles \in Nat
  BY WorkspaceAssumption DEF TypeInv, ImportType
<1>2. rest \in Seq(Files) /\ Len(rest) = Len(imp.files) - 1 /\ Len(imp.files) \in Nat
  BY <1>1
<1>3. Enter(rest, imp.replace) \in {"end", "delete", "post"} /\ (Enter(rest, imp.replace) = "end" <=> rest = <<>>)
  <2> HIDE DEF rest
  <2>1. CASE rest = <<>>
    <3>1. Enter(rest, imp.replace) = "end"
      BY <2>1 DEF Enter, Replaced
    <3> QED
      BY <2>1, <3>1
  <2>2. CASE rest # <<>>
    <3>1. Enter(rest, imp.replace) = IF Replaced(rest, imp.replace) # {} THEN "delete" ELSE "post"
      BY <2>2 DEF Enter
    <3> QED
      BY <2>2, <3>1
  <2> QED
    BY <2>1, <2>2
<1>4. import' = [imp EXCEPT !.files = rest, !.stage = Enter(rest, imp.replace), !.rows = NoRows, !.id = 0]
  BY DEF NextFile
<1>5. reader' \in Copy
  BY <1>1 DEF NextFile
<1>6. import' \in ImportType
  BY <1>2, <1>3, <1>4, Nulls DEF ImportType
<1>7. ImportCounts(import')
  <2>1. /\ import'.files = rest /\ import'.picked = imp.picked /\ import'.failed = imp.failed
        /\ import'.made = imp.made /\ import'.stage = Enter(rest, imp.replace)
    BY <1>4 DEF ImportType
  <2>2. Posted(import') = FALSE
    BY <1>3, <2>1 DEF Posted
  <2>3. import'.stage = "end" <=> import'.files = <<>>
    BY <1>3, <2>1
  <2> HIDE DEF rest
  <2>4. /\ Len(rest) + imp.failed <= imp.picked /\ imp.made + Len(rest) <= imp.picked
        /\ imp.picked <= Len(rest) + imp.failed + imp.made
    <3> DEFINE n == Len(imp.files)
               m == Len(rest)
    <3>1. n \in Nat /\ m = n - 1 /\ n + imp.failed <= imp.picked + 1 /\ imp.made + n <= imp.picked + 1
          /\ imp.picked + 1 <= n + imp.failed + imp.made
      BY <1>2
    <3>2. imp.failed \in Nat /\ imp.made \in Nat /\ imp.picked \in Nat
      BY <1>1
    <3> HIDE DEF n, m
    <3>3. m + imp.failed <= imp.picked /\ imp.made + m <= imp.picked /\ imp.picked <= m + imp.failed + imp.made
      BY OneFileLess, <3>1, <3>2
    <3> QED
      BY <3>3 DEF m
  <2> QED
    BY <1>1, <2>1, <2>2, <2>3, <2>4 DEF ImportCounts
<1> QED
  BY <1>5, <1>6, <1>7

\* every step keeps the types and the counts of the import
LEMMA TypeStep ==
  ASSUME TypeInv, [Next]_vars
  PROVE  TypeInv'
<1> USE DEF page, history
<1>0. /\ list \in Table /\ stored \in Table /\ reader \in Copy /\ chain \in [Chains -> ChainType]
      /\ import \in ImportType /\ ImportCounts(import) /\ MaxFiles \in Nat
      /\ editor \in EditorType /\ dupCheck \in DupType /\ Len(dupCheck.files) <= MaxFiles
  BY WorkspaceAssumption DEF TypeInv
<1>r. \A grid \in Table : \A id \in Rows(grid) : id \in Ids /\ grid[id] # NoNote
  BY DEF Rows
<1>t. Today \in TitlesOrNone /\ Titles \subseteq TitlesOrNone /\ Untitled \in TitlesOrNone
      /\ Template \in Bodies /\ Blank \in Bodies /\ Typed \in Bodies /\ Imported \in Bodies
  BY WorkspaceAssumption DEF TitlesOrNone, Bodies
<1>c. \A id \in Rows(list) : CopyOf(list, id) \in Copy
  BY <1>0, <1>r, Copies
<1>d. \A t : Titled(t) \subseteq Rows(list)
  BY DEF Titled
<1>1. CASE OpenListed
  <2>1. editor' \in EditorType
    BY <1>1, <1>c, EditorOpens DEF OpenListed
  <2> QED
    BY <1>1, <2>1 DEF OpenListed, TypeInv
<1>2. CASE OpenBlank
  <2>1. editor' \in EditorType
    BY <1>2, <1>t, EditorOpens DEF OpenBlank
  <2> QED
    BY <1>2, <2>1 DEF OpenBlank, TypeInv
<1>3. CASE OpenToday
  <2>1. editor' \in EditorType
    BY <1>3, <1>c, <1>d, <1>t, EditorOpens DEF OpenToday
  <2> QED
    BY <1>3, <2>1 DEF OpenToday, TypeInv
<1>4. CASE OpenWikiNote
  <2>1. editor' \in EditorType
    BY <1>4, <1>c, <1>d, <1>t, EditorOpens DEF OpenWikiNote
  <2> QED
    BY <1>4, <2>1 DEF OpenWikiNote, TypeInv
<1>5. CASE OpenReaderNote
  BY <1>5, <1>c DEF OpenReaderNote, TypeInv
<1>6. CASE EditFromReader
  <2>1. editor' \in EditorType
    BY <1>0, <1>6, EditorOpens DEF EditFromReader
  <2> QED
    BY <1>6, <2>1 DEF EditFromReader, TypeInv
<1>7. CASE Type
  <2>1. PICK t \in Titles : editor' = [editor EXCEPT !.text = [title |-> t, body |-> Typed]]
    BY <1>7 DEF Type
  <2>2. [title |-> t, body |-> Typed] \in Text
    BY <1>t DEF Text, TitlesOrNone
  <2>3. editor' \in EditorType
    BY <1>0, <2>1, <2>2 DEF EditorType
  <2> QED
    BY <1>7, <2>3 DEF Type, TypeInv
<1>8. CASE Cancel
  BY <1>8, Nulls DEF Cancel, TypeInv
<1>9. CASE Save
  <2>1. editor.note \in Copy /\ editor.text \in Text
    BY <1>0 DEF EditorType
  <2>2. PICK op \in {"create", "update"} : Start(op, editor.note, editor.text, "call")
    BY <1>9 DEF Save
  <2>3. chain' \in [Chains -> ChainType] /\ clicks' \in 0..MaxClicks
    BY <2>1, <2>2, ChainStarts
  <2> QED
    BY <2>2, <2>3 DEF Start, TypeInv
<1>10. CASE Pin
  <2>1. PICK id \in Rows(list) : Start("pin", CopyOf(list, id), NoText, "call")
    BY <1>10 DEF Pin
  <2>2. chain' \in [Chains -> ChainType] /\ clicks' \in 0..MaxClicks
    BY <1>c, <2>1, ChainStarts, Nulls
  <2> QED
    BY <2>1, <2>2 DEF Start, TypeInv
<1>11. CASE Remove
  <2>1. PICK id \in Rows(list) : Start("delete", CopyOf(list, id), NoText, "call")
    BY <1>11 DEF Remove
  <2>2. chain' \in [Chains -> ChainType] /\ clicks' \in 0..MaxClicks
    BY <1>c, <2>1, ChainStarts, Nulls
  <2> QED
    BY <2>1, <2>2 DEF Start, TypeInv
<1>12. CASE Load
  <2>1. Start("load", NoCopy, NoText, "list")
    BY <1>12 DEF Load
  <2>2. chain' \in [Chains -> ChainType] /\ clicks' \in 0..MaxClicks
    BY <2>1, ChainStarts, Nulls
  <2> QED
    BY <2>1, <2>2 DEF Start, TypeInv
<1>13. CASE PickFiles
  <2>1. PICK n \in 1..MaxFiles : \E files \in [1..n -> Files] :
          LET names == {files[i].name : i \in 1..n}
              found == {t \in names : Titled(t) # {}}
          IN \/ ImportFiles(files, {}) /\ UNCHANGED dupCheck
             \/ /\ \E pick \in [found -> Ids] :
                     /\ \A t \in found : pick[t] \in Titled(t)
                     /\ dupCheck' = [files |-> files, existing |-> {CopyOf(list, pick[t]) : t \in found}]
                /\ UNCHANGED <<import, clicks>>
    BY <1>13 DEF PickFiles
  <2>a. PICK files \in [1..n -> Files] : \E found :
          \/ ImportFiles(files, {}) /\ UNCHANGED dupCheck
          \/ /\ \E pick \in [found -> Ids] :
                  /\ \A t \in found : pick[t] \in Titled(t)
                  /\ dupCheck' = [files |-> files, existing |-> {CopyOf(list, pick[t]) : t \in found}]
             /\ UNCHANGED <<import, clicks>>
    BY <2>1
  <2>0. PICK found :
          \/ ImportFiles(files, {}) /\ UNCHANGED dupCheck
          \/ /\ \E pick \in [found -> Ids] :
                  /\ \A t \in found : pick[t] \in Titled(t)
                  /\ dupCheck' = [files |-> files, existing |-> {CopyOf(list, pick[t]) : t \in found}]
             /\ UNCHANGED <<import, clicks>>
    BY <2>a
  <2>2. files \in Seq(Files) /\ Len(files) = n /\ files # <<>> /\ n \in Nat /\ n <= MaxFiles
    <3>1. n \in Nat /\ n >= 1 /\ n <= MaxFiles
      BY <1>0
    <3>2. files \in Seq(Files) /\ Len(files) = n
      BY <3>1
    <3> QED
      BY <3>1, <3>2
  <2>3. CASE ImportFiles(files, {}) /\ UNCHANGED dupCheck
    <3>1. import' \in ImportType /\ ImportCounts(import') /\ clicks' \in 0..MaxClicks
      BY <2>2, <2>3, ImportStarts
    <3> QED
      BY <1>13, <2>3, <3>1 DEF PickFiles, TypeInv
  <2>4. CASE UNCHANGED <<import, clicks>> /\ ~ (ImportFiles(files, {}) /\ UNCHANGED dupCheck)
    <3>1. PICK pick \in [found -> Ids] :
            /\ \A t \in found : pick[t] \in Titled(t)
            /\ dupCheck' = [files |-> files, existing |-> {CopyOf(list, pick[t]) : t \in found}]
      BY <2>0, <2>4
    <3>2. {CopyOf(list, pick[t]) : t \in found} \subseteq Copy
      BY <1>c, <1>d, <3>1
    <3>3. dupCheck' \in DupType /\ Len(dupCheck'.files) <= MaxFiles /\ dupCheck'.files # <<>>
      BY <2>2, <3>1, <3>2 DEF DupType
    <3> QED
      BY <1>13, <2>4, <3>3 DEF PickFiles, TypeInv
  <2> QED
    BY <2>0, <2>3, <2>4
<1>14. CASE SkipDuplicates
  <2> DEFINE known == {copy.text.title : copy \in dupCheck.existing}
             fresh == NotIn(known, dupCheck.files)[Len(dupCheck.files)]
  <2>1. dupCheck.files \in Seq(Files) /\ Len(dupCheck.files) \in Nat
    BY <1>0 DEF DupType
  <2>2. fresh \in Seq(Files) /\ Len(fresh) <= Len(dupCheck.files)
    BY <2>1, KeptFiles
  <2>3. IF fresh = <<>> THEN UNCHANGED <<import, clicks>> ELSE ImportFiles(fresh, {})
    BY <1>14 DEF SkipDuplicates
  <2> HIDE DEF fresh
  <2>4. import' \in ImportType /\ ImportCounts(import') /\ clicks' \in 0..MaxClicks
    <3>1. CASE fresh = <<>>
      BY <2>3, <3>1 DEF TypeInv
    <3>2. CASE fresh # <<>>
      <4>1. Len(fresh) <= MaxFiles
        BY <1>0, <2>1, <2>2
      <4> QED
        BY <2>2, <2>3, <3>2, <4>1, ImportStarts
    <3> QED
      BY <3>1, <3>2
  <2> QED
    BY <1>14, <2>4, Nulls, <1>0 DEF SkipDuplicates, TypeInv
<1>15. CASE ReplaceExisting
  <2>1. dupCheck.files \in Seq(Files) /\ dupCheck.existing \in SUBSET Copy
    BY <1>0 DEF DupType
  <2>2. dupCheck.files # <<>>
    BY <1>15 DEF ReplaceExisting, TypeInv
  <2>3. import' \in ImportType /\ ImportCounts(import') /\ clicks' \in 0..MaxClicks
    BY <1>0, <1>15, <2>1, <2>2, ImportStarts DEF ReplaceExisting
  <2> QED
    BY <1>15, <2>3, Nulls, <1>0 DEF ReplaceExisting, TypeInv
<1>16. CASE CancelImport
  BY <1>16, Nulls, <1>0 DEF CancelImport, TypeInv

<1>e. ASSUME NEW c \in Chains, Effect(c) PROVE stored' \in Table /\ born' \in 0..MaxBorn
  <2>1. chain[c].note.id \in Ids \cup {0} /\ chain[c].text \in Text
    BY <1>0 DEF ChainType, Copy
  <2> QED
    BY <1>e, <2>1, TableSteps DEF Effect
<1>17. ASSUME NEW c \in Chains, Answer(c) PROVE TypeInv'
  <2>1. stored' \in Table /\ born' \in 0..MaxBorn
    BY <1>e, <1>17 DEF Answer
  <2>2. chain' \in [Chains -> ChainType]
    <3>1. [chain[c] EXCEPT !.stage = "list"] \in ChainType
      BY <1>0 DEF ChainType
    <3> QED
      BY <1>0, <1>17, <3>1 DEF Answer
  <2> QED
    BY <1>17, <2>1, <2>2 DEF Answer, TypeInv
<1>18. ASSUME NEW c \in Chains, CallFails(c) PROVE TypeInv'
  <2>1. stored' \in Table /\ born' \in 0..MaxBorn /\ missed' \in BOOLEAN
    BY <1>e, <1>18 DEF CallFails, TypeInv
  <2>2. chain' \in [Chains -> ChainType]
    BY <1>0, <1>18, Nulls DEF CallFails
  <2> QED
    BY <1>18, <2>1, <2>2 DEF CallFails, TypeInv
<1>19. ASSUME NEW c \in Chains, Read(c) PROVE TypeInv'
  <2>1. [chain[c] EXCEPT !.stage = "rows", !.rows = stored] \in ChainType
    BY <1>0 DEF ChainType
  <2>2. chain' \in [Chains -> ChainType]
    BY <1>0, <1>19, <2>1 DEF Read
  <2> QED
    BY <1>19, <2>2 DEF Read, TypeInv
<1>20. ASSUME NEW c \in Chains, ListFails(c) PROVE TypeInv'
  <2>1. chain' \in [Chains -> ChainType]
    BY <1>0, <1>20, Nulls DEF ListFails
  <2>2. loadError' \in BOOLEAN /\ missed' \in BOOLEAN
    BY <1>20 DEF ListFails
  <2> QED
    BY <1>20, <2>1, <2>2 DEF ListFails, TypeInv
<1>21. ASSUME NEW c \in Chains, Deliver(c) PROVE TypeInv'
  <2>1. chain' \in [Chains -> ChainType]
    BY <1>0, <1>21, Nulls DEF Deliver
  <2>2. loadError' \in BOOLEAN /\ shownLast' \in BOOLEAN
    BY <1>21 DEF Deliver
  <2>3. list' \in Table
    BY <1>0, <1>21 DEF Deliver, ChainType
  <2>4. editor' \in EditorType
    BY <1>0, <1>21, Nulls DEF Deliver
  <2> QED
    BY <1>21, <2>1, <2>2, <2>3, <2>4 DEF Deliver, TypeInv
<1>i. /\ import.files \in Seq(Files) /\ import.failed \in Nat /\ import.made \in Nat
      /\ import.picked \in Nat /\ Len(import.files) \in Nat /\ import.replace \subseteq Copy
      /\ import.rows \in Table /\ import.id \in Ids \cup {0}
  BY <1>0 DEF ImportType
<1>m. LET L == Len(import.files)
      IN /\ L + import.failed <= import.picked /\ import.made + L <= import.picked + 1
         /\ import.picked <= L + import.failed + import.made
         /\ import.stage \in {"list", "rows"} => import.picked + 1 <= L + import.failed + import.made
         /\ import.stage \notin {"list", "rows"} => import.made + L <= import.picked
  <2>1. CASE import.stage \in {"list", "rows"}
    <3>1. Posted(import) = TRUE
      BY <2>1 DEF Posted
    <3> QED
      BY <1>0, <1>i, <2>1, <3>1 DEF ImportCounts
  <2>2. CASE import.stage \notin {"list", "rows"}
    <3>1. Posted(import) = FALSE
      BY <2>2 DEF Posted
    <3> QED
      BY <1>0, <1>i, <2>2, <3>1 DEF ImportCounts
  <2> QED
    BY <2>1, <2>2
<1>n. import.stage # "end" => import.files # <<>> /\ Head(import.files) \in Files
  BY <1>0, <1>i DEF ImportCounts
<1>j. DeleteReplaced => stored' \in Table /\ born' \in 0..MaxBorn
  <2> SUFFICES ASSUME DeleteReplaced PROVE stored' \in Table /\ born' \in 0..MaxBorn
    OBVIOUS
  <2>1. PICK copy \in import.replace : Delete(copy.id)
    BY DEF DeleteReplaced, Replaced
  <2>2. copy.id \in Ids \cup {0}
    BY <1>i DEF Copy
  <2> QED
    BY <2>1, <2>2, TableSteps
<1>k. import.files # <<>> /\ PostFile => stored' \in Table /\ born' \in 0..MaxBorn /\ NextId \in Ids
  <2> SUFFICES ASSUME import.files # <<>>, PostFile
               PROVE  stored' \in Table /\ born' \in 0..MaxBorn /\ NextId \in Ids
    OBVIOUS
  <2>1. Head(import.files) \in Files
    BY <1>i
  <2>2. [title |-> Head(import.files).title, body |-> Imported] \in Text
    BY <1>t, <2>1, WorkspaceAssumption DEF Text
  <2> QED
    BY <2>2, TableSteps DEF PostFile, Insert
<1>22. CASE ImportDelete
  <2>1. import' \in ImportType /\ ImportCounts(import')
    <3>1. import' \in ImportType
      BY <1>0, <1>22 DEF ImportDelete, ImportType
    <3>2. /\ import'.files = import.files /\ import'.failed = import.failed /\ import'.made = import.made
          /\ import'.picked = import.picked /\ import'.stage = "post" /\ import.stage = "delete"
      BY <1>0, <1>22 DEF ImportDelete, ImportType
    <3> QED
      BY <1>0, <1>n, <3>1, <3>2 DEF ImportCounts, Posted
  <2> QED
    BY <1>22, <1>j, <2>1 DEF ImportDelete, TypeInv
<1>23. CASE ImportPost
  <2>1. import.files # <<>> /\ NextId \in Ids /\ stored' \in Table /\ born' \in 0..MaxBorn
    BY <1>23, <1>k, <1>n DEF ImportPost
  <2>2. import' \in ImportType /\ ImportCounts(import')
    <3> DEFINE m == import.made + 1
    <3>0. m \in Nat /\ import' = [import EXCEPT !.stage = "list", !.id = NextId, !.made = m]
      BY <1>i, <1>23 DEF ImportPost
    <3>1. import' \in ImportType
      <4> HIDE DEF m
      <4> QED
        BY <1>0, <2>1, <3>0 DEF ImportType
    <3>2. /\ import'.files = import.files /\ import'.failed = import.failed /\ import'.made = import.made + 1
          /\ import'.picked = import.picked /\ import'.stage = "list" /\ import.stage = "post"
      BY <1>0, <1>23 DEF ImportPost, ImportType
    <3> QED
      <4>1. Posted(import') = TRUE
        BY <3>2 DEF Posted
      <4>2. import'.id \in Ids
        BY <1>0, <1>23, <2>1 DEF ImportPost, ImportType
      <4> DEFINE n == Len(import.files)
                 Less(made) == /\ n + import.failed <= import.picked
                               /\ made + n <= import.picked + 1
                               /\ import.picked + 1 <= n + import.failed + made
      <4>3. /\ n \in Nat /\ import.failed \in Nat /\ import.made \in Nat /\ import.picked \in Nat
            /\ n + import.failed <= import.picked /\ import.made + n <= import.picked
            /\ import.picked <= n + import.failed + import.made
        BY <1>i, <1>m, <3>2 DEF Posted
      <4>4. Less(import.made + 1)
        <5> HIDE DEF n
        <5> QED
          BY <4>3
      <4> QED
        BY <2>1, <3>1, <3>2, <4>1, <4>2, <4>4 DEF ImportCounts
  <2> QED
    BY <1>23, <2>1, <2>2 DEF ImportPost, TypeInv
<1>24. CASE ImportRead
  <2>1. import' \in ImportType /\ ImportCounts(import')
    <3>1. import' \in ImportType
      BY <1>0, <1>24 DEF ImportRead, ImportType
    <3>2. /\ import'.files = import.files /\ import'.failed = import.failed /\ import'.made = import.made
          /\ import'.picked = import.picked /\ import'.stage = "rows" /\ import.stage = "list"
          /\ import'.id = import.id
      BY <1>0, <1>24 DEF ImportRead, ImportType
    <3>3. Posted(import) = TRUE /\ Posted(import') = TRUE
      BY <3>2 DEF Posted
    <3>4. import'.files # <<>>
      BY <1>n, <3>2
    <3> QED
      BY <1>0, <1>n, <1>i, <3>1, <3>2, <3>3, <3>4 DEF ImportCounts
  <2> QED
    BY <1>24, <2>1 DEF ImportRead, TypeInv
<1>25. CASE ImportShow
  <2> DEFINE imp == IF import.rows[import.id] # NoNote
                    THEN [import EXCEPT !.last = CopyOf(import.rows, import.id)] ELSE import
  <2>1. PICK jmp \in ImportType :
          /\ NextFile(jmp) /\ jmp.files = import.files /\ jmp.failed = import.failed
          /\ jmp.made = import.made /\ jmp.picked = import.picked
    <3>1. NextFile(imp)
      BY <1>25 DEF ImportShow
    <3>2. import.id \in Ids /\ import.rows[import.id] # NoNote => CopyOf(import.rows, import.id) \in Copy
      BY <1>i, Copies
    <3>3. import.id \in Ids
      BY <1>0, <1>25 DEF ImportCounts, Posted, ImportShow
    <3>4. imp \in ImportType /\ imp.files = import.files /\ imp.failed = import.failed
          /\ imp.made = import.made /\ imp.picked = import.picked
      BY <1>0, <3>2, <3>3 DEF ImportType
    <3> QED
      BY <3>1, <3>4
  <2>2. /\ import' \in ImportType /\ ImportCounts(import') /\ reader' \in Copy
    <3>1. import.stage = "rows" /\ Posted(import)
      BY <1>25 DEF ImportShow, Posted
    <3> QED
      <4>1. Len(jmp.files) + jmp.failed <= jmp.picked + 1 /\ jmp.made + Len(jmp.files) <= jmp.picked + 1
            /\ jmp.picked + 1 <= Len(jmp.files) + jmp.failed + jmp.made /\ jmp.files # <<>>
        BY <1>i, <1>m, <1>n, <2>1, <3>1
      <4> QED
        BY <2>1, <4>1, FileCounted
  <2>3. shownLast' \in BOOLEAN /\ list' \in Table
    BY <1>25, <1>i DEF ImportShow
  <2> QED
    BY <1>25, <2>2, <2>3 DEF ImportShow, TypeInv
<1>26. CASE ImportFails
  <2>1. missed' \in BOOLEAN
    BY <1>26 DEF ImportFails
  <2>2. import.files # <<>> /\ import.stage \in {"delete", "post", "list", "rows"}
    BY <1>26, <1>n DEF ImportFails
  <2>3. stored' \in Table /\ born' \in 0..MaxBorn
    BY <1>26, <1>j, <1>k, <2>2 DEF ImportFails, TypeInv
  <2> DEFINE failing == [import EXCEPT !.failed = @ + 1]
  <2>4. PICK imp \in ImportType :
          /\ NextFile(imp) /\ imp.files = import.files /\ imp.failed = import.failed + 1
          /\ imp.picked = import.picked
          /\ \/ imp.made = import.made
             \/ imp.made = import.made + 1 /\ import.stage = "post"
    <3>1. failing \in ImportType /\ [failing EXCEPT !.made = @ + 1] \in ImportType
      <4> DEFINE m == import.made + 1
                 f == import.failed + 1
      <4>1. m \in Nat /\ f \in Nat /\ failing = [import EXCEPT !.failed = f]
        BY <1>i
      <4>2. [failing EXCEPT !.made = @ + 1] = [failing EXCEPT !.made = m]
        BY <1>0 DEF ImportType
      <4> HIDE DEF m, f, failing
      <4>3. failing \in ImportType
        BY <1>0, <4>1 DEF ImportType
      <4> QED
        BY <4>1, <4>2, <4>3 DEF ImportType
    <3>2. /\ failing.files = import.files /\ failing.failed = import.failed + 1
          /\ failing.picked = import.picked /\ failing.made = import.made
          /\ [failing EXCEPT !.made = @ + 1].files = import.files
          /\ [failing EXCEPT !.made = @ + 1].failed = import.failed + 1
          /\ [failing EXCEPT !.made = @ + 1].picked = import.picked
          /\ [failing EXCEPT !.made = @ + 1].made = import.made + 1
      BY <1>0 DEF ImportType
    <3>3. \/ NextFile(failing)
          \/ import.stage = "post" /\ NextFile([failing EXCEPT !.made = @ + 1])
      BY <1>26 DEF ImportFails
    <3> QED
      BY <3>1, <3>2, <3>3
  <2>5. import' \in ImportType /\ ImportCounts(import') /\ reader' \in Copy
    <3>1. Len(imp.files) + imp.failed <= imp.picked + 1
      BY <1>i, <1>m, <2>4
    <3>2. imp.made + Len(imp.files) <= imp.picked + 1
      BY <1>i, <1>m, <2>4
    <3>3. imp.picked + 1 <= Len(imp.files) + imp.failed + imp.made
      <4>1. import.picked <= Len(import.files) + import.failed + import.made
        BY <1>m
      <4>2. CASE imp.made = import.made
        BY <1>i, <2>4, <4>1, <4>2
      <4>3. CASE imp.made = import.made + 1
        <5> DEFINE L == Len(import.files)
        <5>1. L \in Nat /\ import.picked <= L + import.failed + import.made
          BY <1>i, <4>1
        <5>2. Len(imp.files) = L /\ imp.failed = import.failed + 1 /\ imp.picked = import.picked
          BY <2>4
        <5> HIDE DEF L
        <5>3. import.picked + 1 <= L + (import.failed + 1) + (import.made + 1)
          BY <1>i, <5>1
        <5> QED
          BY <4>3, <5>2, <5>3
      <4> QED
        BY <2>4, <4>2, <4>3
    <3> QED
      BY <2>2, <2>4, <3>1, <3>2, <3>3, FileCounted
  <2> QED
    BY <1>26, <2>1, <2>3, <2>5 DEF ImportFails, TypeInv
<1>27. CASE UNCHANGED vars
  BY <1>27 DEF TypeInv, vars
<1> QED
  BY <1>1, <1>2, <1>3, <1>4, <1>5, <1>6, <1>7, <1>8, <1>9, <1>10, <1>11, <1>12, <1>13, <1>14, <1>15,
     <1>16, <1>17, <1>18, <1>19, <1>20, <1>21, <1>22, <1>23, <1>24, <1>25, <1>26, <1>27
  DEF Next, User, Chained, Importing

LEMMA StartTyped == Init => TypeInv
<1> SUFFICES ASSUME Init PROVE TypeInv
  OBVIOUS
<1>1. 1 \in 1..MaxBorn /\ 1 \in Ids /\ MaxBorn \in Nat /\ MaxClicks \in Nat /\ MaxFiles \in Nat
  BY WorkspaceAssumption DEF Ids
<1>2. born \in 0..MaxBorn /\ clicks \in 0..MaxClicks
  BY <1>1 DEF Init
<1>3. stored \in Table
  <2>1. PICK t \in Titles : stored = [NoRows EXCEPT ![1] = [title |-> t, body |-> Template, pinned |-> FALSE,
                                                           serial |-> 1]]
    BY DEF Init
  <2>2. [title |-> t, body |-> Template, pinned |-> FALSE, serial |-> 1] \in Note
    BY <1>1 DEF Note, Bodies
  <2> QED
    BY <2>1, <2>2, Nulls DEF Table
<1>4. chain \in [Chains -> ChainType]
  <2>1. PICK c \in Chains : chain = [d \in Chains |-> IF d = c THEN [Idle EXCEPT !.op = "load", !.stage = "list"]
                                                      ELSE Idle]
    BY DEF Init
  <2>2. Idle \in ChainType /\ [Idle EXCEPT !.op = "load", !.stage = "list"] \in ChainType
    BY Nulls DEF ChainType
  <2> QED
    BY <2>1, <2>2
<1>5. /\ list \in Table /\ reader \in Copy /\ editor \in EditorType
      /\ dupCheck \in DupType /\ Len(dupCheck.files) <= MaxFiles /\ dupCheck = NoDup
      /\ import \in ImportType /\ ImportCounts(import)
  BY <1>1, Nulls DEF Init
<1>6. loadError \in BOOLEAN /\ shownLast \in BOOLEAN /\ missed \in BOOLEAN /\ lastRead \in Chains \cup {"import", "none"}
  BY DEF Init
<1> QED
  BY <1>2, <1>3, <1>4, <1>5, <1>6 DEF TypeInv

LEMMA TypeStays == Spec => []TypeInv
<1>1. Init => TypeInv
  BY StartTyped
<1>2. TypeInv /\ [Next]_vars => TypeInv'
  BY TypeStep
<1> QED
  BY <1>1, <1>2, PTL DEF Spec

\* What the last message of an import says of lost files is true.
THEOREM ImportsReportLosses == Spec => []ImportReportsLosses
<1>1. TypeInv => ImportReportsLosses
  <2> SUFFICES ASSUME TypeInv PROVE ImportReportsLosses
    OBVIOUS
  <2>1. /\ import.failed \in Nat /\ import.made \in Nat /\ import.picked \in Nat /\ Len(import.files) \in Nat
    BY WorkspaceAssumption DEF TypeInv, ImportType
  <2>2. import.picked <= Len(import.files) + import.failed + import.made
    <3>1. import.picked + (IF Posted(import) THEN 1 ELSE 0) <= Len(import.files) + import.failed + import.made
      BY DEF TypeInv, ImportCounts
    <3> QED
      BY <2>1, <3>1
  <2> QED
    BY <2>1, <2>2 DEF ImportReportsLosses
<1> QED
  BY <1>1, TypeStays, PTL

-----------------------------------------------------------------------------
(* A listing is owed while a change it should show has not been read: some *)
(* chain is about to list, or the import has deleted or posted a note.     *)
Owes(imp) == imp.stage = "list" \/ (imp.stage = "post" /\ Replaced(imp.files, imp.replace) # {})
Pending == (\E c \in Chains : chain[c].stage = "list") \/ Owes(import)
Settled ==
  /\ shownLast => list = stored
  /\ \A c \in Chains : lastRead = c /\ chain[c].stage = "rows" => chain[c].rows = stored
  /\ lastRead = "import" /\ import.stage = "rows" => import.rows = stored
SettleInv ==
  /\ dupCheck # NoDup => import.stage = "end"
  /\ missed \/ Pending \/ Settled

\* the stage Enter gives owes nothing
LEMMA EnteredOwesNothing ==
  ASSUME NEW files, NEW replace, NEW imp, imp.files = files, imp.replace = replace,
         imp.stage = Enter(files, replace)
  PROVE  ~Owes(imp) /\ imp.stage # "rows"
<1>1. CASE files = <<>>
  <2>1. imp.stage = "end"
    BY <1>1 DEF Enter, Replaced
  <2> QED
    BY <2>1 DEF Owes
<1>2. CASE files # <<>>
  <2>1. CASE Replaced(files, replace) # {}
    <3>1. imp.stage = "delete"
      BY <1>2, <2>1 DEF Enter
    <3> QED
      BY <3>1 DEF Owes
  <2>2. CASE Replaced(files, replace) = {}
    <3>1. imp.stage = "post"
      BY <1>2, <2>2 DEF Enter
    <3> QED
      BY <2>2, <3>1 DEF Owes
  <2> QED
    BY <2>1, <2>2
<1> QED
  BY <1>1, <1>2

\* an import that starts, and one that goes on with its next file, owes no listing
LEMMA NextOwesNothing ==
  ASSUME TypeInv
  PROVE  /\ \A files, replace : ImportFiles(files, replace) => ~Owes(import') /\ import'.stage # "rows"
         /\ \A imp \in ImportType : NextFile(imp) => ~Owes(import') /\ import'.stage # "rows"
<1>1. ASSUME NEW files, NEW replace, ImportFiles(files, replace)
      PROVE  ~Owes(import') /\ import'.stage # "rows"
  <2>1. import'.files = files /\ import'.replace = replace /\ import'.stage = Enter(files, replace)
    BY <1>1 DEF ImportFiles, NoImport
  <2> QED
    BY <2>1, EnteredOwesNothing
<1>2. ASSUME NEW imp \in ImportType, NextFile(imp)
      PROVE  ~Owes(import') /\ import'.stage # "rows"
  <2> DEFINE rest == Tail(imp.files)
             stage == Enter(rest, imp.replace)
  <2>1. import' = [imp EXCEPT !.files = rest, !.stage = stage, !.rows = NoRows, !.id = 0]
    BY <1>2 DEF NextFile
  <2> HIDE DEF rest, stage
  <2>2. import'.files = rest /\ import'.replace = imp.replace /\ import'.stage = stage
    BY <2>1 DEF ImportType
  <2> QED
    BY <2>2, EnteredOwesNothing DEF stage
<1> QED
  BY <1>1, <1>2

\* every step leaves the list settled or a listing owed
LEMMA SettleStep ==
  ASSUME TypeInv, SettleInv, [Next]_vars
  PROVE  SettleInv'
<1> USE DEF page, history
<1>0. /\ chain \in [Chains -> ChainType] /\ import \in ImportType /\ {"import", "none"} \cap Chains = {}
  BY WorkspaceAssumption DEF TypeInv
<1>a. ASSUME UNCHANGED <<stored, list, chain, import, dupCheck, history>> PROVE SettleInv'
  BY <1>a DEF SettleInv, Settled, Pending
<1>b. ASSUME NEW op, NEW note, NEW text, NEW stage \in {"call", "list"}, Start(op, note, text, stage)
      PROVE  SettleInv'
  <2>1. PICK c \in Chains : /\ chain[c] = Idle
                            /\ chain' = [chain EXCEPT ![c] = [op |-> op, note |-> note, text |-> text,
                                                              stage |-> stage, rows |-> NoRows]]
    BY <1>b DEF Start
  <2>2. /\ chain[c].stage = "end" /\ chain'[c].stage \in {"call", "list"}
        /\ \A d \in Chains \ {c} : chain'[d] = chain[d]
    BY <1>0, <2>1 DEF Idle
  <2>3. Pending => Pending'
    BY <1>b, <2>2 DEF Pending, Start
  <2>4. Settled => Settled'
    BY <1>b, <2>2 DEF Settled, Start
  <2> QED
    BY <1>b, <2>3, <2>4 DEF SettleInv, Start
\* an import that starts
<1>c. ASSUME import.stage = "end", ~Owes(import'), import'.stage # "rows", dupCheck' = NoDup,
             UNCHANGED <<stored, list, chain, history>>
      PROVE  SettleInv'
  <2>1. Pending => Pending'
    BY <1>c DEF Pending, Owes
  <2>2. Settled => Settled'
    BY <1>c DEF Settled
  <2> QED
    BY <1>c, <2>1, <2>2 DEF SettleInv
<1>1. CASE OpenListed \/ OpenBlank \/ OpenToday \/ OpenWikiNote \/ OpenReaderNote \/ EditFromReader \/ Type \/ Cancel
  <2>1. UNCHANGED <<stored, list, chain, import, dupCheck, history>>
    BY <1>1 DEF OpenListed, OpenBlank, OpenToday, OpenWikiNote, OpenReaderNote, EditFromReader, Type, Cancel
  <2> QED
    BY <1>a, <2>1
<1>2. CASE Save \/ Pin \/ Remove \/ Load
  <2>1. \E op, note, text, stage : stage \in {"call", "list"} /\ Start(op, note, text, stage)
    <3>1. CASE Save
      BY <3>1 DEF Save
    <3>2. CASE Pin
      BY <3>2 DEF Pin
    <3>3. CASE Remove
      BY <3>3 DEF Remove
    <3>4. CASE Load
      BY <3>4 DEF Load
    <3> QED
      BY <1>2, <3>1, <3>2, <3>3, <3>4
  <2> QED
    BY <1>b, <2>1
<1>3. CASE PickFiles
  <2>1. import.stage = "end" /\ UNCHANGED <<stored, list, chain, history>> /\ dupCheck = NoDup
    BY <1>3 DEF PickFiles, PageReachable
  <2>2. \/ (\E files : ImportFiles(files, {})) /\ UNCHANGED dupCheck
        \/ UNCHANGED import
    BY <1>3 DEF PickFiles
  <2>3. CASE (\E files : ImportFiles(files, {})) /\ UNCHANGED dupCheck
    BY <1>c, <2>1, <2>3, NextOwesNothing
  <2>4. CASE UNCHANGED import
    <3>1. Pending => Pending'
      BY <2>1, <2>4 DEF Pending
    <3>2. Settled => Settled'
      BY <2>1, <2>4 DEF Settled
    <3> QED
      BY <2>1, <2>4, <3>1, <3>2 DEF SettleInv
  <2> QED
    BY <2>2, <2>3, <2>4
<1>4. CASE SkipDuplicates \/ ReplaceExisting \/ CancelImport
  <2>1. /\ import.stage = "end" /\ UNCHANGED <<stored, list, chain, history>> /\ dupCheck' = NoDup
    BY <1>4 DEF SettleInv, SkipDuplicates, ReplaceExisting, CancelImport
  <2>2. \/ \E files, replace : ImportFiles(files, replace)
        \/ UNCHANGED import
    <3>1. CASE SkipDuplicates
      <4>1. \E fresh : IF fresh = <<>> THEN UNCHANGED <<import, clicks>> ELSE ImportFiles(fresh, {})
        BY <3>1 DEF SkipDuplicates
      <4> QED
        BY <4>1
    <3>2. CASE ReplaceExisting
      BY <3>2 DEF ReplaceExisting
    <3>3. CASE CancelImport
      BY <3>3 DEF CancelImport
    <3> QED
      BY <1>4, <3>1, <3>2, <3>3
  <2>3. ~Owes(import') /\ import'.stage # "rows"
    <3>1. CASE UNCHANGED import
      BY <2>1, <3>1 DEF Owes
    <3> QED
      BY <2>2, <3>1, NextOwesNothing
  <2> QED
    BY <1>c, <2>1, <2>3
<1>5. ASSUME NEW c \in Chains, Answer(c) PROVE SettleInv'
  <2>1. chain'[c].stage = "list"
    BY <1>0, <1>5 DEF Answer, ChainType
  <2> QED
    BY <1>5, <2>1 DEF SettleInv, Pending, Answer
<1>6. ASSUME NEW c \in Chains, CallFails(c) PROVE SettleInv'
  <2>1. CASE missed'
    BY <1>6, <2>1 DEF SettleInv, CallFails
  <2>2. CASE ~missed'
    <3>1. /\ UNCHANGED <<stored, missed>> /\ chain[c].stage = "call" /\ chain'[c].stage = "end"
          /\ \A d \in Chains \ {c} : chain'[d] = chain[d]
      BY <1>0, <1>6, <2>2 DEF CallFails, Idle
    <3>2. Pending => Pending'
      BY <1>6, <3>1 DEF Pending, CallFails
    <3>3. Settled => Settled'
      BY <1>6, <3>1 DEF Settled, CallFails
    <3> QED
      BY <1>6, <3>1, <3>2, <3>3 DEF SettleInv, CallFails
  <2> QED
    BY <2>1, <2>2
<1>7. ASSUME NEW c \in Chains, Read(c) PROVE SettleInv'
  <2>1. chain'[c].rows = stored /\ lastRead' = c /\ ~shownLast' /\ UNCHANGED stored
    BY <1>0, <1>7 DEF Read, ChainType
  <2>2. Settled'
    BY <1>0, <2>1 DEF Settled
  <2> QED
    BY <1>7, <2>2 DEF SettleInv, Read
<1>8. ASSUME NEW c \in Chains, ListFails(c) PROVE SettleInv'
  <2>1. CASE missed'
    BY <1>8, <2>1 DEF SettleInv, ListFails
  <2>2. CASE ~missed'
    <3>1. /\ ~missed /\ chain[c].stage = "rows" /\ chain'[c].stage = "end"
          /\ \A d \in Chains \ {c} : chain'[d] = chain[d]
      BY <1>0, <1>8, <2>2 DEF ListFails, Idle
    <3>2. Pending => Pending'
      BY <1>8, <3>1 DEF Pending, ListFails
    <3>3. Settled => Settled'
      BY <1>8, <3>1 DEF Settled, ListFails
    <3> QED
      BY <1>8, <3>1, <3>2, <3>3 DEF SettleInv, ListFails
  <2> QED
    BY <2>1, <2>2
<1>9. ASSUME NEW c \in Chains, Deliver(c) PROVE SettleInv'
  <2>1. /\ chain[c].stage = "rows" /\ chain'[c].stage = "end"
        /\ \A d \in Chains \ {c} : chain'[d] = chain[d]
    BY <1>0, <1>9 DEF Deliver, Idle
  <2>2. Pending => Pending'
    BY <1>9, <2>1 DEF Pending, Deliver
  <2>3. Settled => Settled'
    BY <1>9, <2>1 DEF Settled, Deliver
  <2> QED
    BY <1>9, <2>2, <2>3 DEF SettleInv, Deliver
<1>10. CASE ImportDelete \/ ImportPost \/ ImportRead \/ ImportShow \/ ImportFails
  <2>0. import.stage # "end" /\ UNCHANGED dupCheck
    BY <1>10 DEF ImportDelete, ImportPost, ImportRead, ImportShow, ImportFails
  <2>1. dupCheck' = NoDup
    BY <2>0 DEF SettleInv
  <2>2. CASE ImportDelete
    <3>1. PICK copy \in Replaced(import.files, import.replace) : TRUE
      BY <2>2 DEF ImportDelete, DeleteReplaced
    <3>2. import'.stage = "post" /\ import'.files = import.files /\ import'.replace = import.replace
      BY <1>0, <2>2 DEF ImportDelete, ImportType
    <3> QED
      BY <2>1, <3>1, <3>2 DEF SettleInv, Pending, Owes
  <2>3. CASE ImportPost
    <3>1. import'.stage = "list"
      BY <1>0, <2>3 DEF ImportPost, ImportType
    <3> QED
      BY <2>1, <3>1 DEF SettleInv, Pending, Owes
  <2>4. CASE ImportRead
    <3>1. import'.rows = stored /\ lastRead' = "import" /\ ~shownLast' /\ UNCHANGED stored
      BY <1>0, <2>4 DEF ImportRead, ImportType
    <3>2. Settled'
      BY <1>0, <3>1 DEF Settled
    <3> QED
      BY <2>1, <3>2 DEF SettleInv
  <2>5. CASE ImportShow
    <3>1. \E imp \in ImportType : NextFile(imp)
      <4>1. import.rows \in Table /\ import.id \in Ids
        <5>1. import.stage = "rows" => import.id \in Ids
          BY DEF TypeInv, ImportCounts, Posted
        <5> QED
          BY <1>0, <2>5, <5>1 DEF ImportType, ImportShow
      <4>2. import.rows[import.id] # NoNote => CopyOf(import.rows, import.id) \in Copy
        BY <4>1, Copies
      <4>3. import.rows[import.id] # NoNote => [import EXCEPT !.last = CopyOf(import.rows, import.id)] \in ImportType
        BY <1>0, <4>2 DEF ImportType
      <4> QED
        BY <1>0, <2>5, <4>3 DEF ImportShow
    <3>2. ~Owes(import') /\ import'.stage # "rows" /\ import.stage = "rows"
      BY <2>5, <3>1, NextOwesNothing DEF ImportShow
    <3>3. Pending => Pending'
      BY <2>5, <3>2 DEF Pending, Owes, ImportShow
    <3>4. Settled => Settled'
      BY <2>5, <3>2 DEF Settled, ImportShow
    <3> QED
      BY <2>1, <2>5, <3>3, <3>4 DEF SettleInv, ImportShow
  <2>6. CASE ImportFails
    <3>1. CASE missed'
      BY <2>1, <3>1 DEF SettleInv
    <3>2. CASE ~missed'
      <4>1. /\ UNCHANGED stored /\ ~missed /\ NextFile([import EXCEPT !.failed = @ + 1])
            /\ ~Owes(import)
        BY <2>6, <3>2 DEF ImportFails, Owes
      <4>2. [import EXCEPT !.failed = @ + 1] \in ImportType
        BY <1>0 DEF ImportType
      <4>3. ~Owes(import') /\ import'.stage # "rows"
        BY <4>1, <4>2, NextOwesNothing
      <4>4. Pending => Pending'
        BY <2>6, <4>1, <4>3 DEF Pending, ImportFails
      <4>5. Settled => Settled'
        BY <2>6, <4>1, <4>3 DEF Settled, ImportFails
      <4> QED
        BY <2>1, <4>1, <4>4, <4>5 DEF SettleInv
    <3> QED
      BY <3>1, <3>2
  <2> QED
    BY <1>10, <2>2, <2>3, <2>4, <2>5, <2>6
<1>11. CASE UNCHANGED vars
  BY <1>a, <1>11 DEF vars
<1> QED
  BY <1>1, <1>2, <1>3, <1>4, <1>5, <1>6, <1>7, <1>8, <1>9, <1>10, <1>11 DEF Next, User, Chained, Importing

\* The list settles on the table once nothing is under way, unless listings
\* overtook each other or the one after a change failed.
THEOREM ListsSettle == Spec => []ListSettles
<1>1. Init => SettleInv
  BY DEF Init, SettleInv
<1>2. TypeInv /\ SettleInv /\ [Next]_vars => SettleInv'
  BY SettleStep
<1>3. SettleInv => ListSettles
  <2> SUFFICES ASSUME SettleInv, Quiet, shownLast, ~missed PROVE list = stored
    BY DEF ListSettles
  <2>1. ~Pending
    BY DEF Pending, Owes, Quiet, Idle
  <2> QED
    BY <2>1 DEF SettleInv, Settled
<1> QED
  BY <1>1, <1>2, <1>3, TypeStays, PTL DEF Spec

-----------------------------------------------------------------------------
(* A note never changes its id: a copy that names the serial of a living   *)
(* note names the id this note has, though the id may hold another by now. *)
Placed(id, serial) ==
  /\ serial \in 0..born
  /\ \A i \in Ids : stored[i] # NoNote /\ stored[i].serial = serial => i = id
PlacedCopy(copy) == Placed(copy.id, copy.serial)
PlacedRows(grid) == \A id \in Ids : grid[id] # NoNote => Placed(id, grid[id].serial)
PlaceInv ==
  /\ PlacedRows(stored) /\ PlacedRows(list) /\ PlacedRows(import.rows)
  /\ \A c \in Chains : PlacedRows(chain[c].rows) /\ PlacedCopy(chain[c].note)
  /\ PlacedCopy(reader) /\ PlacedCopy(editor.note) /\ PlacedCopy(import.last)
  /\ \A copy \in dupCheck.existing \cup import.replace : PlacedCopy(copy)

\* SQLite's next id is a free one
LEMMA NextIdFree ==
  ASSUME TypeInv, NextId \in Ids
  PROVE  stored[NextId] = NoNote
<1> DEFINE S == {0} \cup Rows(stored)
<1>1. S \subseteq 0..MaxId /\ S # {} /\ MaxId \in Nat /\ Rows(stored) \subseteq Nat
  BY WorkspaceAssumption DEF Rows, Ids
<1>2. PICK x \in S : \A y \in S : y <= x
  <2> HIDE DEF S
  <2> QED
    BY <1>1, GreatestNatural
<1>3. Max(S) \in S /\ \A y \in S : y <= Max(S)
  <2>1. \E m \in S : \A y \in S : m >= y
    BY <1>1, <1>2
  <2> HIDE DEF S
  <2>2. /\ (CHOOSE m \in S : \A y \in S : m >= y) \in S
        /\ \A y \in S : (CHOOSE m \in S : \A y1 \in S : m >= y1) >= y
    BY <2>1
  <2> QED
    BY <1>1, <2>2 DEF Max
<1>4. NextId = Max(S) + 1
  BY DEF NextId
<1>5. NextId \notin S
  <2> DEFINE m == Max(S)
  <2>1. m \in Nat /\ m + 1 \notin S
    <3>0. \A y \in S : y \in Nat
      BY <1>1
    <3> HIDE DEF S
    <3>1. m \in S /\ \A y \in S : y <= m /\ y \in Nat
      BY <1>3, <3>0
    <3> HIDE DEF m
    <3> QED
      BY <3>1
  <2> QED
    BY <1>4, <2>1
<1> QED
  BY <1>5 DEF Rows

\* what the server does to the table: no placed copy is displaced, and only
\* the row named is touched
TableStep(id) ==
  /\ \A i, serial : Placed(i, serial) => Placed(i, serial)'
  /\ PlacedRows(stored)'
  /\ \A i \in Ids : Hit(i) => i = id

LEMMA TableStepsPlace ==
  ASSUME TypeInv, PlacedRows(stored)
  PROVE  /\ \A text \in Text : Insert(text) => TableStep(0)
         /\ \A id \in Ids \cup {0}, text \in Text : Update(id, text) => TableStep(id)
         /\ \A id \in Ids \cup {0} : TogglePin(id) => TableStep(id)
         /\ \A id \in Ids \cup {0} : Delete(id) => TableStep(id)
<1>0. /\ stored \in [Ids -> Note \cup {NoNote}] /\ born \in Nat /\ 0 \notin Ids
      /\ \A i \in Ids : stored[i] # NoNote => stored[i] \in Note /\ stored[i].serial \in Nat
  BY WorkspaceAssumption DEF TypeInv, Table, Note, Ids
<1>1. ASSUME NEW text \in Text, Insert(text) PROVE TableStep(0)
  <2>1. NextId \in Ids /\ stored[NextId] = NoNote
    BY <1>1, NextIdFree DEF Insert
  <2>2. /\ born' = born + 1 /\ stored'[NextId].serial = born + 1
        /\ \A i \in Ids \ {NextId} : stored'[i] = stored[i]
    BY <1>0, <1>1, <2>1 DEF Insert, Fresh
  <2>3. ASSUME NEW i, NEW serial, Placed(i, serial) PROVE Placed(i, serial)'
    BY <1>0, <2>1, <2>2, <2>3 DEF Placed
  <2>4. PlacedRows(stored)'
    BY <1>0, <2>1, <2>2 DEF PlacedRows, Placed
  <2>5. \A i \in Ids : ~Hit(i)
    BY <2>1, <2>2 DEF Hit
  <2> QED
    BY <2>3, <2>4, <2>5 DEF TableStep
\* a step that touches one row and leaves its serial alone
<1>2. ASSUME NEW id \in Ids \cup {0}, born' = born, stored[id] # NoNote \/ id = 0,
             \A i \in Ids : i # id => stored'[i] = stored[i],
             id \in Ids => stored'[id] = NoNote \/ stored'[id].serial = stored[id].serial
      PROVE  TableStep(id)
  <2>1. ASSUME NEW i, NEW serial, Placed(i, serial) PROVE Placed(i, serial)'
    BY <1>0, <1>2, <2>1 DEF Placed
  <2>2. PlacedRows(stored)'
    BY <1>0, <1>2 DEF PlacedRows, Placed
  <2>3. \A i \in Ids : Hit(i) => i = id
    BY <1>2 DEF Hit
  <2> QED
    BY <2>1, <2>2, <2>3 DEF TableStep
<1>3. ASSUME NEW id \in Ids \cup {0}, NEW text \in Text, Update(id, text) PROVE TableStep(id)
  <2>1. /\ \A i \in Ids : i # id => stored'[i] = stored[i]
        /\ id \in Ids => stored'[id].serial = stored[id].serial
    BY <1>0, <1>3 DEF Update, Note
  <2> QED
    BY <1>2, <1>3, <2>1 DEF Update
<1>4. ASSUME NEW id \in Ids \cup {0}, TogglePin(id) PROVE TableStep(id)
  <2>1. /\ \A i \in Ids : i # id => stored'[i] = stored[i]
        /\ id \in Ids => stored'[id].serial = stored[id].serial
    BY <1>0, <1>4 DEF TogglePin, Note
  <2> QED
    BY <1>2, <1>4, <2>1 DEF TogglePin
<1>5. ASSUME NEW id \in Ids \cup {0}, Delete(id) PROVE TableStep(id)
  <2>1. /\ \A i \in Ids : i # id => stored'[i] = stored[i]
        /\ id \in Ids => stored'[id] = NoNote
    BY <1>0, <1>5 DEF Delete
  <2> QED
    BY <1>2, <1>5, <2>1 DEF Delete
<1> QED
  BY <1>1, <1>3, <1>4, <1>5

\* whoever changes the table aims at a copy that carries the id of the row
LEMMA WritersAim ==
  ASSUME TypeInv, PlaceInv, [Next]_vars
  PROVE  /\ \A i, serial : Placed(i, serial) => Placed(i, serial)'
         /\ PlacedRows(stored)'
         /\ \A i \in Ids : Hit(i) => \E copy \in Aim : copy.id = i
<1> USE DEF page, history
<1> DEFINE Goal == /\ \A i, serial : Placed(i, serial) => Placed(i, serial)'
                   /\ PlacedRows(stored)'
                   /\ \A i \in Ids : Hit(i) => \E copy \in Aim : copy.id = i
<1> SUFFICES Goal
  OBVIOUS
<1>0. /\ chain \in [Chains -> ChainType] /\ import \in ImportType /\ PlacedRows(stored) /\ 0 \notin Ids
  BY DEF TypeInv, PlaceInv, Ids
<1>a. ASSUME UNCHANGED <<stored, born>> PROVE Goal
  <2>1. \A i, serial : Placed(i, serial) => Placed(i, serial)'
    BY <1>a DEF Placed
  <2>2. PlacedRows(stored)'
    BY <1>0, <1>a DEF PlacedRows, Placed
  <2>3. \A i \in Ids : ~Hit(i)
    BY <1>a DEF Hit
  <2> QED
    BY <2>1, <2>2, <2>3
<1>b. ASSUME NEW c \in Chains, Effect(c) PROVE Goal
  <2> DEFINE r == chain[c]
  <2>1. r.text \in Text /\ r.note.id \in Ids \cup {0} /\ r.note \in Aim
    BY <1>0 DEF ChainType, Copy, Aim
  <2>2. TableStep(0) \/ TableStep(r.note.id)
    BY <1>0, <1>b, <2>1, TableStepsPlace DEF Effect
  <2> HIDE DEF r
  <2> QED
    BY <1>0, <2>1, <2>2 DEF TableStep
<1>c. ASSUME DeleteReplaced PROVE Goal
  <2>1. PICK copy \in import.replace : Delete(copy.id)
    BY <1>c DEF DeleteReplaced, Replaced
  <2>2. copy.id \in Ids \cup {0} /\ copy \in Aim
    BY <1>0, <2>1 DEF ImportType, Copy, Aim
  <2>3. TableStep(copy.id)
    BY <1>0, <2>1, <2>2, TableStepsPlace
  <2> QED
    BY <1>0, <2>2, <2>3 DEF TableStep
<1>d. ASSUME import.stage = "post", PostFile PROVE Goal
  <2>1. Head(import.files) \in Files
    <3>1. import.files \in Seq(Files) /\ import.files # <<>>
      BY <1>d DEF TypeInv, ImportCounts, ImportType
    <3> QED
      BY <3>1
  <2>2. [title |-> Head(import.files).title, body |-> Imported] \in Text
    BY <2>1, WorkspaceAssumption DEF Text, Bodies
  <2>3. TableStep(0)
    BY <1>0, <1>d, <2>2, TableStepsPlace DEF PostFile
  <2> QED
    BY <1>0, <2>3 DEF TableStep
<1> HIDE DEF Goal
<1>1. CASE User
  <2>1. UNCHANGED <<stored, born>>
    <3>1. CASE OpenListed \/ OpenBlank \/ OpenToday \/ OpenWikiNote \/ OpenReaderNote \/ EditFromReader
               \/ Type \/ Cancel
      BY <3>1 DEF OpenListed, OpenBlank, OpenToday, OpenWikiNote, OpenReaderNote, EditFromReader, Type, Cancel
    <3>2. CASE Save \/ Pin \/ Remove \/ Load
      BY <3>2 DEF Save, Pin, Remove, Load, Start
    <3>3. CASE PickFiles
      BY <3>3 DEF PickFiles
    <3>4. CASE SkipDuplicates \/ ReplaceExisting \/ CancelImport
      BY <3>4 DEF SkipDuplicates, ReplaceExisting, CancelImport
    <3> QED
      BY <1>1, <3>1, <3>2, <3>3, <3>4 DEF User
  <2> QED
    BY <1>a, <2>1
<1>2. ASSUME NEW c \in Chains, Chained(c) PROVE Goal
  <2>1. Effect(c) \/ UNCHANGED <<stored, born>>
    BY <1>2 DEF Chained, Answer, CallFails, Read, ListFails, Deliver
  <2> QED
    BY <1>a, <1>b, <2>1
<1>3. CASE Importing
  <2>1. DeleteReplaced \/ (import.stage = "post" /\ PostFile) \/ UNCHANGED <<stored, born>>
    BY <1>3 DEF Importing, ImportDelete, ImportPost, ImportRead, ImportShow, ImportFails
  <2> QED
    BY <1>a, <1>c, <1>d, <2>1
<1>4. CASE UNCHANGED vars
  BY <1>a, <1>4 DEF vars
<1> QED
  BY <1>1, <1>2, <1>3, <1>4 DEF Next

\* a write hits the note its copy was made of, or that note is gone
LEMMA AimedWrites ==
  ASSUME TypeInv, PlaceInv, [Next]_vars, NEW id \in Ids, Hit(id)
  PROVE  \E copy \in Aim : copy.id = id /\ (copy.serial = stored[id].serial \/ ~Lives(copy.serial))
<1>1. PICK copy \in Aim : copy.id = id
  BY WritersAim
<1>2. PlacedCopy(copy)
  BY DEF Aim, PlaceInv
<1>3. copy.serial = stored[id].serial \/ ~Lives(copy.serial)
  BY <1>1, <1>2 DEF PlacedCopy, Placed, Lives
<1> QED
  BY <1>1, <1>3

LEMMA NullsPlaced ==
  ASSUME TypeInv
  PROVE  PlacedCopy(NoCopy) /\ PlacedRows(NoRows)
<1>1. /\ stored \in [Ids -> Note \cup {NoNote}] /\ born \in Nat
      /\ \A i \in Ids : stored[i] # NoNote => stored[i].serial \in 1..MaxBorn
  BY WorkspaceAssumption DEF TypeInv, Table, Note
<1>2. PlacedCopy(NoCopy)
  BY <1>1 DEF PlacedCopy, Placed, NoCopy
<1>3. PlacedRows(NoRows)
  BY DEF PlacedRows, NoRows
<1> QED
  BY <1>2, <1>3

\* a copy of a row that is placed is placed
LEMMA CopiesPlaced ==
  ASSUME NEW grid, PlacedRows(grid), NEW id \in Ids, grid[id] # NoNote
  PROVE  PlacedCopy(CopyOf(grid, id))
BY DEF PlacedRows, PlacedCopy, CopyOf

\* the copies the page holds stay placed
LEMMA PlaceStep ==
  ASSUME TypeInv, PlaceInv, [Next]_vars
  PROVE  PlaceInv'
<1> USE DEF page, history
<1> DEFINE Rowed == PlacedRows(list')
           Imported1 == /\ PlacedRows(import'.rows) /\ PlacedCopy(import'.last)
                        /\ \A copy \in import'.replace : PlacedCopy(copy)
           Chained1 == \A c \in Chains : PlacedRows(chain'[c].rows) /\ PlacedCopy(chain'[c].note)
           Reads == PlacedCopy(reader')
           Edits == PlacedCopy(editor'.note)
           Warns == \A copy \in dupCheck'.existing : PlacedCopy(copy)
           Goal == Rowed /\ Imported1 /\ Chained1 /\ Reads /\ Edits /\ Warns
<1>0. SUFFICES Goal
  <2>1. /\ \A i, serial : Placed(i, serial) => Placed(i, serial)'
        /\ PlacedRows(stored)'
    BY WritersAim
  <2>2. \A copy : PlacedCopy(copy) => Placed(copy.id, copy.serial)'
    BY <2>1 DEF PlacedCopy
  <2>3. \A grid : PlacedRows(grid) => \A id \in Ids : grid[id] # NoNote => Placed(id, grid[id].serial)'
    BY <2>1 DEF PlacedRows
  <2> QED
    BY <2>1, <2>2, <2>3 DEF PlaceInv, PlacedRows, PlacedCopy
<1>a. /\ chain \in [Chains -> ChainType] /\ import \in ImportType /\ editor \in EditorType
      /\ dupCheck \in DupType
  BY DEF TypeInv
<1>b. /\ PlacedRows(stored) /\ PlacedRows(list) /\ PlacedRows(import.rows)
      /\ \A c \in Chains : PlacedRows(chain[c].rows) /\ PlacedCopy(chain[c].note)
      /\ PlacedCopy(reader) /\ PlacedCopy(editor.note) /\ PlacedCopy(import.last)
      /\ \A copy \in dupCheck.existing : PlacedCopy(copy)
      /\ \A copy \in import.replace : PlacedCopy(copy)
      /\ PlacedCopy(NoCopy) /\ PlacedRows(NoRows)
  BY NullsPlaced DEF PlaceInv
<1>c. \A id \in Rows(list) : PlacedCopy(CopyOf(list, id))
  BY <1>b, CopiesPlaced DEF Rows
<1>d. \A t : Titled(t) \subseteq Rows(list)
  BY DEF Titled
<1>e. /\ \A copy : EditNote(copy) /\ PlacedCopy(copy) => Edits
      /\ \A title, body : NewNote(title, body) => Edits
  BY <1>b DEF EditNote, NewNote, OpenEditor
<1>f. UNCHANGED import => Imported1
  BY <1>b
<1>g. UNCHANGED chain => Chained1
  BY <1>b
<1>h. /\ UNCHANGED reader => Reads
      /\ UNCHANGED editor => Edits
      /\ UNCHANGED list => Rowed
  BY <1>b
<1>i. UNCHANGED dupCheck \/ dupCheck' = NoDup => Warns
  BY <1>b DEF NoDup
<1>j. \A op, note, text, stage : Start(op, note, text, stage) /\ PlacedCopy(note) => Goal
  <2> SUFFICES ASSUME NEW op, NEW note, NEW text, NEW stage, Start(op, note, text, stage), PlacedCopy(note)
               PROVE  Goal
    OBVIOUS
  <2>1. Chained1
    <3>1. PICK c \in Chains : chain' = [chain EXCEPT ![c] = [op |-> op, note |-> note, text |-> text,
                                                           stage |-> stage, rows |-> NoRows]]
      BY DEF Start
    <3> QED
      BY <1>a, <1>b, <3>1
  <2>2. UNCHANGED <<page, import>>
    BY DEF Start
  <2> HIDE DEF Rowed, Imported1, Chained1, Reads, Edits, Warns
  <2> QED
    BY <1>f, <1>h, <1>i, <2>1, <2>2
<1>k. ASSUME NEW files, NEW replace, ImportFiles(files, replace), \A copy \in replace : PlacedCopy(copy)
      PROVE  Imported1
  <2>1. import'.rows = NoRows /\ import'.last = NoCopy /\ import'.replace = replace
    BY <1>k DEF ImportFiles, NoImport
  <2> QED
    BY <1>b, <1>k, <2>1
<1>l. ASSUME NEW imp \in ImportType, NextFile(imp), imp.replace = import.replace, PlacedCopy(imp.last)
      PROVE  Imported1 /\ Reads
  <2> DEFINE rest == Tail(imp.files)
             stage == Enter(rest, imp.replace)
  <2>1. import' = [imp EXCEPT !.files = rest, !.stage = stage, !.rows = NoRows, !.id = 0]
    BY <1>l DEF NextFile
  <2>2. Reads
    BY <1>b, <1>l DEF NextFile
  <2> HIDE DEF rest, stage
  <2>3. import'.rows = NoRows /\ import'.last = imp.last /\ import'.replace = imp.replace
    BY <2>1 DEF ImportType
  <2> QED
    BY <1>b, <1>l, <2>2, <2>3
<1> HIDE DEF Rowed, Imported1, Chained1, Reads, Edits, Warns
<1>1. CASE OpenListed \/ OpenBlank \/ OpenToday \/ OpenWikiNote \/ EditFromReader
  <2>1. Edits
    BY <1>1, <1>b, <1>c, <1>d, <1>e DEF OpenListed, OpenBlank, OpenToday, OpenWikiNote, EditFromReader
  <2>2. UNCHANGED <<list, reader, dupCheck, chain, import>>
    BY <1>1 DEF OpenListed, OpenBlank, OpenToday, OpenWikiNote, EditFromReader
  <2> QED
    BY <2>1, <2>2, <1>f, <1>g, <1>h, <1>i
<1>2. CASE OpenReaderNote
  <2>1. Reads
    BY <1>2, <1>c DEF OpenReaderNote, Reads
  <2>2. UNCHANGED <<list, editor, dupCheck, chain, import>>
    BY <1>2 DEF OpenReaderNote
  <2> QED
    BY <2>1, <2>2, <1>f, <1>g, <1>h, <1>i
<1>3. CASE Type \/ Cancel
  <2>1. editor'.note = editor.note \/ editor'.note = NoCopy
    BY <1>3, <1>a DEF Type, Cancel, Closed, EditorType
  <2>2. Edits
    BY <1>b, <2>1 DEF Edits
  <2>3. UNCHANGED <<list, reader, dupCheck, chain, import>>
    BY <1>3 DEF Type, Cancel
  <2> QED
    BY <2>2, <2>3, <1>f, <1>g, <1>h, <1>i
<1>4. CASE Save \/ Pin \/ Remove \/ Load
  <2>1. \E op, note, text, stage : Start(op, note, text, stage) /\ PlacedCopy(note)
    <3>1. CASE Save
      BY <1>b, <3>1 DEF Save
    <3>2. CASE Pin
      BY <1>c, <3>2 DEF Pin
    <3>3. CASE Remove
      BY <1>c, <3>3 DEF Remove
    <3>4. CASE Load
      BY <1>b, <3>4 DEF Load
    <3> QED
      BY <1>4, <3>1, <3>2, <3>3, <3>4
  <2> QED
    BY <1>j, <2>1
<1>5. CASE PickFiles
  <2>1. UNCHANGED <<list, reader, editor, chain>>
    BY <1>5 DEF PickFiles
  <2>2. PICK n \in 1..MaxFiles : \E files \in [1..n -> Files] :
          LET names == {files[i].name : i \in 1..n}
              found == {t \in names : Titled(t) # {}}
          IN \/ ImportFiles(files, {}) /\ UNCHANGED dupCheck
             \/ /\ \E pick \in [found -> Ids] :
                     /\ \A t \in found : pick[t] \in Titled(t)
                     /\ dupCheck' = [files |-> files, existing |-> {CopyOf(list, pick[t]) : t \in found}]
                /\ UNCHANGED import
    BY <1>5 DEF PickFiles
  <2>3. \/ (\E files : ImportFiles(files, {})) /\ UNCHANGED dupCheck
        \/ (\E files, found, pick : /\ \A t \in found : pick[t] \in Titled(t)
                                    /\ dupCheck' = [files |-> files, existing |-> {CopyOf(list, pick[t]) : t \in found}])
           /\ UNCHANGED import
    <3>1. PICK files \in [1..n -> Files] : \E found :
            \/ ImportFiles(files, {}) /\ UNCHANGED dupCheck
            \/ /\ \E pick \in [found -> Ids] :
                    /\ \A t \in found : pick[t] \in Titled(t)
                    /\ dupCheck' = [files |-> files, existing |-> {CopyOf(list, pick[t]) : t \in found}]
               /\ UNCHANGED import
      BY <2>2
    <3> QED
      BY <3>1
  <2>4. CASE (\E files : ImportFiles(files, {})) /\ UNCHANGED dupCheck
    BY <1>g, <1>h, <1>i, <1>k, <2>1, <2>4
  <2>5. CASE (\E files, found, pick : /\ \A t \in found : pick[t] \in Titled(t)
                                      /\ dupCheck' = [files |-> files, existing |-> {CopyOf(list, pick[t]) : t \in found}])
             /\ UNCHANGED import
    <3>1. Warns
      BY <1>c, <1>d, <2>5 DEF Warns
    <3> QED
      BY <1>f, <1>g, <1>h, <2>1, <2>5, <3>1
  <2> QED
    BY <2>3, <2>4, <2>5
<1>6. CASE SkipDuplicates \/ ReplaceExisting \/ CancelImport
  <2>1. UNCHANGED <<list, reader, editor, chain>> /\ dupCheck' = NoDup
    BY <1>6 DEF SkipDuplicates, ReplaceExisting, CancelImport
  <2>2. \/ \E files, replace : ImportFiles(files, replace) /\ \A copy \in replace : PlacedCopy(copy)
        \/ UNCHANGED import
    <3>1. CASE SkipDuplicates
      <4>1. \E fresh : IF fresh = <<>> THEN UNCHANGED <<import, clicks>> ELSE ImportFiles(fresh, {})
        BY <3>1 DEF SkipDuplicates
      <4> QED
        BY <4>1
    <3>2. CASE ReplaceExisting
      BY <1>b, <3>2 DEF ReplaceExisting
    <3>3. CASE CancelImport
      BY <3>3 DEF CancelImport
    <3> QED
      BY <1>6, <3>1, <3>2, <3>3
  <2>3. Imported1
    BY <1>f, <1>k, <2>2
  <2> QED
    BY <1>g, <1>h, <1>i, <2>1, <2>3
<1>7. ASSUME NEW c \in Chains, Chained(c) PROVE Goal
  <2>1. UNCHANGED <<reader, dupCheck, import>>
    BY <1>7 DEF Chained, Answer, CallFails, Read, ListFails, Deliver
  <2>2. Rowed
    <3>1. UNCHANGED list \/ list' = chain[c].rows
      BY <1>7 DEF Chained, Answer, CallFails, Read, ListFails, Deliver
    <3> QED
      BY <1>b, <3>1 DEF Rowed
  <2>3. Edits
    <3>1. UNCHANGED editor \/ editor' = Closed
      BY <1>7 DEF Chained, Answer, CallFails, Read, ListFails, Deliver
    <3> QED
      BY <1>b, <3>1 DEF Edits, Closed
  <2>4. Chained1
    <3>1. PICK r : /\ chain' = [chain EXCEPT ![c] = r]
                   /\ PlacedRows(r.rows) /\ PlacedCopy(r.note)
      <4>1. CASE Answer(c)
        <5> DEFINE r == [chain[c] EXCEPT !.stage = "list"]
        <5>1. chain' = [chain EXCEPT ![c] = r]
          BY <4>1 DEF Answer
        <5>2. r.rows = chain[c].rows /\ r.note = chain[c].note
          BY <1>a DEF ChainType
        <5> QED
          BY <1>b, <5>1, <5>2
      <4>2. CASE Read(c)
        <5> DEFINE r == [chain[c] EXCEPT !.stage = "rows", !.rows = stored]
        <5>1. chain' = [chain EXCEPT ![c] = r]
          BY <4>2 DEF Read
        <5>2. r.rows = stored /\ r.note = chain[c].note
          BY <1>a DEF ChainType
        <5> QED
          BY <1>b, <5>1, <5>2
      <4>3. CASE CallFails(c) \/ ListFails(c) \/ Deliver(c)
        BY <1>b, <4>3 DEF CallFails, ListFails, Deliver, Idle
      <4> QED
        BY <1>7, <4>1, <4>2, <4>3 DEF Chained
    <3> QED
      BY <1>a, <1>b, <3>1 DEF Chained1
  <2> QED
    BY <1>f, <1>h, <1>i, <2>1, <2>2, <2>3, <2>4
<1>8. CASE ImportDelete \/ ImportPost \/ ImportRead
  <2>1. UNCHANGED <<list, reader, editor, dupCheck, chain>>
    BY <1>8 DEF ImportDelete, ImportPost, ImportRead
  <2>2. /\ import'.replace = import.replace /\ import'.last = import.last
        /\ import'.rows = import.rows \/ import'.rows = stored
    BY <1>8, <1>a DEF ImportDelete, ImportPost, ImportRead, ImportType
  <2>3. Imported1
    BY <1>b, <2>2 DEF Imported1
  <2> QED
    BY <1>g, <1>h, <1>i, <2>1, <2>3
<1>9. CASE ImportShow
  <2>1. UNCHANGED <<editor, dupCheck, chain>> /\ list' = import.rows
    BY <1>9 DEF ImportShow
  <2>2. \E imp \in ImportType : NextFile(imp) /\ imp.replace = import.replace /\ PlacedCopy(imp.last)
    <3>1. import.rows \in Table /\ import.id \in Ids
      <4>1. import.stage = "rows" => import.id \in Ids
        BY DEF TypeInv, ImportCounts, Posted
      <4> QED
        BY <1>a, <1>9, <4>1 DEF ImportType, ImportShow
    <3>2. import.rows[import.id] # NoNote
            => CopyOf(import.rows, import.id) \in Copy /\ PlacedCopy(CopyOf(import.rows, import.id))
      BY <1>b, <3>1, Copies, CopiesPlaced
    <3>3. CASE import.rows[import.id] # NoNote
      <4> DEFINE imp == [import EXCEPT !.last = CopyOf(import.rows, import.id)]
      <4>1. imp \in ImportType /\ imp.replace = import.replace /\ imp.last = CopyOf(import.rows, import.id)
        BY <1>a, <3>2, <3>3 DEF ImportType
      <4>2. NextFile(imp)
        BY <1>9, <3>3 DEF ImportShow
      <4> QED
        BY <3>2, <3>3, <4>1, <4>2
    <3>4. CASE import.rows[import.id] = NoNote
      BY <1>9, <1>a, <1>b, <3>4 DEF ImportShow
    <3> QED
      BY <3>3, <3>4
  <2>3. Imported1 /\ Reads
    BY <1>l, <2>2
  <2>4. Rowed
    BY <1>b, <2>1 DEF Rowed
  <2> QED
    BY <1>g, <1>h, <1>i, <2>1, <2>3, <2>4
<1>10. CASE ImportFails
  <2>1. UNCHANGED <<list, editor, dupCheck, chain>>
    BY <1>10 DEF ImportFails
  <2>2. \E imp \in ImportType : NextFile(imp) /\ imp.replace = import.replace /\ PlacedCopy(imp.last)
    <3> DEFINE m == import.made + 1
               f == import.failed + 1
               one == [import EXCEPT !.failed = f]
               two == [one EXCEPT !.made = m]
    <3>1. m \in Nat /\ f \in Nat
      BY <1>a DEF ImportType
    <3>2. NextFile(one) \/ NextFile(two)
      <4>1. [one EXCEPT !.made = @ + 1] = two
        BY <1>a DEF ImportType
      <4> QED
        BY <1>10, <4>1 DEF ImportFails
    <3> HIDE DEF m, f
    <3>3. /\ one \in ImportType /\ one.replace = import.replace /\ one.last = import.last
      BY <1>a, <3>1 DEF ImportType
    <3> HIDE DEF one
    <3>4. /\ two \in ImportType /\ two.replace = import.replace /\ two.last = import.last
      BY <3>1, <3>3 DEF ImportType
    <3> QED
      BY <1>b, <3>2, <3>3, <3>4
  <2>3. Imported1 /\ Reads
    BY <1>l, <2>2
  <2> QED
    BY <1>g, <1>h, <1>i, <2>1, <2>3
<1>11. CASE UNCHANGED vars
  BY <1>11, <1>f, <1>g, <1>h, <1>i DEF vars
<1> QED
  BY <1>1, <1>2, <1>3, <1>4, <1>5, <1>6, <1>7, <1>8, <1>9, <1>10, <1>11 DEF Next, User, Importing

\* No save, pin, deletion or import changes a note other than the one the
\* user had before him, while that note exists.
THEOREM WritesAim == Spec => WritesHitTheirNote
<1>1. Init => PlaceInv
  <2> SUFFICES ASSUME Init PROVE PlaceInv
    OBVIOUS
  <2>1. PICK t : stored = [NoRows EXCEPT ![1] = [title |-> t, body |-> Template, pinned |-> FALSE, serial |-> 1]]
    BY DEF Init
  <2>2. \A i \in Ids : stored[i] # NoNote => i = 1 /\ stored[i].serial = 1
    BY <2>1 DEF NoRows
  <2>3. PlacedRows(stored) /\ PlacedRows(NoRows) /\ PlacedCopy(NoCopy)
    BY <2>2 DEF Init, PlacedRows, Placed, PlacedCopy, NoCopy, NoRows
  <2>4. \A c \in Chains : chain[c].rows = NoRows /\ chain[c].note = NoCopy
    BY DEF Init, Idle
  <2>5. import.rows = NoRows /\ import.last = NoCopy /\ import.replace = {} /\ dupCheck.existing = {}
        /\ reader = NoCopy /\ editor.note = NoCopy /\ list = NoRows
    BY DEF Init, NoImport, NoDup, Closed
  <2> QED
    BY <2>3, <2>4, <2>5 DEF PlaceInv
<1>2. TypeInv /\ PlaceInv /\ [Next]_vars => PlaceInv'
  BY PlaceStep
<1>3. TypeInv /\ PlaceInv /\ [Next]_vars
        => [\A id \in Ids : Hit(id) =>
              \E copy \in Aim : /\ copy.id = id
                                /\ copy.serial = stored[id].serial \/ ~Lives(copy.serial)]_vars
  BY AimedWrites
<1> QED
  BY <1>1, <1>2, <1>3, TypeStays, PTL DEF Spec, WritesHitTheirNote

-----------------------------------------------------------------------------

Stages == Asking \cup {"free", "write", "written"}
Answers == {"none", "yes", "closed", "failed"}
Form == [open: BOOLEAN, cred: MaybeCred, titled: BOOLEAN, show: BOOLEAN]
Job == [act: Action, stage: Stages, answer: Answers, rows: SUBSET Creds]

\* The parts of the type invariant, by the variables that change together.
JobsTyped == job \in [Jobs -> Job] /\ acts \in 0..MaxActs
ServerTyped == window \in 0..RevealTTL /\ table \subseteq Creds /\ items \subseteq Creds
FormTyped == form \in Form /\ saving \in BOOLEAN /\ deleting \in MaybeCred
PromptTyped == showReveal \in BOOLEAN /\ pendingAction \in Action
PageTyped == mounted \in BOOLEAN /\ refused \in BOOLEAN
DetailTyped ==
  /\ viewing \in MaybeCred /\ revealTtl \in 0..RevealTTL /\ pollTimer \in Off..PollPeriod
  /\ poll \in {"none", "sent", "open", "closed"} /\ overdue \in 0..(PollPeriod + 1)
ClipTyped == clip \in {"other", "user", "pass"} /\ clipTimer \in Off..ClipTTL

LEMMA TypeParts ==
  /\ CredentialsTypeOK <=> /\ JobsTyped /\ ServerTyped /\ FormTyped /\ PromptTyped
                            /\ PageTyped /\ DetailTyped /\ ClipTyped
  /\ CredentialsTypeOK' <=> /\ JobsTyped' /\ ServerTyped' /\ FormTyped' /\ PromptTyped'
                             /\ PageTyped' /\ DetailTyped' /\ ClipTyped'
BY DEF CredentialsTypeOK, JobsTyped, ServerTyped, FormTyped, PromptTyped, PageTyped, DetailTyped, ClipTyped,
       Form, Job, Stages, Answers

LEMMA InitTyped == CredentialsInit => CredentialsTypeOK
<1> SUFFICES ASSUME CredentialsInit PROVE CredentialsTypeOK
  OBVIOUS
<1>1. JobsTyped
  <2>1. FreeJob \in Job
    BY DEF Job, FreeJob, Stages, Answers, NoAction, Action, MaybeCred
  <2>2. PICK c \in Jobs :
          job = [d \in Jobs |-> IF d = c THEN FirstLoad ELSE FreeJob]
    BY DEF CredentialsInit
  <2>4. FirstLoad \in Job
    BY DEF FirstLoad, FreeJob, Job, Stages, Asking, Answers, Action, MaybeCred
  <2>5. job \in [Jobs -> Job]
    BY <2>1, <2>2, <2>4
  <2> QED
    BY <2>5, CredentialsAssumption DEF CredentialsInit, JobsTyped
<1>2. ServerTyped /\ DetailTyped /\ ClipTyped
  <2>1. RevealTTL \in Nat /\ ClipTTL \in Nat /\ PollPeriod \in Nat
    BY CredentialsAssumption
  <2>2. ServerTyped
    BY <2>1 DEF CredentialsInit, ServerTyped
  <2>3. DetailTyped
    BY <2>1 DEF CredentialsInit, DetailTyped, MaybeCred, Off
  <2>4. ClipTyped
    BY <2>1 DEF CredentialsInit, ClipTyped, Off
  <2> QED
    BY <2>2, <2>3, <2>4
<1>3. FormTyped /\ PromptTyped /\ PageTyped
  BY DEF CredentialsInit, FormTyped, PromptTyped, PageTyped, Form, ClosedForm, NoAction, Action, MaybeCred
<1> QED
  BY <1>1, <1>2, <1>3, TypeParts

\* A chain that is started, goes on or ends is a chain.
LEMMA LaunchTyped ==
  ASSUME JobsTyped, NEW act \in Action, NEW stage \in Stages, Launch(act, stage)
  PROVE  JobsTyped'
<1>1. PICK c \in Jobs : job[c] = FreeJob /\ job' = [job EXCEPT ![c].act = act, ![c].stage = stage]
  BY DEF Launch
<1>2. [[job[c] EXCEPT !.act = act] EXCEPT !.stage = stage] \in Job
  BY DEF JobsTyped, Job
<1>3. job' \in [Jobs -> Job]
  BY <1>1, <1>2 DEF JobsTyped
<1>4. acts' \in 0..MaxActs
  BY CredentialsAssumption DEF JobsTyped, Launch
<1> QED
  BY <1>3, <1>4 DEF JobsTyped

LEMMA GoesTyped ==
  ASSUME JobsTyped, NEW c \in Jobs, NEW stage \in Stages, Goes(c, stage), UNCHANGED acts
  PROVE  JobsTyped'
<1>1. [[job[c] EXCEPT !.stage = stage] EXCEPT !.answer = "none"] \in Job
  BY DEF JobsTyped, Job, Answers
<1>2. job' \in [Jobs -> Job]
  BY <1>1 DEF JobsTyped, Goes
<1> QED
  BY <1>2 DEF JobsTyped

LEMMA EndsTyped ==
  ASSUME JobsTyped, NEW c \in Jobs, Ends(c), UNCHANGED acts
  PROVE  JobsTyped'
<1>1. FreeJob \in Job
  BY DEF Job, FreeJob, Stages, Answers, NoAction, Action, MaybeCred
<1> QED
  BY <1>1 DEF JobsTyped, Ends

\* What leaves the variables of a part alone keeps its type.
LEMMA Frame ==
  ASSUME CredentialsTypeOK
  PROVE  /\ job' = job /\ acts' = acts => JobsTyped'
         /\ server' = server /\ items' = items => ServerTyped'
         /\ dialogs' = dialogs => FormTyped'
         /\ prompt' = prompt => PromptTyped'
         /\ mounted' = mounted /\ refused' = refused => PageTyped'
         /\ detail' = detail => DetailTyped'
         /\ clip' = clip /\ clipTimer' = clipTimer => ClipTyped'
<1> USE TypeParts
<1>1. job' = job /\ acts' = acts => JobsTyped'
  BY DEF JobsTyped
<1>2. server' = server /\ items' = items => ServerTyped'
  BY DEF ServerTyped, server
<1>3. dialogs' = dialogs => FormTyped'
  BY DEF FormTyped, dialogs
<1>4. prompt' = prompt => PromptTyped'
  BY DEF PromptTyped, prompt
<1>5. mounted' = mounted /\ refused' = refused => PageTyped'
  BY DEF PageTyped
<1>6. detail' = detail => DetailTyped'
  BY DEF DetailTyped, detail
<1>7. clip' = clip /\ clipTimer' = clipTimer => ClipTyped'
  BY DEF ClipTyped
<1> QED
  BY <1>1, <1>2, <1>3, <1>4, <1>5, <1>6, <1>7

LEMMA RequireRevealTyped ==
  ASSUME CredentialsTypeOK, requireReveal
  PROVE  CredentialsTypeOK'
<1> USE TypeParts
<1>1. JobsTyped'
  <2>1. PICK type \in {"view", "user", "pass", "rotate"}, cred \in items : Launch([type |-> type, cred |-> cred], "me")
    BY DEF requireReveal
  <2>2. [type |-> type, cred |-> cred] \in Action
    BY <2>1 DEF Action, MaybeCred, ServerTyped, DetailTyped
  <2> QED
    BY <2>1, <2>2, LaunchTyped DEF Stages, Asking
<1> QED
  BY <1>1, Frame DEF requireReveal, clipboard

LEMMA CopyShownTyped ==
  ASSUME CredentialsTypeOK, CopyShown
  PROVE  CredentialsTypeOK'
<1> USE TypeParts
<1>1. JobsTyped'
  <2>1. PICK type \in {"user", "pass"} : Launch([type |-> type, cred |-> viewing], "write")
    BY DEF CopyShown
  <2>2. [type |-> type, cred |-> viewing] \in Action
    BY <2>1 DEF Action, MaybeCred, ServerTyped, DetailTyped
  <2> QED
    BY <2>1, <2>2, LaunchTyped DEF Stages, Asking
<1> QED
  BY <1>1, Frame DEF CopyShown, clipboard

LEMMA CloseViewTyped ==
  ASSUME CredentialsTypeOK, closeView
  PROVE  CredentialsTypeOK'
<1> USE TypeParts
<1>1. DetailTyped'
  BY CredentialsAssumption DEF closeView, DetailTyped, detail, MaybeCred, Kept, Off, Down
<1> QED
  BY <1>1, Frame DEF closeView, clipboard

LEMMA SubmitTyped ==
  ASSUME CredentialsTypeOK, submit
  PROVE  CredentialsTypeOK'
<1> USE TypeParts
<1>1. JobsTyped'
  <2>1. pendingAction \in Action
    BY DEF Action, MaybeCred, PromptTyped
  <2> QED
    BY <2>1, LaunchTyped DEF submit, Stages, Asking
<1> QED
  BY <1>1, Frame DEF submit, clipboard

LEMMA CancelRevealTyped ==
  ASSUME CredentialsTypeOK, CancelReveal
  PROVE  CredentialsTypeOK'
<1> USE TypeParts
<1>1. PromptTyped'
  <2>1. showReveal' \in BOOLEAN
    BY DEF CancelReveal, PromptTyped
  <2>2. pendingAction' \in Action
    BY DEF CancelReveal, PromptTyped, NoAction, Action, MaybeCred
  <2> QED
    BY <2>1, <2>2 DEF PromptTyped
<1> QED
  BY <1>1, Frame DEF CancelReveal, clipboard

LEMMA OpenNewTyped ==
  ASSUME CredentialsTypeOK, openNew
  PROVE  CredentialsTypeOK'
<1> USE TypeParts
<1>1. FormTyped'
  <2>1. form' \in Form
    BY DEF openNew, FormTyped, Form, dialogs, ClosedForm, MaybeCred
  <2>2. saving' \in BOOLEAN
    BY DEF openNew, FormTyped, dialogs
  <2>3. deleting' \in MaybeCred
    BY DEF openNew, FormTyped, dialogs, MaybeCred
  <2> QED
    BY <2>1, <2>2, <2>3 DEF FormTyped
<1> QED
  BY <1>1, Frame DEF openNew, clipboard

LEMMA OpenEditTyped ==
  ASSUME CredentialsTypeOK, openEdit
  PROVE  CredentialsTypeOK'
<1> USE TypeParts
<1>1. FormTyped'
  <2>1. form' \in Form
    BY DEF openEdit, FormTyped, Form, dialogs, ClosedForm, MaybeCred, ServerTyped
  <2>2. saving' \in BOOLEAN
    BY DEF openEdit, FormTyped, dialogs
  <2>3. deleting' \in MaybeCred
    BY DEF openEdit, FormTyped, dialogs, MaybeCred
  <2> QED
    BY <2>1, <2>2, <2>3 DEF FormTyped
<1> QED
  BY <1>1, Frame DEF openEdit, clipboard

LEMMA FillTyped ==
  ASSUME CredentialsTypeOK, Fill
  PROVE  CredentialsTypeOK'
<1> USE TypeParts
<1>1. FormTyped'
  <2>1. form' \in Form
    BY DEF Fill, FormTyped, Form, dialogs, ClosedForm, MaybeCred
  <2>2. saving' \in BOOLEAN
    BY DEF Fill, FormTyped, dialogs
  <2>3. deleting' \in MaybeCred
    BY DEF Fill, FormTyped, dialogs, MaybeCred
  <2> QED
    BY <2>1, <2>2, <2>3 DEF FormTyped
<1> QED
  BY <1>1, Frame DEF Fill, clipboard

LEMMA CloseFormTyped ==
  ASSUME CredentialsTypeOK, closeForm
  PROVE  CredentialsTypeOK'
<1> USE TypeParts
<1>1. FormTyped'
  <2>1. form' \in Form
    BY DEF closeForm, FormTyped, Form, dialogs, ClosedForm, MaybeCred
  <2>2. saving' \in BOOLEAN
    BY DEF closeForm, FormTyped, dialogs
  <2>3. deleting' \in MaybeCred
    BY DEF closeForm, FormTyped, dialogs, MaybeCred
  <2> QED
    BY <2>1, <2>2, <2>3 DEF FormTyped
<1> QED
  BY <1>1, Frame DEF closeForm, clipboard

LEMMA SaveCredentialTyped ==
  ASSUME CredentialsTypeOK, saveCredential
  PROVE  CredentialsTypeOK'
<1> USE TypeParts
<1>1. JobsTyped'
  <2>1. [type |-> "save", cred |-> form.cred] \in Action
    BY DEF Action, MaybeCred, FormTyped, Form
  <2> QED
    BY <2>1, LaunchTyped DEF saveCredential, Stages, Asking
<1>2. FormTyped'
  <2>1. form' \in Form
    BY DEF saveCredential, FormTyped, Form, dialogs, ClosedForm, MaybeCred
  <2>2. saving' \in BOOLEAN
    BY DEF saveCredential, FormTyped, dialogs
  <2>3. deleting' \in MaybeCred
    BY DEF saveCredential, FormTyped, dialogs, MaybeCred
  <2> QED
    BY <2>1, <2>2, <2>3 DEF FormTyped
<1> QED
  BY <1>1, <1>2, Frame DEF saveCredential, clipboard

LEMMA AskDeleteTyped ==
  ASSUME CredentialsTypeOK, AskDelete
  PROVE  CredentialsTypeOK'
<1> USE TypeParts
<1>1. FormTyped'
  <2>1. form' \in Form
    BY DEF AskDelete, FormTyped, Form, dialogs, ClosedForm, MaybeCred
  <2>2. saving' \in BOOLEAN
    BY DEF AskDelete, FormTyped, dialogs
  <2>3. deleting' \in MaybeCred
    BY DEF AskDelete, FormTyped, dialogs, MaybeCred, ServerTyped
  <2> QED
    BY <2>1, <2>2, <2>3 DEF FormTyped
<1> QED
  BY <1>1, Frame DEF AskDelete, clipboard

LEMMA KeepItTyped ==
  ASSUME CredentialsTypeOK, KeepIt
  PROVE  CredentialsTypeOK'
<1> USE TypeParts
<1>1. FormTyped'
  <2>1. form' \in Form
    BY DEF KeepIt, FormTyped, Form, dialogs, ClosedForm, MaybeCred
  <2>2. saving' \in BOOLEAN
    BY DEF KeepIt, FormTyped, dialogs
  <2>3. deleting' \in MaybeCred
    BY DEF KeepIt, FormTyped, dialogs, MaybeCred
  <2> QED
    BY <2>1, <2>2, <2>3 DEF FormTyped
<1> QED
  BY <1>1, Frame DEF KeepIt, clipboard

LEMMA DeleteCredentialTyped ==
  ASSUME CredentialsTypeOK, deleteCredential
  PROVE  CredentialsTypeOK'
<1> USE TypeParts
<1>1. JobsTyped'
  <2>1. [type |-> "delete", cred |-> deleting] \in Action
    BY DEF Action, MaybeCred, FormTyped, Form
  <2> QED
    BY <2>1, LaunchTyped DEF deleteCredential, Stages, Asking
<1> QED
  BY <1>1, Frame DEF deleteCredential, clipboard

LEMMA UnmountTyped ==
  ASSUME CredentialsTypeOK, Unmount
  PROVE  CredentialsTypeOK'
<1> USE TypeParts
<1>1. FormTyped'
  <2>1. form' \in Form
    BY DEF Unmount, FormTyped, Form, dialogs, ClosedForm, MaybeCred
  <2>2. saving' \in BOOLEAN
    BY DEF Unmount, FormTyped, dialogs
  <2>3. deleting' \in MaybeCred
    BY DEF Unmount, FormTyped, dialogs, MaybeCred
  <2> QED
    BY <2>1, <2>2, <2>3 DEF FormTyped
<1>2. PromptTyped'
  <2>1. showReveal' \in BOOLEAN
    BY DEF Unmount, PromptTyped
  <2>2. pendingAction' \in Action
    BY DEF Unmount, PromptTyped, NoAction, Action, MaybeCred
  <2> QED
    BY <2>1, <2>2 DEF PromptTyped
<1>3. PageTyped'
  <2>1. mounted' \in BOOLEAN
    BY DEF Unmount, PageTyped, clipboard
  <2>2. refused' \in BOOLEAN
    BY DEF Unmount, PageTyped, clipboard
  <2> QED
    BY <2>1, <2>2 DEF PageTyped
<1>4. DetailTyped'
  BY CredentialsAssumption DEF Unmount, DetailTyped, detail, MaybeCred, Kept, Off, Down
<1>5. ClipTyped'
  BY CredentialsAssumption DEF Unmount, ClipTyped, clipboard, Kept, Off, Down
<1> QED
  BY <1>1, <1>2, <1>3, <1>4, <1>5, Frame DEF Unmount

LEMMA TickTyped ==
  ASSUME CredentialsTypeOK, Tick
  PROVE  CredentialsTypeOK'
<1> USE TypeParts
<1>1. ServerTyped'
  <2>1. window' \in 0..RevealTTL
    BY CredentialsAssumption DEF Tick, ServerTyped, server, Down
  <2>2. table' \subseteq Creds
    BY DEF Tick, ServerTyped, server
  <2>3. items' \subseteq Creds
    BY DEF Tick, ServerTyped, server
  <2> QED
    BY <2>1, <2>2, <2>3 DEF ServerTyped
<1>2. DetailTyped'
  <2>1. viewing' \in MaybeCred
    BY DEF Tick, DetailTyped, MaybeCred
  <2>2. revealTtl' \in 0..RevealTTL
    BY CredentialsAssumption DEF Tick, DetailTyped, Down
  <2>3. pollTimer' \in Off..PollPeriod
    BY CredentialsAssumption DEF Tick, DetailTyped, Off, Down
  <2>4. poll' \in {"none", "sent", "open", "closed"}
    BY DEF Tick, DetailTyped
  <2>5. overdue' \in 0..(PollPeriod + 1)
    BY CredentialsAssumption DEF Tick, DetailTyped
  <2> QED
    BY <2>1, <2>2, <2>3, <2>4, <2>5 DEF DetailTyped
<1>3. ClipTyped'
  BY CredentialsAssumption DEF Tick, ClipTyped, clipboard, Kept, Off, Down
<1> QED
  BY <1>1, <1>2, <1>3, Frame DEF Tick, clipboard

LEMMA SendPollTyped ==
  ASSUME CredentialsTypeOK, SendPoll
  PROVE  CredentialsTypeOK'
<1> USE TypeParts
<1>1. DetailTyped'
  BY CredentialsAssumption DEF SendPoll, DetailTyped, detail, MaybeCred, Kept, Off, Down
<1> QED
  BY <1>1, Frame DEF SendPoll, clipboard

LEMMA ServePollTyped ==
  ASSUME CredentialsTypeOK, ServePoll
  PROVE  CredentialsTypeOK'
<1> USE TypeParts
<1>1. DetailTyped'
  BY CredentialsAssumption DEF ServePoll, DetailTyped, detail, MaybeCred, Kept, Off, Down
<1> QED
  BY <1>1, Frame DEF ServePoll, clipboard

LEMMA SyncRevealWindowTyped ==
  ASSUME CredentialsTypeOK, syncRevealWindow
  PROVE  CredentialsTypeOK'
<1> USE TypeParts
<1>1. DetailTyped'
  BY CredentialsAssumption DEF syncRevealWindow, DetailTyped, detail, MaybeCred, Kept, Off, Down
<1> QED
  BY <1>1, Frame DEF syncRevealWindow, clipboard

LEMMA ClearClipboardTyped ==
  ASSUME CredentialsTypeOK, ClearClipboard
  PROVE  CredentialsTypeOK'
<1> USE TypeParts
<1>1. PageTyped'
  <2>1. mounted' \in BOOLEAN
    BY DEF ClearClipboard, PageTyped, clipboard
  <2>2. refused' \in BOOLEAN
    BY DEF ClearClipboard, PageTyped, clipboard
  <2> QED
    BY <2>1, <2>2 DEF PageTyped
<1>2. ClipTyped'
  BY CredentialsAssumption DEF ClearClipboard, ClipTyped, clipboard, Kept, Off, Down
<1> QED
  BY <1>1, <1>2, Frame DEF ClearClipboard

LEMMA ServeTyped ==
  ASSUME CredentialsTypeOK, NEW c \in Jobs, Serve(c)
  PROVE  CredentialsTypeOK'
<1> USE TypeParts
<1>1. JobsTyped'
  <2>1. PICK answer \in Answers, rows \in SUBSET Creds :
          job' = [job EXCEPT ![c].answer = answer, ![c].rows = rows]
    BY DEF Serve, Answers, JobsTyped, Job, ServerTyped
  <2>2. [[job[c] EXCEPT !.answer = answer] EXCEPT !.rows = rows] \in Job
    BY DEF JobsTyped, Job
  <2>3. job' \in [Jobs -> Job]
    BY <2>1, <2>2 DEF JobsTyped
  <2> QED
    BY <2>3 DEF JobsTyped, Serve
<1>2. ServerTyped'
  <2>1. window' \in 0..RevealTTL
    BY CredentialsAssumption DEF Serve, ServerTyped, server, Down
  <2>2. table' \subseteq Creds
    BY DEF Serve, ServerTyped, server, Change, JobsTyped, Job, Action
  <2>3. items' \subseteq Creds
    BY DEF Serve, ServerTyped, server
  <2> QED
    BY <2>1, <2>2, <2>3 DEF ServerTyped
<1> QED
  BY <1>1, <1>2, Frame DEF Serve, clipboard

LEMMA FailsTyped ==
  ASSUME CredentialsTypeOK, NEW c \in Jobs, Fails(c)
  PROVE  CredentialsTypeOK'
<1> USE TypeParts
<1>1. JobsTyped'
  BY DEF Fails, JobsTyped, Job, Answers
<1> QED
  BY <1>1, Frame DEF Fails, clipboard

LEMMA MeAnsweredTyped ==
  ASSUME CredentialsTypeOK, NEW c \in Jobs, MeAnswered(c)
  PROVE  CredentialsTypeOK'
<1> USE TypeParts
<1>1. JobsTyped'
  BY GoesTyped, EndsTyped DEF MeAnswered, Stages, Asking, FirstStage
<1>2. PromptTyped'
  <2>1. showReveal' \in BOOLEAN
    BY DEF MeAnswered, PromptTyped, prompt, Kept
  <2>2. pendingAction' \in Action
    BY DEF MeAnswered, PromptTyped, NoAction, Action, MaybeCred, prompt, JobsTyped, Job, Kept
  <2> QED
    BY <2>1, <2>2 DEF PromptTyped
<1> QED
  BY <1>1, <1>2, Frame DEF MeAnswered, clipboard

LEMMA CompleteRevealTyped ==
  ASSUME CredentialsTypeOK, NEW c \in Jobs, completeReveal(c)
  PROVE  CredentialsTypeOK'
<1> USE TypeParts
<1>1. JobsTyped'
  BY GoesTyped, EndsTyped DEF completeReveal, Stages, Asking, FirstStage
<1>2. PromptTyped'
  <2>1. showReveal' \in BOOLEAN
    BY DEF completeReveal, PromptTyped
  <2>2. pendingAction' \in Action
    BY DEF completeReveal, PromptTyped, NoAction, Action, MaybeCred
  <2> QED
    BY <2>1, <2>2 DEF PromptTyped
<1> QED
  BY <1>1, <1>2, Frame DEF completeReveal, clipboard

LEMMA ViewAnsweredTyped ==
  ASSUME CredentialsTypeOK, NEW c \in Jobs, ViewAnswered(c)
  PROVE  CredentialsTypeOK'
<1> USE TypeParts
<1>1. JobsTyped'
  BY GoesTyped, EndsTyped DEF ViewAnswered, Stages, Asking
<1> QED
  BY <1>1, Frame DEF ViewAnswered, clipboard

LEMMA ShowDetailTyped ==
  ASSUME CredentialsTypeOK, NEW c \in Jobs, ShowDetail(c)
  PROVE  CredentialsTypeOK'
<1> USE TypeParts
<1>1. JobsTyped'
  BY GoesTyped, EndsTyped DEF ShowDetail, Stages, Asking
<1>2. DetailTyped'
  <2>1. viewing' \in MaybeCred
    BY DEF ShowDetail, DetailTyped, MaybeCred, Kept, JobsTyped, Job, Action
  <2>2. revealTtl' \in 0..RevealTTL
    BY CredentialsAssumption DEF ShowDetail, DetailTyped, Down, Kept
  <2>3. pollTimer' \in Off..PollPeriod
    BY CredentialsAssumption DEF ShowDetail, DetailTyped, Off, Down, Kept, Off
  <2>4. poll' \in {"none", "sent", "open", "closed"}
    BY DEF ShowDetail, DetailTyped
  <2>5. overdue' \in 0..(PollPeriod + 1)
    BY CredentialsAssumption DEF ShowDetail, DetailTyped
  <2> QED
    BY <2>1, <2>2, <2>3, <2>4, <2>5 DEF DetailTyped
<1> QED
  BY <1>1, <1>2, Frame DEF ShowDetail, clipboard

LEMMA RotateAnsweredTyped ==
  ASSUME CredentialsTypeOK, NEW c \in Jobs, RotateAnswered(c)
  PROVE  CredentialsTypeOK'
<1> USE TypeParts
<1>1. JobsTyped'
  BY GoesTyped, EndsTyped DEF RotateAnswered, Stages, Asking
<1> QED
  BY <1>1, Frame DEF RotateAnswered, clipboard

LEMMA WriteClipboardTyped ==
  ASSUME CredentialsTypeOK, NEW c \in Jobs, WriteClipboard(c)
  PROVE  CredentialsTypeOK'
<1> USE TypeParts
<1>1. JobsTyped'
  BY GoesTyped, EndsTyped DEF WriteClipboard, Stages, Asking
<1>2. PageTyped'
  <2>1. mounted' \in BOOLEAN
    BY DEF WriteClipboard, PageTyped, clipboard
  <2>2. refused' \in BOOLEAN
    BY DEF WriteClipboard, PageTyped, clipboard
  <2> QED
    BY <2>1, <2>2 DEF PageTyped
<1>3. ClipTyped'
  BY CredentialsAssumption DEF WriteClipboard, ClipTyped, clipboard, Kept, Off, Down
<1> QED
  BY <1>1, <1>2, <1>3, Frame DEF WriteClipboard

LEMMA WriteRefusedTyped ==
  ASSUME CredentialsTypeOK, NEW c \in Jobs, WriteRefused(c)
  PROVE  CredentialsTypeOK'
<1> USE TypeParts
<1>1. JobsTyped'
  BY GoesTyped, EndsTyped DEF WriteRefused, Stages, Asking
<1> QED
  BY <1>1, Frame DEF WriteRefused, clipboard

LEMMA StartClipboardClearTyped ==
  ASSUME CredentialsTypeOK, NEW c \in Jobs, startClipboardClear(c)
  PROVE  CredentialsTypeOK'
<1> USE TypeParts
<1>1. JobsTyped'
  BY GoesTyped, EndsTyped DEF startClipboardClear, Stages, Asking
<1>2. ClipTyped'
  BY CredentialsAssumption DEF startClipboardClear, ClipTyped, clipboard, Kept, Off, Down
<1> QED
  BY <1>1, <1>2, Frame DEF startClipboardClear, clipboard

LEMMA CopyAnsweredTyped ==
  ASSUME CredentialsTypeOK, NEW c \in Jobs, CopyAnswered(c)
  PROVE  CredentialsTypeOK'
<1> USE TypeParts
<1>1. JobsTyped'
  BY GoesTyped, EndsTyped DEF CopyAnswered, Stages, Asking
<1> QED
  BY <1>1, Frame DEF CopyAnswered, clipboard

LEMMA SaveAnsweredTyped ==
  ASSUME CredentialsTypeOK, NEW c \in Jobs, SaveAnswered(c)
  PROVE  CredentialsTypeOK'
<1> USE TypeParts
<1>1. JobsTyped'
  BY GoesTyped, EndsTyped DEF SaveAnswered, Stages, Asking
<1>2. FormTyped'
  <2>1. form' \in Form
    BY DEF SaveAnswered, FormTyped, Form, dialogs, ClosedForm, MaybeCred
  <2>2. saving' \in BOOLEAN
    BY DEF SaveAnswered, FormTyped, dialogs
  <2>3. deleting' \in MaybeCred
    BY DEF SaveAnswered, FormTyped, dialogs, MaybeCred
  <2> QED
    BY <2>1, <2>2, <2>3 DEF FormTyped
<1> QED
  BY <1>1, <1>2, Frame DEF SaveAnswered, clipboard

LEMMA DeleteAnsweredTyped ==
  ASSUME CredentialsTypeOK, NEW c \in Jobs, DeleteAnswered(c)
  PROVE  CredentialsTypeOK'
<1> USE TypeParts
<1>1. JobsTyped'
  BY GoesTyped, EndsTyped DEF DeleteAnswered, Stages, Asking
<1>2. FormTyped'
  <2>1. form' \in Form
    BY DEF DeleteAnswered, FormTyped, Form, dialogs, ClosedForm, MaybeCred
  <2>2. saving' \in BOOLEAN
    BY DEF DeleteAnswered, FormTyped, dialogs
  <2>3. deleting' \in MaybeCred
    BY DEF DeleteAnswered, FormTyped, dialogs, MaybeCred
  <2> QED
    BY <2>1, <2>2, <2>3 DEF FormTyped
<1> QED
  BY <1>1, <1>2, Frame DEF DeleteAnswered, clipboard

LEMMA LoadTyped ==
  ASSUME CredentialsTypeOK, NEW c \in Jobs, load(c)
  PROVE  CredentialsTypeOK'
<1> USE TypeParts
<1>1. JobsTyped'
  BY GoesTyped, EndsTyped DEF load, Stages, Asking
<1>2. ServerTyped'
  <2>1. window' \in 0..RevealTTL
    BY CredentialsAssumption DEF load, ServerTyped, server, Down
  <2>2. table' \subseteq Creds
    BY DEF load, ServerTyped, server
  <2>3. items' \subseteq Creds
    BY DEF load, ServerTyped, server, Kept, JobsTyped, Job
  <2> QED
    BY <2>1, <2>2, <2>3 DEF ServerTyped
<1>3. FormTyped'
  <2>1. form' \in Form
    BY DEF load, FormTyped, Form, dialogs, ClosedForm, MaybeCred
  <2>2. saving' \in BOOLEAN
    BY DEF load, FormTyped, dialogs
  <2>3. deleting' \in MaybeCred
    BY DEF load, FormTyped, dialogs, MaybeCred
  <2> QED
    BY <2>1, <2>2, <2>3 DEF FormTyped
<1> QED
  BY <1>1, <1>2, <1>3, Frame DEF load, clipboard

LEMMA ShowsErrorTyped ==
  ASSUME CredentialsTypeOK, NEW c \in Jobs, ShowsError(c)
  PROVE  CredentialsTypeOK'
<1> USE TypeParts
<1>1. JobsTyped'
  BY GoesTyped, EndsTyped DEF ShowsError, Stages, Asking
<1>2. FormTyped'
  <2>1. form' \in Form
    BY DEF ShowsError, FormTyped, Form, dialogs, ClosedForm, MaybeCred
  <2>2. saving' \in BOOLEAN
    BY DEF ShowsError, FormTyped, dialogs
  <2>3. deleting' \in MaybeCred
    BY DEF ShowsError, FormTyped, dialogs, MaybeCred
  <2> QED
    BY <2>1, <2>2, <2>3 DEF FormTyped
<1> QED
  BY <1>1, <1>2, Frame DEF ShowsError, clipboard

LEMMA StepTyped == CredentialsTypeOK /\ [CredentialsNext]_credsVars => CredentialsTypeOK'
<1> SUFFICES ASSUME CredentialsTypeOK, [CredentialsNext]_credsVars PROVE CredentialsTypeOK'
  OBVIOUS
<1>1. CASE UNCHANGED credsVars
  BY <1>1, Frame, TypeParts DEF credsVars, clipboard
<1>2. CASE Operator
  BY <1>2, RequireRevealTyped, CopyShownTyped, CloseViewTyped, SubmitTyped, CancelRevealTyped,
     OpenNewTyped, OpenEditTyped, FillTyped, CloseFormTyped, SaveCredentialTyped, AskDeleteTyped, KeepItTyped,
     DeleteCredentialTyped, UnmountTyped DEF Operator
<1>3. CASE Tick \/ SendPoll \/ ServePoll \/ syncRevealWindow \/ ClearClipboard
  BY <1>3, TickTyped, SendPollTyped, ServePollTyped, SyncRevealWindowTyped, ClearClipboardTyped
<1>4. ASSUME NEW c \in Jobs, Serve(c) \/ Fails(c) PROVE CredentialsTypeOK'
  BY <1>4, ServeTyped, FailsTyped
<1>5. ASSUME NEW c \in Jobs, executeAction(c) PROVE CredentialsTypeOK'
  BY <1>5, ViewAnsweredTyped, ShowDetailTyped, RotateAnsweredTyped, WriteClipboardTyped,
     WriteRefusedTyped, StartClipboardClearTyped, CopyAnsweredTyped DEF executeAction
<1>6. ASSUME NEW c \in Jobs, Continues(c) PROVE CredentialsTypeOK'
  BY <1>5, <1>6, MeAnsweredTyped, CompleteRevealTyped, SaveAnsweredTyped, DeleteAnsweredTyped,
     LoadTyped, ShowsErrorTyped DEF Continues
<1> QED
  BY <1>1, <1>2, <1>3, <1>4, <1>6 DEF CredentialsNext

\* The variables of the credentials page keep their types.
THEOREM CredentialsTypeCorrect == CredentialsSpec => []CredentialsTypeOK
<1> QED
  BY InitTyped, StepTyped, PTL DEF CredentialsSpec

(***************************************************************************)
(* The clipboard.  A chain that has just written the password to it has    *)
(* not failed, for nothing is asked before the timer is started: this is   *)
(* what makes ClipboardGuarded inductive.                                  *)
(***************************************************************************)

ClipInv ==
  /\ ClipboardGuarded
  /\ \A c \in Jobs : job[c].stage = "written" => job[c].answer = "none"

\* What changes no chain that has just written, and no clipboard, keeps it.
LEMMA ClipFrame ==
  ASSUME CredentialsTypeOK, ClipInv, UNCHANGED <<clipboard, mounted>>,
         NEW c \in Jobs, NEW j, job' = [job EXCEPT ![c] = j],
         j.stage # "written", job[c].stage # "written"
  PROVE  ClipInv'
<1>1. /\ job'[c] = j
      /\ \A d \in Jobs \ {c} : job'[d] = job[d]
  BY TypeParts DEF JobsTyped
<1>2. \A d \in Jobs : job'[d].stage = "written" <=> job[d].stage = "written"
  BY <1>1
<1>3. \A d \in Jobs : job'[d].stage = "written" => job'[d].answer = "none"
  BY <1>1 DEF ClipInv
<1>4. ClipboardGuarded'
  BY <1>2 DEF ClipInv, ClipboardGuarded, clipboard
<1> QED
  BY <1>3, <1>4 DEF ClipInv

\* So does a step without a chain, as long as the timer keeps running.
LEMMA ClipSame ==
  ASSUME ClipInv, job' = job, clip' = clip, refused' = refused, mounted' => mounted,
         mounted' /\ clipTimer # Off => clipTimer' # Off
  PROVE  ClipInv'
BY DEF ClipInv, ClipboardGuarded

LEMMA ClipButtons == ASSUME CredentialsTypeOK, ClipInv, Operator PROVE ClipInv'
<1>1. ASSUME NEW act, NEW stage \in Stages \ {"written"}, Launch(act, stage), UNCHANGED <<clipboard, mounted>>
      PROVE  ClipInv'
  <2>1. PICK c \in Jobs : job[c] = FreeJob /\ job' = [job EXCEPT ![c].act = act, ![c].stage = stage]
    BY <1>1 DEF Launch
  <2> DEFINE j == [[FreeJob EXCEPT !.act = act] EXCEPT !.stage = stage]
  <2>2. job' = [job EXCEPT ![c] = j]
    BY <2>1
  <2>3. j.stage # "written" /\ job[c].stage # "written"
    BY <1>1, <2>1 DEF FreeJob
  <2> HIDE DEF j
  <2> QED
    BY <1>1, <2>2, <2>3, ClipFrame
<1>2. {"me", "write", "reveal", "save", "delete"} \subseteq Stages \ {"written"}
  BY DEF Stages, Asking
<1>3. CASE requireReveal \/ CopyShown
  BY <1>1, <1>2, <1>3 DEF requireReveal, CopyShown
<1>4. CASE submit \/ saveCredential \/ deleteCredential
  BY <1>1, <1>2, <1>4 DEF submit, saveCredential, deleteCredential
<1>5. CASE closeView \/ CancelReveal \/ openNew \/ openEdit \/ Fill \/ closeForm \/ AskDelete \/ KeepIt
  <2>1. UNCHANGED <<job, clipboard, mounted>>
    BY <1>5 DEF closeView, CancelReveal, openNew, openEdit, Fill, closeForm, AskDelete, KeepIt
  <2>2. UNCHANGED <<job, clip, clipTimer, refused, mounted>>
    BY <2>1 DEF clipboard
  <2> QED
    BY <2>2, ClipSame
<1>6. CASE Unmount
  BY <1>6, ClipSame DEF Unmount
<1> QED
  BY <1>3, <1>4, <1>5, <1>6 DEF Operator

LEMMA ClipTimers ==
  ASSUME CredentialsTypeOK, ClipInv,
         Tick \/ SendPoll \/ ServePoll \/ syncRevealWindow \/ ClearClipboard
  PROVE  ClipInv'
<1>1. CASE Tick
  <2>1. clipTimer # Off => clipTimer' # Off
    BY <1>1, TypeParts, CredentialsAssumption DEF Tick, Down, Off, ClipTyped
  <2> QED
    BY <1>1, <2>1, ClipSame DEF Tick
<1>2. CASE SendPoll \/ ServePoll \/ syncRevealWindow
  BY <1>2, ClipSame DEF SendPoll, ServePoll, syncRevealWindow, clipboard
<1>3. CASE ClearClipboard
  BY <1>3 DEF ClearClipboard, ClipInv, ClipboardGuarded
<1> QED
  BY <1>1, <1>2, <1>3

LEMMA ClipChains ==
  ASSUME CredentialsTypeOK, ClipInv, NEW c \in Jobs, Serve(c) \/ Fails(c) \/ Continues(c)
  PROVE  ClipInv'
<1> DEFINE Advanced(stage) == [job[c] EXCEPT !.stage = stage, !.answer = "none"]
<1>1. /\ \A stage \in Stages : Goes(c, stage) => job' = [job EXCEPT ![c] = Advanced(stage)]
      /\ \A stage \in Stages : Advanced(stage).stage = stage
  BY TypeParts DEF Goes, JobsTyped, Job
<1>2. ASSUME NEW stage \in Stages \ {"written"}, Goes(c, stage), job[c].stage # "written",
             UNCHANGED <<clipboard, mounted>>
      PROVE  ClipInv'
  <2>1. job' = [job EXCEPT ![c] = Advanced(stage)] /\ Advanced(stage).stage # "written"
    BY <1>1, <1>2
  <2> HIDE DEF Advanced
  <2> QED
    BY <1>2, <2>1, ClipFrame
<1>3. ASSUME Ends(c), job[c].stage # "written", UNCHANGED <<clipboard, mounted>>
      PROVE  ClipInv'
  <2>1. job' = [job EXCEPT ![c] = FreeJob] /\ FreeJob.stage # "written"
    BY <1>3 DEF Ends, FreeJob
  <2> QED
    BY <1>3, <2>1, ClipFrame
<1>4. {"view", "rotate", "session", "write", "copy", "list"} \subseteq Stages \ {"written"}
  BY DEF Stages, Asking
<1>5. "written" \notin Asking
  BY DEF Asking
<1>6. CASE Serve(c) \/ Fails(c)
  <2>1. PICK answer, rows : job' = [job EXCEPT ![c].answer = answer, ![c].rows = rows]
    BY <1>6, TypeParts DEF Serve, Fails, JobsTyped, Job
  <2> DEFINE j == [[job[c] EXCEPT !.answer = answer] EXCEPT !.rows = rows]
  <2>2. job' = [job EXCEPT ![c] = j] /\ j.stage = job[c].stage
    BY <2>1, TypeParts DEF JobsTyped, Job
  <2>3. job[c].stage # "written" /\ UNCHANGED <<clipboard, mounted>>
    BY <1>5, <1>6 DEF Serve, Fails
  <2> HIDE DEF j
  <2> QED
    BY <2>2, <2>3, ClipFrame
<1>7. CASE MeAnswered(c) \/ completeReveal(c)
  BY <1>2, <1>3, <1>4, <1>7 DEF MeAnswered, completeReveal, At, FirstStage
<1>8. CASE ViewAnswered(c) \/ ShowDetail(c) \/ RotateAnswered(c) \/ CopyAnswered(c)
  BY <1>2, <1>3, <1>4, <1>8 DEF ViewAnswered, ShowDetail, RotateAnswered, CopyAnswered, At
<1>9. CASE SaveAnswered(c) \/ DeleteAnswered(c) \/ load(c) \/ WriteRefused(c)
  BY <1>2, <1>3, <1>4, <1>9 DEF SaveAnswered, DeleteAnswered, load, WriteRefused, At
<1>10. CASE ShowsError(c)
  <2>1. job[c].stage # "written"
    BY <1>10 DEF ShowsError, At, ClipInv
  <2> QED
    BY <1>3, <1>10, <2>1 DEF ShowsError
<1>11. CASE WriteClipboard(c)
  <2>1. CASE job[c].act.type = "user"
    <3>1. job' = [job EXCEPT ![c] = Advanced("copy")] /\ clip' = "user"
      BY <1>1, <1>4, <1>11, <2>1 DEF WriteClipboard
    <3>2. \A d \in Jobs : job'[d].stage = "written" => job'[d].answer = "none"
      BY <3>1, TypeParts DEF JobsTyped, ClipInv
    <3> QED
      BY <3>1, <3>2 DEF ClipInv, ClipboardGuarded
  <2>2. CASE job[c].act.type # "user"
    <3>1. "written" \in Stages
      BY DEF Stages
    <3>2. job' = [job EXCEPT ![c] = Advanced("written")]
      BY <1>1, <1>11, <2>2, <3>1 DEF WriteClipboard
    <3>3. job'[c].stage = "written" /\ job'[c].answer = "none"
      BY <3>2, TypeParts DEF JobsTyped, Job
    <3>4. \A d \in Jobs : job'[d].stage = "written" => job'[d].answer = "none"
      BY <3>2, <3>3, TypeParts DEF JobsTyped, ClipInv
    <3> QED
      BY <3>3, <3>4 DEF ClipInv, ClipboardGuarded
  <2> QED
    BY <2>1, <2>2
<1>12. CASE startClipboardClear(c)
  <2>1. job' = [job EXCEPT ![c] = Advanced("copy")]
    BY <1>1, <1>4, <1>12 DEF startClipboardClear
  <2>3. clipTimer' # Off
    BY <1>12, CredentialsAssumption DEF startClipboardClear, Off
  <2>2. \A d \in Jobs : job'[d].stage = "written" => job'[d].answer = "none"
    BY <2>1, TypeParts DEF JobsTyped, ClipInv
  <2> QED
    BY <2>2, <2>3 DEF ClipInv, ClipboardGuarded
<1> QED
  BY <1>6, <1>7, <1>8, <1>9, <1>10, <1>11, <1>12 DEF Continues, executeAction

\* A password is in the clipboard only while a timer runs that will clear it,
\* or is just about to be started.
THEOREM ClipboardStaysGuarded == CredentialsSpec => []ClipboardGuarded
<1>1. CredentialsInit => ClipInv
  BY DEF CredentialsInit, ClipInv, ClipboardGuarded, FirstLoad, FreeJob
<1>2. CredentialsTypeOK /\ ClipInv /\ [CredentialsNext]_credsVars => ClipInv'
  <2> SUFFICES ASSUME CredentialsTypeOK, ClipInv, [CredentialsNext]_credsVars PROVE ClipInv'
    OBVIOUS
  <2>1. CASE UNCHANGED credsVars
    BY <2>1, ClipSame DEF credsVars, clipboard
  <2> QED
    BY <2>1, ClipButtons, ClipTimers, ClipChains DEF CredentialsNext
<1>3. ClipInv => ClipboardGuarded
  BY DEF ClipInv
<1> QED
  BY <1>1, <1>2, <1>3, CredentialsTypeCorrect, PTL DEF CredentialsSpec

(***************************************************************************)
(* The screen.  While a detail is shown its poll is armed, and the ticks   *)
(* it has been overdue and those until the next poll are together no more  *)
(* than a period, unless the answer that will close it is under way.       *)
(***************************************************************************)

ScreenInv ==
  /\ viewing = NoCred => overdue = 0
  /\ viewing # NoCred => mounted /\ pollTimer # Off
  /\ window = 0 /\ viewing # NoCred /\ poll \in {"none", "open"} => overdue + pollTimer <= PollPeriod

LEMMA ScreenSame == ASSUME ScreenInv, UNCHANGED <<window, detail, mounted>> PROVE ScreenInv'
BY DEF ScreenInv, detail

LEMMA ScreenButtons == ASSUME CredentialsTypeOK, ScreenInv, Operator PROVE ScreenInv'
<1>1. CASE closeView
  BY <1>1 DEF closeView, ScreenInv
<1>2. CASE Unmount
  BY <1>2 DEF Unmount, ScreenInv
<1>3. CASE requireReveal \/ CopyShown \/ submit \/ CancelReveal \/ openNew \/ openEdit \/ Fill
           \/ closeForm \/ saveCredential \/ AskDelete \/ KeepIt \/ deleteCredential
  <2>1. UNCHANGED <<server, detail, mounted>>
    BY <1>3 DEF requireReveal, CopyShown, submit, CancelReveal, openNew, openEdit, Fill,
                closeForm, saveCredential, AskDelete, KeepIt, deleteCredential
  <2> QED
    BY <2>1, ScreenSame DEF server
<1> QED
  BY <1>1, <1>2, <1>3 DEF Operator

LEMMA ScreenTimers ==
  ASSUME CredentialsTypeOK, ScreenInv,
         Tick \/ SendPoll \/ ServePoll \/ syncRevealWindow \/ ClearClipboard
  PROVE  ScreenInv'
<1> PollPeriod \in Nat \ {0} /\ RevealTTL \in Nat \ {0}
  BY CredentialsAssumption
<1> ServerTyped /\ DetailTyped
  BY TypeParts
<1>1. CASE Tick
  <2>1. viewing' = NoCred => overdue' = 0
    BY <1>1 DEF Tick
  <2>2. viewing' # NoCred => viewing # NoCred /\ viewing' = viewing
    BY <1>1 DEF Tick
  <2>3. viewing' # NoCred => mounted' /\ pollTimer' # Off
    <3>1. pollTimer' = Down(pollTimer) \/ viewing' = NoCred
      BY <1>1 DEF Tick
    <3>2. pollTimer # Off => Down(pollTimer) # Off
      BY <1>1 DEF DetailTyped, Down, Off
    <3>3. mounted' = mounted
      BY <1>1 DEF Tick
    <3> QED
      BY <2>2, <3>1, <3>2, <3>3 DEF ScreenInv
  <2>4. ASSUME window' = 0, viewing' # NoCred, poll' \in {"none", "open"}
        PROVE  overdue' + pollTimer' <= PollPeriod
    <3>1. pollTimer \in 1..PollPeriod /\ pollTimer' = pollTimer - 1
      BY <1>1, <2>2, <2>4 DEF Tick, Down, DetailTyped, ScreenInv, Off
    <3>2. CASE window > 0
      BY <1>1, <2>4, <3>1, <3>2 DEF Tick
    <3>3. CASE window = 0
      <4>1. overdue + pollTimer <= PollPeriod
        BY <1>1, <2>2, <2>4, <3>3 DEF Tick, ScreenInv
      <4>2. overdue \in Nat /\ overdue' <= overdue + 1 /\ overdue' \in Nat
        BY <1>1 DEF Tick, DetailTyped
      <4>3. ASSUME NEW o \in Nat, NEW p \in Nat, NEW t \in 1..PollPeriod, o + t <= PollPeriod, p <= o + 1
            PROVE  p + (t - 1) <= PollPeriod
        BY <4>3
      <4> QED
        BY <3>1, <4>1, <4>2, <4>3
    <3> QED
      BY <3>2, <3>3 DEF ServerTyped
  <2> QED
    BY <2>1, <2>3, <2>4 DEF ScreenInv
<1>2. CASE SendPoll
  <2>1. PollPeriod # Off
    BY DEF Off
  <2>2. UNCHANGED <<viewing, overdue, mounted>> /\ poll' = "sent" /\ pollTimer' = PollPeriod
    BY <1>2 DEF SendPoll
  <2>3. pollTimer = 0 /\ 0 # Off
    BY <1>2 DEF SendPoll, Off
  <2> QED
    BY <2>1, <2>2, <2>3 DEF ScreenInv
<1>3. CASE ServePoll
  <2>1. UNCHANGED <<window, viewing, pollTimer, overdue, mounted>>
    BY <1>3 DEF ServePoll, server
  <2>2. window = 0 => poll' = "closed"
    BY <1>3 DEF ServePoll
  <2> QED
    BY <2>1, <2>2 DEF ScreenInv
<1>4. CASE syncRevealWindow
  <2>1. CASE UNCHANGED <<server, viewing, pollTimer, overdue, mounted>> /\ poll = "open"
    BY <2>1 DEF ScreenInv, server
  <2>2. CASE viewing' = NoCred /\ overdue' = 0
    BY <2>2 DEF ScreenInv
  <2> QED
    BY <1>4, <2>1, <2>2 DEF syncRevealWindow
<1>5. CASE ClearClipboard
  BY <1>5, ScreenSame DEF ClearClipboard, server
<1> QED
  BY <1>1, <1>2, <1>3, <1>4, <1>5

LEMMA ScreenChains ==
  ASSUME CredentialsTypeOK, ScreenInv, NEW c \in Jobs, Serve(c) \/ Fails(c) \/ Continues(c)
  PROVE  ScreenInv'
<1> PollPeriod \in Nat \ {0} /\ RevealTTL \in Nat \ {0}
  BY CredentialsAssumption
<1>1. CASE Serve(c)
  <2>1. window' = window \/ window' # 0
    BY <1>1 DEF Serve
  <2>2. UNCHANGED <<viewing, pollTimer, poll, overdue, mounted>>
    BY <1>1 DEF Serve, detail
  <2> QED
    BY <2>1, <2>2 DEF ScreenInv
<1>2. CASE ShowDetail(c)
  <2>1. CASE mounted
    <3>1. pollTimer' = PollPeriod /\ overdue' = 0 /\ mounted'
      BY <1>2, <2>1 DEF ShowDetail, Kept
    <3>2. PollPeriod # Off /\ 0 + PollPeriod <= PollPeriod
      BY DEF Off
    <3> QED
      BY <3>1, <3>2 DEF ScreenInv
  <2>2. CASE ~mounted
    <3>1. viewing' = NoCred /\ overdue' = 0
      BY <1>2, <2>2 DEF ShowDetail, Kept, ScreenInv
    <3> QED
      BY <3>1 DEF ScreenInv
  <2> QED
    BY <2>1, <2>2
<1>3. CASE \/ Fails(c) \/ MeAnswered(c) \/ completeReveal(c) \/ ViewAnswered(c) \/ RotateAnswered(c)
           \/ WriteClipboard(c) \/ WriteRefused(c) \/ startClipboardClear(c) \/ CopyAnswered(c)
           \/ SaveAnswered(c) \/ DeleteAnswered(c) \/ load(c) \/ ShowsError(c)
  <2>1. UNCHANGED <<server, detail, mounted>>
    BY <1>3 DEF Fails, MeAnswered, completeReveal, ViewAnswered, RotateAnswered, WriteClipboard, WriteRefused,
                startClipboardClear, CopyAnswered, SaveAnswered, DeleteAnswered, load, ShowsError
  <2> QED
    BY <2>1, ScreenSame DEF server
<1> QED
  BY <1>1, <1>2, <1>3 DEF Continues, executeAction

\* Secrets stay on the screen no longer than a poll of the window, and the
\* answer of the one under way, after the server's window has closed.
THEOREM SecretsAlwaysLeave == CredentialsSpec => []SecretsLeaveScreen
<1>1. CredentialsInit => ScreenInv
  BY DEF CredentialsInit, ScreenInv
<1>2. CredentialsTypeOK /\ ScreenInv /\ [CredentialsNext]_credsVars => ScreenInv'
  <2> SUFFICES ASSUME CredentialsTypeOK, ScreenInv, [CredentialsNext]_credsVars PROVE ScreenInv'
    OBVIOUS
  <2>1. CASE UNCHANGED credsVars
    BY <2>1, ScreenSame DEF credsVars, server
  <2> QED
    BY <2>1, ScreenButtons, ScreenTimers, ScreenChains DEF CredentialsNext
<1>3. CredentialsTypeOK /\ ScreenInv => SecretsLeaveScreen
  BY TypeParts, CredentialsAssumption DEF ScreenInv, SecretsLeaveScreen, DetailTyped, ServerTyped, Off
<1> QED
  BY <1>1, <1>2, <1>3, CredentialsTypeCorrect, PTL DEF CredentialsSpec

-----------------------------------------------------------------------------
(* The behaviours that are checked run one page; the page that is not      *)
(* shown keeps the types too.                                              *)
LEMMA NotesOffTyped == NotesOff => TypeInv
<1> SUFFICES ASSUME NotesOff PROVE TypeInv
  OBVIOUS
<1>1. MaxBorn \in Nat /\ MaxClicks \in Nat /\ MaxFiles \in Nat
  BY WorkspaceAssumption
<1>2. stored \in Table /\ born \in 0..MaxBorn /\ clicks \in 0..MaxClicks
  BY <1>1, Nulls DEF NotesOff
<1>3. chain \in [Chains -> ChainType]
  BY Nulls DEF NotesOff
<1>4. /\ list \in Table /\ reader \in Copy /\ editor \in EditorType
      /\ dupCheck \in DupType /\ Len(dupCheck.files) <= MaxFiles /\ dupCheck = NoDup
      /\ import \in ImportType /\ ImportCounts(import)
  BY <1>1, Nulls DEF NotesOff
<1>5. loadError \in BOOLEAN /\ shownLast \in BOOLEAN /\ missed \in BOOLEAN /\ lastRead \in Chains \cup {"import", "none"}
  BY DEF NotesOff
<1> QED
  BY <1>2, <1>3, <1>4, <1>5 DEF TypeInv

LEMMA CredentialsOffTyped == CredentialsOff => CredentialsTypeOK
<1> SUFFICES ASSUME CredentialsOff PROVE CredentialsTypeOK
  OBVIOUS
<1>1. FreeJob \in Job
  BY DEF Job, FreeJob, Stages, Answers, NoAction, Action, MaybeCred
<1>2. JobsTyped
  BY <1>1, CredentialsAssumption DEF CredentialsOff, JobsTyped
<1>3. RevealTTL \in Nat /\ ClipTTL \in Nat /\ PollPeriod \in Nat
  BY CredentialsAssumption
<1>4. ServerTyped /\ DetailTyped /\ ClipTyped
  BY <1>3 DEF CredentialsOff, ServerTyped, DetailTyped, ClipTyped, MaybeCred, Off
<1>5. FormTyped /\ PromptTyped /\ PageTyped
  BY DEF CredentialsOff, FormTyped, PromptTyped, PageTyped, Form, ClosedForm, NoAction, Action, MaybeCred
<1> QED
  BY <1>2, <1>4, <1>5, TypeParts

\* Both pages keep their types, whichever is shown; an import never counts
\* more failures or notes made than files picked.
THEOREM WorkTypeCorrect == WorkSpec => []WorkTypeOK
<1> DEFINE WorkInv == TypeInv /\ CredentialsTypeOK
<1>1. WorkInit => WorkInv
  <2>1. CASE Init /\ CredentialsOff
    BY <2>1, StartTyped, CredentialsOffTyped
  <2>2. CASE NotesOff /\ CredentialsInit
    BY <2>2, NotesOffTyped, InitTyped
  <2> QED
    BY <2>1, <2>2 DEF WorkInit
<1>2. WorkInv /\ [WorkNext]_<<shownPage, vars, credsVars>> => WorkInv'
  <2> SUFFICES ASSUME WorkInv, [WorkNext]_<<shownPage, vars, credsVars>> PROVE WorkInv'
    OBVIOUS
  <2>1. [Next]_vars /\ [CredentialsNext]_credsVars
    BY DEF WorkNext
  <2> QED
    BY <2>1, TypeStep, StepTyped
<1>3. WorkInv => WorkTypeOK
  BY TypeInvType DEF WorkTypeOK
<1> HIDE DEF WorkInv
<1> QED
  BY <1>1, <1>2, <1>3, PTL DEF WorkSpec

=============================================================================
