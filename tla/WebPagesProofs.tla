---------------------------- MODULE WebPagesProofs ----------------------------
(***************************************************************************)
(* Theorems about RecordPages and SettingsPage, the pages MCWebPages puts  *)
(* side by side: their types, that a page settles on the table, that no    *)
(* dialog changes another row, and that a file is imported once and as it  *)
(* was shown, for any number of rows, files and requests.                  *)
(***************************************************************************)
EXTENDS MCWebPages, InductionLemmas, TLAPS

FormDialog == [open: BOOLEAN, row: RowCopy]
FormText == [id: RowIds \cup {0}, text: RowText]
Question == [op: {"none", "delete", "deactivate", "reset", "assign"}, row: RowCopy, sites: SUBSET Sites]
RequestOps == {"idle", "load", "get", "save", "delete", "deactivate", "reset", "assign"}
HandlerType == [op: RequestOps, row: RowCopy, sent: Sent, stage: {"end", "call", "done", "list", "rows"},
                rows: RowTable]
RecordsTyped ==
  /\ mountedPage \in Pages /\ table \in RowTable /\ listed \in RowTable
  /\ rowsBorn \in 0..MaxRows /\ steps \in 0..MaxSteps
  /\ failed \in BOOLEAN /\ lastShown \in BOOLEAN /\ unlisted \in BOOLEAN
  /\ editing \in FormDialog /\ form \in FormText /\ asked \in Question
  /\ handler \in [Handlers -> HandlerType]
  /\ lastListing \in Handlers \cup {"none"}
  /\ editing.open => form.id = editing.row.id
\* a fetch names the row that was clicked, and a question asked is one of four
FetchesNamed == \A c \in Handlers : handler[c].op = "get" => handler[c].row.id \in RowIds
RecordsInv == RecordsTyped /\ (asked = Nothing \/ asked.op # "none") /\ FetchesNamed

LEMMA RecordsInvType == RecordsInv => RecordsTypeOK
<1> SUFFICES ASSUME RecordsTyped PROVE RecordsTypeOK
  BY DEF RecordsInv
<1>1. {failed, lastShown, unlisted} \subseteq BOOLEAN
  BY Zenon DEF RecordsTyped
<1> QED
  BY <1>1, Zenon DEF RecordsTyped, RecordsTypeOK, FormDialog, FormText, Question, RequestOps, HandlerType

\* the values that stand for nothing, and the bounds
LEMMA RowNulls ==
  /\ MaxRowId \in Nat /\ MaxRows \in Nat /\ MaxSteps \in Nat /\ 1 \in 0..MaxRows /\ 2 \in 0..MaxRows
  /\ 0 \notin RowIds /\ RowIds \subseteq 1..MaxRowId
  /\ EmptyTable \in RowTable /\ NoRowCopy \in RowCopy /\ NoData \in Sent
  /\ Shut \in FormDialog /\ Empty \in FormText /\ Nothing \in Question /\ IdleHandler \in HandlerType
<1>1. /\ MaxRowId \in Nat /\ MaxRows \in Nat /\ MaxSteps \in Nat /\ 1 \in 0..MaxRows /\ 2 \in 0..MaxRows
      /\ 0 \notin RowIds /\ RowIds \subseteq 1..MaxRowId
  BY PagesAssumption DEF RowIds
<1>2. EmptyTable \in RowTable /\ NoRowCopy \in RowCopy /\ NoData \in Sent
  BY <1>1 DEF EmptyTable, RowTable, NoRowCopy, RowCopy, NoData, Sent, RowText
<1>3. Shut \in FormDialog /\ Empty \in FormText /\ Nothing \in Question /\ IdleHandler \in HandlerType
  BY <1>2 DEF Shut, FormDialog, Empty, FormText, Nothing, Question, IdleHandler, HandlerType, RequestOps, RowText
<1> QED
  BY <1>1, <1>2, <1>3

\* a copy of a row of the table
LEMMA RowCopies ==
  ASSUME NEW t \in RowTable, NEW id \in RowsOf(t)
  PROVE  /\ id \in RowIds /\ t[id] \in Row /\ RowCopyOf(t, id) \in RowCopy
         /\ RowCopyOf(t, id).id = id /\ RowCopyOf(t, id).serial = t[id].serial
<1>1. id \in RowIds /\ t[id] \in Row
  BY DEF RowsOf, RowTable
<1>2. t[id].serial \in 0..MaxRows
  BY <1>1, RowNulls DEF Row
<1> QED
  BY <1>1, <1>2 DEF RowCopyOf, RowCopy

\* SQLite's next id is a free one
LEMMA InsertedRow ==
  ASSUME table \in RowTable, NEW text, InsertRow(text)
  PROVE  \E id \in RowIds :
           /\ table[id] = NoRow
           /\ table' = [table EXCEPT ![id] = [serial |-> rowsBorn + 1, text |-> text, sites |-> {},
                                              mustChange |-> mountedPage = "users"]]
<1> DEFINE S == {0} \cup RowsOf(table)
           m == Max(S)
           id == m + 1
<1>1. S \subseteq 0..MaxRowId /\ S # {} /\ MaxRowId \in Nat /\ \A y \in S : y \in Nat
  <2>1. MaxRowId \in Nat /\ RowIds = 1..MaxRowId
    BY PagesAssumption DEF RowIds
  <2>2. RowsOf(table) \subseteq 1..MaxRowId
    BY <2>1 DEF RowsOf
  <2>3. 0 \in 0..MaxRowId /\ 1..MaxRowId \subseteq 0..MaxRowId /\ 0..MaxRowId \subseteq Nat
    BY <2>1
  <2> QED
    BY <2>1, <2>2, <2>3
<1>2. PICK x \in S : \A y \in S : y <= x
  <2> HIDE DEF S
  <2> QED
    BY <1>1, GreatestNatural
<1>3. m \in S /\ \A y \in S : m >= y
  <2>1. \E z \in S : \A y \in S : z >= y
    BY <1>1, <1>2
  <2> HIDE DEF S
  <2>2. /\ (CHOOSE z \in S : \A y \in S : z >= y) \in S
        /\ \A y \in S : (CHOOSE z \in S : \A y1 \in S : z >= y1) >= y
    BY <2>1
  <2> QED
    BY <1>1, <2>2 DEF Max
<1>4. id \notin S
  <2> HIDE DEF S
  <2>1. m \in S /\ \A y \in S : m >= y /\ y \in Nat
    BY <1>1, <1>3
  <2> HIDE DEF m
  <2> QED
    BY <2>1
<1>5. /\ id \in RowIds
      /\ table' = [table EXCEPT ![id] = [serial |-> rowsBorn + 1, text |-> text, sites |-> {},
                                         mustChange |-> mountedPage = "users"]]
  BY DEF InsertRow
<1>6. table[id] = NoRow
  BY <1>4, <1>5 DEF RowsOf
<1> HIDE DEF id
<1> QED
  BY <1>5, <1>6

\* A copy names the serial of a row that lives only under the id of that row.
PlacedRow(id, serial) ==
  /\ serial \in 0..rowsBorn
  /\ \A i \in RowIds : table[i] # NoRow /\ table[i].serial = serial => i = id
PlacedRowCopy(row) == PlacedRow(row.id, row.serial)
PlacedTable(t) == \A id \in RowIds : t[id] # NoRow => PlacedRow(id, t[id].serial)

\* the changes of the table: all stay typed, only the row named is touched,
\* and no placed copy is displaced
TableStays(id) ==
  /\ table' \in RowTable /\ rowsBorn' \in 0..MaxRows
  /\ PlacedTable(table) =>
       /\ \A i, serial : PlacedRow(i, serial) => PlacedRow(i, serial)'
       /\ PlacedTable(table)'
       /\ \A i \in RowIds : RowHit(i) => i = id

\* a new row, or a change of a row, leaves copies of living rows right
LEMMA InsertStays ==
  ASSUME RecordsInv, NEW text \in RowText, InsertRow(text)
  PROVE  TableStays(0)
<1>0. /\ table \in [RowIds -> Row \cup {NoRow}] /\ rowsBorn \in 0..MaxRows
      /\ \A i \in RowIds : table[i] # NoRow => table[i].serial \in Nat
  <2>1. table \in [RowIds -> Row \cup {NoRow}] /\ rowsBorn \in 0..MaxRows
    BY DEF RecordsInv, RecordsTyped, RowTable
  <2>2. \A r \in Row : r.serial \in Nat
    BY RowNulls DEF Row
  <2> QED
    BY <2>1, <2>2
<1>1. PICK id \in RowIds : 
           /\ table[id] = NoRow
           /\ table' = [table EXCEPT ![id] = [serial |-> rowsBorn + 1, text |-> text, sites |-> {},
                                              mustChange |-> mountedPage = "users"]]
  BY <1>0, InsertedRow DEF RowTable
<1>2. rowsBorn' = rowsBorn + 1 /\ rowsBorn < MaxRows
  BY DEF InsertRow
<1>3. rowsBorn' \in 0..MaxRows /\ rowsBorn + 1 \in 1..MaxRows
  BY <1>0, <1>2, RowNulls
<1>4. [serial |-> rowsBorn + 1, text |-> text, sites |-> {}, mustChange |-> mountedPage = "users"] \in Row
  BY <1>3 DEF Row
<1>5. table' \in RowTable
  BY <1>0, <1>1, <1>4 DEF RowTable
<1>6. table'[id].serial = rowsBorn + 1 /\ \A i \in RowIds \ {id} : table'[i] = table[i]
  BY <1>0, <1>1
<1>7. ASSUME PlacedTable(table)
      PROVE  /\ \A i, serial : PlacedRow(i, serial) => PlacedRow(i, serial)'
             /\ PlacedTable(table)'
             /\ \A i \in RowIds : RowHit(i) => i = 0
  <2>1. ASSUME NEW i, NEW serial, PlacedRow(i, serial) PROVE PlacedRow(i, serial)'
    BY <1>0, <1>2, <1>6, <2>1 DEF PlacedRow
  <2>2. PlacedTable(table)'
    BY <1>0, <1>2, <1>3, <1>6, <1>7 DEF PlacedTable, PlacedRow
  <2>3. \A i \in RowIds : ~RowHit(i)
    BY <1>1, <1>6 DEF RowHit
  <2> QED
    BY <2>1, <2>2, <2>3
<1> QED
  BY <1>3, <1>5, <1>7 DEF TableStays

LEMMA ChangeStays ==
  ASSUME RecordsInv, NEW id \in RowIds \cup {0}, NEW row, Change(id, row),
         id \in RowIds => row = NoRow \/ (row \in Row /\ row.serial = table[id].serial)
  PROVE  TableStays(id)
<1>0. /\ table \in [RowIds -> Row \cup {NoRow}] /\ rowsBorn \in 0..MaxRows /\ 0 \notin RowIds
  BY RowNulls DEF RecordsInv, RecordsTyped, RowTable
<1>1. table' = [table EXCEPT ![id] = row] /\ rowsBorn' = rowsBorn /\ table[id] # NoRow
  BY DEF Change
<1>2. table' \in RowTable
  BY <1>0, <1>1 DEF RowTable
<1>3. /\ \A i \in RowIds : i # id => table'[i] = table[i]
      /\ id \in RowIds => table'[id] = row
  BY <1>0, <1>1
<1>4. ASSUME PlacedTable(table)
      PROVE  /\ \A i, serial : PlacedRow(i, serial) => PlacedRow(i, serial)'
             /\ PlacedTable(table)'
             /\ \A i \in RowIds : RowHit(i) => i = id
  <2>1. ASSUME NEW i, NEW serial, PlacedRow(i, serial) PROVE PlacedRow(i, serial)'
    BY <1>0, <1>1, <1>3, <2>1 DEF PlacedRow
  <2>2. PlacedTable(table)'
    BY <1>0, <1>1, <1>3, <1>4 DEF PlacedTable, PlacedRow
  <2>3. \A i \in RowIds : RowHit(i) => i = id
    BY <1>3 DEF RowHit
  <2> QED
    BY <2>1, <2>2, <2>3
<1> QED
  BY <1>0, <1>1, <1>2, <1>4 DEF TableStays

LEMMA EffectStays ==
  ASSUME RecordsInv, NEW op, NEW row \in RowCopy, NEW sent \in Sent, TableEffect(op, row, sent)
  PROVE  TableStays(row.id) \/ TableStays(0) \/ UNCHANGED <<table, rowsBorn>>
<1>0. row.id \in RowIds \cup {0} /\ sent.text \in RowText /\ sent.sites \subseteq Sites
  BY DEF RowCopy, Sent
<1>1. /\ row.id \in RowIds /\ table[row.id] # NoRow => table[row.id] \in Row
      /\ Retired \in RowText
  BY DEF RecordsInv, RecordsTyped, RowTable, RowText
<1>2. ASSUME NEW new, Change(row.id, new),
             table[row.id] \in Row => new = NoRow \/ (new \in Row /\ new.serial = table[row.id].serial)
      PROVE  TableStays(row.id)
  <2>1. table[row.id] # NoRow
    BY <1>2 DEF Change
  <2> QED
    BY <1>0, <1>1, <1>2, <2>1, ChangeStays
<1>3. /\ table[row.id] \in Row => [table[row.id] EXCEPT !.text = sent.text] \in Row
                                  /\ [table[row.id] EXCEPT !.text = sent.text].serial = table[row.id].serial
      /\ table[row.id] \in Row => [table[row.id] EXCEPT !.text = Retired] \in Row
                                  /\ [table[row.id] EXCEPT !.text = Retired].serial = table[row.id].serial
      /\ table[row.id] \in Row => [table[row.id] EXCEPT !.mustChange = TRUE] \in Row
                                  /\ [table[row.id] EXCEPT !.mustChange = TRUE].serial = table[row.id].serial
      /\ table[row.id] \in Row => [table[row.id] EXCEPT !.sites = sent.sites] \in Row
                                  /\ [table[row.id] EXCEPT !.sites = sent.sites].serial = table[row.id].serial
  BY <1>0, <1>1 DEF Row
<1>4. \/ InsertRow(sent.text)
      \/ UNCHANGED <<table, rowsBorn>>
      \/ Change(row.id, [table[row.id] EXCEPT !.text = sent.text])
      \/ Change(row.id, NoRow)
      \/ Change(row.id, [table[row.id] EXCEPT !.text = Retired])
      \/ Change(row.id, [table[row.id] EXCEPT !.mustChange = TRUE])
      \/ Change(row.id, [table[row.id] EXCEPT !.sites = sent.sites])
  BY DEF TableEffect
<1>5. CASE InsertRow(sent.text)
  BY <1>0, <1>5, InsertStays
<1> QED
  BY <1>2, <1>3, <1>4, <1>5

\* a request that starts
LEMMA RequestStarts ==
  ASSUME RecordsInv, NEW op \in RequestOps, NEW row \in RowCopy, NEW sent \in Sent,
         NEW stage \in {"call", "list"}, StartRequest(op, row, sent, stage),
         op = "get" => row.id \in RowIds
  PROVE  RecordsInv'
<1>1. handler \in [Handlers -> HandlerType] /\ steps \in 0..MaxSteps
  BY DEF RecordsInv, RecordsTyped
<1>2. [op |-> op, row |-> row, sent |-> sent, stage |-> stage, rows |-> EmptyTable] \in HandlerType
  BY RowNulls DEF HandlerType
<1>3. handler' \in [Handlers -> HandlerType]
  BY <1>1, <1>2 DEF StartRequest
<1>4. steps' \in 0..MaxSteps
  BY <1>1, RowNulls DEF StartRequest
<1>5. FetchesNamed'
  BY <1>1, <1>2 DEF StartRequest, FetchesNamed, RecordsInv, RecordsTyped
<1> QED
  BY <1>3, <1>4, <1>5 DEF RecordsInv, RecordsTyped, StartRequest, shown, listings

LEMMA RecordsTypeStep ==
  ASSUME RecordsInv, [RecordsNext]_recordVars
  PROVE  RecordsInv'
<1> USE DEF shown, listings
<1>0. /\ mountedPage \in Pages /\ table \in RowTable /\ listed \in RowTable
      /\ rowsBorn \in 0..MaxRows /\ steps \in 0..MaxSteps
      /\ failed \in BOOLEAN /\ lastShown \in BOOLEAN /\ unlisted \in BOOLEAN
      /\ editing \in FormDialog /\ form \in FormText /\ asked \in Question
      /\ handler \in [Handlers -> HandlerType]
      /\ lastListing \in Handlers \cup {"none"}
      /\ editing.open => form.id = editing.row.id
      /\ (asked = Nothing \/ asked.op # "none")
  BY DEF RecordsInv, RecordsTyped
<1>a. SUFFICES /\ mountedPage' \in Pages /\ table' \in RowTable /\ listed' \in RowTable
               /\ rowsBorn' \in 0..MaxRows /\ steps' \in 0..MaxSteps
               /\ failed' \in BOOLEAN /\ lastShown' \in BOOLEAN /\ unlisted' \in BOOLEAN
               /\ editing' \in FormDialog /\ form' \in FormText /\ asked' \in Question
               /\ handler' \in [Handlers -> HandlerType]
               /\ lastListing' \in Handlers \cup {"none"}
               /\ editing'.open => form'.id = editing'.row.id
               /\ (asked' = Nothing \/ asked'.op # "none")
               /\ FetchesNamed'
  BY DEF RecordsInv, RecordsTyped
<1>f. UNCHANGED handler => FetchesNamed'
  BY DEF RecordsInv, RecordsTyped, FetchesNamed
<1>1. CASE Elsewhere
  <2>1. table' \in RowTable /\ rowsBorn' \in 0..MaxRows
    <3>1. CASE InsertRow(Stored)
      BY <3>1, InsertStays DEF TableStays, RowText
    <3>2. CASE \E id \in RowIds : Change(id, NoRow)
      BY <3>2, ChangeStays DEF TableStays
    <3> QED
      BY <1>1, <3>1, <3>2 DEF Elsewhere
  <2>2. steps' \in 0..MaxSteps
    BY <1>0, <1>1, RowNulls DEF Elsewhere
  <2> QED
    BY <1>0, <1>f, <1>1, <2>1, <2>2 DEF Elsewhere
<1>2. CASE OpenNew
  BY <1>0, <1>f, <1>2, RowNulls DEF OpenNew, FormDialog, Shut, Empty, NoRowCopy
<1>3. CASE OpenEdit
  <2>1. PICK id \in RowsOf(listed) :
          /\ editing' = [open |-> TRUE, row |-> RowCopyOf(listed, id)]
          /\ form' = [id |-> id, text |-> listed[id].text]
    BY <1>3 DEF OpenEdit
  <2>2. id \in RowIds /\ listed[id].text \in RowText /\ RowCopyOf(listed, id) \in RowCopy
        /\ RowCopyOf(listed, id).id = id
    BY <1>0, RowCopies DEF Row
  <2>3. editing' \in FormDialog /\ form' \in FormText /\ form'.id = editing'.row.id
    BY <2>1, <2>2 DEF FormDialog, FormText
  <2> QED
    BY <1>0, <1>f, <1>3, <2>3 DEF OpenEdit
<1>4. CASE TypeField
  <2>1. form' = [form EXCEPT !.text = TypedRow] /\ TypedRow \in RowText
    BY <1>4 DEF TypeField, RowText
  <2>2. form' \in FormText /\ form'.id = form.id
    BY <1>0, <2>1 DEF FormText
  <2> QED
    BY <1>0, <1>f, <1>4, <2>2 DEF TypeField
<1>5. CASE CloseForm
  BY <1>0, <1>f, <1>5, RowNulls DEF CloseForm, Shut
<1>6. CASE \E ops \in SUBSET {"delete", "deactivate", "reset", "assign"} : Ask(ops)
  <2>1. PICK op \in {"delete", "deactivate", "reset", "assign"}, id \in RowsOf(listed) :
          asked' = [op |-> op, row |-> RowCopyOf(listed, id), sites |-> IF op = "assign" THEN listed[id].sites ELSE {}]
    BY <1>6 DEF Ask
  <2>2. listed[id].sites \subseteq Sites /\ RowCopyOf(listed, id) \in RowCopy
    BY <1>0, RowCopies DEF Row
  <2>3. asked' \in Question /\ asked'.op # "none"
    BY <2>1, <2>2 DEF Question
  <2> QED
    BY <1>0, <1>f, <1>6, <2>3 DEF Ask
<1>7. CASE ToggleSite
  <2>1. PICK s \in Sites : asked' = [asked EXCEPT !.sites = IF s \in @ THEN @ \ {s} ELSE @ \cup {s}]
    BY <1>7 DEF ToggleSite
  <2>2. asked.sites \subseteq Sites
    BY <1>0 DEF Question
  <2>3. asked' \in Question /\ asked'.op = asked.op
    BY <1>0, <2>1, <2>2 DEF Question
  <2> QED
    BY <1>0, <1>f, <1>7, <2>3 DEF ToggleSite
<1>8. CASE Dismiss
  BY <1>0, <1>f, <1>8, RowNulls DEF Dismiss
<1>9. CASE SaveRow
  <2> DEFINE row == [editing.row EXCEPT !.id = form.id]
             sent == [NoData EXCEPT !.text = form.text]
  <2>1. row \in RowCopy /\ sent \in Sent
    BY <1>0, RowNulls DEF FormDialog, FormText, RowCopy, Sent
  <2>2. StartRequest("save", row, sent, "call")
    BY <1>9 DEF SaveRow
  <2> QED
    BY <2>1, <2>2, RequestStarts DEF RequestOps, RecordsInv, RecordsTyped
<1>10. CASE Confirm
  <2> DEFINE sent == [NoData EXCEPT !.sites = asked.sites]
  <2>1. asked.row \in RowCopy /\ asked.op \in RequestOps /\ asked.op # "get" /\ sent \in Sent
    BY <1>0, <1>10, RowNulls DEF Confirm, Question, RequestOps, Sent
  <2>2. StartRequest(asked.op, asked.row, sent, "call")
    BY <1>10 DEF Confirm
  <2> HIDE DEF sent
  <2>3. RecordsInv'
    BY <2>1, <2>2, RequestStarts
  <2> QED
    BY <2>3 DEF RecordsInv, RecordsTyped
<1>11. CASE Refresh
  BY <1>11, RowNulls, RequestStarts DEF Refresh, RecordsInv, RecordsTyped, RequestOps
<1>12. CASE FetchEdit
  <2>1. PICK id \in RowsOf(listed) : StartRequest("get", RowCopyOf(listed, id), NoData, "call")
    BY <1>12 DEF FetchEdit
  <2> QED
    BY <1>0, <2>1, RowCopies, RowNulls, RequestStarts DEF RecordsInv, RecordsTyped, RequestOps
<1>g. ASSUME NEW c \in Handlers, NEW h \in HandlerType, handler' = [handler EXCEPT ![c] = h],
             h.op = "get" => h.row.id \in RowIds
      PROVE  handler' \in [Handlers -> HandlerType] /\ FetchesNamed'
  BY <1>0, <1>g DEF FetchesNamed, RecordsInv, RecordsTyped
<1>13. ASSUME NEW c \in Handlers, Serve(c)
       PROVE  /\ table' \in RowTable /\ rowsBorn' \in 0..MaxRows
              /\ handler' \in [Handlers -> HandlerType] /\ FetchesNamed'
  <2>1. handler[c] \in HandlerType /\ (handler[c].op = "get" => handler[c].row.id \in RowIds)
    BY <1>0 DEF RecordsInv, RecordsTyped, FetchesNamed
  <2>2. CASE /\ handler[c].op = "get" /\ table[handler[c].row.id] # NoRow
             /\ handler' = [handler EXCEPT ![c].stage = "done", ![c].sent.text = table[handler[c].row.id].text]
             /\ UNCHANGED <<table, rowsBorn>>
    <3>1. table[handler[c].row.id].text \in RowText /\ handler[c].sent \in Sent
      BY <1>0, <2>1, <2>2 DEF RowTable, Row, HandlerType
    <3> DEFINE h == [handler[c] EXCEPT !.stage = "done", !.sent.text = table[handler[c].row.id].text]
    <3>2. h \in HandlerType /\ h.row = handler[c].row
      BY <2>1, <3>1 DEF HandlerType, Sent
    <3>3. handler' = [handler EXCEPT ![c] = h]
      BY <1>0, <2>2
    <3> HIDE DEF h
    <3> QED
      BY <1>0, <1>g, <2>1, <2>2, <3>2, <3>3
  <2>3. CASE /\ TableEffect(handler[c].op, handler[c].row, handler[c].sent)
             /\ handler' = [handler EXCEPT ![c].stage = "done"]
    <3> DEFINE h == [handler[c] EXCEPT !.stage = "done"]
    <3>1. handler[c].row \in RowCopy /\ handler[c].sent \in Sent
          /\ h \in HandlerType /\ h.row = handler[c].row /\ h.op = handler[c].op
      BY <2>1 DEF HandlerType
    <3>2. table' \in RowTable /\ rowsBorn' \in 0..MaxRows
      BY <1>0, <2>3, <3>1, EffectStays DEF TableStays
    <3>3. handler' = [handler EXCEPT ![c] = h]
      BY <1>0, <2>3
    <3> HIDE DEF h
    <3> QED
      BY <1>g, <2>1, <3>1, <3>2, <3>3
  <2> QED
    BY <1>13, <2>2, <2>3 DEF Serve
<1>14. ASSUME NEW c \in Handlers, RequestFails(c) \/ Show(c) \/ ListingFails(c) \/ DashboardPage(c) \/ OpenFetched(c)
       PROVE  handler' \in [Handlers -> HandlerType] /\ FetchesNamed'
  <2>1. IdleHandler \in HandlerType /\ IdleHandler.op # "get"
    BY RowNulls DEF IdleHandler
  <2>2. handler' = [handler EXCEPT ![c] = IdleHandler]
    BY <1>14 DEF RequestFails, Show, ListingFails, DashboardPage, OpenFetched
  <2> QED
    BY <1>g, <2>1, <2>2
<1>15. ASSUME NEW c \in Handlers, Close(c) \/ ReadTable(c)
       PROVE  handler' \in [Handlers -> HandlerType] /\ FetchesNamed'
  <2>1. handler[c] \in HandlerType /\ (handler[c].op = "get" => handler[c].row.id \in RowIds)
    BY <1>0 DEF RecordsInv, RecordsTyped, FetchesNamed
  <2>2. PICK h \in HandlerType : /\ handler' = [handler EXCEPT ![c] = h]
                                 /\ h.op = handler[c].op /\ h.row = handler[c].row
    <3>1. CASE Close(c)
      <4> DEFINE h == [handler[c] EXCEPT !.stage = "list"]
      <4>1. h \in HandlerType /\ h.op = handler[c].op /\ h.row = handler[c].row
        BY <2>1 DEF HandlerType
      <4>2. handler' = [handler EXCEPT ![c] = h]
        BY <3>1 DEF Close
      <4> QED
        BY <4>1, <4>2
    <3>2. CASE ReadTable(c)
      <4> DEFINE h == [handler[c] EXCEPT !.stage = "rows", !.rows = table]
      <4>1. h \in HandlerType /\ h.op = handler[c].op /\ h.row = handler[c].row
        BY <1>0, <2>1 DEF HandlerType
      <4>2. handler' = [handler EXCEPT ![c] = h]
        BY <3>2 DEF ReadTable
      <4> QED
        BY <4>1, <4>2
    <3> QED
      BY <1>15, <3>1, <3>2
  <2> QED
    BY <1>g, <2>1, <2>2
<1>16. ASSUME NEW c \in Handlers, Follows(c) PROVE RecordsInv'
  <2>1. handler[c].row \in RowCopy /\ handler[c].sent \in Sent /\ handler[c].rows \in RowTable
    BY <1>0 DEF HandlerType
  <2>2. CASE Serve(c)
    BY <1>0, <1>13, <2>2 DEF RecordsInv, RecordsTyped, Serve
  <2>3. CASE RequestFails(c)
    BY <1>0, <1>14, <2>3 DEF RecordsInv, RecordsTyped, RequestFails
  <2>4. CASE Close(c)
    <3>1. /\ editing' \in FormDialog /\ form' \in FormText /\ asked' \in Question
          /\ editing'.open => form'.id = editing'.row.id
          /\ asked' = Nothing \/ asked'.op # "none"
      BY <1>0, <2>4, RowNulls DEF Close, Shut
    <3> QED
      BY <1>0, <1>15, <2>4, <3>1 DEF RecordsInv, RecordsTyped, Close
  <2>5. CASE OpenFetched(c)
    <3>1. editing' \in FormDialog /\ form' \in FormText /\ form'.id = editing'.row.id
      BY <2>1, <2>5 DEF OpenFetched, FormDialog, FormText, RowCopy, Sent
    <3> QED
      BY <1>0, <1>14, <2>5, <3>1 DEF RecordsInv, RecordsTyped, OpenFetched
  <2>6. CASE ReadTable(c)
    BY <1>0, <1>15, <2>6 DEF RecordsInv, RecordsTyped, ReadTable
  <2>7. CASE Show(c)
    <3>1. lastShown' \in BOOLEAN
      BY <2>7 DEF Show
    <3> QED
      BY <1>0, <1>14, <2>1, <2>7, <3>1 DEF RecordsInv, RecordsTyped, Show
  <2>8. CASE ListingFails(c)
    <3>1. unlisted' \in BOOLEAN
      BY <1>0, <2>8 DEF ListingFails
    <3> QED
      BY <1>0, <1>14, <2>8, <3>1 DEF RecordsInv, RecordsTyped, ListingFails
  <2>9. CASE DashboardPage(c)
    BY <1>0, <1>14, <2>9 DEF RecordsInv, RecordsTyped, DashboardPage
  <2> QED
    BY <1>16, <2>2, <2>3, <2>4, <2>5, <2>6, <2>7, <2>8, <2>9 DEF Follows
<1>17. CASE UNCHANGED recordVars
  BY <1>0, <1>f, <1>17 DEF recordVars
<1>18. CASE SitesPage \/ AssetsPage \/ NetworkPage \/ ChangeLogPage \/ UserManagementPage \/ AuditPage
  <2>1. \/ OpenNew \/ TypeField \/ CloseForm \/ Dismiss \/ Confirm \/ OpenEdit \/ SaveRow \/ ToggleSite
        \/ FetchEdit \/ Refresh
        \/ \E ops \in SUBSET {"delete", "deactivate", "reset", "assign"} : Ask(ops)
    BY <1>18 DEF SitesPage, AssetsPage, NetworkPage, ChangeLogPage, UserManagementPage, AuditPage, Dialog, SaveNamedRow
  <2> QED
    BY <2>1, <1>2, <1>3, <1>4, <1>5, <1>6, <1>7, <1>8, <1>9, <1>10, <1>11, <1>12
<1> QED
  BY <1>1, <1>16, <1>17, <1>18 DEF RecordsNext, RecordsInv, RecordsTyped

LEMMA RecordsInitInv == RecordsInit => RecordsInv
<1> SUFFICES ASSUME RecordsInit PROVE RecordsInv
  OBVIOUS
<1>1. rowsBorn \in {1, 2} /\ rowsBorn \in 0..MaxRows /\ steps \in 0..MaxSteps
  BY RowNulls DEF RecordsInit
<1>2. table \in RowTable
  <2>1. ASSUME NEW id \in RowIds, ~(id > rowsBorn)
        PROVE  [serial |-> id, text |-> Stored, sites |-> {}, mustChange |-> FALSE] \in Row
    <3>1. id \in 1..MaxRows
      BY <1>1, <2>1, RowNulls
    <3> QED
      BY <3>1 DEF Row, RowText
  <2> QED
    BY <2>1 DEF RecordsInit, RowTable
<1>3. handler \in [Handlers -> HandlerType] /\ FetchesNamed
  <2>1. PICK c \in Handlers : 
          handler = [d \in Handlers |-> IF d = c THEN [IdleHandler EXCEPT !.op = "load", !.stage = "list"]
                                     ELSE IdleHandler]
    BY DEF RecordsInit
  <2>2. IdleHandler \in HandlerType /\ [IdleHandler EXCEPT !.op = "load", !.stage = "list"] \in HandlerType
        /\ IdleHandler.op = "idle" /\ [IdleHandler EXCEPT !.op = "load", !.stage = "list"].op = "load"
    BY RowNulls DEF HandlerType, RequestOps, IdleHandler
  <2> QED
    BY <2>1, <2>2 DEF FetchesNamed
<1>4. /\ mountedPage \in Pages /\ listed \in RowTable /\ failed \in BOOLEAN /\ lastShown \in BOOLEAN
      /\ unlisted \in BOOLEAN /\ editing \in FormDialog /\ form \in FormText /\ asked \in Question
      /\ lastListing \in Handlers \cup {"none"} /\ ~editing.open /\ asked = Nothing
  BY RowNulls DEF RecordsInit, Shut
<1> QED
  BY <1>1, <1>2, <1>3, <1>4 DEF RecordsInv, RecordsTyped

-----------------------------------------------------------------------------
(* A listing is owed while a change of the page's own has not been read.   *)
Listing(c) == handler[c].stage = "list" \/ (handler[c].stage = "done" /\ handler[c].op # "get")
RecordsPending == \E c \in Handlers : Listing(c)
RecordsSettled ==
  /\ lastShown => listed = table
  /\ \A c \in Handlers : lastListing = c /\ handler[c].stage = "rows" => handler[c].rows = table
\* the dashboard lists once, and nothing else ever runs there
LoadsOnce ==
  mountedPage = "dashboard" =>
    /\ \A c, d \in Handlers : handler[c] # IdleHandler /\ handler[d] # IdleHandler => c = d
    /\ \A c \in Handlers : /\ handler[c].stage \in {"end", "list", "rows"}
                           /\ handler[c].stage = "list" => unlisted
RecordsSettleInv == (unlisted \/ RecordsPending \/ RecordsSettled) /\ LoadsOnce

\* the rows listed are the table's, or a listing is still owed
LEMMA RecordsSettleStep ==
  ASSUME RecordsInv, RecordsSettleInv, [RecordsNext]_recordVars
  PROVE  RecordsSettleInv'
<1> USE DEF shown, listings
<1>0. handler \in [Handlers -> HandlerType] /\ IdleHandler.stage = "end" /\ IdleHandler.op = "idle"
  BY DEF RecordsInv, RecordsTyped, IdleHandler
<1>a. ASSUME UNCHANGED <<mountedPage, table, listed, handler, listings>> PROVE RecordsSettleInv'
  <2>1. RecordsPending => RecordsPending'
    BY <1>a DEF RecordsPending, Listing
  <2>2. RecordsSettled => RecordsSettled'
    BY <1>a DEF RecordsSettled
  <2>3. LoadsOnce'
    BY <1>a DEF RecordsSettleInv, LoadsOnce
  <2> QED
    BY <1>a, <2>1, <2>2, <2>3 DEF RecordsSettleInv
<1>b. ASSUME NEW op, NEW row, NEW sent, NEW stage \in {"call", "list"}, StartRequest(op, row, sent, stage),
             mountedPage # "dashboard"
      PROVE  RecordsSettleInv'
  <2>1. PICK c \in Handlers :
          /\ handler[c] = IdleHandler
          /\ handler' = [handler EXCEPT ![c] = [op |-> op, row |-> row, sent |-> sent, stage |-> stage,
                                                rows |-> EmptyTable]]
    BY <1>b DEF StartRequest
  <2>2. /\ handler'[c].stage \in {"call", "list"}
        /\ \A d \in Handlers \ {c} : handler'[d] = handler[d]
    BY <1>0, <2>1
  <2>3. RecordsPending => RecordsPending'
    BY <1>0, <2>1, <2>2 DEF RecordsPending, Listing
  <2>4. RecordsSettled => RecordsSettled'
    BY <1>b, <2>2 DEF RecordsSettled, StartRequest
  <2>5. LoadsOnce'
    BY <1>b DEF LoadsOnce, StartRequest
  <2> QED
    BY <1>b, <2>3, <2>4, <2>5 DEF RecordsSettleInv, StartRequest
\* a chain that ends without owing a listing
<1>c. ASSUME NEW c \in Handlers, handler' = [handler EXCEPT ![c] = IdleHandler], UNCHANGED <<mountedPage, table>>,
             UNCHANGED unlisted \/ unlisted', UNCHANGED lastListing
      PROVE  /\ LoadsOnce'
             /\ ~Listing(c) /\ RecordsPending => RecordsPending'
             /\ RecordsSettled /\ UNCHANGED <<listed, lastShown>> => RecordsSettled'
  <2>1. handler'[c] = IdleHandler /\ \A d \in Handlers \ {c} : handler'[d] = handler[d]
    BY <1>0, <1>c
  <2>2. LoadsOnce'
    BY <1>0, <1>c, <2>1 DEF RecordsSettleInv, LoadsOnce
  <2>3. ~Listing(c) /\ RecordsPending => RecordsPending'
    BY <2>1 DEF RecordsPending, Listing
  <2>4. RecordsSettled /\ UNCHANGED <<listed, lastShown>> => RecordsSettled'
    BY <1>0, <1>c, <2>1 DEF RecordsSettled
  <2> QED
    BY <2>2, <2>3, <2>4
<1>1. CASE Elsewhere
  <2>1. LoadsOnce'
    BY <1>1 DEF RecordsSettleInv, LoadsOnce, Elsewhere
  <2> QED
    BY <1>1, <2>1 DEF RecordsSettleInv, Elsewhere
<1>2. CASE SitesPage \/ AssetsPage \/ NetworkPage \/ ChangeLogPage \/ UserManagementPage \/ AuditPage
  <2>1. mountedPage # "dashboard"
    BY <1>2 DEF SitesPage, AssetsPage, NetworkPage, ChangeLogPage, UserManagementPage, AuditPage
  <2>2. \/ OpenNew \/ TypeField \/ CloseForm \/ Dismiss \/ Confirm \/ OpenEdit \/ SaveRow \/ ToggleSite
        \/ FetchEdit \/ Refresh \/ \E ops : Ask(ops)
    BY <1>2 DEF SitesPage, AssetsPage, NetworkPage, ChangeLogPage, UserManagementPage, AuditPage, Dialog, SaveNamedRow
  <2>3. CASE OpenNew \/ TypeField \/ CloseForm \/ Dismiss \/ OpenEdit \/ ToggleSite \/ \E ops : Ask(ops)
    <3>1. UNCHANGED <<mountedPage, table, listed, handler, listings>>
      BY <2>3 DEF OpenNew, TypeField, CloseForm, Dismiss, OpenEdit, ToggleSite, Ask
    <3> QED
      BY <1>a, <3>1
  <2>4. CASE SaveRow \/ Confirm \/ FetchEdit \/ Refresh
    <3>1. \E op, row, sent, stage : stage \in {"call", "list"} /\ StartRequest(op, row, sent, stage)
      <4>1. CASE SaveRow
        BY <4>1 DEF SaveRow
      <4>2. CASE Confirm
        BY <4>2 DEF Confirm
      <4>3. CASE FetchEdit
        BY <4>3 DEF FetchEdit
      <4>4. CASE Refresh
        BY <4>4 DEF Refresh
      <4> QED
        BY <2>4, <4>1, <4>2, <4>3, <4>4
    <3> QED
      BY <1>b, <2>1, <3>1
  <2> QED
    BY <2>2, <2>3, <2>4
<1>3. ASSUME NEW c \in Handlers, Serve(c) PROVE RecordsSettleInv'
  <2>1. /\ handler[c].stage = "call" /\ handler'[c].stage = "done" /\ handler'[c].op = handler[c].op
        /\ \A d \in Handlers \ {c} : handler'[d] = handler[d]
    BY <1>0, <1>3 DEF Serve, HandlerType
  <2>2. mountedPage' # "dashboard"
    BY <1>3, <2>1 DEF RecordsSettleInv, LoadsOnce, Serve
  <2>3. CASE handler[c].op = "get"
    <3>1. UNCHANGED <<table, listed, listings>>
      BY <1>3, <2>3 DEF Serve, TableEffect
    <3>2. RecordsPending => RecordsPending'
      BY <2>1 DEF RecordsPending, Listing
    <3>3. RecordsSettled => RecordsSettled'
      BY <2>1, <3>1 DEF RecordsSettled
    <3> QED
      BY <2>2, <3>1, <3>2, <3>3 DEF RecordsSettleInv, LoadsOnce
  <2>4. CASE handler[c].op # "get"
    <3>1. RecordsPending'
      BY <2>1, <2>4 DEF RecordsPending, Listing
    <3> QED
      BY <2>2, <3>1 DEF RecordsSettleInv, LoadsOnce
  <2> QED
    BY <2>3, <2>4
<1>4. ASSUME NEW c \in Handlers, RequestFails(c) PROVE RecordsSettleInv'
  <2>1. ~Listing(c) \/ unlisted'
    BY <1>4 DEF RequestFails, Listing
  <2>2. UNCHANGED unlisted \/ unlisted'
    <3>1. unlisted \in BOOLEAN
      BY DEF RecordsInv, RecordsTyped
    <3> QED
      BY <1>4, <3>1 DEF RequestFails
  <2> QED
    BY <1>4, <1>c, <2>1, <2>2 DEF RecordsSettleInv, RequestFails
<1>5. ASSUME NEW c \in Handlers, Close(c) PROVE RecordsSettleInv'
  <2>1. handler[c].stage = "done" /\ handler'[c].stage = "list"
    BY <1>0, <1>5 DEF Close, HandlerType
  <2>2. mountedPage' # "dashboard"
    BY <1>5, <2>1 DEF RecordsSettleInv, LoadsOnce, Close
  <2>3. RecordsPending'
    BY <2>1 DEF RecordsPending, Listing
  <2> QED
    BY <2>2, <2>3 DEF RecordsSettleInv, LoadsOnce
<1>6. ASSUME NEW c \in Handlers, OpenFetched(c) PROVE RecordsSettleInv'
  <2>1. ~Listing(c)
    BY <1>6 DEF OpenFetched, Listing
  <2> QED
    BY <1>6, <1>c, <2>1 DEF RecordsSettleInv, OpenFetched
<1>7. ASSUME NEW c \in Handlers, ReadTable(c) PROVE RecordsSettleInv'
  <2>1. /\ handler[c].stage = "list" /\ handler'[c].stage = "rows" /\ handler'[c].rows = table
        /\ \A d \in Handlers \ {c} : handler'[d] = handler[d]
    BY <1>0, <1>7 DEF ReadTable, HandlerType
  <2>2. RecordsSettled'
    BY <1>7, <2>1 DEF RecordsSettled, ReadTable
  <2>3. LoadsOnce'
    <3>1. SUFFICES ASSUME mountedPage = "dashboard"
                   PROVE  \A d \in Handlers : handler'[d] # IdleHandler => d = c
      BY <1>0, <1>7, <2>1 DEF RecordsSettleInv, LoadsOnce, ReadTable
    <3>2. handler[c] # IdleHandler
      BY <1>0, <2>1
    <3> QED
      BY <2>1, <3>1, <3>2 DEF RecordsSettleInv, LoadsOnce
  <2> QED
    BY <2>2, <2>3 DEF RecordsSettleInv
<1>8. ASSUME NEW c \in Handlers, Show(c) PROVE RecordsSettleInv'
  <2>1. ~Listing(c) /\ handler[c].stage = "rows"
    BY <1>8 DEF Show, Listing
  <2>2. LoadsOnce' /\ (RecordsPending => RecordsPending')
    BY <1>8, <1>c, <2>1 DEF Show
  <2>3. RecordsSettled => RecordsSettled'
    BY <1>0, <1>8, <2>1 DEF RecordsSettled, Show
  <2> QED
    BY <1>8, <2>2, <2>3 DEF RecordsSettleInv, Show
<1>9. ASSUME NEW c \in Handlers, ListingFails(c) PROVE RecordsSettleInv'
  <2>1. ~Listing(c) \/ unlisted'
    BY <1>9 DEF ListingFails, Listing
  <2>2. UNCHANGED unlisted \/ unlisted'
    <3>1. unlisted \in BOOLEAN
      BY DEF RecordsInv, RecordsTyped
    <3> QED
      BY <1>9, <3>1 DEF ListingFails
  <2> QED
    BY <1>9, <1>c, <2>1, <2>2 DEF RecordsSettleInv, ListingFails
<1>10. ASSUME NEW c \in Handlers, DashboardPage(c) PROVE RecordsSettleInv'
  <2>1. ~Listing(c) \/ unlisted'
    BY <1>10 DEF DashboardPage, Listing, RecordsSettleInv, LoadsOnce
  <2> QED
    BY <1>10, <1>c, <2>1 DEF RecordsSettleInv, DashboardPage
<1>11. CASE UNCHANGED recordVars
  BY <1>a, <1>11 DEF recordVars
<1> QED
  BY <1>1, <1>2, <1>3, <1>4, <1>5, <1>6, <1>7, <1>8, <1>9, <1>10, <1>11 DEF RecordsNext, Follows

-----------------------------------------------------------------------------
(* A row never changes its id: a copy that names the serial of a living    *)
(* row names the id this row has, though the id may hold another by now.   *)
PlacedRows ==
  /\ PlacedTable(table) /\ PlacedTable(listed)
  /\ PlacedRowCopy(editing.row) /\ PlacedRowCopy(asked.row)
  /\ \A c \in Handlers : PlacedRowCopy(handler[c].row) /\ PlacedTable(handler[c].rows)

\* whoever changes the table, the copies that name a living row stay right,
\* and a handler changes the row its copy names
LEMMA TableStepped ==
  ASSUME RecordsInv, PlacedTable(table), [RecordsNext]_recordVars
  PROVE  /\ \A i, serial : PlacedRow(i, serial) => PlacedRow(i, serial)'
         /\ PlacedTable(table)'
         /\ \A c \in Handlers, i \in RowIds : handler'[c] # handler[c] /\ RowHit(i) => handler[c].row.id = i
<1> USE DEF shown, listings
<1> DEFINE Goal == /\ \A i, serial : PlacedRow(i, serial) => PlacedRow(i, serial)'
                   /\ PlacedTable(table)'
                   /\ \A c \in Handlers, i \in RowIds :
                        handler'[c] # handler[c] /\ RowHit(i) => handler[c].row.id = i
<1> SUFFICES Goal
  OBVIOUS
<1>0. handler \in [Handlers -> HandlerType] /\ 0 \notin RowIds
  BY RowNulls DEF RecordsInv, RecordsTyped
<1>a. ASSUME UNCHANGED <<table, rowsBorn>> PROVE Goal
  <2>1. \A i, serial : PlacedRow(i, serial) => PlacedRow(i, serial)'
    BY <1>a DEF PlacedRow
  <2>2. PlacedTable(table)'
    BY <1>a DEF PlacedTable, PlacedRow
  <2>3. \A i \in RowIds : ~RowHit(i)
    BY <1>a DEF RowHit
  <2> QED
    BY <2>1, <2>2, <2>3
<1>1. CASE Elsewhere
  <2>1. \E id : TableStays(id)
    <3>1. CASE InsertRow(Stored)
      BY <3>1, InsertStays DEF RowText
    <3>2. CASE \E id \in RowIds : Change(id, NoRow)
      BY <3>2, ChangeStays
    <3> QED
      BY <1>1, <3>1, <3>2 DEF Elsewhere
  <2>2. UNCHANGED handler
    BY <1>1 DEF Elsewhere
  <2> QED
    BY <2>1, <2>2 DEF TableStays
<1>2. ASSUME NEW c \in Handlers, Serve(c) PROVE Goal
  <2>1. handler[c].row \in RowCopy /\ handler[c].sent \in Sent
    BY <1>0 DEF HandlerType
  <2>2. TableStays(handler[c].row.id) \/ TableStays(0) \/ UNCHANGED <<table, rowsBorn>>
    BY <1>2, <2>1, EffectStays DEF Serve
  <2>3. \A d \in Handlers : handler'[d] # handler[d] => d = c
    BY <1>0, <1>2 DEF Serve
  <2> QED
    BY <1>0, <1>a, <2>2, <2>3 DEF TableStays
<1>3. ASSUME NEW c \in Handlers, Follows(c), ~Serve(c) PROVE Goal
  <2>1. UNCHANGED <<table, rowsBorn>>
    BY <1>3 DEF Follows, RequestFails, Close, OpenFetched, ReadTable, Show, ListingFails, DashboardPage
  <2> QED
    BY <1>a, <2>1
<1>4. CASE SitesPage \/ AssetsPage \/ NetworkPage \/ ChangeLogPage \/ UserManagementPage \/ AuditPage
  <2>1. \/ OpenNew \/ TypeField \/ CloseForm \/ Dismiss \/ Confirm \/ OpenEdit \/ SaveRow \/ ToggleSite
        \/ FetchEdit \/ Refresh \/ \E ops : Ask(ops)
    BY <1>4 DEF SitesPage, AssetsPage, NetworkPage, ChangeLogPage, UserManagementPage, AuditPage, Dialog, SaveNamedRow
  <2>2. UNCHANGED <<table, rowsBorn>>
    BY <2>1 DEF OpenNew, TypeField, CloseForm, Dismiss, OpenEdit, ToggleSite, Ask, SaveRow, Confirm, FetchEdit,
                Refresh, StartRequest
  <2> QED
    BY <1>a, <2>2
<1>5. CASE UNCHANGED recordVars
  BY <1>a, <1>5 DEF recordVars
<1> HIDE DEF Goal
<1> QED
  BY <1>1, <1>2, <1>3, <1>4, <1>5 DEF RecordsNext

LEMMA PlacedRowsStep ==
  ASSUME RecordsInv, PlacedRows, [RecordsNext]_recordVars
  PROVE  PlacedRows'
<1> USE DEF shown, listings
<1> DEFINE Listed == PlacedTable(listed')
           Edited == PlacedRowCopy(editing'.row)
           Asked == PlacedRowCopy(asked'.row)
           Handled == \A c \in Handlers : PlacedRowCopy(handler'[c].row) /\ PlacedTable(handler'[c].rows)
           Goal == Listed /\ Edited /\ Asked /\ Handled
<1>0. SUFFICES Goal
  <2>1. /\ \A i, serial : PlacedRow(i, serial) => PlacedRow(i, serial)'
        /\ PlacedTable(table)'
    BY TableStepped DEF PlacedRows
  <2>2. \A row : PlacedRowCopy(row) => PlacedRow(row.id, row.serial)'
    BY <2>1 DEF PlacedRowCopy
  <2>3. \A t : PlacedTable(t) => \A id \in RowIds : t[id] # NoRow => PlacedRow(id, t[id].serial)'
    BY <2>1 DEF PlacedTable
  <2> QED
    BY <2>1, <2>2, <2>3 DEF PlacedRows, PlacedTable, PlacedRowCopy
<1>a. /\ PlacedTable(table) /\ PlacedTable(listed) /\ PlacedRowCopy(editing.row) /\ PlacedRowCopy(asked.row)
      /\ \A c \in Handlers : PlacedRowCopy(handler[c].row) /\ PlacedTable(handler[c].rows)
      /\ handler \in [Handlers -> HandlerType] /\ listed \in RowTable /\ asked \in Question
      /\ editing \in FormDialog /\ (editing.open => form.id = editing.row.id)
  BY DEF PlacedRows, RecordsInv, RecordsTyped
<1>b. PlacedRowCopy(NoRowCopy) /\ PlacedTable(EmptyTable)
  <2>1. \A i \in RowIds : table[i] # NoRow => table[i].serial # 0
    <3>1. \A r \in Row : r.serial # 0
      BY RowNulls DEF Row
    <3> QED
      BY <3>1 DEF RecordsInv, RecordsTyped, RowTable
  <2>2. 0 \in 0..rowsBorn
    BY RowNulls DEF RecordsInv, RecordsTyped
  <2> QED
    BY <2>1, <2>2 DEF PlacedRowCopy, PlacedRow, NoRowCopy, PlacedTable, EmptyTable
<1>c. \A id \in RowsOf(listed) : PlacedRowCopy(RowCopyOf(listed, id))
  BY <1>a, RowCopies DEF PlacedTable, PlacedRowCopy, RowsOf
<1>d. /\ UNCHANGED listed => Listed
      /\ UNCHANGED editing \/ editing' = Shut => Edited
      /\ UNCHANGED asked \/ asked' = Nothing => Asked
      /\ UNCHANGED handler => Handled
  BY <1>a, <1>b DEF Shut, Nothing
<1>e. ASSUME NEW c \in Handlers, NEW h, handler' = [handler EXCEPT ![c] = h],
             PlacedRowCopy(h.row), PlacedTable(h.rows)
      PROVE  Handled
  BY <1>a, <1>e
<1>f. ASSUME NEW op, NEW row, NEW sent, NEW stage, StartRequest(op, row, sent, stage), PlacedRowCopy(row)
      PROVE  Goal
  <2> DEFINE h == [op |-> op, row |-> row, sent |-> sent, stage |-> stage, rows |-> EmptyTable]
  <2>1. h.row = row /\ h.rows = EmptyTable
    OBVIOUS
  <2>2. PICK c \in Handlers : handler' = [handler EXCEPT ![c] = h]
    BY <1>f DEF StartRequest
  <2>3. Handled
    <3> HIDE DEF h, Handled
    <3> QED
      BY <1>b, <1>e, <1>f, <2>1, <2>2
  <2>4. UNCHANGED <<listed, editing, asked>>
    BY <1>f DEF StartRequest
  <2> HIDE DEF Listed, Edited, Asked, Handled
  <2> QED
    BY <1>d, <2>3, <2>4
<1> HIDE DEF Listed, Edited, Asked, Handled
<1>1. CASE Elsewhere
  BY <1>1, <1>d DEF Elsewhere
<1>2. CASE SitesPage \/ AssetsPage \/ NetworkPage \/ ChangeLogPage \/ UserManagementPage \/ AuditPage
  <2>1. \/ OpenNew \/ TypeField \/ CloseForm \/ Dismiss \/ Confirm \/ OpenEdit \/ SaveRow \/ ToggleSite
        \/ FetchEdit \/ Refresh \/ \E ops : Ask(ops)
    BY <1>2 DEF SitesPage, AssetsPage, NetworkPage, ChangeLogPage, UserManagementPage, AuditPage, Dialog, SaveNamedRow
  <2>2. CASE OpenNew
    BY <1>b, <1>d, <2>2 DEF OpenNew, Edited
  <2>3. CASE OpenEdit
    BY <1>c, <1>d, <2>3 DEF OpenEdit, Edited
  <2>4. CASE TypeField \/ CloseForm \/ Dismiss
    BY <1>d, <2>4 DEF TypeField, CloseForm, Dismiss
  <2>5. CASE ToggleSite
    <3>1. asked'.row = asked.row
      BY <1>a, <2>5 DEF ToggleSite, Question
    <3> QED
      BY <1>a, <1>d, <2>5, <3>1 DEF ToggleSite, Asked
  <2>6. CASE \E ops : Ask(ops)
    <3>1. \E id \in RowsOf(listed) : asked'.row = RowCopyOf(listed, id)
      BY <2>6 DEF Ask
    <3> QED
      BY <1>c, <1>d, <2>6, <3>1 DEF Ask, Asked
  <2>7. CASE SaveRow
    <3>1. [editing.row EXCEPT !.id = form.id] = editing.row
      BY <1>a, <2>7 DEF SaveRow, FormDialog, RowCopy
    <3> QED
      BY <1>a, <1>f, <2>7, <3>1 DEF SaveRow
  <2>8. CASE Confirm
    BY <1>a, <1>f, <2>8 DEF Confirm
  <2>9. CASE FetchEdit
    BY <1>c, <1>f, <2>9 DEF FetchEdit
  <2>10. CASE Refresh
    BY <1>b, <1>f, <2>10 DEF Refresh
  <2> QED
    BY <2>1, <2>2, <2>3, <2>4, <2>5, <2>6, <2>7, <2>8, <2>9, <2>10
<1>3. ASSUME NEW c \in Handlers, Follows(c) PROVE Goal
  <2>1. Listed
    <3>1. UNCHANGED listed \/ listed' = handler[c].rows
      BY <1>3 DEF Follows, Serve, RequestFails, Close, OpenFetched, ReadTable, Show, ListingFails, DashboardPage
    <3> QED
      BY <1>a, <3>1 DEF Listed
  <2>2. Edited
    <3>1. UNCHANGED editing \/ editing' = Shut \/ editing' = [open |-> TRUE, row |-> handler[c].row]
      BY <1>3 DEF Follows, Serve, RequestFails, Close, OpenFetched, ReadTable, Show, ListingFails, DashboardPage
    <3> QED
      BY <1>a, <1>d, <3>1 DEF Edited
  <2>3. Asked
    <3>1. UNCHANGED asked \/ asked' = Nothing
      BY <1>3 DEF Follows, Serve, RequestFails, Close, OpenFetched, ReadTable, Show, ListingFails, DashboardPage
    <3> QED
      BY <1>d, <3>1
  <2>4. Handled
    <3>1. handler[c] \in HandlerType
      BY <1>a
    <3>2. \A d \in Handlers : d # c => handler'[d] = handler[d]
      BY <1>3, <1>a DEF Follows, Serve, RequestFails, Close, OpenFetched, ReadTable, Show, ListingFails, DashboardPage
    <3>3. \/ handler'[c] = IdleHandler
          \/ /\ handler'[c].row = handler[c].row
             /\ handler'[c].rows = handler[c].rows \/ handler'[c].rows = table
      <4>1. CASE Serve(c) \/ Close(c) \/ ReadTable(c)
        BY <4>1, <1>a, <3>1 DEF Serve, Close, ReadTable, HandlerType
      <4>2. CASE RequestFails(c) \/ OpenFetched(c) \/ Show(c) \/ ListingFails(c) \/ DashboardPage(c)
        BY <4>2, <1>a DEF RequestFails, OpenFetched, Show, ListingFails, DashboardPage
      <4> QED
        BY <1>3, <4>1, <4>2 DEF Follows
    <3> QED
      BY <1>a, <1>b, <3>2, <3>3 DEF Handled, IdleHandler
  <2> QED
    BY <2>1, <2>2, <2>3, <2>4
<1>4. CASE UNCHANGED recordVars
  BY <1>d, <1>4 DEF recordVars
<1> QED
  BY <1>1, <1>2, <1>3, <1>4 DEF RecordsNext

-----------------------------------------------------------------------------

CsvOps == {"csvPreview", "csvCommit"}
ExcelOps == {"excelPreview", "excelCommit"}
Commits == {"csvCommit", "excelCommit"}
CallType == [op: Ops \cup {"idle"}, file: Pick, answered: BOOLEAN]
CsvType == [file: Pick, preview: Pick, busy: BOOLEAN]
DialogType == [kind: {"none", "changeMaster", "export", "restoreMaster", "restoreConfirm"}, file: Pick]
ExcelType == [preview: Pick, busy: BOOLEAN]

\* The types of what the imports use; imported is bounded by MaxCalls only
\* because the requests are, which no property here needs.
ImportsTyped ==
  /\ csv \in CsvType /\ excel \in ExcelType
  /\ call \in [Calls -> CallType]
  /\ restoreFile \in Pick /\ dialog \in DialogType
  /\ imported \in [Picks -> Nat]

\* A file is held by one of the two imports while it, or a request about it,
\* is there.
CsvHas(p) == csv.file = p \/ \E c \in Calls : call[c].op \in CsvOps /\ call[c].file = p
ExcelHas(p) == excel.preview = p \/ \E c \in Calls : call[c].op \in ExcelOps /\ call[c].file = p

\* An import has one request at a time, and its flag is set meanwhile.
OneCsv ==
  /\ \A c \in Calls : call[c].op \in CsvOps => csv.busy /\ call[c].file \in Picks
  /\ \A c, d \in Calls : call[c].op \in CsvOps /\ call[d].op \in CsvOps => c = d
OneExcel ==
  /\ \A c \in Calls : call[c].op \in ExcelOps => excel.busy /\ call[c].file \in Picks
  /\ \A c, d \in Calls : call[c].op \in ExcelOps /\ call[d].op \in ExcelOps => c = d

\* The page shows nothing while a dry run is awaited, and what it shows while
\* a commit is, is the file of the commit.
CsvShown ==
  /\ \A c \in Calls : call[c].op = "csvPreview" => csv.preview = None /\ csv.file = call[c].file
  /\ \A c \in Calls : call[c].op = "csvCommit" => csv.file \in {call[c].file, None}
  /\ csv.preview = csv.file \/ \E c \in Calls : call[c].op = "csvPreview"
ExcelShown ==
  /\ \A c \in Calls : call[c].op = "excelPreview" => excel.preview = None
  /\ \A c \in Calls : call[c].op = "excelCommit" => excel.preview \in {call[c].file, None}

Owned ==
  \A p \in Picks : /\ ~(CsvHas(p) /\ ExcelHas(p))
                   /\ CsvHas(p) \/ ExcelHas(p) => p \notin unpicked

\* All that is left of a file that has been imported is the answer.
Done(p) ==
  /\ \A c \in Calls : call[c].op \in CsvOps \cup ExcelOps /\ call[c].file = p =>
                        call[c].op \in Commits /\ call[c].answered
  /\ csv.file = p => \E c \in Calls : call[c].op = "csvCommit" /\ call[c].file = p
  /\ excel.preview = p => \E c \in Calls : call[c].op = "excelCommit" /\ call[c].file = p
Once ==
  \A p \in Picks : /\ p \in unpicked => imported[p] = 0
                   /\ p \notin warned => imported[p] = 0 \/ (imported[p] = 1 /\ Done(p))

ImportInv == ImportsTyped /\ OneCsv /\ OneExcel /\ CsvShown /\ ExcelShown /\ Owned /\ Once

LEMMA NothingPicked == None \notin Picks /\ None \in Pick /\ Picks \subseteq Pick
BY SettingsAssumption DEF Pick

LEMMA ImportInitInv == SettingsInit => ImportInv
<1> SUFFICES ASSUME SettingsInit PROVE ImportInv
  OBVIOUS
<1>1. ImportsTyped
  BY NothingPicked DEF SettingsInit, ImportsTyped, CallType, CsvType, ExcelType, DialogType, NoCall, NoCsv, NoExcel, NoDialog
<1>2. OneCsv /\ OneExcel /\ CsvShown /\ ExcelShown
  BY DEF SettingsInit, OneCsv, OneExcel, CsvShown, ExcelShown, CsvOps, ExcelOps, NoCall, NoCsv, NoExcel
<1>3. Owned
  BY NothingPicked DEF SettingsInit, Owned, CsvHas, ExcelHas, CsvOps, ExcelOps, NoCall, NoCsv, NoExcel
<1>4. Once
  BY DEF SettingsInit, Once
<1> QED
  BY <1>1, <1>2, <1>3, <1>4 DEF ImportInv

\* What touches none of this keeps it.
LEMMA InvSame ==
  ASSUME ImportInv, UNCHANGED <<csv, excel, call, unpicked, imported, warned>>,
         restoreFile' \in Pick, dialog' \in DialogType
  PROVE  ImportInv'
BY DEF ImportInv, ImportsTyped, OneCsv, OneExcel, CsvShown, ExcelShown, Owned, Once, Done, CsvHas, ExcelHas

\* A request that is sent: one that was free is it, the others are as before.
LEMMA RequestSent ==
  ASSUME ImportsTyped, NEW op \in Ops, NEW file \in Pick, Send(op, file)
  PROVE  /\ call' \in [Calls -> CallType]
         /\ \E c \in Calls : /\ call[c] = NoCall /\ \A d \in Calls \ {c} : call'[d] = call[d]
                             /\ call'[c] = [op |-> op, file |-> file, answered |-> FALSE]
<1>1. PICK c \in Calls : /\ call[c] = NoCall
                         /\ call' = [call EXCEPT ![c] = [op |-> op, file |-> file, answered |-> FALSE]]
  BY DEF Send
<1>2. [op |-> op, file |-> file, answered |-> FALSE] \in CallType
  BY DEF CallType
<1> QED
  BY <1>1, <1>2 DEF ImportsTyped


\* What touches one import only keeps what is said of the other.
LEMMA CsvKeeps ==
  ASSUME ImportInv, csv' = csv,
         \A d \in Calls : call'[d].op \in CsvOps \/ call[d].op \in CsvOps => call'[d] = call[d]
  PROVE  OneCsv' /\ CsvShown' /\ \A p \in Picks : CsvHas(p)' <=> CsvHas(p)
<1>1. OneCsv' /\ CsvShown'
  BY DEF ImportInv, OneCsv, CsvShown, CsvOps
<1>2. \A p \in Picks : CsvHas(p)' <=> CsvHas(p)
  BY DEF CsvHas
<1> QED
  BY <1>1, <1>2

LEMMA ExcelKeeps ==
  ASSUME ImportInv, excel' = excel,
         \A d \in Calls : call'[d].op \in ExcelOps \/ call[d].op \in ExcelOps => call'[d] = call[d]
  PROVE  OneExcel' /\ ExcelShown' /\ \A p \in Picks : ExcelHas(p)' <=> ExcelHas(p)
<1>1. OneExcel' /\ ExcelShown'
  BY DEF ImportInv, OneExcel, ExcelShown, ExcelOps
<1>2. \A p \in Picks : ExcelHas(p)' <=> ExcelHas(p)
  BY DEF ExcelHas
<1> QED
  BY <1>1, <1>2

\* A file is in one import, and its only request there is the one.
LEMMA OneOwner ==
  ASSUME ImportInv, NEW c \in Calls, NEW d \in Calls,
         call[c].op \in CsvOps \cup ExcelOps, call[d].op \in CsvOps \cup ExcelOps, call[c].file = call[d].file
  PROVE  c = d
<1>1. call[c].file \in Picks
  BY DEF ImportInv, OneCsv, OneExcel
<1>2. ~(CsvHas(call[c].file) /\ ExcelHas(call[c].file))
  BY <1>1 DEF ImportInv, Owned
<1>3. \/ call[c].op \in CsvOps /\ call[d].op \in CsvOps
      \/ call[c].op \in ExcelOps /\ call[d].op \in ExcelOps
  BY <1>2 DEF CsvHas, ExcelHas
<1> QED
  BY <1>3 DEF ImportInv, OneCsv, OneExcel

LEMMA InvPickCsv == ASSUME ImportInv, PickCsv PROVE ImportInv'
<1>1. PICK file \in Picks : /\ file \in unpicked /\ unpicked' = unpicked \ {file}
                            /\ Send("csvPreview", file)
                            /\ csv' = [csv EXCEPT !.file = file, !.busy = TRUE]
  BY DEF PickCsv, PickFile
<1>2. PICK c \in Calls : /\ call[c] = NoCall /\ \A d \in Calls \ {c} : call'[d] = call[d]
                         /\ call'[c] = [op |-> "csvPreview", file |-> file, answered |-> FALSE]
  BY <1>1, RequestSent, NothingPicked DEF ImportInv, Ops
<1>3. /\ csv.preview = None /\ ~csv.busy
      /\ UNCHANGED <<excel, dialog, restoreFile, imported, warned>>
  BY DEF PickCsv, DropZone, Top, dialogs, ImportInv, ImportsTyped, CsvType
<1>4. \A d \in Calls : call[d].op \notin CsvOps
  BY <1>3 DEF ImportInv, OneCsv
<1>5. csv'.file = file /\ csv'.busy /\ csv'.preview = None
  BY <1>1, <1>3 DEF ImportInv, ImportsTyped, CsvType
<1>6. ImportsTyped'
  <2>1. call' \in [Calls -> CallType]
    BY <1>1, RequestSent, NothingPicked DEF ImportInv, Ops
  <2>2. csv' \in CsvType
    BY <1>1, NothingPicked DEF ImportInv, ImportsTyped, CsvType
  <2> QED
    BY <1>3, <2>1, <2>2 DEF ImportInv, ImportsTyped
<1>7. OneExcel' /\ ExcelShown' /\ \A p \in Picks : ExcelHas(p)' <=> ExcelHas(p)
  BY <1>2, <1>3, ExcelKeeps DEF ExcelOps, NoCall
<1>8. \A d \in Calls : call'[d].op \in CsvOps <=> d = c
  BY <1>2, <1>4 DEF CsvOps
<1>9. OneCsv'
  BY <1>2, <1>5, <1>8 DEF OneCsv
<1>10. CsvShown'
  BY <1>2, <1>5, <1>8 DEF CsvShown, CsvOps
<1>11. \A p \in Picks : CsvHas(p)' <=> p = file
  BY <1>2, <1>5, <1>8 DEF CsvHas
<1>12. Owned'
  BY <1>1, <1>7, <1>11 DEF ImportInv, Owned
<1>13. \A p \in Picks \ {file} : Done(p) => Done(p)'
  BY <1>2, <1>3, <1>5 DEF Done, NoCall
<1>14. Once'
  BY <1>1, <1>3, <1>13 DEF ImportInv, Once
<1> QED
  BY <1>6, <1>7, <1>9, <1>10, <1>12, <1>14 DEF ImportInv

LEMMA InvCloseCsv == ASSUME ImportInv, CloseCsv PROVE ImportInv'
<1>1. csv' = [csv EXCEPT !.file = None, !.preview = None] /\ csv.preview # None
  BY DEF CloseCsv, Top, ImportInv, ImportsTyped, DialogType
<1>2. UNCHANGED <<excel, call, dialog, restoreFile, unpicked, imported, warned>>
  BY DEF CloseCsv, dialogs
<1>3. csv'.file = None /\ csv'.preview = None /\ csv'.busy = csv.busy
  BY <1>1 DEF ImportInv, ImportsTyped, CsvType
<1>4. ImportsTyped'
  BY <1>1, <1>2, NothingPicked DEF ImportInv, ImportsTyped, CsvType
<1>5. OneExcel' /\ ExcelShown' /\ \A p \in Picks : ExcelHas(p)' <=> ExcelHas(p)
  BY <1>2, ExcelKeeps
<1>6. OneCsv'
  BY <1>2, <1>3 DEF ImportInv, OneCsv
<1>7. CsvShown'
  BY <1>1, <1>2, <1>3 DEF ImportInv, CsvShown
<1>8. Owned'
  BY <1>2, <1>3, <1>5, NothingPicked DEF ImportInv, Owned, CsvHas
<1>9. Once'
  BY <1>2, <1>3, NothingPicked DEF ImportInv, Once, Done
<1> QED
  BY <1>4, <1>5, <1>6, <1>7, <1>8, <1>9 DEF ImportInv

\* What the commit sends is what is shown: no dry run is under way.
LEMMA CsvCommitted == ASSUME ImportInv, CommitCsv PROVE csv.file = csv.preview /\ csv.file \in Picks
BY DEF CommitCsv, ImportInv, CsvShown, OneCsv, CsvOps, ImportsTyped, CsvType, Pick

LEMMA InvCommitCsv == ASSUME ImportInv, CommitCsv PROVE ImportInv'
<1>1. csv.file = csv.preview /\ csv.file \in Picks
  BY CsvCommitted
<1>2. /\ Send("csvCommit", csv.file) /\ ~csv.busy
      /\ csv' = [csv EXCEPT !.busy = TRUE]
      /\ UNCHANGED <<excel, dialog, restoreFile, unpicked, imported, warned>>
  BY DEF CommitCsv, dialogs
<1>3. PICK c \in Calls : /\ call[c] = NoCall /\ \A d \in Calls \ {c} : call'[d] = call[d]
                         /\ call'[c] = [op |-> "csvCommit", file |-> csv.file, answered |-> FALSE]
  BY <1>1, <1>2, RequestSent, NothingPicked DEF ImportInv, Ops
<1>4. \A d \in Calls : call[d].op \notin CsvOps
  BY <1>2 DEF ImportInv, OneCsv
<1>5. csv'.file = csv.file /\ csv'.busy /\ csv'.preview = csv.preview
  BY <1>2 DEF ImportInv, ImportsTyped, CsvType
<1>6. ImportsTyped'
  <2>1. call' \in [Calls -> CallType]
    BY <1>1, <1>2, RequestSent, NothingPicked DEF ImportInv, Ops
  <2>2. csv' \in CsvType
    BY <1>2 DEF ImportInv, ImportsTyped, CsvType
  <2> QED
    BY <1>2, <2>1, <2>2 DEF ImportInv, ImportsTyped
<1>7. OneExcel' /\ ExcelShown' /\ \A p \in Picks : ExcelHas(p)' <=> ExcelHas(p)
  BY <1>2, <1>3, ExcelKeeps DEF ExcelOps, NoCall
<1>8. \A d \in Calls : call'[d].op \in CsvOps <=> d = c
  BY <1>3, <1>4 DEF CsvOps
<1>9. OneCsv'
  BY <1>1, <1>3, <1>5, <1>8 DEF OneCsv
<1>10. CsvShown'
  BY <1>1, <1>3, <1>5, <1>8 DEF CsvShown, CsvOps
<1>11. \A p \in Picks : CsvHas(p)' <=> p = csv.file
  BY <1>3, <1>5, <1>8 DEF CsvHas
<1>12. Owned'
  BY <1>2, <1>7, <1>11 DEF ImportInv, Owned, CsvHas
<1>13. \A p \in Picks \ {csv.file} : Done(p) => Done(p)'
  BY <1>2, <1>3, <1>5 DEF Done, NoCall
<1>14. ~Done(csv.file)
  BY <1>4 DEF Done, CsvOps
<1>15. Once'
  BY <1>1, <1>2, <1>13, <1>14 DEF ImportInv, Once
<1> QED
  BY <1>6, <1>7, <1>9, <1>10, <1>12, <1>15 DEF ImportInv

LEMMA InvPickImport == ASSUME ImportInv, PickImport PROVE ImportInv'
<1>1. PICK file \in Picks : /\ file \in unpicked /\ unpicked' = unpicked \ {file}
                            /\ Send("excelPreview", file)
  BY DEF PickImport, PickFile
<1>2. PICK c \in Calls : /\ call[c] = NoCall /\ \A d \in Calls \ {c} : call'[d] = call[d]
                         /\ call'[c] = [op |-> "excelPreview", file |-> file, answered |-> FALSE]
  BY <1>1, RequestSent, NothingPicked DEF ImportInv, Ops
<1>3. /\ excel.preview = None /\ ~excel.busy /\ excel' = [excel EXCEPT !.busy = TRUE]
      /\ UNCHANGED <<csv, dialog, restoreFile, imported, warned>>
  BY DEF PickImport, DropZone, Top, dialogs
<1>4. \A d \in Calls : call[d].op \notin ExcelOps
  BY <1>3 DEF ImportInv, OneExcel
<1>5. excel'.busy /\ excel'.preview = None
  BY <1>3 DEF ImportInv, ImportsTyped, ExcelType
<1>6. ImportsTyped'
  <2>1. call' \in [Calls -> CallType]
    BY <1>1, RequestSent, NothingPicked DEF ImportInv, Ops
  <2>2. excel' \in ExcelType
    BY <1>3 DEF ImportInv, ImportsTyped, ExcelType
  <2> QED
    BY <1>3, <2>1, <2>2 DEF ImportInv, ImportsTyped
<1>7. OneCsv' /\ CsvShown' /\ \A p \in Picks : CsvHas(p)' <=> CsvHas(p)
  BY <1>2, <1>3, CsvKeeps DEF CsvOps, NoCall
<1>8. \A d \in Calls : call'[d].op \in ExcelOps <=> d = c
  BY <1>2, <1>4 DEF ExcelOps
<1>9. OneExcel'
  BY <1>2, <1>5, <1>8 DEF OneExcel
<1>10. ExcelShown'
  BY <1>2, <1>5, <1>8 DEF ExcelShown, ExcelOps
<1>11. \A p \in Picks : ExcelHas(p)' <=> p = file
  BY <1>2, <1>5, <1>8, NothingPicked DEF ExcelHas
<1>12. Owned'
  BY <1>1, <1>7, <1>11 DEF ImportInv, Owned
<1>13. \A p \in Picks \ {file} : Done(p) => Done(p)'
  BY <1>2, <1>3, <1>5, NothingPicked DEF Done, NoCall
<1>14. Once'
  BY <1>1, <1>3, <1>13 DEF ImportInv, Once
<1> QED
  BY <1>6, <1>7, <1>9, <1>10, <1>12, <1>14 DEF ImportInv

LEMMA InvCloseImport == ASSUME ImportInv, CloseImport PROVE ImportInv'
<1>1. excel' = [excel EXCEPT !.preview = None]
  BY DEF CloseImport
<1>2. UNCHANGED <<csv, call, dialog, restoreFile, unpicked, imported, warned>>
  BY DEF CloseImport, dialogs
<1>3. excel'.preview = None /\ excel'.busy = excel.busy
  BY <1>1 DEF ImportInv, ImportsTyped, ExcelType
<1>4. ImportsTyped'
  BY <1>1, <1>2, NothingPicked DEF ImportInv, ImportsTyped, ExcelType
<1>5. OneCsv' /\ CsvShown' /\ \A p \in Picks : CsvHas(p)' <=> CsvHas(p)
  BY <1>2, CsvKeeps
<1>6. OneExcel' /\ ExcelShown'
  BY <1>2, <1>3 DEF ImportInv, OneExcel, ExcelShown
<1>7. Owned'
  BY <1>2, <1>3, <1>5, NothingPicked DEF ImportInv, Owned, ExcelHas
<1>8. Once'
  BY <1>2, <1>3, NothingPicked DEF ImportInv, Once, Done
<1> QED
  BY <1>4, <1>5, <1>6, <1>7, <1>8 DEF ImportInv

LEMMA InvCommitImport == ASSUME ImportInv, CommitImport PROVE ImportInv'
<1>1. /\ Send("excelCommit", excel.preview) /\ ~excel.busy /\ excel.preview \in Picks
      /\ excel' = [excel EXCEPT !.busy = TRUE]
      /\ UNCHANGED <<csv, dialog, restoreFile, unpicked, imported, warned>>
  BY DEF CommitImport, dialogs, Top, ImportInv, ImportsTyped, ExcelType, Pick, DialogType
<1>2. PICK c \in Calls : /\ call[c] = NoCall /\ \A d \in Calls \ {c} : call'[d] = call[d]
                         /\ call'[c] = [op |-> "excelCommit", file |-> excel.preview, answered |-> FALSE]
  BY <1>1, RequestSent, NothingPicked DEF ImportInv, Ops
<1>3. \A d \in Calls : call[d].op \notin ExcelOps
  BY <1>1 DEF ImportInv, OneExcel
<1>4. excel'.busy /\ excel'.preview = excel.preview
  BY <1>1 DEF ImportInv, ImportsTyped, ExcelType
<1>5. ImportsTyped'
  <2>1. call' \in [Calls -> CallType]
    BY <1>1, RequestSent, NothingPicked DEF ImportInv, Ops
  <2>2. excel' \in ExcelType
    BY <1>1 DEF ImportInv, ImportsTyped, ExcelType
  <2> QED
    BY <1>1, <2>1, <2>2 DEF ImportInv, ImportsTyped
<1>6. OneCsv' /\ CsvShown' /\ \A p \in Picks : CsvHas(p)' <=> CsvHas(p)
  BY <1>1, <1>2, CsvKeeps DEF CsvOps, NoCall
<1>7. \A d \in Calls : call'[d].op \in ExcelOps <=> d = c
  BY <1>2, <1>3 DEF ExcelOps
<1>8. OneExcel'
  BY <1>1, <1>2, <1>4, <1>7 DEF OneExcel
<1>9. ExcelShown'
  BY <1>2, <1>4, <1>7 DEF ExcelShown, ExcelOps
<1>10. \A p \in Picks : ExcelHas(p)' <=> p = excel.preview
  BY <1>2, <1>4, <1>7 DEF ExcelHas
<1>11. Owned'
  BY <1>1, <1>6, <1>10 DEF ImportInv, Owned, ExcelHas
<1>12. \A p \in Picks \ {excel.preview} : Done(p) => Done(p)'
  BY <1>1, <1>2, <1>4 DEF Done, NoCall
<1>13. ~Done(excel.preview)
  BY <1>3 DEF Done, ExcelOps
<1>14. Once'
  BY <1>1, <1>12, <1>13 DEF ImportInv, Once
<1> QED
  BY <1>5, <1>6, <1>8, <1>9, <1>11, <1>14 DEF ImportInv

\* A request about neither import may come and go.
LEMMA InvCallElse ==
  ASSUME ImportInv, UNCHANGED <<csv, excel, unpicked, imported, warned>>, ImportsTyped',
         \A d \in Calls : call'[d].op \in CsvOps \cup ExcelOps \/ call[d].op \in CsvOps \cup ExcelOps =>
           call'[d] = call[d]
  PROVE  ImportInv'
<1>1. OneCsv' /\ CsvShown' /\ \A p \in Picks : CsvHas(p)' <=> CsvHas(p)
  BY CsvKeeps
<1>2. OneExcel' /\ ExcelShown' /\ \A p \in Picks : ExcelHas(p)' <=> ExcelHas(p)
  BY ExcelKeeps
<1>3. Owned'
  BY <1>1, <1>2 DEF ImportInv, Owned
<1>4. \A p \in Picks : Done(p) => Done(p)'
  BY DEF Done, CsvOps, ExcelOps
<1>5. Once'
  BY <1>4 DEF ImportInv, Once
<1> QED
  BY <1>1, <1>2, <1>3, <1>5 DEF ImportInv

LEMMA InvSentElse ==
  ASSUME ImportInv, NEW op \in Ops \ (CsvOps \cup ExcelOps), NEW file \in Pick,
         MultiPasswordPrompt(op, file, TRUE) \/ MultiPasswordPrompt(op, file, FALSE)
  PROVE  ImportInv'
<1>1. /\ Send(op, file)
      /\ UNCHANGED <<csv, excel, unpicked, imported, warned, dialog, restoreFile>>
  BY DEF MultiPasswordPrompt
<1>2. PICK c \in Calls : /\ call[c] = NoCall /\ \A d \in Calls \ {c} : call'[d] = call[d]
                         /\ call'[c] = [op |-> op, file |-> file, answered |-> FALSE]
  BY <1>1, RequestSent DEF ImportInv
<1>3. /\ call'[c].op \notin CsvOps \cup ExcelOps
      /\ call[c].op \notin CsvOps \cup ExcelOps
  BY <1>2 DEF NoCall, CsvOps, ExcelOps
<1>4. ImportsTyped'
  BY <1>1, RequestSent DEF ImportInv, ImportsTyped
<1> QED
  BY <1>1, <1>2, <1>3, <1>4, InvCallElse

LEMMA InvPickRestore == ASSUME ImportInv, PickRestore PROVE ImportInv'
<1>1. PICK file \in Picks : unpicked' = unpicked \ {file} /\ restoreFile' = file
  BY DEF PickRestore, PickFile
<1>2. /\ UNCHANGED <<csv, excel, call, imported, warned>>
      /\ dialog' = [kind |-> "restoreMaster", file |-> None]
  BY DEF PickRestore
<1>3. ImportsTyped'
  BY <1>1, <1>2, NothingPicked DEF ImportInv, ImportsTyped, DialogType
<1>4. OneCsv' /\ CsvShown' /\ \A p \in Picks : CsvHas(p)' <=> CsvHas(p)
  BY <1>2, CsvKeeps
<1>5. OneExcel' /\ ExcelShown' /\ \A p \in Picks : ExcelHas(p)' <=> ExcelHas(p)
  BY <1>2, ExcelKeeps
<1>6. Owned'
  BY <1>1, <1>4, <1>5 DEF ImportInv, Owned
<1>7. Once'
  BY <1>1, <1>2 DEF ImportInv, Once, Done
<1> QED
  BY <1>3, <1>4, <1>5, <1>6, <1>7 DEF ImportInv

LEMMA InvServeCall == ASSUME ImportInv, NEW c \in Calls, ServeCall(c) PROVE ImportInv'
<1>1. /\ ~call[c].answered /\ call' = [call EXCEPT ![c].answered = TRUE]
      /\ UNCHANGED <<csv, excel, dialog, restoreFile, unpicked, warned>>
      /\ imported' = IF call[c].op \in Commits THEN [imported EXCEPT ![call[c].file] = @ + 1] ELSE imported
  BY DEF ServeCall, dialogs, Commits
<1>2. call[c].op \in Commits => call[c].file \in Picks
  BY DEF ImportInv, OneCsv, OneExcel, CsvOps, ExcelOps, Commits
<1>3. /\ \A d \in Calls : call'[d].op = call[d].op /\ call'[d].file = call[d].file
      /\ \A d \in Calls \ {c} : call'[d] = call[d]
      /\ call'[c].answered
  BY <1>1 DEF ImportInv, ImportsTyped, CallType
<1>4. ImportsTyped'
  <2>1. call' \in [Calls -> CallType]
    BY <1>1 DEF ImportInv, ImportsTyped, CallType
  <2>2. imported' \in [Picks -> Nat]
    BY <1>1, <1>2 DEF ImportInv, ImportsTyped
  <2> QED
    BY <1>1, <2>1, <2>2 DEF ImportInv, ImportsTyped
<1>5. OneCsv' /\ CsvShown' /\ OneExcel' /\ ExcelShown'
  BY <1>1, <1>3 DEF ImportInv, OneCsv, CsvShown, OneExcel, ExcelShown
<1>6. \A p \in Picks : (CsvHas(p)' <=> CsvHas(p)) /\ (ExcelHas(p)' <=> ExcelHas(p))
  BY <1>1, <1>3 DEF CsvHas, ExcelHas
<1>7. Owned'
  BY <1>1, <1>6 DEF ImportInv, Owned
<1>8. \A p \in Picks : Done(p) => Done(p)'
  BY <1>1, <1>3 DEF Done
<1>9. CASE call[c].op \notin Commits
  BY <1>1, <1>4, <1>5, <1>7, <1>8, <1>9 DEF ImportInv, Once
<1>10. CASE call[c].op \in Commits
  <2>1. PICK file \in Picks : file = call[c].file
    BY <1>1, <1>2, <1>10 DEF Commits, CsvOps, ExcelOps
  <2>2. ~Done(file)
    BY <1>1, <1>2, <1>10, <2>1 DEF Done, Commits, CsvOps, ExcelOps
  <2>3. CsvHas(file) \/ ExcelHas(file)
    BY <1>10, <2>1 DEF CsvHas, ExcelHas, Commits, CsvOps, ExcelOps
  <2>4. file \notin unpicked
    BY <2>1, <2>3 DEF ImportInv, Owned
  <2>5. /\ \A p \in Picks \ {file} : imported'[p] = imported[p]
        /\ imported'[file] = imported[file] + 1
    BY <1>1, <1>10, <2>1 DEF ImportInv, ImportsTyped
  <2>6. Done(file)'
    <3>1. \A d \in Calls : call[d].op \in CsvOps \cup ExcelOps /\ call[d].file = file => d = c
      BY <1>10, <2>1, OneOwner DEF Commits, CsvOps, ExcelOps
    <3>2. csv.file = file => call[c].op = "csvCommit"
      BY <1>10, <2>1 DEF ImportInv, Owned, CsvHas, ExcelHas, Commits, ExcelOps
    <3>3. excel.preview = file => call[c].op = "excelCommit"
      BY <1>10, <2>1 DEF ImportInv, Owned, CsvHas, ExcelHas, Commits, CsvOps
    <3> QED
      BY <1>1, <1>3, <1>10, <2>1, <3>1, <3>2, <3>3 DEF Done
  <2>7. Once'
    <3>1. ASSUME NEW p \in Picks \ {file}
          PROVE  /\ p \in unpicked' => imported'[p] = 0
                 /\ p \notin warned' => imported'[p] = 0 \/ (imported'[p] = 1 /\ Done(p)')
      BY <1>1, <1>8, <2>5 DEF ImportInv, Once
    <3>2. file \notin warned => imported[file] = 0
      BY <2>2 DEF ImportInv, Once
    <3>3. file \notin warned' => imported'[file] = 1 /\ Done(file)'
      BY <1>1, <2>5, <2>6, <3>2
    <3>4. file \notin unpicked'
      BY <1>1, <2>4
    <3>5. ASSUME NEW p \in Picks
          PROVE  /\ p \in unpicked' => imported'[p] = 0
                 /\ p \notin warned' => imported'[p] = 0 \/ (imported'[p] = 1 /\ Done(p)')
      <4>1. CASE p = file
        BY <3>3, <3>4, <4>1
      <4>2. CASE p # file
        BY <3>1, <4>2
      <4> QED
        BY <4>1, <4>2
    <3> QED
      BY <3>5 DEF Once
  <2> QED
    BY <1>4, <1>5, <1>7, <2>7 DEF ImportInv
<1> QED
  BY <1>9, <1>10

\* The answer of a dry run or of a commit is put into its import.
LEMMA InvAnswerCsv ==
  ASSUME ImportInv, NEW c \in Calls, Answers(c), call[c].op \in CsvOps
  PROVE  ImportInv'
<1>1. /\ call' = [call EXCEPT ![c] = NoCall]
      /\ csv' = IF call[c].op = "csvPreview" THEN [csv EXCEPT !.preview = call[c].file, !.busy = FALSE] ELSE NoCsv
      /\ UNCHANGED <<excel, dialog, restoreFile, unpicked, imported, warned>>
  BY DEF Answers, AnswerCsv, AnswerExcel, AnswerDialog, CsvOps, dialogs
<1>2. /\ \A d \in Calls \ {c} : call'[d] = call[d] /\ call[d].op \notin CsvOps
      /\ call'[c].op = "idle"
  BY <1>1 DEF ImportInv, ImportsTyped, OneCsv, NoCall
<1>3. call[c].file \in Picks /\ csv.busy
  BY DEF ImportInv, OneCsv
<1>4. csv'.file \in {csv.file, None} /\ csv'.preview = csv'.file
  BY <1>1 DEF ImportInv, ImportsTyped, CsvType, CsvShown, NoCsv
<1>5. ImportsTyped'
  <2>1. call' \in [Calls -> CallType]
    BY <1>1, NothingPicked DEF ImportInv, ImportsTyped, CallType, NoCall
  <2>2. csv' \in CsvType
    BY <1>1, <1>3, NothingPicked DEF ImportInv, ImportsTyped, CsvType, NoCsv
  <2> QED
    BY <1>1, <2>1, <2>2 DEF ImportInv, ImportsTyped
<1>6. OneExcel' /\ ExcelShown' /\ \A p \in Picks : ExcelHas(p)' <=> ExcelHas(p)
  BY <1>1, <1>2, ExcelKeeps DEF CsvOps, ExcelOps
<1>7. \A d \in Calls : call'[d].op \notin CsvOps
  BY <1>2 DEF CsvOps
<1>8. OneCsv' /\ CsvShown'
  BY <1>4, <1>7 DEF OneCsv, CsvShown, CsvOps
<1>9. \A p \in Picks : CsvHas(p)' => CsvHas(p)
  BY <1>4, <1>7, NothingPicked DEF CsvHas
<1>10. Owned'
  BY <1>1, <1>6, <1>9 DEF ImportInv, Owned
<1>11. \A p \in Picks : Done(p) => Done(p)'
  <2> SUFFICES ASSUME NEW p \in Picks, Done(p) PROVE Done(p)'
    OBVIOUS
  <2>1. csv'.file # p
    <3>1. CASE call[c].op = "csvPreview"
      BY <1>2, <1>3, <1>4, <3>1, NothingPicked DEF Done, CsvOps, ImportInv, CsvShown
    <3>2. CASE call[c].op # "csvPreview"
      BY <1>1, <3>2, NothingPicked DEF NoCsv
    <3> QED
      BY <3>1, <3>2
  <2> QED
    BY <1>1, <1>2, <2>1 DEF Done, CsvOps, ExcelOps
<1>12. Once'
  BY <1>1, <1>11 DEF ImportInv, Once
<1> QED
  BY <1>5, <1>6, <1>8, <1>10, <1>12 DEF ImportInv

LEMMA InvAnswerExcel ==
  ASSUME ImportInv, NEW c \in Calls, Answers(c), call[c].op \in ExcelOps
  PROVE  ImportInv'
<1>1. /\ call' = [call EXCEPT ![c] = NoCall]
      /\ excel' = [preview |-> IF call[c].op = "excelPreview" THEN call[c].file ELSE None, busy |-> FALSE]
      /\ UNCHANGED <<csv, dialog, restoreFile, unpicked, imported, warned>>
  BY DEF Answers, AnswerCsv, AnswerExcel, AnswerDialog, ExcelOps, dialogs
<1>2. /\ \A d \in Calls \ {c} : call'[d] = call[d] /\ call[d].op \notin ExcelOps
      /\ call'[c].op = "idle"
  BY <1>1 DEF ImportInv, ImportsTyped, OneExcel, NoCall
<1>3. call[c].file \in Picks
  BY DEF ImportInv, OneExcel
<1>4. excel'.preview = IF call[c].op = "excelPreview" THEN call[c].file ELSE None
  BY <1>1
<1>5. ImportsTyped'
  <2>1. call' \in [Calls -> CallType]
    BY <1>1, NothingPicked DEF ImportInv, ImportsTyped, CallType, NoCall
  <2>2. excel' \in ExcelType
    BY <1>1, <1>3, NothingPicked DEF ExcelType
  <2> QED
    BY <1>1, <2>1, <2>2 DEF ImportInv, ImportsTyped
<1>6. OneCsv' /\ CsvShown' /\ \A p \in Picks : CsvHas(p)' <=> CsvHas(p)
  BY <1>1, <1>2, CsvKeeps DEF CsvOps, ExcelOps
<1>7. \A d \in Calls : call'[d].op \notin ExcelOps
  BY <1>2 DEF ExcelOps
<1>8. OneExcel' /\ ExcelShown'
  BY <1>7 DEF OneExcel, ExcelShown, ExcelOps
<1>9. \A p \in Picks : ExcelHas(p)' => ExcelHas(p)
  BY <1>4, <1>7, NothingPicked DEF ExcelHas
<1>10. Owned'
  BY <1>1, <1>6, <1>9 DEF ImportInv, Owned
<1>11. \A p \in Picks : Done(p) => Done(p)'
  <2> SUFFICES ASSUME NEW p \in Picks, Done(p) PROVE Done(p)'
    OBVIOUS
  <2>1. excel'.preview # p
    BY <1>4, NothingPicked DEF Done, ExcelOps, Commits
  <2> QED
    BY <1>1, <1>2, <2>1 DEF Done, CsvOps, ExcelOps
<1>12. Once'
  BY <1>1, <1>11 DEF ImportInv, Once
<1> QED
  BY <1>5, <1>6, <1>8, <1>10, <1>12 DEF ImportInv

LEMMA InvAnswers == ASSUME ImportInv, NEW c \in Calls, Answers(c) PROVE ImportInv'
<1>1. CASE AnswerDialog(c)
  <2>1. /\ call' = [call EXCEPT ![c] = NoCall]
        /\ call[c].op \in {"change", "export", "decrypt", "restore"}
        /\ UNCHANGED <<csv, excel, unpicked, imported, warned>>
        /\ restoreFile' \in {restoreFile, None}
        /\ dialog' = NoDialog \/ dialog' = [kind |-> "restoreConfirm", file |-> call[c].file]
    BY <1>1 DEF Answers, AnswerDialog
  <2>2. ImportsTyped'
    <3>1. call' \in [Calls -> CallType]
      BY <2>1, NothingPicked DEF ImportInv, ImportsTyped, CallType, NoCall
    <3>2. restoreFile' \in Pick
      BY <2>1, NothingPicked DEF ImportInv, ImportsTyped
    <3>3. dialog' \in DialogType
      BY <2>1, NothingPicked DEF ImportInv, ImportsTyped, DialogType, NoDialog, CallType
    <3> QED
      BY <2>1, <3>1, <3>2, <3>3 DEF ImportInv, ImportsTyped
  <2>3. call[c].op \notin CsvOps \cup ExcelOps /\ NoCall.op \notin CsvOps \cup ExcelOps
    BY <2>1 DEF CsvOps, ExcelOps, NoCall
  <2>4. call'[c] = NoCall /\ \A d \in Calls \ {c} : call'[d] = call[d]
    BY <2>1 DEF ImportInv, ImportsTyped
  <2> QED
    BY <2>1, <2>2, <2>3, <2>4, InvCallElse
<1>2. CASE AnswerCsv(c)
  BY <1>2, InvAnswerCsv DEF AnswerCsv, CsvOps
<1>3. CASE AnswerExcel(c)
  BY <1>3, InvAnswerExcel DEF AnswerExcel, ExcelOps
<1> QED
  BY <1>1, <1>2, <1>3 DEF Answers

\* A request that is refused or lost: a commit warns of its file.
LEMMA InvCallLost == ASSUME ImportInv, NEW c \in Calls, CallLost(c) PROVE ImportInv'
<1>1. /\ call' = [call EXCEPT ![c] = NoCall]
      /\ UNCHANGED <<dialog, restoreFile, unpicked, imported>>
  BY DEF CallLost
<1>2. /\ \A d \in Calls \ {c} : call'[d] = call[d]
      /\ call'[c].op = "idle"
  BY <1>1 DEF ImportInv, ImportsTyped, NoCall
<1>3. csv' = CASE call[c].op = "csvPreview" -> [csv EXCEPT !.file = None, !.busy = FALSE]
              [] call[c].op = "csvCommit" -> [csv EXCEPT !.busy = FALSE]
              [] OTHER -> csv
  BY DEF CallLost
<1>4. excel' = IF call[c].op \in ExcelOps THEN [excel EXCEPT !.busy = FALSE] ELSE excel
  BY DEF CallLost, ExcelOps
<1>5. warned' = IF call[c].op \in Commits THEN warned \cup {call[c].file} ELSE warned
  BY DEF CallLost, Commits
<1>6. ImportsTyped'
  <2>1. call' \in [Calls -> CallType]
    BY <1>1, NothingPicked DEF ImportInv, ImportsTyped, CallType, NoCall
  <2>2. csv' \in CsvType
    BY <1>3, NothingPicked DEF ImportInv, ImportsTyped, CsvType
  <2>3. excel' \in ExcelType
    BY <1>4 DEF ImportInv, ImportsTyped, ExcelType
  <2> QED
    BY <1>1, <2>1, <2>2, <2>3 DEF ImportInv, ImportsTyped
<1>7. csv'.preview = csv.preview /\ excel'.preview = excel.preview
  BY <1>3, <1>4 DEF ImportInv, ImportsTyped, CsvType, ExcelType
<1>8. csv'.file = IF call[c].op = "csvPreview" THEN None ELSE csv.file
  BY <1>3 DEF ImportInv, ImportsTyped, CsvType
<1>9. OneCsv' /\ CsvShown'
  <2>1. CASE call[c].op \notin CsvOps
    BY <1>2, <1>3, <2>1, CsvKeeps DEF CsvOps
  <2>2. CASE call[c].op \in CsvOps
    <3>1. \A d \in Calls : call'[d].op \notin CsvOps
      BY <1>2, <2>2 DEF ImportInv, OneCsv, CsvOps
    <3>2. csv'.preview = csv'.file
      <4>1. CASE call[c].op = "csvPreview"
        BY <1>7, <1>8, <4>1 DEF ImportInv, CsvShown
      <4>2. CASE call[c].op = "csvCommit"
        <5>1. \A d \in Calls : call[d].op # "csvPreview"
          BY <4>2 DEF ImportInv, OneCsv, CsvOps
        <5> QED
          BY <1>7, <1>8, <4>2, <5>1 DEF ImportInv, CsvShown
      <4> QED
        BY <2>2, <4>1, <4>2 DEF CsvOps
    <3> QED
      BY <3>1, <3>2 DEF OneCsv, CsvShown, CsvOps
  <2> QED
    BY <2>1, <2>2
<1>10. OneExcel' /\ ExcelShown'
  <2>1. CASE call[c].op \notin ExcelOps
    BY <1>2, <1>4, <2>1, ExcelKeeps DEF ExcelOps
  <2>2. CASE call[c].op \in ExcelOps
    <3>1. \A d \in Calls : call'[d].op \notin ExcelOps
      BY <1>2, <2>2 DEF ImportInv, OneExcel, ExcelOps
    <3> QED
      BY <3>1 DEF OneExcel, ExcelShown, ExcelOps
  <2> QED
    BY <2>1, <2>2
<1>11. \A p \in Picks : (CsvHas(p)' => CsvHas(p)) /\ (ExcelHas(p)' => ExcelHas(p))
  BY <1>2, <1>7, <1>8, NothingPicked DEF CsvHas, ExcelHas, CsvOps, ExcelOps
<1>12. Owned'
  BY <1>1, <1>11 DEF ImportInv, Owned
<1>13. ASSUME NEW p \in Picks, Done(p), call[c].op \in Commits => call[c].file # p
       PROVE  Done(p)'
  <2>1. \A d \in Calls : call[d].op \in Commits /\ call[d].file = p => call'[d] = call[d]
    BY <1>2, <1>13
  <2> QED
    BY <1>2, <1>7, <1>8, <1>13, <2>1, NothingPicked DEF Done, CsvOps, ExcelOps, Commits
<1>14. Once'
  BY <1>1, <1>5, <1>13 DEF ImportInv, Once
<1> QED
  BY <1>6, <1>9, <1>10, <1>12, <1>14 DEF ImportInv

LEMMA InvReload == ASSUME ImportInv, Reload PROVE ImportInv'
<1>1. /\ csv' = NoCsv /\ excel' = NoExcel /\ dialog' = NoDialog /\ restoreFile' = None
      /\ call' = [c \in Calls |-> NoCall]
      /\ UNCHANGED <<unpicked, imported, warned>>
  BY DEF Reload
<1>2. ImportsTyped'
  BY <1>1, NothingPicked DEF ImportInv, ImportsTyped, CallType, CsvType, ExcelType, DialogType, NoCall, NoCsv, NoExcel, NoDialog
<1>3. OneCsv' /\ OneExcel' /\ CsvShown' /\ ExcelShown'
  BY <1>1 DEF OneCsv, OneExcel, CsvShown, ExcelShown, CsvOps, ExcelOps, NoCall, NoCsv, NoExcel
<1>4. \A p \in Picks : ~CsvHas(p)' /\ ~ExcelHas(p)' /\ Done(p)'
  BY <1>1, NothingPicked DEF CsvHas, ExcelHas, Done, CsvOps, ExcelOps, NoCall, NoCsv, NoExcel
<1>5. Owned' /\ Once'
  BY <1>1, <1>4 DEF ImportInv, Owned, Once
<1> QED
  BY <1>2, <1>3, <1>5 DEF ImportInv

LEMMA StepInv == ImportInv /\ [SettingsNext]_settingsVars => ImportInv'
<1> SUFFICES ASSUME ImportInv, [SettingsNext]_settingsVars PROVE ImportInv'
  OBVIOUS
<1>1. CASE UNCHANGED settingsVars
  BY <1>1, InvSame DEF settingsVars, dialogs, ImportInv, ImportsTyped
<1>2. CASE CsvImport \/ ExcelImport
  <2>1. CASE CloseResult
    BY <2>1, InvSame DEF CloseResult, dialogs, ImportInv, ImportsTyped
  <2> QED
    BY <1>2, <2>1, InvPickCsv, InvCloseCsv, InvCommitCsv, InvPickImport, InvCloseImport, InvCommitImport
       DEF CsvImport, ExcelImport
<1>3. CASE Passwords \/ Restore
  <2>1. CASE OpenDialog \/ CloseDialog \/ ChooseMode \/ CancelMode
    <3>1. /\ UNCHANGED <<csv, excel, call, unpicked, imported, warned>>
          /\ restoreFile' \in {restoreFile, None}
          /\ \/ dialog' \in {dialog, NoDialog}
             \/ \E kind \in {"changeMaster", "export"} : dialog' = [kind |-> kind, file |-> None]
      BY <2>1 DEF OpenDialog, CloseDialog, ChooseMode, CancelMode
    <3>2. restoreFile' \in Pick /\ dialog' \in DialogType
      BY <3>1, NothingPicked DEF ImportInv, ImportsTyped, DialogType, NoDialog
    <3> QED
      BY <3>1, <3>2, InvSame
  <2>2. CASE OnChangeMaster \/ OnExport \/ OnRestorePreview \/ DoCommitWithMaster
    <3>1. {"change", "export", "decrypt", "restore"} \subseteq Ops \ (CsvOps \cup ExcelOps)
      BY DEF Ops, CsvOps, ExcelOps
    <3>2. None \in Pick /\ restoreFile \in Pick /\ dialog.file \in Pick
      BY NothingPicked DEF ImportInv, ImportsTyped, DialogType
    <3> QED
      BY <2>2, <3>1, <3>2, InvSentElse DEF OnChangeMaster, OnExport, OnRestorePreview, DoCommitWithMaster
  <2> QED
    BY <1>3, <2>1, <2>2, InvPickRestore, InvReload DEF Passwords, Restore
<1>4. ASSUME NEW c \in Calls, ServeCall(c) \/ Answers(c) \/ CallLost(c) PROVE ImportInv'
  BY <1>4, InvServeCall, InvAnswers, InvCallLost
<1> QED
  BY <1>1, <1>2, <1>3, <1>4 DEF SettingsNext

LEMMA ImportsStayInOrder == SettingsSpec => []ImportInv
<1> QED
  BY ImportInitInv, StepInv, PTL DEF SettingsSpec

\* The rows of one preview enter the tables once, unless the page has said
\* that an import of it failed.
THEOREM PreviewsImportedOnce == SettingsSpec => []ImportedOnce
<1>1. ImportInv => ImportedOnce
  BY DEF ImportInv, Once, ImportedOnce
<1> QED
  BY <1>1, ImportsStayInOrder, PTL

\* What an import commits is what its preview shows.
THEOREM CommitsAreWhatWasShown == SettingsSpec => CommitsWhatWasShown
<1> DEFINE Shown == \A c \in Calls : call[c] = NoCall =>
                      /\ call'[c].op = "csvCommit" => call'[c].file = csv.preview
                      /\ call'[c].op = "excelCommit" => call'[c].file = excel.preview
<1>1. ImportInv /\ [SettingsNext]_settingsVars => [Shown]_settingsVars
  <2> SUFFICES ASSUME ImportInv, SettingsNext PROVE Shown
    OBVIOUS
  <2>1. ASSUME NEW op \in Ops, NEW file \in Pick, Send(op, file),
               op = "csvCommit" => file = csv.preview, op = "excelCommit" => file = excel.preview
        PROVE  Shown
    <3>1. PICK c \in Calls : /\ \A d \in Calls \ {c} : call'[d] = call[d]
                             /\ call'[c] = [op |-> op, file |-> file, answered |-> FALSE]
      BY <2>1, RequestSent DEF ImportInv
    <3> QED
      BY <2>1, <3>1 DEF NoCall
  <2>2. ASSUME \A d \in Calls : call[d] = NoCall => call'[d] = NoCall
        PROVE  Shown
    BY <2>2 DEF NoCall
  <2>3. csv.file \in Pick /\ excel.preview \in Pick /\ restoreFile \in Pick /\ dialog.file \in Pick
    BY DEF ImportInv, ImportsTyped, CsvType, ExcelType, DialogType
  <2> HIDE DEF Shown
  <2>4. CASE PickCsv \/ PickImport
    BY <2>1, <2>4, NothingPicked DEF PickCsv, PickImport, Ops
  <2>5. CASE CommitCsv
    BY <2>1, <2>3, <2>5, CsvCommitted DEF CommitCsv, Ops
  <2>6. CASE CommitImport
    BY <2>1, <2>3, <2>6 DEF CommitImport, Ops
  <2>7. CASE OnChangeMaster \/ OnExport \/ OnRestorePreview \/ DoCommitWithMaster
    BY <2>1, <2>3, <2>7, NothingPicked DEF OnChangeMaster, OnExport, OnRestorePreview, DoCommitWithMaster,
       MultiPasswordPrompt, Ops
  <2>8. CASE CloseCsv \/ CloseResult \/ CloseImport \/ OpenDialog \/ CloseDialog \/ PickRestore \/ ChooseMode \/ CancelMode
    BY <2>2, <2>8 DEF CloseCsv, CloseResult, CloseImport, OpenDialog, CloseDialog, PickRestore, ChooseMode, CancelMode
  <2>9. CASE Reload
    BY <2>2, <2>9 DEF Reload
  <2>10. ASSUME NEW c \in Calls, ServeCall(c) \/ Answers(c) \/ CallLost(c) PROVE Shown
    <3>1. call[c] # NoCall \/ call'[c] = NoCall
      BY <2>10 DEF ServeCall, Answers, CallLost, ImportInv, ImportsTyped
    <3>2. \A d \in Calls \ {c} : call'[d] = call[d]
      BY <2>10 DEF ServeCall, Answers, CallLost, ImportInv, ImportsTyped
    <3> QED
      BY <2>2, <3>1, <3>2
  <2> QED
    BY <2>4, <2>5, <2>6, <2>7, <2>8, <2>9, <2>10 DEF SettingsNext, CsvImport, ExcelImport, Passwords, Restore
<1> QED
  BY <1>1, ImportsStayInOrder, PTL DEF SettingsSpec, CommitsWhatWasShown

-----------------------------------------------------------------------------
(* The type invariant of SettingsPage.  How often the rows of a pick are   *)
(* imported is bounded by the requests sent: a commit the server has not   *)
(* run yet is counted among these.                                         *)
Waits(p) == \E c \in Calls : call[c].op \in Commits /\ call[c].file = p /\ ~call[c].answered
SettingsRest ==
  /\ csvResult \in BOOLEAN /\ busy \in BOOLEAN /\ reloading \in BOOLEAN
  /\ dialog.file # None <=> dialog.kind = "restoreConfirm"
  /\ mode \in {"none", "merge", "replace"}
  /\ \A c \in Calls : call[c].op = "decrypt" => call[c].file # None
  /\ started \in 0..MaxCalls
  /\ unpicked \subseteq Picks /\ warned \subseteq Picks
  /\ \A p \in Picks : imported[p] <= started /\ (Waits(p) => imported[p] < started)

LEMMA SettingsInvType == ImportInv /\ SettingsRest => SettingsTypeOK
<1> SUFFICES ASSUME ImportInv, SettingsRest PROVE SettingsTypeOK
  OBVIOUS
<1>1. /\ csv \in CsvType /\ excel \in ExcelType /\ dialog \in DialogType
      /\ restoreFile \in Pick /\ call \in [Calls -> CallType]
  BY DEF ImportInv, ImportsTyped
<1>2. imported \in [Picks -> 0..MaxCalls]
  <2>1. imported \in [Picks -> Nat] /\ started \in 0..MaxCalls /\ \A p \in Picks : imported[p] <= started
    BY DEF ImportInv, ImportsTyped, SettingsRest
  <2>2. \A p \in Picks : imported[p] \in 0..MaxCalls
    BY <2>1, SettingsAssumption
  <2> QED
    BY <2>1, <2>2
<1>3. {csvResult, busy, reloading} \subseteq BOOLEAN
  BY Zenon DEF SettingsRest
<1>4. /\ dialog.file # None <=> dialog.kind = "restoreConfirm"
      /\ mode \in {"none", "merge", "replace"}
      /\ started \in 0..MaxCalls
      /\ unpicked \subseteq Picks /\ warned \subseteq Picks
  BY DEF SettingsRest
<1> QED
  BY Zenon, <1>1, <1>2, <1>3, <1>4 DEF SettingsTypeOK, CsvType, ExcelType, DialogType, CallType

\* a request that is sent may be one more commit that waits
LEMMA SendCounted ==
  ASSUME ImportInv, SettingsRest, NEW op \in Ops, NEW file \in Pick, Send(op, file), UNCHANGED imported,
         op = "decrypt" => file # None
  PROVE  /\ started' \in 0..MaxCalls
         /\ \A c \in Calls : call'[c].op = "decrypt" => call'[c].file # None
         /\ \A p \in Picks : imported'[p] <= started' /\ (Waits(p)' => imported'[p] < started')
<1>1. PICK c \in Calls : /\ call[c] = NoCall /\ \A d \in Calls \ {c} : call'[d] = call[d]
                         /\ call'[c] = [op |-> op, file |-> file, answered |-> FALSE]
  BY RequestSent DEF ImportInv
<1>2. /\ started' = started + 1 /\ started' \in 0..MaxCalls /\ started \in Nat
      /\ \A p \in Picks : imported[p] \in Nat /\ imported[p] <= started
  BY SettingsAssumption DEF Send, SettingsRest, ImportInv, ImportsTyped
<1>3. \A p \in Picks : imported'[p] <= started' /\ imported'[p] < started'
  BY <1>2
<1>4. \A d \in Calls : call'[d].op = "decrypt" => call'[d].file # None
  BY <1>1 DEF SettingsRest
<1> QED
  BY <1>2, <1>3, <1>4

\* fewer requests under way, or none new, wait for no more
LEMMA FewerWait ==
  ASSUME SettingsRest, UNCHANGED <<started, imported>>,
         \A c \in Calls : call'[c] = call[c] \/ call'[c] = NoCall
  PROVE  /\ started' \in 0..MaxCalls
         /\ \A c \in Calls : call'[c].op = "decrypt" => call'[c].file # None
         /\ \A p \in Picks : imported'[p] <= started' /\ (Waits(p)' => imported'[p] < started')
<1>1. \A p : Waits(p)' => Waits(p)
  BY DEF Waits, NoCall, Commits
<1>2. \A c \in Calls : call'[c].op = "decrypt" => call'[c].file # None
  BY DEF SettingsRest, NoCall
<1> QED
  BY <1>1, <1>2 DEF SettingsRest

LEMMA SettingsRestStep ==
  ASSUME ImportInv, SettingsRest, [SettingsNext]_settingsVars
  PROVE  SettingsRest'
<1> USE DEF dialogs
<1> DEFINE Flags == /\ csvResult' \in BOOLEAN /\ busy' \in BOOLEAN /\ reloading' \in BOOLEAN
                    /\ mode' \in {"none", "merge", "replace"}
                    /\ unpicked' \subseteq Picks /\ warned' \subseteq Picks
           DialogOk == dialog'.file # None <=> dialog'.kind = "restoreConfirm"
           Counts == /\ started' \in 0..MaxCalls
                     /\ \A c \in Calls : call'[c].op = "decrypt" => call'[c].file # None
                     /\ \A p \in Picks : imported'[p] <= started' /\ (Waits(p)' => imported'[p] < started')
<1>0. SUFFICES Flags /\ DialogOk /\ Counts
  BY DEF SettingsRest
<1>a. /\ csvResult \in BOOLEAN /\ busy \in BOOLEAN /\ reloading \in BOOLEAN
      /\ mode \in {"none", "merge", "replace"}
      /\ unpicked \subseteq Picks /\ warned \subseteq Picks
      /\ dialog.file # None <=> dialog.kind = "restoreConfirm"
  BY DEF SettingsRest
<1>b. /\ call \in [Calls -> CallType] /\ csv.file \in Pick /\ excel.preview \in Pick /\ restoreFile \in Pick
      /\ dialog.file \in Pick
  BY DEF ImportInv, ImportsTyped, CsvType, ExcelType, DialogType
<1>c. /\ \A op \in Ops, file \in Pick :
           Send(op, file) /\ UNCHANGED imported /\ (op = "decrypt" => file # None) => Counts
      /\ UNCHANGED <<started, imported>> /\ (\A c \in Calls : call'[c] = call[c] \/ call'[c] = NoCall) => Counts
  BY SendCounted, FewerWait
<1>d. UNCHANGED <<started, imported, call>> => Counts
  BY <1>c
<1> HIDE DEF Counts
<1>1. CASE PickCsv \/ PickImport
  <2>1. PICK op \in {"csvPreview", "excelPreview"}, file \in Picks : PickFile(file) /\ Send(op, file)
    BY <1>1 DEF PickCsv, PickImport
  <2>2. op \in Ops /\ file \in Pick /\ op # "decrypt" /\ UNCHANGED imported
    BY <1>1, <2>1, NothingPicked DEF Ops, PickCsv, PickImport
  <2>3. Counts
    BY <1>c, <2>1, <2>2
  <2>4. Flags /\ DialogOk
    BY <1>a, <1>1, <2>1 DEF PickCsv, PickImport, PickFile
  <2> QED
    BY <2>3, <2>4
<1>2. CASE CloseCsv \/ CloseResult \/ CloseImport
  BY <1>2, <1>a, <1>d DEF CloseCsv, CloseResult, CloseImport
<1>3. CASE CommitCsv
  <2>1. Counts
    BY <1>3, <1>b, <1>c DEF CommitCsv, Ops
  <2> QED
    BY <1>3, <1>a, <2>1 DEF CommitCsv
<1>4. CASE CommitImport
  <2>1. Counts
    BY <1>4, <1>b, <1>c DEF CommitImport, Ops
  <2> QED
    BY <1>4, <1>a, <2>1 DEF CommitImport
<1>5. CASE OpenDialog \/ CloseDialog \/ ChooseMode \/ CancelMode
  <2>1. Counts
    BY <1>5, <1>d DEF OpenDialog, CloseDialog, ChooseMode, CancelMode
  <2>2. Flags /\ DialogOk
    BY <1>5, <1>a DEF OpenDialog, CloseDialog, ChooseMode, CancelMode, NoDialog
  <2> QED
    BY <2>1, <2>2
<1>6. CASE PickRestore
  <2>1. Counts
    BY <1>6, <1>d DEF PickRestore
  <2>2. Flags /\ DialogOk
    BY <1>6, <1>a DEF PickRestore, PickFile
  <2> QED
    BY <2>1, <2>2
<1>7. CASE OnChangeMaster \/ OnExport \/ OnRestorePreview \/ DoCommitWithMaster
  <2>1. Counts
    BY <1>7, <1>b, <1>c, NothingPicked DEF OnChangeMaster, OnExport, OnRestorePreview, DoCommitWithMaster,
       MultiPasswordPrompt, Ops
  <2>2. Flags /\ DialogOk
    BY <1>7, <1>a DEF OnChangeMaster, OnExport, OnRestorePreview, DoCommitWithMaster, MultiPasswordPrompt
  <2> QED
    BY <2>1, <2>2
<1>8. CASE Reload
  <2>1. Counts
    BY <1>8, <1>c DEF Reload
  <2> QED
    BY <1>8, <1>a, <2>1 DEF Reload, NoDialog
<1>9. ASSUME NEW c \in Calls, ServeCall(c) PROVE Flags /\ DialogOk /\ Counts
  <2>1. /\ \A d \in Calls \ {c} : call'[d] = call[d]
        /\ call'[c].op = call[c].op /\ call'[c].file = call[c].file /\ call'[c].answered = TRUE
        /\ call[c].answered = FALSE
    BY <1>9, <1>b DEF ServeCall, CallType
  <2>2. \A p : Waits(p)' => Waits(p)
    BY <2>1 DEF Waits
  <2>3. \A d \in Calls : call'[d].op = "decrypt" => call'[d].file # None
    BY <2>1 DEF SettingsRest
  <2>4. started' = started /\ started \in 0..MaxCalls /\ started \in Nat /\ imported \in [Picks -> Nat]
    BY <1>9, SettingsAssumption DEF ServeCall, SettingsRest, ImportInv, ImportsTyped
  <2>5. CASE call[c].op \in Commits
    <3>a. PICK p \in Picks : p = call[c].file
      BY <2>5 DEF ImportInv, OneCsv, OneExcel, CsvOps, ExcelOps, Commits
    <3>1. p \in Picks /\ Waits(p)
      BY <2>1, <2>5, <3>a DEF Waits
    <3>2. ~Waits(p)'
      <4>1. ASSUME NEW d \in Calls, d # c, call[d].op \in Commits, call[d].file = p PROVE FALSE
        <5>1. CASE call[c].op = "csvCommit" /\ call[d].op = "csvCommit"
          BY <3>a, <4>1, <5>1 DEF ImportInv, OneCsv, CsvOps
        <5>2. CASE call[c].op = "excelCommit" /\ call[d].op = "excelCommit"
          BY <3>a, <4>1, <5>2 DEF ImportInv, OneExcel, ExcelOps
        <5>3. CASE call[c].op # call[d].op
          BY <2>5, <3>a, <4>1, <5>3 DEF ImportInv, Owned, CsvHas, ExcelHas, CsvOps, ExcelOps, Commits
        <5> QED
          BY <2>5, <4>1, <5>1, <5>2, <5>3 DEF Commits
      <4> QED
        BY <2>1, <3>a, <4>1 DEF Waits
    <3>3. imported[p] < started
      BY <3>1 DEF SettingsRest
    <3>4. imported' = [imported EXCEPT ![p] = imported[p] + 1]
      BY <1>9, <2>5, <3>a DEF ServeCall, Commits
    <3>5. ASSUME NEW q \in Picks PROVE imported'[q] <= started' /\ (Waits(q)' => imported'[q] < started')
      <4>1. imported[q] <= started /\ (Waits(q) => imported[q] < started)
        BY DEF SettingsRest
      <4>2. CASE q = p
        <5>1. imported[p] + 1 <= started
          BY <2>4, <3>1, <3>3
        <5>2. imported'[p] = imported[p] + 1
          BY <2>4, <3>1, <3>4
        <5>3. imported'[p] <= started'
          BY <2>4, <5>1, <5>2
        <5> QED
          BY <3>2, <4>2, <5>3 DEF Waits
      <4>3. CASE q # p
        BY <2>2, <2>4, <3>4, <4>1, <4>3
      <4> QED
        BY <4>2, <4>3
    <3>6. Counts
      BY <2>3, <2>4, <3>5 DEF Counts
    <3> QED
      BY <1>9, <1>a, <3>6 DEF ServeCall
  <2>6. CASE call[c].op \notin Commits
    <3>1. UNCHANGED imported
      BY <1>9, <2>6 DEF ServeCall, Commits
    <3>2. Counts
      BY <2>2, <2>3, <2>4, <3>1 DEF Counts, SettingsRest
    <3> QED
      BY <1>9, <1>a, <3>2 DEF ServeCall
  <2> QED
    BY <2>5, <2>6
<1>10. ASSUME NEW c \in Calls, Answers(c) PROVE Flags /\ DialogOk /\ Counts
  <2>1. Counts
    BY <1>10, <1>b, <1>c DEF Answers
  <2>2. Flags
    BY <1>10, <1>a DEF Answers, AnswerCsv, AnswerExcel, AnswerDialog
  <2>3. DialogOk
    <3>1. CASE AnswerCsv(c) \/ AnswerExcel(c)
      BY <1>a, <3>1 DEF AnswerCsv, AnswerExcel
    <3>2. CASE AnswerDialog(c) /\ call[c].op = "decrypt"
      <4>1. call[c].file # None
        BY <3>2 DEF SettingsRest
      <4>2. dialog' = [kind |-> "restoreConfirm", file |-> call[c].file]
        BY <3>2 DEF AnswerDialog
      <4> QED
        BY <4>1, <4>2
    <3>3. CASE AnswerDialog(c) /\ call[c].op # "decrypt"
      <4>1. dialog' = [kind |-> "none", file |-> None]
        BY <3>3 DEF AnswerDialog, NoDialog
      <4> QED
        BY <4>1
    <3> QED
      BY <1>10, <3>1, <3>2, <3>3 DEF Answers
  <2> QED
    BY <2>1, <2>2, <2>3
<1>11. ASSUME NEW c \in Calls, CallLost(c) PROVE Flags /\ DialogOk /\ Counts
  <2>1. Counts
    BY <1>11, <1>b, <1>c DEF CallLost
  <2>2. call[c].op \in Commits => call[c].file \in Picks
    BY DEF ImportInv, OneCsv, OneExcel, CsvOps, ExcelOps, Commits
  <2>3. warned' \subseteq Picks
    BY <1>11, <1>a, <2>2 DEF CallLost, Commits
  <2> QED
    BY <1>11, <1>a, <2>1, <2>3 DEF CallLost
<1>12. CASE UNCHANGED settingsVars
  <2>1. Counts
    BY <1>12, <1>d DEF settingsVars
  <2> QED
    BY <1>12, <1>a, <2>1 DEF settingsVars
<1> QED
  BY <1>1, <1>2, <1>3, <1>4, <1>5, <1>6, <1>7, <1>8, <1>9, <1>10, <1>11, <1>12
  DEF SettingsNext, CsvImport, ExcelImport, Passwords, Restore

-----------------------------------------------------------------------------
(* The behaviours that are checked: one of the pages, whichever is mounted. *)
PagesInv == RecordsInv /\ ImportInv /\ SettingsRest

LEMMA PagesStay == PagesSpec => []PagesInv
<1>1. PagesInit => PagesInv
  <2> SUFFICES ASSUME PagesInit PROVE PagesInv
    OBVIOUS
  <2>1. RecordsInv /\ ImportInv
    BY RecordsInitInv, ImportInitInv DEF PagesInit
  <2>2. SettingsRest
    <3> SUFFICES ASSUME SettingsInit PROVE SettingsRest
      BY DEF PagesInit
    <3>1. \A c \in Calls : call[c].op = "idle"
      BY DEF SettingsInit, NoCall
    <3>2. \A p \in Picks : imported[p] <= started /\ ~Waits(p)
      <4>1. \A p \in Picks : imported[p] = 0 /\ started = 0
        BY DEF SettingsInit
      <4> QED
        BY <3>1, <4>1 DEF Waits, Commits
    <3>3. dialog.kind = "none" /\ dialog.file = None
      BY DEF SettingsInit, NoDialog
    <3>4. started \in 0..MaxCalls
      BY SettingsAssumption DEF SettingsInit
    <3>5. \A c \in Calls : call[c].op # "decrypt"
      BY <3>1
    <3> QED
      BY <3>2, <3>3, <3>4, <3>5 DEF SettingsInit, SettingsRest
  <2> QED
    BY <2>1, <2>2 DEF PagesInv
<1>2. PagesInv /\ [PagesNext]_<<recordVars, settingsVars>> => PagesInv'
  <2> SUFFICES ASSUME PagesInv, [PagesNext]_<<recordVars, settingsVars>> PROVE PagesInv'
    OBVIOUS
  <2>1. [RecordsNext]_recordVars /\ [SettingsNext]_settingsVars
    BY DEF PagesNext
  <2>2. RecordsInv'
    BY <2>1, RecordsTypeStep DEF PagesInv
  <2>3. ImportInv'
    BY <2>1, StepInv DEF PagesInv
  <2>4. SettingsRest'
    BY <2>1, SettingsRestStep DEF PagesInv
  <2> QED
    BY <2>2, <2>3, <2>4 DEF PagesInv
<1> QED
  BY <1>1, <1>2, PTL DEF PagesSpec

\* The pages keep their types: a form is that of the row its dialog is for,
\* the confirmation of a restore holds a file, and no pick is imported more
\* often than requests were sent.
THEOREM PagesTypeCorrect == PagesSpec => []PagesTypeOK
<1>1. PagesInv => PagesTypeOK
  BY RecordsInvType, SettingsInvType DEF PagesInv, PagesTypeOK
<1> QED
  BY <1>1, PagesStay, PTL

\* With nothing under way a page shows the table, but for what others changed,
\* what failed, and listings that overtook each other.
THEOREM PagesSettle == PagesSpec => []PageSettles
<1>1. PagesInit => RecordsSettleInv
  <2> SUFFICES ASSUME RecordsInit PROVE RecordsSettleInv
    BY DEF PagesInit
  <2>1. PICK c \in Handlers :
          handler = [d \in Handlers |-> IF d = c THEN [IdleHandler EXCEPT !.op = "load", !.stage = "list"]
                                     ELSE IdleHandler]
    BY DEF RecordsInit
  <2>2. \A d \in Handlers : handler[d].stage \in {"end", "list"} /\ (handler[d] # IdleHandler => d = c)
    BY <2>1 DEF IdleHandler
  <2> QED
    BY <2>2 DEF RecordsInit, RecordsSettleInv, LoadsOnce
<1>2. PagesInv /\ RecordsSettleInv /\ [PagesNext]_<<recordVars, settingsVars>> => RecordsSettleInv'
  BY RecordsSettleStep DEF PagesNext, PagesInv
<1>3. RecordsSettleInv => PageSettles
  <2> SUFFICES ASSUME RecordsSettleInv, \A c \in Handlers : handler[c] = IdleHandler, lastShown, ~unlisted
               PROVE  listed = table
    BY DEF PageSettles
  <2>1. ~RecordsPending
    BY DEF RecordsPending, Listing, IdleHandler
  <2> QED
    BY <2>1 DEF RecordsSettleInv, RecordsSettled
<1> QED
  BY <1>1, <1>2, <1>3, PagesStay, PTL DEF PagesSpec

\* No dialog changes a row other than the one it was opened for, while that
\* row exists, though ids are used again and the copies are old.
THEOREM RecordWritesAim == PagesSpec => WritesHitTheirRow
<1>1. PagesInit => PlacedRows
  <2> SUFFICES ASSUME RecordsInit PROVE PlacedRows
    BY DEF PagesInit
  <2>1. rowsBorn \in {1, 2}
    BY DEF RecordsInit
  <2>2. \A i \in RowIds : table[i] # NoRow => table[i].serial = i /\ i \in 0..rowsBorn /\ i # 0
    <3> SUFFICES ASSUME NEW i \in RowIds, table[i] # NoRow
                 PROVE  table[i].serial = i /\ i \in 0..rowsBorn /\ i # 0
      OBVIOUS
    <3>1. i \in Nat /\ i # 0 /\ ~(i > rowsBorn) /\ table[i].serial = i
      BY RowNulls DEF RecordsInit
    <3> QED
      BY <2>1, <3>1
  <2>3. PlacedTable(table)
    BY <2>2 DEF PlacedTable, PlacedRow
  <2>4. PlacedRowCopy(NoRowCopy) /\ PlacedTable(EmptyTable)
    BY <2>1, <2>2 DEF PlacedRowCopy, PlacedRow, NoRowCopy, PlacedTable, EmptyTable
  <2>5. \A c \in Handlers : handler[c].row = NoRowCopy /\ handler[c].rows = EmptyTable
    BY DEF RecordsInit, IdleHandler
  <2> QED
    BY <2>3, <2>4, <2>5 DEF RecordsInit, PlacedRows, Shut, Nothing
<1>2. PagesInv /\ PlacedRows /\ [PagesNext]_<<recordVars, settingsVars>> => PlacedRows'
  BY PlacedRowsStep DEF PagesNext, PagesInv
<1>3. PagesInv /\ PlacedRows /\ [PagesNext]_<<recordVars, settingsVars>>
        => [\A c \in Handlers, id \in RowIds :
              handler'[c] # handler[c] /\ RowHit(id) =>
                /\ handler[c].row.id = id
                /\ handler[c].row.serial = table[id].serial \/ ~RowLives(handler[c].row.serial)]_recordVars
  <2> SUFFICES ASSUME PagesInv, PlacedRows, [RecordsNext]_recordVars,
                      NEW c \in Handlers, NEW id \in RowIds, handler'[c] # handler[c], RowHit(id)
               PROVE  /\ handler[c].row.id = id
                      /\ handler[c].row.serial = table[id].serial \/ ~RowLives(handler[c].row.serial)
    BY DEF PagesNext
  <2>1. handler[c].row.id = id
    BY TableStepped DEF PagesInv, PlacedRows
  <2>2. handler[c].row.serial = table[id].serial \/ ~RowLives(handler[c].row.serial)
    BY <2>1 DEF PlacedRows, PlacedRowCopy, PlacedRow, RowLives
  <2> QED
    BY <2>1, <2>2
<1> QED
  BY <1>1, <1>2, <1>3, PagesStay, PTL DEF PagesSpec, WritesHitTheirRow
=============================================================================
