----------------------------- MODULE RecordPages -----------------------------
(***************************************************************************)
(* The pages of the web client that list the rows of one table: sites,     *)
(* assets, network reference, change log, users, audit log and dashboard.  *)
(* One of them is mounted; mountedPage says which.                         *)
(*                                                                         *)
(* The pages share one form of handler.  A dialog is opened on a copy of a *)
(* listed row, its button starts a request that carries the id of the      *)
(* copy, the answer closes the dialog and starts a listing, and whichever  *)
(* listing arrives last is shown.  No button is disabled meanwhile and no  *)
(* answer is matched with the dialog it belongs to.  Others change the     *)
(* table too, and SQLite gives the id of a deleted last row to the next    *)
(* one: serial tells rows apart that have had the same id.                 *)
(***************************************************************************)
EXTENDS Integers, FiniteSets, FiniteSetsExt

CONSTANTS
  Pages,        \* the pages that may be mounted
  MaxRowId,     \* bound: ids of rows are 1..MaxRowId
  MaxRows,      \* bound: rows ever stored
  MaxSteps,     \* bound: requests started, and changes made elsewhere
  BlankRow,     \* the columns of an empty form
  Stored, TypedRow,
  Retired,      \* the columns of a deactivated account
  Sites,        \* sites a location admin may be assigned
  Handlers,     \* identifiers of promise chains
  NoRow

ASSUME PagesAssumption ==
  /\ {MaxRowId, MaxRows} \subseteq Nat \ {0, 1} /\ MaxSteps \in Nat
  /\ Pages \subseteq {"sites", "assets", "network", "changes", "users", "audit", "dashboard",
                "settings"}  \* whose own module is SettingsPage

VARIABLES
  mountedPage,  \* the mounted page
  table,        \* the rows the server has
  rowsBorn,     \* rows stored so far
  listed,       \* items, users or data: the rows shown
  failed,       \* err of the dashboard
  editing,      \* editing: whether the form is open, and for which row
  form,         \* form: what it holds; left over from a closed dialog it is never seen
  asked,        \* del, deact, resetFor or assignFor, and the boxes of SiteAssignModal
  handler,      \* the promise chains of the handlers
  steps,        \* requests and foreign changes so far
  lastListing,  \* the chain whose listing the server answered last
  lastShown,    \* that answer is the one shown
  unlisted      \* a change the page's own listings do not follow, and none read since

shown == <<listed, failed, editing, form, asked>>
listings == <<lastListing, lastShown, unlisted>>
recordVars == <<mountedPage, table, rowsBorn, shown, handler, steps, listings>>

RowIds == 1..MaxRowId
RowText == {BlankRow, Stored, TypedRow, Retired}
Row == [serial: 1..MaxRows, text: RowText, sites: SUBSET Sites, mustChange: BOOLEAN]
RowTable == [RowIds -> Row \cup {NoRow}]
RowCopy == [id: RowIds \cup {0}, serial: 0..MaxRows]
Sent == [text: RowText, sites: SUBSET Sites]
EmptyTable == [id \in RowIds |-> NoRow]
NoRowCopy == [id |-> 0, serial |-> 0]
NoData == [text |-> BlankRow, sites |-> {}]
Shut == [open |-> FALSE, row |-> NoRowCopy]
Empty == [id |-> 0, text |-> BlankRow]
Nothing == [op |-> "none", row |-> NoRowCopy, sites |-> {}]
IdleHandler == [op |-> "idle", row |-> NoRowCopy, sent |-> NoData, stage |-> "end", rows |-> EmptyTable]

RecordsTypeOK ==
  /\ mountedPage \in Pages /\ table \in RowTable /\ listed \in RowTable
  /\ rowsBorn \in 0..MaxRows /\ steps \in 0..MaxSteps
  /\ {failed, lastShown, unlisted} \subseteq BOOLEAN
  /\ editing \in [open: BOOLEAN, row: RowCopy] /\ form \in [id: RowIds \cup {0}, text: RowText]
  /\ asked \in [op: {"none", "delete", "deactivate", "reset", "assign"}, row: RowCopy, sites: SUBSET Sites]
  /\ handler \in
       [Handlers -> [op: {"idle", "load", "get", "save", "delete", "deactivate", "reset", "assign"}, row: RowCopy,
                     sent: Sent, stage: {"end", "call", "done", "list", "rows"}, rows: RowTable]]
  /\ lastListing \in Handlers \cup {"none"}
  /\ editing.open => form.id = editing.row.id  \* a form is that of the row its dialog is for

RowsOf(t) == {id \in RowIds : t[id] # NoRow}
RowCopyOf(t, id) == [id |-> id, serial |-> t[id].serial]

-----------------------------------------------------------------------------
(* What the handlers of the server do to the table.                        *)

InsertRow(text) ==
  LET id == Max({0} \cup RowsOf(table)) + 1 IN
  /\ id \in RowIds /\ rowsBorn < MaxRows
  /\ table' = [table EXCEPT ![id] = [serial |-> rowsBorn + 1, text |-> text, sites |-> {},
                                     mustChange |-> mountedPage = "users"]]
  /\ rowsBorn' = rowsBorn + 1
Change(id, row) ==
  /\ table[id] # NoRow
  /\ table' = [table EXCEPT ![id] = row]
  /\ UNCHANGED rowsBorn

\* the plain resources answer 200 for a row that is not there
TableEffect(op, row, sent) ==
  \/ op = "save" /\ row.id = 0 /\ InsertRow(sent.text)
  \/ op = "save" /\ row.id # 0 /\ Change(row.id, [table[row.id] EXCEPT !.text = sent.text])
  \/ /\ op = "save" /\ row.id # 0 /\ table[row.id] = NoRow /\ mountedPage \in {"network", "changes"}
     /\ UNCHANGED <<table, rowsBorn>>
  \/ op = "delete" /\ Change(row.id, NoRow)
  \/ op = "deactivate" /\ Change(row.id, [table[row.id] EXCEPT !.text = Retired])
  \/ op = "reset" /\ Change(row.id, [table[row.id] EXCEPT !.mustChange = TRUE])
  \/ op = "assign" /\ Change(row.id, [table[row.id] EXCEPT !.sites = sent.sites])

\* another user, an import or the server's own audit
Elsewhere ==
  /\ steps < MaxSteps /\ steps' = steps + 1
  /\ \/ InsertRow(Stored)
     \/ \E id \in RowIds : mountedPage \notin {"users", "audit"} /\ Change(id, NoRow)
  /\ unlisted' = TRUE
  /\ UNCHANGED <<mountedPage, shown, handler, lastListing, lastShown>>

-----------------------------------------------------------------------------
(* Dialogs.  Those that are open lie over the page.                        *)

PageUncovered == ~editing.open /\ asked = Nothing

OpenNew ==
  /\ PageUncovered
  /\ editing' = [open |-> TRUE, row |-> NoRowCopy]
  /\ form' = Empty
  /\ UNCHANGED <<mountedPage, table, rowsBorn, listed, failed, asked, handler, steps, listings>>

OpenEdit ==
  /\ PageUncovered
  /\ \E id \in RowsOf(listed) :
       /\ editing' = [open |-> TRUE, row |-> RowCopyOf(listed, id)]
       /\ form' = [id |-> id, text |-> listed[id].text]
  /\ UNCHANGED <<mountedPage, table, rowsBorn, listed, failed, asked, handler, steps, listings>>

TypeField ==
  /\ editing.open
  /\ form' = [form EXCEPT !.text = TypedRow]
  /\ UNCHANGED <<mountedPage, table, rowsBorn, listed, failed, editing, asked, handler, steps, listings>>

CloseForm ==
  /\ editing.open
  /\ editing' = Shut /\ form' = Empty
  /\ UNCHANGED <<mountedPage, table, rowsBorn, listed, failed, asked, handler, steps, listings>>

Ask(ops) ==
  /\ PageUncovered
  /\ \E op \in ops, id \in RowsOf(listed) :
       asked' = [op |-> op, row |-> RowCopyOf(listed, id), sites |-> IF op = "assign" THEN listed[id].sites ELSE {}]
  /\ UNCHANGED <<mountedPage, table, rowsBorn, listed, failed, editing, form, handler, steps, listings>>

ToggleSite ==
  /\ asked.op = "assign"
  /\ \E s \in Sites :
       asked' = [asked EXCEPT !.sites = IF s \in @ THEN @ \ {s} ELSE @ \cup {s}]
  /\ UNCHANGED <<mountedPage, table, rowsBorn, listed, failed, editing, form, handler, steps, listings>>

Dismiss ==
  /\ asked # Nothing
  /\ asked' = Nothing
  /\ UNCHANGED <<mountedPage, table, rowsBorn, listed, failed, editing, form, handler, steps, listings>>

-----------------------------------------------------------------------------
(* Promise chains: a request, what follows its answer, a listing.          *)

StartRequest(op, row, sent, stage) ==
  /\ steps < MaxSteps /\ steps' = steps + 1
  /\ \E c \in Handlers :
       /\ handler[c] = IdleHandler
       /\ handler' = [handler EXCEPT ![c] = [op |-> op, row |-> row, sent |-> sent, stage |-> stage,
                                             rows |-> EmptyTable]]
  /\ UNCHANGED <<mountedPage, table, rowsBorn, shown, listings>>

\* the request names the row of the form; serial is that of the row the dialog is for
SaveRow == /\ editing.open
        /\ StartRequest("save", [editing.row EXCEPT !.id = form.id], [NoData EXCEPT !.text = form.text], "call")
SaveNamedRow == form.text # BlankRow /\ SaveRow
Confirm == asked # Nothing /\ StartRequest(asked.op, asked.row, [NoData EXCEPT !.sites = asked.sites], "call")
Refresh == PageUncovered /\ StartRequest("load", NoRowCopy, NoData, "list")
\* openEdit of the assets asks for the whole row before it opens the form
FetchEdit == PageUncovered /\ \E id \in RowsOf(listed) : StartRequest("get", RowCopyOf(listed, id), NoData, "call")

Serve(c) ==
  /\ handler[c].stage = "call"
  /\ \/ /\ handler[c].op = "get" /\ table[handler[c].row.id] # NoRow
        /\ handler' = [handler EXCEPT ![c].stage = "done", ![c].sent.text = table[handler[c].row.id].text]
        /\ UNCHANGED <<table, rowsBorn>>
     \/ /\ TableEffect(handler[c].op, handler[c].row, handler[c].sent)
        /\ handler' = [handler EXCEPT ![c].stage = "done"]
  /\ UNCHANGED <<mountedPage, shown, steps, listings>>

\* refused or lost before it ran, or its answer lost after: the dialog stays
RequestFails(c) ==
  /\ handler[c].stage \in {"call", "done"}
  /\ handler' = [handler EXCEPT ![c] = IdleHandler]
  /\ unlisted' = (unlisted \/ (handler[c].stage = "done" /\ handler[c].op # "get"))
  /\ UNCHANGED <<mountedPage, table, rowsBorn, shown, steps, lastListing, lastShown>>

\* Mutant of Close: a deletion drops its row from the list of the page and asks for no listing
CloseUnlisted(c) ==
  /\ handler[c].stage = "done" /\ handler[c].op # "get"
  /\ editing' = IF handler[c].op = "save" THEN Shut ELSE editing
  /\ form' = IF handler[c].op = "save" THEN Empty ELSE form
  /\ asked' = IF handler[c].op = asked.op THEN Nothing ELSE asked
  /\ listed' = IF handler[c].op = "delete" THEN [listed EXCEPT ![handler[c].row.id] = NoRow] ELSE listed
  /\ handler' = IF handler[c].op = "delete" THEN [handler EXCEPT ![c] = IdleHandler]
              ELSE [handler EXCEPT ![c].stage = "list"]
  /\ UNCHANGED <<mountedPage, table, rowsBorn, failed, steps, listings>>

\* the answer closes the dialog of its kind, whichever row that is for by now
Close(c) ==
  /\ handler[c].stage = "done" /\ handler[c].op # "get"
  /\ editing' = IF handler[c].op = "save" THEN Shut ELSE editing
  /\ form' = IF handler[c].op = "save" THEN Empty ELSE form
  /\ asked' = IF handler[c].op = asked.op THEN Nothing ELSE asked
  /\ handler' = [handler EXCEPT ![c].stage = "list"]
  /\ UNCHANGED <<mountedPage, table, rowsBorn, listed, failed, steps, listings>>

\* Mutant of OpenFetched: the answer fills the form of a dialog that is open by then
OpenFetchedInto(c) ==
  /\ handler[c].stage = "done" /\ handler[c].op = "get"
  /\ editing' = IF editing.open THEN editing ELSE [open |-> TRUE, row |-> handler[c].row]
  /\ form' = [id |-> handler[c].row.id, text |-> handler[c].sent.text]
  /\ handler' = [handler EXCEPT ![c] = IdleHandler]
  /\ UNCHANGED <<mountedPage, table, rowsBorn, listed, failed, asked, steps, listings>>

\* the whole asset arrives and takes the place of any form that is open
OpenFetched(c) ==
  /\ handler[c].stage = "done" /\ handler[c].op = "get"
  /\ editing' = [open |-> TRUE, row |-> handler[c].row]
  /\ form' = [id |-> handler[c].row.id, text |-> handler[c].sent.text]
  /\ handler' = [handler EXCEPT ![c] = IdleHandler]
  /\ UNCHANGED <<mountedPage, table, rowsBorn, listed, failed, asked, steps, listings>>

ReadTable(c) ==
  /\ handler[c].stage = "list"
  /\ handler' = [handler EXCEPT ![c].stage = "rows", ![c].rows = table]
  /\ lastListing' = c /\ lastShown' = FALSE /\ unlisted' = FALSE
  /\ UNCHANGED <<mountedPage, table, rowsBorn, shown, steps>>

Show(c) ==
  /\ handler[c].stage = "rows"
  /\ listed' = handler[c].rows /\ lastShown' = (lastListing = c)
  /\ handler' = [handler EXCEPT ![c] = IdleHandler]
  /\ UNCHANGED <<mountedPage, table, rowsBorn, failed, editing, form, asked, steps, lastListing, unlisted>>

\* nothing catches a listing that fails: the page keeps what it showed
ListingFails(c) ==
  /\ handler[c].stage \in {"list", "rows"} /\ mountedPage # "dashboard"
  /\ handler' = [handler EXCEPT ![c] = IdleHandler]
  /\ unlisted' = (unlisted \/ handler[c].stage = "list")
  /\ UNCHANGED <<mountedPage, table, rowsBorn, shown, steps, lastListing, lastShown>>

-----------------------------------------------------------------------------
(* The pages: which handlers their render offers.                          *)

Dialog == OpenNew \/ TypeField \/ CloseForm \/ Dismiss \/ Confirm
SitesPage == mountedPage = "sites" /\ (Dialog \/ OpenEdit \/ SaveNamedRow \/ Ask({"delete"}))
AssetsPage == mountedPage = "assets" /\ (Dialog \/ FetchEdit \/ SaveNamedRow \/ Ask({"delete"}))
NetworkPage == mountedPage = "network" /\ (Dialog \/ OpenEdit \/ SaveRow \/ Ask({"delete"}))
ChangeLogPage == mountedPage = "changes" /\ (Dialog \/ OpenEdit \/ SaveRow \/ Ask({"delete"}))
\* whose roles allow which button is left open: any account may have any
UserManagementPage ==
  mountedPage = "users" /\ (Dialog \/ OpenEdit \/ SaveNamedRow \/ Ask({"deactivate", "reset", "assign"}) \/ ToggleSite)
AuditPage == mountedPage = "audit" /\ Refresh
\* the dashboard loads once; a failure replaces it for good
DashboardPage(c) ==
  /\ mountedPage = "dashboard" /\ handler[c].stage \in {"list", "rows"}
  /\ failed' = TRUE
  /\ handler' = [handler EXCEPT ![c] = IdleHandler]
  /\ UNCHANGED <<mountedPage, table, rowsBorn, listed, editing, form, asked, steps, listings>>

\* mounting a page starts its load
RecordsInit ==
  /\ mountedPage \in Pages
  /\ rowsBorn = IF mountedPage = "users" THEN 1 ELSE 2
  /\ table = [id \in RowIds |-> IF id > rowsBorn THEN NoRow
                             ELSE [serial |-> id, text |-> Stored, sites |-> {}, mustChange |-> FALSE]]
  /\ steps = 0 /\ listed = EmptyTable /\ failed = FALSE
  /\ editing = Shut /\ form = Empty /\ asked = Nothing
  /\ \E c \in Handlers :
       handler = [d \in Handlers |-> IF d = c THEN [IdleHandler EXCEPT !.op = "load", !.stage = "list"]
                                     ELSE IdleHandler]
  /\ lastListing = "none" /\ lastShown = FALSE /\ unlisted = TRUE

Follows(c) == \/ Serve(c) \/ RequestFails(c) \/ Close(c) \/ OpenFetched(c)
              \/ ReadTable(c) \/ Show(c) \/ ListingFails(c) \/ DashboardPage(c)
RecordsNext ==
  \/ SitesPage \/ AssetsPage \/ NetworkPage \/ ChangeLogPage \/ UserManagementPage \/ AuditPage
  \/ Elsewhere \/ \E c \in Handlers : Follows(c)

-----------------------------------------------------------------------------
(* Properties.                                                             *)

\* A save, a deletion, a reset or an assignment changes no other row than the
\* one its dialog was opened for, while that row exists: the dialog, its form
\* and the answer of openEdit in AssetsPage may each come from another moment.
RowLives(serial) == \E id \in RowIds : table[id] # NoRow /\ table[id].serial = serial
RowHit(id) == table[id] # NoRow /\ table'[id] # table[id]
WritesHitTheirRow ==
  [][\A c \in Handlers, id \in RowIds :
       handler'[c] # handler[c] /\ RowHit(id) =>
         /\ handler[c].row.id = id
         /\ handler[c].row.serial = table[id].serial \/ ~RowLives(handler[c].row.serial)]_recordVars

\* With no request under way, the page shows the table, unless the answer of
\* an older listing has overtaken that of a newer one, or the table has
\* changed elsewhere or by a request that failed: every handler that changes
\* the table is followed by a listing that was read after the change.
PageSettles ==
  (\A c \in Handlers : handler[c] = IdleHandler) /\ lastShown /\ ~unlisted => listed = table
=============================================================================
