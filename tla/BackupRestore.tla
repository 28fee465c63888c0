----------------------------- MODULE BackupRestore -----------------------------
(***************************************************************************)
(* Export, restore preview and restore commit of the Go server             *)
(* (internal/server/backup_import.go), on top of SessionStore.             *)
(*                                                                         *)
(* The vault's database is abstracted to what a restore can get wrong: the *)
(* data key that the users table wraps, the sites, and the credentials,    *)
(* each with the site it refers to and the key its secret is encrypted     *)
(* under.  A backup file holds one such vault.  An export reads one table  *)
(* per statement, so other requests run in between; a restore writes in    *)
(* one transaction; what a commit does after it (its event row, locking    *)
(* the session) are steps of their own.                                    *)
(***************************************************************************)
EXTENDS SessionStore, FiniteSets

CONSTANTS VaultKey,  \* the data key of the vault at the start
          OldKey,    \* the data key of an earlier vault, of which a backup is kept
          Sites,     \* sites, by name
          NoSite,    \* site_id IS NULL
          Tokens,    \* the tokens a preview will draw
          StageTTL,  \* the ten minutes a preview stays good, in ticks
          MaxFiles,  \* bound on the number of backup files
          Threads,   \* requests served at the same time
          Calls      \* the handlers clients call in this instance

Commits == {"replace", "merge", "badmode"}      \* restoreCommit, by the mode in its body
AllCalls == {"export", "preview"} \cup Commits

VARIABLES db,       \* the contents of the database
          files,    \* the backup files kept outside
          stages,   \* stages[k]: what token k stands for
          history,  \* the tokens whose restore has a row in backup_events
          req       \* req[t]: the request served by t

vars == <<sess, db, files, stages, history, req>>

Credential == [site : Sites \cup {NoSite}, key : DekBytes]
Vault == [key : DekBytes, sites : SUBSET Sites, creds : SUBSET Credential]

\* Every credential refers to a site of the same vault (PRAGMA foreign_keys).
WholeVault(v) == \A c \in v.creds : c.site \in v.sites \cup {NoSite}

\* A token's entry; once it has left the map, phase tells what became of it.
NotIssued == [phase |-> "absent", holder |-> Nobody, payload |-> Nobody, left |-> 0]
Stage == {NotIssued} \cup [phase   : {"issued", "taken", "applied", "void"},
                           holder  : SessionIds,
                           payload : Vault,
                           left    : 0 .. StageTTL]

Request == [op      : AllCalls, sid : SessionIds,
            at      : {"authed", "verified", "users", "sites", "creds", "taken", "applied"},
            payload : Vault,                    \* an export's copy so far, or what is restored
            token   : Tokens \cup {Nobody}]
NoRequest == Nobody

ASSUME BackupAssumption == /\ {VaultKey, OldKey} \subseteq Keys
                           /\ StageTTL \in Nat \ {0}
                           /\ Calls \subseteq AllCalls
                           /\ NoSite \notin Sites
                           /\ Nobody \notin SessionIds \cup Tokens \cup Vault \cup Request

EmptyVault(k) == [key |-> k, sites |-> {}, creds |-> {}]

\* A vault just set up, beside one backup of an earlier vault.
Init == /\ StoreInit
        /\ db = EmptyVault(VaultKey)
        /\ \E S \in SUBSET Sites : \E C \in SUBSET [site : S \cup {NoSite}, key : {OldKey}] :
              files = {[key |-> OldKey, sites |-> S, creds |-> C]}
        /\ stages = [k \in Tokens |-> NotIssued]
        /\ history = {}
        /\ req = [t \in Threads |-> NoRequest]

Free(t) == req[t] = NoRequest
At(t, ops, phase) == ~Free(t) /\ req[t].op \in ops /\ req[t].at = phase
Moved(t, phase) == req' = [req EXCEPT ![t].at = phase]
Done(t) == req' = [req EXCEPT ![t] = NoRequest]

-------------------------------------------------------------------------------
\* login: the key unwrapped is the one the users table holds at that moment.
SignIn(s, u, r) == Create(s, u, r, db.key) /\ UNCHANGED <<db, files, stages, history, req>>
Poll(s) == GetFresh(s) /\ UNCHANGED <<db, files, stages, history, req>>
SignOut(s) == /\ Live(s)
              /\ Lock(s) \/ GetStale(s)
              /\ UNCHANGED <<db, files, stages, history, req>>

\* The rest of the application, while backups run.
CreateSite(s, n) == /\ GetFresh(s)
                    /\ db' = [db EXCEPT !.sites = @ \cup {n}]
                    /\ UNCHANGED <<files, stages, history, req>>

\* ON DELETE SET NULL: the credentials of the site stay, without a site.
DeleteSite(s, n) ==
    /\ GetFresh(s)
    /\ n \in db.sites
    /\ db' = [db EXCEPT !.sites = @ \ {n},
                        !.creds = {IF c.site = n THEN [c EXCEPT !.site = NoSite] ELSE c : c \in @}]
    /\ UNCHANGED <<files, stages, history, req>>

CreateCredential(s, n) ==
    /\ GetFresh(s)
    /\ n \in db.sites \cup {NoSite}
    /\ db' = [db EXCEPT !.creds = @ \cup {[site |-> n, key |-> sess[s].dek]}]
    /\ UNCHANGED <<files, stages, history, req>>

-------------------------------------------------------------------------------
\* authed; the body of a commit names a token.
Begin(t, s, op, k) ==
    /\ Free(t) /\ op \in Calls
    /\ GetFresh(s)
    /\ op \in Commits <=> k # Nobody
    /\ req' = [req EXCEPT ![t] = [op |-> op, sid |-> s, at |-> "authed", token |-> k,
                                  payload |-> EmptyVault(Zeroed)]]
    /\ UNCHANGED <<db, files, stages, history>>

\* verifyMaster: the password in the body is right, or it is not.
Verify(t) ==
    /\ At(t, AllCalls, "authed")
    /\ Moved(t, "verified") \/ Done(t)
    /\ UNCHANGED <<sess, db, files, stages, history>>

\* backupPayload: SELECT * FROM users, from sites, from credentials, one after the other.
ReadUsers(t) ==
    /\ At(t, {"export"}, "verified")
    /\ req' = [req EXCEPT ![t].at = "users", ![t].payload.key = db.key]
    /\ UNCHANGED <<sess, db, files, stages, history>>
ReadSites(t) ==
    /\ At(t, {"export"}, "users")
    /\ req' = [req EXCEPT ![t].at = "sites", ![t].payload.sites = db.sites]
    /\ UNCHANGED <<sess, db, files, stages, history>>
ReadCredentials(t) ==
    /\ At(t, {"export"}, "sites")
    /\ req' = [req EXCEPT ![t].at = "creds", ![t].payload.creds = db.creds]
    /\ UNCHANGED <<sess, db, files, stages, history>>

\* The envelope is sealed and the file sent; MaxFiles bounds how many are kept.
Export(t) ==
    /\ At(t, {"export"}, "creds")
    /\ Cardinality(files \cup {req[t].payload}) <= MaxFiles
    /\ files' = files \cup {req[t].payload}
    /\ Done(t)
    /\ UNCHANGED <<sess, db, stages, history>>

\* restorePreview: a file decrypts, and its payload is staged under a fresh token.
Preview(t, f, k) ==
    /\ At(t, {"preview"}, "verified")
    /\ stages[k].phase = "absent"
    /\ stages' = [stages EXCEPT ![k] = [phase |-> "issued", holder |-> req[t].sid,
                                        payload |-> f, left |-> StageTTL]]
    /\ Done(t)
    /\ UNCHANGED <<sess, db, files, history>>

\* What restoreCommit asks of the entry it has just taken out of the map.
Honoured(t, k) == /\ stages[k].holder = req[t].sid
                  /\ stages[k].left > 0
                  /\ req[t].op # "badmode"

\* Mutant of TakeStage: the entry stays in the map until the restore is over.
TakeStageKept(t, k) ==
    /\ At(t, Commits, "verified") /\ req[t].token = k
    /\ IF stages[k].phase = "issued" /\ Honoured(t, k)
       THEN req' = [req EXCEPT ![t].at = "taken", ![t].payload = stages[k].payload]
       ELSE Done(t)
    /\ UNCHANGED <<sess, db, files, stages, history>>

\* Mutant of TakeStage: the entry is looked up under one lock and removed under the next,
\* so that a commit in between still finds what another has begun to restore.
TakeStageInTwo(t, k) ==
    /\ At(t, Commits, "verified") /\ req[t].token = k
    /\ IF stages[k].phase \notin {"issued", "taken"}
       THEN UNCHANGED stages /\ Done(t)
       ELSE IF Honoured(t, k)
       THEN /\ stages' = [stages EXCEPT ![k].phase = "taken"]
            /\ req' = [req EXCEPT ![t].at = "taken", ![t].payload = stages[k].payload]
       ELSE stages' = [stages EXCEPT ![k].phase = "void"] /\ Done(t)
    /\ UNCHANGED <<sess, db, files, history>>

\* restoreCommit: the entry leaves the map, then its owner, its age and the mode are
\* looked at.
TakeStage(t, k) ==
    /\ At(t, Commits, "verified") /\ req[t].token = k
    /\ IF stages[k].phase # "issued"
       THEN UNCHANGED stages /\ Done(t)
       ELSE IF Honoured(t, k)
       THEN /\ stages' = [stages EXCEPT ![k].phase = "taken"]
            /\ req' = [req EXCEPT ![t].at = "taken", ![t].payload = stages[k].payload]
       ELSE stages' = [stages EXCEPT ![k].phase = "void"] /\ Done(t)
    /\ UNCHANGED <<sess, db, files, history>>

\* Mutant of Commit: foreign keys are not enforced on the connection.
CommitUnchecked(t, k, v) ==
    /\ db' = v
    /\ stages' = [stages EXCEPT ![k].phase = "applied"]
    /\ Moved(t, "applied")

\* The transaction ends with v in the database, or, a row having been refused by a
\* foreign key, with nothing changed and an error answered.
Commit(t, k, v) ==
    IF WholeVault(v)
    THEN /\ db' = v
         /\ stages' = [stages EXCEPT ![k].phase = "applied"]
         /\ Moved(t, "applied")
    ELSE /\ UNCHANGED db
         /\ stages' = [stages EXCEPT ![k].phase = "void"]
         /\ Done(t)

\* Every table is emptied, then filled from the payload.
Replace(t) ==
    /\ At(t, {"replace"}, "taken")
    /\ Commit(t, req[t].token, req[t].payload)
    /\ UNCHANGED <<sess, files, history>>

\* Mutant of Merge: the error of a refused row is not returned.
MergeReportedAnyway(t) ==
    /\ At(t, {"merge"}, "taken")
    /\ LET p == req[t].payload
           merged == [db EXCEPT !.sites = @ \cup p.sites, !.creds = @ \cup p.creds]
       IN IF WholeVault(p) THEN Commit(t, req[t].token, merged)
          ELSE /\ UNCHANGED db
               /\ stages' = [stages EXCEPT ![req[t].token].phase = "void"]
               /\ Moved(t, "applied")
    /\ UNCHANGED <<sess, files, history>>

\* applyMergeRestore: sites are matched by name, credentials are added as they are, and
\* the users table, with the key it wraps, stays.  A site the payload lacks is looked up
\* as id 0, which the foreign key refuses.
Merge(t) ==
    /\ At(t, {"merge"}, "taken")
    /\ LET p == req[t].payload
           merged == [db EXCEPT !.sites = @ \cup p.sites, !.creds = @ \cup p.creds]
       IN IF WholeVault(p) THEN Commit(t, req[t].token, merged)
          ELSE /\ UNCHANGED db
               /\ stages' = [stages EXCEPT ![req[t].token].phase = "void"]
               /\ Done(t)
    /\ UNCHANGED <<sess, files, history>>

\* After a replace the session that asked for it is locked; after a merge its row of
\* backup_events is written.
LockAfterReplace(t) ==
    /\ At(t, {"replace"}, "applied")
    /\ Lock(req[t].sid)
    /\ Done(t)
    /\ UNCHANGED <<db, files, stages, history>>
RecordMerge(t) ==
    /\ At(t, {"merge"}, "applied")
    /\ history' = history \cup {req[t].token}
    /\ Done(t)
    /\ UNCHANGED <<sess, db, files, stages>>

StagesAged == [k \in Tokens |-> [stages[k] EXCEPT !.left = IF @ > 0 THEN @ - 1 ELSE 0]]

\* One unit of time, for the sessions and for the staged previews.
TimePasses == /\ Tick
              /\ stages' = StagesAged
              /\ UNCHANGED <<db, files, history, req>>

\* The process dies and is started again: its memory (sessions, previews, requests) is
\* gone, an open transaction with it.
Restart == /\ sess' = [s \in SessionIds |-> IF Live(s) THEN Wiped(s)[s] ELSE sess[s]]
           /\ stages' = [k \in Tokens |-> IF stages[k].phase \in {"issued", "taken"}
                            THEN [stages[k] EXCEPT !.phase = "void"] ELSE stages[k]]
           /\ req' = [t \in Threads |-> NoRequest]
           /\ UNCHANGED <<db, files, history>>

Served(t) == \/ \E s \in SessionIds, op \in AllCalls, k \in Tokens \cup {Nobody} :
                   Begin(t, s, op, k)
             \/ Verify(t)
             \/ ReadUsers(t) \/ ReadSites(t) \/ ReadCredentials(t) \/ Export(t)
             \/ \E f \in files, k \in Tokens : Preview(t, f, k)
             \/ \E k \in Tokens : TakeStage(t, k)
             \/ Replace(t) \/ Merge(t) \/ LockAfterReplace(t) \/ RecordMerge(t)

Next == \/ \E t \in Threads : Served(t)
        \/ \E s \in SessionIds :
              \/ \E u \in Accounts, r \in Roles : SignIn(s, u, r)
              \/ Poll(s) \/ SignOut(s)
              \/ \E n \in Sites : CreateSite(s, n) \/ DeleteSite(s, n)
              \/ \E n \in Sites \cup {NoSite} : CreateCredential(s, n)
        \/ TimePasses \/ Restart

Spec == Init /\ [][Next]_vars

-------------------------------------------------------------------------------
\* A commit names a token; one past TakeStage has it to itself.
CommitsHoldTokens ==
    /\ \A t \in Threads : (~Free(t) /\ req[t].op \in Commits) => req[t].token \in Tokens
    /\ \A t \in Threads : At(t, AllCalls, "taken") =>
          req[t].op \in Commits /\ stages[req[t].token].phase = "taken"
    /\ \A t, u \in Threads :
          (At(t, AllCalls, "taken") /\ At(u, AllCalls, "taken") /\ t # u)
             => req[t].token # req[u].token

TypeOK == /\ StoreTypeOK
          /\ db \in Vault
          /\ files \subseteq Vault
          /\ stages \in [Tokens -> Stage]
          /\ history \subseteq Tokens
          /\ req \in [Threads -> Request \cup {NoRequest}]
          /\ CommitsHoldTokens

\* The database never holds a credential of a site it lacks, though the backup files
\* may, since an export reads table after table: a torn backup is refused whole, by either mode.
DatabaseWhole == WholeVault(db)

(***************************************************************************)
(* Refinement: a token is a one-shot ticket; one left too long has expired *)
(* although its entry is still in the map.                                 *)
(***************************************************************************)
TicketPhase(k) == IF stages[k].phase = "issued" /\ stages[k].left = 0
                  THEN "expired" ELSE stages[k].phase

Ticket == INSTANCE OneShotTicket WITH Tickets <- Tokens, Holders <- SessionIds,
             Payloads <- Vault, NoTicket <- Nobody,
             ticket <- [k \in Tokens |-> [phase |-> TicketPhase(k),
                           holder |-> stages[k].holder, payload |-> stages[k].payload]]

\* A preview is good for one restore, by the session that asked for it, in its time:
\* whatever the interleaving of commits, the clock and a restart, no staged payload is
\* restored twice, late, or by another session.
ImplementsTickets == Ticket!TicketSpec

\* The history never tells of a restore that did not happen: a row of backup_events is
\* written after the transaction, in a statement of its own, and only for a payload that
\* went in whole, whatever was refused, forgotten or restarted meanwhile.
RecordedRestoresHappened == \A k \in history : stages[k].phase = "applied"

\* Its inductive strengthening: a commit about to answer has applied its own stage.
AppliedMarked(t) == At(t, AllCalls, "applied") =>
    req[t].op \in Commits /\ stages[req[t].token].phase = "applied"
RecordedInv == RecordedRestoresHappened /\ \A t \in Threads : AppliedMarked(t)
===============================================================================
