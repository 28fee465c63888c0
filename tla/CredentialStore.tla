---------------------------- MODULE CredentialStore ----------------------------
(***************************************************************************)
(* Credentials, the sites they belong to and the accounts assigned to     *)
(* those sites (internal/server/resources.go, with the sites and scoping   *)
(* parts of server.go), on top of SessionStore.                            *)
(*                                                                         *)
(* A handler fetches its session, reads a row, asks which sites the        *)
(* account may touch, encrypts with the key found through its session      *)
(* pointer and issues one SQL statement.  Each of these is a step, so that *)
(* every other request may run in between; a request is a record in req    *)
(* whose "at" tells what it has done.  Handlers whose outcome rests on one *)
(* statement (sites and their assignment) are one step.  A handler that    *)
(* answers a secret holds it while it writes, and waits for the one        *)
(* database connection to do so: the answer is a step of its own.          *)
(***************************************************************************)
EXTENDS SessionStore

CONSTANTS LocationAdmins, \* accounts whose role is location_admin
          VaultKey,       \* the DEK every session is opened with
          Secrets,        \* passwords a credential may hold
          Blank,          \* a secret left empty in a form, and its empty token
          MaxSite,        \* bound on site ids
          MaxId,          \* bound on credential ids
          Threads,        \* requests served at the same time
          Calls,          \* the handlers clients call in this instance
          NoRow           \* an absent row

AllCalls == {"view", "copy", "edit", "create", "rotate", "delete"}
SiteIds == 1 .. MaxSite
NoSite == 0                                                    \* site_id IS NULL
CredIds == 1 .. MaxId

ASSUME CredAssumption == /\ LocationAdmins \subseteq Accounts
                         /\ Nobody \notin Accounts
                         /\ {"location_admin", "global_admin"} \subseteq Roles
                         /\ VaultKey \in Keys
                         /\ Calls \subseteq AllCalls
                         /\ MaxSite \in Nat /\ MaxId \in Nat

VARIABLES sites,    \* ids of the rows of sites
          assigned, \* user_sites, as pairs of an account and a site
          creds,    \* creds[i]: the credential with id i, or NoRow
          req,      \* req[t]: the request served by t
          raced     \* history: a session was wiped under a request about to encrypt

vars == <<sess, sites, assigned, creds, req, raced>>

Token == [key : DekBytes, val : Secrets] \cup {Blank}          \* EncryptField
Cred == [site : SiteIds \cup {NoSite}, secret : Token]

ASSUME CredRowAssumption == NoRow \notin Cred /\ Blank \notin Secrets
                            /\ Blank \notin [key : DekBytes, val : Secrets]

Phases == {"authed", "admitted", "fetched", "scoped", "placed", "drafted", "opened", "written"}
Request == [op : AllCalls, at : Phases, sid : SessionIds, id : CredIds \cup {0},
            row : Cred \cup {NoRow},    \* the row read, then the row to write
            blank : BOOLEAN,            \* the form left the password empty
            unasked : BOOLEAN,          \* history: see Place
            takenLive : BOOLEAN,        \* history: see Open and SealGenerated
            overtaken : BOOLEAN]        \* history: see Marked
NoRequest == Nobody

ASSUME CredRequestAssumption == NoRequest \notin Request

RoleOf(u) == IF u \in LocationAdmins THEN "location_admin" ELSE "global_admin"

Init == /\ StoreInit
        /\ sites = SiteIds                                     \* seedSampleData
        /\ assigned = {}
        /\ creds = [i \in CredIds |-> NoRow]
        /\ req = [t \in Threads |-> NoRequest]
        /\ raced = FALSE

Free(t) == req[t] = NoRequest
At(t, ops, phase) == ~Free(t) /\ req[t].op \in ops /\ req[t].at = phase
Held(t) == sess[req[t].sid]                                    \* ss, the pointer
Encrypted(k, v) == IF v = Blank THEN Blank ELSE [key |-> k, val |-> v]

\* canAccessSite of the account that holds the session; a NULL site is never asked about.
CanAccess(t, site) == \/ site = NoSite
                      \/ Held(t).role # "location_admin"
                      \/ <<Held(t).user, site>> \in assigned

Moved(t, phase) == req' = [req EXCEPT ![t].at = phase]
Done(t) == req' = [req EXCEPT ![t] = NoRequest]

\* History: the requests whose credential, or whose grants, this step changes.
Marked(r) == [u \in Threads |-> IF r[u] = NoRequest THEN r[u] ELSE [r[u] EXCEPT !.overtaken =
                @ \/ assigned' # assigned \/ (r[u].id # 0 /\ creds'[r[u].id] # creds[r[u].id])]]

\* Mutant of Updated: INSERT OR REPLACE, with foreign keys off.
Replaced(i, row) == [creds EXCEPT ![i] = row]

\* UPDATE ... WHERE id = i: an absent row is left absent, an absent site is refused.
Updated(i, row) == IF creds[i] = NoRow \/ row.site \notin sites \cup {NoSite} THEN creds
                   ELSE [creds EXCEPT ![i] = row]

\* INTEGER PRIMARY KEY without AUTOINCREMENT: one past the largest id in use.  An insert
\* that would pass MaxId or MaxSite is a step the bounds leave out.
NextId(n, used) == /\ \A m \in used : m < n
                   /\ n = 1 \/ n - 1 \in used

-------------------------------------------------------------------------------
\* A request which still has to read ss.DEK to encrypt, and a wipe that overtakes one.
ToEncrypt(r) == r.op \in {"edit", "create", "rotate"} /\ r.at \notin {"drafted", "written"}
Overtakes(s) == \E t \in Threads : ~Free(t) /\ req[t].sid = s /\ ToEncrypt(req[t])

\* login, reveal and me, whose own steps are the subject of VaultAuth.
SignIn(s, u) == /\ Create(s, u, RoleOf(u), VaultKey)
                /\ UNCHANGED <<sites, assigned, creds, req, raced>>
Prompted(s) == /\ OpenReveal(s)
               /\ UNCHANGED <<sites, assigned, creds, req, raced>>
Poll(s) == /\ GetFresh(s)
           /\ UNCHANGED <<sites, assigned, creds, req, raced>>

\* lock, or any call on a session past the idle limit.
SignOut(s) == /\ Live(s)
              /\ Lock(s) \/ GetStale(s)
              /\ raced' = (raced \/ Overtakes(s))
              /\ UNCHANGED <<sites, assigned, creds, req>>

TimePasses == Tick /\ UNCHANGED <<sites, assigned, creds, req, raced>>

-------------------------------------------------------------------------------
\* authed: the session is fetched; i is the id in the path, 0 when there is none.
Begin(t, s, op, i) ==
    /\ Free(t) /\ op \in Calls
    /\ (i = 0) <=> (op = "create")
    /\ GetFresh(s)
    /\ req' = [req EXCEPT ![t] = [op |-> op, at |-> "authed", sid |-> s, id |-> i,
                  row |-> NoRow, blank |-> FALSE, unasked |-> FALSE, takenLive |-> FALSE,
                  overtaken |-> FALSE]]
    /\ UNCHANGED <<sites, assigned, creds, raced>>

\* viewCredential and copyCredential ask for the reveal window before anything else.
Admit(t) ==
    /\ At(t, {"view", "copy"}, "authed")
    /\ IF RevealOpen(req[t].sid) THEN Moved(t, "admitted") ELSE Done(t)
    /\ UNCHANGED <<sess, sites, assigned, creds, raced>>

\* The SELECT ... WHERE id = ? of credentialRow, updateCredential and deleteScoped.
Fetch(t) ==
    /\ At(t, {"view", "copy"}, "admitted") \/ At(t, {"edit", "rotate", "delete"}, "authed")
    /\ LET row == creds[req[t].id]
       IN IF row = NoRow THEN Done(t)
          ELSE req' = [req EXCEPT ![t].at = "fetched", ![t].row = row, ![t].overtaken = FALSE]
    /\ UNCHANGED <<sess, sites, assigned, creds, raced>>

\* The scope check on the row read: 404 when it fails.
Scope(t) ==
    /\ At(t, AllCalls, "fetched")
    /\ IF CanAccess(t, req[t].row.site) THEN Moved(t, "scoped") ELSE Done(t)
    /\ UNCHANGED <<sess, sites, assigned, creds, raced>>

\* The request carries the row it read, or a new one, with the site of the form.  History:
\* whether that is a site the account may not touch, passed on because it was no number.
WithSite(t, site, number) ==
    [req EXCEPT ![t].at = "placed", ![t].unasked = ~number /\ ~CanAccess(t, site),
                ![t].row = IF @ = NoRow THEN [site |-> site, secret |-> Blank]
                           ELSE [@ EXCEPT !.site = site]]

\* Mutant of Place: the target site is not checked.
PlaceUnchecked(t, site, number) ==
    /\ At(t, {"edit"}, "scoped") \/ At(t, {"create"}, "authed")
    /\ number \/ site # NoSite
    /\ req' = WithSite(t, site, number)
    /\ UNCHANGED <<sess, sites, assigned, creds, raced>>

\* siteVal and the scope check on the site named in the form: 403 when it fails.  Only a
\* site that came as a JSON number is asked about.  One of another type (text) is passed on
\* to the statement as it is, where the INTEGER column makes it the number it spells.
Place(t, site, number) ==
    /\ At(t, {"edit"}, "scoped") \/ At(t, {"create"}, "authed")
    /\ number \/ site # NoSite
    /\ IF CanAccess(t, site) \/ ~number THEN req' = WithSite(t, site, number) ELSE Done(t)
    /\ UNCHANGED <<sess, sites, assigned, creds, raced>>

\* Mutant of Seal: the key buffer is cleared after use, though it is the session's own.
SealClearing(t, v) ==
    /\ At(t, {"edit", "create"}, "placed")
    /\ req' = [req EXCEPT ![t].at = "drafted", ![t].blank = (v = Blank),
                 ![t].row.secret = IF v = Blank /\ req[t].op = "edit" THEN @
                                   ELSE Encrypted(Held(t).dek, v)]
    /\ sess' = [sess EXCEPT ![req[t].sid].dek = Zeroed]
    /\ UNCHANGED <<sites, assigned, creds, raced>>

\* Mutant of Seal: an edit with a blank secret stores the blank.
SealBlank(t, v) ==
    /\ At(t, {"edit", "create"}, "placed")
    /\ req' = [req EXCEPT ![t].at = "drafted", ![t].blank = (v = Blank),
                 ![t].row.secret = Encrypted(Held(t).dek, v)]
    /\ UNCHANGED <<sess, sites, assigned, creds, raced>>

\* The encryption of the form's secret; an edit with a blank one keeps the token read.
Seal(t, v) ==
    /\ At(t, {"edit", "create"}, "placed")
    /\ req' = [req EXCEPT ![t].at = "drafted", ![t].blank = (v = Blank),
                 ![t].row.secret = IF v = Blank /\ req[t].op = "edit" THEN @
                                   ELSE Encrypted(Held(t).dek, v)]
    /\ UNCHANGED <<sess, sites, assigned, creds, raced>>

\* rotateCredential makes up a password and encrypts it, in place of the one read.  History:
\* whether the session was still in the table then.
SealGenerated(t, v) ==
    /\ At(t, {"rotate"}, "scoped")
    /\ req' = [req EXCEPT ![t].at = "drafted", ![t].row.secret = Encrypted(Held(t).dek, v),
                 ![t].takenLive = Live(req[t].sid)]
    /\ UNCHANGED <<sess, sites, assigned, creds, raced>>

EditWrite(t) ==
    /\ At(t, {"edit"}, "drafted")
    /\ creds' = Updated(req[t].id, req[t].row)
    /\ UNCHANGED <<sess, sites, assigned, raced>>
    /\ req' = Marked([req EXCEPT ![t] = NoRequest])

\* UPDATE of the password alone: the site stays what it is by now.  The password is still
\* to be answered, a row that is gone by now or not.
RotateWrite(t) ==
    /\ At(t, {"rotate"}, "drafted")
    /\ creds' = [creds EXCEPT ![req[t].id] =
                    IF @ = NoRow THEN @ ELSE [@ EXCEPT !.secret = req[t].row.secret]]
    /\ UNCHANGED <<sess, sites, assigned, raced>>
    /\ req' = Marked([req EXCEPT ![t].at = "written"])

CreateWrite(t) ==
    /\ At(t, {"create"}, "drafted")
    /\ \E i \in CredIds :
          /\ NextId(i, {j \in CredIds : creds[j] # NoRow})
          /\ creds' = IF req[t].row.site \in sites \cup {NoSite}
                      THEN [creds EXCEPT ![i] = req[t].row] ELSE creds
    /\ UNCHANGED <<sess, sites, assigned, raced>>
    /\ req' = Marked([req EXCEPT ![t] = NoRequest])

DeleteWrite(t) ==
    /\ At(t, {"delete"}, "scoped")
    /\ creds' = [creds EXCEPT ![req[t].id] = NoRow]
    /\ UNCHANGED <<sess, sites, assigned, raced>>
    /\ req' = Marked([req EXCEPT ![t] = NoRequest])

\* viewCredential's DecryptField with whatever ss.DEK holds by now: 500 when that is not
\* the key of the token.  An empty token needs none.  History: as for SealGenerated.
Open(t) ==
    /\ At(t, {"view"}, "scoped")
    /\ IF req[t].row.secret = Blank \/ req[t].row.secret.key = Held(t).dek
       THEN req' = [req EXCEPT ![t].at = "opened", ![t].takenLive = Live(req[t].sid)]
       ELSE Done(t)
    /\ UNCHANGED <<sess, sites, assigned, creds, raced>>

\* The audit row, for which the database's one connection must be free, and the answer: what
\* was decrypted, the password that was made up, or for a copy no secret at all.
Answer(t) ==
    /\ \/ At(t, {"view"}, "opened")
       \/ At(t, {"copy"}, "scoped")
       \/ At(t, {"rotate"}, "written")
    /\ Done(t)
    /\ UNCHANGED <<sess, sites, assigned, creds, raced>>

-------------------------------------------------------------------------------
\* requireAdmin, then one statement.
AsAdmin(s) == GetFresh(s) /\ sess[s].role # "location_admin"

CreateSite(s) ==
    /\ AsAdmin(s)
    /\ \E n \in SiteIds : NextId(n, sites) /\ sites' = sites \cup {n}
    /\ UNCHANGED <<assigned, creds, req, raced>>

\* ON DELETE SET NULL for the credentials, ON DELETE CASCADE for user_sites.
DeleteSite(s, site) ==
    /\ AsAdmin(s)
    /\ site \in sites
    /\ sites' = sites \ {site}
    /\ assigned' = {p \in assigned : p[2] # site}
    /\ creds' = [i \in CredIds |-> IF creds[i] # NoRow /\ creds[i].site = site
                                   THEN [creds[i] EXCEPT !.site = NoSite] ELSE creds[i]]
    /\ UNCHANGED raced
    /\ req' = Marked(req)

\* replaceSites, in one transaction that a missing site undoes.
AssignSites(s, u, S) ==
    /\ AsAdmin(s)
    /\ assigned' = IF S \subseteq sites
                   THEN {p \in assigned : p[1] # u} \cup ({u} \X S) ELSE assigned
    /\ UNCHANGED <<sites, creds, raced>>
    /\ req' = Marked(req)

-------------------------------------------------------------------------------
RequestStep(t) ==
    \/ \E s \in SessionIds, op \in Calls, i \in CredIds \cup {0} : Begin(t, s, op, i)
    \/ Admit(t) \/ Fetch(t) \/ Scope(t)
    \/ \E site \in SiteIds \cup {NoSite}, number \in BOOLEAN : Place(t, site, number)
    \/ \E v \in Secrets \cup {Blank} : Seal(t, v)
    \/ \E v \in Secrets : SealGenerated(t, v)
    \/ EditWrite(t) \/ RotateWrite(t) \/ CreateWrite(t) \/ DeleteWrite(t)
    \/ Open(t) \/ Answer(t)

SiteStep(s) == \/ CreateSite(s)
               \/ \E site \in SiteIds : DeleteSite(s, site)
               \/ \E u \in LocationAdmins, S \in SUBSET SiteIds : AssignSites(s, u, S)

SessionStep(s) == \/ \E u \in Accounts : SignIn(s, u)
                  \/ Prompted(s) \/ Poll(s) \/ SignOut(s)

Next == \/ \E t \in Threads : RequestStep(t)
        \/ \E s \in SessionIds : SiteStep(s) \/ SessionStep(s)
        \/ TimePasses

Spec == Init /\ [][Next]_vars

-------------------------------------------------------------------------------
\* A request holds a session that was created, a path id unless it creates, and a row
\* once it has fetched one.
RequestsComplete ==
    \A t \in Threads : ~Free(t) =>
        /\ Held(t).state # "unused"
        /\ (req[t].id = 0) <=> (req[t].op = "create")
        /\ req[t].at \notin {"authed", "admitted"} => req[t].row # NoRow

\* Rows refer to sites that exist (PRAGMA foreign_keys).
ReferencesHold == /\ assigned \subseteq LocationAdmins \X sites
                  /\ \A i \in CredIds : creds[i] # NoRow => creds[i].site \in sites \cup {NoSite}

\* Every variable holds a value of its kind, and rows and requests are well formed.
CredTypeOK == /\ StoreTypeOK
              /\ sites \subseteq SiteIds
              /\ creds \in [CredIds -> Cred \cup {NoRow}]
              /\ req \in [Threads -> Request \cup {NoRequest}]
              /\ raced \in BOOLEAN
              /\ RequestsComplete
              /\ ReferencesHold

Readable(token) == token = Blank \/ token.key = VaultKey

(***************************************************************************)
(* SecretsReadable.  Whatever is stored can be decrypted again: every      *)
(* token is under the key that every login unwraps.                        *)
(***************************************************************************)
SecretsReadable == \A i \in CredIds : creds[i] # NoRow => Readable(creds[i].secret)

(***************************************************************************)
(* ReadableUnlessRaced.  A stored secret can become unreadable in one way  *)
(* only: a session is wiped while a create, an edit or a rotation, already *)
(* past authed, has still to encrypt through its pointer to that session.  *)
(***************************************************************************)
ReadableUnlessRaced == ~raced => SecretsReadable

(***************************************************************************)
(* The inductive strengthening: tokens read or drafted by requests are     *)
(* readable too, and who has still to encrypt holds the vault's key.       *)
(***************************************************************************)
DraftReadable(t) ==
    /\ req[t].row # NoRow => Readable(req[t].row.secret)
    /\ ToEncrypt(req[t]) => Held(t).dek = VaultKey
ReadableInv == ~raced => /\ SecretsReadable
                         /\ \A s \in SessionIds : Live(s) => sess[s].dek = VaultKey
                         /\ \A t \in Threads : ~Free(t) => DraftReadable(t)

\* The step in which t answers with a secret, and the requests that are to do so.
HoldsSecret(t) == /\ At(t, {"view"}, "opened") \/ At(t, {"rotate"}, "drafted")
                       \/ At(t, {"rotate"}, "written")
                  /\ req[t].row.secret # Blank
AnswersSecret(t) == HoldsSecret(t) /\ req'[t] = NoRequest

(***************************************************************************)
(* AnswersTakenWhileLive.  A request let in before a lock, or before its   *)
(* session was evicted, may still answer with a secret after it: the       *)
(* audit row, and for a rotation the UPDATE, come between the use of the   *)
(* key and the answer.  But then it used the key, to decrypt what it       *)
(* shows or to encrypt the password it made up, while the session was in   *)
(* the table; the row and the pointer that outlive the session are not     *)
(* enough to take a secret after the wipe.  Exempt is what follows a wipe  *)
(* that overtook a request about to encrypt (raced): that rotation goes on *)
(* with the overwritten key, and what it stored opens with such a key.     *)
(***************************************************************************)
AnswersTakenWhileLive ==
    [][\A t \in Threads : AnswersSecret(t) /\ ~raced => req[t].takenLive]_vars

\* Its inductive strengthening: so it is of every request on the way to such an answer.
TakenInv == ~raced => \A t \in Threads : HoldsSecret(t) => req[t].takenLive

\* The step in which t writes its credential, which ends it or leaves it to answer.
Writes(t) == ~Free(t) /\ creds' # creds /\ (req'[t] = NoRequest \/ req'[t].at # req[t].at)

InScope(t, row) == row # NoRow => CanAccess(t, row.site)

(***************************************************************************)
(* WritesStayInScope.  A location admin changes a credential only if its   *)
(* site is one of theirs, or it has none, both before and after the        *)
(* change: the check of the row that was read and the check of the site in *)
(* the form together see to that, unless another request changed the       *)
(* credential or the assignments between the checks and the write.  One    *)
(* way past the second check is left in the code: a site that came as text *)
(* (unasked), though SECURITY.md:22 claims scoping on every create and     *)
(* edit.  The first check holds of such a request all the same.            *)
(***************************************************************************)
WritesStayInScope ==
    [][\A t \in Threads : Writes(t) /\ ~req[t].overtaken =>
          \A i \in CredIds : creds'[i] # creds[i] =>
             InScope(t, creds[i]) /\ (InScope(t, creds'[i]) \/ req[t].unasked)]_vars

(***************************************************************************)
(* Its inductive strengthening: what the checks a request has passed still *)
(* say of the credential and of the site in the form.                      *)
(***************************************************************************)
ChecksHold(t) ==
    /\ req[t].op # "create" /\ req[t].at = "fetched" => creds[req[t].id] = req[t].row
    /\ req[t].op # "create" /\ req[t].at \in {"scoped", "placed", "drafted"}
          => InScope(t, creds[req[t].id])
    /\ req[t].op \in {"edit", "create"} /\ req[t].at \in {"placed", "drafted"}
          => CanAccess(t, req[t].row.site) \/ req[t].unasked
ScopeInv == \A t \in Threads : ~Free(t) /\ ~req[t].overtaken => ChecksHold(t)

(***************************************************************************)
(* BlankKeepsPassword.  "Leave blank to keep existing password": an edit   *)
(* whose password field is empty leaves the stored password alone, unless  *)
(* another request changed the credential after this one read it.  What it *)
(* then writes back is the token it read, over a rotation for instance.    *)
(***************************************************************************)
BlankKeepsPassword ==
    [][\A t \in Threads :
          At(t, {"edit"}, "drafted") /\ Writes(t) /\ req[t].blank /\ ~req[t].overtaken =>
             creds'[req[t].id].secret = creds[req[t].id].secret]_vars

(***************************************************************************)
(* Its inductive strengthening: the row an edit carries has the token of   *)
(* the credential as it is, until the form's own takes its place.          *)
(***************************************************************************)
TokenKept(t) ==
    /\ req[t].op = "edit"
    /\ req[t].at \in {"fetched", "scoped", "placed"} \/ (req[t].at = "drafted" /\ req[t].blank)
    => creds[req[t].id] # NoRow /\ req[t].row.secret = creds[req[t].id].secret
TokenInv == \A t \in Threads : ~Free(t) /\ ~req[t].overtaken => TokenKept(t)
===============================================================================
