------------------------------ MODULE VaultAuth ------------------------------
(***************************************************************************)
(* Accounts, sessions and the key hierarchy of the Go server               *)
(* (internal/server/server.go and users.go on top of SessionStore).        *)
(*                                                                         *)
(* Every account row holds a password verifier, a salt, and the vault's    *)
(* one data key (DEK) wrapped under KEK(password, salt).  A handler runs   *)
(* on its own goroutine: it fetches its session, reads rows, spends a      *)
(* tenth of a second in Argon2, then issues one SQL statement.  What other *)
(* requests do between those points is what this module is about.  A       *)
(* request is therefore a record in req: "authed" once the session is      *)
(* fetched, "drafted" once it has read and computed what it will write.    *)
(***************************************************************************)
EXTENDS SessionStore, FiniteSets

CONSTANTS SuperAdmin,  \* the reserved account
          Passwords,   \* passwords long enough to be accepted
          Salts,       \* values GenSalt may return
          VaultKey,    \* the DEK drawn at setup
          Threads,     \* requests served at the same time
          Calls,       \* the handlers clients call in this instance
          NoRow        \* an absent row

AllCalls == {"login", "lock", "reveal", "changeMaster", "createUser",
             "updateUser", "deactivateUser", "resetPassword"}

AdminRoles == {"super_admin", "global_admin"}
GivenRoles == {"global_admin", "location_admin"}          \* validateRole

ASSUME AuthAssumption == /\ SuperAdmin \in Accounts
                         /\ VaultKey \in Keys
                         /\ Nobody \notin Accounts
                         /\ Roles = {"super_admin"} \cup GivenRoles
                         /\ Calls \subseteq AllCalls
                         /\ Passwords # {} /\ Salts # {}

VARIABLES users,   \* users[u]: the row of u, or NoRow
          req,     \* req[t]: the request served by t
          raced    \* history: a session was wiped under a request about to use its key

vars == <<sess, users, req, raced>>

Wrapped == [pw : Passwords, salt : Salts, dek : DekBytes]
Row == [verifier : Passwords, salt : Salts, wrapped : Wrapped,
        role : Roles, active : BOOLEAN, must : BOOLEAN]

ASSUME RowAssumption == NoRow \notin Row

Request == [op  : AllCalls, at : {"authed", "drafted"},
            sid : SessionIds \cup {Nobody},    \* the session held, if any
            who : Accounts \cup {Nobody},      \* the account addressed
            pw  : Passwords \cup {Nobody},     \* the password verified
            row : Row \cup {NoRow}]            \* the row as this request would leave it
NoRequest == Nobody

Exists(u) == users[u] # NoRow
Verifies(row, pw) == row.verifier = pw                       \* VerifyMasterPassword
Unwraps(row, pw) == row.wrapped.pw = pw /\ row.wrapped.salt = row.salt

\* A row whose owner chose a new password: verifier, salt, wrapped key and mark together.
Sealed(row, pw, z, k) ==
    [row EXCEPT !.verifier = pw, !.salt = z, !.must = FALSE,
                !.wrapped = [pw |-> pw, salt |-> z, dek |-> k]]

\* A row made for a password the account's owner did not choose.
NewRow(role, pw, z, k) ==
    [verifier |-> pw, salt |-> z, wrapped |-> [pw |-> pw, salt |-> z, dek |-> k],
     role |-> role, active |-> TRUE, must |-> TRUE]

Init == /\ StoreInit
        /\ \E pw \in Passwords, z \in Salts :
              users = [u \in Accounts |-> IF u # SuperAdmin THEN NoRow ELSE
                          [NewRow("super_admin", pw, z, VaultKey) EXCEPT !.must = FALSE]]
        /\ req = [t \in Threads |-> NoRequest]
        /\ raced = FALSE

Free(t) == req[t] = NoRequest
At(t, op, phase) == ~Free(t) /\ req[t].op = op /\ req[t].at = phase
Done(t) == req' = [req EXCEPT ![t] = NoRequest]
Held(t) == sess[req[t].sid]                                   \* ss, the pointer
Draft(t, u, pw, row) ==
    req' = [req EXCEPT ![t].at = "drafted", ![t].who = u, ![t].pw = pw, ![t].row = row]

-------------------------------------------------------------------------------
\* A wipe that overtakes a request which still has to read ss.DEK.
Overtakes(s) == \E t \in Threads : /\ ~Free(t)
                                   /\ req[t].sid = s
                                   /\ req[t].at = "authed"
                                   /\ req[t].op \in {"createUser", "resetPassword"}

\* Mutant of Begin: the handler runs whether or not the session was found.
BeginUnchecked(t, s, op) ==
    /\ Free(t)
    /\ op \in Calls \ {"login"}
    /\ req' = [req EXCEPT ![t] = [op |-> op, at |-> "authed", sid |-> s, who |-> Nobody,
                                  pw |-> Nobody, row |-> NoRow]]
    /\ UNCHANGED <<sess, users, raced>>

\* authed: the session is fetched and its pointer handed to the handler.
Begin(t, s, op) ==
    /\ Free(t)
    /\ op \in Calls \ {"login"}
    /\ GetFresh(s)
    /\ req' = [req EXCEPT ![t] = [op |-> op, at |-> "authed", sid |-> s, who |-> Nobody,
                                  pw |-> Nobody, row |-> NoRow]]
    /\ UNCHANGED <<users, raced>>

\* me, polled by every open tab, and any other route that only needs the session.
Poll(s) == GetFresh(s) /\ UNCHANGED <<users, req, raced>>

\* A request on a session past the idle limit: 401, and the session is wiped.
Evict(s) == /\ GetStale(s)
            /\ raced' = (raced \/ Overtakes(s))
            /\ UNCHANGED <<users, req>>

LoginRead(t, u, pw) ==
    /\ Free(t) /\ "login" \in Calls
    /\ Exists(u) /\ users[u].active
    /\ Verifies(users[u], pw) /\ Unwraps(users[u], pw)
    /\ req' = [req EXCEPT ![t] = [op |-> "login", at |-> "drafted", sid |-> Nobody,
                                  who |-> u, pw |-> pw, row |-> users[u]]]
    /\ UNCHANGED <<sess, users, raced>>

LoginCreate(t, s) ==
    /\ At(t, "login", "drafted")
    /\ Create(s, req[t].who, req[t].row.role, req[t].row.wrapped.dek)
    /\ Done(t)
    /\ UNCHANGED <<users, raced>>

LockSession(t) ==
    /\ At(t, "lock", "authed")
    /\ Lock(req[t].sid)
    /\ raced' = (raced \/ (Live(req[t].sid) /\ Overtakes(req[t].sid)))
    /\ Done(t)
    /\ UNCHANGED users

RevealVerify(t, pw) ==
    /\ At(t, "reveal", "authed")
    /\ IF Exists(Held(t).user) /\ Verifies(users[Held(t).user], pw)
       THEN Draft(t, Held(t).user, pw, NoRow) ELSE Done(t)
    /\ UNCHANGED <<sess, users, raced>>

RevealOpens(t) ==
    /\ At(t, "reveal", "drafted")
    /\ OpenReveal(req[t].sid)
    /\ Done(t)
    /\ UNCHANGED <<users, raced>>

\* Mutant of ChangeMasterDraft: the key wrapped anew is the one in the session.
ChangeMasterFromSession(t, pw, new, z) ==
    /\ At(t, "changeMaster", "authed")
    /\ LET u == Held(t).user
           row == users[u]
       IN IF Exists(u) /\ Verifies(row, pw)
          THEN Draft(t, u, pw, Sealed(row, new, z, Held(t).dek))
          ELSE Done(t)
    /\ UNCHANGED <<sess, users, raced>>

\* changeMaster: verify, unwrap the key with the old password, wrap it with the new.
ChangeMasterDraft(t, pw, new, z) ==
    /\ At(t, "changeMaster", "authed")
    /\ LET u == Held(t).user
           row == users[u]
       IN IF Exists(u) /\ Verifies(row, pw) /\ Unwraps(row, pw)
          THEN Draft(t, u, pw, Sealed(row, new, z, row.wrapped.dek))
          ELSE Done(t)
    /\ UNCHANGED <<sess, users, raced>>

\* Mutant of WriteKeys: the UPDATE leaves kdf_salt out.
WriteKeysOldSalt(u, row) ==
    users' = [users EXCEPT ![u] = IF @ = NoRow THEN NoRow
                 ELSE [@ EXCEPT !.verifier = row.verifier,
                                !.wrapped = row.wrapped, !.must = row.must]]

\* UPDATE users SET verifier, kdf_salt, wrapped_dek, must_change_pw WHERE id.
WriteKeys(u, row) ==
    users' = [users EXCEPT ![u] = IF @ = NoRow THEN NoRow
                 ELSE [@ EXCEPT !.verifier = row.verifier, !.salt = row.salt,
                                !.wrapped = row.wrapped, !.must = row.must]]

ChangeMasterWrite(t) ==
    /\ At(t, "changeMaster", "drafted")
    /\ WriteKeys(req[t].who, req[t].row)
    /\ Done(t)
    /\ UNCHANGED <<sess, raced>>

IsAdmin(t) == Held(t).role \in AdminRoles                     \* requireAdmin
ProtectedUser(u) == Exists(u) /\ users[u].role = "super_admin"

\* createUser: the new row wraps the key found in the caller's session.
CreateUserDraft(t, u, role, pw, z) ==
    /\ At(t, "createUser", "authed")
    /\ IF /\ IsAdmin(t)
          /\ u # SuperAdmin
          /\ Held(t).role = "global_admin" => role = "location_admin"
       THEN Draft(t, u, Nobody, NewRow(role, pw, z, Held(t).dek))
       ELSE Done(t)
    /\ UNCHANGED <<sess, users, raced>>

CreateUserInsert(t) ==
    /\ At(t, "createUser", "drafted")
    /\ users' = [users EXCEPT ![req[t].who] = IF @ = NoRow THEN req[t].row ELSE @]
    /\ Done(t)
    /\ UNCHANGED <<sess, raced>>

\* updateUser: fields not sent keep the value read here.
UpdateUserRead(t, u, role, active) ==
    /\ At(t, "updateUser", "authed")
    /\ IF IsAdmin(t) /\ Exists(u) /\ ~ProtectedUser(u)
       THEN Draft(t, u, Nobody, [users[u] EXCEPT
                     !.role = IF role = Nobody THEN @ ELSE role,
                     !.active = IF active = Nobody THEN @ ELSE active])
       ELSE Done(t)
    /\ UNCHANGED <<sess, users, raced>>

UpdateUserWrite(t) ==
    /\ At(t, "updateUser", "drafted")
    /\ users' = [users EXCEPT ![req[t].who] = IF @ = NoRow THEN NoRow
                    ELSE [@ EXCEPT !.role = req[t].row.role, !.active = req[t].row.active]]
    /\ Done(t)
    /\ UNCHANGED <<sess, raced>>

\* Mutant of DeactivateCheck: the protected account is not looked up.
DeactivateUnprotected(t, u) ==
    /\ At(t, "deactivateUser", "authed")
    /\ IF IsAdmin(t) THEN Draft(t, u, Nobody, NoRow) ELSE Done(t)
    /\ UNCHANGED <<sess, users, raced>>

DeactivateCheck(t, u) ==
    /\ At(t, "deactivateUser", "authed")
    /\ IF IsAdmin(t) /\ ~ProtectedUser(u) THEN Draft(t, u, Nobody, NoRow) ELSE Done(t)
    /\ UNCHANGED <<sess, users, raced>>

DeactivateWrite(t) ==
    /\ At(t, "deactivateUser", "drafted")
    /\ users' = [users EXCEPT ![req[t].who] = IF @ = NoRow THEN NoRow
                                              ELSE [@ EXCEPT !.active = FALSE]]
    /\ Done(t)
    /\ UNCHANGED <<sess, raced>>

\* Mutant of ResetDraft: the temporary password is not marked as one.
ResetDraftUnmarked(t, u, pw, z) ==
    /\ At(t, "resetPassword", "authed")
    /\ IF Held(t).role = "super_admin" /\ ~ProtectedUser(u)
       THEN Draft(t, u, Nobody,
                  [NewRow("location_admin", pw, z, Held(t).dek) EXCEPT !.must = FALSE])
       ELSE Done(t)
    /\ UNCHANGED <<sess, users, raced>>

\* resetPassword: the key found in the super admin's session is wrapped for u, whose row
\* is not read: the role and the activity drafted here are never written.
ResetDraft(t, u, pw, z) ==
    /\ At(t, "resetPassword", "authed")
    /\ IF Held(t).role = "super_admin" /\ ~ProtectedUser(u)
       THEN Draft(t, u, Nobody, NewRow("location_admin", pw, z, Held(t).dek))
       ELSE Done(t)
    /\ UNCHANGED <<sess, users, raced>>

ResetWrite(t) ==
    /\ At(t, "resetPassword", "drafted")
    /\ WriteKeys(req[t].who, req[t].row)
    /\ Done(t)
    /\ UNCHANGED <<sess, raced>>

\* The process dies: sessions and requests go, the rows of the database stay.
Restart ==
    /\ sess' = [s \in SessionIds |-> IF Live(s) THEN Wiped(s)[s] ELSE sess[s]]
    /\ req' = [t \in Threads |-> NoRequest]
    /\ UNCHANGED <<users, raced>>

TimePasses == Tick /\ UNCHANGED <<users, req, raced>>

-------------------------------------------------------------------------------
AuthStep(t) ==
    \/ \E u \in Accounts, pw \in Passwords : LoginRead(t, u, pw)
    \/ \E s \in SessionIds : LoginCreate(t, s)
    \/ LockSession(t)
    \/ \E pw \in Passwords : RevealVerify(t, pw)
    \/ RevealOpens(t)
    \/ \E pw, new \in Passwords, z \in Salts : ChangeMasterDraft(t, pw, new, z)
    \/ ChangeMasterWrite(t)

AdminStep(t) ==
    \/ \E u \in Accounts, role \in GivenRoles, pw \in Passwords, z \in Salts :
          CreateUserDraft(t, u, role, pw, z)
    \/ CreateUserInsert(t)
    \/ \E u \in Accounts, role \in GivenRoles \cup {Nobody}, active \in BOOLEAN \cup {Nobody} :
          UpdateUserRead(t, u, role, active)
    \/ UpdateUserWrite(t)
    \/ \E u \in Accounts : DeactivateCheck(t, u)
    \/ DeactivateWrite(t)
    \/ \E u \in Accounts, pw \in Passwords, z \in Salts : ResetDraft(t, u, pw, z)
    \/ ResetWrite(t)

Next ==
    \/ \E t \in Threads :
          \/ \E s \in SessionIds, op \in Calls \ {"login"} : Begin(t, s, op)
          \/ AuthStep(t)
          \/ AdminStep(t)
    \/ \E s \in SessionIds : Poll(s) \/ Evict(s)
    \/ Restart
    \/ TimePasses

Spec == Init /\ [][Next]_vars

-------------------------------------------------------------------------------
\* A request past authed holds a session that was once created, and a draft names
\* an existing account and carries the row it is going to write.
RequestsHoldSessions ==
    /\ \A s \in SessionIds : sess[s].state # "unused" => sess[s].user \in Accounts
    /\ \A t \in Threads : ~Free(t) =>
          IF req[t].op = "login" THEN req[t].at = "drafted"
          ELSE req[t].sid \in SessionIds /\ Held(t).state # "unused"
DraftsComplete ==
    \A t \in Threads : ~Free(t) /\ req[t].at = "drafted" =>
        /\ req[t].who \in Accounts
        /\ req[t].op \notin {"reveal", "deactivateUser"} => req[t].row # NoRow

\* Every variable holds a value of its kind, and requests are well formed.
TypeOK == /\ StoreTypeOK
          /\ users \in [Accounts -> Row \cup {NoRow}]
          /\ req \in [Threads -> Request \cup {NoRequest}]
          /\ raced \in BOOLEAN
          /\ RequestsHoldSessions
          /\ DraftsComplete

(***************************************************************************)
(* KeysAgree.  Whatever order changeMaster, resetPassword and createUser   *)
(* finish in, the password that passes an account's verifier also derives  *)
(* the KEK its data key is wrapped under: login's "key mismatch" branch    *)
(* (server.go:198) is never taken, and no interleaving of two writers      *)
(* locks an account out of the vault.                                      *)
(***************************************************************************)
KeysAgree == \A u \in Accounts : Exists(u) => Unwraps(users[u], users[u].verifier)

(***************************************************************************)
(* OneVaultKey.  "A single vault DEK encrypts all credentials": every      *)
(* account, whoever created or reset it, wraps that key, and every live    *)
(* session holds it.                                                       *)
(***************************************************************************)
OneVaultKey == /\ \A u \in Accounts : Exists(u) => users[u].wrapped.dek = VaultKey
               /\ \A s \in SessionIds : Live(s) => sess[s].dek = VaultKey

(***************************************************************************)
(* OneKeyUnlessRaced.  The single key can be lost in one way only: a       *)
(* session is wiped while createUser or resetPassword, already past        *)
(* authed, has still to read the key through its pointer to that session.  *)
(***************************************************************************)
OneKeyUnlessRaced == ~raced => OneVaultKey

(***************************************************************************)
(* SuperAdminIntact.  The reserved account always exists, is active and    *)
(* keeps its role, and no other account ever obtains that role, although   *)
(* each handler looks the target's role up in one statement and writes it  *)
(* in another (protectedUser, users.go:95).                                *)
(***************************************************************************)
SuperAdminIntact == \A u \in Accounts :
    /\ ProtectedUser(u) <=> u = SuperAdmin
    /\ u = SuperAdmin => users[u].active

(***************************************************************************)
(* The inductive strengthenings: what the drafts waiting to be written     *)
(* have to satisfy for the three invariants above to survive the write.    *)
(***************************************************************************)
PasswordDraft(t) == \/ At(t, "changeMaster", "drafted")
                    \/ At(t, "createUser", "drafted")
                    \/ At(t, "resetPassword", "drafted")

KeysInv == /\ KeysAgree
           /\ \A t \in Threads : PasswordDraft(t) =>
                 Unwraps(req[t].row, req[t].row.verifier)

SparesSuperAdmin(t) ==
    /\ At(t, "createUser", "drafted") \/ At(t, "updateUser", "drafted")
          => req[t].who # SuperAdmin /\ req[t].row.role # "super_admin"
    /\ At(t, "deactivateUser", "drafted") => req[t].who # SuperAdmin

SuperAdminInv == SuperAdminIntact /\ \A t \in Threads : SparesSuperAdmin(t)

HoldsVaultKey(t) ==
    /\ PasswordDraft(t) \/ At(t, "login", "drafted") => req[t].row.wrapped.dek = VaultKey
    /\ At(t, "createUser", "authed") \/ At(t, "resetPassword", "authed")
          => Held(t).dek = VaultKey

OneKeyInv == ~raced => OneVaultKey /\ \A t \in Threads : HoldsVaultKey(t)

\* The request that writes u's password in this step.
WritesPassword(t, u) == /\ ~Free(t) /\ req'[t] = NoRequest
                        /\ req[t].at = "drafted" /\ req[t].who = u
                        /\ users'[u] # NoRow
                        /\ \/ ~Exists(u)
                           \/ users'[u].verifier # users[u].verifier
                           \/ users'[u].wrapped # users[u].wrapped

(***************************************************************************)
(* TemporaryPasswordsFlagged.  A password chosen by somebody else is left  *)
(* marked must-change, one chosen by the account's owner is not, and the   *)
(* mark never changes without a new password.                              *)
(***************************************************************************)
TemporaryPasswordsFlagged ==
    [][\A u \in Accounts, t \in Threads :
          /\ WritesPassword(t, u) => (users'[u].must <=> Held(t).user # u)
          /\ Exists(u) /\ users'[u].must # users[u].must =>
                \E r \in Threads : ~Free(r) /\ req'[r] = NoRequest
                                   /\ req[r].op \in {"changeMaster", "resetPassword"}]_vars
===============================================================================
