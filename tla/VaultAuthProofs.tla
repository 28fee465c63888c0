---------------------------- MODULE VaultAuthProofs ----------------------------
(***************************************************************************)
(* Theorems about VaultAuth: type correctness, the three invariants        *)
(* KeysAgree, OneKeyUnlessRaced and SuperAdminIntact, and that temporary   *)
(* passwords stay flagged, for any number of accounts, sessions, threads   *)
(* and passwords.                                                          *)
(***************************************************************************)
EXTENDS VaultAuth, TLAPS, SessionStoreProofs

\* Ending or advancing a request keeps the table of requests well typed.
LEMMA DoneType ==
    ASSUME TypeOK, NEW t \in Threads, Done(t)
    PROVE  req' \in [Threads -> Request \cup {NoRequest}]
BY DEF TypeOK, Done

LEMMA DraftType ==
    ASSUME TypeOK, NEW t \in Threads, ~Free(t), NEW u \in Accounts,
           NEW pw \in Passwords \cup {Nobody}, NEW row \in Row \cup {NoRow},
           Draft(t, u, pw, row)
    PROVE  /\ req' \in [Threads -> Request \cup {NoRequest}]
           /\ \A r \in Threads \ {t} : req'[r] = req[r]
           /\ req'[t] \in Request
           /\ req'[t].op = req[t].op /\ req'[t].sid = req[t].sid
           /\ req'[t].at = "drafted" /\ req'[t].who = u
           /\ req'[t].pw = pw /\ req'[t].row = row
<1>1. req[t] \in Request
  BY DEF TypeOK, Free
<1>2. req'[t] = [req[t] EXCEPT !.at = "drafted", !.who = u, !.pw = pw, !.row = row]
  BY DEF TypeOK, Draft
<1>3. \A r \in Threads \ {t} : req'[r] = req[r]
  BY DEF TypeOK, Draft
<1>4. req'[t] \in Request
  BY <1>1, <1>2 DEF Request
<1>5. req' \in [Threads -> Request \cup {NoRequest}]
  BY <1>3, <1>4 DEF TypeOK, Draft
<1> QED
  BY <1>1, <1>2, <1>3, <1>4, <1>5 DEF Request

\* A row given a new password is a row.
LEMMA SealedType ==
    ASSUME NEW row \in Row, NEW pw \in Passwords, NEW z \in Salts, NEW k \in DekBytes
    PROVE  /\ Sealed(row, pw, z, k) \in Row
           /\ Sealed(row, pw, z, k).verifier = pw
           /\ Unwraps(Sealed(row, pw, z, k), pw)
           /\ Sealed(row, pw, z, k).wrapped.dek = k
BY DEF Sealed, Row, Wrapped, Unwraps

LEMMA NewRowType ==
    ASSUME NEW role \in Roles, NEW pw \in Passwords, NEW z \in Salts, NEW k \in DekBytes
    PROVE  /\ NewRow(role, pw, z, k) \in Row
           /\ NewRow(role, pw, z, k).role = role
           /\ Unwraps(NewRow(role, pw, z, k), NewRow(role, pw, z, k).verifier)
           /\ NewRow(role, pw, z, k).wrapped.dek = k
BY DEF NewRow, Row, Wrapped, Unwraps

\* The whole-row effect of the UPDATE that changes a password.
LEMMA WriteKeysType ==
    ASSUME TypeOK, NEW u \in Accounts, NEW row \in Row, WriteKeys(u, row)
    PROVE  /\ users' \in [Accounts -> Row \cup {NoRow}]
           /\ \A v \in Accounts \ {u} : users'[v] = users[v]
           /\ ~Exists(u) => users'[u] = NoRow
           /\ Exists(u) => /\ users'[u].verifier = row.verifier
                           /\ users'[u].salt = row.salt
                           /\ users'[u].wrapped = row.wrapped
                           /\ users'[u].must = row.must
                           /\ users'[u].role = users[u].role
                           /\ users'[u].active = users[u].active
<1>1. CASE Exists(u)
  <2>1. users[u] \in Row
    BY <1>1 DEF TypeOK, Exists
  <2>2. users'[u] = [users[u] EXCEPT !.verifier = row.verifier, !.salt = row.salt,
                                     !.wrapped = row.wrapped, !.must = row.must]
    BY <1>1 DEF TypeOK, Exists, WriteKeys
  <2>3. users'[u] \in Row
    BY <2>1, <2>2 DEF Row
  <2> QED
    BY <1>1, <2>1, <2>2, <2>3 DEF TypeOK, WriteKeys, Row
<1>2. CASE ~Exists(u)
  BY <1>2 DEF TypeOK, Exists, WriteKeys
<1> QED
  BY <1>1, <1>2

-------------------------------------------------------------------------------
\* Sessions only ever appear, with an account, and never change hands.
SessionsKept ==
    \A s \in SessionIds :
        /\ sess'[s].state # "unused" => sess'[s].user \in Accounts
        /\ sess[s].state # "unused" => /\ sess'[s].state # "unused"
                                       /\ sess'[s].user = sess[s].user

LEMMA UnchangedKeeps == ASSUME TypeOK, UNCHANGED sess PROVE SessionsKept
BY DEF TypeOK, RequestsHoldSessions, SessionsKept

LEMMA StoreStepKeeps ==
    ASSUME TypeOK, NEW s \in SessionIds,
           GetFresh(s) \/ GetStale(s) \/ Lock(s) \/ OpenReveal(s) \/ Tick
    PROVE  SessionsKept
<1> USE DEF TypeOK, StoreTypeOK, Session, RequestsHoldSessions, SessionsKept, Live
<1>1. CASE GetFresh(s)
  BY <1>1 DEF GetFresh
<1>2. CASE GetStale(s)
  BY <1>2 DEF GetStale, Wiped
<1>3. CASE Lock(s)
  BY <1>3 DEF Lock, Wiped
<1>4. CASE OpenReveal(s)
  BY <1>4 DEF OpenReveal
<1>5. CASE Tick
  BY <1>5 DEF Tick, Aged
<1> QED
  BY <1>1, <1>2, <1>3, <1>4, <1>5

LEMMA CreateKeeps ==
    ASSUME TypeOK, NEW s \in SessionIds, NEW u \in Accounts, NEW r \in Roles,
           NEW k \in DekBytes, Create(s, u, r, k)
    PROVE  SessionsKept
BY DEF TypeOK, StoreTypeOK, Session, RequestsHoldSessions, SessionsKept, Create

\* The well-formedness of requests survives the end of a request, ...
LEMMA DoneShape ==
    ASSUME TypeOK, NEW t \in Threads, Done(t), SessionsKept
    PROVE  RequestsHoldSessions' /\ DraftsComplete'
<1>1. \A r \in Threads : req'[r] = NoRequest \/ req'[r] = req[r]
  BY DEF TypeOK, Done
<1>2. RequestsHoldSessions'
  BY <1>1 DEF TypeOK, RequestsHoldSessions, SessionsKept, Free, Held
<1>3. DraftsComplete'
  BY <1>1 DEF TypeOK, DraftsComplete, Free
<1> QED
  BY <1>2, <1>3

\* ... a step that leaves the requests alone, ...
LEMMA IdleShape ==
    ASSUME TypeOK, UNCHANGED req, SessionsKept
    PROVE  RequestsHoldSessions' /\ DraftsComplete'
BY DEF TypeOK, RequestsHoldSessions, DraftsComplete, SessionsKept, Free, Held

\* ... and a draft.
LEMMA DraftShape ==
    ASSUME TypeOK, NEW t \in Threads, ~Free(t), req[t].op # "login",
           NEW u \in Accounts, NEW pw \in Passwords \cup {Nobody},
           NEW row \in Row \cup {NoRow},
           req[t].op \notin {"reveal", "deactivateUser"} => row # NoRow,
           Draft(t, u, pw, row), UNCHANGED <<sess, users, raced>>
    PROVE  TypeOK'
<1> DEFINE new == req'[t]
<1>1. /\ req' \in [Threads -> Request \cup {NoRequest}]
      /\ \A r \in Threads \ {t} : req'[r] = req[r]
      /\ new.op = req[t].op /\ new.sid = req[t].sid
      /\ new.at = "drafted" /\ new.who = u /\ new.row = row
  BY DraftType
<1>2. RequestsHoldSessions'
  BY <1>1 DEF TypeOK, RequestsHoldSessions, Free, Held
<1>3. DraftsComplete'
  BY <1>1 DEF TypeOK, DraftsComplete, Free
<1> QED
  BY <1>1, <1>2, <1>3 DEF TypeOK, StoreTypeOK

\* A request that ends, whatever it wrote to the rows, keeps TypeOK.
LEMMA DoneTypeOK ==
    ASSUME TypeOK, NEW t \in Threads, Done(t), StoreTypeOK', SessionsKept,
           users' \in [Accounts -> Row \cup {NoRow}], raced' \in BOOLEAN
    PROVE  TypeOK'
BY DoneType, DoneShape DEF TypeOK

\* A request that ends without writing anything keeps TypeOK.
LEMMA RefuseTypeOK ==
    ASSUME TypeOK, NEW t \in Threads, Done(t), UNCHANGED <<sess, users, raced>>
    PROVE  TypeOK'
BY DoneTypeOK, UnchangedKeeps DEF TypeOK, StoreTypeOK

-------------------------------------------------------------------------------
\* What the other lemmas need to know of a request past authed.
LEMMA AuthedFacts ==
    ASSUME TypeOK, NEW t \in Threads, NEW op \in AllCalls, NEW at \in {"authed", "drafted"},
           At(t, op, at)
    PROVE  /\ ~Free(t) /\ req[t] \in Request /\ req[t].op = op
           /\ op # "login" => /\ req[t].sid \in SessionIds
                              /\ Held(t) \in Session
                              /\ Held(t).user \in Accounts
           /\ at = "drafted" => req[t].who \in Accounts
           /\ at = "drafted" /\ op \notin {"reveal", "deactivateUser"} => req[t].row \in Row
<1>1. ~Free(t) /\ req[t] \in Request /\ req[t].op = op
  BY DEF At, TypeOK, Free
<1>2. op # "login" => /\ req[t].sid \in SessionIds
                      /\ Held(t) \in Session
                      /\ Held(t).user \in Accounts
  BY <1>1 DEF TypeOK, RequestsHoldSessions, StoreTypeOK, Held
<1>3. at = "drafted" => /\ req[t].who \in Accounts
                        /\ op \notin {"reveal", "deactivateUser"} => req[t].row # NoRow
  BY <1>1 DEF At, TypeOK, DraftsComplete
<1>4. req[t].row \in Row \cup {NoRow}
  BY <1>1 DEF Request
<1> QED
  BY <1>1, <1>2, <1>3, <1>4

\* The rows setup leaves behind.
LEMMA InitRows ==
    ASSUME Init
    PROVE  /\ users \in [Accounts -> Row \cup {NoRow}]
           /\ \A u \in Accounts : u # SuperAdmin => users[u] = NoRow
           /\ users[SuperAdmin] \in Row
           /\ users[SuperAdmin].role = "super_admin" /\ users[SuperAdmin].active
           /\ users[SuperAdmin].wrapped.dek = VaultKey
           /\ Unwraps(users[SuperAdmin], users[SuperAdmin].verifier)
<1>1. PICK pw \in Passwords, z \in Salts :
         users = [u \in Accounts |-> IF u # SuperAdmin THEN NoRow ELSE
                     [NewRow("super_admin", pw, z, VaultKey) EXCEPT !.must = FALSE]]
  BY DEF Init
<1> DEFINE new == NewRow("super_admin", pw, z, VaultKey)
           row == [new EXCEPT !.must = FALSE]
<1>2. new \in Row /\ new.role = "super_admin" /\ new.wrapped.dek = VaultKey
  BY NewRowType, AuthAssumption DEF DekBytes
<1>3. Unwraps(new, new.verifier) /\ new.active
  BY DEF NewRow, Unwraps
<1> HIDE DEF new
<1>4. /\ row \in Row /\ row.role = "super_admin" /\ row.wrapped.dek = VaultKey
      /\ row.active = new.active /\ row.wrapped = new.wrapped
      /\ row.salt = new.salt /\ row.verifier = new.verifier
  BY <1>2 DEF Row
<1>5. row.active /\ Unwraps(row, row.verifier)
  BY <1>3, <1>4 DEF Unwraps
<1>6. users = [u \in Accounts |-> IF u # SuperAdmin THEN NoRow ELSE row]
  BY <1>1 DEF new
<1> HIDE DEF row
<1>7. users[SuperAdmin] = row
  BY <1>6, AuthAssumption
<1> QED
  BY <1>4, <1>5, <1>6, <1>7

LEMMA InitType == Init => TypeOK
<1> SUFFICES ASSUME Init PROVE TypeOK
  OBVIOUS
<1>2. users \in [Accounts -> Row \cup {NoRow}]
  BY InitRows
<1>3. StoreTypeOK
  BY StoreInitType DEF Init
<1>4. RequestsHoldSessions /\ DraftsComplete
  BY DEF Init, StoreInit, Unused, RequestsHoldSessions, DraftsComplete, Free
<1> QED
  BY <1>2, <1>3, <1>4 DEF Init, TypeOK

\* The handlers of server.go preserve TypeOK.
LEMMA AuthStepType ==
    ASSUME TypeOK, NEW t \in Threads, AuthStep(t)
    PROVE  TypeOK'
<1>1. ASSUME NEW u \in Accounts, NEW pw \in Passwords, LoginRead(t, u, pw)
      PROVE  TypeOK'
  <2> DEFINE new == [op |-> "login", at |-> "drafted", sid |-> Nobody,
                     who |-> u, pw |-> pw, row |-> users[u]]
  <2>1. new \in Request
    BY <1>1 DEF LoginRead, TypeOK, Request, AllCalls
  <2>2. req' = [req EXCEPT ![t] = new]
    BY <1>1 DEF LoginRead
  <2>3. users[u] # NoRow
    BY <1>1 DEF LoginRead, Exists
  <2>4. req' \in [Threads -> Request \cup {NoRequest}]
    BY <2>1, <2>2 DEF TypeOK
  <2>5. RequestsHoldSessions' /\ DraftsComplete'
    BY <1>1, <2>2, <2>3 DEF LoginRead, TypeOK, RequestsHoldSessions, DraftsComplete, Free, Held
  <2> QED
    BY <1>1, <2>4, <2>5 DEF LoginRead, TypeOK, StoreTypeOK
<1>2. ASSUME NEW s \in SessionIds, LoginCreate(t, s)
      PROVE  TypeOK'
  <2>1. req[t].who \in Accounts /\ req[t].row \in Row
    BY <1>2, AuthedFacts DEF LoginCreate, AllCalls
  <2>2. req[t].row.role \in Roles /\ req[t].row.wrapped.dek \in DekBytes
    BY <2>1 DEF Row, Wrapped
  <2>3. StoreTypeOK' /\ SessionsKept
    BY <1>2, <2>1, <2>2, CreateType, CreateKeeps DEF LoginCreate, TypeOK
  <2> QED
    BY <1>2, <2>3, DoneTypeOK DEF LoginCreate, TypeOK
<1>3. CASE LockSession(t)
  <2>1. req[t].sid \in SessionIds
    BY <1>3, AuthedFacts DEF LockSession, AllCalls
  <2>2. StoreTypeOK' /\ SessionsKept
    BY <1>3, <2>1, GetType, StoreStepKeeps DEF LockSession, TypeOK
  <2>3. raced' \in BOOLEAN
    BY <1>3 DEF LockSession, TypeOK, Live, Overtakes
  <2> QED
    BY <1>3, <2>2, <2>3, DoneTypeOK DEF LockSession, TypeOK
<1>4. ASSUME NEW pw \in Passwords, RevealVerify(t, pw)
      PROVE  TypeOK'
  <2>1. ~Free(t) /\ req[t].op = "reveal" /\ Held(t).user \in Accounts
    BY <1>4, AuthedFacts DEF RevealVerify, AllCalls
  <2> QED
    BY <1>4, <2>1, DraftShape, RefuseTypeOK DEF RevealVerify
<1>5. CASE RevealOpens(t)
  <2>1. req[t].sid \in SessionIds
    BY <1>5, AuthedFacts DEF RevealOpens, AllCalls
  <2>2. StoreTypeOK' /\ SessionsKept
    BY <1>5, <2>1, OpenRevealType, StoreStepKeeps DEF RevealOpens, TypeOK
  <2> QED
    BY <1>5, <2>2, DoneTypeOK DEF RevealOpens, TypeOK
<1>6. ASSUME NEW pw \in Passwords, NEW new \in Passwords, NEW z \in Salts,
             ChangeMasterDraft(t, pw, new, z)
      PROVE  TypeOK'
  <2>1. ~Free(t) /\ req[t].op = "changeMaster" /\ Held(t).user \in Accounts
    BY <1>6, AuthedFacts DEF ChangeMasterDraft, AllCalls
  <2> DEFINE u == Held(t).user
             row == Sealed(users[u], new, z, users[u].wrapped.dek)
  <2>2. CASE Draft(t, u, pw, row) /\ Exists(u)
    <3>1. users[u] \in Row /\ users[u].wrapped.dek \in DekBytes
      BY <2>1, <2>2 DEF TypeOK, Exists, Row, Wrapped
    <3>2. row \in Row
      BY <3>1, SealedType
    <3>3. row # NoRow
      BY <3>2, RowAssumption
    <3> HIDE DEF row
    <3> QED
      BY <1>6, <2>1, <2>2, <3>2, <3>3, DraftShape DEF ChangeMasterDraft
  <2>3. CASE Done(t)
    BY <1>6, <2>3, RefuseTypeOK DEF ChangeMasterDraft
  <2> QED
    BY <1>6, <2>2, <2>3 DEF ChangeMasterDraft
<1>7. CASE ChangeMasterWrite(t)
  <2>1. req[t].who \in Accounts /\ req[t].row \in Row
    BY <1>7, AuthedFacts DEF ChangeMasterWrite, AllCalls
  <2> QED
    BY <1>7, <2>1, WriteKeysType, DoneTypeOK, UnchangedKeeps
       DEF ChangeMasterWrite, TypeOK, StoreTypeOK
<1> QED
  BY <1>1, <1>2, <1>3, <1>4, <1>5, <1>6, <1>7 DEF AuthStep

\* The handlers of users.go preserve TypeOK.
LEMMA AdminStepType ==
    ASSUME TypeOK, NEW t \in Threads, AdminStep(t)
    PROVE  TypeOK'
<1>1. ASSUME NEW u \in Accounts, NEW role \in GivenRoles, NEW pw \in Passwords,
             NEW z \in Salts, CreateUserDraft(t, u, role, pw, z)
      PROVE  TypeOK'
  <2> DEFINE new == NewRow(role, pw, z, Held(t).dek)
  <2>1. ~Free(t) /\ req[t].op = "createUser" /\ Held(t) \in Session
    BY <1>1, AuthedFacts DEF CreateUserDraft, AllCalls
  <2>2. new \in Row
    BY <2>1, NewRowType, AuthAssumption DEF Session
  <2>3. new # NoRow
    BY <2>2, RowAssumption
  <2>4. Draft(t, u, Nobody, new) \/ Done(t)
    BY <1>1 DEF CreateUserDraft
  <2> HIDE DEF new
  <2> QED
    BY <1>1, <2>1, <2>2, <2>3, <2>4, DraftShape, RefuseTypeOK DEF CreateUserDraft
<1>2. CASE CreateUserInsert(t)
  <2>1. req[t].who \in Accounts /\ req[t].row \in Row
    BY <1>2, AuthedFacts DEF CreateUserInsert, AllCalls
  <2>2. users' \in [Accounts -> Row \cup {NoRow}]
    BY <1>2, <2>1 DEF CreateUserInsert, TypeOK
  <2> QED
    BY <1>2, <2>2, DoneTypeOK, UnchangedKeeps DEF CreateUserInsert, TypeOK, StoreTypeOK
<1>3. ASSUME NEW u \in Accounts, NEW role \in GivenRoles \cup {Nobody},
             NEW active \in BOOLEAN \cup {Nobody}, UpdateUserRead(t, u, role, active)
      PROVE  TypeOK'
  <2> DEFINE new == [users[u] EXCEPT !.role = IF role = Nobody THEN @ ELSE role,
                                     !.active = IF active = Nobody THEN @ ELSE active]
  <2>1. ~Free(t) /\ req[t].op = "updateUser"
    BY <1>3, AuthedFacts DEF UpdateUserRead, AllCalls
  <2>2. CASE Exists(u) /\ Draft(t, u, Nobody, new)
    <3>1. users[u] \in Row
      BY <2>2 DEF TypeOK, Exists
    <3>2. new \in Row
      BY <3>1, AuthAssumption DEF Row
    <3>3. new # NoRow
      BY <3>2, RowAssumption
    <3> HIDE DEF new
    <3> QED
      BY <1>3, <2>1, <2>2, <3>2, <3>3, DraftShape DEF UpdateUserRead
  <2>3. CASE Done(t)
    BY <1>3, <2>3, RefuseTypeOK DEF UpdateUserRead
  <2> QED
    BY <1>3, <2>2, <2>3 DEF UpdateUserRead
<1>4. CASE UpdateUserWrite(t)
  <2> DEFINE u == req[t].who
  <2>1. u \in Accounts /\ req[t].row \in Row
    BY <1>4, AuthedFacts DEF UpdateUserWrite, AllCalls
  <2>2. users[u] # NoRow =>
           [users[u] EXCEPT !.role = req[t].row.role, !.active = req[t].row.active] \in Row
    BY <2>1 DEF TypeOK, Row
  <2>3. users' \in [Accounts -> Row \cup {NoRow}]
    BY <1>4, <2>1, <2>2 DEF UpdateUserWrite, TypeOK
  <2> QED
    BY <1>4, <2>3, DoneTypeOK, UnchangedKeeps DEF UpdateUserWrite, TypeOK, StoreTypeOK
<1>5. ASSUME NEW u \in Accounts, DeactivateCheck(t, u)
      PROVE  TypeOK'
  <2>1. ~Free(t) /\ req[t].op = "deactivateUser"
    BY <1>5, AuthedFacts DEF DeactivateCheck, AllCalls
  <2> QED
    BY <1>5, <2>1, DraftShape, RefuseTypeOK DEF DeactivateCheck
<1>6. CASE DeactivateWrite(t)
  <2> DEFINE u == req[t].who
  <2>1. u \in Accounts
    BY <1>6, AuthedFacts DEF DeactivateWrite, AllCalls
  <2>2. users[u] # NoRow => [users[u] EXCEPT !.active = FALSE] \in Row
    BY <2>1 DEF TypeOK, Row
  <2>3. users' \in [Accounts -> Row \cup {NoRow}]
    BY <1>6, <2>1, <2>2 DEF DeactivateWrite, TypeOK
  <2> QED
    BY <1>6, <2>3, DoneTypeOK, UnchangedKeeps DEF DeactivateWrite, TypeOK, StoreTypeOK
<1>7. ASSUME NEW u \in Accounts, NEW pw \in Passwords, NEW z \in Salts,
             ResetDraft(t, u, pw, z)
      PROVE  TypeOK'
  <2> DEFINE new == NewRow("location_admin", pw, z, Held(t).dek)
  <2>1. ~Free(t) /\ req[t].op = "resetPassword" /\ Held(t).dek \in DekBytes
    BY <1>7, AuthedFacts DEF ResetDraft, AllCalls, Session
  <2>2. CASE Draft(t, u, Nobody, new)
    <3>1. new \in Row
      BY <2>1, NewRowType, AuthAssumption DEF GivenRoles
    <3>2. new # NoRow
      BY <3>1, RowAssumption
    <3> HIDE DEF new
    <3> QED
      BY <1>7, <2>1, <2>2, <3>1, <3>2, DraftShape DEF ResetDraft
  <2>3. CASE Done(t)
    BY <1>7, <2>3, RefuseTypeOK DEF ResetDraft
  <2> QED
    BY <1>7, <2>2, <2>3 DEF ResetDraft
<1>8. CASE ResetWrite(t)
  <2>1. req[t].who \in Accounts /\ req[t].row \in Row
    BY <1>8, AuthedFacts DEF ResetWrite, AllCalls
  <2> QED
    BY <1>8, <2>1, WriteKeysType, DoneTypeOK, UnchangedKeeps
       DEF ResetWrite, TypeOK, StoreTypeOK
<1> QED
  BY <1>1, <1>2, <1>3, <1>4, <1>5, <1>6, <1>7, <1>8 DEF AdminStep

\* A restart wipes the live sessions and leaves the other records alone.
LEMMA RestartType ==
    ASSUME StoreTypeOK, Restart
    PROVE  /\ StoreTypeOK'
           /\ \A s \in SessionIds : sess'[s] =
                 IF Live(s)
                 THEN [sess[s] EXCEPT !.dek = Zeroed, !.state = "wiped", !.idle = 0, !.reveal = 0]
                 ELSE sess[s]
<1>1. \A s \in SessionIds : sess'[s] =
         IF Live(s)
         THEN [sess[s] EXCEPT !.dek = Zeroed, !.state = "wiped", !.idle = 0, !.reveal = 0]
         ELSE sess[s]
  BY DEF Restart, Wiped, StoreTypeOK
<1>2. ASSUME NEW s \in SessionIds
      PROVE  sess'[s] \in Session
  <2>1. sess[s] \in Session
    BY DEF StoreTypeOK
  <2>2. CASE Live(s)
    <3>1. sess'[s] = [sess[s] EXCEPT !.dek = Zeroed, !.state = "wiped", !.idle = 0, !.reveal = 0]
      BY <1>1, <2>2
    <3>2. 0 \in 0 .. (IdleLimit + 1) /\ 0 \in 0 .. RevealTTL
      BY StoreAssumption
    <3> QED
      BY <2>1, <3>1, <3>2 DEF Session, DekBytes
  <2>3. CASE ~Live(s)
    BY <1>1, <2>1, <2>3
  <2> QED
    BY <2>2, <2>3
<1> QED
  BY <1>1, <1>2 DEF StoreTypeOK, Restart

\* The steps that belong to no handler preserve TypeOK.
LEMMA OtherStepType ==
    ASSUME TypeOK,
           \/ \E t \in Threads, s \in SessionIds, op \in Calls \ {"login"} : Begin(t, s, op)
           \/ \E s \in SessionIds : Poll(s) \/ Evict(s)
           \/ Restart \/ TimePasses
    PROVE  TypeOK'
<1>1. ASSUME NEW t \in Threads, NEW s \in SessionIds, NEW op \in Calls \ {"login"},
             Begin(t, s, op)
      PROVE  TypeOK'
  <2> DEFINE new == [op |-> op, at |-> "authed", sid |-> s, who |-> Nobody,
                     pw |-> Nobody, row |-> NoRow]
  <2>1. new \in Request
    BY AuthAssumption DEF Request
  <2>2. req' = [req EXCEPT ![t] = new]
    BY <1>1 DEF Begin
  <2>3. StoreTypeOK' /\ SessionsKept
    BY <1>1, GetType, StoreStepKeeps DEF Begin, TypeOK
  <2>4. sess[s].state # "unused"
    BY <1>1 DEF Begin, GetFresh, Live
  <2>5. RequestsHoldSessions'
    BY <2>2, <2>3, <2>4 DEF TypeOK, RequestsHoldSessions, SessionsKept, Free, Held
  <2>6. DraftsComplete'
    BY <2>2 DEF TypeOK, DraftsComplete, Free
  <2>7. req' \in [Threads -> Request \cup {NoRequest}]
    BY <2>1, <2>2 DEF TypeOK
  <2> QED
    BY <1>1, <2>3, <2>5, <2>6, <2>7 DEF Begin, TypeOK
<1>2. ASSUME NEW s \in SessionIds, Poll(s) \/ Evict(s)
      PROVE  TypeOK'
  <2>1. StoreTypeOK' /\ SessionsKept /\ UNCHANGED <<users, req>>
    BY <1>2, GetType, StoreStepKeeps DEF Poll, Evict, TypeOK
  <2>2. raced' \in BOOLEAN
    BY <1>2 DEF Poll, Evict, TypeOK, Overtakes
  <2> QED
    BY <2>1, <2>2, IdleShape DEF TypeOK
<1>3. CASE Restart
  <2>1. StoreTypeOK'
    BY <1>3, RestartType DEF TypeOK
  <2>2. SessionsKept
    BY <1>3 DEF Restart, Wiped, TypeOK, StoreTypeOK, Session, RequestsHoldSessions,
                SessionsKept, Live
  <2>3. req' \in [Threads -> Request \cup {NoRequest}]
    BY <1>3 DEF Restart
  <2>4. RequestsHoldSessions' /\ DraftsComplete'
    BY <1>3, <2>2 DEF Restart, SessionsKept, RequestsHoldSessions, DraftsComplete, Free
  <2> QED
    BY <1>3, <2>1, <2>3, <2>4 DEF Restart, TypeOK
<1>4. CASE TimePasses
  <2>1. StoreTypeOK' /\ UNCHANGED <<users, req, raced>>
    BY <1>4, TickType DEF TimePasses, TypeOK
  <2>2. SessionsKept
    BY <1>4 DEF TimePasses, Tick, Aged, TypeOK, StoreTypeOK, Session,
                RequestsHoldSessions, SessionsKept
  <2> QED
    BY <2>1, <2>2, IdleShape DEF TypeOK
<1> QED
  BY <1>1, <1>2, <1>3, <1>4

\* Sessions, rows and requests stay well formed for ever: no handler ever writes a
\* row it did not finish computing, or looks up the account of a missing session.
THEOREM AuthTypeCorrect == Spec => []TypeOK
<1>1. TypeOK /\ [Next]_vars => TypeOK'
  <2> SUFFICES ASSUME TypeOK, [Next]_vars PROVE TypeOK'
    OBVIOUS
  <2>1. CASE UNCHANGED vars
    BY <2>1, IdleShape, UnchangedKeeps DEF vars, TypeOK, StoreTypeOK
  <2>2. CASE Next
    BY <2>2, AuthStepType, AdminStepType, OtherStepType DEF Next
  <2> QED
    BY <2>1, <2>2
<1> QED
  BY <1>1, InitType, PTL DEF Spec

-------------------------------------------------------------------------------
\* In the steps that write no row, a request that awaits a write was either waiting
\* already or has just been drafted.
LEMMA QuietStep ==
    ASSUME TypeOK,
           \/ \E t \in Threads, s \in SessionIds, op \in Calls \ {"login"} : Begin(t, s, op)
           \/ \E s \in SessionIds : Poll(s) \/ Evict(s)
           \/ Restart \/ TimePasses \/ UNCHANGED vars
    PROVE  /\ UNCHANGED users
           /\ \A r \in Threads, op \in AllCalls :
                 At(r, op, "drafted")' => req'[r] = req[r] /\ At(r, op, "drafted")
BY DEF TypeOK, Begin, Poll, Evict, Restart, TimePasses, At, Free, vars

LEMMA EndedRequests ==
    ASSUME TypeOK, NEW t \in Threads, Done(t)
    PROVE  \A r \in Threads, op \in AllCalls, at \in {"authed", "drafted"} :
              At(r, op, at)' => req'[r] = req[r] /\ At(r, op, at)
BY DEF TypeOK, Done, At, Free

LEMMA DraftedRequests ==
    ASSUME TypeOK, NEW t \in Threads, ~Free(t), NEW u \in Accounts,
           NEW pw \in Passwords \cup {Nobody}, NEW row \in Row \cup {NoRow},
           Draft(t, u, pw, row)
    PROVE  /\ \A r \in Threads \ {t}, op \in AllCalls, at \in {"authed", "drafted"} :
                 At(r, op, at)' => req'[r] = req[r] /\ At(r, op, at)
           /\ \A op \in AllCalls : At(t, op, "drafted")' => op = req[t].op
           /\ req'[t].who = u /\ req'[t].row = row
           /\ \A op \in AllCalls : ~At(t, op, "authed")'
<1>1. /\ \A r \in Threads \ {t} : req'[r] = req[r]
      /\ req'[t].op = req[t].op /\ req'[t].at = "drafted"
      /\ req'[t].who = u /\ req'[t].row = row
  BY DraftType
<1> QED
  BY <1>1 DEF At, Free

-------------------------------------------------------------------------------
\* A step that writes no row and drafts no password keeps the keys in agreement.
LEMMA KeysQuiet ==
    ASSUME TypeOK, KeysInv, UNCHANGED users,
           \A r \in Threads : PasswordDraft(r)' =>
              \/ req'[r] = req[r] /\ PasswordDraft(r)
              \/ Unwraps(req'[r].row, req'[r].row.verifier)
    PROVE  KeysInv'
BY DEF KeysInv, KeysAgree, Exists, Unwraps

LEMMA KeysDone ==
    ASSUME TypeOK, KeysInv, NEW t \in Threads, Done(t),
           \A u \in Accounts : Exists(u)' =>
              \/ users'[u] = users[u] /\ Exists(u)
              \/ Unwraps(users'[u], users'[u].verifier)
    PROVE  KeysInv'
<1>1. \A r \in Threads : PasswordDraft(r)' => req'[r] = req[r] /\ PasswordDraft(r)
  BY EndedRequests DEF PasswordDraft, AllCalls
<1>2. KeysAgree'
  BY DEF KeysInv, KeysAgree, Unwraps
<1> QED
  BY <1>1, <1>2 DEF KeysInv, Unwraps

\* The password a draft seals also unwraps, whatever the key.
LEMMA KeysDraft ==
    ASSUME TypeOK, KeysInv, UNCHANGED users, NEW t \in Threads, ~Free(t),
           NEW u \in Accounts, NEW pw \in Passwords \cup {Nobody},
           NEW row \in Row \cup {NoRow}, Draft(t, u, pw, row),
           \/ Unwraps(row, row.verifier)
           \/ req[t].op \notin {"changeMaster", "createUser", "resetPassword"}
    PROVE  KeysInv'
<1>1. ASSUME NEW r \in Threads, PasswordDraft(r)'
      PROVE  \/ req'[r] = req[r] /\ PasswordDraft(r)
             \/ Unwraps(req'[r].row, req'[r].row.verifier)
  <2>1. CASE r = t
    BY <1>1, <2>1, DraftedRequests DEF PasswordDraft, AllCalls
  <2>2. CASE r # t
    BY <1>1, <2>2, DraftedRequests DEF PasswordDraft, AllCalls
  <2> QED
    BY <2>1, <2>2
<1> QED
  BY <1>1, KeysQuiet

LEMMA KeysWrite ==
    ASSUME TypeOK, KeysInv, NEW t \in Threads, PasswordDraft(t), Done(t),
           WriteKeys(req[t].who, req[t].row)
    PROVE  KeysInv'
<1>1. req[t].who \in Accounts /\ req[t].row \in Row
  BY AuthedFacts DEF PasswordDraft, AllCalls
<1>2. Unwraps(req[t].row, req[t].row.verifier)
  BY DEF KeysInv
<1>3. ASSUME NEW u \in Accounts, Exists(u)'
      PROVE  \/ users'[u] = users[u] /\ Exists(u)
             \/ Unwraps(users'[u], users'[u].verifier)
  <2>1. users'[u] # NoRow
    BY <1>3 DEF Exists
  <2>2. CASE u # req[t].who
    BY <1>1, <2>1, <2>2, WriteKeysType DEF Exists
  <2>3. CASE u = req[t].who
    <3>1. /\ users'[u].verifier = req[t].row.verifier
          /\ users'[u].salt = req[t].row.salt
          /\ users'[u].wrapped = req[t].row.wrapped
      BY <1>1, <2>1, <2>3, WriteKeysType
    <3> QED
      BY <1>2, <3>1 DEF Unwraps
  <2> QED
    BY <2>2, <2>3
<1> QED
  BY <1>3, KeysDone

LEMMA KeysAuthStep ==
    ASSUME TypeOK, KeysInv, NEW t \in Threads, AuthStep(t)
    PROVE  KeysInv'
<1>1. ASSUME NEW u \in Accounts, NEW pw \in Passwords, LoginRead(t, u, pw)
      PROVE  KeysInv'
  <2>1. \A r \in Threads : PasswordDraft(r)' => req'[r] = req[r] /\ PasswordDraft(r)
    BY <1>1 DEF LoginRead, TypeOK, PasswordDraft, At, Free
  <2> QED
    BY <1>1, <2>1, KeysQuiet DEF LoginRead
<1>2. ASSUME \/ \E s \in SessionIds : LoginCreate(t, s)
             \/ LockSession(t) \/ RevealOpens(t)
      PROVE  KeysInv'
  <2>1. Done(t) /\ UNCHANGED users
    BY <1>2 DEF LoginCreate, LockSession, RevealOpens
  <2> QED
    BY <2>1, KeysDone DEF Exists
<1>3. ASSUME NEW pw \in Passwords, RevealVerify(t, pw)
      PROVE  KeysInv'
  <2>1. ~Free(t) /\ req[t].op = "reveal" /\ Held(t).user \in Accounts
    BY <1>3, AuthedFacts DEF RevealVerify, AllCalls
  <2>2. CASE Draft(t, Held(t).user, pw, NoRow)
    BY <1>3, <2>1, <2>2, KeysDraft DEF RevealVerify
  <2>3. CASE Done(t)
    BY <1>3, <2>3, KeysDone DEF RevealVerify, Exists
  <2> QED
    BY <1>3, <2>2, <2>3 DEF RevealVerify
<1>4. ASSUME NEW pw \in Passwords, NEW new \in Passwords, NEW z \in Salts,
             ChangeMasterDraft(t, pw, new, z)
      PROVE  KeysInv'
  <2> DEFINE u == Held(t).user
             row == Sealed(users[u], new, z, users[u].wrapped.dek)
  <2>1. ~Free(t) /\ u \in Accounts
    BY <1>4, AuthedFacts DEF ChangeMasterDraft, AllCalls
  <2>2. CASE Draft(t, u, pw, row) /\ Exists(u)
    <3>1. users[u] \in Row /\ users[u].wrapped.dek \in DekBytes
      BY <2>1, <2>2 DEF TypeOK, Exists, Row, Wrapped
    <3>2. row \in Row /\ row.verifier = new
      <4>1. row \in Row
        BY <3>1, SealedType
      <4>2. row.verifier = new
        BY <3>1 DEF Sealed, Row
      <4> QED
        BY <4>1, <4>2
    <3>3. Unwraps(row, new)
      BY <3>1 DEF Sealed, Row, Wrapped, Unwraps
    <3> HIDE DEF row, u
    <3>4. Unwraps(row, row.verifier)
      BY <3>2, <3>3
    <3> QED
      BY <1>4, <2>1, <2>2, <3>2, <3>4, KeysDraft DEF ChangeMasterDraft
  <2>3. CASE Done(t)
    BY <1>4, <2>3, KeysDone DEF ChangeMasterDraft, Exists
  <2> QED
    BY <1>4, <2>2, <2>3 DEF ChangeMasterDraft
<1>5. CASE ChangeMasterWrite(t)
  BY <1>5, KeysWrite DEF ChangeMasterWrite, PasswordDraft
<1> QED
  BY <1>1, <1>2, <1>3, <1>4, <1>5 DEF AuthStep

\* A step that only rewrites role and activity of rows keeps every key readable.
LEMMA KeysRoleWrite ==
    ASSUME TypeOK, KeysInv, NEW t \in Threads, UpdateUserWrite(t) \/ DeactivateWrite(t)
    PROVE  KeysInv'
<1>1. ASSUME NEW u \in Accounts, Exists(u)'
      PROVE  Unwraps(users'[u], users'[u].verifier)
  <2>1. /\ Exists(u)
        /\ users'[u].verifier = users[u].verifier
        /\ users'[u].salt = users[u].salt
        /\ users'[u].wrapped = users[u].wrapped
    <3>1. users'[u] # NoRow
      BY <1>1 DEF Exists
    <3>2. CASE u # req[t].who
      BY <3>1, <3>2 DEF TypeOK, Exists, UpdateUserWrite, DeactivateWrite
    <3>3. CASE u = req[t].who
      <4>1. users[u] # NoRow
        BY <3>1, <3>3 DEF TypeOK, UpdateUserWrite, DeactivateWrite
      <4>2. users[u] \in Row
        BY <4>1 DEF TypeOK
      <4>3. \/ users'[u] = [users[u] EXCEPT !.role = req[t].row.role,
                                            !.active = req[t].row.active]
            \/ users'[u] = [users[u] EXCEPT !.active = FALSE]
        BY <3>3, <4>1 DEF TypeOK, UpdateUserWrite, DeactivateWrite
      <4> QED
        BY <4>1, <4>2, <4>3 DEF Exists, Row
    <3> QED
      BY <3>2, <3>3
  <2>2. Unwraps(users[u], users[u].verifier)
    BY <2>1 DEF KeysInv, KeysAgree
  <2> QED
    BY <2>1, <2>2 DEF Unwraps
<1>2. Done(t)
  BY DEF UpdateUserWrite, DeactivateWrite
<1> QED
  BY <1>1, <1>2, KeysDone

LEMMA KeysAdminStep ==
    ASSUME TypeOK, KeysInv, NEW t \in Threads, AdminStep(t)
    PROVE  KeysInv'
<1>1. ASSUME NEW u \in Accounts, NEW role \in GivenRoles, NEW pw \in Passwords,
             NEW z \in Salts, CreateUserDraft(t, u, role, pw, z)
      PROVE  KeysInv'
  <2> DEFINE new == NewRow(role, pw, z, Held(t).dek)
  <2>1. ~Free(t) /\ Held(t) \in Session
    BY <1>1, AuthedFacts DEF CreateUserDraft, AllCalls
  <2>2. new \in Row
    BY <2>1, NewRowType, AuthAssumption DEF Session
  <2>3. Unwraps(new, new.verifier)
    BY DEF NewRow, Unwraps
  <2>4. Draft(t, u, Nobody, new) \/ Done(t)
    BY <1>1 DEF CreateUserDraft
  <2> HIDE DEF new
  <2>5. CASE Draft(t, u, Nobody, new)
    BY <1>1, <2>1, <2>2, <2>3, <2>5, KeysDraft DEF CreateUserDraft
  <2>6. CASE Done(t)
    BY <1>1, <2>6, KeysDone DEF CreateUserDraft, Exists
  <2> QED
    BY <2>4, <2>5, <2>6
<1>2. CASE CreateUserInsert(t)
  <2>1. At(t, "createUser", "drafted") /\ req[t].who \in Accounts
    BY <1>2, AuthedFacts DEF CreateUserInsert, AllCalls
  <2>2. Unwraps(req[t].row, req[t].row.verifier)
    BY <2>1 DEF KeysInv, PasswordDraft
  <2>3. \A u \in Accounts : \/ users'[u] = users[u] /\ users[u] # NoRow
                            \/ users'[u] = NoRow
                            \/ users'[u] = req[t].row
    BY <1>2, <2>1 DEF CreateUserInsert, TypeOK
  <2>4. \A u \in Accounts : Exists(u)' =>
              \/ users'[u] = users[u] /\ Exists(u)
              \/ Unwraps(users'[u], users'[u].verifier)
    BY <2>2, <2>3 DEF Exists, Unwraps
  <2> QED
    BY <1>2, <2>4, KeysDone DEF CreateUserInsert
<1>3. ASSUME NEW u \in Accounts, NEW role \in GivenRoles \cup {Nobody},
             NEW active \in BOOLEAN \cup {Nobody}, UpdateUserRead(t, u, role, active)
      PROVE  KeysInv'
  <2> DEFINE new == [users[u] EXCEPT !.role = IF role = Nobody THEN @ ELSE role,
                                     !.active = IF active = Nobody THEN @ ELSE active]
  <2>1. ~Free(t) /\ req[t].op = "updateUser"
    BY <1>3, AuthedFacts DEF UpdateUserRead, AllCalls
  <2>2. CASE Exists(u) /\ Draft(t, u, Nobody, new)
    <3>1. users[u] \in Row
      BY <2>2 DEF TypeOK, Exists
    <3>2. new \in Row
      BY <3>1, AuthAssumption DEF Row
    <3> HIDE DEF new
    <3> QED
      BY <1>3, <2>1, <2>2, <3>2, KeysDraft DEF UpdateUserRead
  <2>3. CASE Done(t)
    BY <1>3, <2>3, KeysDone DEF UpdateUserRead, Exists
  <2> QED
    BY <1>3, <2>2, <2>3 DEF UpdateUserRead
<1>4. ASSUME NEW u \in Accounts, DeactivateCheck(t, u)
      PROVE  KeysInv'
  <2>1. ~Free(t) /\ req[t].op = "deactivateUser"
    BY <1>4, AuthedFacts DEF DeactivateCheck, AllCalls
  <2>2. CASE Draft(t, u, Nobody, NoRow)
    BY <1>4, <2>1, <2>2, KeysDraft DEF DeactivateCheck
  <2>3. CASE Done(t)
    BY <1>4, <2>3, KeysDone DEF DeactivateCheck, Exists
  <2> QED
    BY <1>4, <2>2, <2>3 DEF DeactivateCheck
<1>5. ASSUME NEW u \in Accounts, NEW pw \in Passwords, NEW z \in Salts,
             ResetDraft(t, u, pw, z)
      PROVE  KeysInv'
  <2> DEFINE new == NewRow("location_admin", pw, z, Held(t).dek)
  <2>1. ~Free(t) /\ Held(t).dek \in DekBytes
    BY <1>5, AuthedFacts DEF ResetDraft, AllCalls, Session
  <2>2. CASE Draft(t, u, Nobody, new)
    <3>1. new \in Row
      BY <2>1, NewRowType, AuthAssumption DEF GivenRoles
    <3>2. Unwraps(new, new.verifier)
      BY DEF NewRow, Unwraps
    <3> HIDE DEF new
    <3> QED
      BY <1>5, <2>1, <2>2, <3>1, <3>2, KeysDraft DEF ResetDraft
  <2>3. CASE Done(t)
    BY <1>5, <2>3, KeysDone DEF ResetDraft, Exists
  <2> QED
    BY <1>5, <2>2, <2>3 DEF ResetDraft
<1>6. CASE ResetWrite(t)
  BY <1>6, KeysWrite DEF ResetWrite, PasswordDraft
<1> QED
  BY <1>1, <1>2, <1>3, <1>4, <1>5, <1>6, KeysRoleWrite DEF AdminStep

LEMMA KeysOtherStep ==
    ASSUME TypeOK, KeysInv,
           \/ \E t \in Threads, s \in SessionIds, op \in Calls \ {"login"} : Begin(t, s, op)
           \/ \E s \in SessionIds : Poll(s) \/ Evict(s)
           \/ Restart \/ TimePasses \/ UNCHANGED vars
    PROVE  KeysInv'
<1>1. /\ UNCHANGED users
      /\ \A r \in Threads, op \in AllCalls :
            At(r, op, "drafted")' => req'[r] = req[r] /\ At(r, op, "drafted")
  BY QuietStep
<1>2. \A r \in Threads : PasswordDraft(r)' => req'[r] = req[r] /\ PasswordDraft(r)
  BY <1>1 DEF PasswordDraft, AllCalls
<1> QED
  BY <1>1, <1>2, KeysQuiet

\* Whatever order the password-changing handlers read and write in, each account's
\* verifier and wrapped key belong to the same password: login never finds a mismatch.
THEOREM KeysAlwaysAgree == Spec => []KeysAgree
<1>1. Init => KeysInv
  <2> SUFFICES ASSUME Init PROVE KeysInv
    OBVIOUS
  <2>1. KeysAgree
    BY InitRows DEF KeysAgree, Exists
  <2>2. \A t \in Threads : Free(t)
    BY DEF Init, Free
  <2> QED
    BY <2>1, <2>2 DEF KeysInv, PasswordDraft, At
<1>2. TypeOK /\ KeysInv /\ [Next]_vars => KeysInv'
  BY KeysAuthStep, KeysAdminStep, KeysOtherStep DEF Next
<1>3. KeysInv => KeysAgree
  BY DEF KeysInv
<1> QED
  BY <1>1, <1>2, <1>3, AuthTypeCorrect, PTL DEF Spec

-------------------------------------------------------------------------------
\* The reserved account survives a step that leaves its role and activity alone and
\* gives its role to nobody else, if the drafts it leaves behind spare it as well.
RowsSpareSuperAdmin ==
    \A u \in Accounts :
        \/ users'[u] = users[u]
        \/ u # SuperAdmin /\ (users'[u] = NoRow \/ users'[u].role # "super_admin")
        \/ /\ users[u] # NoRow /\ users'[u] # NoRow
           /\ users'[u].role = users[u].role /\ users'[u].active = users[u].active

LEMMA SuperStep ==
    ASSUME SuperAdminInv, RowsSpareSuperAdmin,
           \A r \in Threads : SparesSuperAdmin(r)'
    PROVE  SuperAdminInv'
BY AuthAssumption DEF SuperAdminInv, SuperAdminIntact, ProtectedUser, Exists,
                      RowsSpareSuperAdmin

LEMMA SuperDone ==
    ASSUME TypeOK, SuperAdminInv, NEW t \in Threads, Done(t), RowsSpareSuperAdmin
    PROVE  SuperAdminInv'
<1>1. \A r \in Threads : SparesSuperAdmin(r)'
  BY EndedRequests DEF SuperAdminInv, SparesSuperAdmin, AllCalls
<1> QED
  BY <1>1, SuperStep

LEMMA SuperDraft ==
    ASSUME TypeOK, SuperAdminInv, UNCHANGED users, NEW t \in Threads, ~Free(t),
           NEW u \in Accounts, NEW pw \in Passwords \cup {Nobody},
           NEW row \in Row \cup {NoRow}, Draft(t, u, pw, row),
           req[t].op \in {"createUser", "updateUser"} =>
               u # SuperAdmin /\ row.role # "super_admin",
           req[t].op = "deactivateUser" => u # SuperAdmin
    PROVE  SuperAdminInv'
<1>1. ASSUME NEW r \in Threads
      PROVE  SparesSuperAdmin(r)'
  <2>1. CASE r = t
    BY <2>1, DraftedRequests DEF SparesSuperAdmin, AllCalls
  <2>2. CASE r # t
    BY <2>2, DraftedRequests DEF SparesSuperAdmin, SuperAdminInv, AllCalls
  <2> QED
    BY <2>1, <2>2
<1> QED
  BY <1>1, SuperStep DEF RowsSpareSuperAdmin

\* The UPDATE that changes a password touches neither role nor activity.
LEMMA SuperWriteKeys ==
    ASSUME TypeOK, SuperAdminInv, NEW t \in Threads, Done(t),
           req[t].who \in Accounts, req[t].row \in Row,
           WriteKeys(req[t].who, req[t].row)
    PROVE  SuperAdminInv'
<1>1. RowsSpareSuperAdmin
  <2> SUFFICES ASSUME NEW u \in Accounts,
                      users'[u] # users[u]
               PROVE  /\ users[u] # NoRow /\ users'[u] # NoRow
                      /\ users'[u].role = users[u].role
                      /\ users'[u].active = users[u].active
    BY DEF RowsSpareSuperAdmin
  <2>1. u = req[t].who
    BY WriteKeysType
  <2>2. users[u] # NoRow
    BY <2>1, WriteKeysType DEF Exists
  <2>3. users'[u] # NoRow
    <3>1. users[u] \in Row
      BY <2>2 DEF TypeOK
    <3>2. users'[u] = [users[u] EXCEPT !.verifier = req[t].row.verifier,
               !.salt = req[t].row.salt, !.wrapped = req[t].row.wrapped,
               !.must = req[t].row.must]
      BY <2>1, <2>2 DEF WriteKeys, TypeOK
    <3>3. users'[u] \in Row
      BY <3>1, <3>2 DEF Row
    <3> QED
      BY <3>3, RowAssumption
  <2> QED
    BY <2>1, <2>2, <2>3, WriteKeysType DEF Exists
<1> QED
  BY <1>1, SuperDone

LEMMA SuperAuthStep ==
    ASSUME TypeOK, SuperAdminInv, NEW t \in Threads, AuthStep(t)
    PROVE  SuperAdminInv'
<1>1. ASSUME NEW u \in Accounts, NEW pw \in Passwords, LoginRead(t, u, pw)
      PROVE  SuperAdminInv'
  <2>1. \A r \in Threads : SparesSuperAdmin(r)'
    BY <1>1 DEF LoginRead, TypeOK, SuperAdminInv, SparesSuperAdmin, At, Free
  <2> QED
    BY <1>1, <2>1, SuperStep DEF LoginRead, RowsSpareSuperAdmin
<1>2. ASSUME \/ \E s \in SessionIds : LoginCreate(t, s)
             \/ LockSession(t) \/ RevealOpens(t)
      PROVE  SuperAdminInv'
  <2>1. Done(t) /\ UNCHANGED users
    BY <1>2 DEF LoginCreate, LockSession, RevealOpens
  <2> QED
    BY <2>1, SuperDone DEF RowsSpareSuperAdmin
<1>3. ASSUME NEW pw \in Passwords, RevealVerify(t, pw)
      PROVE  SuperAdminInv'
  <2>1. ~Free(t) /\ req[t].op = "reveal" /\ Held(t).user \in Accounts
    BY <1>3, AuthedFacts DEF RevealVerify, AllCalls
  <2>2. CASE Draft(t, Held(t).user, pw, NoRow)
    BY <1>3, <2>1, <2>2, SuperDraft DEF RevealVerify
  <2>3. CASE Done(t)
    BY <1>3, <2>3, SuperDone DEF RevealVerify, RowsSpareSuperAdmin
  <2> QED
    BY <1>3, <2>2, <2>3 DEF RevealVerify
<1>4. ASSUME NEW pw \in Passwords, NEW new \in Passwords, NEW z \in Salts,
             ChangeMasterDraft(t, pw, new, z)
      PROVE  SuperAdminInv'
  <2> DEFINE u == Held(t).user
             row == Sealed(users[u], new, z, users[u].wrapped.dek)
  <2>1. ~Free(t) /\ req[t].op = "changeMaster" /\ u \in Accounts
    BY <1>4, AuthedFacts DEF ChangeMasterDraft, AllCalls
  <2>2. CASE Draft(t, u, pw, row) /\ Exists(u)
    <3>1. users[u] \in Row /\ users[u].wrapped.dek \in DekBytes
      BY <2>1, <2>2 DEF TypeOK, Exists, Row, Wrapped
    <3>2. row \in Row
      BY <3>1, SealedType
    <3> HIDE DEF row, u
    <3> QED
      BY <1>4, <2>1, <2>2, <3>2, SuperDraft DEF ChangeMasterDraft
  <2>3. CASE Done(t)
    BY <1>4, <2>3, SuperDone DEF ChangeMasterDraft, RowsSpareSuperAdmin
  <2> QED
    BY <1>4, <2>2, <2>3 DEF ChangeMasterDraft
<1>5. CASE ChangeMasterWrite(t)
  BY <1>5, AuthedFacts, SuperWriteKeys DEF ChangeMasterWrite, AllCalls
<1> QED
  BY <1>1, <1>2, <1>3, <1>4, <1>5 DEF AuthStep

LEMMA SuperAdminStep ==
    ASSUME TypeOK, SuperAdminInv, NEW t \in Threads, AdminStep(t)
    PROVE  SuperAdminInv'
<1>1. ASSUME NEW u \in Accounts, NEW role \in GivenRoles, NEW pw \in Passwords,
             NEW z \in Salts, CreateUserDraft(t, u, role, pw, z)
      PROVE  SuperAdminInv'
  <2> DEFINE new == NewRow(role, pw, z, Held(t).dek)
  <2>1. ~Free(t) /\ Held(t) \in Session /\ req[t].op = "createUser"
    BY <1>1, AuthedFacts DEF CreateUserDraft, AllCalls
  <2>2. new \in Row
    BY <2>1, NewRowType, AuthAssumption DEF Session
  <2>3. new.role # "super_admin"
    BY DEF NewRow, GivenRoles
  <2>4. (u # SuperAdmin /\ Draft(t, u, Nobody, new)) \/ Done(t)
    BY <1>1 DEF CreateUserDraft
  <2> HIDE DEF new
  <2>5. CASE u # SuperAdmin /\ Draft(t, u, Nobody, new)
    BY <1>1, <2>1, <2>2, <2>3, <2>5, SuperDraft DEF CreateUserDraft
  <2>6. CASE Done(t)
    BY <1>1, <2>6, SuperDone DEF CreateUserDraft, RowsSpareSuperAdmin
  <2> QED
    BY <2>4, <2>5, <2>6
<1>2. CASE CreateUserInsert(t)
  <2>1. At(t, "createUser", "drafted") /\ req[t].who \in Accounts
    BY <1>2, AuthedFacts DEF CreateUserInsert, AllCalls
  <2>2. req[t].who # SuperAdmin /\ req[t].row.role # "super_admin"
    BY <2>1 DEF SuperAdminInv, SparesSuperAdmin
  <2>3. \A u \in Accounts : \/ users'[u] = users[u]
                            \/ u = req[t].who /\ users'[u] = req[t].row
    BY <1>2 DEF CreateUserInsert, TypeOK
  <2>4. RowsSpareSuperAdmin
    BY <2>2, <2>3 DEF RowsSpareSuperAdmin
  <2> QED
    BY <1>2, <2>4, SuperDone DEF CreateUserInsert
<1>3. ASSUME NEW u \in Accounts, NEW role \in GivenRoles \cup {Nobody},
             NEW active \in BOOLEAN \cup {Nobody}, UpdateUserRead(t, u, role, active)
      PROVE  SuperAdminInv'
  <2> DEFINE new == [users[u] EXCEPT !.role = IF role = Nobody THEN @ ELSE role,
                                     !.active = IF active = Nobody THEN @ ELSE active]
  <2>1. ~Free(t) /\ req[t].op = "updateUser"
    BY <1>3, AuthedFacts DEF UpdateUserRead, AllCalls
  <2>2. CASE Exists(u) /\ ~ProtectedUser(u) /\ Draft(t, u, Nobody, new)
    <3>1. users[u] \in Row
      BY <2>2 DEF TypeOK, Exists
    <3>2. new \in Row
      BY <3>1, AuthAssumption DEF Row
    <3>3. u # SuperAdmin
      BY <2>2 DEF SuperAdminInv, SuperAdminIntact
    <3>4. new.role # "super_admin"
      BY <2>2, <3>1, AuthAssumption DEF ProtectedUser, GivenRoles, Row
    <3> HIDE DEF new
    <3> QED
      BY <1>3, <2>1, <2>2, <3>2, <3>3, <3>4, SuperDraft DEF UpdateUserRead
  <2>3. CASE Done(t)
    BY <1>3, <2>3, SuperDone DEF UpdateUserRead, RowsSpareSuperAdmin
  <2> QED
    BY <1>3, <2>2, <2>3 DEF UpdateUserRead
<1>4. CASE UpdateUserWrite(t)
  <2>1. At(t, "updateUser", "drafted") /\ req[t].who \in Accounts
    BY <1>4, AuthedFacts DEF UpdateUserWrite, AllCalls
  <2>2. req[t].who # SuperAdmin /\ req[t].row.role # "super_admin"
    BY <2>1 DEF SuperAdminInv, SparesSuperAdmin
  <2>3. RowsSpareSuperAdmin
    <3> SUFFICES ASSUME NEW u \in Accounts, users'[u] # users[u]
                 PROVE  u # SuperAdmin /\ users'[u].role # "super_admin"
      BY DEF RowsSpareSuperAdmin
    <3>1. u = req[t].who /\ users[u] # NoRow
      BY <1>4 DEF UpdateUserWrite, TypeOK
    <3>2. users[u] \in Row
      BY <3>1 DEF TypeOK
    <3>3. users'[u] = [users[u] EXCEPT !.role = req[t].row.role,
                                       !.active = req[t].row.active]
      BY <1>4, <3>1 DEF UpdateUserWrite, TypeOK
    <3>4. users'[u].role = req[t].row.role
      BY <3>2, <3>3 DEF Row
    <3> QED
      BY <2>2, <3>1, <3>4
  <2> QED
    BY <1>4, <2>3, SuperDone DEF UpdateUserWrite
<1>5. ASSUME NEW u \in Accounts, DeactivateCheck(t, u)
      PROVE  SuperAdminInv'
  <2>1. ~Free(t) /\ req[t].op = "deactivateUser"
    BY <1>5, AuthedFacts DEF DeactivateCheck, AllCalls
  <2>2. CASE ~ProtectedUser(u) /\ Draft(t, u, Nobody, NoRow)
    <3>1. u # SuperAdmin
      BY <2>2 DEF SuperAdminInv, SuperAdminIntact
    <3> QED
      BY <1>5, <2>1, <2>2, <3>1, SuperDraft DEF DeactivateCheck
  <2>3. CASE Done(t)
    BY <1>5, <2>3, SuperDone DEF DeactivateCheck, RowsSpareSuperAdmin
  <2> QED
    BY <1>5, <2>2, <2>3 DEF DeactivateCheck
<1>6. CASE DeactivateWrite(t)
  <2>1. At(t, "deactivateUser", "drafted") /\ req[t].who \in Accounts
    BY <1>6, AuthedFacts DEF DeactivateWrite, AllCalls
  <2>2. req[t].who # SuperAdmin
    BY <2>1 DEF SuperAdminInv, SparesSuperAdmin
  <2>3. RowsSpareSuperAdmin
    <3> SUFFICES ASSUME NEW u \in Accounts, users'[u] # users[u]
                 PROVE  u # SuperAdmin /\ users'[u].role # "super_admin"
      BY DEF RowsSpareSuperAdmin
    <3>1. u = req[t].who /\ users[u] # NoRow
      BY <1>6 DEF DeactivateWrite, TypeOK
    <3>2. users[u] \in Row
      BY <3>1 DEF TypeOK
    <3>3. users'[u] = [users[u] EXCEPT !.active = FALSE]
      BY <1>6, <3>1 DEF DeactivateWrite, TypeOK
    <3>4. users'[u].role = users[u].role
      BY <3>2, <3>3 DEF Row
    <3>5. users[u].role # "super_admin"
      BY <2>2, <3>1 DEF SuperAdminInv, SuperAdminIntact, ProtectedUser, Exists
    <3> QED
      BY <2>2, <3>1, <3>4, <3>5
  <2> QED
    BY <1>6, <2>3, SuperDone DEF DeactivateWrite
<1>7. ASSUME NEW u \in Accounts, NEW pw \in Passwords, NEW z \in Salts,
             ResetDraft(t, u, pw, z)
      PROVE  SuperAdminInv'
  <2> DEFINE new == NewRow("location_admin", pw, z, Held(t).dek)
  <2>1. ~Free(t) /\ req[t].op = "resetPassword" /\ Held(t).dek \in DekBytes
    BY <1>7, AuthedFacts DEF ResetDraft, AllCalls, Session
  <2>2. CASE Draft(t, u, Nobody, new)
    <3>1. new \in Row
      BY <2>1, NewRowType, AuthAssumption DEF GivenRoles
    <3> HIDE DEF new
    <3> QED
      BY <1>7, <2>1, <2>2, <3>1, SuperDraft DEF ResetDraft
  <2>3. CASE Done(t)
    BY <1>7, <2>3, SuperDone DEF ResetDraft, RowsSpareSuperAdmin
  <2> QED
    BY <1>7, <2>2, <2>3 DEF ResetDraft
<1>8. CASE ResetWrite(t)
  BY <1>8, AuthedFacts, SuperWriteKeys DEF ResetWrite, AllCalls
<1> QED
  BY <1>1, <1>2, <1>3, <1>4, <1>5, <1>6, <1>7, <1>8 DEF AdminStep

LEMMA SuperOtherStep ==
    ASSUME TypeOK, SuperAdminInv,
           \/ \E t \in Threads, s \in SessionIds, op \in Calls \ {"login"} : Begin(t, s, op)
           \/ \E s \in SessionIds : Poll(s) \/ Evict(s)
           \/ Restart \/ TimePasses \/ UNCHANGED vars
    PROVE  SuperAdminInv'
<1>1. /\ UNCHANGED users
      /\ \A r \in Threads, op \in AllCalls :
            At(r, op, "drafted")' => req'[r] = req[r] /\ At(r, op, "drafted")
  BY QuietStep
<1>2. \A r \in Threads : SparesSuperAdmin(r)'
  BY <1>1 DEF SparesSuperAdmin, SuperAdminInv, AllCalls
<1> QED
  BY <1>1, <1>2, SuperStep DEF RowsSpareSuperAdmin

\* No sequence of creations, updates and deactivations, however their checks and their
\* writes interleave, disables or demotes the reserved account or makes a second one.
THEOREM SuperAdminStaysIntact == Spec => []SuperAdminIntact
<1>1. Init => SuperAdminInv
  <2> SUFFICES ASSUME Init PROVE SuperAdminInv
    OBVIOUS
  <2>1. SuperAdminIntact
    <3>1. users[SuperAdmin] # NoRow
      BY InitRows, RowAssumption
    <3> QED
      BY <3>1, InitRows, AuthAssumption DEF SuperAdminIntact, ProtectedUser, Exists
  <2>2. \A t \in Threads : Free(t)
    BY DEF Init, Free
  <2> QED
    BY <2>1, <2>2 DEF SuperAdminInv, SparesSuperAdmin, At
<1>2. TypeOK /\ SuperAdminInv /\ [Next]_vars => SuperAdminInv'
  BY SuperAuthStep, SuperAdminStep, SuperOtherStep DEF Next
<1>3. SuperAdminInv => SuperAdminIntact
  BY DEF SuperAdminInv
<1> QED
  BY <1>1, <1>2, <1>3, AuthTypeCorrect, PTL DEF Spec

-------------------------------------------------------------------------------
(***************************************************************************)
(* Temporary passwords.  What makes TemporaryPasswordsFlagged hold is in   *)
(* the drafts: those of changeMaster are for the account of the session    *)
(* and carry no mark, those of the two handlers that choose a password for *)
(* somebody else carry it.  That a reset is for somebody else follows from *)
(* the role in the session, which is the account's from when it logged in. *)
(***************************************************************************)
OwnRole(u, role) == Exists(u) /\ (role = "super_admin" => u = SuperAdmin)
SessionsAreOwn ==
    \A s \in SessionIds : sess[s].state # "unused" => OwnRole(sess[s].user, sess[s].role)
MarksDraft(t) ==
    /\ At(t, "login", "drafted") => OwnRole(req[t].who, req[t].row.role)
    /\ At(t, "changeMaster", "drafted") => req[t].who = Held(t).user /\ ~req[t].row.must
    /\ At(t, "createUser", "drafted") => req[t].row.must
    /\ At(t, "resetPassword", "drafted") => req[t].row.must /\ req[t].who # Held(t).user
MarkInv == SessionsAreOwn /\ \A t \in Threads : MarksDraft(t)

\* The writes of rows, and that they are all.
RowWrite(t) == \/ ChangeMasterWrite(t) \/ CreateUserInsert(t) \/ UpdateUserWrite(t)
               \/ DeactivateWrite(t) \/ ResetWrite(t)

LEMMA OnlyWritesWrite ==
    ASSUME [Next]_vars
    PROVE  UNCHANGED users \/ \E t \in Threads : RowWrite(t)
BY DEF Next, AuthStep, AdminStep, RowWrite, LoginRead, LoginCreate, LockSession, RevealVerify,
       RevealOpens, ChangeMasterDraft, CreateUserDraft, UpdateUserRead, DeactivateCheck,
       ResetDraft, Begin, Poll, Evict, Restart, TimePasses, vars

\* What a write does to a row: passwords and marks change together, by three handlers.
LEMMA WritesOfRow ==
    ASSUME TypeOK, NEW t \in Threads, RowWrite(t), NEW u \in Accounts
    PROVE  /\ req[t].at = "drafted" /\ ~Free(t) /\ Done(t)
           /\ Exists(u) => users'[u] # NoRow
           /\ \/ users'[u] = users[u]
              \/ /\ At(t, "createUser", "drafted") /\ ~Exists(u)
                 /\ u = req[t].who /\ users'[u] = req[t].row
              \/ /\ At(t, "changeMaster", "drafted") \/ At(t, "resetPassword", "drafted")
                 /\ Exists(u) /\ u = req[t].who /\ users'[u].must = req[t].row.must
              \/ /\ Exists(u) /\ users'[u].must = users[u].must
                 /\ users'[u].verifier = users[u].verifier /\ users'[u].wrapped = users[u].wrapped
<1> DEFINE who == req[t].who
           row == req[t].row
<1>1. ASSUME At(t, "changeMaster", "drafted") \/ At(t, "resetPassword", "drafted"),
             WriteKeys(who, row)
      PROVE  /\ Exists(u) => users'[u] # NoRow
             /\ \/ users'[u] = users[u]
                \/ Exists(u) /\ u = who /\ users'[u].must = row.must
  <2>1. who \in Accounts /\ row \in Row
    BY <1>1, AuthedFacts DEF AllCalls
  <2>2. CASE u = who /\ Exists(u)
    <3>1. users[u] \in Row
      BY <2>2 DEF TypeOK, Exists
    <3>2. users'[u] = [users[u] EXCEPT !.verifier = row.verifier, !.salt = row.salt,
                                       !.wrapped = row.wrapped, !.must = row.must]
      BY <1>1, <2>2 DEF TypeOK, Exists, WriteKeys
    <3>3. users'[u] \in Row /\ users'[u].must = row.must
      BY <2>1, <3>1, <3>2 DEF Row
    <3> QED
      BY <2>2, <3>3, RowAssumption
  <2>3. CASE ~(u = who /\ Exists(u))
    BY <1>1, <2>3 DEF TypeOK, Exists, WriteKeys
  <2> QED
    BY <2>2, <2>3
<1>2. CASE CreateUserInsert(t)
  <2>1. /\ At(t, "createUser", "drafted") /\ Done(t)
        /\ users' = [users EXCEPT ![who] = IF @ = NoRow THEN row ELSE @]
    BY <1>2 DEF CreateUserInsert
  <2>2. req[t].at = "drafted" /\ ~Free(t)
    BY <2>1 DEF At
  <2>3. users'[u] = users[u] \/ (u = who /\ ~Exists(u) /\ users'[u] = row)
    BY <2>1 DEF Exists, TypeOK
  <2>4. Exists(u) => users'[u] # NoRow
    BY <2>3 DEF Exists
  <2> QED
    BY <2>1, <2>2, <2>3, <2>4
<1>3. CASE UpdateUserWrite(t) \/ DeactivateWrite(t)
  <2>1. At(t, "updateUser", "drafted") \/ At(t, "deactivateUser", "drafted")
    BY <1>3 DEF UpdateUserWrite, DeactivateWrite
  <2>2. req[t].at = "drafted" /\ ~Free(t) /\ Done(t)
    BY <1>3, <2>1 DEF At, UpdateUserWrite, DeactivateWrite
  <2>3. UpdateUserWrite(t) => row \in Row
    BY AuthedFacts DEF UpdateUserWrite, AllCalls
  <2>4. CASE users'[u] = users[u]
    BY <2>2, <2>4 DEF Exists
  <2>5. CASE users'[u] # users[u]
    <3>1. u = who /\ Exists(u)
      BY <1>3, <2>5 DEF UpdateUserWrite, DeactivateWrite, TypeOK, Exists
    <3>2. users[u] \in Row
      BY <3>1 DEF TypeOK, Exists
    <3>3. \/ /\ users'[u] = [users[u] EXCEPT !.role = row.role, !.active = row.active]
             /\ row \in Row
          \/ users'[u] = [users[u] EXCEPT !.active = FALSE]
      BY <1>3, <2>3, <3>1 DEF UpdateUserWrite, DeactivateWrite, TypeOK, Exists
    <3>4. /\ users'[u] \in Row /\ users'[u].must = users[u].must
          /\ users'[u].verifier = users[u].verifier /\ users'[u].wrapped = users[u].wrapped
      BY <3>2, <3>3 DEF Row
    <3> QED
      BY <2>2, <3>1, <3>4, RowAssumption
  <2> QED
    BY <2>4, <2>5
<1>4. CASE ChangeMasterWrite(t) \/ ResetWrite(t)
  <2>1. /\ At(t, "changeMaster", "drafted") \/ At(t, "resetPassword", "drafted")
        /\ WriteKeys(who, row) /\ Done(t)
    BY <1>4 DEF ChangeMasterWrite, ResetWrite
  <2>2. req[t].at = "drafted" /\ ~Free(t)
    BY <2>1 DEF At
  <2> QED
    BY <1>1, <2>1, <2>2
<1> QED
  BY <1>2, <1>3, <1>4 DEF RowWrite

LEMMA RowsStay ==
    ASSUME TypeOK, [Next]_vars, NEW u \in Accounts, Exists(u)
    PROVE  Exists(u)'
BY OnlyWritesWrite, WritesOfRow DEF Exists

\* A step marks its writes, given what the drafts carry.
LEMMA WritesAreMarked ==
    ASSUME TypeOK, MarkInv, [Next]_vars, NEW u \in Accounts, NEW t \in Threads
    PROVE  /\ WritesPassword(t, u) => (users'[u].must <=> Held(t).user # u)
           /\ Exists(u) /\ users'[u].must # users[u].must =>
                \E r \in Threads : ~Free(r) /\ req'[r] = NoRequest
                                   /\ req[r].op \in {"changeMaster", "resetPassword"}
<1>1. CASE users'[u] = users[u]
  BY <1>1 DEF WritesPassword, Exists
<1>2. CASE users'[u] # users[u]
  <2>1. PICK w \in Threads : RowWrite(w)
    BY <1>2, OnlyWritesWrite
  <2>2. /\ req[w].at = "drafted" /\ ~Free(w) /\ Done(w)
        /\ \/ /\ At(w, "createUser", "drafted") /\ ~Exists(u)
              /\ u = req[w].who /\ users'[u] = req[w].row
           \/ /\ At(w, "changeMaster", "drafted") \/ At(w, "resetPassword", "drafted")
              /\ Exists(u) /\ u = req[w].who /\ users'[u].must = req[w].row.must
           \/ /\ Exists(u) /\ users'[u].must = users[u].must
              /\ users'[u].verifier = users[u].verifier /\ users'[u].wrapped = users[u].wrapped
    BY <1>2, <2>1, WritesOfRow
  <2>3. req'[w] = NoRequest /\ \A r \in Threads \ {w} : req'[r] = req[r]
    BY <2>2 DEF Done, TypeOK
  <2>4. ASSUME WritesPassword(t, u)
        PROVE  users'[u].must <=> Held(t).user # u
    <3>1. t = w
      BY <2>3, <2>4 DEF WritesPassword, Free
    <3>2. CASE At(w, "createUser", "drafted") /\ ~Exists(u) /\ users'[u] = req[w].row
      <4>1. users'[u].must
        BY <3>2 DEF MarkInv, MarksDraft
      <4>2. Exists(Held(t).user)
        BY <3>1, <3>2 DEF TypeOK, RequestsHoldSessions, MarkInv, SessionsAreOwn, OwnRole, At, Held
      <4> QED
        BY <3>2, <4>1, <4>2
    <3>3. CASE At(w, "changeMaster", "drafted") /\ u = req[w].who /\ users'[u].must = req[w].row.must
      BY <3>1, <3>3 DEF MarkInv, MarksDraft
    <3>4. CASE At(w, "resetPassword", "drafted") /\ u = req[w].who /\ users'[u].must = req[w].row.must
      BY <3>1, <3>4 DEF MarkInv, MarksDraft
    <3> QED
      BY <2>2, <2>4, <3>2, <3>3, <3>4 DEF WritesPassword
  <2>5. ASSUME Exists(u), users'[u].must # users[u].must
        PROVE  req[w].op \in {"changeMaster", "resetPassword"}
    BY <2>2, <2>5 DEF At
  <2> QED
    BY <2>2, <2>3, <2>4, <2>5
<1> QED
  BY <1>1, <1>2

\* What keeps the sessions' accounts and the drafts true to each other.
MarksStay ==
    /\ \A u \in Accounts : Exists(u) => Exists(u)'
    /\ SessionsAreOwn'
    /\ \A s \in SessionIds : sess[s].state # "unused" => sess'[s].user = sess[s].user

\* Sessions appear for the account that logged in, with its role, and keep both.
LEMMA SessionsStayOwn ==
    ASSUME TypeOK, MarkInv, [Next]_vars
    PROVE  MarksStay
<1>1. \A u \in Accounts : Exists(u) => Exists(u)'
  BY RowsStay
<1>2. ASSUME NEW s \in SessionIds
      PROVE  \/ sess[s].state = "unused" /\ sess'[s].state = "unused"
             \/ /\ sess[s].state # "unused"
                /\ sess'[s].user = sess[s].user /\ sess'[s].role = sess[s].role
             \/ /\ sess[s].state = "unused"
                /\ OwnRole(sess'[s].user, sess'[s].role) /\ sess'[s].user \in Accounts
  <2>1. CASE UNCHANGED sess
    BY <2>1
  <2>2. ASSUME NEW x \in SessionIds, GetFresh(x) \/ GetStale(x) \/ Lock(x) \/ OpenReveal(x) \/ Tick
        PROVE  /\ sess[s].state # "unused" => /\ sess'[s].user = sess[s].user
                                              /\ sess'[s].role = sess[s].role
               /\ sess[s].state = "unused" => sess'[s].state = "unused"
    <3> USE DEF TypeOK, StoreTypeOK, Session, Live
    <3>1. CASE GetFresh(x)
      BY <3>1 DEF GetFresh
    <3>2. CASE GetStale(x)
      BY <3>2 DEF GetStale, Wiped
    <3>3. CASE Lock(x)
      BY <3>3 DEF Lock, Wiped
    <3>4. CASE OpenReveal(x)
      BY <3>4 DEF OpenReveal
    <3>5. CASE Tick
      BY <3>5 DEF Tick, Aged
    <3> QED
      BY <2>2, <3>1, <3>2, <3>3, <3>4, <3>5
  <2>3. ASSUME NEW t \in Threads, NEW x \in SessionIds, LoginCreate(t, x)
        PROVE  \/ sess'[s] = sess[s]
               \/ /\ sess[s].state = "unused"
                  /\ OwnRole(sess'[s].user, sess'[s].role) /\ sess'[s].user \in Accounts
    <3>1. /\ At(t, "login", "drafted") /\ sess[x].state = "unused"
          /\ sess' = [sess EXCEPT ![x] = [state |-> "live", user |-> req[t].who,
                          role |-> req[t].row.role, dek |-> req[t].row.wrapped.dek,
                          idle |-> 0, reveal |-> 0]]
      BY <2>3 DEF LoginCreate, Create
    <3>2. OwnRole(req[t].who, req[t].row.role) /\ req[t].who \in Accounts
      BY <3>1, AuthedFacts DEF MarkInv, MarksDraft, AllCalls
    <3> QED
      BY <3>1, <3>2 DEF TypeOK, StoreTypeOK
  <2>4. CASE Restart
    BY <2>4 DEF Restart, Wiped, TypeOK, StoreTypeOK, Session, Live
  <2>5. \/ UNCHANGED sess \/ Tick \/ Restart
        \/ \E x \in SessionIds : GetFresh(x) \/ GetStale(x) \/ Lock(x) \/ OpenReveal(x)
        \/ \E t \in Threads, x \in SessionIds : LoginCreate(t, x)
    <3>1. ASSUME NEW t \in Threads, LockSession(t) \/ RevealOpens(t)
          PROVE  \E x \in SessionIds : Lock(x) \/ OpenReveal(x)
      BY <3>1, AuthedFacts DEF LockSession, RevealOpens, AllCalls
    <3> QED
      BY <3>1 DEF Next, AuthStep, AdminStep, LoginRead, RevealVerify, ChangeMasterDraft,
         ChangeMasterWrite, CreateUserDraft, CreateUserInsert, UpdateUserRead, UpdateUserWrite,
         DeactivateCheck, DeactivateWrite, ResetDraft, ResetWrite, Begin, Poll, Evict,
         TimePasses, vars
  <2> QED
    BY <2>1, <2>2, <2>3, <2>4, <2>5
<1>3. \A s \in SessionIds : sess[s].state # "unused" => sess'[s].user = sess[s].user
  BY <1>2
<1>4. \A s \in SessionIds : sess'[s].state # "unused" =>
         users'[sess'[s].user] # NoRow /\ (sess'[s].role = "super_admin" => sess'[s].user = SuperAdmin)
  BY <1>1, <1>2 DEF MarkInv, SessionsAreOwn, OwnRole, Exists, TypeOK, RequestsHoldSessions
<1> QED
  BY <1>1, <1>3, <1>4 DEF MarksStay, SessionsAreOwn, OwnRole, Exists

\* The steps that draft, and that nothing else makes a request wait for its write.
Drafts(t) ==
    \/ \E u \in Accounts, pw \in Passwords : LoginRead(t, u, pw)
    \/ \E pw \in Passwords : RevealVerify(t, pw)
    \/ \E pw, new \in Passwords, z \in Salts : ChangeMasterDraft(t, pw, new, z)
    \/ \E u \in Accounts, role \in GivenRoles, pw \in Passwords, z \in Salts :
          CreateUserDraft(t, u, role, pw, z)
    \/ \E u \in Accounts, role \in GivenRoles \cup {Nobody}, active \in BOOLEAN \cup {Nobody} :
          UpdateUserRead(t, u, role, active)
    \/ \E u \in Accounts : DeactivateCheck(t, u)
    \/ \E u \in Accounts, pw \in Passwords, z \in Salts : ResetDraft(t, u, pw, z)

LEMMA OnlyDraftsDraft ==
    ASSUME TypeOK, [Next]_vars, NEW r \in Threads
    PROVE  \/ req'[r] = req[r] \/ req'[r] = NoRequest \/ req'[r].at = "authed"
           \/ Drafts(r)
<1>1. ASSUME NEW t \in Threads, Done(t)
      PROVE  req'[r] = req[r] \/ req'[r] = NoRequest
  BY <1>1 DEF Done, TypeOK
<1>2. ASSUME NEW t \in Threads, NEW s \in SessionIds, NEW op \in Calls \ {"login"}, Begin(t, s, op)
      PROVE  req'[r] = req[r] \/ req'[r].at = "authed"
  BY <1>2 DEF Begin, TypeOK
<1>3. ASSUME NEW t \in Threads, Drafts(t), t # r
      PROVE  req'[r] = req[r]
  BY <1>3 DEF Drafts, LoginRead, RevealVerify, ChangeMasterDraft, CreateUserDraft, UpdateUserRead,
     DeactivateCheck, ResetDraft, Draft, Done, TypeOK
<1>4. \/ UNCHANGED req \/ Restart
      \/ \E t \in Threads : Done(t) \/ Drafts(t)
      \/ \E t \in Threads, s \in SessionIds, op \in Calls \ {"login"} : Begin(t, s, op)
  BY DEF Next, AuthStep, AdminStep, Drafts, LoginCreate, LockSession, RevealOpens,
     ChangeMasterWrite, CreateUserInsert, UpdateUserWrite, DeactivateWrite, ResetWrite,
     Poll, Evict, TimePasses, vars
<1> QED
  BY <1>1, <1>2, <1>3, <1>4 DEF Restart

\* A draft is marked as its handler says.
LEMMA DraftsAreMarked ==
    ASSUME TypeOK, SuperAdminIntact, MarkInv, NEW t \in Threads, Drafts(t), MarksStay
    PROVE  MarksDraft(t)'
<1>1. ASSUME NEW u \in Accounts, NEW pw \in Passwords, LoginRead(t, u, pw)
      PROVE  MarksDraft(t)'
  <2>1. /\ req'[t].op = "login" /\ req'[t].who = u /\ req'[t].row = users[u] /\ Exists(u)
        /\ UNCHANGED users
    BY <1>1 DEF LoginRead, TypeOK
  <2>2. users[u].role = "super_admin" => u = SuperAdmin
    BY <2>1 DEF SuperAdminIntact, ProtectedUser
  <2> QED
    BY <2>1, <2>2 DEF MarksDraft, At, OwnRole, Exists
<1>2. CASE Done(t)
  BY <1>2 DEF Done, TypeOK, MarksDraft, At, Free
<1>3. ASSUME NEW u \in Accounts, NEW pw \in Passwords \cup {Nobody}, NEW row \in Row \cup {NoRow},
             ~Free(t), req[t].op # "login", Draft(t, u, pw, row), UNCHANGED sess,
             req[t].op = "changeMaster" => u = Held(t).user /\ ~row.must,
             req[t].op = "createUser" => row.must,
             req[t].op = "resetPassword" => row.must /\ u # Held(t).user
      PROVE  MarksDraft(t)'
  <2>1. /\ req'[t].op = req[t].op /\ req'[t].sid = req[t].sid
        /\ req'[t].who = u /\ req'[t].row = row
    BY <1>3, DraftType
  <2>2. Held(t)' = Held(t)
    BY <1>3, <2>1 DEF Held
  <2> QED
    BY <1>3, <2>1, <2>2 DEF MarksDraft, At
<1>4. ASSUME NEW pw \in Passwords, RevealVerify(t, pw)
      PROVE  MarksDraft(t)'
  <2>1. ~Free(t) /\ req[t].op = "reveal" /\ Held(t).user \in Accounts
    BY <1>4, AuthedFacts DEF RevealVerify, AllCalls
  <2> QED
    BY <1>2, <1>3, <1>4, <2>1 DEF RevealVerify
<1>5. ASSUME NEW pw \in Passwords, NEW new \in Passwords, NEW z \in Salts,
             ChangeMasterDraft(t, pw, new, z)
      PROVE  MarksDraft(t)'
  <2> DEFINE u == Held(t).user
             row == Sealed(users[u], new, z, users[u].wrapped.dek)
  <2>1. ~Free(t) /\ req[t].op = "changeMaster" /\ u \in Accounts
    BY <1>5, AuthedFacts DEF ChangeMasterDraft, AllCalls
  <2>2. CASE Draft(t, u, pw, row) /\ Exists(u)
    <3>1. users[u] \in Row /\ users[u].wrapped.dek \in DekBytes
      BY <2>1, <2>2 DEF TypeOK, Exists, Row, Wrapped
    <3>2. row \in Row
      BY <3>1, SealedType
    <3>3. ~row.must
      BY <3>1 DEF Sealed, Row
    <3> HIDE DEF row
    <3> QED
      BY <1>3, <1>5, <2>1, <2>2, <3>2, <3>3 DEF ChangeMasterDraft
  <2> QED
    BY <1>2, <1>5, <2>2 DEF ChangeMasterDraft
<1>6. ASSUME NEW u \in Accounts, NEW role \in GivenRoles, NEW pw \in Passwords, NEW z \in Salts,
             CreateUserDraft(t, u, role, pw, z)
      PROVE  MarksDraft(t)'
  <2> DEFINE new == NewRow(role, pw, z, Held(t).dek)
  <2>1. ~Free(t) /\ Held(t) \in Session /\ req[t].op = "createUser"
    BY <1>6, AuthedFacts DEF CreateUserDraft, AllCalls
  <2>2. new \in Row /\ new.must
    BY <2>1, NewRowType, AuthAssumption DEF Session, NewRow
  <2>3. Draft(t, u, Nobody, new) \/ Done(t)
    BY <1>6 DEF CreateUserDraft
  <2> HIDE DEF new
  <2> QED
    BY <1>2, <1>3, <1>6, <2>1, <2>2, <2>3 DEF CreateUserDraft
<1>7. ASSUME NEW u \in Accounts, NEW role \in GivenRoles \cup {Nobody},
             NEW active \in BOOLEAN \cup {Nobody}, UpdateUserRead(t, u, role, active)
      PROVE  MarksDraft(t)'
  <2> DEFINE new == [users[u] EXCEPT !.role = IF role = Nobody THEN @ ELSE role,
                                     !.active = IF active = Nobody THEN @ ELSE active]
  <2>1. ~Free(t) /\ req[t].op = "updateUser"
    BY <1>7, AuthedFacts DEF UpdateUserRead, AllCalls
  <2>2. CASE Exists(u) /\ Draft(t, u, Nobody, new)
    <3>1. users[u] \in Row
      BY <2>2 DEF TypeOK, Exists
    <3>2. new \in Row
      BY <3>1, AuthAssumption DEF Row
    <3> HIDE DEF new
    <3> QED
      BY <1>3, <1>7, <2>1, <2>2, <3>2 DEF UpdateUserRead
  <2> QED
    BY <1>2, <1>7, <2>2 DEF UpdateUserRead
<1>8. ASSUME NEW u \in Accounts, DeactivateCheck(t, u)
      PROVE  MarksDraft(t)'
  <2>1. ~Free(t) /\ req[t].op = "deactivateUser"
    BY <1>8, AuthedFacts DEF DeactivateCheck, AllCalls
  <2> QED
    BY <1>2, <1>3, <1>8, <2>1 DEF DeactivateCheck
<1>9. ASSUME NEW u \in Accounts, NEW pw \in Passwords, NEW z \in Salts, ResetDraft(t, u, pw, z)
      PROVE  MarksDraft(t)'
  <2> DEFINE new == NewRow("location_admin", pw, z, Held(t).dek)
  <2>1. ~Free(t) /\ req[t].op = "resetPassword" /\ Held(t).dek \in DekBytes
    BY <1>9, AuthedFacts DEF ResetDraft, AllCalls, Session
  <2>2. new \in Row /\ new.must
    BY <2>1, NewRowType, AuthAssumption DEF GivenRoles, NewRow
  <2>3. CASE Draft(t, u, Nobody, new) /\ Held(t).role = "super_admin" /\ ~ProtectedUser(u)
    <3>1. Held(t).user = SuperAdmin
      BY <2>1, <2>3 DEF TypeOK, RequestsHoldSessions, MarkInv, SessionsAreOwn, OwnRole, Held
    <3>2. u # SuperAdmin
      BY <2>3 DEF SuperAdminIntact
    <3> HIDE DEF new
    <3> QED
      BY <1>3, <1>9, <2>1, <2>2, <2>3, <3>1, <3>2 DEF ResetDraft
  <2> QED
    BY <1>2, <1>9, <2>3 DEF ResetDraft
<1> QED
  BY <1>1, <1>4, <1>5, <1>6, <1>7, <1>8, <1>9 DEF Drafts

LEMMA MarksStep ==
    ASSUME TypeOK, SuperAdminIntact, MarkInv, [Next]_vars
    PROVE  MarkInv'
<1>1. MarksStay
  BY SessionsStayOwn
<1>2. ASSUME NEW r \in Threads
      PROVE  MarksDraft(r)'
  <2>1. CASE req'[r] = req[r]
    <3>1. ASSUME At(r, "changeMaster", "drafted") \/ At(r, "resetPassword", "drafted")
          PROVE  Held(r)'.user = Held(r).user
      BY <1>1, <2>1, <3>1 DEF TypeOK, RequestsHoldSessions, MarksStay, At, Held
    <3>2. At(r, "login", "drafted") => req[r].who \in Accounts
      BY AuthedFacts DEF AllCalls
    <3>3. At(r, "login", "drafted") => OwnRole(req[r].who, req[r].row.role)'
      BY <1>1, <2>1, <3>2 DEF MarkInv, MarksDraft, MarksStay, OwnRole, Exists
    <3> QED
      BY <2>1, <3>1, <3>3 DEF MarkInv, MarksDraft, At, Free
  <2>2. CASE req'[r] = NoRequest \/ req'[r].at = "authed"
    BY <2>2 DEF MarksDraft, At, Free
  <2>3. CASE Drafts(r)
    BY <1>1, <2>3, DraftsAreMarked
  <2> QED
    BY <2>1, <2>2, <2>3, OnlyDraftsDraft
<1> QED
  BY <1>1, <1>2 DEF MarkInv, MarksStay

\* However resets, creations and changes of a password interleave, a password chosen by
\* somebody else stays marked as temporary, and no other is marked.
THEOREM TemporaryPasswordsStayFlagged == Spec => TemporaryPasswordsFlagged
<1>1. Init => MarkInv
  <2> SUFFICES ASSUME Init PROVE MarkInv
    OBVIOUS
  <2>1. \A s \in SessionIds : sess[s].state = "unused"
    BY DEF Init, StoreInit, Unused
  <2>2. \A t \in Threads : Free(t)
    BY DEF Init, Free
  <2> QED
    BY <2>1, <2>2 DEF MarkInv, SessionsAreOwn, MarksDraft, At
<1>2. TypeOK /\ SuperAdminIntact /\ MarkInv /\ [Next]_vars => MarkInv'
  BY MarksStep
<1>3. TypeOK /\ MarkInv /\ [Next]_vars =>
        [\A u \in Accounts, t \in Threads :
           /\ WritesPassword(t, u) => (users'[u].must <=> Held(t).user # u)
           /\ Exists(u) /\ users'[u].must # users[u].must =>
                 \E r \in Threads : ~Free(r) /\ req'[r] = NoRequest
                                    /\ req[r].op \in {"changeMaster", "resetPassword"}]_vars
  BY WritesAreMarked
<1> QED
  BY <1>1, <1>2, <1>3, AuthTypeCorrect, SuperAdminStaysIntact, PTL DEF Spec, TemporaryPasswordsFlagged

-------------------------------------------------------------------------------
\* The single key survives a step that leaves it in every row and every live session,
\* and that overwrites no buffer a request still has to read.
RowsKeepKey == \A u \in Accounts : users'[u] # NoRow => users'[u].wrapped.dek = VaultKey
SessionsKeepKey ==
    \A s \in SessionIds : /\ sess'[s].state = "live" => sess'[s].dek = VaultKey
                          /\ sess'[s].dek = sess[s].dek \/ ~Overtakes(s)

LEMMA OneKeyStep ==
    ASSUME RowsKeepKey, SessionsKeepKey, \A r \in Threads : HoldsVaultKey(r)'
    PROVE  OneKeyInv'
BY DEF OneKeyInv, OneVaultKey, RowsKeepKey, SessionsKeepKey, Exists, Live

\* What an unbroken OneKeyInv says of the state before the step.
LEMMA OneKeyNow ==
    ASSUME TypeOK, OneKeyInv, ~raced
    PROVE  /\ \A u \in Accounts : users[u] # NoRow => users[u].wrapped.dek = VaultKey
           /\ \A s \in SessionIds : sess[s].state = "live" => sess[s].dek = VaultKey
           /\ \A t \in Threads : HoldsVaultKey(t)
BY DEF OneKeyInv, OneVaultKey, Exists, Live

LEMMA OneKeyQuiet ==
    ASSUME TypeOK, OneKeyInv, ~raced, UNCHANGED <<sess, users>>
    PROVE  RowsKeepKey /\ SessionsKeepKey
BY OneKeyNow DEF RowsKeepKey, SessionsKeepKey

LEMMA OneKeyDone ==
    ASSUME TypeOK, OneKeyInv, ~raced, NEW t \in Threads, Done(t),
           RowsKeepKey, SessionsKeepKey
    PROVE  OneKeyInv'
<1>1. ASSUME NEW r \in Threads
      PROVE  HoldsVaultKey(r)'
  <2>1. \A op \in AllCalls, at \in {"authed", "drafted"} :
           At(r, op, at)' => req'[r] = req[r] /\ At(r, op, at)
    BY EndedRequests
  <2>2. HoldsVaultKey(r)
    BY OneKeyNow
  <2>3. PasswordDraft(r)' \/ At(r, "login", "drafted")' => req'[r].row.wrapped.dek = VaultKey
    BY <2>1, <2>2 DEF HoldsVaultKey, PasswordDraft, AllCalls
  <2>4. ASSUME At(r, "createUser", "authed")' \/ At(r, "resetPassword", "authed")'
        PROVE  Held(r)'.dek = VaultKey
    <3>1. req'[r] = req[r] /\ (At(r, "createUser", "authed") \/ At(r, "resetPassword", "authed"))
      BY <2>1, <2>4 DEF AllCalls
    <3>2. Held(r).dek = VaultKey
      BY <2>2, <3>1 DEF HoldsVaultKey
    <3>3. req[r].sid \in SessionIds
      BY <3>1, AuthedFacts DEF AllCalls
    <3>4. Overtakes(req[r].sid)
      BY <3>1 DEF Overtakes, At
    <3>5. sess'[req[r].sid].dek = sess[req[r].sid].dek
      BY <3>3, <3>4 DEF SessionsKeepKey
    <3> QED
      BY <3>1, <3>2, <3>5 DEF Held
  <2> QED
    BY <2>3, <2>4 DEF HoldsVaultKey
<1> QED
  BY <1>1, OneKeyStep

LEMMA OneKeyDraft ==
    ASSUME TypeOK, OneKeyInv, ~raced, UNCHANGED <<sess, users>>, NEW t \in Threads, ~Free(t),
           req[t].op # "login", NEW u \in Accounts, NEW pw \in Passwords \cup {Nobody},
           NEW row \in Row \cup {NoRow}, Draft(t, u, pw, row),
           \/ row.wrapped.dek = VaultKey
           \/ req[t].op \notin {"changeMaster", "createUser", "resetPassword"}
    PROVE  OneKeyInv'
<1>1. ASSUME NEW r \in Threads
      PROVE  HoldsVaultKey(r)'
  <2>1. CASE r = t
    BY <2>1, DraftedRequests DEF HoldsVaultKey, PasswordDraft, AllCalls
  <2>2. CASE r # t
    <3>1. HoldsVaultKey(r)
      BY OneKeyNow
    <3> QED
      BY <2>2, <3>1, DraftedRequests DEF HoldsVaultKey, PasswordDraft, Held, AllCalls
  <2> QED
    BY <2>1, <2>2
<1> QED
  BY <1>1, OneKeyQuiet, OneKeyStep

\* Of the session operations, only a wipe overwrites a key.
LEMMA StoreStepKeepsKey ==
    ASSUME TypeOK, OneKeyInv, ~raced, NEW s \in SessionIds,
           \/ GetFresh(s) \/ OpenReveal(s) \/ Tick
           \/ (GetStale(s) \/ Lock(s)) /\ (Live(s) => ~Overtakes(s))
    PROVE  SessionsKeepKey
<1> USE OneKeyNow DEF TypeOK, StoreTypeOK, Session, SessionsKeepKey, Live
<1>1. CASE GetFresh(s)
  BY <1>1 DEF GetFresh
<1>2. CASE GetStale(s) /\ ~Overtakes(s)
  BY <1>2 DEF GetStale, Wiped
<1>3. CASE Lock(s) /\ (Live(s) => ~Overtakes(s))
  BY <1>3 DEF Lock, Wiped
<1>4. CASE OpenReveal(s)
  BY <1>4 DEF OpenReveal
<1>5. CASE Tick
  BY <1>5 DEF Tick, Aged
<1> QED
  BY <1>1, <1>2, <1>3, <1>4, <1>5 DEF GetStale

\* A row rewritten from a draft carries the draft's key.
LEMMA OneKeyWriteKeys ==
    ASSUME TypeOK, OneKeyInv, ~raced, NEW t \in Threads, PasswordDraft(t),
           WriteKeys(req[t].who, req[t].row)
    PROVE  RowsKeepKey
<1>1. req[t].who \in Accounts /\ req[t].row \in Row
  BY AuthedFacts DEF PasswordDraft, AllCalls
<1>2. req[t].row.wrapped.dek = VaultKey
  BY OneKeyNow DEF HoldsVaultKey
<1>3. ASSUME NEW u \in Accounts, users'[u] # NoRow
      PROVE  users'[u].wrapped.dek = VaultKey
  <2>1. CASE u = req[t].who
    BY <1>1, <1>2, <1>3, <2>1, WriteKeysType
  <2>2. CASE u # req[t].who
    BY <1>1, <1>3, <2>2, WriteKeysType, OneKeyNow
  <2> QED
    BY <2>1, <2>2
<1> QED
  BY <1>3 DEF RowsKeepKey

LEMMA OneKeyAuthStep ==
    ASSUME TypeOK, OneKeyInv, ~raced, ~raced', NEW t \in Threads, AuthStep(t)
    PROVE  OneKeyInv'
<1>1. ASSUME NEW u \in Accounts, NEW pw \in Passwords, LoginRead(t, u, pw)
      PROVE  OneKeyInv'
  <2> DEFINE new == [op |-> "login", at |-> "drafted", sid |-> Nobody,
                     who |-> u, pw |-> pw, row |-> users[u]]
  <2>1. req' = [req EXCEPT ![t] = new] /\ users[u].wrapped.dek = VaultKey
    BY <1>1, OneKeyNow DEF LoginRead, Exists
  <2>2. ASSUME NEW r \in Threads
        PROVE  HoldsVaultKey(r)'
    <3>1. HoldsVaultKey(r)
      BY OneKeyNow
    <3>2. r # t => req'[r] = req[r]
      BY <2>1 DEF TypeOK
    <3>3. r = t => req'[r].op = "login" /\ req'[r].row.wrapped.dek = VaultKey
      BY <2>1 DEF TypeOK
    <3>4. UNCHANGED sess
      BY <1>1 DEF LoginRead
    <3> HIDE DEF new
    <3> QED
      BY <3>1, <3>2, <3>3, <3>4 DEF HoldsVaultKey, PasswordDraft, At, Free, Held
  <2> QED
    BY <1>1, <2>2, OneKeyQuiet, OneKeyStep DEF LoginRead
<1>2. ASSUME NEW s \in SessionIds, LoginCreate(t, s)
      PROVE  OneKeyInv'
  <2>1. At(t, "login", "drafted") /\ sess[s].state = "unused"
    BY <1>2 DEF LoginCreate, Create
  <2>2. req[t].row.wrapped.dek = VaultKey
    BY <2>1, OneKeyNow DEF HoldsVaultKey
  <2>3. ~Overtakes(s)
    BY <2>1 DEF Overtakes, TypeOK, RequestsHoldSessions, Held
  <2>4. SessionsKeepKey
    BY <1>2, <2>2, <2>3, OneKeyNow DEF LoginCreate, Create, SessionsKeepKey,
                                        TypeOK, StoreTypeOK
  <2> QED
    BY <1>2, <2>4, OneKeyNow, OneKeyDone DEF LoginCreate, RowsKeepKey
<1>3. CASE LockSession(t)
  <2>1. req[t].sid \in SessionIds
    BY <1>3, AuthedFacts DEF LockSession, AllCalls
  <2>2. Lock(req[t].sid) /\ (Live(req[t].sid) => ~Overtakes(req[t].sid))
    BY <1>3 DEF LockSession
  <2>3. SessionsKeepKey
    BY <2>1, <2>2, StoreStepKeepsKey
  <2> QED
    BY <1>3, <2>3, OneKeyNow, OneKeyDone DEF LockSession, RowsKeepKey
<1>4. ASSUME NEW pw \in Passwords, RevealVerify(t, pw)
      PROVE  OneKeyInv'
  <2>1. ~Free(t) /\ req[t].op = "reveal" /\ Held(t).user \in Accounts
    BY <1>4, AuthedFacts DEF RevealVerify, AllCalls
  <2>2. CASE Draft(t, Held(t).user, pw, NoRow)
    BY <1>4, <2>1, <2>2, OneKeyDraft DEF RevealVerify
  <2>3. CASE Done(t)
    BY <1>4, <2>3, OneKeyQuiet, OneKeyDone DEF RevealVerify
  <2> QED
    BY <1>4, <2>2, <2>3 DEF RevealVerify
<1>5. CASE RevealOpens(t)
  <2>1. req[t].sid \in SessionIds /\ OpenReveal(req[t].sid)
    BY <1>5, AuthedFacts DEF RevealOpens, AllCalls
  <2>2. SessionsKeepKey
    BY <2>1, StoreStepKeepsKey
  <2> QED
    BY <1>5, <2>2, OneKeyNow, OneKeyDone DEF RevealOpens, RowsKeepKey
<1>6. ASSUME NEW pw \in Passwords, NEW new \in Passwords, NEW z \in Salts,
             ChangeMasterDraft(t, pw, new, z)
      PROVE  OneKeyInv'
  <2> DEFINE u == Held(t).user
             row == Sealed(users[u], new, z, users[u].wrapped.dek)
  <2>1. ~Free(t) /\ req[t].op = "changeMaster" /\ u \in Accounts
    BY <1>6, AuthedFacts DEF ChangeMasterDraft, AllCalls
  <2>2. CASE Draft(t, u, pw, row) /\ Exists(u)
    <3>1. users[u] \in Row /\ users[u].wrapped.dek \in DekBytes
      BY <2>1, <2>2 DEF TypeOK, Exists, Row, Wrapped
    <3>2. row \in Row
      BY <3>1, SealedType
    <3>3. row.wrapped.dek = users[u].wrapped.dek
      BY <3>1 DEF Sealed, Row
    <3>4. users[u].wrapped.dek = VaultKey
      BY <2>1, <2>2, OneKeyNow DEF Exists
    <3> HIDE DEF row, u
    <3> QED
      BY <1>6, <2>1, <2>2, <3>2, <3>3, <3>4, OneKeyDraft DEF ChangeMasterDraft
  <2>3. CASE Done(t)
    BY <1>6, <2>3, OneKeyQuiet, OneKeyDone DEF ChangeMasterDraft
  <2> QED
    BY <1>6, <2>2, <2>3 DEF ChangeMasterDraft
<1>7. CASE ChangeMasterWrite(t)
  <2>1. At(t, "changeMaster", "drafted")
    BY <1>7 DEF ChangeMasterWrite
  <2>2. RowsKeepKey
    BY <1>7, <2>1, OneKeyWriteKeys DEF ChangeMasterWrite, PasswordDraft
  <2>3. SessionsKeepKey
    BY <1>7, OneKeyNow DEF ChangeMasterWrite, SessionsKeepKey
  <2> QED
    BY <1>7, <2>2, <2>3, OneKeyDone DEF ChangeMasterWrite
<1> QED
  BY <1>1, <1>2, <1>3, <1>4, <1>5, <1>6, <1>7 DEF AuthStep

LEMMA OneKeyAdminStep ==
    ASSUME TypeOK, OneKeyInv, ~raced, ~raced', NEW t \in Threads, AdminStep(t)
    PROVE  OneKeyInv'
<1>1. ASSUME NEW u \in Accounts, NEW role \in GivenRoles, NEW pw \in Passwords,
             NEW z \in Salts, CreateUserDraft(t, u, role, pw, z)
      PROVE  OneKeyInv'
  <2> DEFINE new == NewRow(role, pw, z, Held(t).dek)
  <2>1. ~Free(t) /\ Held(t) \in Session /\ req[t].op = "createUser"
    BY <1>1, AuthedFacts DEF CreateUserDraft, AllCalls
  <2>2. new \in Row
    BY <2>1, NewRowType, AuthAssumption DEF Session
  <2>3. new.wrapped.dek = VaultKey
    BY <1>1, OneKeyNow DEF CreateUserDraft, HoldsVaultKey, NewRow
  <2>4. Draft(t, u, Nobody, new) \/ Done(t)
    BY <1>1 DEF CreateUserDraft
  <2> HIDE DEF new
  <2>5. CASE Draft(t, u, Nobody, new)
    BY <1>1, <2>1, <2>2, <2>3, <2>5, OneKeyDraft DEF CreateUserDraft
  <2>6. CASE Done(t)
    BY <1>1, <2>6, OneKeyQuiet, OneKeyDone DEF CreateUserDraft
  <2> QED
    BY <2>4, <2>5, <2>6
<1>2. CASE CreateUserInsert(t)
  <2>1. At(t, "createUser", "drafted")
    BY <1>2 DEF CreateUserInsert
  <2>2. req[t].row.wrapped.dek = VaultKey
    BY <2>1, OneKeyNow DEF HoldsVaultKey, PasswordDraft
  <2>3. \A u \in Accounts : users'[u] = users[u] \/ users'[u] = req[t].row
    BY <1>2 DEF CreateUserInsert, TypeOK
  <2>4. RowsKeepKey
    BY <2>2, <2>3, OneKeyNow DEF RowsKeepKey
  <2>5. SessionsKeepKey
    BY <1>2, OneKeyNow DEF CreateUserInsert, SessionsKeepKey
  <2> QED
    BY <1>2, <2>4, <2>5, OneKeyDone DEF CreateUserInsert
<1>3. ASSUME NEW u \in Accounts, NEW role \in GivenRoles \cup {Nobody},
             NEW active \in BOOLEAN \cup {Nobody}, UpdateUserRead(t, u, role, active)
      PROVE  OneKeyInv'
  <2> DEFINE new == [users[u] EXCEPT !.role = IF role = Nobody THEN @ ELSE role,
                                     !.active = IF active = Nobody THEN @ ELSE active]
  <2>1. ~Free(t) /\ req[t].op = "updateUser"
    BY <1>3, AuthedFacts DEF UpdateUserRead, AllCalls
  <2>2. CASE Exists(u) /\ Draft(t, u, Nobody, new)
    <3>1. users[u] \in Row
      BY <2>2 DEF TypeOK, Exists
    <3>2. new \in Row
      BY <3>1, AuthAssumption DEF Row
    <3> HIDE DEF new
    <3> QED
      BY <1>3, <2>1, <2>2, <3>2, OneKeyDraft DEF UpdateUserRead
  <2>3. CASE Done(t)
    BY <1>3, <2>3, OneKeyQuiet, OneKeyDone DEF UpdateUserRead
  <2> QED
    BY <1>3, <2>2, <2>3 DEF UpdateUserRead
<1>4. CASE UpdateUserWrite(t) \/ DeactivateWrite(t)
  <2>1. ASSUME NEW u \in Accounts, users'[u] # NoRow
        PROVE  users'[u].wrapped.dek = VaultKey
    <3>1. CASE users'[u] = users[u]
      BY <2>1, <3>1, OneKeyNow
    <3>2. CASE users'[u] # users[u]
      <4>1. users[u] # NoRow
        BY <1>4, <3>2 DEF UpdateUserWrite, DeactivateWrite, TypeOK
      <4>2. users[u] \in Row
        BY <4>1 DEF TypeOK
      <4>3. \/ users'[u] = [users[u] EXCEPT !.role = req[t].row.role,
                                            !.active = req[t].row.active]
            \/ users'[u] = [users[u] EXCEPT !.active = FALSE]
        BY <1>4, <3>2, <4>1 DEF UpdateUserWrite, DeactivateWrite, TypeOK
      <4>4. users'[u].wrapped = users[u].wrapped
        BY <4>2, <4>3 DEF Row
      <4> QED
        BY <4>1, <4>4, OneKeyNow
    <3> QED
      BY <3>1, <3>2
  <2>2. RowsKeepKey
    BY <2>1 DEF RowsKeepKey
  <2>3. SessionsKeepKey
    BY <1>4, OneKeyNow DEF UpdateUserWrite, DeactivateWrite, SessionsKeepKey
  <2> QED
    BY <1>4, <2>2, <2>3, OneKeyDone DEF UpdateUserWrite, DeactivateWrite
<1>5. ASSUME NEW u \in Accounts, DeactivateCheck(t, u)
      PROVE  OneKeyInv'
  <2>1. ~Free(t) /\ req[t].op = "deactivateUser"
    BY <1>5, AuthedFacts DEF DeactivateCheck, AllCalls
  <2>2. CASE Draft(t, u, Nobody, NoRow)
    BY <1>5, <2>1, <2>2, OneKeyDraft DEF DeactivateCheck
  <2>3. CASE Done(t)
    BY <1>5, <2>3, OneKeyQuiet, OneKeyDone DEF DeactivateCheck
  <2> QED
    BY <1>5, <2>2, <2>3 DEF DeactivateCheck
<1>6. ASSUME NEW u \in Accounts, NEW pw \in Passwords, NEW z \in Salts,
             ResetDraft(t, u, pw, z)
      PROVE  OneKeyInv'
  <2> DEFINE new == NewRow("location_admin", pw, z, Held(t).dek)
  <2>1. ~Free(t) /\ req[t].op = "resetPassword" /\ Held(t).dek \in DekBytes
    BY <1>6, AuthedFacts DEF ResetDraft, AllCalls, Session
  <2>2. CASE Draft(t, u, Nobody, new)
    <3>1. new \in Row
      BY <2>1, NewRowType, AuthAssumption DEF GivenRoles
    <3>2. new.wrapped.dek = VaultKey
      BY <1>6, OneKeyNow DEF ResetDraft, HoldsVaultKey, NewRow
    <3> HIDE DEF new
    <3> QED
      BY <1>6, <2>1, <2>2, <3>1, <3>2, OneKeyDraft DEF ResetDraft
  <2>3. CASE Done(t)
    BY <1>6, <2>3, OneKeyQuiet, OneKeyDone DEF ResetDraft
  <2> QED
    BY <1>6, <2>2, <2>3 DEF ResetDraft
<1>7. CASE ResetWrite(t)
  <2>1. RowsKeepKey
    BY <1>7, OneKeyWriteKeys DEF ResetWrite, PasswordDraft
  <2>2. SessionsKeepKey
    BY <1>7, OneKeyNow DEF ResetWrite, SessionsKeepKey
  <2> QED
    BY <1>7, <2>1, <2>2, OneKeyDone DEF ResetWrite
<1> QED
  BY <1>1, <1>2, <1>3, <1>4, <1>5, <1>6, <1>7 DEF AdminStep

\* A step that leaves the requests alone and overwrites no key still to be read.
LEMMA OneKeyIdle ==
    ASSUME TypeOK, OneKeyInv, ~raced, UNCHANGED <<users, req>>, SessionsKeepKey
    PROVE  OneKeyInv'
<1>1. ASSUME NEW r \in Threads
      PROVE  HoldsVaultKey(r)'
  <2>1. HoldsVaultKey(r)
    BY OneKeyNow
  <2>2. ASSUME At(r, "createUser", "authed") \/ At(r, "resetPassword", "authed")
        PROVE  Held(r)'.dek = VaultKey
    <3>1. req[r].sid \in SessionIds
      BY <2>2, AuthedFacts DEF AllCalls
    <3>2. Overtakes(req[r].sid)
      BY <2>2 DEF Overtakes, At
    <3> QED
      BY <2>1, <2>2, <3>1, <3>2 DEF HoldsVaultKey, SessionsKeepKey, Held
  <2> QED
    BY <2>1, <2>2 DEF HoldsVaultKey, PasswordDraft, At, Free
<1> QED
  BY <1>1, OneKeyNow, OneKeyStep DEF RowsKeepKey

LEMMA OneKeyOtherStep ==
    ASSUME TypeOK, OneKeyInv, ~raced, ~raced',
           \/ \E t \in Threads, s \in SessionIds, op \in Calls \ {"login"} : Begin(t, s, op)
           \/ \E s \in SessionIds : Poll(s) \/ Evict(s)
           \/ Restart \/ TimePasses \/ UNCHANGED vars
    PROVE  OneKeyInv'
<1>1. ASSUME NEW t \in Threads, NEW s \in SessionIds, NEW op \in Calls \ {"login"},
             Begin(t, s, op)
      PROVE  OneKeyInv'
  <2> DEFINE new == [op |-> op, at |-> "authed", sid |-> s, who |-> Nobody,
                     pw |-> Nobody, row |-> NoRow]
  <2>1. req' = [req EXCEPT ![t] = new] /\ Live(s) /\ GetFresh(s) /\ UNCHANGED users
    BY <1>1 DEF Begin, GetFresh
  <2>2. SessionsKeepKey
    BY <2>1, StoreStepKeepsKey
  <2>3. sess'[s].dek = VaultKey
    BY <2>1, OneKeyNow DEF GetFresh, Live, TypeOK, StoreTypeOK, Session
  <2>4. ASSUME NEW r \in Threads
        PROVE  HoldsVaultKey(r)'
    <3>1. CASE r = t
      <4>1. req'[r].sid = s /\ req'[r].at = "authed"
        BY <2>1, <3>1 DEF TypeOK
      <4> HIDE DEF new
      <4> QED
        BY <2>3, <4>1 DEF HoldsVaultKey, PasswordDraft, At, Held
    <3>2. CASE r # t
      <4>1. req'[r] = req[r]
        BY <2>1, <3>2 DEF TypeOK
      <4>2. HoldsVaultKey(r)
        BY OneKeyNow
      <4>3. ASSUME At(r, "createUser", "authed") \/ At(r, "resetPassword", "authed")
            PROVE  sess'[req[r].sid].dek = VaultKey
        <5>1. req[r].sid \in SessionIds /\ Overtakes(req[r].sid)
          BY <4>3, AuthedFacts DEF AllCalls, Overtakes, At
        <5> QED
          BY <2>2, <4>2, <4>3, <5>1 DEF HoldsVaultKey, SessionsKeepKey, Held
      <4> HIDE DEF new
      <4> QED
        BY <4>1, <4>2, <4>3 DEF HoldsVaultKey, PasswordDraft, At, Free, Held
    <3> QED
      BY <3>1, <3>2
  <2>5. RowsKeepKey
    BY <2>1, OneKeyNow DEF RowsKeepKey
  <2> QED
    BY <2>2, <2>4, <2>5, OneKeyStep
<1>2. ASSUME NEW s \in SessionIds, Poll(s) \/ Evict(s)
      PROVE  OneKeyInv'
  <2>1. UNCHANGED <<users, req>> /\ (GetFresh(s) \/ (GetStale(s) /\ ~Overtakes(s)))
    BY <1>2 DEF Poll, Evict
  <2>2. SessionsKeepKey
    BY <2>1, StoreStepKeepsKey
  <2> QED
    BY <2>1, <2>2, OneKeyIdle
<1>3. CASE Restart
  <2>1. \A r \in Threads : HoldsVaultKey(r)'
    BY <1>3 DEF Restart, HoldsVaultKey, PasswordDraft, At, Free
  <2>2. \A s \in SessionIds : sess'[s].state # "live"
    BY <1>3 DEF Restart, Live, Wiped, TypeOK, StoreTypeOK, Session
  <2>3. \A u \in Accounts : users'[u] # NoRow => users'[u].wrapped.dek = VaultKey
    BY <1>3, OneKeyNow DEF Restart
  <2> QED
    BY <2>1, <2>2, <2>3 DEF OneKeyInv, OneVaultKey, Exists, Live
<1>4. CASE TimePasses
  <2>1. Tick /\ UNCHANGED <<users, req>>
    BY <1>4 DEF TimePasses
  <2>2. SessionsKeepKey
    BY <2>1, OneKeyNow DEF Tick, Aged, Live, TypeOK, StoreTypeOK, Session, SessionsKeepKey
  <2> QED
    BY <2>1, <2>2, OneKeyIdle
<1>5. CASE UNCHANGED vars
  BY <1>5, OneKeyIdle, OneKeyQuiet DEF vars
<1> QED
  BY <1>1, <1>2, <1>3, <1>4, <1>5

\* Until a session is wiped under a createUser or resetPassword that has still to read
\* its key, every account wraps the one vault key and every live session holds it.
THEOREM OneKeyUntilRaced == Spec => []OneKeyUnlessRaced
<1>1. Init => OneKeyInv
  <2> SUFFICES ASSUME Init PROVE OneKeyInv
    OBVIOUS
  <2>1. OneVaultKey
    BY InitRows DEF Init, StoreInit, Unused, OneVaultKey, Exists, Live
  <2>2. \A t \in Threads : Free(t)
    BY DEF Init, Free
  <2> QED
    BY <2>1, <2>2 DEF OneKeyInv, HoldsVaultKey, PasswordDraft, At
<1>2. TypeOK /\ OneKeyInv /\ [Next]_vars => OneKeyInv'
  <2> SUFFICES ASSUME TypeOK, OneKeyInv, [Next]_vars, ~raced'
               PROVE  OneKeyInv'
    BY DEF OneKeyInv
  <2>1. ~raced
    BY DEF Next, vars, Begin, AuthStep, AdminStep, LoginRead, LoginCreate, LockSession,
           RevealVerify, RevealOpens, ChangeMasterDraft, ChangeMasterWrite,
           CreateUserDraft, CreateUserInsert, UpdateUserRead, UpdateUserWrite,
           DeactivateCheck, DeactivateWrite, ResetDraft, ResetWrite,
           Poll, Evict, Restart, TimePasses
  <2> QED
    BY <2>1, OneKeyAuthStep, OneKeyAdminStep, OneKeyOtherStep DEF Next
<1>3. OneKeyInv => OneKeyUnlessRaced
  BY DEF OneKeyInv, OneKeyUnlessRaced
<1> QED
  BY <1>1, <1>2, <1>3, AuthTypeCorrect, PTL DEF Spec

-------------------------------------------------------------------------------
\* With handlers interleaving and the process restarting, the sessions still behave as
\* access gates: a request that outlives its session cannot bring the session back.
LEMMA AuthStoreStep ==
    ASSUME TypeOK, [Next]_vars
    PROVE  [StoreNext]_sess \/ Restart
<1>1. ASSUME NEW t \in Threads, NEW s \in SessionIds, LoginCreate(t, s)
      PROVE  StoreNext
  <2>1. req[t].who \in Accounts /\ req[t].row \in Row
    BY <1>1, AuthedFacts DEF LoginCreate, AllCalls
  <2>2. req[t].row.role \in Roles /\ req[t].row.wrapped.dek \in DekBytes
    BY <2>1 DEF Row, Wrapped
  <2> QED
    BY <1>1, <2>1, <2>2 DEF LoginCreate, StoreNext
<1>2. ASSUME NEW t \in Threads, LockSession(t) \/ RevealOpens(t)
      PROVE  StoreNext
  <2>1. req[t].sid \in SessionIds
    BY <1>2, AuthedFacts DEF LockSession, RevealOpens, AllCalls
  <2> QED
    BY <1>2, <2>1 DEF LockSession, RevealOpens, StoreNext
<1>3. ASSUME NEW t \in Threads, AuthStep(t)
      PROVE  [StoreNext]_sess
  BY <1>1, <1>2, <1>3 DEF AuthStep, LoginRead, RevealVerify, ChangeMasterDraft,
                          ChangeMasterWrite
<1>4. ASSUME NEW t \in Threads, AdminStep(t)
      PROVE  UNCHANGED sess
  BY <1>4 DEF AdminStep, CreateUserDraft, CreateUserInsert, UpdateUserRead,
      UpdateUserWrite, DeactivateCheck, DeactivateWrite, ResetDraft, ResetWrite
<1>5. ASSUME NEW t \in Threads, NEW s \in SessionIds, NEW op \in Calls \ {"login"},
             Begin(t, s, op)
      PROVE  StoreNext
  BY <1>5 DEF Begin, StoreNext
<1>6. ASSUME NEW s \in SessionIds, Poll(s) \/ Evict(s)
      PROVE  StoreNext
  BY <1>6 DEF Poll, Evict, StoreNext
<1>7. CASE TimePasses
  BY <1>7 DEF TimePasses, StoreNext
<1>8. CASE UNCHANGED vars
  BY <1>8 DEF vars
<1> QED
  BY <1>3, <1>4, <1>5, <1>6, <1>7, <1>8 DEF Next

\* The death of the process closes every open gate at once.
LEMMA RestartClosesGates ==
    ASSUME StoreInv, Restart
    PROVE  StoreInv' /\ [Gate!GateNext]_(Gate!gateVars)
<1> DEFINE S == {s \in SessionIds : Live(s)}
           lv == [g \in SessionIds |-> GateLevel(g)]
           ky == [g \in SessionIds |-> sess[g].dek]
<1> USE DEF StoreInv, StoreTypeOK, Session, KeyOnlyWhileLive, Live
<1>1. \A s \in SessionIds :
         sess'[s] = IF s \in S
                    THEN [sess[s] EXCEPT !.dek = Zeroed, !.state = "wiped", !.idle = 0, !.reveal = 0]
                    ELSE sess[s]
  BY RestartType
<1>2. StoreTypeOK'
  BY RestartType
<1>3. StoreInv'
  BY <1>1, <1>2
<1>4. \A g \in SessionIds : /\ lv'[g] = IF g \in S THEN "closed" ELSE lv[g]
                            /\ ky'[g] = IF g \in S THEN Zeroed ELSE ky[g]
  BY <1>1 DEF GateLevel, RevealOpen
<1>5. \A g \in S : lv[g] \in {"open", "revealing"}
  BY DEF GateLevel, RevealOpen
<1>6. CASE S = {}
  <2>1. lv' = lv /\ ky' = ky
    BY <1>4, <1>6
  <2> QED
    BY <1>3, <2>1 DEF Gate!gateVars
<1>7. CASE S # {}
  <2>1. Gate!Close(S)
    BY <1>4, <1>5, <1>7 DEF Gate!Close, Gate!IsOpen
  <2>2. S \in SUBSET SessionIds
    OBVIOUS
  <2> HIDE DEF S, lv, ky
  <2>3. \E T \in SUBSET SessionIds : Gate!Close(T)
    BY <2>1, <2>2 DEF Gate!Close
  <2>4. Gate!GateNext
    BY <2>3 DEF Gate!GateNext
  <2> QED
    BY <1>3, <2>4
<1> QED
  BY <1>6, <1>7

\* Under concurrent requests, expiries and restarts every session implements an access
\* gate: its key is usable exactly from Create to the wipe, and it never reopens.
THEOREM AuthImplementsGate == Spec => ImplementsGate
<1>1. Init => StoreInv /\ Gate!GateInit
  BY StoreInitType DEF Init, StoreInv, KeyOnlyWhileLive, StoreInit, Gate!GateInit,
                       GateLevel, Unused, RevealOpen, Live
<1>2. TypeOK /\ TypeOK' /\ StoreInv /\ [Next]_vars
         => StoreInv' /\ [Gate!GateNext]_(Gate!gateVars)
  <2> SUFFICES ASSUME TypeOK, TypeOK', StoreInv, [Next]_vars
               PROVE  StoreInv' /\ [Gate!GateNext]_(Gate!gateVars)
    OBVIOUS
  <2>1. CASE [StoreNext]_sess
    <3>1. StoreInv'
      BY <2>1, StoreStepKeepsInv DEF TypeOK
    <3> QED
      BY <2>1, <3>1, StoreStepIsGateStep DEF StoreInv
  <2>2. CASE Restart
    BY <2>2, RestartClosesGates
  <2> QED
    BY <2>1, <2>2, AuthStoreStep
<1> QED
  BY <1>1, <1>2, AuthTypeCorrect, PTL DEF Spec, ImplementsGate, Gate!GateSpec
===============================================================================
