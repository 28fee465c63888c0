-------------------------- MODULE BackupRestoreProofs --------------------------
(***************************************************************************)
(* Theorems about BackupRestore, for any sites, sessions, tokens, threads  *)
(* and time limits.                                                        *)
(***************************************************************************)
EXTENDS BackupRestore, SessionStoreProofs

\* TypeOK without the sessions and without CommitsHoldTokens.
Shapes == /\ db \in Vault
          /\ files \subseteq Vault
          /\ stages \in [Tokens -> Stage]
          /\ history \subseteq Tokens
          /\ req \in [Threads -> Request \cup {NoRequest}]

\* What a request and a staged entry keep when one part of them changes.
LEMMA RequestKept ==
    ASSUME NEW r \in Request, NEW v \in Vault,
           NEW x \in {"authed", "verified", "users", "sites", "creds", "taken", "applied"}
    PROVE  /\ [r EXCEPT !.at = x] \in Request
           /\ [r EXCEPT !.at = x, !.payload = v] \in Request
BY DEF Request

LEMMA StageKept ==
    ASSUME NEW g \in Stage, g.phase # "absent",
           NEW x \in {"issued", "taken", "applied", "void"}
    PROVE  [g EXCEPT !.phase = x] \in Stage
BY DEF Stage, NotIssued

LEMMA AgedStagesKept ==
    ASSUME stages \in [Tokens -> Stage]
    PROVE  StagesAged \in [Tokens -> Stage]
<1> SUFFICES ASSUME NEW k \in Tokens
             PROVE  [stages[k] EXCEPT !.left = IF @ > 0 THEN @ - 1 ELSE 0] \in Stage
  BY DEF StagesAged
<1>1. CASE stages[k] = NotIssued
  <2>1. [stages[k] EXCEPT !.left = IF @ > 0 THEN @ - 1 ELSE 0] = NotIssued
    BY <1>1 DEF NotIssued
  <2> QED
    BY <2>1 DEF Stage
<1>2. CASE stages[k] # NotIssued
  <2>1. stages[k].left \in 0 .. StageTTL
    BY <1>2 DEF Stage
  <2>2. (IF stages[k].left > 0 THEN stages[k].left - 1 ELSE 0) \in 0 .. StageTTL
    BY <2>1, BackupAssumption
  <2> QED
    BY <1>2, <2>2 DEF Stage
<1> QED
  BY <1>1, <1>2

\* The request of a busy thread is a request; the two ways a step leaves it.
LEMMA Busy ==
    ASSUME Shapes, NEW t \in Threads, ~Free(t)
    PROVE  /\ req[t] \in Request
           /\ req[t].payload \in Vault
           /\ req[t].sid \in SessionIds
           /\ \A x \in {"authed", "verified", "users", "sites", "creds", "taken", "applied"} :
                 Moved(t, x) => req' \in [Threads -> Request \cup {NoRequest}]
           /\ Done(t) => req' \in [Threads -> Request \cup {NoRequest}]
<1>1. req[t] \in Request
  BY DEF Shapes, Free
<1>2. req[t].payload \in Vault /\ req[t].sid \in SessionIds
  BY <1>1 DEF Request
<1>3. ASSUME NEW x \in {"authed", "verified", "users", "sites", "creds", "taken", "applied"},
             Moved(t, x)
      PROVE  req' \in [Threads -> Request \cup {NoRequest}]
  <2>1. [req[t] EXCEPT !.at = x] \in Request
    BY <1>1, <1>2, RequestKept
  <2> QED
    BY <2>1, <1>3 DEF Moved, Shapes
<1>4. Done(t) => req' \in [Threads -> Request \cup {NoRequest}]
  BY DEF Done, Shapes
<1> QED
  BY <1>1, <1>2, <1>3, <1>4

\* The end of a transaction that would install v.
LEMMA CommitShapes ==
    ASSUME Shapes, NEW t \in Threads, ~Free(t), NEW k \in Tokens, NEW v \in Vault,
           stages[k].phase = "taken", Commit(t, k, v), UNCHANGED <<files, history>>
    PROVE  Shapes'
<1>1. [stages[k] EXCEPT !.phase = "applied"] \in Stage /\ [stages[k] EXCEPT !.phase = "void"] \in Stage
  BY StageKept DEF Shapes
<1>2. stages' \in [Tokens -> Stage]
  BY <1>1 DEF Commit, Shapes
<1>3. req' \in [Threads -> Request \cup {NoRequest}]
  BY Busy DEF Commit
<1>4. db' \in Vault
  BY DEF Commit, Shapes
<1> QED
  BY <1>2, <1>3, <1>4 DEF Shapes

\* One step of a request.
LEMMA ServedShapes ==
    ASSUME TypeOK, Shapes, NEW t \in Threads, Served(t)
    PROVE  Shapes'
<1>1. ASSUME NEW s \in SessionIds, NEW op \in AllCalls, NEW k \in Tokens \cup {Nobody},
             Begin(t, s, op, k)
      PROVE  Shapes'
  <2>1. EmptyVault(Zeroed) \in Vault
    BY DEF EmptyVault, Vault, DekBytes
  <2>2. [op |-> op, sid |-> s, at |-> "authed", token |-> k,
         payload |-> EmptyVault(Zeroed)] \in Request
    BY <2>1 DEF Request
  <2> QED
    BY <1>1, <2>2 DEF Begin, Shapes
<1>2. CASE Verify(t)
  <2>1. req' \in [Threads -> Request \cup {NoRequest}]
    BY <1>2, Busy DEF Verify, At
  <2> QED
    BY <1>2, <2>1 DEF Verify, Shapes
<1>3. CASE ReadUsers(t) \/ ReadSites(t) \/ ReadCredentials(t)
  <2> DEFINE p == req[t].payload
  <2>1. ~Free(t) /\ req[t] \in Request /\ p \in Vault /\ db \in Vault
    BY <1>3, Busy DEF ReadUsers, ReadSites, ReadCredentials, At, Shapes
  <2>2. /\ [p EXCEPT !.key = db.key] \in Vault
        /\ [p EXCEPT !.sites = db.sites] \in Vault
        /\ [p EXCEPT !.creds = db.creds] \in Vault
    BY <2>1 DEF Vault
  <2>3. /\ [req[t] EXCEPT !.at = "users", !.payload = [p EXCEPT !.key = db.key]] \in Request
        /\ [req[t] EXCEPT !.at = "sites", !.payload = [p EXCEPT !.sites = db.sites]] \in Request
        /\ [req[t] EXCEPT !.at = "creds", !.payload = [p EXCEPT !.creds = db.creds]] \in Request
    BY <2>1, <2>2, RequestKept
  <2>4. \/ req' = [req EXCEPT ![t] = [req[t] EXCEPT !.at = "users", !.payload = [p EXCEPT !.key = db.key]]]
        \/ req' = [req EXCEPT ![t] = [req[t] EXCEPT !.at = "sites", !.payload = [p EXCEPT !.sites = db.sites]]]
        \/ req' = [req EXCEPT ![t] = [req[t] EXCEPT !.at = "creds", !.payload = [p EXCEPT !.creds = db.creds]]]
    <3>1. req \in [Threads -> Request \cup {NoRequest}]
      BY DEF Shapes
    <3>2. /\ ReadUsers(t) => req' = [req EXCEPT ![t] = [req[t] EXCEPT !.at = "users", !.payload = [p EXCEPT !.key = db.key]]]
          /\ ReadSites(t) => req' = [req EXCEPT ![t] = [req[t] EXCEPT !.at = "sites", !.payload = [p EXCEPT !.sites = db.sites]]]
          /\ ReadCredentials(t) => req' = [req EXCEPT ![t] = [req[t] EXCEPT !.at = "creds", !.payload = [p EXCEPT !.creds = db.creds]]]
      BY <2>1, <3>1 DEF ReadUsers, ReadSites, ReadCredentials, Request, Vault
    <3> QED
      BY <1>3, <3>2
  <2>5. req' \in [Threads -> Request \cup {NoRequest}]
    <3> HIDE DEF p
    <3> QED
      BY <2>3, <2>4 DEF Shapes
  <2> QED
    BY <1>3, <2>5 DEF ReadUsers, ReadSites, ReadCredentials, Shapes
<1>4. CASE Export(t)
  <2>1. req[t].payload \in Vault /\ req' \in [Threads -> Request \cup {NoRequest}]
    BY <1>4, Busy DEF Export, At
  <2> QED
    BY <1>4, <2>1 DEF Export, Shapes
<1>5. ASSUME NEW f \in files, NEW k \in Tokens, Preview(t, f, k)
      PROVE  Shapes'
  <2>1. req[t].sid \in SessionIds /\ req' \in [Threads -> Request \cup {NoRequest}]
    BY <1>5, Busy DEF Preview, At
  <2>2. [phase |-> "issued", holder |-> req[t].sid, payload |-> f, left |-> StageTTL] \in Stage
    BY <2>1, BackupAssumption DEF Stage, Shapes
  <2> QED
    BY <1>5, <2>1, <2>2 DEF Preview, Shapes
<1>6. ASSUME NEW k \in Tokens, TakeStage(t, k)
      PROVE  Shapes'
  <2>1. ~Free(t) /\ req[t] \in Request
    BY <1>6, Busy DEF TakeStage, At
  <2>2. stages[k].phase = "issued" =>
           /\ [stages[k] EXCEPT !.phase = "taken"] \in Stage
           /\ [stages[k] EXCEPT !.phase = "void"] \in Stage
    BY StageKept DEF Shapes
  <2>3. stages' \in [Tokens -> Stage]
    BY <1>6, <2>2 DEF TakeStage, Shapes
  <2>4. CASE stages[k].phase = "issued" /\ Honoured(t, k)
    <3>2. stages[k].payload \in Vault
      BY <2>4 DEF Shapes, Stage, NotIssued
    <3>3. [req[t] EXCEPT !.at = "taken", !.payload = stages[k].payload] \in Request
      BY <2>1, <3>2, RequestKept
    <3> QED
      BY <1>6, <2>3, <2>4, <3>3 DEF TakeStage, Shapes
  <2>5. CASE ~(stages[k].phase = "issued" /\ Honoured(t, k))
    <3>1. req' \in [Threads -> Request \cup {NoRequest}]
      BY <1>6, <2>1, <2>5, Busy DEF TakeStage
    <3> QED
      BY <1>6, <2>3, <3>1 DEF TakeStage, Shapes
  <2> QED
    BY <2>4, <2>5
<1>7. CASE Replace(t)
  <2> DEFINE k == req[t].token
  <2>1. ~Free(t) /\ k \in Tokens /\ stages[k].phase = "taken" /\ req[t].payload \in Vault
    BY <1>7, Busy DEF Replace, At, TypeOK, CommitsHoldTokens, AllCalls, Commits
  <2> QED
    BY <1>7, <2>1, CommitShapes DEF Replace
<1>8. CASE Merge(t)
  <2> DEFINE k == req[t].token
             p == req[t].payload
             merged == [db EXCEPT !.sites = @ \cup p.sites, !.creds = @ \cup p.creds]
  <2>1. ~Free(t) /\ k \in Tokens /\ stages[k].phase = "taken" /\ p \in Vault
    BY <1>8, Busy DEF Merge, At, TypeOK, CommitsHoldTokens, AllCalls, Commits
  <2>2. merged \in Vault
    BY <2>1 DEF Vault, Shapes
  <2>3. CASE WholeVault(p)
    <3>1. Commit(t, k, merged) /\ UNCHANGED <<files, history>>
      BY <1>8, <2>3 DEF Merge
    <3> QED
      BY <2>1, <2>2, <3>1, CommitShapes
  <2>4. CASE ~WholeVault(p)
    <3>1. req' \in [Threads -> Request \cup {NoRequest}]
      BY <1>8, <2>1, <2>4, Busy DEF Merge
    <3>2. [stages[k] EXCEPT !.phase = "void"] \in Stage
      BY <2>1, StageKept DEF Shapes
    <3> QED
      BY <1>8, <2>4, <3>1, <3>2 DEF Merge, Shapes
  <2> QED
    BY <2>3, <2>4
<1>9. CASE LockAfterReplace(t) \/ RecordMerge(t)
  <2>1. ~Free(t) /\ req[t].op \in Commits
    BY <1>9 DEF LockAfterReplace, RecordMerge, At, Commits
  <2>2. req[t].token \in Tokens
    BY <2>1 DEF TypeOK, CommitsHoldTokens
  <2>3. req' \in [Threads -> Request \cup {NoRequest}]
    BY <1>9, <2>1, Busy DEF LockAfterReplace, RecordMerge
  <2> QED
    BY <1>9, <2>2, <2>3 DEF LockAfterReplace, RecordMerge, Shapes
<1> QED
  BY <1>1, <1>2, <1>3, <1>4, <1>5, <1>6, <1>7, <1>8, <1>9 DEF Served

\* The session table is touched by one of its own operations, or the process restarts.
LEMMA SessionsStep ==
    ASSUME TypeOK, Next
    PROVE  [StoreNext]_sess \/ Restart
<1>1. ASSUME NEW t \in Threads, Served(t)
      PROVE  [StoreNext]_sess
  <2>1. ASSUME NEW s \in SessionIds, NEW op \in AllCalls, NEW k \in Tokens \cup {Nobody},
               Begin(t, s, op, k)
        PROVE  StoreNext
    BY <2>1 DEF Begin, StoreNext
  <2>2. CASE LockAfterReplace(t)
    <3>1. req[t].sid \in SessionIds
      BY <2>2 DEF LockAfterReplace, At, Free, TypeOK, Request
    <3> QED
      BY <2>2, <3>1 DEF LockAfterReplace, StoreNext
  <2>3. ASSUME \/ Verify(t) \/ ReadUsers(t) \/ ReadSites(t) \/ ReadCredentials(t)
               \/ Export(t) \/ Replace(t) \/ Merge(t) \/ RecordMerge(t)
               \/ \E f \in files, k \in Tokens : Preview(t, f, k)
               \/ \E k \in Tokens : TakeStage(t, k)
        PROVE  UNCHANGED sess
    BY <2>3 DEF Verify, ReadUsers, ReadSites, ReadCredentials, Export, Replace, Merge,
                RecordMerge, Preview, TakeStage
  <2> QED
    BY <1>1, <2>1, <2>2, <2>3 DEF Served
<1>2. ASSUME NEW s \in SessionIds, NEW u \in Accounts, NEW r \in Roles, SignIn(s, u, r)
      PROVE  StoreNext
  <2>1. db.key \in DekBytes
    BY DEF TypeOK, Vault
  <2> QED
    BY <1>2, <2>1 DEF SignIn, StoreNext
<1>3. ASSUME NEW s \in SessionIds, Poll(s) \/ SignOut(s)
      PROVE  StoreNext
  BY <1>3 DEF Poll, SignOut, StoreNext
<1>4. ASSUME NEW s \in SessionIds, NEW n \in Sites \cup {NoSite},
             CreateSite(s, n) \/ DeleteSite(s, n) \/ CreateCredential(s, n)
      PROVE  StoreNext
  BY <1>4 DEF CreateSite, DeleteSite, CreateCredential, StoreNext
<1>5. CASE TimePasses
  BY <1>5 DEF TimePasses, StoreNext
<1> QED
  BY <1>1, <1>2, <1>3, <1>4, <1>5 DEF Next

LEMMA RestartSessions ==
    ASSUME StoreTypeOK, Restart
    PROVE  StoreTypeOK'
<1>1. \A s \in SessionIds : Wiped(s)[s] \in Session
  BY WipeType
<1> QED
  BY <1>1 DEF Restart, StoreTypeOK

\* One step of anything else.
LEMMA NextShapes ==
    ASSUME TypeOK, [Next]_vars
    PROVE  Shapes'
<1>1. Shapes
  BY DEF TypeOK, Shapes
<1>2. CASE UNCHANGED vars
  BY <1>1, <1>2 DEF Shapes, vars
<1>3. ASSUME NEW s \in SessionIds, NEW u \in Accounts, NEW r \in Roles, SignIn(s, u, r)
      PROVE  Shapes'
  BY <1>1, <1>3 DEF SignIn, Shapes
<1>4. ASSUME NEW s \in SessionIds, Poll(s) \/ SignOut(s)
      PROVE  Shapes'
  BY <1>1, <1>4 DEF Poll, SignOut, Shapes
<1>5. ASSUME NEW s \in SessionIds, NEW n \in Sites, CreateSite(s, n)
      PROVE  Shapes'
  <2>1. [db EXCEPT !.sites = @ \cup {n}] \in Vault
    BY <1>1 DEF Shapes, Vault
  <2> QED
    BY <1>1, <1>5, <2>1 DEF CreateSite, Shapes
<1>6. ASSUME NEW s \in SessionIds, NEW n \in Sites, DeleteSite(s, n)
      PROVE  Shapes'
  <2> DEFINE kept == {IF c.site = n THEN [c EXCEPT !.site = NoSite] ELSE c : c \in db.creds}
  <2>1. db.creds \subseteq Credential /\ db.sites \subseteq Sites /\ db \in Vault
    BY <1>1 DEF Shapes, Vault
  <2>2. ASSUME NEW c \in Credential
        PROVE  (IF c.site = n THEN [c EXCEPT !.site = NoSite] ELSE c) \in Credential
    BY DEF Credential
  <2>3. kept \subseteq Credential
    BY <2>1, <2>2
  <2>4. db' = [db EXCEPT !.sites = @ \ {n}, !.creds = kept]
    BY <1>6 DEF DeleteSite
  <2> HIDE DEF kept
  <2>5. db' \in Vault
    BY <2>1, <2>3, <2>4 DEF Vault
  <2> QED
    BY <1>1, <1>6, <2>5 DEF DeleteSite, Shapes
<1>7. ASSUME NEW s \in SessionIds, NEW n \in Sites \cup {NoSite}, CreateCredential(s, n)
      PROVE  Shapes'
  <2>1. [site |-> n, key |-> sess[s].dek] \in Credential
    BY DEF TypeOK, StoreTypeOK, Session, Credential
  <2>2. [db EXCEPT !.creds = @ \cup {[site |-> n, key |-> sess[s].dek]}] \in Vault
    BY <1>1, <2>1 DEF Shapes, Vault
  <2> QED
    BY <1>1, <1>7, <2>2 DEF CreateCredential, Shapes
<1>8. CASE TimePasses
  BY <1>1, <1>8, AgedStagesKept DEF TimePasses, Shapes
<1>9. CASE Restart
  <2>1. \A k \in Tokens : stages[k].phase \in {"issued", "taken"} =>
           [stages[k] EXCEPT !.phase = "void"] \in Stage
    BY <1>1, StageKept DEF Shapes
  <2> QED
    BY <1>1, <1>9, <2>1 DEF Restart, Shapes
<1> QED
  BY <1>1, <1>2, <1>3, <1>4, <1>5, <1>6, <1>7, <1>8, <1>9, ServedShapes DEF Next

-------------------------------------------------------------------------------
\* A step that leaves the requests alone, and no taken stage any other way than as it was,
\* keeps what the commits hold.
LEMMA CommitsUndisturbed ==
    ASSUME CommitsHoldTokens, UNCHANGED req,
           \A k \in Tokens : stages[k].phase = "taken" => stages'[k].phase = "taken"
    PROVE  CommitsHoldTokens'
BY DEF CommitsHoldTokens, At, Free

\* A request that goes on, without being at "taken" after the step, and that voids or
\* applies no stage but its own.
LEMMA CommitLetsGo ==
    ASSUME CommitsHoldTokens, NEW t \in Threads, req \in [Threads -> Request \cup {NoRequest}],
           \/ req' = [req EXCEPT ![t] = NoRequest]
           \/ \E x \in Request :
                 /\ req' = [req EXCEPT ![t] = x]
                 /\ x.at # "taken"
                 /\ x.op \in Commits => x.token \in Tokens,
           \A k \in Tokens : \/ stages[k].phase = "taken" => stages'[k].phase = "taken"
                             \/ At(t, AllCalls, "taken") /\ k = req[t].token
    PROVE  CommitsHoldTokens'
<1>1. \A u \in Threads : u # t => req'[u] = req[u]
  OBVIOUS
<1>2. ~Free(t)' => req'[t].at # "taken" /\ (req'[t].op \in Commits => req'[t].token \in Tokens)
  BY DEF Free
<1>3. ASSUME NEW u \in Threads, (~Free(u))', (req[u].op \in Commits)'
      PROVE  req'[u].token \in Tokens
  BY <1>1, <1>2, <1>3 DEF CommitsHoldTokens, Free
<1>4. ASSUME NEW u \in Threads, At(u, AllCalls, "taken")'
      PROVE  u # t /\ At(u, AllCalls, "taken") /\ req'[u] = req[u]
  BY <1>1, <1>2, <1>4 DEF At, Free
<1>5. ASSUME NEW u \in Threads, At(u, AllCalls, "taken")'
      PROVE  req'[u].op \in Commits /\ stages'[req'[u].token].phase = "taken"
  <2>1. u # t /\ At(u, AllCalls, "taken") /\ req'[u] = req[u]
    BY <1>4, <1>5
  <2>2. req[u].op \in Commits /\ req[u].token \in Tokens /\ stages[req[u].token].phase = "taken"
    BY <2>1 DEF CommitsHoldTokens, At
  <2>3. ~(At(t, AllCalls, "taken") /\ req[u].token = req[t].token)
    BY <2>1 DEF CommitsHoldTokens
  <2> QED
    BY <2>1, <2>2, <2>3
<1>6. ASSUME NEW u \in Threads, NEW w \in Threads, u # w,
             At(u, AllCalls, "taken")', At(w, AllCalls, "taken")'
      PROVE  req'[u].token # req'[w].token
  BY <1>4, <1>6 DEF CommitsHoldTokens
<1> QED
  BY <1>3, <1>5, <1>6 DEF CommitsHoldTokens

\* Entering "taken": the stage was issued, so no other request had it.
LEMMA TakeKeepsHold ==
    ASSUME TypeOK, NEW t \in Threads, NEW k \in Tokens, TakeStage(t, k)
    PROVE  CommitsHoldTokens'
<1> DEFINE x == [req[t] EXCEPT !.at = "taken", !.payload = stages[k].payload]
<1>1. /\ CommitsHoldTokens
      /\ req \in [Threads -> Request \cup {NoRequest}]
      /\ stages \in [Tokens -> Stage]
  BY DEF TypeOK
<1>2. /\ ~Free(t) /\ req[t] \in Request /\ req[t].at = "verified"
      /\ req[t].op \in Commits /\ req[t].token = k
  BY <1>1 DEF TakeStage, At, Free
<1>3. CASE stages[k].phase = "issued" /\ Honoured(t, k)
  <2>1. stages' = [stages EXCEPT ![k].phase = "taken"] /\ req' = [req EXCEPT ![t] = x]
    BY <1>1, <1>2, <1>3 DEF TakeStage
  <2>2. x.at = "taken" /\ x.op \in Commits /\ x.token = k
    BY <1>2 DEF Request
  <2> HIDE DEF x
  <2>3. \A u \in Threads : req'[u] = IF u = t THEN x ELSE req[u]
    BY <1>1, <2>1
  <2>4. \A j \in Tokens : stages'[j].phase = IF j = k THEN "taken" ELSE stages[j].phase
    BY <1>1, <2>1
  <2>5. ASSUME NEW u \in Threads, (~Free(u))', (req[u].op \in Commits)'
        PROVE  req'[u].token \in Tokens
    BY <1>1, <2>2, <2>3, <2>5 DEF CommitsHoldTokens, Free
  <2>6. ASSUME NEW u \in Threads, At(u, AllCalls, "taken")', u # t
        PROVE  /\ At(u, AllCalls, "taken") /\ req'[u] = req[u]
               /\ req[u].op \in Commits /\ req[u].token \in Tokens
               /\ stages[req[u].token].phase = "taken" /\ req[u].token # k
    BY <1>1, <1>3, <2>3, <2>6 DEF CommitsHoldTokens, At, Free
  <2>7. ASSUME NEW u \in Threads, At(u, AllCalls, "taken")'
        PROVE  req'[u].op \in Commits /\ stages'[req'[u].token].phase = "taken"
    BY <2>2, <2>3, <2>4, <2>6, <2>7
  <2>8. ASSUME NEW u \in Threads, NEW w \in Threads, u # w,
               At(u, AllCalls, "taken")', At(w, AllCalls, "taken")'
        PROVE  req'[u].token # req'[w].token
    <3>1. CASE u # t /\ w # t
      BY <1>1, <2>6, <2>8, <3>1 DEF CommitsHoldTokens
    <3>2. CASE u = t \/ w = t
      BY <2>2, <2>3, <2>6, <2>8, <3>2
    <3> QED
      BY <3>1, <3>2
  <2> QED
    BY <2>5, <2>7, <2>8 DEF CommitsHoldTokens
<1>4. CASE ~(stages[k].phase = "issued" /\ Honoured(t, k))
  <2>1. req' = [req EXCEPT ![t] = NoRequest]
    BY <1>4 DEF TakeStage, Done
  <2>2. \A j \in Tokens : stages[j].phase = "taken" => stages'[j].phase = "taken"
    BY <1>1, <1>4 DEF TakeStage
  <2> QED
    BY <1>1, <2>1, <2>2, CommitLetsGo
<1> QED
  BY <1>3, <1>4

LEMMA ServedKeepsHold ==
    ASSUME TypeOK, NEW t \in Threads, Served(t)
    PROVE  CommitsHoldTokens'
<1>1. /\ CommitsHoldTokens /\ Shapes
      /\ req \in [Threads -> Request \cup {NoRequest}]
      /\ stages \in [Tokens -> Stage]
  BY DEF TypeOK, Shapes
<1>2. ASSUME NEW s \in SessionIds, NEW op \in AllCalls, NEW k \in Tokens \cup {Nobody},
             Begin(t, s, op, k)
      PROVE  CommitsHoldTokens'
  <2> DEFINE x == [op |-> op, sid |-> s, at |-> "authed", token |-> k,
                   payload |-> EmptyVault(Zeroed)]
  <2>1. x \in Request
    BY DEF EmptyVault, Vault, DekBytes, Request
  <2>2. x.at # "taken" /\ (x.op \in Commits => x.token \in Tokens)
    BY <1>2 DEF Begin
  <2>3. req' = [req EXCEPT ![t] = x] /\ stages' = stages
    BY <1>2 DEF Begin
  <2> HIDE DEF x
  <2> QED
    BY <1>1, <2>1, <2>2, <2>3, CommitLetsGo
<1>3. ASSUME NEW x \in Request, ~Free(t), x.at # "taken", x.op = req[t].op,
             x.token = req[t].token, req' = [req EXCEPT ![t] = x],
             \A k \in Tokens : \/ stages[k].phase = "taken" => stages'[k].phase = "taken"
                               \/ At(t, AllCalls, "taken") /\ k = req[t].token
      PROVE  CommitsHoldTokens'
  <2>1. x.op \in Commits => x.token \in Tokens
    BY <1>1, <1>3 DEF CommitsHoldTokens
  <2> QED
    BY <1>1, <1>3, <2>1, CommitLetsGo
<1>4. ASSUME Done(t),
             \A k \in Tokens : \/ stages[k].phase = "taken" => stages'[k].phase = "taken"
                               \/ At(t, AllCalls, "taken") /\ k = req[t].token
      PROVE  CommitsHoldTokens'
  BY <1>1, <1>4, CommitLetsGo DEF Done
<1>5. ASSUME ~Free(t), NEW y \in {"verified", "users", "sites", "creds", "applied"}, Moved(t, y),
             \A k \in Tokens : \/ stages[k].phase = "taken" => stages'[k].phase = "taken"
                               \/ At(t, AllCalls, "taken") /\ k = req[t].token
      PROVE  CommitsHoldTokens'
  <2> DEFINE x == [req[t] EXCEPT !.at = y]
  <2>1. req[t] \in Request
    BY <1>1, <1>5 DEF Free
  <2>2. x \in Request /\ x.at # "taken" /\ x.op = req[t].op /\ x.token = req[t].token
    BY <2>1 DEF Request
  <2>3. req' = [req EXCEPT ![t] = x]
    BY <1>5 DEF Moved
  <2> HIDE DEF x
  <2> QED
    BY <1>3, <1>5, <2>2, <2>3
<1>6. CASE Verify(t)
  BY <1>4, <1>5, <1>6 DEF Verify, At
<1>7. CASE ReadUsers(t) \/ ReadSites(t) \/ ReadCredentials(t)
  <2>1. req[t] \in Request /\ ~Free(t)
    BY <1>1, <1>7 DEF ReadUsers, ReadSites, ReadCredentials, At, Free
  <2>2. Shapes'
    BY <1>1, ServedShapes
  <2>3. /\ req'[t].at # "taken" /\ req'[t].op = req[t].op /\ req'[t].token = req[t].token
        /\ req' = [req EXCEPT ![t] = req'[t]]
        /\ req'[t] # NoRequest
        /\ stages' = stages
    <3>1. req[t].payload \in Vault
      BY <2>1 DEF Request
    <3>2. \E y \in {"users", "sites", "creds"}, v \in Vault :
             req' = [req EXCEPT ![t] = [req[t] EXCEPT !.at = y, !.payload = v]]
      <4> DEFINE p == req[t].payload
      <4>1. /\ [p EXCEPT !.key = db.key] \in Vault
            /\ [p EXCEPT !.sites = db.sites] \in Vault
            /\ [p EXCEPT !.creds = db.creds] \in Vault
        BY <1>1, <3>1 DEF Shapes, Vault
      <4>2. /\ ReadUsers(t) => req' = [req EXCEPT ![t] = [req[t] EXCEPT !.at = "users", !.payload = [p EXCEPT !.key = db.key]]]
            /\ ReadSites(t) => req' = [req EXCEPT ![t] = [req[t] EXCEPT !.at = "sites", !.payload = [p EXCEPT !.sites = db.sites]]]
            /\ ReadCredentials(t) => req' = [req EXCEPT ![t] = [req[t] EXCEPT !.at = "creds", !.payload = [p EXCEPT !.creds = db.creds]]]
        BY <1>1, <2>1, <3>1 DEF ReadUsers, ReadSites, ReadCredentials, Request, Vault
      <4> HIDE DEF p
      <4> QED
        BY <1>7, <4>1, <4>2
    <3>3. PICK y \in {"users", "sites", "creds"}, v \in Vault :
             req' = [req EXCEPT ![t] = [req[t] EXCEPT !.at = y, !.payload = v]]
      BY <3>2
    <3>4. [req[t] EXCEPT !.at = y, !.payload = v] \in Request
      BY <2>1, RequestKept
    <3>5. req'[t] = [req[t] EXCEPT !.at = y, !.payload = v]
      BY <1>1, <3>3
    <3>6. stages' = stages
      BY <1>7 DEF ReadUsers, ReadSites, ReadCredentials
    <3>7. /\ req'[t].at = y /\ req'[t].op = req[t].op /\ req'[t].token = req[t].token
      BY <2>1, <3>5 DEF Request
    <3>8. req'[t] # NoRequest
      BY <3>4, <3>5, BackupAssumption DEF NoRequest
    <3>9. req' = [req EXCEPT ![t] = req'[t]]
      BY <3>3, <3>5
    <3> QED
      BY <3>6, <3>7, <3>8, <3>9
  <2>4. req'[t] \in Request
    BY <2>2, <2>3 DEF Shapes
  <2> QED
    BY <1>3, <2>1, <2>3, <2>4
<1>8. CASE Export(t)
  BY <1>4, <1>8 DEF Export
<1>9. ASSUME NEW f \in files, NEW k \in Tokens, Preview(t, f, k)
      PROVE  CommitsHoldTokens'
  <2>1. \A j \in Tokens : stages[j].phase = "taken" => stages'[j].phase = "taken"
    BY <1>1, <1>9 DEF Preview
  <2> QED
    BY <1>4, <1>9, <2>1 DEF Preview
<1>10. CASE Replace(t) \/ Merge(t)
  <2>1. At(t, AllCalls, "taken") /\ ~Free(t)
    BY <1>10 DEF Replace, Merge, At, AllCalls, Commits
  <2>2. \A j \in Tokens : j # req[t].token => stages'[j] = stages[j]
    BY <1>1, <1>10 DEF Replace, Merge, Commit
  <2>3. Done(t) \/ Moved(t, "applied")
    BY <1>10 DEF Replace, Merge, Commit
  <2> QED
    BY <1>4, <1>5, <2>1, <2>2, <2>3
<1>11. CASE LockAfterReplace(t) \/ RecordMerge(t)
  <2>1. Done(t) /\ UNCHANGED stages
    BY <1>11 DEF LockAfterReplace, RecordMerge
  <2> QED
    BY <1>4, <2>1
<1> QED
  BY <1>2, <1>6, <1>7, <1>8, <1>9, <1>10, <1>11, TakeKeepsHold DEF Served

LEMMA TypeStep ==
    ASSUME TypeOK, [Next]_vars
    PROVE  TypeOK'
<1>1. StoreTypeOK'
  <2>1. StoreTypeOK
    BY DEF TypeOK
  <2>2. CASE UNCHANGED vars
    BY <2>1, <2>2 DEF vars, StoreTypeOK
  <2>3. CASE Next
    BY <2>1, <2>3, SessionsStep, StoreStepType, RestartSessions
  <2> QED
    BY <2>2, <2>3
<1>2. Shapes'
  BY NextShapes
<1>3. CommitsHoldTokens'
  <2>1. CommitsHoldTokens /\ stages \in [Tokens -> Stage]
    BY DEF TypeOK
  <2>2. CASE UNCHANGED vars
    BY <2>1, <2>2, CommitsUndisturbed DEF vars
  <2>3. ASSUME NEW s \in SessionIds, NEW u \in Accounts, NEW r \in Roles, SignIn(s, u, r)
        PROVE  CommitsHoldTokens'
    BY <2>1, <2>3, CommitsUndisturbed DEF SignIn
  <2>4. ASSUME NEW s \in SessionIds, Poll(s) \/ SignOut(s)
        PROVE  CommitsHoldTokens'
    BY <2>1, <2>4, CommitsUndisturbed DEF Poll, SignOut
  <2>5. ASSUME NEW s \in SessionIds, NEW n \in Sites \cup {NoSite},
               CreateSite(s, n) \/ DeleteSite(s, n) \/ CreateCredential(s, n)
        PROVE  CommitsHoldTokens'
    BY <2>1, <2>5, CommitsUndisturbed DEF CreateSite, DeleteSite, CreateCredential
  <2>6. CASE TimePasses
    <3>1. \A k \in Tokens : stages'[k].phase = stages[k].phase
      BY <2>1, <2>6 DEF TimePasses, StagesAged, Stage, NotIssued
    <3> QED
      BY <2>1, <2>6, <3>1, CommitsUndisturbed DEF TimePasses
  <2>7. CASE Restart
    BY <2>7 DEF Restart, CommitsHoldTokens, At, Free
  <2> QED
    BY <2>2, <2>3, <2>4, <2>5, <2>6, <2>7, ServedKeepsHold DEF Next
<1> QED
  BY <1>1, <1>2, <1>3 DEF TypeOK, Shapes

LEMMA InitType == Init => TypeOK
<1> SUFFICES ASSUME Init
             PROVE  TypeOK
  OBVIOUS
<1>1. StoreTypeOK
  BY StoreInitType DEF Init
<1>2. db \in Vault /\ files \subseteq Vault
  <2>1. VaultKey \in DekBytes /\ OldKey \in DekBytes
    BY BackupAssumption DEF DekBytes
  <2>2. db \in Vault
    BY <2>1 DEF Init, EmptyVault, Vault
  <2>3. \A S \in SUBSET Sites : \A C \in SUBSET [site : S \cup {NoSite}, key : {OldKey}] :
           [key |-> OldKey, sites |-> S, creds |-> C] \in Vault
    BY <2>1 DEF Vault, Credential
  <2> QED
    BY <2>2, <2>3 DEF Init
<1>3. stages \in [Tokens -> Stage] /\ history \subseteq Tokens
  BY DEF Init, Stage
<1>4. req \in [Threads -> Request \cup {NoRequest}] /\ CommitsHoldTokens
  BY DEF Init, CommitsHoldTokens, Free, At
<1> QED
  BY <1>1, <1>2, <1>3, <1>4 DEF TypeOK

\* Sessions, vault, backup files, stages and requests stay well formed, and a commit that
\* took a stage out of the map is the only one to hold it.
THEOREM BackupTypeCorrect == Spec => []TypeOK
BY InitType, TypeStep, PTL DEF Spec

-------------------------------------------------------------------------------
\* Sites and credentials come and go together, and a restore installs a whole vault or
\* leaves the database alone.
LEMMA WholeStep ==
    ASSUME TypeOK, DatabaseWhole, [Next]_vars
    PROVE  DatabaseWhole'
<1>1. CASE UNCHANGED db
  BY <1>1 DEF DatabaseWhole, WholeVault
<1>2. db \in Vault
  BY DEF TypeOK
<1>3. ASSUME NEW s \in SessionIds, NEW n \in Sites, CreateSite(s, n)
      PROVE  DatabaseWhole'
  BY <1>2, <1>3 DEF CreateSite, DatabaseWhole, WholeVault, Vault
<1>4. ASSUME NEW s \in SessionIds, NEW n \in Sites, DeleteSite(s, n)
      PROVE  DatabaseWhole'
  <2>1. db'.sites = db.sites \ {n}
    BY <1>2, <1>4 DEF DeleteSite, Vault
  <2>2. db'.creds = {IF c.site = n THEN [c EXCEPT !.site = NoSite] ELSE c : c \in db.creds}
    BY <1>2, <1>4 DEF DeleteSite, Vault
  <2>3. ASSUME NEW c \in db.creds
        PROVE  (IF c.site = n THEN [c EXCEPT !.site = NoSite] ELSE c).site
                  \in (db.sites \ {n}) \cup {NoSite}
    BY <1>2 DEF DatabaseWhole, WholeVault, Vault, Credential
  <2> QED
    BY <2>1, <2>2, <2>3 DEF DatabaseWhole, WholeVault
<1>5. ASSUME NEW s \in SessionIds, NEW n \in Sites \cup {NoSite}, CreateCredential(s, n)
      PROVE  DatabaseWhole'
  <2>1. n \in db.sites \cup {NoSite}
    BY <1>5 DEF CreateCredential
  <2>2. db'.sites = db.sites /\ db'.creds = db.creds \cup {[site |-> n, key |-> sess[s].dek]}
    BY <1>2, <1>5 DEF CreateCredential, Vault
  <2> QED
    BY <2>1, <2>2 DEF DatabaseWhole, WholeVault
<1>6. ASSUME NEW t \in Threads, Served(t)
      PROVE  DatabaseWhole'
  <2>1. ASSUME Replace(t) \/ Merge(t)
        PROVE  UNCHANGED db \/ WholeVault(db')
    BY <2>1 DEF Replace, Merge, Commit
  <2>2. ASSUME \/ Verify(t) \/ ReadUsers(t) \/ ReadSites(t) \/ ReadCredentials(t) \/ Export(t)
               \/ LockAfterReplace(t) \/ RecordMerge(t)
               \/ \E s \in SessionIds, op \in AllCalls, k \in Tokens \cup {Nobody} :
                     Begin(t, s, op, k)
               \/ \E f \in files, k \in Tokens : Preview(t, f, k)
               \/ \E k \in Tokens : TakeStage(t, k)
        PROVE  UNCHANGED db
    BY <2>2 DEF Verify, ReadUsers, ReadSites, ReadCredentials, Export, LockAfterReplace,
                RecordMerge, Begin, Preview, TakeStage
  <2>3. UNCHANGED db \/ WholeVault(db')
    BY <1>6, <2>1, <2>2 DEF Served
  <2> QED
    BY <1>1, <2>3 DEF DatabaseWhole, WholeVault
<1>7. CASE UNCHANGED vars \/ TimePasses \/ Restart
  BY <1>1, <1>7 DEF vars, TimePasses, Restart
<1>8. ASSUME NEW s \in SessionIds, \/ Poll(s) \/ SignOut(s)
                                   \/ \E u \in Accounts, r \in Roles : SignIn(s, u, r)
      PROVE  DatabaseWhole'
  BY <1>1, <1>8 DEF Poll, SignOut, SignIn
<1> QED
  BY <1>3, <1>4, <1>5, <1>6, <1>7, <1>8 DEF Next

\* The database never holds a credential of a site it lacks, whatever the backups restored.
THEOREM DatabaseStaysWhole == Spec => []DatabaseWhole
<1>1. Init => DatabaseWhole
  BY DEF Init, EmptyVault, DatabaseWhole, WholeVault
<1> QED
  BY <1>1, WholeStep, BackupTypeCorrect, PTL DEF Spec

-------------------------------------------------------------------------------
\* What was applied stays applied: later steps touch stages of other phases only.
LEMMA AppliedStays ==
    ASSUME TypeOK, [Next]_vars, NEW k \in Tokens, stages[k].phase = "applied"
    PROVE  stages'[k].phase = "applied"
<1>1. stages \in [Tokens -> Stage] /\ CommitsHoldTokens
  BY DEF TypeOK
<1>2. CASE UNCHANGED stages
  BY <1>2
<1>3. ASSUME NEW t \in Threads, NEW f \in files, NEW j \in Tokens, Preview(t, f, j)
      PROVE  stages'[k].phase = "applied"
  BY <1>1, <1>3 DEF Preview
<1>4. ASSUME NEW t \in Threads, NEW j \in Tokens, TakeStage(t, j)
      PROVE  stages'[k].phase = "applied"
  BY <1>1, <1>4 DEF TakeStage
<1>5. ASSUME NEW t \in Threads, Replace(t) \/ Merge(t)
      PROVE  stages'[k].phase = "applied"
  <2>1. stages[req[t].token].phase = "taken"
    BY <1>1, <1>5 DEF Replace, Merge, At, CommitsHoldTokens, AllCalls, Commits
  <2>2. k # req[t].token
    BY <2>1
  <2> QED
    BY <1>1, <1>5, <2>2 DEF Replace, Merge, Commit
<1>6. CASE TimePasses
  BY <1>1, <1>6 DEF TimePasses, StagesAged, Stage, NotIssued
<1>7. CASE Restart
  BY <1>1, <1>7 DEF Restart
<1>8. ASSUME NEW t \in Threads, Served(t)
      PROVE  stages'[k].phase = "applied"
  <2>1. ASSUME \/ Verify(t) \/ ReadUsers(t) \/ ReadSites(t) \/ ReadCredentials(t) \/ Export(t)
               \/ LockAfterReplace(t) \/ RecordMerge(t)
               \/ \E s \in SessionIds, op \in AllCalls, j \in Tokens \cup {Nobody} :
                     Begin(t, s, op, j)
        PROVE  UNCHANGED stages
    BY <2>1 DEF Verify, ReadUsers, ReadSites, ReadCredentials, Export, LockAfterReplace,
                RecordMerge, Begin
  <2> QED
    BY <1>2, <1>3, <1>4, <1>5, <1>8, <2>1 DEF Served
<1>9. ASSUME NEW s \in SessionIds,
             \/ Poll(s) \/ SignOut(s)
             \/ \E u \in Accounts, r \in Roles : SignIn(s, u, r)
             \/ \E n \in Sites \cup {NoSite} :
                   CreateSite(s, n) \/ DeleteSite(s, n) \/ CreateCredential(s, n)
      PROVE  stages'[k].phase = "applied"
  BY <1>2, <1>9 DEF Poll, SignOut, SignIn, CreateSite, DeleteSite, CreateCredential
<1> QED
  BY <1>2, <1>6, <1>7, <1>8, <1>9 DEF Next, vars

\* A request that is at "applied" after a step was there before, or has just applied its
\* stage.
LEMMA AppliedArises ==
    ASSUME TypeOK, [Next]_vars, NEW t \in Threads, At(t, AllCalls, "applied")'
    PROVE  \/ At(t, AllCalls, "applied") /\ req'[t] = req[t]
           \/ req'[t].op \in Commits /\ stages'[req'[t].token].phase = "applied"
<1>1. /\ req \in [Threads -> Request \cup {NoRequest}]
      /\ stages \in [Tokens -> Stage]
      /\ CommitsHoldTokens
  BY DEF TypeOK
<1>2. CASE req'[t] = req[t]
  BY <1>2 DEF At, Free
<1>3. ASSUME NEW u \in Threads, Replace(u) \/ Merge(u), u = t
      PROVE  req'[t].op \in Commits /\ stages'[req'[t].token].phase = "applied"
  <2>1. req[t] \in Request /\ req[t].op \in Commits
    BY <1>1, <1>3 DEF Replace, Merge, At, Free, Commits
  <2>2. req[t].token \in Tokens
    BY <1>1, <1>3, <2>1 DEF CommitsHoldTokens, Replace, Merge, At
  <2>3. req'[t] # NoRequest
    BY DEF At, Free
  <2>4. /\ req' = [req EXCEPT ![t].at = "applied"]
        /\ stages' = [stages EXCEPT ![req[t].token].phase = "applied"]
    BY <1>1, <1>3, <2>3 DEF Replace, Merge, Commit, Moved, Done
  <2>5. req'[t].op = req[t].op /\ req'[t].token = req[t].token
    BY <1>1, <2>1, <2>4 DEF Request
  <2>6. stages'[req[t].token].phase = "applied"
    BY <1>1, <2>2, <2>4 DEF Stage, NotIssued
  <2> QED
    BY <2>1, <2>5, <2>6
<1>4. ASSUME NEW u \in Threads, Replace(u) \/ Merge(u), u # t
      PROVE  req'[t] = req[t]
  BY <1>1, <1>4 DEF Replace, Merge, Commit, Moved, Done
<1>5. ASSUME NEW u \in Threads, Served(u), ~(Replace(u) \/ Merge(u))
      PROVE  req'[t] = req[t] \/ req'[t] = NoRequest \/ req'[t].at # "applied"
  <2>1. ASSUME \/ Verify(u) \/ ReadUsers(u) \/ ReadSites(u) \/ ReadCredentials(u) \/ Export(u)
               \/ LockAfterReplace(u) \/ RecordMerge(u)
        PROVE  req'[t] = req[t] \/ req'[t] = NoRequest \/ req'[t].at # "applied"
    <3>1. u = t => req[t] \in Request
      BY <1>1, <2>1 DEF Verify, ReadUsers, ReadSites, ReadCredentials, Export,
                        LockAfterReplace, RecordMerge, At, Free
    <3> QED
      BY <1>1, <2>1, <3>1 DEF Verify, ReadUsers, ReadSites, ReadCredentials, Export,
                        LockAfterReplace, RecordMerge, Moved, Done, Request
  <2>2. ASSUME NEW s \in SessionIds, NEW op \in AllCalls, NEW k \in Tokens \cup {Nobody},
               Begin(u, s, op, k)
        PROVE  req'[t] = req[t] \/ req'[t].at # "applied"
    BY <1>1, <2>2 DEF Begin
  <2>3. ASSUME NEW f \in files, NEW k \in Tokens, Preview(u, f, k)
        PROVE  req'[t] = req[t] \/ req'[t] = NoRequest
    BY <1>1, <2>3 DEF Preview, Done
  <2>4. ASSUME NEW k \in Tokens, TakeStage(u, k)
        PROVE  req'[t] = req[t] \/ req'[t] = NoRequest \/ req'[t].at # "applied"
    <3>1. u = t => req[t] \in Request
      BY <1>1, <2>4 DEF TakeStage, At, Free
    <3> QED
      BY <1>1, <2>4, <3>1 DEF TakeStage, Done, Request
  <2> QED
    BY <1>5, <2>1, <2>2, <2>3, <2>4 DEF Served
<1>6. CASE Restart
  BY <1>6 DEF Restart, At, Free
<1>7. ASSUME NEW s \in SessionIds,
             \/ Poll(s) \/ SignOut(s)
             \/ \E u \in Accounts, r \in Roles : SignIn(s, u, r)
             \/ \E n \in Sites \cup {NoSite} :
                   CreateSite(s, n) \/ DeleteSite(s, n) \/ CreateCredential(s, n)
      PROVE  req'[t] = req[t]
  BY <1>7 DEF Poll, SignOut, SignIn, CreateSite, DeleteSite, CreateCredential
<1>8. CASE TimePasses \/ UNCHANGED vars
  BY <1>2, <1>8 DEF TimePasses, vars
<1>9. req'[t] # NoRequest /\ req'[t].at = "applied"
  BY DEF At, Free
<1> QED
  BY <1>2, <1>3, <1>4, <1>5, <1>6, <1>7, <1>8, <1>9 DEF Next

LEMMA RecordedStep ==
    ASSUME TypeOK, RecordedInv, [Next]_vars
    PROVE  RecordedInv'
<1>1. history \subseteq Tokens /\ CommitsHoldTokens
  BY DEF TypeOK
<1>2. ASSUME NEW t \in Threads
      PROVE  AppliedMarked(t)'
  <2>1. SUFFICES ASSUME At(t, AllCalls, "applied")'
                 PROVE  req'[t].op \in Commits /\ stages'[req'[t].token].phase = "applied"
    BY DEF AppliedMarked
  <2>2. CASE At(t, AllCalls, "applied") /\ req'[t] = req[t]
    <3>1. req[t].op \in Commits /\ stages[req[t].token].phase = "applied"
      BY <2>2 DEF RecordedInv, AppliedMarked
    <3>2. req[t].token \in Tokens
      BY <1>1, <2>2, <3>1 DEF CommitsHoldTokens, At
    <3> QED
      BY <2>2, <3>1, <3>2, AppliedStays
  <2> QED
    BY <2>1, <2>2, AppliedArises
<1>3. history' = history \/ \E t \in Threads : RecordMerge(t)
  BY DEF Next, vars, Served, Begin, Verify, ReadUsers, ReadSites, ReadCredentials, Export,
         Preview, TakeStage, Replace, Merge, LockAfterReplace, SignIn, Poll, SignOut,
         CreateSite, DeleteSite, CreateCredential, TimePasses, Restart
<1>4. ASSUME NEW k \in history'
      PROVE  k \in Tokens /\ stages[k].phase = "applied"
  <2>1. CASE k \in history
    BY <1>1, <2>1 DEF RecordedInv, RecordedRestoresHappened
  <2>2. CASE k \notin history
    <3>1. PICK t \in Threads : RecordMerge(t) /\ k = req[t].token
      BY <1>3, <1>4, <2>2 DEF RecordMerge
    <3>2. At(t, AllCalls, "applied") /\ req[t].op \in Commits
      BY <3>1 DEF RecordMerge, At, AllCalls, Commits
    <3>3. req[t].token \in Tokens /\ stages[req[t].token].phase = "applied"
      BY <1>1, <3>2 DEF RecordedInv, AppliedMarked, CommitsHoldTokens, At
    <3> QED
      BY <3>1, <3>3
  <2> QED
    BY <2>1, <2>2
<1>5. RecordedRestoresHappened'
  BY <1>4, AppliedStays DEF RecordedRestoresHappened
<1> QED
  BY <1>2, <1>5 DEF RecordedInv

\* A row of backup_events tells of a restore only if that restore was committed, for any
\* interleaving of commits, refusals, restarts and the clock.
THEOREM RecordedRestoresDidHappen == Spec => []RecordedRestoresHappened
<1>1. Init => RecordedInv
  BY DEF Init, RecordedInv, RecordedRestoresHappened, AppliedMarked, At, Free
<1>2. RecordedInv => RecordedRestoresHappened
  BY DEF RecordedInv
<1> QED
  BY <1>1, <1>2, RecordedStep, BackupTypeCorrect, PTL DEF Spec

-------------------------------------------------------------------------------
\* The ticket that a token stands for.
TicketOf(k) == [phase |-> TicketPhase(k), holder |-> stages[k].holder,
                payload |-> stages[k].payload]

\* The tickets that one unit of time lets expire, and those a restart forgets.
Expiring == {k \in Tokens : stages[k].phase = "issued" /\ stages[k].left = 1}
Forgotten == {k \in Tokens : stages[k].phase \in {"issued", "taken"}}

\* A stage that enters a later phase is a ticket that does.
LEMMA StageEnters ==
    ASSUME stages \in [Tokens -> Stage], NEW k \in Tokens,
           NEW x \in {"taken", "applied", "void"}, stages[k].phase # "absent",
           stages' = [stages EXCEPT ![k].phase = x]
    PROVE  [j \in Tokens |-> TicketOf(j)]'
              = [[j \in Tokens |-> TicketOf(j)] EXCEPT ![k].phase = x]
<1>1. \A j \in Tokens \ {k} : stages'[j] = stages[j]
  OBVIOUS
<1>2. /\ stages'[k].phase = x
      /\ stages'[k].holder = stages[k].holder
      /\ stages'[k].payload = stages[k].payload
  BY DEF Stage, NotIssued
<1>3. \A j \in Tokens \ {k} : TicketOf(j)' = TicketOf(j)
  BY <1>1 DEF TicketOf, TicketPhase
<1>4. TicketOf(k)' = [TicketOf(k) EXCEPT !.phase = x]
  BY <1>2 DEF TicketOf, TicketPhase
<1> QED
  BY <1>3, <1>4

\* How a step of one ticket, or of several at once, is a step of the tickets.
LEMMA OneTicketStep ==
    ASSUME NEW k \in Tokens, Ticket!Issue(k) \/ Ticket!Apply(k) \/ Ticket!Refuse({k})
    PROVE  Ticket!TicketNext
<1>1. CASE Ticket!Issue(k) \/ Ticket!Apply(k)
  BY <1>1, Zenon DEF Ticket!TicketNext
<1>2. CASE Ticket!Refuse({k})
  <2>1. {k} \in SUBSET Tokens
    OBVIOUS
  <2>2. \E S \in SUBSET Tokens : Ticket!Refuse(S)
    BY <1>2, <2>1, Zenon
  <2> QED
    BY <2>2, Zenon DEF Ticket!TicketNext
<1> QED
  BY <1>1, <1>2

LEMMA ManyTicketsStep ==
    ASSUME NEW S \in SUBSET Tokens, Ticket!Expire(S) \/ Ticket!Refuse(S)
    PROVE  Ticket!TicketNext
<1>1. \E T \in SUBSET Tokens : Ticket!Expire(T) \/ Ticket!Refuse(T)
  BY Zenon
<1> QED
  BY <1>1, Zenon DEF Ticket!TicketNext

\* Every step is a step of the tickets, or leaves them as they were.
LEMMA TicketStep ==
    ASSUME TypeOK, TypeOK', [Next]_vars
    PROVE  Ticket!TicketNext \/ UNCHANGED [k \in Tokens |-> TicketOf(k)]
<1> DEFINE tk == [k \in Tokens |-> TicketOf(k)]
<1>1. stages \in [Tokens -> Stage] /\ CommitsHoldTokens
  BY DEF TypeOK
<1>2. \A k \in Tokens : /\ tk[k].phase = TicketPhase(k)
                        /\ tk[k].holder = stages[k].holder
  BY DEF TicketOf
<1>3. ASSUME UNCHANGED stages
      PROVE  UNCHANGED tk
  BY <1>3 DEF TicketOf, TicketPhase
<1>4. ASSUME NEW k \in Tokens, stages[k].phase \in {"issued", "taken"},
             stages' = [stages EXCEPT ![k].phase = "void"]
      PROVE  Ticket!Refuse({k})
  <2>1. tk' = [tk EXCEPT ![k].phase = "void"]
    BY <1>1, <1>4, StageEnters
  <2>2. tk[k].phase \in {"issued", "expired", "taken"}
    BY <1>2, <1>4 DEF TicketPhase
  <2>3. tk' = [j \in Tokens |-> IF j \in {k} THEN [tk[j] EXCEPT !.phase = "void"] ELSE tk[j]]
    BY <2>1
  <2> QED
    BY <2>2, <2>3 DEF Ticket!Refuse, TicketOf
<1>5. ASSUME NEW t \in Threads, NEW f \in files, NEW k \in Tokens, Preview(t, f, k)
      PROVE  Ticket!Issue(k)
  <2> DEFINE x == [phase |-> "issued", holder |-> req[t].sid, payload |-> f]
  <2>1. req[t].sid \in SessionIds /\ f \in Vault
    BY <1>5 DEF Preview, At, Free, TypeOK, Request
  <2>2. \A j \in Tokens \ {k} : TicketOf(j)' = TicketOf(j)
    BY <1>1, <1>5 DEF Preview, TicketOf, TicketPhase
  <2>3. TicketOf(k)' = x
    BY <1>1, <1>5, BackupAssumption DEF Preview, TicketOf, TicketPhase
  <2>4. tk[k].phase = "absent"
    BY <1>2, <1>5 DEF Preview, TicketPhase
  <2>5. x \in [phase : {"issued"}, holder : SessionIds, payload : Vault]
    BY <2>1
  <2>6. tk' = [tk EXCEPT ![k] = tk'[k]] /\ tk'[k] = x
    BY <2>2, <2>3
  <2> HIDE DEF x
  <2> QED
    BY <2>4, <2>5, <2>6 DEF Ticket!Issue, TicketOf
<1>6. ASSUME NEW t \in Threads, NEW k \in Tokens, TakeStage(t, k)
      PROVE  Ticket!TicketNext \/ UNCHANGED tk
  <2>1. CASE stages[k].phase # "issued"
    BY <1>3, <1>6, <2>1 DEF TakeStage
  <2>2. CASE stages[k].phase = "issued" /\ Honoured(t, k)
    <3>1. tk' = [tk EXCEPT ![k].phase = "taken"]
      BY <1>1, <1>6, <2>2, StageEnters DEF TakeStage
    <3>2. tk[k].phase = "issued" /\ stages[k].holder \in SessionIds
      BY <1>1, <1>2, <2>2 DEF TicketPhase, Honoured, Stage, NotIssued
    <3>3. Ticket!Take(k, stages[k].holder)
      BY <3>1, <3>2 DEF Ticket!Take, Ticket!Enters, TicketOf
    <3> QED
      BY <3>2, <3>3 DEF Ticket!TicketNext
  <2>3. CASE stages[k].phase = "issued" /\ ~Honoured(t, k)
    <3>1. Ticket!Refuse({k})
      BY <1>4, <1>6, <2>3 DEF TakeStage
    <3> QED
      BY <3>1, OneTicketStep
  <2> QED
    BY <2>1, <2>2, <2>3
<1>7. ASSUME NEW t \in Threads, Replace(t) \/ Merge(t)
      PROVE  Ticket!TicketNext
  <2>0. req[t].token \in Tokens /\ stages[req[t].token].phase = "taken"
    BY <1>1, <1>7 DEF Replace, Merge, At, CommitsHoldTokens, AllCalls, Commits
  <2>1. PICK k \in Tokens : k = req[t].token /\ stages[k].phase = "taken"
    BY <2>0
  <2>2. \/ stages' = [stages EXCEPT ![k].phase = "applied"]
        \/ stages' = [stages EXCEPT ![k].phase = "void"]
    BY <1>7, <2>1 DEF Replace, Merge, Commit
  <2>3. CASE stages' = [stages EXCEPT ![k].phase = "applied"]
    <3>1. tk' = [tk EXCEPT ![k].phase = "applied"] /\ tk[k].phase = "taken"
      BY <1>1, <1>2, <2>1, <2>3, StageEnters DEF TicketPhase
    <3>2. Ticket!Apply(k)
      BY <2>1, <3>1 DEF Ticket!Apply, Ticket!Enters, TicketOf
    <3> QED
      BY <2>1, <3>2, OneTicketStep
  <2>4. CASE stages' = [stages EXCEPT ![k].phase = "void"]
    <3>1. Ticket!Refuse({k})
      BY <1>4, <2>1, <2>4
    <3> QED
      BY <2>1, <3>1, OneTicketStep
  <2> QED
    BY <2>2, <2>3, <2>4
<1>8. CASE TimePasses
  <2>1. \A k \in Tokens : /\ stages'[k].phase = stages[k].phase
                          /\ stages'[k].holder = stages[k].holder
                          /\ stages'[k].payload = stages[k].payload
                          /\ stages'[k].left = IF stages[k].left > 0 THEN stages[k].left - 1 ELSE 0
    BY <1>1, <1>8 DEF TimePasses, StagesAged, Stage, NotIssued
  <2>2. \A k \in Tokens : stages[k].left \in Nat
    BY <1>1, BackupAssumption DEF Stage, NotIssued
  <2>3. \A k \in Tokens : TicketOf(k)' = IF k \in Expiring THEN [TicketOf(k) EXCEPT !.phase = "expired"]
                                         ELSE TicketOf(k)
    BY <2>1, <2>2 DEF TicketOf, TicketPhase, Expiring
  <2>4. PICK S \in SUBSET Tokens : S = Expiring
    BY DEF Expiring
  <2>5. \A k \in S : k \in Tokens /\ tk[k].phase = "issued"
    BY <1>2, <2>4 DEF TicketPhase, Expiring
  <2>6. tk' = [k \in Tokens |-> IF k \in S THEN [tk[k] EXCEPT !.phase = "expired"] ELSE tk[k]]
    BY <2>3, <2>4
  <2>7. Ticket!Expire(S)
    BY <2>5, <2>6 DEF Ticket!Expire, TicketOf
  <2> QED
    BY <2>7, ManyTicketsStep
<1>9. CASE Restart
  <2>1. \A k \in Tokens : stages'[k] = IF k \in Forgotten THEN [stages[k] EXCEPT !.phase = "void"]
                                       ELSE stages[k]
    BY <1>9 DEF Restart, Forgotten
  <2>2. \A k \in Forgotten : /\ k \in Tokens
                             /\ stages'[k].phase = "void"
                             /\ stages'[k].holder = stages[k].holder
                             /\ stages'[k].payload = stages[k].payload
    BY <1>1, <2>1 DEF Forgotten, Stage, NotIssued
  <2>3. \A k \in Tokens : TicketOf(k)' = IF k \in Forgotten THEN [TicketOf(k) EXCEPT !.phase = "void"]
                                         ELSE TicketOf(k)
    BY <2>1, <2>2 DEF TicketOf, TicketPhase
  <2>4. PICK S \in SUBSET Tokens : S = Forgotten
    BY DEF Forgotten
  <2>5. \A k \in S : k \in Tokens /\ tk[k].phase \in {"issued", "expired", "taken"}
    BY <1>2, <2>4 DEF TicketPhase, Forgotten
  <2>6. tk' = [k \in Tokens |-> IF k \in S THEN [tk[k] EXCEPT !.phase = "void"] ELSE tk[k]]
    BY <2>3, <2>4
  <2>7. Ticket!Refuse(S)
    BY <2>5, <2>6 DEF Ticket!Refuse, TicketOf
  <2> QED
    BY <2>7, ManyTicketsStep
<1>10. ASSUME NEW t \in Threads,
              \/ Verify(t) \/ ReadUsers(t) \/ ReadSites(t) \/ ReadCredentials(t) \/ Export(t)
              \/ LockAfterReplace(t) \/ RecordMerge(t)
              \/ \E s \in SessionIds, op \in AllCalls, k \in Tokens \cup {Nobody} : Begin(t, s, op, k)
       PROVE  UNCHANGED tk
  <2>1. UNCHANGED stages
    BY <1>10 DEF Verify, ReadUsers, ReadSites, ReadCredentials, Export, LockAfterReplace,
                 RecordMerge, Begin
  <2> QED
    BY <1>3, <2>1
<1>11. ASSUME NEW s \in SessionIds,
              \/ Poll(s) \/ SignOut(s)
              \/ \E u \in Accounts, r \in Roles : SignIn(s, u, r)
              \/ \E n \in Sites \cup {NoSite} :
                    CreateSite(s, n) \/ DeleteSite(s, n) \/ CreateCredential(s, n)
       PROVE  UNCHANGED tk
  <2>1. UNCHANGED stages
    BY <1>11 DEF Poll, SignOut, SignIn, CreateSite, DeleteSite, CreateCredential
  <2> QED
    BY <1>3, <2>1
<1>12. CASE UNCHANGED vars
  BY <1>3, <1>12 DEF vars
<1>13. ASSUME NEW t \in Threads, Served(t)
       PROVE  Ticket!TicketNext \/ UNCHANGED tk
  <2>1. ASSUME NEW f \in files, NEW k \in Tokens, Preview(t, f, k)
        PROVE  Ticket!TicketNext
    BY <1>5, <2>1, OneTicketStep
  <2> HIDE DEF tk
  <2> QED
    BY <1>6, <1>7, <1>10, <1>13, <2>1 DEF Served
<1> QED
  <2>1. \/ TimePasses \/ Restart \/ UNCHANGED vars
        \/ \E t \in Threads : Served(t)
        \/ \E s \in SessionIds :
              \/ Poll(s) \/ SignOut(s)
              \/ \E u \in Accounts, r \in Roles : SignIn(s, u, r)
              \/ \E n \in Sites \cup {NoSite} :
                    CreateSite(s, n) \/ DeleteSite(s, n) \/ CreateCredential(s, n)
    BY DEF Next
  <2> QED
    BY <1>8, <1>9, <1>11, <1>12, <1>13, <2>1, Zenon

\* A preview is good for one restore, by the session that asked for it, in its time.
THEOREM BackupImplementsTickets == Spec => ImplementsTickets
<1>1. Init => Ticket!TicketInit
  BY DEF Init, Ticket!TicketInit, TicketPhase, NotIssued
<1>2. TypeOK /\ TypeOK' /\ [Next]_vars
         => [Ticket!TicketNext]_[k \in Tokens |-> TicketOf(k)]
  BY TicketStep
<1> QED
  BY <1>1, <1>2, BackupTypeCorrect, PTL DEF Spec, ImplementsTickets, Ticket!TicketSpec, TicketOf
===============================================================================
