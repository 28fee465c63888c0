------------------------- MODULE CredentialStoreProofs -------------------------
(***************************************************************************)
(* Theorems about CredentialStore: type correctness, ReadableUnlessRaced,  *)
(* AnswersTakenWhileLive, WritesStayInScope and BlankKeepsPassword, for    *)
(* any number of sessions, accounts, sites, credentials and threads.       *)
(***************************************************************************)
EXTENDS CredentialStore, TLAPS, SessionStoreProofs

-------------------------------------------------------------------------------
\* What every step does to the sessions.

LEMMA StepOfStore ==
    ASSUME StoreTypeOK, [Next]_vars
    PROVE  [StoreNext]_sess
<1>1. ASSUME NEW t \in Threads, RequestStep(t)
      PROVE  [StoreNext]_sess
  BY <1>1 DEF RequestStep, Begin, Admit, Fetch, Scope, Place, Seal, SealGenerated,
              EditWrite, RotateWrite, CreateWrite, DeleteWrite, Open, Answer, StoreNext
<1>2. ASSUME NEW s \in SessionIds, SiteStep(s)
      PROVE  [StoreNext]_sess
  BY <1>2 DEF SiteStep, CreateSite, DeleteSite, AssignSites, AsAdmin, StoreNext
<1>3. ASSUME NEW s \in SessionIds, SessionStep(s)
      PROVE  [StoreNext]_sess
  <2>1. ASSUME NEW u \in Accounts, SignIn(s, u)
        PROVE  [StoreNext]_sess
    <3>1. RoleOf(u) \in Roles /\ VaultKey \in DekBytes
      BY CredAssumption DEF RoleOf, DekBytes
    <3> QED
      BY <2>1, <3>1 DEF SignIn, StoreNext
  <2> QED
    BY <1>3, <2>1 DEF SessionStep, Prompted, Poll, SignOut, StoreNext
<1>4. CASE TimePasses \/ UNCHANGED vars
  BY <1>4 DEF TimePasses, StoreNext, vars
<1> QED
  BY <1>1, <1>2, <1>3, <1>4 DEF Next

\* A session once created keeps its account and its role, wiped or not.
SessionsKept ==
    \A s \in SessionIds : sess[s].state # "unused" =>
        /\ sess'[s].state # "unused"
        /\ sess'[s].user = sess[s].user
        /\ sess'[s].role = sess[s].role

LEMMA StoreKeepsSessions ==
    ASSUME StoreTypeOK, [StoreNext]_sess
    PROVE  SessionsKept
<1> USE DEF StoreTypeOK, Session, SessionsKept, Live
<1>1. ASSUME NEW s \in SessionIds, NEW u \in Accounts, NEW r \in Roles,
             NEW k \in DekBytes, Create(s, u, r, k)
      PROVE  SessionsKept
  BY <1>1 DEF Create
<1>2. ASSUME NEW s \in SessionIds, GetFresh(s) \/ OpenReveal(s)
      PROVE  SessionsKept
  BY <1>2 DEF GetFresh, OpenReveal
<1>3. ASSUME NEW s \in SessionIds, GetStale(s) \/ Lock(s)
      PROVE  SessionsKept
  <2>1. sess' = sess \/ sess' = Wiped(s)
    BY <1>3 DEF GetStale, Lock
  <2>2. \A i \in SessionIds : Wiped(s)[i].user = sess[i].user /\ Wiped(s)[i].role = sess[i].role
    BY DEF Wiped
  <2>3. \A i \in SessionIds : sess[i].state # "unused" => Wiped(s)[i].state # "unused"
    BY DEF Wiped
  <2> QED
    BY <2>1, <2>2, <2>3
<1>4. CASE Tick
  BY <1>4 DEF Tick, Aged
<1>5. CASE UNCHANGED sess
  BY <1>5
<1> QED
  BY <1>1, <1>2, <1>3, <1>4, <1>5 DEF StoreNext

-------------------------------------------------------------------------------
\* Requests.  Whole is what RequestsComplete asks of one request besides its session.
Whole(x) == /\ (x.id = 0) <=> (x.op = "create")
            /\ x.at \notin {"authed", "admitted"} => x.row # NoRow

RequestsOK == /\ req \in [Threads -> Request \cup {NoRequest}]
              /\ RequestsComplete

\* A step that leaves requests alone, ends one or replaces it by a whole one.
LEMMA KeepsRequests ==
    ASSUME RequestsOK, SessionsKept, UNCHANGED req
    PROVE  RequestsOK'
BY DEF RequestsOK, RequestsComplete, SessionsKept, Free, Held, Request

LEMMA DoneRequests ==
    ASSUME RequestsOK, SessionsKept, NEW t \in Threads, Done(t)
    PROVE  RequestsOK'
<1>1. \A r \in Threads : req'[r] = NoRequest \/ req'[r] = req[r]
  BY DEF RequestsOK, Done
<1>2. RequestsComplete'
  BY <1>1 DEF RequestsOK, RequestsComplete, SessionsKept, Free, Held, Request
<1> QED
  BY <1>2 DEF RequestsOK, Done

LEMMA AdvanceRequests ==
    ASSUME RequestsOK, SessionsKept, NEW t \in Threads, NEW x \in Request, Whole(x),
           sess'[x.sid].state # "unused", req' = [req EXCEPT ![t] = x]
    PROVE  RequestsOK'
<1>1. \A r \in Threads : req'[r] = IF r = t THEN x ELSE req[r]
  BY DEF RequestsOK
<1>2. RequestsComplete'
  BY <1>1 DEF RequestsOK, RequestsComplete, SessionsKept, Free, Held, Request, Whole
<1> QED
  BY <1>2 DEF RequestsOK

\* Marking changes nothing but the mark.
LEMMA MarkedShape ==
    ASSUME NEW q \in [Threads -> Request \cup {NoRequest}], NEW t \in Threads
    PROVE  /\ Marked(q) \in [Threads -> Request \cup {NoRequest}]
           /\ q[t] = NoRequest => Marked(q)[t] = NoRequest
           /\ q[t] # NoRequest =>
                /\ Marked(q)[t] # NoRequest
                /\ Marked(q)[t].op = q[t].op /\ Marked(q)[t].at = q[t].at
                /\ Marked(q)[t].sid = q[t].sid /\ Marked(q)[t].id = q[t].id
                /\ Marked(q)[t].row = q[t].row /\ Marked(q)[t].blank = q[t].blank
                /\ Marked(q)[t].unasked = q[t].unasked
                /\ Marked(q)[t].takenLive = q[t].takenLive
                /\ ~Marked(q)[t].overtaken =>
                      /\ ~q[t].overtaken /\ assigned' = assigned
                      /\ q[t].id # 0 => creds'[q[t].id] = creds[q[t].id]
<1> DEFINE mark(r) == \/ q[r].overtaken \/ assigned' # assigned
                      \/ q[r].id # 0 /\ creds'[q[r].id] # creds[q[r].id]
<1>1. \A r \in Threads : q[r] # NoRequest => q[r] \in Request /\ mark(r) \in BOOLEAN
  BY DEF Request
<1>2. \A r \in Threads : Marked(q)[r] =
         IF q[r] = NoRequest THEN q[r] ELSE [q[r] EXCEPT !.overtaken = mark(r)]
  BY DEF Marked
<1>3. \A r \in Threads : q[r] # NoRequest => Marked(q)[r] \in Request
  <2> SUFFICES ASSUME NEW r \in Threads, q[r] # NoRequest
               PROVE  [q[r] EXCEPT !.overtaken = mark(r)] \in Request
    BY <1>2
  <2> DEFINE m == mark(r)
  <2>1. m \in BOOLEAN /\ q[r] \in Request
    BY <1>1
  <2> HIDE DEF m
  <2>2. [q[r] EXCEPT !.overtaken = m] \in Request
    BY <2>1 DEF Request
  <2> QED
    BY <2>2 DEF m
<1>4. Marked(q) \in [Threads -> Request \cup {NoRequest}]
  BY <1>2, <1>3 DEF Marked
<1>5. ASSUME q[t] # NoRequest
      PROVE  /\ Marked(q)[t] # NoRequest
             /\ Marked(q)[t].op = q[t].op /\ Marked(q)[t].at = q[t].at
             /\ Marked(q)[t].sid = q[t].sid /\ Marked(q)[t].id = q[t].id
             /\ Marked(q)[t].row = q[t].row /\ Marked(q)[t].blank = q[t].blank
             /\ Marked(q)[t].unasked = q[t].unasked
             /\ Marked(q)[t].takenLive = q[t].takenLive
             /\ Marked(q)[t].overtaken = mark(t)
  <2> DEFINE m == mark(t)
  <2>1. q[t] \in Request /\ Marked(q)[t] = [q[t] EXCEPT !.overtaken = m]
    BY <1>1, <1>2, <1>5
  <2>2. Marked(q)[t] # NoRequest
    BY <1>3, <1>5, CredRequestAssumption
  <2> HIDE DEF m
  <2>3. /\ Marked(q)[t].op = q[t].op /\ Marked(q)[t].at = q[t].at
        /\ Marked(q)[t].sid = q[t].sid /\ Marked(q)[t].id = q[t].id
        /\ Marked(q)[t].row = q[t].row /\ Marked(q)[t].blank = q[t].blank
        /\ Marked(q)[t].unasked = q[t].unasked
        /\ Marked(q)[t].takenLive = q[t].takenLive
        /\ Marked(q)[t].overtaken = m
    BY <2>1 DEF Request
  <2> QED
    BY <2>2, <2>3 DEF m
<1>6. q[t] = NoRequest => Marked(q)[t] = NoRequest
  BY <1>2
<1> QED
  BY <1>4, <1>5, <1>6

\* x is y in another phase, past the reading of its row.
Later(x, y) == /\ y # NoRequest /\ y.row # NoRow
               /\ x.op = y.op /\ x.sid = y.sid /\ x.id = y.id
               /\ x.row = y.row /\ x.takenLive = y.takenLive

LEMMA MarkedRequests ==
    ASSUME RequestsOK, SessionsKept, NEW q \in [Threads -> Request \cup {NoRequest}],
           \A r \in Threads : q[r] = NoRequest \/ q[r] = req[r] \/ Later(q[r], req[r]),
           req' = Marked(q)
    PROVE  RequestsOK'
<1>1. req' \in [Threads -> Request \cup {NoRequest}]
  <2>1. CASE Threads = {}
    BY <2>1 DEF Marked
  <2>2. CASE Threads # {}
    BY <2>2, MarkedShape
  <2> QED
    BY <2>1, <2>2
<1>2. ASSUME NEW r \in Threads, req'[r] # NoRequest
      PROVE  /\ req[r] # NoRequest
             /\ req'[r].op = req[r].op
             /\ req'[r].at = req[r].at \/ req[r].row # NoRow
             /\ req'[r].sid = req[r].sid /\ req'[r].id = req[r].id
             /\ req'[r].row = req[r].row
  BY <1>2, MarkedShape DEF Later
<1>3. RequestsComplete'
  BY <1>2 DEF RequestsOK, RequestsComplete, SessionsKept, Free, Held, Request
<1> QED
  BY <1>1, <1>3 DEF RequestsOK

-------------------------------------------------------------------------------
\* Rows.
DataOK == /\ sites \subseteq SiteIds
          /\ creds \in [CredIds -> Cred \cup {NoRow}]
          /\ raced \in BOOLEAN
          /\ ReferencesHold

LEMMA TypeParts == CredTypeOK <=> StoreTypeOK /\ RequestsOK /\ DataOK
BY DEF CredTypeOK, RequestsOK, DataOK

LEMMA KeepsData ==
    ASSUME DataOK, UNCHANGED <<sites, assigned, creds>>, raced' \in BOOLEAN
    PROVE  DataOK'
BY DEF DataOK, ReferencesHold

LEMMA QuietData ==
    ASSUME DataOK, UNCHANGED <<sites, assigned, creds, raced>>
    PROVE  DataOK'
BY DEF DataOK, ReferencesHold

\* One row put in place of another, or removed, by a statement that checks the site.
LEMMA RowWritten ==
    ASSUME DataOK, UNCHANGED <<sites, assigned, raced>>, NEW i \in CredIds,
           NEW row \in Cred \cup {NoRow}, row # NoRow => row.site \in sites \cup {NoSite},
           creds' = [creds EXCEPT ![i] = row]
    PROVE  DataOK'
<1>1. \A j \in CredIds : creds'[j] = IF j = i THEN row ELSE creds[j]
  BY DEF DataOK
<1> QED
  BY <1>1 DEF DataOK, ReferencesHold

\* What is known of a request that is being served.
LEMMA Served ==
    ASSUME RequestsOK, NEW t \in Threads, ~Free(t)
    PROVE  /\ req[t] \in Request /\ Whole(req[t])
           /\ sess[req[t].sid].state # "unused"
           /\ req[t].row \in Cred \cup {NoRow}
           /\ req[t].op # "create" => req[t].id \in CredIds
<1>1. req[t] \in Request
  BY DEF RequestsOK, Free
<1>2. req[t].id \in CredIds \cup {0} /\ req[t].row \in Cred \cup {NoRow}
  BY <1>1 DEF Request
<1> QED
  BY <1>1, <1>2 DEF RequestsOK, RequestsComplete, Whole, Held

LEMMA MovedRequests ==
    ASSUME RequestsOK, SessionsKept, NEW t \in Threads, ~Free(t), NEW p \in Phases,
           Moved(t, p), p = "admitted" \/ req[t].row # NoRow
    PROVE  RequestsOK'
<1> DEFINE x == [req[t] EXCEPT !.at = p]
<1>1. req[t] \in Request /\ Whole(req[t]) /\ sess[req[t].sid].state # "unused"
  BY Served
<1>2. x \in Request /\ x.sid = req[t].sid /\ x.row = req[t].row
        /\ x.id = req[t].id /\ x.op = req[t].op /\ x.at = p
  BY <1>1 DEF Request
<1>3. req' = [req EXCEPT ![t] = x]
  BY DEF Moved
<1>4. Whole(x)
  BY <1>1, <1>2 DEF Whole
<1>5. sess'[x.sid].state # "unused"
  BY <1>1, <1>2 DEF SessionsKept, Request
<1> HIDE DEF x
<1> QED
  BY <1>2, <1>3, <1>4, <1>5, AdvanceRequests

\* A request whose row is (re)written on the way to phase p.
Drafted(t, p, row, b, o, n, held) ==
    [req EXCEPT ![t] = [req[t] EXCEPT !.at = p, !.row = row, !.blank = b,
                                      !.overtaken = o, !.unasked = n, !.takenLive = held]]

LEMMA RowDrafted ==
    ASSUME RequestsOK, SessionsKept, NEW t \in Threads, ~Free(t), NEW p \in Phases,
           NEW row \in Cred, NEW b \in BOOLEAN, NEW o \in BOOLEAN,
           NEW n \in BOOLEAN, NEW held \in BOOLEAN, req' = Drafted(t, p, row, b, o, n, held)
    PROVE  RequestsOK'
<1> DEFINE x == [req[t] EXCEPT !.at = p, !.row = row, !.blank = b,
                               !.overtaken = o, !.unasked = n, !.takenLive = held]
<1>1. req[t] \in Request /\ Whole(req[t]) /\ sess[req[t].sid].state # "unused"
  BY Served
<1>2. x \in Request /\ x.sid = req[t].sid /\ x.row = row
        /\ x.id = req[t].id /\ x.op = req[t].op /\ x.at = p
  BY <1>1 DEF Request
<1>3. req' = [req EXCEPT ![t] = x]
  BY DEF Drafted
<1>4. Whole(x)
  BY <1>1, <1>2, CredRowAssumption DEF Whole
<1>5. sess'[x.sid].state # "unused"
  BY <1>1, <1>2 DEF SessionsKept, Request
<1> HIDE DEF x
<1> QED
  BY <1>2, <1>3, <1>4, <1>5, AdvanceRequests

-------------------------------------------------------------------------------
\* The steps of a request keep CredTypeOK, those that write apart.
LEMMA ReadStepType ==
    ASSUME RequestsOK, DataOK, StoreTypeOK, SessionsKept, NEW t \in Threads
    PROVE  /\ \A s \in SessionIds, op \in Calls, i \in CredIds \cup {0} :
                 Begin(t, s, op, i) => RequestsOK'
           /\ Admit(t) \/ Fetch(t) \/ Scope(t) \/ Open(t) \/ Answer(t) => RequestsOK'
           /\ \A site \in SiteIds \cup {NoSite}, number \in BOOLEAN :
                 Place(t, site, number) => RequestsOK'
           /\ \A v \in Secrets \cup {Blank} : Seal(t, v) => RequestsOK'
           /\ \A v \in Secrets : SealGenerated(t, v) => RequestsOK'
<1>1. ASSUME NEW s \in SessionIds, NEW op \in Calls, NEW i \in CredIds \cup {0},
             Begin(t, s, op, i)
      PROVE  RequestsOK'
  <2> DEFINE x == [op |-> op, at |-> "authed", sid |-> s, id |-> i,
                   row |-> NoRow, blank |-> FALSE, unasked |-> FALSE,
                   takenLive |-> FALSE, overtaken |-> FALSE]
  <2>1. x \in Request /\ Whole(x) /\ x.sid = s
    BY <1>1, CredAssumption DEF Begin, Request, Whole, Phases
  <2>2. sess'[s].state # "unused"
    BY <1>1 DEF Begin, GetFresh, Live, StoreTypeOK
  <2>3. req' = [req EXCEPT ![t] = x]
    BY <1>1 DEF Begin
  <2> HIDE DEF x
  <2> QED
    BY <2>1, <2>2, <2>3, AdvanceRequests
<1>2. ASSUME Admit(t) PROVE RequestsOK'
  BY <1>2, DoneRequests, MovedRequests DEF Admit, At, Phases
<1>3. ASSUME Fetch(t) PROVE RequestsOK'
  <2>1. CASE creds[req[t].id] = NoRow
    BY <1>3, <2>1, DoneRequests DEF Fetch
  <2>2. CASE creds[req[t].id] # NoRow
    <3>1. ~Free(t) /\ req[t].op # "create"
      BY <1>3 DEF Fetch, At
    <3>2. /\ creds[req[t].id] \in Cred /\ req[t].blank \in BOOLEAN
          /\ req[t].unasked \in BOOLEAN /\ req[t].takenLive \in BOOLEAN
      BY <2>2, <3>1, Served DEF DataOK, Request
    <3>3. req' = Drafted(t, "fetched", creds[req[t].id], req[t].blank, FALSE,
                         req[t].unasked, req[t].takenLive)
      BY <1>3, <2>2, <3>1, Served DEF Drafted, Fetch, Request
    <3> QED
      BY <3>1, <3>2, <3>3, RowDrafted DEF Phases
  <2> QED
    BY <2>1, <2>2
<1>4. ASSUME Scope(t) PROVE RequestsOK'
  <2>1. ~Free(t) /\ req[t].row # NoRow
    BY <1>4, Served DEF Scope, At, Whole
  <2> QED
    BY <1>4, <2>1, DoneRequests, MovedRequests DEF Scope, Phases
<1>5. ASSUME Answer(t) PROVE RequestsOK'
  BY <1>5, DoneRequests DEF Answer
<1>6. ASSUME NEW site \in SiteIds \cup {NoSite}, NEW number \in BOOLEAN, Place(t, site, number)
      PROVE  RequestsOK'
  <2>1. CASE Done(t)
    BY <2>1, DoneRequests
  <2>2. CASE req' = WithSite(t, site, number)
    <3> DEFINE row == IF req[t].row = NoRow THEN [site |-> site, secret |-> Blank]
                      ELSE [req[t].row EXCEPT !.site = site]
               n == ~number /\ ~CanAccess(t, site)
    <3>1. ~Free(t)
      BY <1>6 DEF Place, At
    <3>2. row \in Cred /\ n \in BOOLEAN
      BY <3>1, Served DEF Cred, Token
    <3>3. req' = Drafted(t, "placed", row, req[t].blank, req[t].overtaken,
                         n, req[t].takenLive)
      BY <2>2, <3>1, Served DEF Drafted, WithSite, Request
    <3>4. /\ req[t].blank \in BOOLEAN /\ req[t].overtaken \in BOOLEAN
          /\ req[t].takenLive \in BOOLEAN
      BY <3>1, Served DEF Request
    <3> HIDE DEF row, n
    <3> QED
      BY <3>1, <3>2, <3>3, <3>4, RowDrafted DEF Phases
  <2> QED
    BY <1>6, <2>1, <2>2 DEF Place
<1>7. ASSUME NEW v \in Secrets \cup {Blank}, Seal(t, v) PROVE RequestsOK'
  <2> DEFINE tok == IF v = Blank /\ req[t].op = "edit" THEN req[t].row.secret
                    ELSE Encrypted(Held(t).dek, v)
  <2>1. ~Free(t) /\ req[t].row \in Cred
    BY <1>7, Served DEF Seal, At, Whole
  <2>2. Held(t).dek \in DekBytes
    BY <2>1, Served DEF Held, StoreTypeOK, Session, Request
  <2>3. tok \in Token
    BY <2>1, <2>2 DEF Encrypted, Token, Cred
  <2> DEFINE row == [req[t].row EXCEPT !.secret = tok]
  <2>4. row \in Cred
    BY <2>1, <2>3 DEF Cred
  <2> DEFINE b == (v = Blank)
  <2>5. req' = Drafted(t, "drafted", row, b, req[t].overtaken,
                         req[t].unasked, req[t].takenLive)
    BY <1>7, <2>1, Served DEF Drafted, Seal, Request
  <2>6. /\ b \in BOOLEAN /\ req[t].overtaken \in BOOLEAN
        /\ req[t].unasked \in BOOLEAN /\ req[t].takenLive \in BOOLEAN
    BY <2>1, Served DEF Request
  <2> HIDE DEF row, tok, b
  <2> QED
    BY <2>1, <2>4, <2>5, <2>6, RowDrafted DEF Phases
<1>8. ASSUME NEW v \in Secrets, SealGenerated(t, v) PROVE RequestsOK'
  <2> DEFINE row == [req[t].row EXCEPT !.secret = Encrypted(Held(t).dek, v)]
             held == Live(req[t].sid)
  <2>1. ~Free(t) /\ req[t].row \in Cred
    BY <1>8, Served DEF SealGenerated, At, Whole
  <2>2. Held(t).dek \in DekBytes
    BY <2>1, Served DEF Held, StoreTypeOK, Session, Request
  <2>3. Encrypted(Held(t).dek, v) \in Token
    BY <2>2 DEF Encrypted, Token
  <2>4. row \in Cred
    BY <2>1, <2>3 DEF Cred
  <2>5. req' = Drafted(t, "drafted", row, req[t].blank, req[t].overtaken,
                         req[t].unasked, held)
    BY <1>8, <2>1, Served DEF Drafted, SealGenerated, Request
  <2>6. /\ req[t].blank \in BOOLEAN /\ req[t].overtaken \in BOOLEAN
        /\ req[t].unasked \in BOOLEAN /\ held \in BOOLEAN
    BY <2>1, Served DEF Request, Live
  <2> HIDE DEF row, held
  <2> QED
    BY <2>1, <2>4, <2>5, <2>6, RowDrafted DEF Phases
<1>9. ASSUME Open(t) PROVE RequestsOK'
  <2> DEFINE held == Live(req[t].sid)
  <2>1. ~Free(t) /\ req[t].row \in Cred /\ req[t] \in Request
    BY <1>9, Served DEF Open, At, Whole
  <2>2. CASE Done(t)
    BY <2>2, DoneRequests
  <2>3. CASE req' = [req EXCEPT ![t].at = "opened", ![t].takenLive = held]
    <3>1. req' = Drafted(t, "opened", req[t].row, req[t].blank, req[t].overtaken,
                         req[t].unasked, held)
      BY <2>1, <2>3 DEF Drafted, Request
    <3>2. /\ req[t].blank \in BOOLEAN /\ req[t].overtaken \in BOOLEAN
          /\ req[t].unasked \in BOOLEAN /\ held \in BOOLEAN
      BY <2>1 DEF Request, Live
    <3> HIDE DEF held
    <3> QED
      BY <2>1, <3>1, <3>2, RowDrafted DEF Phases
  <2> QED
    BY <1>9, <2>2, <2>3 DEF Open
<1> QED
  BY <1>1, <1>2, <1>3, <1>4, <1>5, <1>6, <1>7, <1>8, <1>9

\* A request ends, and the requests it disturbs are marked.
LEMMA MarkedDone ==
    ASSUME RequestsOK, SessionsKept, NEW t \in Threads,
           req' = Marked([req EXCEPT ![t] = NoRequest])
    PROVE  RequestsOK'
<1> DEFINE q == [req EXCEPT ![t] = NoRequest]
<1>1. q \in [Threads -> Request \cup {NoRequest}]
  BY DEF RequestsOK
<1>2. \A r \in Threads : q[r] = NoRequest \/ q[r] = req[r]
  BY DEF RequestsOK
<1>3. req' = Marked(q)
  OBVIOUS
<1> HIDE DEF q
<1> QED
  BY <1>1, <1>2, <1>3, MarkedRequests

\* A rotation that has written goes on to its answer; the requests it disturbs are marked.
LEMMA MarkedWritten ==
    ASSUME RequestsOK, SessionsKept, NEW t \in Threads, ~Free(t), req[t].row # NoRow,
           req' = Marked([req EXCEPT ![t].at = "written"])
    PROVE  RequestsOK'
<1> DEFINE x == [req[t] EXCEPT !.at = "written"]
           q == [req EXCEPT ![t] = x]
<1>1. req[t] \in Request
  BY Served
<1>2. x \in Request
  BY <1>1 DEF Request, Phases
<1>3. Later(x, req[t])
  BY <1>1, Served DEF Later, Request, Free
<1> HIDE DEF x
<1>4. q \in [Threads -> Request \cup {NoRequest}]
  BY <1>2 DEF RequestsOK
<1>5. \A r \in Threads : q[r] = NoRequest \/ q[r] = req[r] \/ Later(q[r], req[r])
  BY <1>3 DEF RequestsOK
<1>6. req' = Marked(q)
  BY DEF x
<1> HIDE DEF q
<1> QED
  BY <1>4, <1>5, <1>6, MarkedRequests

LEMMA WriteStepType ==
    ASSUME RequestsOK, DataOK, SessionsKept, NEW t \in Threads,
           EditWrite(t) \/ RotateWrite(t) \/ CreateWrite(t) \/ DeleteWrite(t)
    PROVE  RequestsOK' /\ DataOK'
<1>1. ~Free(t)
  BY DEF EditWrite, RotateWrite, CreateWrite, DeleteWrite, At
<1>2. RequestsOK'
  <2>1. CASE RotateWrite(t)
    <3>1. req[t].row # NoRow
      BY <1>1, <2>1, Served DEF RotateWrite, At, Whole
    <3> QED
      BY <1>1, <2>1, <3>1, MarkedWritten DEF RotateWrite
  <2>2. CASE ~RotateWrite(t)
    BY <2>2, MarkedDone DEF EditWrite, CreateWrite, DeleteWrite
  <2> QED
    BY <2>1, <2>2
<1>3. CASE EditWrite(t)
  <2>1. req[t].id \in CredIds /\ req[t].row \in Cred
    BY <1>1, <1>3, Served DEF EditWrite, At, Whole
  <2>2. CASE creds' = creds
    BY <1>3, <1>2, <2>2, QuietData DEF EditWrite
  <2>3. CASE creds' # creds
    BY <1>2, <1>3, <2>1, <2>3, RowWritten DEF EditWrite, Updated
  <2> QED
    BY <1>2, <2>2, <2>3
<1>4. CASE RotateWrite(t)
  <2> DEFINE row == IF creds[req[t].id] = NoRow THEN NoRow
                    ELSE [creds[req[t].id] EXCEPT !.secret = req[t].row.secret]
  <2>1. req[t].id \in CredIds /\ req[t].row \in Cred
    BY <1>1, <1>4, Served DEF RotateWrite, At, Whole
  <2>2. req[t].row.secret \in Token
    BY <2>1 DEF Cred
  <2>3. row \in Cred \cup {NoRow}
    BY <2>1, <2>2 DEF DataOK, Cred
  <2>4. row # NoRow => row.site \in sites \cup {NoSite}
    BY <2>1 DEF DataOK, ReferencesHold, Cred
  <2>5. creds' = [creds EXCEPT ![req[t].id] = row]
    BY <1>4 DEF RotateWrite
  <2>6. UNCHANGED <<sites, assigned, raced>>
    BY <1>4 DEF RotateWrite
  <2> HIDE DEF row
  <2> QED
    BY <1>2, <2>1, <2>3, <2>4, <2>5, <2>6, RowWritten
<1>5. CASE CreateWrite(t)
  <2>1. req[t].row \in Cred
    BY <1>1, <1>5, Served DEF CreateWrite, At, Whole
  <2>2. CASE creds' = creds
    BY <1>5, <1>2, <2>2, QuietData DEF CreateWrite
  <2>3. CASE creds' # creds
    BY <1>2, <1>5, <2>1, <2>3, RowWritten DEF CreateWrite
  <2> QED
    BY <1>2, <2>2, <2>3
<1>6. CASE DeleteWrite(t)
  <2>1. req[t].id \in CredIds
    BY <1>1, <1>6, Served DEF DeleteWrite, At
  <2> QED
    BY <1>2, <1>6, <2>1, RowWritten DEF DeleteWrite
<1> QED
  BY <1>3, <1>4, <1>5, <1>6

\* The steps of administrators on sites.
LEMMA MarkedSame ==
    ASSUME RequestsOK, SessionsKept, req' = Marked(req)
    PROVE  RequestsOK'
BY MarkedRequests DEF RequestsOK

LEMMA SiteStepType ==
    ASSUME RequestsOK, DataOK, SessionsKept, NEW s \in SessionIds, SiteStep(s)
    PROVE  RequestsOK' /\ DataOK'
<1>1. CASE CreateSite(s)
  <2>1. RequestsOK'
    BY <1>1, KeepsRequests DEF CreateSite
  <2>2. DataOK'
    BY <1>1 DEF CreateSite, DataOK, ReferencesHold
  <2> QED
    BY <2>1, <2>2
<1>2. ASSUME NEW site \in SiteIds, DeleteSite(s, site)
      PROVE  RequestsOK' /\ DataOK'
  <2>1. RequestsOK'
    BY <1>2, MarkedSame DEF DeleteSite
  <2>2. sites' \subseteq SiteIds /\ raced' \in BOOLEAN
    BY <1>2 DEF DeleteSite, DataOK
  <2>3. \A i \in CredIds :
          /\ creds'[i] \in Cred \cup {NoRow}
          /\ creds'[i] # NoRow => creds'[i].site \in sites' \cup {NoSite}
    <3> TAKE i \in CredIds
    <3>1. CASE creds[i] # NoRow /\ creds[i].site = site
      <4>1. creds[i] \in Cred
        BY <3>1 DEF DataOK
      <4>2. creds'[i] = [creds[i] EXCEPT !.site = NoSite]
        BY <1>2, <3>1 DEF DeleteSite
      <4> QED
        BY <4>1, <4>2 DEF Cred
    <3>2. CASE ~(creds[i] # NoRow /\ creds[i].site = site)
      <4>1. creds'[i] = creds[i]
        BY <1>2, <3>2 DEF DeleteSite
      <4> QED
        BY <1>2, <3>2, <4>1 DEF DeleteSite, DataOK, ReferencesHold
    <3> QED
      BY <3>1, <3>2
  <2>4. creds' \in [CredIds -> Cred \cup {NoRow}]
    BY <1>2, <2>3 DEF DeleteSite
  <2>5. assigned' \subseteq LocationAdmins \X sites'
    BY <1>2 DEF DeleteSite, DataOK, ReferencesHold
  <2> QED
    BY <2>1, <2>2, <2>3, <2>4, <2>5 DEF DataOK, ReferencesHold
<1>3. ASSUME NEW u \in LocationAdmins, NEW S \in SUBSET SiteIds, AssignSites(s, u, S)
      PROVE  RequestsOK' /\ DataOK'
  <2>1. RequestsOK'
    BY <1>3, MarkedSame DEF AssignSites
  <2>2. assigned' \subseteq LocationAdmins \X sites
    BY <1>3 DEF AssignSites, DataOK, ReferencesHold
  <2>3. UNCHANGED <<sites, creds, raced>>
    BY <1>3 DEF AssignSites
  <2> QED
    BY <2>1, <2>2, <2>3 DEF DataOK, ReferencesHold
<1> QED
  BY <1>1, <1>2, <1>3 DEF SiteStep

LEMMA SessionStepType ==
    ASSUME RequestsOK, DataOK, SessionsKept, NEW s \in SessionIds,
           SessionStep(s) \/ TimePasses
    PROVE  RequestsOK' /\ DataOK'
<1>1. UNCHANGED <<sites, assigned, creds, req>> /\ raced' \in BOOLEAN
  BY DEF SessionStep, SignIn, Prompted, Poll, SignOut, TimePasses, DataOK
<1> QED
  BY <1>1, KeepsRequests, KeepsData

LEMMA StepType ==
    ASSUME CredTypeOK, [Next]_vars
    PROVE  CredTypeOK' /\ SessionsKept
<1>1. StoreTypeOK /\ RequestsOK /\ DataOK
  BY TypeParts
<1>2. StoreTypeOK' /\ SessionsKept
  BY <1>1, StepOfStore, StoreStepType, StoreKeepsSessions
<1>3. ASSUME NEW t \in Threads, RequestStep(t)
      PROVE  RequestsOK' /\ DataOK'
  <2>1. CASE EditWrite(t) \/ RotateWrite(t) \/ CreateWrite(t) \/ DeleteWrite(t)
    BY <1>1, <1>2, <2>1, WriteStepType
  <2>2. CASE ~(EditWrite(t) \/ RotateWrite(t) \/ CreateWrite(t) \/ DeleteWrite(t))
    <3>1. RequestsOK'
      BY <1>1, <1>2, <1>3, <2>2, ReadStepType DEF RequestStep
    <3>2. UNCHANGED <<sites, assigned, creds, raced>>
      BY <1>3, <2>2 DEF RequestStep, Begin, Admit, Fetch, Scope, Place, Seal,
                        SealGenerated, Open, Answer
    <3> QED
      BY <1>1, <3>1, <3>2, QuietData
  <2> QED
    BY <2>1, <2>2
<1>4. ASSUME NEW s \in SessionIds, SiteStep(s) \/ SessionStep(s)
      PROVE  RequestsOK' /\ DataOK'
  BY <1>1, <1>2, <1>4, SiteStepType, SessionStepType
<1>5. ASSUME TimePasses \/ UNCHANGED vars
      PROVE  RequestsOK' /\ DataOK'
  <2>1. UNCHANGED <<sites, assigned, creds, req, raced>>
    BY <1>5 DEF TimePasses, vars
  <2>2. RequestsOK'
    BY <1>1, <1>2, <2>1, KeepsRequests
  <2>3. DataOK'
    BY <1>1, <2>1, QuietData
  <2> QED
    BY <2>2, <2>3
<1>6. RequestsOK' /\ DataOK'
  BY <1>3, <1>4, <1>5 DEF Next
<1>7. (StoreTypeOK /\ RequestsOK /\ DataOK)' => CredTypeOK'
  BY DEF CredTypeOK, RequestsOK, DataOK
<1> QED
  BY <1>2, <1>6, <1>7

LEMMA InitType == Init => CredTypeOK
<1> SUFFICES ASSUME Init PROVE CredTypeOK
  OBVIOUS
<1>1. StoreTypeOK
  BY StoreInitType DEF Init
<1>2. RequestsOK
  BY DEF Init, RequestsOK, RequestsComplete, Free
<1>3. DataOK
  BY DEF Init, DataOK, ReferencesHold
<1> QED
  BY <1>1, <1>2, <1>3, TypeParts

\* Rows, requests and sessions stay well formed: a row never refers to a site that is gone,
\* and a request never loses the session, the id or the row it works with.
THEOREM CredTypeCorrect == Spec => []CredTypeOK
<1>1. CredTypeOK /\ [Next]_vars => CredTypeOK'
  BY StepType
<1> QED
  BY <1>1, InitType, PTL DEF Spec

-------------------------------------------------------------------------------
\* ReadableUnlessRaced.  ReadableInv, the same about requests and sessions, is inductive.
\* A session still in the table, and any session a request has still to encrypt with,
\* carries the vault's key; tokens are only ever copied or made with such a key.

LEMMA StoreStepDek ==
    ASSUME StoreTypeOK, NEW s \in SessionIds, NEW g \in SessionIds,
           GetFresh(s) \/ OpenReveal(s) \/ Tick
    PROVE  /\ sess'[g].dek = sess[g].dek
           /\ sess'[g].state = sess[g].state
<1> USE DEF StoreTypeOK, Session, Live
<1>1. CASE GetFresh(s)
  BY <1>1 DEF GetFresh
<1>2. CASE OpenReveal(s)
  BY <1>2 DEF OpenReveal
<1>3. CASE Tick
  BY <1>3 DEF Tick, Aged
<1> QED
  BY <1>1, <1>2, <1>3

\* A step that leaves keys, rows and requests alone, or only ends requests.
LEMMA ReadableQuiet ==
    ASSUME CredTypeOK, ReadableInv, raced' = raced,
           \A s \in SessionIds : /\ sess'[s].dek = sess[s].dek
                                 /\ sess'[s].state = sess[s].state,
           \A i \in CredIds : creds'[i] # NoRow =>
                 creds[i] # NoRow /\ creds'[i].secret = creds[i].secret,
           \A t \in Threads : req'[t] # NoRequest =>
                 /\ req[t] # NoRequest /\ req'[t].row = req[t].row
                 /\ req'[t].op = req[t].op /\ req'[t].sid = req[t].sid
                 /\ ToEncrypt(req'[t]) => ToEncrypt(req[t])
    PROVE  ReadableInv'
<1> SUFFICES ASSUME ~raced PROVE (SecretsReadable /\ (\A s \in SessionIds : Live(s) => sess[s].dek = VaultKey)
                                   /\ \A t \in Threads : ~Free(t) => DraftReadable(t))'
  BY DEF ReadableInv
<1>1. SecretsReadable'
  BY DEF ReadableInv, SecretsReadable, Readable
<1>2. (\A s \in SessionIds : Live(s) => sess[s].dek = VaultKey)'
  BY DEF ReadableInv, Live
<1>3. (\A t \in Threads : ~Free(t) => DraftReadable(t))'
  <2> SUFFICES ASSUME NEW t \in Threads, req'[t] # NoRequest PROVE DraftReadable(t)'
    BY DEF Free
  <2>1. DraftReadable(t) /\ req[t] \in Request
    BY DEF ReadableInv, Free, CredTypeOK
  <2>2. req[t].sid \in SessionIds
    BY <2>1 DEF Request
  <2> QED
    BY <2>1, <2>2 DEF DraftReadable, Held, Readable
<1> QED
  BY <1>1, <1>2, <1>3

\* A step in which one request advances to x.
LEMMA ReadableAdvance ==
    ASSUME CredTypeOK, ReadableInv, ~raced, UNCHANGED creds,
           \A s \in SessionIds : /\ sess'[s].dek = sess[s].dek
                                 /\ sess'[s].state = sess[s].state,
           NEW t \in Threads, NEW x, req' = [req EXCEPT ![t] = x],
           x.row # NoRow => Readable(x.row.secret),
           ToEncrypt(x) => sess'[x.sid].dek = VaultKey
    PROVE  ReadableInv'
<1>1. SecretsReadable'
  BY DEF ReadableInv, SecretsReadable, Readable
<1>2. (\A s \in SessionIds : Live(s) => sess[s].dek = VaultKey)'
  BY DEF ReadableInv, Live
<1>3. (\A r \in Threads : ~Free(r) => DraftReadable(r))'
  <2> SUFFICES ASSUME NEW r \in Threads, req'[r] # NoRequest PROVE DraftReadable(r)'
    BY DEF Free
  <2>1. CASE r = t
    <3>1. req'[r] = x
      BY <2>1 DEF CredTypeOK
    <3> QED
      BY <3>1 DEF DraftReadable, Held, Readable
  <2>2. CASE r # t
    <3>1. req'[r] = req[r]
      BY <2>2 DEF CredTypeOK
    <3>2. DraftReadable(r) /\ req[r] \in Request
      BY <3>1 DEF ReadableInv, Free, CredTypeOK
    <3>3. req[r].sid \in SessionIds
      BY <3>2 DEF Request
    <3> QED
      BY <3>1, <3>2, <3>3 DEF DraftReadable, Held, Readable
  <2> QED
    BY <2>1, <2>2
<1> QED
  BY <1>1, <1>2, <1>3 DEF ReadableInv

\* What the invariant says of a request being served.
LEMMA ReadableServed ==
    ASSUME CredTypeOK, ReadableInv, ~raced, NEW t \in Threads, ~Free(t)
    PROVE  /\ req[t] \in Request /\ DraftReadable(t)
           /\ req[t].row \in Cred \cup {NoRow}
           /\ req[t].sid \in SessionIds
           /\ req[t].op # "create" => req[t].id \in CredIds
<1>1. req[t] \in Request /\ (req[t].op # "create" => req[t].id \in CredIds)
  BY Served, TypeParts
<1> QED
  BY <1>1 DEF ReadableInv, Request

LEMMA ReadableReadStep ==
    ASSUME CredTypeOK, ReadableInv, ~raced, NEW t \in Threads, RequestStep(t),
           ~(EditWrite(t) \/ RotateWrite(t) \/ CreateWrite(t) \/ DeleteWrite(t))
    PROVE  ReadableInv'
<1>1. ASSUME NEW s \in SessionIds, NEW op \in Calls, NEW i \in CredIds \cup {0},
             Begin(t, s, op, i)
      PROVE  ReadableInv'
  <2> DEFINE x == [op |-> op, at |-> "authed", sid |-> s, id |-> i,
                   row |-> NoRow, blank |-> FALSE, unasked |-> FALSE,
                   takenLive |-> FALSE, overtaken |-> FALSE]
  <2>1. req' = [req EXCEPT ![t] = x] /\ UNCHANGED creds
    BY <1>1 DEF Begin
  <2>2. \A g \in SessionIds : sess'[g].dek = sess[g].dek /\ sess'[g].state = sess[g].state
    BY <1>1, StoreStepDek DEF Begin, CredTypeOK
  <2>3. sess'[s].dek = VaultKey
    BY <1>1, <2>2 DEF Begin, GetFresh, ReadableInv
  <2>4. x.row = NoRow /\ x.sid = s
    OBVIOUS
  <2> HIDE DEF x
  <2> QED
    BY <2>1, <2>2, <2>3, <2>4, ReadableAdvance
<1>2. ASSUME Admit(t) \/ Scope(t) \/ Open(t) \/ Answer(t) PROVE ReadableInv'
  <2>1. UNCHANGED <<sess, creds, raced>>
    BY <1>2 DEF Admit, Scope, Open, Answer
  <2>2. ~Free(t) /\ req[t] \in Request
    BY <1>2, ReadableServed DEF Admit, Scope, Open, Answer, At
  <2>3. \A r \in Threads : req'[r] # NoRequest =>
           /\ req[r] # NoRequest /\ req'[r].row = req[r].row
           /\ req'[r].op = req[r].op /\ req'[r].sid = req[r].sid
           /\ ToEncrypt(req'[r]) => ToEncrypt(req[r])
    <3> SUFFICES ASSUME NEW r \in Threads, req'[r] # NoRequest
                 PROVE  /\ req[r] # NoRequest /\ req'[r].row = req[r].row
                        /\ req'[r].op = req[r].op /\ req'[r].sid = req[r].sid
                        /\ ToEncrypt(req'[r]) => ToEncrypt(req[r])
      OBVIOUS
    <3>1. CASE r # t
      BY <1>2, <3>1 DEF Admit, Scope, Open, Answer, Moved, Done, CredTypeOK
    <3>2. CASE r = t
      BY <1>2, <2>2, <3>2 DEF Admit, Scope, Open, Answer, Moved, Done, CredTypeOK, At, Free,
                              Request, ToEncrypt
    <3> QED
      BY <3>1, <3>2
  <2> QED
    BY <2>1, <2>3, ReadableQuiet
<1>3. ASSUME Fetch(t) PROVE ReadableInv'
  <2>1. ~Free(t) /\ req[t].op # "create" /\ req[t].at \in {"authed", "admitted"}
    BY <1>3 DEF Fetch, At
  <2>2. UNCHANGED <<sess, creds, raced>>
    BY <1>3 DEF Fetch
  <2>3. CASE creds[req[t].id] = NoRow
    BY <1>3, <2>2, <2>3, ReadableQuiet DEF Fetch, Done, CredTypeOK
  <2>4. CASE creds[req[t].id] # NoRow
    <3> DEFINE x == [req[t] EXCEPT !.at = "fetched", !.row = creds[req[t].id],
                                   !.overtaken = FALSE]
    <3>1. req' = [req EXCEPT ![t] = x]
      BY <1>3, <2>4 DEF Fetch
    <3>2. req[t] \in Request /\ DraftReadable(t) /\ req[t].id \in CredIds
      BY <2>1, ReadableServed
    <3>3. x.row = creds[req[t].id] /\ x.sid = req[t].sid /\ x.op = req[t].op
      BY <3>2 DEF Request
    <3>4. Readable(x.row.secret)
      BY <2>4, <3>2, <3>3 DEF ReadableInv, SecretsReadable
    <3>5. ToEncrypt(x) => sess'[x.sid].dek = VaultKey
      BY <2>1, <2>2, <3>2, <3>3 DEF DraftReadable, Held, ToEncrypt
    <3> HIDE DEF x
    <3> QED
      BY <2>2, <3>1, <3>4, <3>5, ReadableAdvance
  <2> QED
    BY <2>3, <2>4
<1>4. ASSUME NEW site \in SiteIds \cup {NoSite}, NEW number \in BOOLEAN, Place(t, site, number)
      PROVE  ReadableInv'
  <2>1. ~Free(t) /\ req[t].at \in {"authed", "scoped"}
    BY <1>4 DEF Place, At
  <2>2. UNCHANGED <<sess, creds, raced>>
    BY <1>4 DEF Place
  <2>3. CASE Done(t)
    BY <2>2, <2>3, ReadableQuiet DEF Done, CredTypeOK
  <2>4. CASE req' = WithSite(t, site, number)
    <3> DEFINE row == IF req[t].row = NoRow THEN [site |-> site, secret |-> Blank]
                      ELSE [req[t].row EXCEPT !.site = site]
               n == ~number /\ ~CanAccess(t, site)
               x == [req[t] EXCEPT !.at = "placed", !.unasked = n, !.row = row]
    <3>1. req' = [req EXCEPT ![t] = x]
      BY <2>4 DEF WithSite
    <3>2. req[t] \in Request /\ DraftReadable(t) /\ req[t].row \in Cred \cup {NoRow}
      BY <2>1, ReadableServed
    <3>3. Readable(row.secret)
      BY <3>2 DEF DraftReadable, Readable, Cred
    <3> HIDE DEF row, n
    <3>4. x.row = row /\ x.sid = req[t].sid /\ x.op = req[t].op
      BY <3>2 DEF Request
    <3>5. ToEncrypt(x) => sess'[x.sid].dek = VaultKey
      BY <2>1, <2>2, <3>2, <3>4 DEF DraftReadable, Held, ToEncrypt
    <3> HIDE DEF x
    <3> QED
      BY <2>2, <3>1, <3>3, <3>4, <3>5, ReadableAdvance
  <2> QED
    BY <1>4, <2>3, <2>4 DEF Place
<1>5. ASSUME NEW v \in Secrets \cup {Blank}, Seal(t, v) \/ SealGenerated(t, v)
      PROVE  ReadableInv'
  <2>1. ~Free(t) /\ ToEncrypt(req[t]) /\ req[t].row # NoRow
    BY <1>5, Served, TypeParts DEF Seal, SealGenerated, At, Whole, ToEncrypt
  <2>2. UNCHANGED <<sess, creds, raced>>
    BY <1>5 DEF Seal, SealGenerated
  <2>3. req[t] \in Request /\ DraftReadable(t) /\ req[t].row \in Cred
    BY <2>1, ReadableServed
  <2>4. Readable(Encrypted(Held(t).dek, v)) /\ Readable(req[t].row.secret)
    BY <2>1, <2>3 DEF DraftReadable, Readable, Encrypted
  <2> DEFINE tok == IF Seal(t, v) /\ v = Blank /\ req[t].op = "edit"
                    THEN req[t].row.secret ELSE Encrypted(Held(t).dek, v)
  <2>5. Readable(tok)
    BY <2>4
  <2>6. req'[t].row = [req[t].row EXCEPT !.secret = tok] /\ req'[t].at = "drafted"
    BY <1>5, <2>3 DEF Seal, SealGenerated, CredTypeOK, Request, At
  <2>7. req' = [req EXCEPT ![t] = req'[t]]
    BY <1>5 DEF Seal, SealGenerated, CredTypeOK
  <2> HIDE DEF tok
  <2>8. Readable(req'[t].row.secret)
    BY <2>3, <2>5, <2>6 DEF Cred
  <2> QED
    BY <2>2, <2>6, <2>7, <2>8, ReadableAdvance DEF ToEncrypt
<1> QED
  BY <1>1, <1>2, <1>3, <1>4, <1>5 DEF RequestStep

\* The requests after a marked end of request t, or after a marking alone.
LEMMA AfterMarked ==
    ASSUME RequestsOK, NEW q \in [Threads -> Request \cup {NoRequest}],
           \A r \in Threads : q[r] = NoRequest \/ q[r] = req[r],
           req' = Marked(q)
    PROVE  \A r \in Threads : req'[r] # NoRequest =>
                 /\ q[r] = req[r]
                 /\ req[r] # NoRequest /\ req'[r].row = req[r].row
                 /\ req'[r].op = req[r].op /\ req'[r].sid = req[r].sid
                 /\ req'[r].id = req[r].id /\ req'[r].at = req[r].at
                 /\ req'[r].blank = req[r].blank /\ req'[r].unasked = req[r].unasked
                 /\ req'[r].takenLive = req[r].takenLive
                 /\ ~req'[r].overtaken =>
                      /\ ~req[r].overtaken /\ assigned' = assigned
                      /\ req[r].id # 0 => creds'[req[r].id] = creds[req[r].id]
BY MarkedShape

\* The steps that write, with the request that does so ended or on its way to answer.
WriteStep(t) == EditWrite(t) \/ RotateWrite(t) \/ CreateWrite(t) \/ DeleteWrite(t)

LEMMA AfterWrite ==
    ASSUME RequestsOK, NEW t \in Threads, WriteStep(t)
    PROVE  \A r \in Threads : req'[r] # NoRequest =>
                 /\ req[r] # NoRequest /\ req'[r].row = req[r].row
                 /\ req'[r].op = req[r].op /\ req'[r].sid = req[r].sid
                 /\ req'[r].id = req[r].id
                 /\ req'[r].takenLive = req[r].takenLive
                 /\ IF r = t
                    THEN req[r].op = "rotate" /\ req[r].at = "drafted" /\ req'[r].at = "written"
                    ELSE /\ req'[r].at = req[r].at
                         /\ req'[r].blank = req[r].blank /\ req'[r].unasked = req[r].unasked
                         /\ ~req'[r].overtaken =>
                              /\ ~req[r].overtaken /\ assigned' = assigned
                              /\ req[r].id # 0 => creds'[req[r].id] = creds[req[r].id]
<1>1. CASE RotateWrite(t)
  <2> DEFINE x == [req[t] EXCEPT !.at = "written"]
             q == [req EXCEPT ![t] = x]
  <2>1. req[t] \in Request /\ req[t] # NoRequest
    BY <1>1, Served DEF RotateWrite, At, Free
  <2>2. /\ x \in Request /\ x.at = "written" /\ x.op = req[t].op /\ x.sid = req[t].sid
        /\ x.id = req[t].id /\ x.row = req[t].row /\ x.takenLive = req[t].takenLive
    BY <2>1 DEF Request, Phases
  <2> HIDE DEF x
  <2>3. /\ q \in [Threads -> Request \cup {NoRequest}]
        /\ q[t] = x /\ \A r \in Threads : r # t => q[r] = req[r]
    BY <2>2 DEF RequestsOK
  <2>4. req' = Marked(q)
    BY <1>1 DEF RotateWrite, x
  <2>5. req[t].op = "rotate" /\ req[t].at = "drafted"
    BY <1>1 DEF RotateWrite, At
  <2> HIDE DEF q
  <2> QED
    BY <2>1, <2>2, <2>3, <2>4, <2>5, MarkedShape
<1>2. CASE ~RotateWrite(t)
  <2> DEFINE q == [req EXCEPT ![t] = NoRequest]
  <2>1. /\ q \in [Threads -> Request \cup {NoRequest}]
        /\ q[t] = NoRequest /\ \A r \in Threads : r # t => q[r] = req[r]
        /\ req' = Marked(q)
    BY <1>2 DEF RequestsOK, WriteStep, EditWrite, CreateWrite, DeleteWrite
  <2> HIDE DEF q
  <2> QED
    BY <2>1, MarkedShape
<1> QED
  BY <1>1, <1>2

\* With what is written readable, everything else stays so.
LEMMA ReadableWrite ==
    ASSUME CredTypeOK, ReadableInv, ~raced, UNCHANGED sess, NEW t \in Threads, WriteStep(t),
           \A i \in CredIds : creds'[i] # NoRow => Readable(creds'[i].secret)
    PROVE  ReadableInv'
<1>1. SecretsReadable'
  BY DEF SecretsReadable, Readable
<1>2. (\A s \in SessionIds : Live(s) => sess[s].dek = VaultKey)'
  BY DEF ReadableInv, Live
<1>3. (\A r \in Threads : ~Free(r) => DraftReadable(r))'
  <2> SUFFICES ASSUME NEW r \in Threads, req'[r] # NoRequest PROVE DraftReadable(r)'
    BY DEF Free
  <2>1. /\ req[r] # NoRequest /\ req'[r].row = req[r].row
        /\ req'[r].op = req[r].op /\ req'[r].sid = req[r].sid
        /\ req'[r].at = req[r].at \/ req'[r].at = "written"
    BY AfterWrite, TypeParts
  <2>2. DraftReadable(r)
    BY <2>1 DEF ReadableInv, Free
  <2> QED
    BY <2>1, <2>2 DEF DraftReadable, Held, Readable, ToEncrypt
<1> QED
  BY <1>1, <1>2, <1>3 DEF ReadableInv

LEMMA ReadableWriteStep ==
    ASSUME CredTypeOK, ReadableInv, ~raced, NEW t \in Threads,
           EditWrite(t) \/ RotateWrite(t) \/ CreateWrite(t) \/ DeleteWrite(t)
    PROVE  ReadableInv'
<1>1. UNCHANGED sess /\ WriteStep(t) /\ ~Free(t)
  BY DEF WriteStep, EditWrite, RotateWrite, CreateWrite, DeleteWrite, At
<1>2. /\ creds \in [CredIds -> Cred \cup {NoRow}]
      /\ DraftReadable(t)
      /\ \A i \in CredIds : creds[i] # NoRow => Readable(creds[i].secret)
  BY <1>1, ReadableServed DEF CredTypeOK, ReadableInv, SecretsReadable
<1>3. \A i \in CredIds : creds'[i] # NoRow => Readable(creds'[i].secret)
  <2>1. CASE EditWrite(t)
    BY <1>2, <2>1 DEF EditWrite, Updated, DraftReadable
  <2>2. CASE RotateWrite(t)
    <3> SUFFICES ASSUME NEW i \in CredIds, creds'[i] # NoRow
                 PROVE  Readable(creds'[i].secret)
      OBVIOUS
    <3>1. req[t].row # NoRow
      BY <1>1, <2>2, Served, TypeParts DEF RotateWrite, At, Whole
    <3>2. creds[i] # NoRow /\ creds[i] \in Cred
      BY <1>2, <2>2 DEF RotateWrite
    <3>3. CASE i = req[t].id
      <4>1. creds'[i] = [creds[i] EXCEPT !.secret = req[t].row.secret]
        BY <1>2, <2>2, <3>2, <3>3 DEF RotateWrite
      <4> QED
        BY <1>2, <3>1, <3>2, <4>1 DEF DraftReadable, Cred
    <3>4. CASE i # req[t].id
      BY <1>2, <2>2, <3>2, <3>4 DEF RotateWrite
    <3> QED
      BY <3>3, <3>4
  <2>3. CASE CreateWrite(t)
    BY <1>2, <2>3 DEF CreateWrite, DraftReadable
  <2>4. CASE DeleteWrite(t)
    BY <1>2, <2>4 DEF DeleteWrite
  <2> QED
    BY <2>1, <2>2, <2>3, <2>4
<1> QED
  BY <1>1, <1>3, ReadableWrite

LEMMA ReadableSiteStep ==
    ASSUME CredTypeOK, ReadableInv, ~raced, NEW s \in SessionIds, SiteStep(s)
    PROVE  ReadableInv'
<1>1. GetFresh(s) /\ UNCHANGED raced
  BY DEF SiteStep, CreateSite, DeleteSite, AssignSites, AsAdmin
<1>2. \A g \in SessionIds : sess'[g].dek = sess[g].dek /\ sess'[g].state = sess[g].state
  BY <1>1, StoreStepDek DEF CredTypeOK
<1>3. \A i \in CredIds : creds'[i] # NoRow =>
         creds[i] # NoRow /\ creds'[i].secret = creds[i].secret
  <2>1. CASE UNCHANGED creds
    BY <2>1
  <2>2. ASSUME NEW site \in SiteIds, DeleteSite(s, site)
        PROVE  \A i \in CredIds : creds'[i] # NoRow =>
                  creds[i] # NoRow /\ creds'[i].secret = creds[i].secret
    BY <2>2 DEF DeleteSite, CredTypeOK, Cred
  <2> QED
    BY <2>1, <2>2 DEF SiteStep, CreateSite, AssignSites
<1>4. \A r \in Threads : req'[r] # NoRequest =>
           /\ req[r] # NoRequest /\ req'[r].row = req[r].row
           /\ req'[r].op = req[r].op /\ req'[r].sid = req[r].sid
           /\ ToEncrypt(req'[r]) => ToEncrypt(req[r])
  <2>1. CASE UNCHANGED req
    BY <2>1
  <2>2. CASE req' = Marked(req)
    BY <2>2, AfterMarked, TypeParts DEF RequestsOK, ToEncrypt
  <2> QED
    BY <2>1, <2>2 DEF SiteStep, CreateSite, DeleteSite, AssignSites
<1> QED
  BY <1>1, <1>2, <1>3, <1>4, ReadableQuiet

LEMMA ReadableSessionStep ==
    ASSUME CredTypeOK, ReadableInv, ~raced, ~raced',
           NEW s \in SessionIds, SessionStep(s)
    PROVE  ReadableInv'
<1>1. UNCHANGED <<creds, req>>
  BY DEF SessionStep, SignIn, Prompted, Poll, SignOut
<1>2. SecretsReadable'
  BY <1>1 DEF ReadableInv, SecretsReadable, Readable
<1>3. \A r \in Threads : ~Free(r) => /\ DraftReadable(r) /\ req[r] \in Request
                                     /\ req[r].sid \in SessionIds
                                     /\ sess[req[r].sid].state # "unused"
  BY Served, TypeParts DEF ReadableInv, Request
<1>4. ASSUME \A g \in SessionIds : sess'[g].state = "live" => sess'[g].dek = VaultKey,
             \A r \in Threads : ~Free(r) /\ ToEncrypt(req[r])
                => sess'[req[r].sid].dek = VaultKey
      PROVE  ReadableInv'
  BY <1>1, <1>2, <1>3, <1>4 DEF ReadableInv, DraftReadable, Free, Held, Readable, Live
<1>5. ASSUME NEW u \in Accounts, SignIn(s, u)
      PROVE  ReadableInv'
  <2>1. \A g \in SessionIds \ {s} : sess'[g] = sess[g]
    BY <1>5 DEF SignIn, Create, CredTypeOK, StoreTypeOK
  <2>2. sess[s].state = "unused" /\ sess'[s].dek = VaultKey
    BY <1>5 DEF SignIn, Create, CredTypeOK, StoreTypeOK
  <2>3. \A g \in SessionIds : sess'[g].state = "live" => sess'[g].dek = VaultKey
    BY <2>1, <2>2 DEF ReadableInv, Live
  <2>4. \A r \in Threads : ~Free(r) /\ ToEncrypt(req[r])
           => sess'[req[r].sid].dek = VaultKey
    BY <1>3, <2>1, <2>2 DEF DraftReadable, Held
  <2> QED
    BY <1>4, <2>3, <2>4
<1>6. CASE Prompted(s) \/ Poll(s)
  <2>1. \A g \in SessionIds : sess'[g].dek = sess[g].dek /\ sess'[g].state = sess[g].state
    BY <1>6, StoreStepDek DEF Prompted, Poll, CredTypeOK
  <2>2. \A g \in SessionIds : sess'[g].state = "live" => sess'[g].dek = VaultKey
    BY <2>1 DEF ReadableInv, Live
  <2>3. \A r \in Threads : ~Free(r) /\ ToEncrypt(req[r])
           => sess'[req[r].sid].dek = VaultKey
    BY <1>3, <2>1 DEF DraftReadable, Held
  <2> QED
    BY <1>4, <2>2, <2>3
<1>7. CASE SignOut(s)
  <2>1. ~Overtakes(s) /\ sess' = Wiped(s)
    BY <1>7 DEF SignOut, Lock, GetStale
  <2>2. \A g \in SessionIds \ {s} : sess'[g] = sess[g]
    BY <2>1 DEF Wiped, CredTypeOK, StoreTypeOK
  <2>3. sess'[s].state = "wiped"
    BY <2>1 DEF Wiped, CredTypeOK, StoreTypeOK, Session
  <2>4. \A g \in SessionIds : sess'[g].state = "live" => sess'[g].dek = VaultKey
    BY <2>2, <2>3 DEF ReadableInv, Live
  <2>5. \A r \in Threads : ~Free(r) /\ ToEncrypt(req[r])
           => sess'[req[r].sid].dek = VaultKey
    BY <1>3, <2>1, <2>2 DEF Overtakes, DraftReadable, Held
  <2> QED
    BY <1>4, <2>4, <2>5
<1> QED
  BY <1>5, <1>6, <1>7 DEF SessionStep

LEMMA ReadableStep ==
    ASSUME CredTypeOK, ReadableInv, [Next]_vars
    PROVE  ReadableInv'
<1> SUFFICES ASSUME ~raced' PROVE ReadableInv'
  BY DEF ReadableInv
<1>1. ~raced
  BY DEF Next, RequestStep, SiteStep, SessionStep, Begin, Admit, Fetch, Scope, Place, Seal,
         SealGenerated, EditWrite, RotateWrite, CreateWrite, DeleteWrite, Open, Answer, CreateSite,
         DeleteSite, AssignSites, SignIn, Prompted, Poll, SignOut, TimePasses, vars
<1>2. ASSUME NEW t \in Threads, RequestStep(t) PROVE ReadableInv'
  BY <1>1, <1>2, ReadableReadStep, ReadableWriteStep
<1>3. ASSUME NEW s \in SessionIds, SiteStep(s) \/ SessionStep(s) PROVE ReadableInv'
  BY <1>1, <1>3, ReadableSiteStep, ReadableSessionStep
<1>4. ASSUME TimePasses \/ UNCHANGED vars PROVE ReadableInv'
  <2>1. UNCHANGED <<creds, req, raced>>
    BY <1>4 DEF TimePasses, vars
  <2>2. \A g \in SessionIds : sess'[g].dek = sess[g].dek /\ sess'[g].state = sess[g].state
    BY <1>4, StoreStepDek DEF TimePasses, vars, CredTypeOK
  <2> QED
    BY <2>1, <2>2, ReadableQuiet
<1> QED
  BY <1>2, <1>3, <1>4 DEF Next

LEMMA InitReadable == Init => ReadableInv
BY DEF Init, ReadableInv, SecretsReadable, Free, StoreInit, Unused, Live

LEMMA ReadableInvariant == Spec => [](CredTypeOK /\ ReadableInv)
<1>1. CredTypeOK /\ ReadableInv /\ [Next]_vars => (CredTypeOK /\ ReadableInv)'
  BY StepType, ReadableStep
<1>2. Init => CredTypeOK /\ ReadableInv
  BY InitType, InitReadable
<1> QED
  BY <1>1, <1>2, PTL DEF Spec

\* A stored secret becomes unreadable only after a wipe has overtaken a request that was
\* about to encrypt, whatever sessions, credentials and requests there are.
THEOREM SecretsReadableUntilRaced == Spec => []ReadableUnlessRaced
<1>1. ReadableInv => ReadableUnlessRaced
  BY DEF ReadableInv, ReadableUnlessRaced
<1> QED
  BY <1>1, ReadableInvariant, PTL

-------------------------------------------------------------------------------
\* AnswersTakenWhileLive: a wiped session has no key, and a readable token needs one.
\* TakenInv, the same of requests that have still to answer, is inductive with ReadableInv.

LEMMA CredStoreInv == Spec => []KeyOnlyWhileLive
<1>1. Init => StoreInv
  BY InitType DEF Init, StoreInv, KeyOnlyWhileLive, StoreInit, Unused, CredTypeOK
<1>2. CredTypeOK /\ StoreInv /\ [Next]_vars => StoreInv'
  <2> SUFFICES ASSUME CredTypeOK, StoreInv, [Next]_vars PROVE StoreInv'
    OBVIOUS
  <2>1. StoreTypeOK' /\ [StoreNext]_sess
    BY StepOfStore, StoreStepType DEF CredTypeOK
  <2> QED
    BY <2>1, StoreStepKeepsInv
<1>3. StoreInv => KeyOnlyWhileLive
  BY DEF StoreInv
<1> QED
  BY <1>1, <1>2, <1>3, CredTypeCorrect, PTL DEF Spec

\* A step that ends requests, marks them or takes a rotation from its draft to its write.
LEMMA TakenQuiet ==
    ASSUME TakenInv, raced' = raced,
           \A r \in Threads : req'[r] # NoRequest =>
                 /\ req[r] # NoRequest /\ req'[r].row = req[r].row
                 /\ req'[r].op = req[r].op /\ req'[r].takenLive = req[r].takenLive
                 /\ req'[r].at = req[r].at \/ (req[r].at = "drafted" /\ req'[r].at = "written")
    PROVE  TakenInv'
BY DEF TakenInv, HoldsSecret, At, Free

\* A step in which request t advances: it is to answer with nothing, or took it in time.
LEMMA TakenAdvance ==
    ASSUME CredTypeOK, TakenInv, raced' = raced, NEW t \in Threads,
           NEW x, req' = [req EXCEPT ![t] = x],
           HoldsSecret(t)' /\ ~raced => req'[t].takenLive
    PROVE  TakenInv'
<1>1. \A r \in Threads : r # t => req'[r] = req[r]
  BY DEF CredTypeOK
<1> QED
  BY <1>1 DEF TakenInv, HoldsSecret, At, Free

LEMMA TakenReadStep ==
    ASSUME CredTypeOK, ReadableInv, KeyOnlyWhileLive, TakenInv, NEW t \in Threads,
           RequestStep(t), ~WriteStep(t)
    PROVE  TakenInv'
<1>1. raced' = raced
  BY DEF RequestStep, WriteStep, Begin, Admit, Fetch, Scope, Place, Seal, SealGenerated,
         Open, Answer
<1>2. req' = [req EXCEPT ![t] = req'[t]]
  BY DEF RequestStep, WriteStep, Begin, Admit, Fetch, Scope, Place, WithSite, Seal,
         SealGenerated, Open, Answer, Moved, Done, CredTypeOK
<1> SUFFICES ASSUME HoldsSecret(t)', ~raced PROVE req'[t].takenLive
  BY <1>1, <1>2, TakenAdvance
<1>3. /\ req'[t] # NoRequest /\ req'[t].row.secret # Blank
      /\ \/ req'[t].op = "view" /\ req'[t].at = "opened"
         \/ req'[t].op = "rotate" /\ req'[t].at \in {"drafted", "written"}
  BY DEF HoldsSecret, At, Free
<1>4. ASSUME NEW s \in SessionIds, NEW op \in Calls, NEW i \in CredIds \cup {0},
             Begin(t, s, op, i)
      PROVE  FALSE
  <2>1. req'[t].at = "authed"
    BY <1>4 DEF Begin, CredTypeOK
  <2> QED
    BY <1>3, <2>1
<1>5. ASSUME Admit(t) \/ Fetch(t) \/ Scope(t) \/ Answer(t) PROVE FALSE
  <2>1. ~Free(t) /\ req[t] \in Request
    BY <1>5, Served, TypeParts DEF Admit, Fetch, Scope, Answer, At
  <2>2. req'[t].at \in {"admitted", "fetched", "scoped"}
    BY <1>3, <1>5, <2>1 DEF Admit, Fetch, Scope, Answer, Moved, Done, CredTypeOK, Request
  <2> QED
    BY <1>3, <2>2
<1>6. ASSUME NEW site \in SiteIds \cup {NoSite}, NEW number \in BOOLEAN, Place(t, site, number)
      PROVE  FALSE
  <2>1. ~Free(t) /\ req[t] \in Request
    BY <1>6, Served, TypeParts DEF Place, At
  <2>2. req'[t].at = "placed"
    BY <1>3, <1>6, <2>1 DEF Place, WithSite, Done, CredTypeOK, Request
  <2> QED
    BY <1>3, <2>2
<1>7. ASSUME NEW v \in Secrets \cup {Blank}, Seal(t, v) PROVE FALSE
  <2>1. ~Free(t) /\ req[t] \in Request /\ req[t].op \in {"edit", "create"}
    BY <1>7, Served, TypeParts DEF Seal, At
  <2>2. req'[t].op = req[t].op
    BY <1>7, <2>1 DEF Seal, CredTypeOK, Request
  <2> QED
    BY <1>3, <2>1, <2>2
<1>8. ASSUME NEW v \in Secrets, SealGenerated(t, v) PROVE req'[t].takenLive
  <2>1. ~Free(t) /\ ToEncrypt(req[t])
    BY <1>8 DEF SealGenerated, At, ToEncrypt
  <2>2. req[t] \in Request /\ DraftReadable(t) /\ req[t].sid \in SessionIds
    BY <2>1, ReadableServed
  <2>3. Held(t).dek = VaultKey
    BY <2>1, <2>2 DEF DraftReadable
  <2>4. Live(req[t].sid)
    BY <2>2, <2>3, CredAssumption, StoreAssumption DEF KeyOnlyWhileLive, Held
  <2>5. req'[t].takenLive = Live(req[t].sid)
    BY <1>8, <2>2 DEF SealGenerated, CredTypeOK, Request
  <2> QED
    BY <2>4, <2>5
<1>9. ASSUME Open(t) PROVE req'[t].takenLive
  <2>1. ~Free(t) /\ req[t].row # NoRow
    BY <1>9, Served, TypeParts DEF Open, At, Whole
  <2>2. req[t] \in Request /\ DraftReadable(t) /\ req[t].sid \in SessionIds
    BY <2>1, ReadableServed
  <2>3. /\ req[t].row.secret = Blank \/ req[t].row.secret.key = Held(t).dek
        /\ req'[t].row = req[t].row /\ req'[t].takenLive = Live(req[t].sid)
    BY <1>3, <1>9, <2>2 DEF Open, Done, CredTypeOK, Request
  <2>4. Held(t).dek = VaultKey
    BY <1>3, <2>1, <2>2, <2>3 DEF DraftReadable, Readable
  <2>5. Live(req[t].sid)
    BY <2>2, <2>4, CredAssumption, StoreAssumption DEF KeyOnlyWhileLive, Held
  <2> QED
    BY <2>3, <2>5
<1> QED
  BY <1>4, <1>5, <1>6, <1>7, <1>8, <1>9 DEF RequestStep, WriteStep

LEMMA TakenStep ==
    ASSUME CredTypeOK, ReadableInv, KeyOnlyWhileLive, TakenInv, [Next]_vars
    PROVE  TakenInv'
<1>1. ASSUME NEW t \in Threads, WriteStep(t) PROVE TakenInv'
  <2>1. raced' = raced
    BY <1>1 DEF WriteStep, EditWrite, RotateWrite, CreateWrite, DeleteWrite
  <2> QED
    BY <1>1, <2>1, AfterWrite, TakenQuiet, TypeParts
<1>2. ASSUME NEW t \in Threads, RequestStep(t) PROVE TakenInv'
  BY <1>1, <1>2, TakenReadStep
<1>3. ASSUME NEW s \in SessionIds, SiteStep(s) PROVE TakenInv'
  <2>1. raced' = raced /\ (req' = req \/ req' = Marked(req))
    BY <1>3 DEF SiteStep, CreateSite, DeleteSite, AssignSites
  <2>2. CASE req' = req
    BY <2>1, <2>2, TakenQuiet
  <2>3. CASE req' = Marked(req)
    BY <2>1, <2>3, AfterMarked, TakenQuiet, TypeParts DEF RequestsOK
  <2> QED
    BY <2>1, <2>2, <2>3
<1>4. ASSUME NEW s \in SessionIds, SessionStep(s) PROVE TakenInv'
  <2>1. req' = req
    BY <1>4 DEF SessionStep, SignIn, Prompted, Poll, SignOut
  <2>2. ASSUME ~raced' PROVE ~raced
    BY <1>4, <2>2 DEF SessionStep, SignIn, Prompted, Poll, SignOut
  <2> QED
    BY <2>1, <2>2 DEF TakenInv, HoldsSecret, At, Free
<1>5. ASSUME TimePasses \/ UNCHANGED vars PROVE TakenInv'
  <2>1. UNCHANGED <<req, raced>>
    BY <1>5 DEF TimePasses, vars
  <2> QED
    BY <2>1, TakenQuiet
<1> QED
  BY <1>2, <1>3, <1>4, <1>5 DEF Next

\* A view or a rotation that answers after its session was wiped used the session's key
\* before the wipe, whatever ran between the two, unless a wipe overtook an encryption.
THEOREM AnswersAreTakenWhileLive == Spec => AnswersTakenWhileLive
<1>1. Init => TakenInv
  BY DEF Init, TakenInv, HoldsSecret, At, Free
<1>2. (CredTypeOK /\ ReadableInv /\ KeyOnlyWhileLive) /\ TakenInv /\ [Next]_vars => TakenInv'
  BY TakenStep
<1>3. TakenInv /\ [Next]_vars =>
         [\A t \in Threads : AnswersSecret(t) /\ ~raced => req[t].takenLive]_vars
  BY DEF TakenInv, AnswersSecret
<1> QED
  BY <1>1, <1>2, <1>3, ReadableInvariant, CredStoreInv, PTL DEF Spec, AnswersTakenWhileLive

-------------------------------------------------------------------------------
\* WritesStayInScope.  ScopeInv says what the checks a request passed are still worth.

\* The account and role behind a request do not change while it is served.
LEMMA AccessKept ==
    ASSUME CredTypeOK, SessionsKept, assigned' = assigned, NEW t \in Threads, ~Free(t),
           req'[t].sid = req[t].sid, NEW site
    PROVE  CanAccess(t, site)' <=> CanAccess(t, site)
<1>1. req[t].sid \in SessionIds /\ sess[req[t].sid].state # "unused"
  BY Served, TypeParts DEF Request
<1>2. Held(t)'.user = Held(t).user /\ Held(t)'.role = Held(t).role
  BY <1>1 DEF SessionsKept, Held
<1> QED
  BY <1>2 DEF CanAccess

\* A request that another step leaves alone, or marks, keeps what its checks are worth.
LEMMA BystanderKept ==
    ASSUME CredTypeOK, CredTypeOK', ScopeInv, SessionsKept, NEW t \in Threads,
           req[t] # NoRequest, ~req[t].overtaken, assigned' = assigned,
           req[t].id # 0 => creds'[req[t].id] = creds[req[t].id],
           req'[t].row = req[t].row, req'[t].op = req[t].op, req'[t].sid = req[t].sid,
           req'[t].id = req[t].id, req'[t].at = req[t].at, req'[t].unasked = req[t].unasked
    PROVE  ChecksHold(t)'
<1>1. ChecksHold(t) /\ ~Free(t)
  BY DEF ScopeInv, Free
<1>2. \A site : CanAccess(t, site)' <=> CanAccess(t, site)
  BY <1>1, AccessKept
<1>3. req[t].op # "create" => req[t].id # 0
  BY <1>1, Served, TypeParts DEF Whole
<1> QED
  BY <1>1, <1>2, <1>3 DEF ChecksHold, InScope

LEMMA ScopeQuiet ==
    ASSUME CredTypeOK, CredTypeOK', ScopeInv, SessionsKept,
           \A r \in Threads : req'[r] # NoRequest =>
                 /\ req[r] # NoRequest /\ req'[r].row = req[r].row
                 /\ req'[r].op = req[r].op /\ req'[r].sid = req[r].sid
                 /\ req'[r].id = req[r].id
                 /\ \/ req[r].op = "rotate" /\ req'[r].at = "written"
                    \/ /\ req'[r].at = req[r].at /\ req'[r].unasked = req[r].unasked
                       /\ ~req'[r].overtaken =>
                            /\ ~req[r].overtaken /\ assigned' = assigned
                            /\ req[r].id # 0 => creds'[req[r].id] = creds[req[r].id]
    PROVE  ScopeInv'
<1> SUFFICES ASSUME NEW t \in Threads, req'[t] # NoRequest, ~req'[t].overtaken
             PROVE  ChecksHold(t)'
  BY DEF ScopeInv, Free
<1>1. CASE req[t].op = "rotate" /\ req'[t].at = "written"
  BY <1>1 DEF ChecksHold
<1>2. CASE ~(req[t].op = "rotate" /\ req'[t].at = "written")
  BY <1>2, BystanderKept
<1> QED
  BY <1>1, <1>2

\* A step in which request t advances or ends, and nothing else changes.
LEMMA ScopeAdvance ==
    ASSUME CredTypeOK, CredTypeOK', ScopeInv, SessionsKept, UNCHANGED <<assigned, creds>>,
           NEW t \in Threads, NEW x, req' = [req EXCEPT ![t] = x],
           req'[t] # NoRequest /\ ~req'[t].overtaken => ChecksHold(t)'
    PROVE  ScopeInv'
<1> SUFFICES ASSUME NEW r \in Threads, req'[r] # NoRequest, ~req'[r].overtaken
             PROVE  ChecksHold(r)'
  BY DEF ScopeInv, Free
<1>1. CASE r = t
  BY <1>1
<1>2. CASE r # t
  <2>1. req'[r] = req[r]
    BY <1>2 DEF CredTypeOK
  <2> QED
    BY <2>1, BystanderKept
<1> QED
  BY <1>1, <1>2

LEMMA ScopeReadStep ==
    ASSUME CredTypeOK, CredTypeOK', ScopeInv, SessionsKept, NEW t \in Threads, RequestStep(t),
           ~WriteStep(t)
    PROVE  ScopeInv'
<1>1. UNCHANGED <<assigned, creds>>
  BY DEF RequestStep, WriteStep, Begin, Admit, Fetch, Scope, Place, Seal, SealGenerated,
         Open, Answer
<1>2. req' = [req EXCEPT ![t] = req'[t]]
  BY DEF RequestStep, WriteStep, Begin, Admit, Fetch, Scope, Place, WithSite, Seal,
         SealGenerated, Open, Answer, Moved, Done, CredTypeOK
<1> SUFFICES ASSUME req'[t] # NoRequest, ~req'[t].overtaken PROVE ChecksHold(t)'
  BY <1>1, <1>2, ScopeAdvance
<1>3. ASSUME NEW s \in SessionIds, NEW op \in Calls, NEW i \in CredIds \cup {0},
             Begin(t, s, op, i)
      PROVE  ChecksHold(t)'
  <2>1. req'[t].at = "authed"
    BY <1>3 DEF Begin, CredTypeOK
  <2> QED
    BY <2>1 DEF ChecksHold
<1>4. CASE Admit(t)
  <2>1. req'[t].at = "admitted"
    BY <1>4 DEF Admit, Moved, Done, CredTypeOK, At, Free, Request
  <2> QED
    BY <2>1 DEF ChecksHold
<1>5. CASE Fetch(t)
  <2>1. ~Free(t) /\ req[t] \in Request
    BY <1>5, Served, TypeParts DEF Fetch, At
  <2>2. req'[t].at = "fetched" /\ req'[t].row = creds[req[t].id] /\ req'[t].id = req[t].id
    BY <1>5, <2>1 DEF Fetch, Done, CredTypeOK, Request
  <2> QED
    BY <1>1, <2>2 DEF ChecksHold
<1>6. CASE Scope(t)
  <2>1. ~Free(t) /\ req[t] \in Request /\ req[t].at = "fetched"
    BY <1>6, Served, TypeParts DEF Scope, At
  <2>2. CanAccess(t, req[t].row.site)
    BY <1>6 DEF Scope, Done, CredTypeOK
  <2>3. /\ req'[t].at = "scoped" /\ req'[t].row = req[t].row /\ req'[t].id = req[t].id
        /\ req'[t].op = req[t].op /\ req'[t].sid = req[t].sid
        /\ req'[t].overtaken = req[t].overtaken
    BY <1>6, <2>1, <2>2 DEF Scope, Moved, CredTypeOK, Request
  <2>4. req[t].op # "create" => creds[req[t].id] = req[t].row
    BY <2>1, <2>3 DEF ScopeInv, ChecksHold
  <2>5. \A site : CanAccess(t, site)' <=> CanAccess(t, site)
    BY <1>1, <2>1, <2>3, AccessKept
  <2> QED
    BY <1>1, <2>2, <2>3, <2>4, <2>5 DEF ChecksHold, InScope
<1>7. ASSUME NEW site \in SiteIds \cup {NoSite}, NEW number \in BOOLEAN,
             Place(t, site, number)
      PROVE  ChecksHold(t)'
  <2>1. ~Free(t) /\ req[t] \in Request /\ req[t].row \in Cred \cup {NoRow}
          /\ (req[t].at = "scoped" \/ req[t].op = "create")
    BY <1>7, Served, TypeParts DEF Place, At
  <2>2. CanAccess(t, site) \/ ~number
    BY <1>7 DEF Place, Done, CredTypeOK
  <2>3. /\ req'[t].at = "placed" /\ req'[t].id = req[t].id
        /\ req'[t].unasked = (~number /\ ~CanAccess(t, site))
        /\ req'[t].op = req[t].op /\ req'[t].sid = req[t].sid
        /\ req'[t].overtaken = req[t].overtaken
        /\ req'[t].row = IF req[t].row = NoRow THEN [site |-> site, secret |-> Blank]
                         ELSE [req[t].row EXCEPT !.site = site]
    BY <1>7, <2>1, <2>2 DEF Place, WithSite, CredTypeOK, Request
  <2>4. req'[t].row.site = site
    BY <2>1, <2>3 DEF Cred
  <2>5. req[t].op # "create" => InScope(t, creds[req[t].id])
    BY <2>1, <2>3 DEF ScopeInv, ChecksHold
  <2>6. \A y : CanAccess(t, y)' <=> CanAccess(t, y)
    BY <1>1, <2>1, <2>3, AccessKept
  <2> QED
    BY <1>1, <2>2, <2>3, <2>4, <2>5, <2>6 DEF ChecksHold, InScope
<1>8. ASSUME NEW v \in Secrets \cup {Blank}, Seal(t, v) \/ SealGenerated(t, v)
      PROVE  ChecksHold(t)'
  <2>1. /\ ~Free(t) /\ req[t] \in Request /\ req[t].row \in Cred
        /\ req[t].op = "rotate" => req[t].at = "scoped"
        /\ req[t].op # "rotate" => req[t].at = "placed"
    BY <1>8, Served, TypeParts DEF Seal, SealGenerated, At, Whole
  <2> DEFINE tok == IF Seal(t, v) /\ v = Blank /\ req[t].op = "edit"
                    THEN req[t].row.secret ELSE Encrypted(Held(t).dek, v)
  <2>2. /\ req'[t].at = "drafted" /\ req'[t].id = req[t].id
        /\ req'[t].op = req[t].op /\ req'[t].sid = req[t].sid
        /\ req'[t].overtaken = req[t].overtaken /\ req'[t].unasked = req[t].unasked
        /\ req'[t].row = [req[t].row EXCEPT !.secret = tok]
    BY <1>8, <2>1 DEF Seal, SealGenerated, CredTypeOK, Request, At
  <2> HIDE DEF tok
  <2>3. req'[t].row.site = req[t].row.site
    BY <2>1, <2>2 DEF Cred
  <2>4. ChecksHold(t)
    BY <2>1, <2>2 DEF ScopeInv
  <2>5. \A y : CanAccess(t, y)' <=> CanAccess(t, y)
    BY <1>1, <2>1, <2>2, AccessKept
  <2> QED
    BY <1>1, <2>1, <2>2, <2>3, <2>4, <2>5 DEF ChecksHold, InScope
<1>9. CASE Answer(t)
  BY <1>9 DEF Answer, Done, CredTypeOK
<1>10. CASE Open(t)
  <2>1. req'[t].at = "opened"
    BY <1>10, Served, TypeParts DEF Open, At, Done, CredTypeOK, Request
  <2> QED
    BY <2>1 DEF ChecksHold
<1> QED
  BY <1>3, <1>4, <1>5, <1>6, <1>7, <1>8, <1>9, <1>10 DEF RequestStep, WriteStep

LEMMA ScopeStep ==
    ASSUME CredTypeOK, ScopeInv, [Next]_vars
    PROVE  ScopeInv'
<1>1. CredTypeOK' /\ SessionsKept
  BY StepType
<1>2. ASSUME NEW t \in Threads, WriteStep(t) PROVE ScopeInv'
  BY <1>1, <1>2, AfterWrite, ScopeQuiet, TypeParts
<1>3. ASSUME NEW t \in Threads, RequestStep(t) PROVE ScopeInv'
  BY <1>1, <1>2, <1>3, ScopeReadStep
<1>4. ASSUME req' = Marked(req) PROVE ScopeInv'
  BY <1>1, <1>4, AfterMarked, ScopeQuiet, TypeParts DEF RequestsOK
<1>5. ASSUME UNCHANGED <<assigned, creds, req>> PROVE ScopeInv'
  BY <1>1, <1>5, ScopeQuiet
<1>6. ASSUME NEW s \in SessionIds, SiteStep(s) \/ SessionStep(s) PROVE ScopeInv'
  BY <1>4, <1>5, <1>6 DEF SiteStep, CreateSite, DeleteSite, AssignSites,
                          SessionStep, SignIn, Prompted, Poll, SignOut
<1>7. ASSUME TimePasses \/ UNCHANGED vars PROVE ScopeInv'
  BY <1>5, <1>7 DEF TimePasses, vars
<1> QED
  BY <1>3, <1>6, <1>7 DEF Next

\* The only request that ends in a step that changes credentials is the one that writes.
LEMMA WriterOf ==
    ASSUME CredTypeOK, [Next]_vars, NEW t \in Threads, Writes(t)
    PROVE  WriteStep(t)
<1>1. /\ creds' # creds /\ ~Free(t) /\ req[t] # NoRequest
      /\ req'[t] = NoRequest \/ req'[t].at # req[t].at
  BY DEF Writes, Free
<1>2. PICK r \in Threads : WriteStep(r)
  <2>1. ASSUME req' = Marked(req) PROVE FALSE
    BY <1>1, <2>1, MarkedShape, TypeParts DEF RequestsOK
  <2>2. ASSUME NEW s \in SessionIds, SiteStep(s) PROVE FALSE
    BY <1>1, <2>1, <2>2 DEF SiteStep, CreateSite, DeleteSite, AssignSites
  <2> QED
    BY <1>1, <2>2 DEF Next, RequestStep, WriteStep, SessionStep, SignIn, Prompted, Poll,
       SignOut, Begin, Admit, Fetch, Scope, Place, Seal, SealGenerated, Open, Answer,
       TimePasses, vars
<1>3. r = t
  <2> DEFINE x == IF RotateWrite(r) THEN [req[r] EXCEPT !.at = "written"] ELSE NoRequest
             q == [req EXCEPT ![r] = x]
  <2>1. req' = Marked(q)
    BY <1>2 DEF WriteStep, EditWrite, RotateWrite, CreateWrite, DeleteWrite
  <2>2. x \in Request \cup {NoRequest}
    BY Served, TypeParts DEF RotateWrite, At, Request, Phases
  <2> HIDE DEF x
  <2>3. q \in [Threads -> Request \cup {NoRequest}] /\ (r # t => q[t] = req[t])
    BY <2>2 DEF CredTypeOK
  <2> HIDE DEF q
  <2> QED
    BY <1>1, <2>1, <2>3, MarkedShape
<1> QED
  BY <1>2, <1>3

\* The write itself changes one credential, checked before and after.
LEMMA WriteInScope ==
    ASSUME CredTypeOK, ScopeInv, [Next]_vars, NEW t \in Threads, Writes(t),
           ~req[t].overtaken, NEW i \in CredIds, creds'[i] # creds[i]
    PROVE  InScope(t, creds[i]) /\ (InScope(t, creds'[i]) \/ req[t].unasked)
<1>1. ~Free(t)
  BY DEF Writes
<1>2. EditWrite(t) \/ RotateWrite(t) \/ CreateWrite(t) \/ DeleteWrite(t)
  BY WriterOf DEF WriteStep
<1>4. ChecksHold(t) /\ req[t] \in Request /\ req[t].row \in Cred \cup {NoRow}
  BY <1>1, Served, TypeParts DEF ScopeInv
<1>5. CASE EditWrite(t)
  BY <1>4, <1>5 DEF EditWrite, At, Updated, ChecksHold, InScope, CredTypeOK
<1>6. CASE RotateWrite(t)
  <2>1. i = req[t].id /\ creds[i] # NoRow /\ creds[i] \in Cred
    BY <1>6 DEF RotateWrite, CredTypeOK
  <2>2. creds'[i] = [creds[i] EXCEPT !.secret = req[t].row.secret]
    BY <1>6, <2>1 DEF RotateWrite, CredTypeOK
  <2>3. creds'[i].site = creds[i].site
    BY <2>1, <2>2 DEF Cred
  <2> QED
    BY <1>4, <1>6, <2>1, <2>3 DEF RotateWrite, At, ChecksHold, InScope
<1>7. CASE CreateWrite(t)
  <2>1. PICK j \in CredIds :
           /\ NextId(j, {m \in CredIds : creds[m] # NoRow})
           /\ creds' = IF req[t].row.site \in sites \cup {NoSite}
                       THEN [creds EXCEPT ![j] = req[t].row] ELSE creds
    BY <1>7 DEF CreateWrite
  <2>2. i = j /\ creds'[i] = req[t].row
    BY <2>1 DEF CredTypeOK
  <2>3. ~(j < j)
    BY CredAssumption DEF CredIds
  <2>4. creds[i] = NoRow
    BY <2>1, <2>2, <2>3 DEF NextId
  <2> QED
    BY <1>4, <1>7, <2>2, <2>4 DEF CreateWrite, At, ChecksHold, InScope
<1>8. CASE DeleteWrite(t)
  BY <1>4, <1>8 DEF DeleteWrite, At, ChecksHold, InScope, CredTypeOK
<1> QED
  BY <1>2, <1>5, <1>6, <1>7, <1>8

\* Whatever the interleaving, a request that nothing overtook between its checks and its
\* write changes only credentials in the scope of the account it serves, and leaves them
\* there unless the site in its form was no number.
THEOREM CredWritesStayInScope == Spec => WritesStayInScope
<1>1. Init => ScopeInv
  BY DEF Init, ScopeInv, Free
<1>2. CredTypeOK /\ ScopeInv /\ [Next]_vars => ScopeInv'
  BY ScopeStep
<1>3. CredTypeOK /\ ScopeInv /\ [Next]_vars =>
         [\A t \in Threads : Writes(t) /\ ~req[t].overtaken =>
             \A i \in CredIds : creds'[i] # creds[i] =>
                InScope(t, creds[i]) /\ (InScope(t, creds'[i]) \/ req[t].unasked)]_vars
  BY WriteInScope
<1> QED
  BY <1>1, <1>2, <1>3, CredTypeCorrect, PTL DEF Spec, WritesStayInScope

-------------------------------------------------------------------------------
\* BlankKeepsPassword.  TokenInv says that the token an edit read is still the one stored.

LEMMA TokenQuiet ==
    ASSUME CredTypeOK, TokenInv,
           \A r \in Threads : req'[r] # NoRequest =>
                 /\ req[r] # NoRequest /\ req'[r].row = req[r].row
                 /\ req'[r].op = req[r].op /\ req'[r].id = req[r].id
                 /\ \/ req[r].op = "rotate"
                    \/ /\ req'[r].at = req[r].at /\ req'[r].blank = req[r].blank
                       /\ ~req'[r].overtaken =>
                            /\ ~req[r].overtaken
                            /\ req[r].id # 0 => creds'[req[r].id] = creds[req[r].id]
    PROVE  TokenInv'
<1> SUFFICES ASSUME NEW t \in Threads, req'[t] # NoRequest, ~req'[t].overtaken
             PROVE  TokenKept(t)'
  BY DEF TokenInv, Free
<1> SUFFICES ASSUME req[t].op = "edit" PROVE TokenKept(t)'
  BY DEF TokenKept
<1>1. ~Free(t) /\ TokenKept(t)
  BY DEF TokenInv, Free
<1>2. req[t].op # "create" => req[t].id # 0
  BY <1>1, Served, TypeParts DEF Whole
<1> QED
  BY <1>1, <1>2 DEF TokenKept

\* A step in which request t advances or ends, and nothing else changes.
LEMMA TokenAdvance ==
    ASSUME CredTypeOK, TokenInv, UNCHANGED creds,
           NEW t \in Threads, NEW x, req' = [req EXCEPT ![t] = x],
           req'[t] # NoRequest /\ ~req'[t].overtaken => TokenKept(t)'
    PROVE  TokenInv'
<1> SUFFICES ASSUME NEW r \in Threads, req'[r] # NoRequest, ~req'[r].overtaken
             PROVE  TokenKept(r)'
  BY DEF TokenInv, Free
<1>1. CASE r = t
  BY <1>1
<1>2. CASE r # t
  <2>1. req'[r] = req[r]
    BY <1>2 DEF CredTypeOK
  <2> QED
    BY <2>1 DEF TokenInv, TokenKept, Free
<1> QED
  BY <1>1, <1>2

LEMMA TokenReadStep ==
    ASSUME CredTypeOK, TokenInv, NEW t \in Threads, RequestStep(t),
           ~WriteStep(t)
    PROVE  TokenInv'
<1>1. UNCHANGED creds
  BY DEF RequestStep, WriteStep, Begin, Admit, Fetch, Scope, Place, Seal, SealGenerated,
         Open, Answer
<1>2. req' = [req EXCEPT ![t] = req'[t]]
  BY DEF RequestStep, WriteStep, Begin, Admit, Fetch, Scope, Place, WithSite, Seal,
         SealGenerated, Open, Answer, Moved, Done, CredTypeOK
<1> SUFFICES ASSUME req'[t] # NoRequest, ~req'[t].overtaken PROVE TokenKept(t)'
  BY <1>1, <1>2, TokenAdvance
<1>3. ASSUME NEW s \in SessionIds, NEW op \in Calls, NEW i \in CredIds \cup {0},
             Begin(t, s, op, i)
      PROVE  TokenKept(t)'
  <2>1. req'[t].at = "authed"
    BY <1>3 DEF Begin, CredTypeOK
  <2> QED
    BY <2>1 DEF TokenKept
<1>4. CASE Admit(t)
  <2>1. req'[t].at = "admitted"
    BY <1>4 DEF Admit, Moved, Done, CredTypeOK, At, Free, Request
  <2> QED
    BY <2>1 DEF TokenKept
<1>5. CASE Fetch(t)
  <2>1. ~Free(t) /\ req[t] \in Request
    BY <1>5, Served, TypeParts DEF Fetch, At
  <2>2. /\ req'[t].row = creds[req[t].id] /\ req'[t].id = req[t].id
        /\ creds[req[t].id] # NoRow
    BY <1>5, <2>1 DEF Fetch, Done, CredTypeOK, Request
  <2> QED
    BY <1>1, <2>2 DEF TokenKept
<1>6. CASE Scope(t)
  <2>1. ~Free(t) /\ req[t] \in Request /\ req[t].at = "fetched"
    BY <1>6, Served, TypeParts DEF Scope, At
  <2>2. /\ req'[t].at = "scoped" /\ req'[t].row = req[t].row /\ req'[t].id = req[t].id
        /\ req'[t].op = req[t].op /\ req'[t].overtaken = req[t].overtaken
    BY <1>6, <2>1 DEF Scope, Moved, Done, CredTypeOK, Request
  <2>3. TokenKept(t)
    BY <2>1, <2>2 DEF TokenInv
  <2> QED
    BY <1>1, <2>1, <2>2, <2>3 DEF TokenKept
<1>7. ASSUME NEW site \in SiteIds \cup {NoSite}, NEW number \in BOOLEAN,
             Place(t, site, number)
      PROVE  TokenKept(t)'
  <2>1. ~Free(t) /\ req[t] \in Request /\ req[t].row \in Cred \cup {NoRow}
          /\ Whole(req[t])
    BY <1>7, Served, TypeParts DEF Place, At
  <2>2. /\ req'[t].at = "placed" /\ req'[t].id = req[t].id
        /\ req'[t].op = req[t].op /\ req'[t].overtaken = req[t].overtaken
        /\ req'[t].row = IF req[t].row = NoRow THEN [site |-> site, secret |-> Blank]
                         ELSE [req[t].row EXCEPT !.site = site]
    BY <1>7, <2>1 DEF Place, WithSite, Done, CredTypeOK, Request
  <2>3. req[t].op = "edit" => req[t].at = "scoped" /\ req[t].row \in Cred
    BY <1>7, <2>1 DEF Place, At, Whole
  <2>4. req[t].op = "edit" => req'[t].row.secret = req[t].row.secret
    BY <2>2, <2>3, CredRowAssumption DEF Cred
  <2>5. TokenKept(t)
    BY <2>1, <2>2 DEF TokenInv
  <2> QED
    BY <1>1, <2>2, <2>3, <2>4, <2>5 DEF TokenKept
<1>8. ASSUME NEW v \in Secrets \cup {Blank}, Seal(t, v)
      PROVE  TokenKept(t)'
  <2>1. ~Free(t) /\ req[t] \in Request /\ req[t].row \in Cred /\ req[t].at = "placed"
    BY <1>8, Served, TypeParts DEF Seal, At, Whole
  <2> DEFINE tok == IF v = Blank /\ req[t].op = "edit"
                    THEN req[t].row.secret ELSE Encrypted(Held(t).dek, v)
  <2>2. /\ req'[t].at = "drafted" /\ req'[t].id = req[t].id /\ req'[t].op = req[t].op
        /\ req'[t].overtaken = req[t].overtaken /\ req'[t].blank = (v = Blank)
        /\ req'[t].row = [req[t].row EXCEPT !.secret = tok]
    BY <1>8, <2>1 DEF Seal, CredTypeOK, Request, At
  <2>3. req[t].op = "edit" /\ v = Blank => tok = req[t].row.secret
    OBVIOUS
  <2> HIDE DEF tok
  <2>4. req'[t].row.secret = tok
    BY <2>1, <2>2 DEF Cred
  <2>5. TokenKept(t)
    BY <2>1, <2>2 DEF TokenInv
  <2> QED
    BY <1>1, <2>1, <2>2, <2>3, <2>4, <2>5 DEF TokenKept
<1>9. ASSUME NEW v \in Secrets, SealGenerated(t, v) PROVE TokenKept(t)'
  <2>1. req'[t].op = "rotate"
    BY <1>9, Served, TypeParts DEF SealGenerated, At, CredTypeOK, Request
  <2> QED
    BY <2>1 DEF TokenKept
<1>10. CASE Answer(t)
  BY <1>10 DEF Answer, Done, CredTypeOK
<1>11. CASE Open(t)
  <2>1. req'[t].at = "opened"
    BY <1>11, Served, TypeParts DEF Open, At, Done, CredTypeOK, Request
  <2> QED
    BY <2>1 DEF TokenKept
<1> QED
  BY <1>3, <1>4, <1>5, <1>6, <1>7, <1>8, <1>9, <1>10, <1>11 DEF RequestStep, WriteStep

LEMMA TokenStep ==
    ASSUME CredTypeOK, TokenInv, [Next]_vars
    PROVE  TokenInv'
<1>1. ASSUME NEW t \in Threads, WriteStep(t) PROVE TokenInv'
  BY <1>1, AfterWrite, TokenQuiet, TypeParts
<1>2. ASSUME NEW t \in Threads, RequestStep(t) PROVE TokenInv'
  BY <1>1, <1>2, TokenReadStep
<1>3. ASSUME req' = Marked(req) PROVE TokenInv'
  BY <1>3, AfterMarked, TokenQuiet, TypeParts DEF RequestsOK
<1>4. ASSUME UNCHANGED <<creds, req>> PROVE TokenInv'
  BY <1>4, TokenQuiet
<1>5. ASSUME NEW s \in SessionIds, SiteStep(s) \/ SessionStep(s) PROVE TokenInv'
  BY <1>3, <1>4, <1>5 DEF SiteStep, CreateSite, DeleteSite, AssignSites,
                          SessionStep, SignIn, Prompted, Poll, SignOut
<1>6. ASSUME TimePasses \/ UNCHANGED vars PROVE TokenInv'
  BY <1>4, <1>6 DEF TimePasses, vars
<1> QED
  BY <1>2, <1>5, <1>6 DEF Next

\* An edit with a blank password, of a credential nobody changed since the edit read it,
\* leaves the stored token as it was, for any number of requests.
THEOREM BlankEditsKeepPassword == Spec => BlankKeepsPassword
<1>1. Init => TokenInv
  BY DEF Init, TokenInv, Free
<1>2. CredTypeOK /\ TokenInv /\ [Next]_vars => TokenInv'
  BY TokenStep
<1>3. CredTypeOK /\ TokenInv /\ [Next]_vars =>
         [\A t \in Threads :
             At(t, {"edit"}, "drafted") /\ Writes(t) /\ req[t].blank /\ ~req[t].overtaken =>
                creds'[req[t].id].secret = creds[req[t].id].secret]_vars
  <2> SUFFICES ASSUME CredTypeOK, TokenInv, [Next]_vars, NEW t \in Threads,
                      At(t, {"edit"}, "drafted"), Writes(t), req[t].blank, ~req[t].overtaken
               PROVE  creds'[req[t].id].secret = creds[req[t].id].secret
    OBVIOUS
  <2>1. EditWrite(t)
    BY WriterOf DEF WriteStep, At, RotateWrite, CreateWrite, DeleteWrite
  <2>2. TokenKept(t) /\ req[t] \in Request /\ req[t].id \in CredIds
    BY Served, TypeParts DEF TokenInv, At
  <2> QED
    BY <2>1, <2>2 DEF EditWrite, At, Updated, TokenKept, CredTypeOK
<1> QED
  BY <1>1, <1>2, <1>3, CredTypeCorrect, PTL DEF Spec, BlankKeepsPassword
===============================================================================
