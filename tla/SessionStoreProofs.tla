-------------------------- MODULE SessionStoreProofs --------------------------
(***************************************************************************)
(* Theorems about SessionStore, for any number of sessions, any limits.    *)
(***************************************************************************)
EXTENDS SessionStore, TLAPS

\* Each store operation leaves a table of sessions: Create with known arguments,
\* the others from any table.
LEMMA CreateType ==
    ASSUME StoreTypeOK, NEW s \in SessionIds, NEW u \in Accounts, NEW r \in Roles,
           NEW k \in DekBytes, Create(s, u, r, k)
    PROVE  StoreTypeOK'
BY StoreAssumption DEF StoreTypeOK, Create, Session

LEMMA WipeType ==
    ASSUME StoreTypeOK, NEW s \in SessionIds
    PROVE  Wiped(s) \in [SessionIds -> Session]
<1> DEFINE x == [sess[s] EXCEPT !.dek = Zeroed, !.state = "wiped", !.idle = 0, !.reveal = 0]
<1>1. 0 \in 0 .. (IdleLimit + 1) /\ 0 \in 0 .. RevealTTL
  BY StoreAssumption
<1>2. sess[s] \in Session
  BY DEF StoreTypeOK
<1>3. x \in Session
  BY <1>1, <1>2 DEF Session, DekBytes
<1>4. Wiped(s) = [sess EXCEPT ![s] = x]
  BY DEF Wiped, StoreTypeOK
<1> QED
  BY <1>3, <1>4 DEF StoreTypeOK

LEMMA GetType ==
    ASSUME StoreTypeOK, NEW s \in SessionIds, GetFresh(s) \/ GetStale(s) \/ Lock(s)
    PROVE  StoreTypeOK'
<1>1. CASE GetFresh(s)
  BY <1>1, StoreAssumption DEF StoreTypeOK, GetFresh, Session
<1>2. CASE GetStale(s)
  BY <1>2, WipeType DEF StoreTypeOK, GetStale
<1>3. CASE Lock(s)
  BY <1>3, WipeType DEF StoreTypeOK, Lock
<1> QED
  BY <1>1, <1>2, <1>3

LEMMA OpenRevealType ==
    ASSUME StoreTypeOK, NEW s \in SessionIds, OpenReveal(s)
    PROVE  StoreTypeOK'
BY StoreAssumption DEF StoreTypeOK, OpenReveal, Session

LEMMA AgedType ==
    ASSUME NEW x \in Session
    PROVE  Aged(x) \in Session
<1> DEFINE i == IF x.idle > IdleLimit THEN x.idle ELSE x.idle + 1
           v == IF x.reveal > 0 THEN x.reveal - 1 ELSE 0
<1>1. x.idle \in 0 .. (IdleLimit + 1) /\ x.reveal \in 0 .. RevealTTL
  BY DEF Session
<1>2. i \in 0 .. (IdleLimit + 1) /\ v \in 0 .. RevealTTL
  BY <1>1, StoreAssumption
<1>3. Aged(x) = [x EXCEPT !.idle = i, !.reveal = v]
  BY DEF Aged
<1> HIDE DEF i, v
<1> QED
  BY <1>2, <1>3 DEF Session

LEMMA TickType ==
    ASSUME StoreTypeOK, Tick
    PROVE  StoreTypeOK'
BY AgedType DEF StoreTypeOK, Tick

LEMMA StoreInitType == StoreInit => StoreTypeOK
BY StoreAssumption DEF StoreInit, StoreTypeOK, Session, Unused, DekBytes

LEMMA StoreStepType ==
    ASSUME StoreTypeOK, [StoreNext]_sess
    PROVE  StoreTypeOK'
<1>1. CASE UNCHANGED sess
  BY <1>1 DEF StoreTypeOK
<1>2. CASE StoreNext
  BY <1>2, CreateType, GetType, OpenRevealType, TickType DEF StoreNext
<1> QED
  BY <1>1, <1>2

\* The table holds well-formed sessions for ever.
THEOREM StoreTypeCorrect == StoreSpec => []StoreTypeOK
<1>1. StoreTypeOK /\ [StoreNext]_sess => StoreTypeOK'
  BY StoreStepType
<1> QED
  BY <1>1, StoreInitType, PTL DEF StoreSpec

-------------------------------------------------------------------------------
\* A key is present only in a session the table still holds.
KeyOnlyWhileLive == \A s \in SessionIds : ~Live(s) => sess[s].dek = Zeroed

StoreInv == StoreTypeOK /\ KeyOnlyWhileLive

\* KeyOnlyWhileLive is preserved by every operation, as wipeLocked overwrites the
\* key and deletes the entry together.
LEMMA StoreStepKeepsInv ==
    ASSUME StoreInv, StoreTypeOK', [StoreNext]_sess
    PROVE  StoreInv'
<1> SUFFICES ASSUME NEW g \in SessionIds, sess'[g].state # "live"
             PROVE  sess'[g].dek = Zeroed
  BY DEF StoreInv, KeyOnlyWhileLive, Live
<1> USE DEF StoreInv, StoreTypeOK, KeyOnlyWhileLive, Live, Session
<1>1. ASSUME NEW s \in SessionIds, NEW u \in Accounts, NEW r \in Roles,
             NEW k \in DekBytes, Create(s, u, r, k)
      PROVE  sess'[g].dek = Zeroed
  BY <1>1 DEF Create
<1>2. ASSUME NEW s \in SessionIds, GetFresh(s) \/ OpenReveal(s)
      PROVE  sess'[g].dek = Zeroed
  BY <1>2 DEF GetFresh, OpenReveal
<1>3. ASSUME NEW s \in SessionIds, GetStale(s) \/ Lock(s)
      PROVE  sess'[g].dek = Zeroed
  BY <1>3 DEF GetStale, Lock, Wiped
<1>4. CASE Tick
  BY <1>4 DEF Tick, Aged
<1>5. CASE UNCHANGED sess
  BY <1>5
<1> QED
  BY <1>1, <1>2, <1>3, <1>4, <1>5 DEF StoreNext

LEMMA StoreInvariant == StoreSpec => []StoreInv
<1>1. StoreInit => StoreInv
  BY StoreInitType DEF StoreInit, StoreInv, KeyOnlyWhileLive, Unused
<1> QED
  BY <1>1, StoreStepKeepsInv, StoreTypeCorrect, PTL DEF StoreSpec

-------------------------------------------------------------------------------
\* The gates that one unit of time lowers.
Closing == {g \in SessionIds : Live(g) /\ sess[g].reveal = 1}

\* Every store operation is a step of the access gate, or leaves it as it was.
LEMMA StoreStepIsGateStep ==
    ASSUME StoreInv, StoreTypeOK', KeyOnlyWhileLive', [StoreNext]_sess
    PROVE  [Gate!GateNext]_(Gate!gateVars)
<1> DEFINE lv == [g \in SessionIds |-> GateLevel(g)]
           ky == [g \in SessionIds |-> sess[g].dek]
<1> USE DEF StoreInv, StoreTypeOK, Session, GateLevel, Live, RevealOpen, Gate!IsOpen
<1> SUFFICES Gate!GateNext \/ UNCHANGED <<lv, ky>>
  BY DEF Gate!gateVars
<1>1. ASSUME NEW s \in SessionIds, NEW u \in Accounts, NEW r \in Roles,
             NEW k \in DekBytes, Create(s, u, r, k)
      PROVE  Gate!Unlock(s, k)
  <2>1. \A g \in SessionIds \ {s} : sess'[g] = sess[g]
    BY <1>1 DEF Create
  <2>2. /\ sess[s].state = "unused"
        /\ sess'[s].state = "live" /\ sess'[s].reveal = 0 /\ sess'[s].dek = k
    BY <1>1 DEF Create
  <2>3. lv[s] = "absent" /\ lv' = [lv EXCEPT ![s] = "open"]
    <3>1. \A g \in SessionIds \ {s} : GateLevel(g)' = GateLevel(g)
      BY <2>1
    <3>2. GateLevel(s) = "absent" /\ GateLevel(s)' = "open"
      BY <2>2
    <3> QED
      BY <3>1, <3>2
  <2>4. ky' = [ky EXCEPT ![s] = k]
    BY <2>1, <2>2
  <2> QED
    BY <2>3, <2>4 DEF Gate!Unlock
<1>2. ASSUME NEW s \in SessionIds, GetFresh(s)
      PROVE  UNCHANGED <<lv, ky>>
  <2>1. \A g \in SessionIds : /\ sess'[g].state = sess[g].state
                              /\ sess'[g].dek = sess[g].dek
                              /\ sess'[g].reveal = sess[g].reveal
    BY <1>2 DEF GetFresh
  <2> QED
    BY <2>1
<1>3. ASSUME NEW s \in SessionIds, Live(s), sess' = Wiped(s)
      PROVE  Gate!Close({s})
  BY <1>3 DEF Wiped, Gate!Close
<1>4. ASSUME NEW s \in SessionIds, OpenReveal(s)
      PROVE  Gate!Raise(s) \/ UNCHANGED <<lv, ky>>
  <2>1. CASE Live(s) /\ RevealTTL > 0
    <3>1. \A g \in SessionIds : /\ sess'[g].state = sess[g].state
                                /\ sess'[g].dek = sess[g].dek
                                /\ sess'[g].reveal = IF g = s THEN RevealTTL ELSE sess[g].reveal
      BY <1>4, <2>1 DEF OpenReveal
    <3>2. lv[s] \in {"open", "revealing"}
      BY <2>1
    <3>3. lv' = [lv EXCEPT ![s] = "revealing"]
      BY <2>1, <3>1, StoreAssumption
    <3>4. ky' = ky
      BY <3>1
    <3> QED
      BY <3>2, <3>3, <3>4 DEF Gate!Raise
  <2>2. CASE ~(Live(s) /\ RevealTTL > 0)
    <3>1. \A g \in SessionIds : /\ sess'[g].state = sess[g].state
                                /\ sess'[g].dek = sess[g].dek
                                /\ sess'[g].reveal = sess[g].reveal
      BY <1>4, <2>2, StoreAssumption DEF OpenReveal
    <3> QED
      BY <3>1
  <2> QED
    BY <2>1, <2>2
<1>5. ASSUME Tick
      PROVE  Gate!Lower(Closing) \/ UNCHANGED <<lv, ky>>
  <2>1. \A g \in SessionIds :
           /\ sess'[g].state = sess[g].state
           /\ sess'[g].dek = sess[g].dek
           /\ Live(g) => sess'[g].reveal = IF sess[g].reveal > 0 THEN sess[g].reveal - 1 ELSE 0
    BY <1>5 DEF Tick, Aged
  <2>2. \A g \in SessionIds : ky'[g] = ky[g]
    BY <2>1
  <2>3. \A g \in SessionIds : lv'[g] = IF g \in Closing THEN "open" ELSE lv[g]
    BY <2>1, StoreAssumption DEF Closing
  <2>4. CASE Closing = {}
    BY <2>2, <2>3, <2>4
  <2>5. CASE Closing # {}
    <3>1. \A g \in Closing : g \in SessionIds /\ lv[g] = "revealing"
      BY DEF Closing
    <3> QED
      BY <2>2, <2>3, <2>5, <3>1 DEF Gate!Lower
  <2> QED
    BY <2>4, <2>5
<1>6. Closing \in SUBSET SessionIds
  BY DEF Closing
<1>7. CASE UNCHANGED sess
  BY <1>7
<1>8. CASE StoreNext
  <2> USE DEF Gate!GateNext
  <2>1. ASSUME NEW s \in SessionIds, GetStale(s) \/ Lock(s)
        PROVE  Gate!GateNext \/ UNCHANGED <<lv, ky>>
    <3>1. (Live(s) /\ sess' = Wiped(s)) \/ sess' = sess
      BY <2>1 DEF GetStale, Lock
    <3> QED
      BY <3>1, <1>3, <1>7
  <2>2. ASSUME NEW s \in SessionIds, OpenReveal(s)
        PROVE  Gate!GateNext \/ UNCHANGED <<lv, ky>>
    BY <2>2, <1>4
  <2>3. ASSUME NEW s \in SessionIds, NEW u \in Accounts, NEW r \in Roles,
               NEW k \in DekBytes, Create(s, u, r, k)
        PROVE  Gate!GateNext
    BY <2>3, <1>1
  <2>4. CASE Tick
    <3>1. CASE Gate!Lower(Closing)
      <4> HIDE DEF lv, ky, Closing
      <4>1. \E S \in SUBSET SessionIds : Gate!Lower(S)
        BY <3>1, <1>6 DEF Gate!Lower
      <4> QED
        BY <4>1
    <3> QED
      BY <2>4, <1>5, <3>1
  <2> HIDE DEF Gate!GateNext, lv, ky
  <2> QED
    BY <1>2, <1>8, <2>1, <2>2, <2>3, <2>4 DEF StoreNext
<1> QED
  BY <1>7, <1>8

\* The session table implements one access gate per session.
THEOREM StoreImplementsGate == StoreSpec => ImplementsGate
<1>1. StoreInit => Gate!GateInit
  BY DEF StoreInit, Gate!GateInit, GateLevel, Unused, RevealOpen, Live
<1>2. StoreInv /\ StoreInv' /\ [StoreNext]_sess => [Gate!GateNext]_(Gate!gateVars)
  BY StoreStepIsGateStep DEF StoreInv
<1> QED
  BY <1>1, <1>2, StoreInvariant, PTL DEF StoreSpec, ImplementsGate, Gate!GateSpec
===============================================================================
