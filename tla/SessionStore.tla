----------------------------- MODULE SessionStore -----------------------------
(***************************************************************************)
(* The in-memory session table of the Go server                            *)
(* (internal/sessions/sessions.go).  Every operation runs under the        *)
(* store's mutex, so each is one step.  Get hands out a pointer: a request *)
(* that holds it keeps reading sess[s] after s has left the table, which   *)
(* is why a wiped session keeps its record here.                           *)
(*                                                                         *)
(* Times are kept as distances from now: idle is the time since LastSeen,  *)
(* reveal what is left until RevealUntil.  idle stops counting one past    *)
(* IdleLimit, because the code only asks whether it is above the limit.    *)
(***************************************************************************)
EXTENDS Integers

CONSTANTS SessionIds,  \* the random identifiers Create will draw
          Accounts,    \* user names
          Roles,       \* roles a session can carry
          Keys,        \* data keys (DEKs) that exist
          Zeroed,      \* a DEK buffer overwritten, wholly or in part
          Nobody,      \* the account and role of an unused identifier
          IdleLimit,   \* IDLE_LOCK_MINUTES, in ticks
          RevealTTL    \* REVEAL_TTL, in ticks

ASSUME StoreAssumption == /\ IdleLimit \in Nat
                          /\ RevealTTL \in Nat
                          /\ Zeroed \notin Keys

VARIABLE sess          \* sess[s]: the Session object, and whether it is in the table

DekBytes == Keys \cup {Zeroed}

Session == [state  : {"unused", "live", "wiped"},
            user   : Accounts \cup {Nobody},
            role   : Roles \cup {Nobody},
            dek    : DekBytes,
            idle   : 0 .. (IdleLimit + 1),
            reveal : 0 .. RevealTTL]

Unused == [state |-> "unused", user |-> Nobody, role |-> Nobody,
           dek |-> Zeroed, idle |-> 0, reveal |-> 0]

Live(s) == sess[s].state = "live"

StoreInit == sess = [s \in SessionIds |-> Unused]

\* Create: a fresh identifier, a private copy of the DEK.
Create(s, u, r, k) ==
    /\ sess[s].state = "unused"
    /\ sess' = [sess EXCEPT ![s] = [state |-> "live", user |-> u, role |-> r,
                                    dek |-> k, idle |-> 0, reveal |-> 0]]

\* Mutant of Wiped: the entry is deleted, its key left in memory.
WipedNotZeroed(s) == [sess EXCEPT ![s].state = "wiped"]

\* wipeLocked: the DEK is overwritten in place, then the entry is deleted.  The times of an
\* object outside the table are never read again and do not count.
Wiped(s) == [sess EXCEPT ![s] = [@ EXCEPT !.dek = Zeroed, !.state = "wiped",
                                          !.idle = 0, !.reveal = 0]]

\* Get on a session within the limit: LastSeen becomes now.
GetFresh(s) == /\ Live(s)
               /\ sess[s].idle <= IdleLimit
               /\ sess' = [sess EXCEPT ![s].idle = 0]

\* Get on a session past the limit: it is wiped, and the caller gets nil.
GetStale(s) == /\ Live(s)
               /\ sess[s].idle > IdleLimit
               /\ sess' = Wiped(s)

\* Lock: wipe whatever is there; an entry already gone is left alone.
Lock(s) == sess' = IF Live(s) THEN Wiped(s) ELSE sess

\* Mutant of OpenReveal: a copy of the session is stored back under its identifier.
OpenRevealStoringBack(s) == sess' = [sess EXCEPT ![s].reveal = RevealTTL, ![s].state = "live"]

\* OpenReveal: only on an entry still in the table, stale or not.
OpenReveal(s) == sess' = IF Live(s) THEN [sess EXCEPT ![s].reveal = RevealTTL] ELSE sess

RevealOpen(s) == Live(s) /\ sess[s].reveal > 0

\* One unit of time passes for every session at once.
Aged(x) == [x EXCEPT !.idle = IF @ > IdleLimit THEN @ ELSE @ + 1,
                     !.reveal = IF @ > 0 THEN @ - 1 ELSE 0]
Tick == sess' = [s \in SessionIds |-> IF Live(s) THEN Aged(sess[s]) ELSE sess[s]]

\* The store on its own, driven by any sequence of calls.
StoreNext == \/ \E s \in SessionIds :
                   \/ \E u \in Accounts, r \in Roles, k \in DekBytes : Create(s, u, r, k)
                   \/ GetFresh(s) \/ GetStale(s) \/ Lock(s) \/ OpenReveal(s)
             \/ Tick

StoreSpec == StoreInit /\ [][StoreNext]_sess

\* The clock keeps running; nothing obliges a client to call again.
TimedStoreSpec == StoreSpec /\ WF_sess(Tick)

StoreTypeOK == sess \in [SessionIds -> Session]

(***************************************************************************)
(* Refinement: the gate of a session is open while the table holds it, and *)
(* revealing while RevealOpen would say so.                                *)
(***************************************************************************)
GateLevel(s) == CASE sess[s].state = "unused" -> "absent"
                  [] sess[s].state = "wiped"  -> "closed"
                  [] RevealOpen(s)            -> "revealing"
                  [] OTHER                    -> "open"

Gate == INSTANCE AccessGate WITH Gates <- SessionIds, KeyValues <- DekBytes,
            NoKey <- Zeroed, level <- [s \in SessionIds |-> GateLevel(s)],
            carried <- [s \in SessionIds |-> sess[s].dek]

\* The table behaves as one access gate per session: a key is usable exactly from
\* Create to the wipe, and a wiped identifier never comes back.
ImplementsGate == Gate!GateSpec

\* What SECURITY.md says of auto-lock: a session left alone past the idle limit
\* has its key wiped from memory.  The code wipes only when Get is called.
AbandonedSessionsWiped ==
    \A s \in SessionIds :
        (Live(s) /\ sess[s].idle > IdleLimit) ~> (sess[s].dek = Zeroed)
===============================================================================
