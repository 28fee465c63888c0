------------------------------ MODULE AccessGate ------------------------------
(***************************************************************************)
(* What a browser session promises, with no clock, no cookie and no table  *)
(* of sessions.  A gate is opened once, with the key it carries; while it  *)
(* is open a password prompt raises it to "revealing" and time lowers it   *)
(* again; and once it is closed it carries no key and never opens again.   *)
(* SessionStore implements this (its theorem and its runs say how).        *)
(***************************************************************************)
CONSTANTS Gates,     \* the session identifiers ever handed out
          KeyValues, \* the data keys a gate can carry
          NoKey      \* what is left of a key that was overwritten

VARIABLES level,     \* level[g] \in {"absent", "open", "revealing", "closed"}
          carried    \* carried[g]: the key usable through g

gateVars == <<level, carried>>

IsOpen(g) == level[g] \in {"open", "revealing"}

GateInit == /\ level = [g \in Gates |-> "absent"]
            /\ carried = [g \in Gates |-> NoKey]

\* A fresh gate is unlocked with a key, and is not yet revealing.
Unlock(g, k) == /\ level[g] = "absent"
                /\ level' = [level EXCEPT ![g] = "open"]
                /\ carried' = [carried EXCEPT ![g] = k]

\* Only an open gate can be raised, and its key stays the same.
Raise(g) == /\ IsOpen(g)
            /\ level' = [level EXCEPT ![g] = "revealing"]
            /\ UNCHANGED carried

\* Time lowers any number of revealing gates at once.
Lower(S) == /\ S # {}
            /\ \A g \in S : level[g] = "revealing"
            /\ level' = [g \in Gates |-> IF g \in S THEN "open" ELSE level[g]]
            /\ UNCHANGED carried

\* Gates close with the destruction of their keys, one alone or (the process
\* dying) several together.
Close(S) == /\ S # {}
            /\ \A g \in S : IsOpen(g)
            /\ level' = [g \in Gates |-> IF g \in S THEN "closed" ELSE level[g]]
            /\ carried' = [g \in Gates |-> IF g \in S THEN NoKey ELSE carried[g]]

GateNext == \/ \E g \in Gates, k \in KeyValues : Unlock(g, k)
            \/ \E g \in Gates : Raise(g)
            \/ \E S \in SUBSET Gates : Lower(S) \/ Close(S)

GateSpec == GateInit /\ [][GateNext]_gateVars
===============================================================================
