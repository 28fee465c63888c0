----------------------------- MODULE OneShotTicket -----------------------------
(***************************************************************************)
(* What the preview of a restore promises, with no passwords, no threads   *)
(* and no database.  A preview issues a ticket for one payload to one      *)
(* holder.  The holder can take it, once, while it has not expired; what   *)
(* was taken is applied at most once; and a ticket taken, refused or       *)
(* expired is never good again.                                            *)
(***************************************************************************)
CONSTANTS Tickets,  \* the tokens ever handed out
          Holders,  \* the sessions that ask for them
          Payloads, \* what a backup can contain
          NoTicket  \* holder and payload of a token not handed out yet

VARIABLES ticket    \* ticket[k]: its phase, its holder and its payload

TicketPhases == {"absent", "issued", "expired", "taken", "applied", "void"}

TicketInit == ticket = [k \in Tickets |->
                 [phase |-> "absent", holder |-> NoTicket, payload |-> NoTicket]]

Enters(k, phase) == ticket' = [ticket EXCEPT ![k].phase = phase]

\* Some holder is given ticket k, for some payload.
Issue(k) == /\ ticket[k].phase = "absent"
            /\ ticket'[k] \in [phase : {"issued"}, holder : Holders, payload : Payloads]
            /\ ticket' = [ticket EXCEPT ![k] = ticket'[k]]

\* Time runs out for any number of tickets at once.
Expire(S) == /\ \A k \in S : ticket[k].phase = "issued"
             /\ ticket' = [k \in Tickets |-> IF k \in S
                             THEN [ticket[k] EXCEPT !.phase = "expired"] ELSE ticket[k]]

Take(k, h) == /\ ticket[k].phase = "issued" /\ ticket[k].holder = h
              /\ Enters(k, "taken")

Apply(k) == ticket[k].phase = "taken" /\ Enters(k, "applied")

\* Tickets presented too late or by somebody else, whose payload cannot be applied, or
\* forgotten, all of S at once.
Refuse(S) == /\ \A k \in S : ticket[k].phase \in {"issued", "expired", "taken"}
             /\ ticket' = [k \in Tickets |-> IF k \in S
                             THEN [ticket[k] EXCEPT !.phase = "void"] ELSE ticket[k]]

TicketNext == \/ \E k \in Tickets : \/ Issue(k) \/ Apply(k)
                                    \/ \E h \in Holders : Take(k, h)
              \/ \E S \in SUBSET Tickets : Expire(S) \/ Refuse(S)

TicketSpec == TicketInit /\ [][TicketNext]_ticket
===============================================================================
