----------------------------- MODULE TicketQueue -----------------------------
(***************************************************************************)
(* What a channel promises its users, independent of how the ring does it. *)
(*                                                                         *)
(* A sender first takes a ticket, which fixes the place of its item in the *)
(* queue, and later makes the ticket ready.  Only the oldest ticket can be *)
(* received, and only once it is ready: a later ticket that became ready   *)
(* first waits its turn (the "transient empty" the channel documents).  At *)
(* most Cap tickets are outstanding.  A receiver is told that the stream   *)
(* has ended only when every sender has finished and nothing is left.      *)
(***************************************************************************)
EXTENDS Naturals, Sequences

CONSTANTS Senders, Receivers, Cap

VARIABLES
  tickets,    \* outstanding items, oldest first: [item, ready]
  sent,       \* sent[p]: how many items p has taken tickets for
  finished,   \* the senders that will send no more
  delivered,  \* delivered[c]: the items c received, in order
  ended       \* the receivers that were told the stream has ended

qvars == <<tickets, sent, finished, delivered, ended>>

QInit ==
  /\ tickets = << >>
  /\ sent = [p \in Senders |-> 0]
  /\ finished = {}
  /\ delivered = [c \in Receivers |-> << >>]
  /\ ended = {}

HasOpenTicket(p) ==
  \E i \in DOMAIN tickets : tickets[i].item[1] = p /\ ~tickets[i].ready

TakeTicket(p) ==
  /\ Len(tickets) < Cap
  /\ p \notin finished
  /\ ~HasOpenTicket(p)
  /\ tickets' = Append(tickets, [item |-> <<p, sent[p] + 1>>, ready |-> FALSE])
  /\ sent' = [sent EXCEPT ![p] = @ + 1]
  /\ UNCHANGED <<finished, delivered, ended>>

MakeReady(p) ==
  /\ \E i \in DOMAIN tickets :
       /\ tickets[i].item[1] = p
       /\ ~tickets[i].ready
       /\ tickets' = [tickets EXCEPT ![i].ready = TRUE]
  /\ UNCHANGED <<sent, finished, delivered, ended>>

Receive(c) ==
  /\ tickets # << >>
  /\ Head(tickets).ready
  /\ c \notin ended
  /\ tickets' = Tail(tickets)
  /\ delivered' = [delivered EXCEPT ![c] = Append(@, Head(tickets).item)]
  /\ UNCHANGED <<sent, finished, ended>>

Finish(p) ==
  /\ p \notin finished
  /\ ~HasOpenTicket(p)
  /\ finished' = finished \union {p}
  /\ UNCHANGED <<tickets, sent, delivered, ended>>

EndOfStream(c) ==
  /\ finished = Senders
  /\ tickets = << >>
  /\ ended' = ended \union {c}
  /\ UNCHANGED <<tickets, sent, finished, delivered>>

QNext ==
  \/ \E p \in Senders : TakeTicket(p) \/ MakeReady(p) \/ Finish(p)
  \/ \E c \in Receivers : Receive(c) \/ EndOfStream(c)

QSpec == QInit /\ [][QNext]_qvars
==============================================================================
