---------------------------- MODULE TicketQueue ----------------------------
(***************************************************************************)
(* What the bounded multi-producer single-consumer queue promises to its   *)
(* users (coroutine/mpsc_queue.hpp): a FIFO of at most Capacity tickets.   *)
(* A producer draws a ticket (its place in the order), later publishes it; *)
(* the consumer takes the oldest ticket, and only once it is published.    *)
(* An unpublished ticket at the head hides the published ones behind it.   *)
(*                                                                         *)
(* MpscQueue.tla is shown to implement this specification; the mailbox of  *)
(* an actor (ActorMailbox.tla) is built on it.                             *)
(***************************************************************************)
EXTENDS Naturals, Sequences

CONSTANTS
    Msgs,       \* what can be queued
    Capacity    \* number of slots (4096 for a mailbox)

ASSUME CapacityAssumption == Capacity \in Nat \ {0}

VARIABLE tickets    \* oldest first: [msg |-> .., ready |-> published?]

Ticket == [msg : Msgs, ready : BOOLEAN]

QueueInit == tickets = <<>>

Full == Len(tickets) >= Capacity

HeadReady == tickets # <<>> /\ tickets[1].ready

\* emplace() wins the CAS on m_enqueue_pos: m owns the next position.
Claim(m) ==
    /\ ~Full
    /\ tickets' = Append(tickets, [msg |-> m, ready |-> FALSE])

\* emplace() stores the item, then the slot's sequence with release order.
PublishAt(i) ==
    /\ ~tickets[i].ready
    /\ tickets' = [tickets EXCEPT ![i] = [msg |-> @.msg, ready |-> TRUE]]

Publish(m) == \E i \in DOMAIN tickets : tickets[i].msg = m /\ PublishAt(i)

\* try_pop() succeeds.
Pop ==
    /\ HeadReady
    /\ tickets' = Tail(tickets)

QueueNext ==
    \/ \E m \in Msgs : Claim(m)
    \/ \E i \in DOMAIN tickets : PublishAt(i)
    \/ Pop

QueueSpec == QueueInit /\ [][QueueNext]_tickets
=============================================================================
