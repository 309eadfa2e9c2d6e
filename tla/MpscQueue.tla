----------------------------- MODULE MpscQueue -----------------------------
(***************************************************************************)
(* The bounded multi-producer single-consumer ring of                      *)
(* coroutine/mpsc_queue.hpp: mailboxes of actors and the external queues   *)
(* of the thread pool.  Every slot carries a sequence number; a slot is    *)
(* free for position pos when it equals pos, and holds the item of         *)
(* position pos when it equals pos + 1.  Each atomic access is one step;   *)
(* the item itself is written and read by plain accesses.                  *)
(***************************************************************************)
EXTENDS Integers, Sequences

CONSTANTS
    Producers,
    Capacity,       \* a power of two in the code, so that & kMask is % Capacity
    MaxItems,       \* bound: try_push() calls per producer
    Nil             \* a moved-from slot

Items == Producers \X (1..MaxItems)

ASSUME MpscAssumption ==
    /\ Capacity \in Nat /\ Capacity >= 2    \* as the class static_asserts
    /\ MaxItems \in Nat
    /\ Nil \notin Items

VARIABLES
    sequence, data,     \* the slots of m_buffer
    enqueuePos,         \* m_enqueue_pos
    dequeuePos,         \* m_dequeue_pos, the consumer's
    pc, pos, calls,     \* producer: pc and local pos of emplace(), calls made
    hand,               \* consumer: the item moved out of its slot, or Nil
    freed,              \* consumer: slot given back, m_dequeue_pos not yet moved
    seen, size          \* observer: approximate_size() between its loads

slotVars == <<sequence, data>>
producerVars == <<pc, pos, calls>>
consumerVars == <<dequeuePos, hand, freed>>
vars == <<slotVars, enqueuePos, producerVars, consumerVars, seen, size>>

Slots == 0..(Capacity - 1)
Slot(p) == p % Capacity
NotSeen == -1

Init ==
    /\ sequence = [i \in Slots |-> i]
    /\ data = [i \in Slots |-> Nil]
    /\ enqueuePos = 0 /\ dequeuePos = 0
    /\ pc = [p \in Producers |-> "idle"]
    /\ pos = [p \in Producers |-> 0]
    /\ calls = [p \in Producers |-> 0]
    /\ hand = Nil /\ freed = FALSE
    /\ seen = NotSeen /\ size = 0

ItemOf(p) == <<p, calls[p]>>
Goto(p, label) == pc' = [pc EXCEPT ![p] = label]

-----------------------------------------------------------------------------
(* emplace()                                                                *)

TryPush(p) ==
    /\ pc[p] = "idle" /\ calls[p] < MaxItems
    /\ calls' = [calls EXCEPT ![p] = @ + 1]
    /\ Goto(p, "load")
    /\ UNCHANGED <<slotVars, enqueuePos, pos, consumerVars, seen, size>>

\* pos = m_enqueue_pos.load(): on entry, and again when the slot of pos has
\* been used by somebody else.
LoadPos(p) ==
    /\ pc[p] = "load"
    /\ pos' = [pos EXCEPT ![p] = enqueuePos]
    /\ Goto(p, "check")
    /\ UNCHANGED <<slotVars, enqueuePos, calls, consumerVars, seen, size>>

Dif(p) == sequence[Slot(pos[p])] - pos[p]

CheckFree(p) ==
    /\ pc[p] = "check" /\ Dif(p) = 0
    /\ Goto(p, "cas")
    /\ UNCHANGED <<slotVars, enqueuePos, pos, calls, consumerVars, seen, size>>

\* Mutant of CheckUsed: pos is not reloaded.
KeepStalePos(p) ==
    /\ pc[p] = "check" /\ Dif(p) > 0
    /\ UNCHANGED vars

CheckUsed(p) ==
    /\ pc[p] = "check" /\ Dif(p) > 0
    /\ Goto(p, "load")
    /\ UNCHANGED <<slotVars, enqueuePos, pos, calls, consumerVars, seen, size>>

\* Mutant of CheckFull: contention is reported as full.
ContendedIsFull(p) ==
    /\ pc[p] = "check" /\ Dif(p) # 0
    /\ Goto(p, "idle")
    /\ UNCHANGED <<slotVars, enqueuePos, pos, calls, consumerVars, seen, size>>

\* try_push() returns false and leaves the item with its caller.
CheckFull(p) ==
    /\ pc[p] = "check" /\ Dif(p) < 0
    /\ Goto(p, "idle")
    /\ UNCHANGED <<slotVars, enqueuePos, pos, calls, consumerVars, seen, size>>

\* Mutants of CasWin: a store instead of the CAS, and a slot published before
\* its item is written.
ClaimWithoutCas(p) ==
    /\ pc[p] = "cas"
    /\ enqueuePos' = pos[p] + 1
    /\ Goto(p, "write")
    /\ UNCHANGED <<slotVars, pos, calls, consumerVars, seen, size>>

ClaimAndPublish(p) ==
    /\ pc[p] = "cas" /\ enqueuePos = pos[p]
    /\ enqueuePos' = pos[p] + 1
    /\ sequence' = [sequence EXCEPT ![Slot(pos[p])] = pos[p] + 1]
    /\ Goto(p, "write")
    /\ UNCHANGED <<data, pos, calls, consumerVars, seen, size>>

CasWin(p) ==
    /\ pc[p] = "cas" /\ enqueuePos = pos[p]
    /\ enqueuePos' = pos[p] + 1
    /\ Goto(p, "write")
    /\ UNCHANGED <<slotVars, pos, calls, consumerVars, seen, size>>

\* compare_exchange_weak fails, possibly spuriously, and reloads pos.
CasFail(p) ==
    /\ pc[p] = "cas"
    /\ pos' = [pos EXCEPT ![p] = enqueuePos]
    /\ Goto(p, "check")
    /\ UNCHANGED <<slotVars, enqueuePos, calls, consumerVars, seen, size>>

WriteData(p) ==
    /\ pc[p] = "write"
    /\ data' = [data EXCEPT ![Slot(pos[p])] = ItemOf(p)]
    /\ Goto(p, "publish")
    /\ UNCHANGED <<sequence, enqueuePos, pos, calls, consumerVars, seen, size>>

PublishSlot(p) ==
    /\ pc[p] = "publish"
    /\ sequence' = [sequence EXCEPT ![Slot(pos[p])] = pos[p] + 1]
    /\ Goto(p, "idle")
    /\ UNCHANGED <<data, enqueuePos, pos, calls, consumerVars, seen, size>>

-----------------------------------------------------------------------------
(* try_pop() of the one consumer; a pop that finds nothing changes nothing.  *)

PopTake ==
    /\ hand = Nil /\ ~freed
    /\ sequence[Slot(dequeuePos)] = dequeuePos + 1
    /\ hand' = data[Slot(dequeuePos)]
    /\ data' = [data EXCEPT ![Slot(dequeuePos)] = Nil]
    /\ UNCHANGED <<sequence, enqueuePos, producerVars, dequeuePos, freed, seen,
                   size>>

\* From here on a producer may take the slot.
PopRelease ==
    /\ hand # Nil
    /\ sequence' = [sequence EXCEPT ![Slot(dequeuePos)] = dequeuePos + Capacity]
    /\ hand' = Nil /\ freed' = TRUE
    /\ UNCHANGED <<data, enqueuePos, producerVars, dequeuePos, seen, size>>

PopAdvance ==
    /\ freed
    /\ dequeuePos' = dequeuePos + 1
    /\ freed' = FALSE
    /\ UNCHANGED <<slotVars, enqueuePos, producerVars, hand, seen, size>>

-----------------------------------------------------------------------------
(* approximate_size(), called from any thread: two loads in this order.     *)

SizeLoadEnqueue ==
    /\ seen = NotSeen
    /\ seen' = enqueuePos
    /\ UNCHANGED <<slotVars, enqueuePos, producerVars, consumerVars, size>>

SizeLoadDequeue ==
    /\ seen # NotSeen
    /\ size' = IF seen >= dequeuePos THEN seen - dequeuePos ELSE 0
    /\ seen' = NotSeen
    /\ UNCHANGED <<slotVars, enqueuePos, producerVars, consumerVars>>

\* Mutant of ApproximateSize: the loads in the other order.
SizeLoadsSwapped ==
    /\ \/ seen = NotSeen /\ seen' = dequeuePos /\ UNCHANGED size
       \/ /\ seen # NotSeen /\ seen' = NotSeen
          /\ size' = IF enqueuePos >= seen THEN enqueuePos - seen ELSE 0
    /\ UNCHANGED <<slotVars, enqueuePos, producerVars, consumerVars>>

ApproximateSize == SizeLoadEnqueue \/ SizeLoadDequeue

-----------------------------------------------------------------------------
EmplaceStep(p) ==
    \/ LoadPos(p) \/ CheckFree(p) \/ CheckUsed(p) \/ CheckFull(p)
    \/ CasWin(p) \/ CasFail(p) \/ WriteData(p) \/ PublishSlot(p)

Next ==
    \/ \E p \in Producers : TryPush(p) \/ EmplaceStep(p)
    \/ PopTake \/ PopRelease \/ PopAdvance
    \/ ApproximateSize

Spec == Init /\ [][Next]_vars

\* Threads keep running, and a weak CAS does not fail spuriously for ever.
\* The consumer may stop polling.
FairSpec ==
    /\ Spec
    /\ \A p \in Producers : WF_vars(EmplaceStep(p)) /\ SF_vars(CasWin(p))

-----------------------------------------------------------------------------
TypeOK ==
    /\ sequence \in [Slots -> Nat]
    /\ data \in [Slots -> Items \cup {Nil}]
    /\ enqueuePos \in Nat /\ dequeuePos \in Nat
    /\ pc \in [Producers -> {"idle", "load", "check", "cas", "write", "publish"}]
    /\ pos \in [Producers -> Nat]
    /\ calls \in [Producers -> 0..MaxItems]
    /\ hand \in Items \cup {Nil} /\ freed \in BOOLEAN
    /\ seen \in Nat \cup {NotSeen} /\ size \in Nat

\* p has won the CAS for position pos[p] and has not published it.
Owns(p) == pc[p] \in {"write", "publish"}

\* The plain accesses to slot.data never race: a slot is written by at most
\* one producer, and never while the consumer moves the item out of it.
NoDataRace ==
    \A p \in Producers : Owns(p) =>
        /\ sequence[Slot(pos[p])] = pos[p]
        /\ \A q \in Producers \ {p} : Owns(q) => Slot(pos[q]) # Slot(pos[p])
        /\ hand # Nil => Slot(dequeuePos) # Slot(pos[p])

\* The position of the oldest item that try_pop() has not given back.
HeadPos == IF freed THEN dequeuePos + 1 ELSE dequeuePos

\* approximate_size() is off by at most one item above the number of slots,
\* although its two loads are not atomic and try_pop() gives a slot back before
\* it moves m_dequeue_pos.
SizeIsBounded == size <= Capacity + 1

\* try_push() reports "full" only when all slots are taken at that moment.
FullMeansFull ==
    [][\A p \in Producers : pc[p] = "check" /\ pc'[p] = "idle" =>
        enqueuePos - HeadPos = Capacity]_vars

\* The comment on emplace(): a producer never spins on a stale pos; every
\* try_push() returns.
EmplaceReturns == \A p \in Producers : pc[p] = "load" ~> pc[p] = "idle"

-----------------------------------------------------------------------------
(* Refinement: positions HeadPos .. enqueuePos-1 are the tickets.           *)

OwnerOf(i) == {p \in Producers : Owns(p) /\ pos[p] = i}

TicketAt(i) ==
    IF i = dequeuePos /\ hand # Nil THEN [msg |-> hand, ready |-> TRUE]
    ELSE IF sequence[Slot(i)] = i + 1
         THEN [msg |-> data[Slot(i)], ready |-> TRUE]
         ELSE [msg |-> ItemOf(CHOOSE p \in OwnerOf(i) : TRUE), ready |-> FALSE]

Tickets == [k \in 1..(enqueuePos - HeadPos) |-> TicketAt(HeadPos + k - 1)]

TQ == INSTANCE TicketQueue WITH Msgs <- Items, tickets <- Tickets

\* The ring behaves as a FIFO of Capacity tickets: nothing is lost, duplicated,
\* reordered or overwritten, and an unpublished ticket is never popped.
ImplementsTicketQueue == TQ!QueueSpec
=============================================================================
