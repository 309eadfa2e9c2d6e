-------------------------- MODULE MpscQueueProofs --------------------------
(***************************************************************************)
(* Proofs about MpscQueue, for any producers and any capacity of two slots *)
(* or more.  One slot is not enough: the sequence number that publishes    *)
(* position pos is then the one that frees its slot for pos + 1, which     *)
(* breaks StaleInv, and the class refuses it.                              *)
(***************************************************************************)
EXTENDS MpscQueue, SequenceTheorems, TLAPS

Taken == HeadPos..(enqueuePos - 1)              \* positions with a ticket
Free == enqueuePos..(HeadPos + Capacity - 1)    \* positions a producer may claim

\* The ring holds at most Capacity tickets.
PosInv == HeadPos <= enqueuePos /\ enqueuePos <= HeadPos + Capacity

FreeInv == \A i \in Free : sequence[Slot(i)] = i

\* A taken position is published, or its owner is about to do so.
TakenInv == \A i \in Taken :
    \/ sequence[Slot(i)] = i + 1
    \/ sequence[Slot(i)] = i /\ \E p \in Producers : Owns(p) /\ pos[p] = i

\* The CAS gives a position to one producer.
OwnInv == \A p \in Producers : Owns(p) =>
    /\ pos[p] \in Taken /\ sequence[Slot(pos[p])] = pos[p]
    /\ \A q \in Producers : Owns(q) /\ pos[q] = pos[p] => q = p

\* The item is in its slot from before the position is published until the
\* consumer has moved it out.
DataInv ==
    /\ \A p \in Producers : /\ pc[p] # "idle" => calls[p] >= 1
                            /\ pc[p] = "publish" => data[Slot(pos[p])] = ItemOf(p)
    /\ \A i \in Taken : sequence[Slot(i)] = i + 1 /\ (i = dequeuePos => hand = Nil)
                        => data[Slot(i)] \in Items

\* The consumer holds the item of a position that is published and not given back.
HandInv == hand # Nil =>
    ~freed /\ dequeuePos \in Taken /\ sequence[Slot(dequeuePos)] = dequeuePos + 1

\* A producer that found its slot free either has a stale pos, and its CAS will
\* fail, or there still is room.
StaleInv == \A p \in Producers : pc[p] \in {"check", "cas"} =>
    /\ pos[p] <= enqueuePos
    /\ pc[p] = "cas" /\ pos[p] = enqueuePos => enqueuePos \in Free

SeenInv == seen # NotSeen => seen <= enqueuePos

RingInv == PosInv /\ FreeInv /\ TakenInv /\ OwnInv /\ DataInv /\ HandInv

IInv == TypeOK /\ RingInv /\ StaleInv /\ SeenInv /\ SizeIsBounded

-----------------------------------------------------------------------------
(* Slot(), that is & kMask.                                                 *)

\* A position is a multiple of Capacity plus its slot ...
LEMMA SlotDivision ==
    \A i \in Nat : /\ i = Capacity * (i \div Capacity) + Slot(i)
                   /\ (i \div Capacity) \in Nat
                   /\ Slot(i) \in Slots
  BY MpscAssumption DEF Slot, Slots

\* ... and the slot is determined by that.
LEMMA SlotOfSum ==
    ASSUME NEW q \in Nat, NEW r \in Slots
    PROVE  Slot(Capacity * q + r) = r
  BY MpscAssumption DEF Slot, Slots

\* Multiples of Capacity are Capacity apart.
LEMMA Multiples ==
    ASSUME NEW x \in Nat, NEW y \in Nat, x < y
    PROVE  Capacity * x + Capacity <= Capacity * y
  BY MpscAssumption

\* A position and the one a lap later share a slot.
LEMMA SlotOfNextLap == \A i \in Nat : Slot(i + Capacity) = Slot(i)
  <1> TAKE i \in Nat
  <1> DEFINE q == i \div Capacity
  <1>1. i = Capacity * q + Slot(i) /\ q \in Nat /\ Slot(i) \in Slots
    BY SlotDivision
  <1>2. i + Capacity = Capacity * (q + 1) + Slot(i) /\ q + 1 \in Nat
    BY <1>1, MpscAssumption DEF Slots
  <1> HIDE DEF q
  <1> QED
    BY <1>1, <1>2, SlotOfSum

\* Positions less than a lap apart have different slots.
LEMMA SlotsInOrder ==
    ASSUME NEW i \in Nat, NEW j \in Nat, i < j, j < i + Capacity
    PROVE  Slot(i) # Slot(j)
  <1> DEFINE q == i \div Capacity
             r == j \div Capacity
  <1>1. i = Capacity * q + Slot(i) /\ q \in Nat /\ Slot(i) \in Slots
    BY SlotDivision
  <1>2. j = Capacity * r + Slot(j) /\ r \in Nat /\ Slot(j) \in Slots
    BY SlotDivision
  <1> HIDE DEF q, r
  <1>3. Capacity * q \in Nat /\ Capacity * r \in Nat
    BY <1>1, <1>2, MpscAssumption
  <1>4. CASE q < r
    <2>1. Capacity * q + Capacity <= Capacity * r
      BY <1>1, <1>2, <1>4, Multiples
    <2> QED
      BY <1>1, <1>2, <1>3, <2>1, MpscAssumption DEF Slots
  <1>5. CASE q = r
    BY <1>1, <1>2, <1>5, MpscAssumption DEF Slots
  <1>6. CASE r < q
    <2>1. Capacity * r + Capacity <= Capacity * q
      BY <1>1, <1>2, <1>6, Multiples
    <2> QED
      BY <1>1, <1>2, <1>3, <2>1, MpscAssumption DEF Slots
  <1> QED
    BY <1>1, <1>2, <1>4, <1>5, <1>6

\* The same without an order.
LEMMA SlotsDiffer ==
    ASSUME NEW i \in Nat, NEW j \in Nat, i # j, i < j + Capacity, j < i + Capacity
    PROVE  Slot(i) # Slot(j)
  <1>1. CASE i < j
    BY <1>1, SlotsInOrder
  <1>2. CASE j < i
    BY <1>2, SlotsInOrder
  <1> QED
    BY <1>1, <1>2

\* Every slot belongs to one of the Capacity positions from h on.
LEMMA SlotsCovered ==
    ASSUME NEW h \in Nat, NEW s \in Slots
    PROVE  \E i \in h..(h + Capacity - 1) : Slot(i) = s
  <1> DEFINE q == h \div Capacity
  <1>1. h = Capacity * q + Slot(h) /\ q \in Nat /\ Slot(h) \in Slots
    BY SlotDivision
  <1>2. Slot(Capacity * q + s) = s /\ Slot(Capacity * (q + 1) + s) = s
    BY <1>1, SlotOfSum
  <1>3. Capacity * q \in Nat /\ Capacity * (q + 1) = Capacity * q + Capacity
    BY <1>1, MpscAssumption
  <1> HIDE DEF q
  <1>4. CASE Slot(h) <= s
    BY <1>1, <1>2, <1>3, <1>4, MpscAssumption DEF Slots
  <1>5. CASE s < Slot(h)
    BY <1>1, <1>2, <1>3, <1>5, MpscAssumption DEF Slots
  <1> QED
    BY <1>1, <1>4, <1>5 DEF Slots

-----------------------------------------------------------------------------
(* Type correctness and the invariant.                                      *)

\* Positions are numbers.
LEMMA HeadPosType == TypeOK => HeadPos \in Nat
  BY DEF TypeOK, HeadPos

\* Nobody has pushed and every slot is free for its first position.
LEMMA InitIInv == Init => IInv
  <1> SUFFICES ASSUME Init PROVE IInv
    OBVIOUS
  <1>1. TypeOK
    <2>1. sequence \in [Slots -> Nat] /\ data \in [Slots -> Items \cup {Nil}]
      BY MpscAssumption DEF Init, Slots
    <2>2. /\ pc \in [Producers -> {"idle", "load", "check", "cas", "write", "publish"}]
          /\ pos \in [Producers -> Nat]
          /\ calls \in [Producers -> 0..MaxItems]
      BY MpscAssumption DEF Init
    <2>3. /\ enqueuePos \in Nat /\ dequeuePos \in Nat
          /\ hand \in Items \cup {Nil} /\ freed \in BOOLEAN
          /\ seen \in Nat \cup {NotSeen} /\ size \in Nat
      BY DEF Init
    <2> QED
      BY <2>1, <2>2, <2>3 DEF TypeOK
  <1>2. HeadPos = 0 /\ enqueuePos = 0
    BY DEF Init, HeadPos
  <1>3. \A i \in Slots : Slot(i) = i
    BY MpscAssumption DEF Slot, Slots
  <1>4. PosInv /\ FreeInv /\ TakenInv
    BY <1>2, <1>3, MpscAssumption DEF Init, PosInv, FreeInv, Free, TakenInv, Taken, Slots
  <1>5. \A p \in Producers : pc[p] = "idle" /\ ~Owns(p)
    BY DEF Init, Owns
  <1>6. OwnInv /\ StaleInv
    BY <1>5 DEF OwnInv, StaleInv
  <1>7. DataInv
    BY <1>2, <1>5 DEF DataInv, Taken
  <1>8. HandInv /\ SeenInv /\ SizeIsBounded
    BY MpscAssumption DEF Init, HandInv, SeenInv, SizeIsBounded
  <1> QED
    BY <1>1, <1>4, <1>6, <1>7, <1>8 DEF IInv, RingInv

\* A step of a producer keeps the types.
LEMMA ProducerType ==
    ASSUME TypeOK, DataInv, NEW p \in Producers, TryPush(p) \/ EmplaceStep(p)
    PROVE  TypeOK'
  <1> USE DEF TypeOK, slotVars, consumerVars, Goto
  <1>1. CASE TryPush(p)
    BY <1>1, MpscAssumption DEF TryPush
  <1>2. CASE LoadPos(p)
    BY <1>2 DEF LoadPos
  <1>3. CASE CheckFree(p) \/ CheckUsed(p) \/ CheckFull(p)
    BY <1>3 DEF CheckFree, CheckUsed, CheckFull
  <1>4. CASE CasWin(p)
    BY <1>4 DEF CasWin
  <1>5. CASE CasFail(p)
    BY <1>5 DEF CasFail
  <1>6. CASE WriteData(p)
    <2>1. calls[p] \in 1..MaxItems
      BY <1>6, MpscAssumption DEF WriteData, DataInv
    <2>2. ItemOf(p) \in Items
      BY <2>1 DEF ItemOf, Items
    <2> QED
      BY <1>6, <2>2 DEF WriteData
  <1>7. CASE PublishSlot(p)
    BY <1>7, SlotDivision DEF PublishSlot
  <1> QED
    BY <1>1, <1>2, <1>3, <1>4, <1>5, <1>6, <1>7 DEF EmplaceStep

\* A step that touches neither the ring nor a claim on it.
LEMMA QuietStep ==
    ASSUME TypeOK, RingInv,
           UNCHANGED <<sequence, data, enqueuePos, dequeuePos, hand, freed>>,
           \A p \in Producers : /\ pc'[p] = "publish" <=> pc[p] = "publish"
                                /\ Owns(p)' <=> Owns(p)
                                /\ Owns(p) => pos'[p] = pos[p] /\ calls'[p] = calls[p]
                                /\ pc'[p] # "idle" => calls'[p] >= 1
    PROVE  RingInv'
  <1>1. HeadPos' = HeadPos /\ Taken' = Taken /\ Free' = Free
    BY DEF HeadPos, Taken, Free
  <1>2. PosInv' /\ FreeInv' /\ HandInv'
    BY <1>1 DEF RingInv, PosInv, FreeInv, HandInv
  <1>3. TakenInv' /\ OwnInv'
    BY <1>1 DEF RingInv, TakenInv, OwnInv
  <1>4. DataInv'
    BY <1>1 DEF RingInv, DataInv, Owns, ItemOf
  <1> QED
    BY <1>2, <1>3, <1>4 DEF RingInv

\* The steps of emplace() before the CAS succeeds, and try_push() itself.
LEMMA LookingRing ==
    ASSUME TypeOK, RingInv, NEW p \in Producers,
           \/ TryPush(p) \/ LoadPos(p) \/ CheckFree(p) \/ CheckUsed(p) \/ CheckFull(p)
           \/ CasFail(p)
    PROVE  RingInv'
  <1>1. UNCHANGED <<sequence, data, enqueuePos, dequeuePos, hand, freed>>
    BY DEF TryPush, LoadPos, CheckFree, CheckUsed, CheckFull, CasFail, slotVars,
           consumerVars
  <1>2. /\ ~Owns(p) /\ ~Owns(p)'
        /\ pc'[p] # "publish" /\ (pc'[p] # "idle" => calls'[p] >= 1)
        /\ \A q \in Producers : q # p =>
              pc'[q] = pc[q] /\ pos'[q] = pos[q] /\ calls'[q] = calls[q]
    BY DEF TryPush, LoadPos, CheckFree, CheckUsed, CheckFull, CasFail, Goto, Owns,
           TypeOK, RingInv, DataInv
  <1>3. \A q \in Producers : /\ pc'[q] = "publish" <=> pc[q] = "publish"
                             /\ Owns(q)' <=> Owns(q)
                             /\ Owns(q) => pos'[q] = pos[q] /\ calls'[q] = calls[q]
                             /\ pc'[q] # "idle" => calls'[q] >= 1
    BY <1>2 DEF Owns, RingInv, DataInv
  <1> QED
    BY <1>1, <1>3, QuietStep

\* The CAS succeeds: position enqueuePos, whose slot is free, becomes taken.
LEMMA CasWinRing ==
    ASSUME TypeOK, RingInv, StaleInv, NEW p \in Producers, CasWin(p)
    PROVE  RingInv'
  <1>1. /\ UNCHANGED <<sequence, data, dequeuePos, hand, freed, pos, calls>>
        /\ enqueuePos' = enqueuePos + 1
        /\ pos[p] = enqueuePos /\ enqueuePos \in Free
    BY DEF CasWin, slotVars, consumerVars, StaleInv, TypeOK
  <1>2. /\ pc[p] = "cas" /\ pc'[p] = "write"
        /\ \A q \in Producers : q # p => pc'[q] = pc[q]
    BY DEF CasWin, Goto, TypeOK
  <1>3. HeadPos \in Nat /\ HeadPos' = HeadPos
    BY <1>1, HeadPosType DEF HeadPos
  <1>4. /\ Taken' = Taken \cup {enqueuePos}
        /\ Free' = Free \ {enqueuePos}
        /\ enqueuePos \notin Taken
    BY <1>1, <1>3, MpscAssumption DEF TypeOK, Taken, Free, RingInv, PosInv
  <1>5. /\ ~Owns(p) /\ Owns(p)'
        /\ \A q \in Producers : q # p => (Owns(q)' <=> Owns(q))
    BY <1>2 DEF Owns
  <1>6. PosInv' /\ FreeInv'
    BY <1>1, <1>3, <1>4, MpscAssumption DEF TypeOK, RingInv, PosInv, FreeInv, Free
  <1>7. TakenInv'
    BY <1>1, <1>4, <1>5 DEF RingInv, TakenInv, FreeInv
  <1>8. OwnInv'
    BY <1>1, <1>4, <1>5 DEF RingInv, OwnInv, FreeInv
  <1>9. DataInv'
    <2>1. sequence[Slot(enqueuePos)] = enqueuePos
      BY <1>1 DEF RingInv, FreeInv
    <2> QED
      BY <1>1, <1>2, <1>4, <2>1 DEF TypeOK, RingInv, DataInv, ItemOf
  <1>10. HandInv'
    BY <1>1, <1>4 DEF RingInv, HandInv
  <1> QED
    BY <1>6, <1>7, <1>8, <1>9, <1>10 DEF RingInv

\* The owner writes its item: no other claim and no item is in that slot.
LEMMA WriteDataRing ==
    ASSUME TypeOK, RingInv, NEW p \in Producers, WriteData(p)
    PROVE  RingInv'
  <1>1. /\ UNCHANGED <<sequence, enqueuePos, dequeuePos, hand, freed, pos, calls>>
        /\ data' = [data EXCEPT ![Slot(pos[p])] = ItemOf(p)]
    BY DEF WriteData, consumerVars
  <1>2. /\ pc[p] = "write" /\ pc'[p] = "publish"
        /\ \A q \in Producers : q # p => pc'[q] = pc[q]
    BY DEF WriteData, Goto, TypeOK
  <1>3. HeadPos' = HeadPos /\ Taken' = Taken /\ Free' = Free /\ HeadPos \in Nat
    BY <1>1, HeadPosType DEF HeadPos, Taken, Free
  <1>4. \A q \in Producers : Owns(q)' <=> Owns(q)
    BY <1>2 DEF Owns
  <1>5. PosInv' /\ FreeInv' /\ TakenInv' /\ OwnInv' /\ HandInv'
    BY <1>1, <1>3, <1>4 DEF RingInv, PosInv, FreeInv, TakenInv, OwnInv, HandInv
  <1>6. pos[p] \in Taken /\ Owns(p) /\ sequence[Slot(pos[p])] = pos[p] /\ pos[p] \in Nat
    BY <1>2 DEF RingInv, OwnInv, Owns, TypeOK
  <1>7. \A i \in Taken : i # pos[p] => Slot(i) # Slot(pos[p])
    BY <1>3, <1>6, SlotsDiffer, MpscAssumption DEF TypeOK, Taken, RingInv, PosInv
  <1>8. data'[Slot(pos[p])] = ItemOf(p)
        /\ \A i \in Taken : i # pos[p] => data'[Slot(i)] = data[Slot(i)]
    BY <1>1, <1>6, <1>7, SlotDivision DEF TypeOK
  <1>9. DataInv'
    <2>1. \A q \in Producers : pc'[q] = "publish" => data'[Slot(pos[q])] = ItemOf(q)
      BY <1>2, <1>6, <1>8 DEF RingInv, DataInv, OwnInv, Owns
    <2>2. \A i \in Taken : sequence[Slot(i)] = i + 1 => i # pos[p]
      BY <1>6 DEF TypeOK
    <2> QED
      BY <1>1, <1>2, <1>3, <1>8, <2>1, <2>2 DEF RingInv, DataInv, ItemOf
  <1> QED
    BY <1>5, <1>9 DEF RingInv

\* The owner publishes its position.
LEMMA PublishRing ==
    ASSUME TypeOK, RingInv, NEW p \in Producers, PublishSlot(p)
    PROVE  RingInv'
  <1>1. /\ UNCHANGED <<data, enqueuePos, dequeuePos, hand, freed, pos, calls>>
        /\ sequence' = [sequence EXCEPT ![Slot(pos[p])] = pos[p] + 1]
    BY DEF PublishSlot, consumerVars
  <1>2. /\ pc[p] = "publish" /\ pc'[p] = "idle"
        /\ \A q \in Producers : q # p => pc'[q] = pc[q]
    BY DEF PublishSlot, Goto, TypeOK
  <1>3. HeadPos' = HeadPos /\ Taken' = Taken /\ Free' = Free /\ HeadPos \in Nat
    BY <1>1, HeadPosType DEF HeadPos, Taken, Free
  <1>4. Owns(p) /\ ~Owns(p)' /\ \A q \in Producers : q # p => (Owns(q)' <=> Owns(q))
    BY <1>2 DEF Owns
  <1>5. pos[p] \in Taken /\ sequence[Slot(pos[p])] = pos[p] /\ pos[p] \in Nat
    BY <1>4 DEF RingInv, OwnInv, TypeOK
  <1>6. \A i \in Taken \cup Free : i # pos[p] => Slot(i) # Slot(pos[p])
    BY <1>3, <1>5, SlotsDiffer, MpscAssumption DEF TypeOK, Taken, Free, RingInv, PosInv
  <1>7. /\ sequence'[Slot(pos[p])] = pos[p] + 1
        /\ \A i \in Taken \cup Free : i # pos[p] => sequence'[Slot(i)] = sequence[Slot(i)]
    <2>1. \A i \in Taken \cup Free : Slot(i) \in Slots
      BY <1>3, SlotDivision DEF TypeOK, Taken, Free
    <2> QED
      BY <1>1, <1>5, <1>6, <2>1 DEF TypeOK
  <1>8. PosInv' /\ FreeInv'
    <2>1. pos[p] \notin Free
      BY <1>3, <1>5 DEF TypeOK, Taken, Free
    <2> QED
      BY <1>1, <1>3, <1>7, <2>1 DEF RingInv, PosInv, FreeInv
  <1>9. TakenInv'
    BY <1>1, <1>3, <1>4, <1>7 DEF RingInv, TakenInv
  <1>10. OwnInv'
    BY <1>1, <1>3, <1>4, <1>7 DEF RingInv, OwnInv
  <1>11. DataInv'
    <2>1. data[Slot(pos[p])] \in Items
      <3>1. calls[p] \in 1..MaxItems /\ data[Slot(pos[p])] = ItemOf(p)
        BY <1>2, MpscAssumption DEF RingInv, DataInv, TypeOK
      <3> QED
        BY <3>1 DEF ItemOf, Items
    <2> QED
      BY <1>1, <1>2, <1>3, <1>7, <2>1 DEF RingInv, DataInv, ItemOf
  <1>12. HandInv'
    <2>1. hand # Nil => dequeuePos # pos[p]
      BY <1>5 DEF RingInv, HandInv, TypeOK
    <2> QED
      BY <1>1, <1>3, <1>7, <2>1 DEF RingInv, HandInv
  <1> QED
    BY <1>8, <1>9, <1>10, <1>11, <1>12 DEF RingInv

\* What try_pop() finds published is a ticket, with its item.
LEMMA PopTakeFacts ==
    ASSUME TypeOK, RingInv, PopTake
    PROVE  /\ HeadPos = dequeuePos /\ dequeuePos \in Taken
           /\ data[Slot(dequeuePos)] \in Items /\ hand' # Nil
           /\ \A i \in Taken : i # dequeuePos => Slot(i) # Slot(dequeuePos)
  <1>1. /\ hand = Nil /\ ~freed /\ hand' = data[Slot(dequeuePos)]
        /\ sequence[Slot(dequeuePos)] = dequeuePos + 1
    BY DEF PopTake
  <1>2. HeadPos = dequeuePos /\ HeadPos \in Nat
    BY <1>1, HeadPosType DEF HeadPos
  <1>3. dequeuePos \in Taken
    BY <1>1, <1>2, MpscAssumption DEF TypeOK, RingInv, PosInv, FreeInv, Free, Taken
  <1>4. data[Slot(dequeuePos)] \in Items
    BY <1>1, <1>3 DEF RingInv, DataInv
  <1>5. \A i \in Taken : i # dequeuePos => Slot(i) # Slot(dequeuePos)
    BY <1>2, <1>3, SlotsDiffer, MpscAssumption DEF TypeOK, Taken, RingInv, PosInv
  <1> QED
    BY <1>1, <1>2, <1>3, <1>4, <1>5, MpscAssumption

\* try_pop() moves the item out.
LEMMA PopTakeRing ==
    ASSUME TypeOK, RingInv, PopTake
    PROVE  RingInv'
  <1>1. /\ UNCHANGED <<sequence, enqueuePos, pc, pos, calls, dequeuePos, freed>>
        /\ data' = [data EXCEPT ![Slot(dequeuePos)] = Nil]
        /\ ~freed /\ sequence[Slot(dequeuePos)] = dequeuePos + 1
    BY DEF PopTake, producerVars
  <1>2. HeadPos' = HeadPos /\ Taken' = Taken /\ Free' = Free
    BY <1>1 DEF HeadPos, Taken, Free
  <1>3. \A q \in Producers : Owns(q)' <=> Owns(q)
    BY <1>1 DEF Owns
  <1>4. PosInv' /\ FreeInv' /\ TakenInv' /\ OwnInv' /\ HandInv'
    BY <1>1, <1>2, <1>3, PopTakeFacts
       DEF RingInv, PosInv, FreeInv, TakenInv, OwnInv, HandInv
  <1>5. \A i \in Taken : i # dequeuePos => data'[Slot(i)] = data[Slot(i)]
    <2>1. \A i \in Taken : Slot(i) \in Slots
      BY SlotDivision, HeadPosType DEF TypeOK, Taken
    <2> QED
      BY <1>1, <2>1, PopTakeFacts DEF TypeOK
  <1>6. \A q \in Producers : Owns(q) => pos[q] \in Taken /\ pos[q] # dequeuePos
    BY <1>1 DEF RingInv, OwnInv, TypeOK
  <1>7. DataInv'
    BY <1>1, <1>2, <1>5, <1>6, PopTakeFacts DEF RingInv, DataInv, Owns, ItemOf
  <1> QED
    BY <1>4, <1>7 DEF RingInv

\* try_pop() gives the slot back, for the position a lap later.
LEMMA PopReleaseRing ==
    ASSUME TypeOK, RingInv, PopRelease
    PROVE  RingInv' /\ HeadPos' = HeadPos + 1
  <1>1. /\ UNCHANGED <<data, enqueuePos, pc, pos, calls, dequeuePos>>
        /\ sequence' = [sequence EXCEPT ![Slot(dequeuePos)] = dequeuePos + Capacity]
        /\ hand' = Nil /\ freed' = TRUE
    BY DEF PopRelease, producerVars
  <1>2. ~freed /\ dequeuePos \in Taken /\ sequence[Slot(dequeuePos)] = dequeuePos + 1
    BY DEF PopRelease, RingInv, HandInv
  <1>3. HeadPos = dequeuePos /\ HeadPos' = dequeuePos + 1 /\ dequeuePos \in Nat
    BY <1>1, <1>2 DEF HeadPos, TypeOK
  <1>4. /\ Taken' = Taken \ {dequeuePos}
        /\ Free' = Free \cup {dequeuePos + Capacity}
        /\ Slot(dequeuePos + Capacity) = Slot(dequeuePos)
    <2>1. enqueuePos \in Nat /\ dequeuePos < enqueuePos
          /\ enqueuePos <= dequeuePos + Capacity
      BY <1>2, <1>3 DEF TypeOK, Taken, RingInv, PosInv
    <2>2. Taken' = Taken \ {dequeuePos}
      BY <1>1, <1>3, <2>1 DEF Taken
    <2>3. Free' = Free \cup {dequeuePos + Capacity}
      BY <1>1, <1>3, <2>1, MpscAssumption DEF Free
    <2> QED
      BY <1>3, <2>2, <2>3, SlotOfNextLap
  <1>5. \A i \in Taken \cup Free : i # dequeuePos => Slot(i) # Slot(dequeuePos)
    BY <1>2, <1>3, SlotsDiffer, MpscAssumption DEF TypeOK, Taken, Free, RingInv, PosInv
  <1>6. /\ sequence'[Slot(dequeuePos)] = dequeuePos + Capacity
        /\ \A i \in Taken \cup Free :
              i # dequeuePos => sequence'[Slot(i)] = sequence[Slot(i)]
    <2>1. \A i \in Taken \cup Free : Slot(i) \in Slots
      BY <1>3, SlotDivision DEF TypeOK, Taken, Free
    <2> QED
      BY <1>1, <1>2, <1>5, <2>1 DEF TypeOK
  <1>7. \A q \in Producers : /\ Owns(q)' <=> Owns(q)
                             /\ Owns(q) => pos[q] \in Taken /\ pos[q] # dequeuePos
    BY <1>1, <1>2 DEF RingInv, OwnInv, TypeOK, Owns
  <1>8. PosInv'
    BY <1>1, <1>2, <1>3, MpscAssumption DEF TypeOK, RingInv, PosInv, Taken
  <1>9. FreeInv'
    <2>1. dequeuePos \notin Free
      BY <1>2, <1>3 DEF Taken, Free, TypeOK
    <2> QED
      BY <1>4, <1>6, <2>1 DEF RingInv, FreeInv
  <1>10. TakenInv' /\ OwnInv'
    BY <1>1, <1>4, <1>6, <1>7 DEF RingInv, TakenInv, OwnInv
  <1>11. DataInv'
    BY <1>1, <1>4, <1>6, <1>7 DEF RingInv, DataInv, Owns, ItemOf
  <1>12. HandInv'
    BY <1>1 DEF HandInv
  <1> QED
    BY <1>3, <1>8, <1>9, <1>10, <1>11, <1>12 DEF RingInv

\* m_dequeue_pos follows; the oldest ticket stays the same.
LEMMA PopAdvanceRing ==
    ASSUME TypeOK, RingInv, PopAdvance
    PROVE  RingInv' /\ HeadPos' = HeadPos
  <1>1. /\ UNCHANGED <<sequence, data, enqueuePos, pc, pos, calls, hand>>
        /\ freed /\ freed' = FALSE /\ dequeuePos' = dequeuePos + 1
    BY DEF PopAdvance, slotVars, producerVars
  <1>2. HeadPos' = HeadPos /\ Taken' = Taken /\ Free' = Free
    BY <1>1 DEF HeadPos, Taken, Free
  <1>3. hand = Nil
    BY <1>1 DEF RingInv, HandInv
  <1>4. \A q \in Producers : Owns(q)' <=> Owns(q)
    BY <1>1 DEF Owns
  <1>5. PosInv' /\ FreeInv' /\ TakenInv' /\ OwnInv' /\ HandInv'
    BY <1>1, <1>2, <1>3, <1>4 DEF RingInv, PosInv, FreeInv, TakenInv, OwnInv, HandInv
  <1>6. DataInv'
    BY <1>1, <1>2, <1>3, <1>4 DEF RingInv, DataInv, Owns, ItemOf
  <1> QED
    BY <1>2, <1>5, <1>6 DEF RingInv

\* A slot is never behind the oldest ticket.
LEMMA SlotsAreCurrent ==
    ASSUME TypeOK, RingInv
    PROVE  \A i \in Nat : sequence[Slot(i)] >= HeadPos
  <1> SUFFICES ASSUME NEW i \in Nat PROVE sequence[Slot(i)] >= HeadPos
    OBVIOUS
  <1>1. HeadPos \in Nat /\ Slot(i) \in Slots
    BY HeadPosType, SlotDivision
  <1>2. PICK j \in HeadPos..(HeadPos + Capacity - 1) : Slot(j) = Slot(i)
    BY <1>1, SlotsCovered
  <1>3. j \in Taken \cup Free
    BY <1>1, <1>2, MpscAssumption DEF TypeOK, Taken, Free, RingInv, PosInv
  <1>4. sequence[Slot(j)] = j \/ sequence[Slot(j)] = j + 1
    BY <1>3 DEF RingInv, FreeInv, TakenInv
  <1> QED
    BY <1>1, <1>2, <1>4, MpscAssumption

\* A producer that finds the slot of its pos free, and whose pos is not stale, has
\* room; one that finds it used in the last lap sees a full ring.
LEMMA DifFacts ==
    ASSUME TypeOK, RingInv, StaleInv, NEW p \in Producers, pc[p] = "check"
    PROVE  /\ Dif(p) = 0 /\ pos[p] = enqueuePos => enqueuePos \in Free
           /\ Dif(p) < 0 => enqueuePos = HeadPos + Capacity
  <1>1. /\ pos[p] \in Nat /\ pos[p] <= enqueuePos /\ HeadPos \in Nat
        /\ enqueuePos \in Nat /\ Slot(pos[p]) \in Slots
    BY HeadPosType, SlotDivision DEF StaleInv, TypeOK
  <1>2. sequence[Slot(pos[p])] \in Nat
    BY <1>1 DEF TypeOK
  <1>3. ASSUME enqueuePos = HeadPos + Capacity
        PROVE  sequence[Slot(enqueuePos)] # enqueuePos
    <2>1. HeadPos \in Taken /\ Slot(enqueuePos) = Slot(HeadPos)
      BY <1>1, <1>3, SlotOfNextLap, MpscAssumption DEF Taken
    <2>2. sequence[Slot(HeadPos)] <= HeadPos + 1
      BY <1>1, <2>1 DEF RingInv, TakenInv
    <2> QED
      BY <1>1, <1>3, <2>1, <2>2, MpscAssumption
  <1>4. ASSUME Dif(p) = 0, pos[p] = enqueuePos PROVE enqueuePos \in Free
    <2>1. enqueuePos # HeadPos + Capacity
      BY <1>1, <1>2, <1>3, <1>4 DEF Dif
    <2> QED
      BY <1>1, <2>1, MpscAssumption DEF Free, RingInv, PosInv
  <1>5. ASSUME Dif(p) < 0 PROVE enqueuePos = HeadPos + Capacity
    <2>1. sequence[Slot(pos[p])] < pos[p]
      BY <1>1, <1>2, <1>5 DEF Dif
    <2>2. pos[p] \notin Taken /\ pos[p] \notin Free
      BY <1>1, <2>1 DEF RingInv, TakenInv, FreeInv
    <2>3. sequence[Slot(pos[p])] >= HeadPos
      BY <1>1, SlotsAreCurrent
    <2> QED
      BY <1>1, <1>2, <2>1, <2>2, <2>3, MpscAssumption DEF Taken, Free, RingInv, PosInv
  <1> QED
    BY <1>4, <1>5

\* Every step of a producer preserves the invariant.
LEMMA ProducerIInv ==
    ASSUME IInv, NEW p \in Producers, TryPush(p) \/ EmplaceStep(p)
    PROVE  IInv'
  <1> USE DEF slotVars, consumerVars
  <1>1. TypeOK'
    BY ProducerType DEF IInv, RingInv
  <1>2. RingInv'
    BY LookingRing, CasWinRing, WriteDataRing, PublishRing DEF IInv, EmplaceStep
  <1>3. /\ UNCHANGED <<dequeuePos, freed, seen, size>>
        /\ CasWin(p) => enqueuePos' = enqueuePos + 1
        /\ ~CasWin(p) => enqueuePos' = enqueuePos
    <2>1. CASE CasWin(p)
      BY <2>1 DEF CasWin
    <2>2. CASE ~CasWin(p)
      BY <2>2 DEF TryPush, EmplaceStep, LoadPos, CheckFree, CheckUsed, CheckFull,
                  CasFail, WriteData, PublishSlot
    <2> QED
      BY <2>1, <2>2
  <1>4. HeadPos' = HeadPos /\ enqueuePos \in Nat /\ HeadPos \in Nat
    BY <1>3, HeadPosType DEF HeadPos, IInv, TypeOK
  <1>5. StaleInv'
    <2>1. ASSUME NEW q \in Producers, q # p PROVE pc'[q] = pc[q] /\ pos'[q] = pos[q]
      BY <2>1 DEF IInv, TypeOK, TryPush, EmplaceStep, LoadPos, CheckFree, CheckUsed,
                  CheckFull, CasWin, CasFail, WriteData, PublishSlot, Goto
    <2>2. CASE CasWin(p)
      <3>1. pc'[p] = "write" /\ pos' = pos /\ enqueuePos' = enqueuePos + 1
        BY <2>2 DEF CasWin, Goto, IInv, TypeOK
      <3>2. \A q \in Producers : pos[q] \in Nat
        BY DEF IInv, TypeOK
      <3> QED
        BY <1>4, <2>1, <3>1, <3>2 DEF IInv, StaleInv
    <2>3. CASE ~CasWin(p)
      <3>1. enqueuePos' = enqueuePos /\ Free' = Free
        BY <1>3, <1>4, <2>3 DEF Free
      <3>2. pc'[p] = "check" => pos'[p] = enqueuePos
        BY <2>3 DEF IInv, TypeOK, TryPush, EmplaceStep, LoadPos, CheckFree, CheckUsed,
                    CheckFull, CasFail, WriteData, PublishSlot, Goto
      <3>3. pc'[p] = "cas" => pc[p] = "check" /\ Dif(p) = 0 /\ pos'[p] = pos[p]
        BY <2>3 DEF IInv, TypeOK, TryPush, EmplaceStep, LoadPos, CheckFree, CheckUsed,
                    CheckFull, CasFail, WriteData, PublishSlot, Goto
      <3>4. pc'[p] = "cas" => /\ pos'[p] <= enqueuePos
                              /\ pos'[p] = enqueuePos => enqueuePos \in Free
        BY <3>3, DifFacts DEF IInv, StaleInv
      <3>5. \A q \in Producers \ {p} : pc'[q] \in {"check", "cas"} =>
                /\ pos'[q] <= enqueuePos
                /\ pc'[q] = "cas" /\ pos'[q] = enqueuePos => enqueuePos \in Free
        BY <2>1 DEF IInv, StaleInv
      <3> QED
        BY <1>4, <3>1, <3>2, <3>4, <3>5 DEF StaleInv
    <2> QED
      BY <2>2, <2>3
  <1>6. SeenInv' /\ SizeIsBounded'
    BY <1>3, <1>4 DEF IInv, SeenInv, SizeIsBounded, TypeOK, NotSeen
  <1> QED
    BY <1>1, <1>2, <1>5, <1>6 DEF IInv

\* Every step of the consumer does.
LEMMA ConsumerIInv ==
    ASSUME IInv, PopTake \/ PopRelease \/ PopAdvance
    PROVE  IInv'
  <1> USE DEF slotVars, producerVars
  <1>1. TypeOK'
    <2>0. TypeOK
      BY DEF IInv
    <2> USE <2>0 DEF TypeOK
    <2>1. CASE PopTake
      <3>1. Slot(dequeuePos) \in Slots
        BY SlotDivision
      <3> QED
        BY <2>1, <3>1 DEF PopTake
    <2>2. CASE PopRelease
      <3>1. sequence' \in [Slots -> Nat]
        <4>1. dequeuePos + Capacity \in Nat
          BY MpscAssumption
        <4> QED
          BY <2>2, <4>1 DEF PopRelease
      <3>2. hand' \in Items \cup {Nil} /\ freed' \in BOOLEAN
        BY <2>2 DEF PopRelease
      <3>3. UNCHANGED <<data, enqueuePos, pc, pos, calls, dequeuePos, seen, size>>
        BY <2>2 DEF PopRelease
      <3> QED
        BY <3>1, <3>2, <3>3
    <2>3. CASE PopAdvance
      <3>1. dequeuePos' \in Nat
        BY <2>3 DEF PopAdvance
      <3>3. freed' \in BOOLEAN
        BY <2>3 DEF PopAdvance
      <3>2. UNCHANGED <<sequence, data, enqueuePos, pc, pos, calls, hand, seen, size>>
        BY <2>3 DEF PopAdvance
      <3> QED
        BY <3>1, <3>2, <3>3
    <2> QED
      BY <2>1, <2>2, <2>3
  <1>2. RingInv'
    BY PopTakeRing, PopReleaseRing, PopAdvanceRing DEF IInv
  <1>3. UNCHANGED <<enqueuePos, pc, pos, seen, size>>
    BY DEF PopTake, PopRelease, PopAdvance
  <1>4. HeadPos' \in {HeadPos, HeadPos + 1} /\ HeadPos \in Nat /\ enqueuePos \in Nat
    <2>1. CASE PopTake
      BY <2>1, HeadPosType DEF PopTake, HeadPos, IInv, TypeOK
    <2>2. CASE PopRelease \/ PopAdvance
      BY <2>2, HeadPosType, PopReleaseRing, PopAdvanceRing DEF IInv, TypeOK
    <2> QED
      BY <2>1, <2>2
  <1>5. enqueuePos \in Free => enqueuePos' \in Free'
    <2>1. CASE HeadPos' = HeadPos
      BY <1>3, <2>1 DEF Free
    <2>2. CASE HeadPos' = HeadPos + 1
      BY <1>3, <1>4, <2>2, MpscAssumption DEF Free
    <2> QED
      BY <1>4, <2>1, <2>2
  <1>6. StaleInv' /\ SeenInv' /\ SizeIsBounded'
    BY <1>3, <1>5 DEF IInv, StaleInv, SeenInv, SizeIsBounded
  <1> QED
    BY <1>1, <1>2, <1>6 DEF IInv

\* The two loads of approximate_size(): between them the ring only moves on.
LEMMA SizeIInv ==
    ASSUME IInv, ApproximateSize
    PROVE  IInv'
  <1>1. UNCHANGED <<sequence, data, enqueuePos, pc, pos, calls, dequeuePos, hand, freed>>
    BY DEF ApproximateSize, SizeLoadEnqueue, SizeLoadDequeue, slotVars, producerVars,
           consumerVars
  <1>2. seen' \in Nat \cup {NotSeen} /\ size' \in Nat
    BY DEF ApproximateSize, SizeLoadEnqueue, SizeLoadDequeue, IInv, TypeOK, NotSeen
  <1>3. TypeOK'
    BY <1>1, <1>2 DEF IInv, TypeOK
  <1>4. HeadPos' = HeadPos /\ Free' = Free
    BY <1>1 DEF HeadPos, Free
  <1>5. RingInv'
    <2>1. \A p \in Producers : Owns(p)' <=> Owns(p)
      BY <1>1 DEF Owns
    <2> QED
      BY <1>1, <2>1, QuietStep DEF IInv, RingInv, DataInv
  <1>6. StaleInv'
    BY <1>1, <1>4 DEF IInv, StaleInv
  <1>7. SeenInv'
    BY <1>1 DEF ApproximateSize, SizeLoadEnqueue, SizeLoadDequeue, IInv, TypeOK, SeenInv
  <1>8. SizeIsBounded'
    <2>1. CASE SizeLoadEnqueue
      BY <2>1 DEF SizeLoadEnqueue, IInv, SizeIsBounded
    <2>2. CASE SizeLoadDequeue
      <3>1. seen <= dequeuePos + 1 + Capacity
        BY <2>2, MpscAssumption
           DEF SizeLoadDequeue, IInv, TypeOK, SeenInv, RingInv, PosInv, HeadPos, NotSeen
      <3> QED
        BY <2>2, <3>1, MpscAssumption DEF SizeLoadDequeue, IInv, TypeOK, SizeIsBounded,
                                          NotSeen
    <2> QED
      BY <2>1, <2>2 DEF ApproximateSize
  <1> QED
    BY <1>3, <1>5, <1>6, <1>7, <1>8 DEF IInv

\* Every step preserves the invariant.
LEMMA StepIInv == IInv /\ [Next]_vars => IInv'
  <1> SUFFICES ASSUME IInv, [Next]_vars PROVE IInv'
    OBVIOUS
  <1>1. CASE Next
    BY <1>1, ProducerIInv, ConsumerIInv, SizeIInv DEF Next
  <1>2. CASE UNCHANGED vars
    <2>1. /\ UNCHANGED <<sequence, data, enqueuePos, pc, pos, calls, dequeuePos>>
          /\ UNCHANGED <<hand, freed, seen, size>>
      BY <1>2 DEF vars, slotVars, producerVars, consumerVars
    <2>2. HeadPos' = HeadPos /\ Free' = Free
      BY <2>1 DEF HeadPos, Free
    <2>3. TypeOK'
      BY <2>1 DEF IInv, TypeOK
    <2>4. RingInv'
      <3>1. \A p \in Producers : Owns(p)' <=> Owns(p)
        BY <2>1 DEF Owns
      <3> QED
        BY <2>1, <3>1, QuietStep DEF IInv, RingInv, DataInv
    <2>5. StaleInv' /\ SeenInv' /\ SizeIsBounded'
      BY <2>1, <2>2 DEF IInv, StaleInv, SeenInv, SizeIsBounded
    <2> QED
      BY <2>3, <2>4, <2>5 DEF IInv
  <1> QED
    BY <1>1, <1>2

\* The invariant holds in every state.
THEOREM InvariantHolds == Spec => []IInv
  BY InitIInv, StepIInv, PTL DEF Spec

\* No two threads ever touch slot.data of one slot at the same time.
THEOREM SlotsDoNotRace == Spec => []NoDataRace
  <1>1. IInv => NoDataRace
    <2> SUFFICES ASSUME IInv, NEW p \in Producers, Owns(p)
                 PROVE  /\ sequence[Slot(pos[p])] = pos[p]
                        /\ \A q \in Producers \ {p} : Owns(q) => Slot(pos[q]) # Slot(pos[p])
                        /\ hand # Nil => Slot(dequeuePos) # Slot(pos[p])
      BY DEF NoDataRace
    <2>1. HeadPos \in Nat /\ pos[p] \in Taken /\ sequence[Slot(pos[p])] = pos[p]
      BY HeadPosType DEF IInv, RingInv, OwnInv
    <2>2. \A i \in Taken : i # pos[p] => Slot(i) # Slot(pos[p])
      BY <2>1, SlotsDiffer, MpscAssumption DEF IInv, TypeOK, RingInv, PosInv, Taken
    <2>3. \A q \in Producers \ {p} : Owns(q) => pos[q] \in Taken /\ pos[q] # pos[p]
      BY DEF IInv, RingInv, OwnInv
    <2>4. hand # Nil => dequeuePos \in Taken /\ dequeuePos # pos[p]
      BY <2>1 DEF IInv, TypeOK, RingInv, HandInv
    <2> QED
      BY <2>1, <2>2, <2>3, <2>4
  <1> QED
    BY InvariantHolds, <1>1, PTL

\* approximate_size() never exceeds the number of slots by more than one.
THEOREM SizeHasItsBound == Spec => []SizeIsBounded
  <1>1. IInv => SizeIsBounded
    BY DEF IInv
  <1> QED
    BY InvariantHolds, <1>1, PTL

\* try_push() reports "full" only when all slots are taken at that moment, however
\* stale the position it looked at.
THEOREM FullIsFull == Spec => FullMeansFull
  <1> DEFINE A == \A p \in Producers : pc[p] = "check" /\ pc'[p] = "idle" =>
                                          enqueuePos - HeadPos = Capacity
  <1>1. IInv /\ [Next]_vars => [A]_vars
    <2> SUFFICES ASSUME IInv, Next, NEW p \in Producers, pc[p] = "check", pc'[p] = "idle"
                 PROVE  enqueuePos - HeadPos = Capacity
      OBVIOUS
    <2>1. ~PopTake /\ ~PopRelease /\ ~PopAdvance /\ ~ApproximateSize
      BY DEF PopTake, PopRelease, PopAdvance, ApproximateSize, SizeLoadEnqueue,
             SizeLoadDequeue, producerVars
    <2>2. ASSUME NEW q \in Producers, TryPush(q) \/ EmplaceStep(q) PROVE q = p
      BY <2>2 DEF TryPush, EmplaceStep, LoadPos, CheckFree, CheckUsed, CheckFull, CasWin,
                  CasFail, WriteData, PublishSlot, Goto, IInv, TypeOK
    <2>3. CheckFull(p)
      <3>1. TryPush(p) \/ EmplaceStep(p)
        BY <2>1, <2>2 DEF Next
      <3> QED
        BY <3>1 DEF TryPush, EmplaceStep, LoadPos, CheckFree, CheckUsed, CasWin, CasFail,
                    WriteData, PublishSlot, Goto, IInv, TypeOK
    <2>4. enqueuePos = HeadPos + Capacity
      BY <2>3, DifFacts DEF CheckFull, IInv
    <2> QED
      BY <2>4, HeadPosType, MpscAssumption DEF IInv, TypeOK
  <1> QED
    BY InvariantHolds, <1>1, PTL DEF Spec, FullMeansFull

-----------------------------------------------------------------------------
(* The refinement of TicketQueue.                                           *)

\* The message of a published position.
Message(i) == IF i = dequeuePos /\ hand # Nil THEN hand ELSE data[Slot(i)]

\* What the invariant makes of the refinement mapping.
TicketView ==
    /\ \A i \in Taken : sequence[Slot(i)] = i + 1 =>
           TicketAt(i) = [msg |-> Message(i), ready |-> TRUE]
    /\ \A p \in Producers : Owns(p) =>
           ItemOf(p) \in Items /\ TicketAt(pos[p]) = [msg |-> ItemOf(p), ready |-> FALSE]
    /\ Tickets \in Seq(TQ!Ticket)
    /\ Len(Tickets) = enqueuePos - HeadPos
    /\ \A k \in 1..(enqueuePos - HeadPos) : Tickets[k] = TicketAt(HeadPos + k - 1)

\* The two kinds of ticket.
LEMMA TicketType ==
    \A m \in Items : /\ [msg |-> m, ready |-> TRUE] \in TQ!Ticket
                      /\ [msg |-> m, ready |-> FALSE] \in TQ!Ticket
  BY DEF TQ!Ticket

\* Published positions carry the item of their slot, or the one the consumer
\* holds, and unpublished ones that of their owner.
LEMMA TicketViewHolds == IInv => TicketView
  <1> SUFFICES ASSUME IInv PROVE TicketView
    OBVIOUS
  <1>1. HeadPos \in Nat /\ enqueuePos \in Nat /\ enqueuePos - HeadPos \in Nat
    BY HeadPosType DEF IInv, TypeOK, RingInv, PosInv
  <1>2. ASSUME NEW i \in Taken, sequence[Slot(i)] = i + 1
        PROVE  TicketAt(i) = [msg |-> Message(i), ready |-> TRUE] /\ Message(i) \in Items
    <2>1. TicketAt(i) = [msg |-> Message(i), ready |-> TRUE]
      BY <1>2 DEF TicketAt, Message
    <2>2. Message(i) \in Items
      BY <1>2 DEF Message, IInv, RingInv, DataInv, TypeOK
    <2> QED
      BY <2>1, <2>2
  <1>3. ASSUME NEW p \in Producers, Owns(p)
        PROVE  ItemOf(p) \in Items /\ TicketAt(pos[p]) = [msg |-> ItemOf(p), ready |-> FALSE]
    <2>1. pos[p] \in Taken /\ sequence[Slot(pos[p])] = pos[p] /\ pos[p] \in Nat
      BY <1>3 DEF IInv, RingInv, OwnInv, TypeOK
    <2>2. ~(pos[p] = dequeuePos /\ hand # Nil) /\ sequence[Slot(pos[p])] # pos[p] + 1
      BY <2>1 DEF IInv, RingInv, HandInv
    <2>3. OwnerOf(pos[p]) = {p}
      BY <1>3 DEF OwnerOf, IInv, RingInv, OwnInv
    <2>4. (CHOOSE q \in OwnerOf(pos[p]) : TRUE) = p
      BY <2>3
    <2>5. TicketAt(pos[p]) = [msg |-> ItemOf(p), ready |-> FALSE]
      BY <2>2, <2>4 DEF TicketAt
    <2>6. calls[p] \in 1..MaxItems
      BY <1>3, MpscAssumption DEF Owns, IInv, RingInv, DataInv, TypeOK
    <2>7. ItemOf(p) \in Items
      BY <2>6 DEF ItemOf, Items
    <2> QED
      BY <2>5, <2>7
  <1>4. \A i \in Taken : TicketAt(i) \in TQ!Ticket
    <2> SUFFICES ASSUME NEW i \in Taken PROVE TicketAt(i) \in TQ!Ticket
      OBVIOUS
    <2>1. CASE sequence[Slot(i)] = i + 1
      <3>1. TicketAt(i) = [msg |-> Message(i), ready |-> TRUE] /\ Message(i) \in Items
        BY <1>2, <2>1
      <3> QED
        BY <3>1, TicketType
    <2>2. CASE \E p \in Producers : Owns(p) /\ pos[p] = i
      <3>1. PICK p \in Producers : Owns(p) /\ pos[p] = i
        BY <2>2
      <3>2. ItemOf(p) \in Items /\ TicketAt(i) = [msg |-> ItemOf(p), ready |-> FALSE]
        BY <1>3, <3>1
      <3> QED
        BY <3>2, TicketType
    <2> QED
      BY <2>1, <2>2 DEF IInv, RingInv, TakenInv
  <1>5. \A k \in 1..(enqueuePos - HeadPos) : TicketAt(HeadPos + k - 1) \in TQ!Ticket
    BY <1>1, <1>4 DEF Taken
  <1>6. Tickets \in [1..(enqueuePos - HeadPos) -> TQ!Ticket]
    BY <1>5 DEF Tickets
  <1>7. Tickets \in Seq(TQ!Ticket) /\ Len(Tickets) = enqueuePos - HeadPos
    BY <1>1, <1>6
  <1>8. \A k \in 1..(enqueuePos - HeadPos) : Tickets[k] = TicketAt(HeadPos + k - 1)
    BY DEF Tickets
  <1> QED
    BY <1>2, <1>3, <1>7, <1>8 DEF TicketView

\* The same in the next state.
LEMMA TicketViewNext == IInv' => TicketView'
  BY TicketViewHolds, PTL

\* A ticket does not change while its owner, or its published message, does not.
LEMMA SameTicket ==
    ASSUME IInv, IInv', NEW i \in Taken, i \in Taken',
           sequence'[Slot(i)] = sequence[Slot(i)],
           \A p \in Producers : Owns(p) /\ pos[p] = i =>
               Owns(p)' /\ pos'[p] = i /\ calls'[p] = calls[p],
           sequence[Slot(i)] = i + 1 => Message(i)' = Message(i)
    PROVE  TicketAt(i)' = TicketAt(i)
  <1>1. TicketView /\ TicketView'
    BY TicketViewHolds, TicketViewNext
  <1>2. CASE sequence[Slot(i)] = i + 1
    <2>1. TicketAt(i) = [msg |-> Message(i), ready |-> TRUE]
      BY <1>1, <1>2 DEF TicketView
    <2>2. TicketAt(i)' = [msg |-> Message(i)', ready |-> TRUE]
      BY <1>1, <1>2 DEF TicketView
    <2> QED
      BY <1>2, <2>1, <2>2
  <1>3. CASE \E p \in Producers : Owns(p) /\ pos[p] = i
    <2>1. PICK p \in Producers : Owns(p) /\ pos[p] = i
      BY <1>3
    <2>2. Owns(p)' /\ pos'[p] = i /\ ItemOf(p)' = ItemOf(p)
      BY <2>1 DEF ItemOf
    <2>3. TicketAt(i) = [msg |-> ItemOf(p), ready |-> FALSE]
      BY <1>1, <2>1 DEF TicketView
    <2>4. TicketAt(pos[p])' = [msg |-> ItemOf(p)', ready |-> FALSE]
      BY <1>1, <2>2 DEF TicketView
    <2>5. TicketAt(pos[p])' = TicketAt(i)'
      BY <2>2 DEF TicketAt, OwnerOf, Owns, ItemOf
    <2> QED
      BY <2>2, <2>3, <2>4, <2>5
  <1> QED
    BY <1>2, <1>3 DEF IInv, RingInv, TakenInv

\* A step that moves no position, publishes nothing and leaves every published
\* message where the mapping finds it.
LEMMA SameTickets ==
    ASSUME IInv, IInv', HeadPos' = HeadPos, UNCHANGED <<sequence, enqueuePos>>,
           \A p \in Producers : /\ Owns(p)' <=> Owns(p)
                                /\ Owns(p) => pos'[p] = pos[p] /\ calls'[p] = calls[p],
           \A i \in Taken : sequence[Slot(i)] = i + 1 => Message(i)' = Message(i)
    PROVE  Tickets' = Tickets
  <1>1. Taken' = Taken /\ HeadPos \in Nat /\ enqueuePos \in Nat
    BY HeadPosType DEF Taken, IInv, TypeOK
  <1>2. \A i \in Taken : TicketAt(i)' = TicketAt(i)
    BY <1>1, SameTicket
  <1>3. \A k \in 1..(enqueuePos - HeadPos) :
           TicketAt(HeadPos + k - 1)' = TicketAt(HeadPos + k - 1)
    BY <1>1, <1>2 DEF Taken
  <1> QED
    BY <1>3 DEF Tickets

\* The steps that change no ticket: those of emplace() before its CAS succeeds
\* and the write of the item, the consumer's move of the item and of
\* m_dequeue_pos, approximate_size() and stuttering.
LEMMA QuietTickets ==
    ASSUME IInv, IInv', [Next]_vars,
           \A p \in Producers : ~CasWin(p) /\ ~PublishSlot(p), ~PopRelease
    PROVE  Tickets' = Tickets
  <1>1. ASSUME NEW p \in Producers,
               \/ TryPush(p) \/ LoadPos(p) \/ CheckFree(p) \/ CheckUsed(p) \/ CheckFull(p)
               \/ CasFail(p)
        PROVE  Tickets' = Tickets
    <2>1. UNCHANGED <<sequence, data, enqueuePos, dequeuePos, hand, freed>>
      BY <1>1 DEF TryPush, LoadPos, CheckFree, CheckUsed, CheckFull, CasFail, slotVars,
                  consumerVars
    <2>2. /\ ~Owns(p) /\ ~Owns(p)'
          /\ \A q \in Producers : q # p =>
                pc'[q] = pc[q] /\ pos'[q] = pos[q] /\ calls'[q] = calls[q]
      BY <1>1 DEF TryPush, LoadPos, CheckFree, CheckUsed, CheckFull, CasFail, Goto, Owns,
                  TypeOK, IInv
    <2>3. \A q \in Producers : /\ Owns(q)' <=> Owns(q)
                               /\ Owns(q) => pos'[q] = pos[q] /\ calls'[q] = calls[q]
      BY <2>2 DEF Owns
    <2>4. HeadPos' = HeadPos /\ \A i \in Taken : Message(i)' = Message(i)
      BY <2>1 DEF HeadPos, Message
    <2> QED
      BY <2>1, <2>3, <2>4, SameTickets
  <1>2. ASSUME NEW p \in Producers, WriteData(p) PROVE Tickets' = Tickets
    <2>1. /\ UNCHANGED <<sequence, enqueuePos, dequeuePos, hand, freed, pos, calls>>
          /\ data' = [data EXCEPT ![Slot(pos[p])] = ItemOf(p)]
          /\ Owns(p) /\ \A q \in Producers : Owns(q)' <=> Owns(q)
      BY <1>2 DEF WriteData, consumerVars, Goto, Owns, IInv, TypeOK
    <2>2. /\ sequence[Slot(pos[p])] = pos[p] /\ pos[p] \in Taken /\ pos[p] \in Nat
          /\ HeadPos \in Nat
      BY <2>1, HeadPosType DEF IInv, RingInv, OwnInv, TypeOK
    <2>3. \A i \in Taken : i # pos[p] => Slot(i) # Slot(pos[p])
      BY <2>2, SlotsDiffer, MpscAssumption DEF TypeOK, Taken, IInv, RingInv, PosInv
    <2>4. \A i \in Taken : sequence[Slot(i)] = i + 1 => i # pos[p]
      BY <2>2
    <2>5. \A i \in Taken : sequence[Slot(i)] = i + 1 => data'[Slot(i)] = data[Slot(i)]
      BY <2>1, <2>3, <2>4 DEF IInv, TypeOK
    <2>6. /\ HeadPos' = HeadPos
          /\ \A i \in Taken : sequence[Slot(i)] = i + 1 => Message(i)' = Message(i)
      BY <2>1, <2>5 DEF HeadPos, Message
    <2> QED
      BY <2>1, <2>6, SameTickets
  <1>3. CASE PopTake
    <2>1. /\ UNCHANGED <<sequence, enqueuePos, dequeuePos, freed, pc, pos, calls>>
          /\ hand = Nil /\ hand' = data[Slot(dequeuePos)]
          /\ data' = [data EXCEPT ![Slot(dequeuePos)] = Nil]
          /\ HeadPos = dequeuePos /\ sequence[Slot(dequeuePos)] = dequeuePos + 1
      BY <1>3 DEF PopTake, producerVars, HeadPos
    <2>2. HeadPos' = HeadPos /\ HeadPos \in Nat
      BY <2>1, HeadPosType DEF HeadPos, IInv
    <2>3. \A i \in Taken : i # dequeuePos => Slot(i) # Slot(dequeuePos)
      BY <2>1, <2>2, SlotsDiffer, MpscAssumption DEF TypeOK, Taken, IInv, RingInv, PosInv
    <2>4. \A i \in Taken : i # dequeuePos => data'[Slot(i)] = data[Slot(i)]
      BY <2>1, <2>3 DEF IInv, TypeOK
    <2>5. ASSUME NEW i \in Taken, sequence[Slot(i)] = i + 1
          PROVE  Message(i)' = Message(i)
      <3>1. CASE i = dequeuePos
        <4>1. data[Slot(i)] \in Items
          BY <2>1, <2>5, <3>1 DEF IInv, RingInv, DataInv
        <4> QED
          BY <2>1, <3>1, <4>1, MpscAssumption DEF Message
      <3>2. CASE i # dequeuePos
        BY <2>1, <2>4, <3>2 DEF Message
      <3> QED
        BY <3>1, <3>2
    <2> QED
      BY <2>1, <2>2, <2>5, SameTickets DEF Owns
  <1>4. CASE PopAdvance
    <2>1. /\ UNCHANGED <<sequence, data, enqueuePos, hand, pc, pos, calls>>
          /\ freed /\ ~freed' /\ dequeuePos' = dequeuePos + 1 /\ hand = Nil
      BY <1>4 DEF PopAdvance, slotVars, producerVars, IInv, RingInv, HandInv
    <2>2. HeadPos' = HeadPos /\ \A i \in Taken : Message(i)' = Message(i)
      BY <2>1 DEF HeadPos, Message
    <2> QED
      BY <2>1, <2>2, SameTickets DEF Owns
  <1>5. CASE ApproximateSize \/ UNCHANGED vars
    <2>1. UNCHANGED <<sequence, data, enqueuePos, dequeuePos, hand, freed, pc, pos, calls>>
      BY <1>5 DEF ApproximateSize, SizeLoadEnqueue, SizeLoadDequeue, vars, slotVars,
                  producerVars, consumerVars
    <2>2. HeadPos' = HeadPos /\ \A i \in Taken : Message(i)' = Message(i)
      BY <2>1 DEF HeadPos, Message
    <2> QED
      BY <2>1, <2>2, SameTickets DEF Owns
  <1> QED
    BY <1>1, <1>2, <1>3, <1>4, <1>5 DEF Next, EmplaceStep

\* The successful CAS draws the next ticket.
LEMMA CasWinClaims ==
    ASSUME IInv, IInv', NEW p \in Producers, CasWin(p)
    PROVE  ItemOf(p) \in Items /\ TQ!Claim(ItemOf(p))
  <1> DEFINE t == [msg |-> ItemOf(p), ready |-> FALSE]
             n == enqueuePos - HeadPos
  <1>1. TicketView /\ TicketView'
    BY TicketViewHolds, TicketViewNext
  <1>2. /\ UNCHANGED <<sequence, data, dequeuePos, hand, freed, pos, calls>>
        /\ enqueuePos' = enqueuePos + 1 /\ pos[p] = enqueuePos
        /\ enqueuePos \in Free
        /\ ~Owns(p) /\ Owns(p)' /\ \A q \in Producers : q # p => (Owns(q)' <=> Owns(q))
    BY DEF CasWin, slotVars, consumerVars, StaleInv, IInv, TypeOK, Goto, Owns
  <1>3. /\ HeadPos' = HeadPos /\ HeadPos \in Nat /\ enqueuePos \in Nat
        /\ n \in Nat /\ n < Capacity /\ (enqueuePos - HeadPos)' = n + 1
    <2>1. HeadPos' = HeadPos /\ HeadPos \in Nat /\ enqueuePos \in Nat
      BY <1>2, HeadPosType DEF HeadPos, IInv, TypeOK
    <2> QED
      BY <1>2, <2>1, MpscAssumption DEF Free, IInv, RingInv, PosInv
  <1>4. \A i \in Taken : TicketAt(i)' = TicketAt(i)
    <2> SUFFICES ASSUME NEW i \in Taken PROVE TicketAt(i)' = TicketAt(i)
      OBVIOUS
    <2>1. i \in Taken' /\ i # enqueuePos
      BY <1>2, <1>3 DEF Taken
    <2>2. Message(i)' = Message(i)
      BY <1>2 DEF Message
    <2>3. \A q \in Producers : Owns(q) /\ pos[q] = i =>
             Owns(q)' /\ pos'[q] = i /\ calls'[q] = calls[q]
      BY <1>2
    <2> QED
      BY <1>2, <2>1, <2>2, <2>3, SameTicket
  <1>5. PICK e \in Nat : e = enqueuePos
    BY <1>3
  <1>6. ItemOf(p) \in Items /\ TicketAt(e)' = t
    <2>1. ItemOf(p)' = ItemOf(p) /\ pos'[p] = e
      BY <1>2, <1>5 DEF ItemOf
    <2>2. ItemOf(p)' \in Items /\ TicketAt(pos[p])' = [msg |-> ItemOf(p)', ready |-> FALSE]
      BY <1>1, <1>2 DEF TicketView
    <2>3. TicketAt(pos[p])' = TicketAt(e)'
      BY <2>1 DEF TicketAt, OwnerOf, Owns, ItemOf
    <2> QED
      BY <2>1, <2>2, <2>3
  <1>7. /\ Tickets \in Seq(TQ!Ticket) /\ Len(Tickets) = n
        /\ Tickets' \in Seq(TQ!Ticket) /\ Len(Tickets') = n + 1
    BY <1>1, <1>3 DEF TicketView
  <1>8. t \in TQ!Ticket
    BY <1>6, TicketType
  <1> HIDE DEF t
  <1>9. /\ Append(Tickets, t) \in Seq(TQ!Ticket) /\ Len(Append(Tickets, t)) = n + 1
        /\ \A k \in 1..n : Append(Tickets, t)[k] = Tickets[k]
        /\ Append(Tickets, t)[n + 1] = t
    BY <1>7, <1>8, AppendProperties
  <1>10. ASSUME NEW k \in 1..(n + 1) PROVE Tickets'[k] = Append(Tickets, t)[k]
    <2>1. PICK i \in Nat : i = HeadPos + k - 1
      BY <1>3
    <2>2. Tickets'[k] = TicketAt(i)'
      <3>1. Tickets'[k] = TicketAt(HeadPos + k - 1)'
        BY <1>1, <1>3 DEF TicketView
      <3>2. (HeadPos + k - 1)' = i
        BY <1>3, <2>1
      <3> QED
        BY <3>1, <3>2 DEF TicketAt, OwnerOf, Owns, ItemOf
    <2>3. CASE k \in 1..n
      <3>1. i \in Taken
        BY <1>3, <2>1, <2>3 DEF Taken
      <3>2. Tickets[k] = TicketAt(i)
        BY <1>1, <2>1, <2>3 DEF TicketView
      <3> QED
        BY <1>4, <1>9, <2>2, <2>3, <3>1, <3>2
    <2>4. CASE k = n + 1
      <3>1. i = e
        BY <1>3, <1>5, <2>1, <2>4
      <3> QED
        BY <1>6, <1>9, <2>2, <2>4, <3>1
    <2>5. k \in 1..n \/ k = n + 1
      BY <1>3
    <2> QED
      BY <2>3, <2>4, <2>5
  <1>11. Tickets' = Append(Tickets, t)
    BY <1>7, <1>9, <1>10, SeqEqual
  <1>12. ~TQ!Full
    BY <1>3, <1>7, MpscAssumption DEF TQ!Full
  <1> QED
    BY <1>6, <1>11, <1>12 DEF TQ!Claim, t

\* Publishing a slot publishes its ticket.
LEMMA PublishPublishes ==
    ASSUME IInv, IInv', NEW p \in Producers, PublishSlot(p)
    PROVE  \E k \in DOMAIN Tickets : TQ!PublishAt(k)
  <1> DEFINE n == enqueuePos - HeadPos
  <1>1. TicketView /\ TicketView'
    BY TicketViewHolds, TicketViewNext
  <1>2. /\ UNCHANGED <<data, enqueuePos, dequeuePos, hand, freed, pos, calls>>
        /\ sequence' = [sequence EXCEPT ![Slot(pos[p])] = pos[p] + 1]
        /\ pc[p] = "publish" /\ Owns(p)
        /\ \A q \in Producers : q # p => (Owns(q)' <=> Owns(q))
    BY DEF PublishSlot, consumerVars, Goto, Owns, IInv, TypeOK
  <1>3. PICK e \in Nat : e = pos[p]
    BY DEF IInv, TypeOK
  <1>4. /\ HeadPos' = HeadPos /\ HeadPos \in Nat /\ enqueuePos \in Nat /\ n \in Nat
        /\ n' = n /\ Taken' = Taken
        /\ e \in Taken /\ sequence[Slot(e)] = e /\ data[Slot(e)] = ItemOf(p)
    <2>1. HeadPos' = HeadPos /\ HeadPos \in Nat /\ enqueuePos \in Nat
      BY <1>2, HeadPosType DEF HeadPos, IInv, TypeOK
    <2>2. e \in Taken /\ sequence[Slot(e)] = e /\ data[Slot(e)] = ItemOf(p)
      BY <1>2, <1>3 DEF IInv, RingInv, OwnInv, DataInv
    <2> QED
      BY <1>2, <2>1, <2>2 DEF Taken, IInv, RingInv, PosInv
  <1>5. \A i \in Taken : i # e => Slot(i) # Slot(e)
    BY <1>4, SlotsDiffer, MpscAssumption DEF Taken, IInv, RingInv, PosInv
  <1>6. /\ sequence'[Slot(e)] = e + 1
        /\ \A i \in Taken : i # e => sequence'[Slot(i)] = sequence[Slot(i)]
    BY <1>2, <1>3, <1>4, <1>5, SlotDivision DEF IInv, TypeOK
  <1>7. TicketAt(e) = [msg |-> ItemOf(p), ready |-> FALSE] /\ ItemOf(p) \in Items
    BY <1>1, <1>2, <1>3 DEF TicketView
  <1>8. TicketAt(e)' = [msg |-> ItemOf(p), ready |-> TRUE]
    <2>1. TicketAt(e)' = [msg |-> Message(e)', ready |-> TRUE]
      BY <1>1, <1>4, <1>6 DEF TicketView
    <2>2. ~(e = dequeuePos /\ hand # Nil)
      BY <1>4 DEF IInv, RingInv, HandInv
    <2>3. Message(e)' = ItemOf(p)
      BY <1>2, <1>4, <2>2 DEF Message
    <2> QED
      BY <2>1, <2>3
  <1>9. \A i \in Taken : i # e => TicketAt(i)' = TicketAt(i)
    <2> SUFFICES ASSUME NEW i \in Taken, i # e PROVE TicketAt(i)' = TicketAt(i)
      OBVIOUS
    <2>1. Message(i)' = Message(i)
      BY <1>2 DEF Message
    <2>2. \A q \in Producers : Owns(q) /\ pos[q] = i =>
             Owns(q)' /\ pos'[q] = i /\ calls'[q] = calls[q]
      BY <1>2, <1>3
    <2> QED
      BY <1>4, <1>6, <2>1, <2>2, SameTicket
  <1>10. PICK k \in 1..n : k = e - HeadPos + 1
    BY <1>4 DEF Taken
  <1>11. /\ Tickets \in Seq(TQ!Ticket) /\ Len(Tickets) = n
         /\ Tickets' \in Seq(TQ!Ticket) /\ Len(Tickets') = n
    BY <1>1, <1>4 DEF TicketView
  <1>12. \A j \in 1..n : \E i \in Taken :
            /\ i = HeadPos + j - 1 /\ Tickets[j] = TicketAt(i) /\ Tickets'[j] = TicketAt(i)'
    <2> SUFFICES ASSUME NEW j \in 1..n
                 PROVE  \E i \in Taken : /\ i = HeadPos + j - 1
                                         /\ Tickets[j] = TicketAt(i)
                                         /\ Tickets'[j] = TicketAt(i)'
      OBVIOUS
    <2>1. PICK i \in Taken : i = HeadPos + j - 1
      BY <1>4 DEF Taken
    <2>2. Tickets[j] = TicketAt(i)
      BY <1>1, <2>1 DEF TicketView
    <2>3. Tickets'[j] = TicketAt(HeadPos + j - 1)'
      BY <1>1, <1>4 DEF TicketView
    <2>4. (HeadPos + j - 1)' = i
      BY <1>4, <2>1
    <2>5. Tickets'[j] = TicketAt(i)'
      BY <2>3, <2>4 DEF TicketAt, OwnerOf, Owns, ItemOf
    <2> QED
      BY <2>1, <2>2, <2>5
  <1> DEFINE t == [msg |-> ItemOf(p), ready |-> TRUE]
  <1>13. Tickets[k] = [msg |-> ItemOf(p), ready |-> FALSE] /\ Tickets'[k] = t
    <2>1. PICK i \in Taken : /\ i = HeadPos + k - 1 /\ Tickets[k] = TicketAt(i)
                             /\ Tickets'[k] = TicketAt(i)'
      BY <1>12
    <2>2. i = e
      BY <1>4, <1>10, <2>1
    <2> QED
      BY <1>7, <1>8, <2>1, <2>2
  <1>14. \A j \in 1..n : j # k => Tickets'[j] = Tickets[j]
    <2> SUFFICES ASSUME NEW j \in 1..n, j # k PROVE Tickets'[j] = Tickets[j]
      OBVIOUS
    <2>1. PICK i \in Taken : /\ i = HeadPos + j - 1 /\ Tickets[j] = TicketAt(i)
                             /\ Tickets'[j] = TicketAt(i)'
      BY <1>12
    <2>2. i # e
      BY <1>4, <1>10, <2>1
    <2> QED
      BY <1>9, <2>1, <2>2
  <1>15. t \in TQ!Ticket
    BY <1>7, TicketType
  <1>16. t = [msg |-> Tickets[k].msg, ready |-> TRUE] /\ ~Tickets[k].ready
    BY <1>13
  <1>17. DOMAIN Tickets = 1..n
    BY <1>11
  <1> HIDE DEF t
  <1>18. /\ [Tickets EXCEPT ![k] = t] \in Seq(TQ!Ticket)
         /\ Len([Tickets EXCEPT ![k] = t]) = n
         /\ \A j \in 1..n : [Tickets EXCEPT ![k] = t][j] = IF j = k THEN t ELSE Tickets[j]
    BY <1>11, <1>15, ExceptSeq
  <1>19. Tickets' = [Tickets EXCEPT ![k] = t]
    BY <1>11, <1>13, <1>14, <1>18, SeqEqual
  <1>20. TQ!PublishAt(k)
    BY <1>16, <1>19 DEF TQ!PublishAt
  <1> QED
    BY <1>17, <1>20

\* Giving a slot back pops the oldest ticket, which is published.
LEMMA PopReleasePops ==
    ASSUME IInv, IInv', PopRelease
    PROVE  TQ!Pop
  <1> DEFINE n == enqueuePos - HeadPos
  <1>1. TicketView /\ TicketView'
    BY TicketViewHolds, TicketViewNext
  <1>2. /\ UNCHANGED <<data, enqueuePos, dequeuePos, pc, pos, calls>>
        /\ sequence' = [sequence EXCEPT ![Slot(dequeuePos)] = dequeuePos + Capacity]
        /\ hand # Nil /\ hand' = Nil /\ ~freed /\ freed'
        /\ dequeuePos \in Taken /\ sequence[Slot(dequeuePos)] = dequeuePos + 1
    BY DEF PopRelease, producerVars, IInv, RingInv, HandInv
  <1>3. /\ HeadPos = dequeuePos /\ HeadPos' = HeadPos + 1
        /\ HeadPos \in Nat /\ enqueuePos \in Nat
        /\ n \in Nat /\ n >= 1 /\ n' = n - 1
        /\ Taken' = Taken \ {dequeuePos}
    <2>1. /\ HeadPos = dequeuePos /\ HeadPos' = HeadPos + 1
          /\ HeadPos \in Nat /\ enqueuePos \in Nat
      BY <1>2 DEF HeadPos, IInv, TypeOK
    <2> QED
      BY <1>2, <2>1 DEF Taken
  <1>4. \A i \in Taken : i # dequeuePos => Slot(i) # Slot(dequeuePos)
    BY <1>3, SlotsDiffer, MpscAssumption DEF Taken, IInv, RingInv, PosInv
  <1>5. \A i \in Taken' : TicketAt(i)' = TicketAt(i)
    <2> SUFFICES ASSUME NEW i \in Taken, i \in Taken', i # dequeuePos
                 PROVE  TicketAt(i)' = TicketAt(i)
      BY <1>3
    <2>1. sequence'[Slot(i)] = sequence[Slot(i)]
      BY <1>2, <1>4 DEF IInv, TypeOK
    <2>2. Message(i)' = Message(i)
      BY <1>2 DEF Message
    <2>3. \A q \in Producers : Owns(q) /\ pos[q] = i =>
             Owns(q)' /\ pos'[q] = i /\ calls'[q] = calls[q]
      BY <1>2 DEF Owns
    <2> QED
      BY <2>1, <2>2, <2>3, SameTicket
  <1>6. /\ Tickets \in Seq(TQ!Ticket) /\ Len(Tickets) = n
        /\ Tickets' \in Seq(TQ!Ticket) /\ Len(Tickets') = n - 1
    BY <1>1, <1>3 DEF TicketView
  <1>7. Tickets # << >>
    BY <1>3, <1>6
  <1>8. /\ Tail(Tickets) \in Seq(TQ!Ticket) /\ Len(Tail(Tickets)) = n - 1
        /\ \A k \in 1..(n - 1) : Tail(Tickets)[k] = Tickets[k + 1]
    BY <1>6, <1>7, HeadTailProperties
  <1>9. ASSUME NEW k \in 1..(n - 1) PROVE Tickets'[k] = Tail(Tickets)[k]
    <2>1. PICK i \in Nat : i = HeadPos + k
      BY <1>3
    <2>2. k + 1 \in 1..n /\ HeadPos + (k + 1) - 1 = i
      BY <1>3, <2>1
    <2>3. Tickets[k + 1] = TicketAt(HeadPos + (k + 1) - 1)
      BY <1>1, <2>2 DEF TicketView
    <2>4. Tickets'[k] = TicketAt(HeadPos + k - 1)'
      BY <1>1, <1>3 DEF TicketView
    <2>5. (HeadPos + k - 1)' = i
      BY <1>3, <2>1
    <2>6. Tickets'[k] = TicketAt(i)'
      BY <2>4, <2>5 DEF TicketAt, OwnerOf, Owns, ItemOf
    <2>7. i \in Taken'
      BY <1>2, <1>3, <2>1 DEF Taken
    <2> QED
      BY <1>5, <1>8, <2>2, <2>3, <2>6, <2>7
  <1>10. Tickets' = Tail(Tickets)
    BY <1>6, <1>8, <1>9, SeqEqual
  <1>11. Tickets[1].ready
    <2>1. TicketAt(dequeuePos) = [msg |-> Message(dequeuePos), ready |-> TRUE]
      BY <1>1, <1>2 DEF TicketView
    <2>2. Tickets[1] = TicketAt(HeadPos + 1 - 1) /\ HeadPos + 1 - 1 = dequeuePos
      BY <1>1, <1>3 DEF TicketView
    <2> QED
      BY <2>1, <2>2
  <1> QED
    BY <1>7, <1>10, <1>11 DEF TQ!Pop, TQ!HeadReady

\* The ring of coroutine/mpsc_queue.hpp implements the FIFO of tickets that the
\* actor mailbox is built on: its successful CAS, its release store and the
\* consumer's store into the slot are Claim, Publish and Pop, and every other
\* step changes nothing of what the queue promises.
THEOREM Refinement == Spec => ImplementsTicketQueue
  <1>1. Init => TQ!QueueInit
    <2> SUFFICES ASSUME Init PROVE Tickets = << >>
      BY DEF TQ!QueueInit
    <2>1. IInv
      BY InitIInv
    <2>2. TicketView
      BY <2>1, TicketViewHolds
    <2>3. enqueuePos - HeadPos = 0
      <3>1. enqueuePos = 0 /\ dequeuePos = 0 /\ freed = FALSE
        BY DEF Init
      <3>2. HeadPos = 0
        BY <3>1, Zenon DEF HeadPos
      <3> QED
        BY <3>1, <3>2
    <2>4. Tickets \in Seq(TQ!Ticket) /\ Len(Tickets) = 0
      BY <2>2, <2>3 DEF TicketView
    <2> QED
      BY <2>4, EmptySeq
  <1>2. IInv /\ IInv' /\ [Next]_vars => [TQ!QueueNext]_Tickets
    <2> SUFFICES ASSUME IInv, IInv', [Next]_vars PROVE TQ!QueueNext \/ Tickets' = Tickets
      OBVIOUS
    <2>1. CASE \E p \in Producers : CasWin(p)
      BY <2>1, CasWinClaims DEF TQ!QueueNext
    <2>2. CASE \E p \in Producers : PublishSlot(p)
      BY <2>2, PublishPublishes DEF TQ!QueueNext
    <2>3. CASE PopRelease
      BY <2>3, PopReleasePops DEF TQ!QueueNext
    <2> QED
      BY <2>1, <2>2, <2>3, QuietTickets
  <1> QED
    BY InvariantHolds, <1>1, <1>2, PTL DEF Spec, ImplementsTicketQueue, TQ!QueueSpec
=============================================================================
