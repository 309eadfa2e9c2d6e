--------------------------- MODULE ChannelProofs ---------------------------
(***************************************************************************)
(* Proofs about Channel, for any readers, writers and capacity: the        *)
(* reservations, the wake-ups and the refinement of FifoChannel.           *)
(***************************************************************************)
EXTENDS Channel, FiniteSetTheorems, SequenceTheorems, TLAPS

\* The coroutines of S that are woken, when f are their program counters.
Woken(S, f) == {c \in S : f[c] = "woken"}

\* The wait queue q holds each of its coroutines once, and they are parked.
Queued(q, f) ==
    /\ \A i \in 1..Len(q) : f[q[i]] = "waiting"
    /\ \A i, j \in 1..Len(q) : q[i] = q[j] => i = j

QueueInv == Queued(readers, pc) /\ Queued(writers, pc)

\* Elements are promised to readers, and slots to writers, only if they exist.
\* close() promises what is not there, but nothing is written any more.
RoomInv ==
    /\ count <= Capacity
    /\ ~closed => readReserved <= count /\ count + writeReserved <= Capacity

\* The two positions are count slots apart.
RingInv == writePos = (readPos + count) % Capacity

\* A writer inside write() has a value.
CallInv == \A w \in Writers : pc[w] # "idle" => calls[w] >= 1

WaitInv == ReservationsAreOwned /\ QueueInv /\ RoomInv /\ NobodyWaitsInVain

IInv == TypeOK /\ WaitInv /\ RingInv /\ CallInv

-----------------------------------------------------------------------------
(* One side of the channel: the coroutines S, their wait queue q, and their  *)
(* program counters f before and g after a step.                            *)

\* Nobody of the side wakes up or goes on, and nobody leaves the queue.
LEMMA SideSame ==
    ASSUME NEW S, NEW q \in Seq(S), NEW f, NEW g, Queued(q, f),
           \A c \in S : /\ f[c] = "woken" <=> g[c] = "woken"
                        /\ f[c] = "waiting" => g[c] = "waiting"
    PROVE  Queued(q, g) /\ Woken(S, g) = Woken(S, f)
  <1>1. \A i \in 1..Len(q) : q[i] \in S
    OBVIOUS
  <1> QED
    BY <1>1 DEF Queued, Woken

\* The first in the queue is woken.
LEMMA SideWake ==
    ASSUME NEW S, IsFiniteSet(S), NEW q \in Seq(S), q # << >>, NEW f, NEW g, Queued(q, f),
           g[Head(q)] = "woken", \A c \in S : c # Head(q) => g[c] = f[c]
    PROVE  /\ Tail(q) \in Seq(S) /\ Queued(Tail(q), g)
           /\ Cardinality(Woken(S, g)) = Cardinality(Woken(S, f)) + 1
  <1>1. /\ Len(q) \in Nat \ {0} /\ Head(q) = q[1] /\ Head(q) \in S
        /\ \A i \in 1..Len(q) : q[i] \in S
    BY EmptySeq
  <1>2. /\ Tail(q) \in Seq(S) /\ Len(Tail(q)) = Len(q) - 1
        /\ \A i \in 1..(Len(q) - 1) : Tail(q)[i] = q[i + 1]
    BY HeadTailProperties
  <1>3. \A i \in 1..(Len(q) - 1) : /\ i + 1 \in 1..Len(q) /\ q[i + 1] # q[1]
                                   /\ f[q[i + 1]] = "waiting"
    BY <1>1 DEF Queued
  <1>4. \A i \in 1..(Len(q) - 1) : g[Tail(q)[i]] = "waiting"
    BY <1>1, <1>2, <1>3
  <1>5. \A i, j \in 1..(Len(q) - 1) : Tail(q)[i] = Tail(q)[j] => i = j
    BY <1>1, <1>2, <1>3 DEF Queued
  <1>6. Queued(Tail(q), g)
    BY <1>2, <1>4, <1>5 DEF Queued
  <1>7. f[Head(q)] = "waiting"
    BY <1>1 DEF Queued
  <1>8. Woken(S, g) = Woken(S, f) \cup {Head(q)} /\ Head(q) \notin Woken(S, f)
    BY <1>1, <1>7 DEF Woken
  <1>9. IsFiniteSet(Woken(S, f))
    BY FS_Subset DEF Woken
  <1> QED
    BY <1>2, <1>6, <1>8, <1>9, FS_AddElement

\* A woken coroutine goes on.
LEMMA SideLeave ==
    ASSUME NEW S, IsFiniteSet(S), NEW q \in Seq(S), NEW f, NEW g, Queued(q, f),
           NEW c \in S, f[c] = "woken", g[c] # "woken", \A d \in S : d # c => g[d] = f[d]
    PROVE  /\ Queued(q, g)
           /\ Cardinality(Woken(S, f)) \in Nat \ {0}
           /\ Cardinality(Woken(S, g)) = Cardinality(Woken(S, f)) - 1
  <1>1. \A i \in 1..Len(q) : q[i] \in S /\ q[i] # c
    BY DEF Queued
  <1>2. Queued(q, g)
    BY <1>1 DEF Queued
  <1>3. Woken(S, g) = Woken(S, f) \ {c} /\ c \in Woken(S, f)
    BY DEF Woken
  <1>4. IsFiniteSet(Woken(S, f))
    BY FS_Subset DEF Woken
  <1>5. Cardinality(Woken(S, f)) \in Nat /\ Cardinality(Woken(S, f)) # 0
    BY <1>3, <1>4, FS_CardinalityType, FS_EmptySet
  <1> QED
    BY <1>2, <1>3, <1>4, <1>5, FS_RemoveElement

\* A coroutine parks.
LEMMA SidePark ==
    ASSUME NEW S, NEW q \in Seq(S), NEW f, NEW g, Queued(q, f),
           NEW c \in S, f[c] = "suspending", g[c] = "waiting",
           \A d \in S : d # c => g[d] = f[d]
    PROVE  /\ Append(q, c) \in Seq(S) /\ Queued(Append(q, c), g)
           /\ Woken(S, g) = Woken(S, f)
  <1>1. \A i \in 1..Len(q) : q[i] \in S /\ q[i] # c
    BY DEF Queued
  <1>2. /\ Append(q, c) \in Seq(S) /\ Len(Append(q, c)) = Len(q) + 1 /\ Len(q) \in Nat
        /\ \A i \in 1..Len(q) : Append(q, c)[i] = q[i]
        /\ Append(q, c)[Len(q) + 1] = c
    BY AppendProperties
  <1>3. \A i \in 1..(Len(q) + 1) : i \in 1..Len(q) \/ i = Len(q) + 1
    BY <1>2
  <1>4. \A i \in 1..(Len(q) + 1) : g[Append(q, c)[i]] = "waiting"
    BY <1>1, <1>2, <1>3 DEF Queued
  <1>5. \A i, j \in 1..(Len(q) + 1) : Append(q, c)[i] = Append(q, c)[j] => i = j
    BY <1>1, <1>2, <1>3 DEF Queued
  <1>6. Queued(Append(q, c), g)
    BY <1>2, <1>4, <1>5 DEF Queued
  <1>7. Woken(S, g) = Woken(S, f)
    BY DEF Woken
  <1> QED
    BY <1>2, <1>6, <1>7

\* close() wakes the whole queue.
LEMMA SideWakeAll ==
    ASSUME NEW S, IsFiniteSet(S), NEW q \in Seq(S), NEW f, NEW g, Queued(q, f),
           \A c \in S : g[c] = IF \E i \in 1..Len(q) : q[i] = c THEN "woken" ELSE f[c]
    PROVE  Cardinality(Woken(S, g)) = Cardinality(Woken(S, f)) + Len(q)
  <1> DEFINE Q == {c \in S : \E i \in 1..Len(q) : q[i] = c}
  <1>1. Woken(S, g) = Woken(S, f) \cup Q /\ Woken(S, f) \cap Q = {}
    <2>1. \A c \in S : g[c] = IF c \in Q THEN "woken" ELSE f[c]
      OBVIOUS
    <2>2. \A c \in Q : c \in S /\ f[c] = "waiting"
      BY DEF Queued
    <2> HIDE DEF Q
    <2> QED
      BY <2>1, <2>2 DEF Woken
  <1>2. IsFiniteSet(Woken(S, f)) /\ IsFiniteSet(Q)
    BY FS_Subset DEF Woken
  <1>3. Len(q) \in Nat /\ q \in [1..Len(q) -> S]
    OBVIOUS
  <1>4. q \in Bijection(1..Len(q), Q)
    <2>1. \A i \in 1..Len(q) : q[i] \in Q
      BY <1>3
    <2>2. \A c \in Q : \E i \in 1..Len(q) : q[i] = c
      OBVIOUS
    <2> HIDE DEF Q
    <2>3. q \in [1..Len(q) -> Q]
      BY <1>3, <2>1
    <2> QED
      BY <2>2, <2>3 DEF Queued, Bijection, Injection, IsInjective, Surjection
  <1>5. IsFiniteSet(1..Len(q)) /\ Cardinality(1..Len(q)) = Len(q)
    BY <1>3, FS_Interval
  <1>6. Cardinality(Q) = Len(q)
    BY <1>4, <1>5, FS_Bijection DEF ExistsBijection
  <1>7. Cardinality(Woken(S, f)) \in Nat
    BY <1>2, FS_CardinalityType
  <1> HIDE DEF Q
  <1>8. Cardinality(Woken(S, f) \cup Q)
          = Cardinality(Woken(S, f)) + Cardinality(Q) - Cardinality(Woken(S, f) \cap Q)
    BY <1>2, FS_Union
  <1>9. Cardinality(Woken(S, f) \cap Q) = 0
    BY <1>1, FS_EmptySet
  <1> QED
    BY <1>1, <1>3, <1>6, <1>7, <1>8, <1>9

-----------------------------------------------------------------------------
(* The invariant.                                                           *)

\* Readers and writers are two sides.
LEMMA Sides ==
    /\ IsFiniteSet(Readers) /\ IsFiniteSet(Writers)
    /\ \A r \in Readers : r \in Coroutines /\ r \notin Writers
    /\ \A w \in Writers : w \in Coroutines /\ w \notin Readers
    /\ \A c \in Coroutines : c \in Readers \/ c \in Writers
  BY ChannelAssumption DEF Coroutines

\* ReservationsAreOwned in the terms of the lemmas about one side.
LEMMA Owned ==
    /\ ReservationsAreOwned <=> /\ readReserved = Cardinality(Woken(Readers, pc))
                                /\ writeReserved = Cardinality(Woken(Writers, pc))
    /\ ReservationsAreOwned' <=> /\ readReserved' = Cardinality(Woken(Readers, pc'))
                                 /\ writeReserved' = Cardinality(Woken(Writers, pc'))
  BY DEF ReservationsAreOwned, WokenReaders, WokenWriters, Woken

\* The wait queues, as the lemmas about one side want them.
LEMMA Queues ==
    ASSUME TypeOK, WaitInv
    PROVE  /\ readers \in Seq(Readers) /\ Queued(readers, pc)
           /\ writers \in Seq(Writers) /\ Queued(writers, pc)
  BY DEF TypeOK, WaitInv, QueueInv

\* Advance() stays in the buffer.
LEMMA AdvanceType == \A i \in Slots : Advance(i) \in Slots
  BY ChannelAssumption DEF Slots, Advance

\* The parts of the invariant hold of a channel nobody has used.
LEMMA InitIInv == Init => IInv
  <1> SUFFICES ASSUME Init PROVE IInv
    OBVIOUS
  <1>1. TypeOK
    <2>1. /\ buffer \in [Slots -> Values \cup {None}]
          /\ writePos \in Slots /\ readPos \in Slots /\ count \in Nat
          /\ writeReserved \in Nat /\ readReserved \in Nat
      BY ChannelAssumption DEF Init, Slots
    <2>2. /\ closed \in BOOLEAN /\ readers \in Seq(Readers) /\ writers \in Seq(Writers)
          /\ last \in Values \cup {None}
      BY EmptySeq DEF Init
    <2>3. /\ pc \in [Coroutines -> {"idle", "suspending", "waiting", "woken"}]
          /\ calls \in [Coroutines -> 0..MaxCalls]
      BY ChannelAssumption DEF Init
    <2> QED
      BY <2>1, <2>2, <2>3 DEF TypeOK
  <1>2. \A c \in Coroutines : pc[c] = "idle"
    BY DEF Init
  <1>3. Woken(Readers, pc) = {} /\ Woken(Writers, pc) = {}
    BY <1>2, Sides DEF Woken
  <1>4. ReservationsAreOwned
    BY <1>3, Owned, FS_EmptySet DEF Init
  <1>5. QueueInv
    <2>1. Len(readers) = 0 /\ Len(writers) = 0
      BY EmptySeq DEF Init
    <2> QED
      BY <2>1 DEF QueueInv, Queued
  <1>6. RoomInv /\ RingInv
    BY ChannelAssumption DEF Init, RoomInv, RingInv
  <1>7. NobodyWaitsInVain
    BY DEF Init, NobodyWaitsInVain
  <1>8. CallInv
    BY <1>2, Sides DEF CallInv
  <1> QED
    BY <1>1, <1>4, <1>5, <1>6, <1>7, <1>8 DEF IInv, WaitInv

\* A call that has not found what it wants: it returns, or is about to park.
LEMMA QuietStep ==
    ASSUME TypeOK, WaitInv, NEW c \in Coroutines, pc[c] \in {"idle", "suspending"},
           NEW l \in {"idle", "suspending"}, Goto(c, l), UNCHANGED waitVars,
           calls' \in [Coroutines -> 0..MaxCalls]
    PROVE  TypeOK' /\ WaitInv'
  <1>1. /\ UNCHANGED <<buffer, writePos, readPos, count, last, closed>>
        /\ UNCHANGED <<writeReserved, readReserved, readers, writers>>
        /\ pc' = [pc EXCEPT ![c] = l]
    BY DEF Goto, ringVars, waitVars
  <1>2. TypeOK'
    BY <1>1 DEF TypeOK
  <1>3. \A d \in Coroutines : /\ pc[d] = "woken" <=> pc'[d] = "woken"
                              /\ pc[d] = "waiting" => pc'[d] = "waiting"
    BY <1>1 DEF TypeOK
  <1>4. /\ Queued(readers, pc') /\ Woken(Readers, pc') = Woken(Readers, pc)
        /\ Queued(writers, pc') /\ Woken(Writers, pc') = Woken(Writers, pc)
    <2>1. \A d \in Readers : /\ pc[d] = "woken" <=> pc'[d] = "woken"
                             /\ pc[d] = "waiting" => pc'[d] = "waiting"
      BY <1>3, Sides
    <2>2. \A d \in Writers : /\ pc[d] = "woken" <=> pc'[d] = "woken"
                             /\ pc[d] = "waiting" => pc'[d] = "waiting"
      BY <1>3, Sides
    <2>3. Queued(readers, pc') /\ Woken(Readers, pc') = Woken(Readers, pc)
      BY <2>1, Queues, SideSame
    <2>4. Queued(writers, pc') /\ Woken(Writers, pc') = Woken(Writers, pc)
      BY <2>2, Queues, SideSame
    <2> QED
      BY <2>3, <2>4
  <1>5. ReservationsAreOwned' /\ QueueInv'
    BY <1>1, <1>4, Owned DEF WaitInv, QueueInv
  <1>6. RoomInv' /\ NobodyWaitsInVain'
    BY <1>1 DEF WaitInv, RoomInv, NobodyWaitsInVain, HasData, HasRoom
  <1> QED
    BY <1>2, <1>5, <1>6 DEF WaitInv

\* do_write_nolock() and wake_one_reader_nolock(), by a writer that has found
\* room or that owns a slot.
LEMMA WriteNowStep ==
    ASSUME TypeOK, WaitInv, ~closed, NEW w \in Writers, NEW v \in Values,
           NEW freed \in {0, 1}, WriteNow(w, v, freed),
           freed = 0 => HasRoom /\ pc[w] \in {"idle", "suspending"},
           freed = 1 => pc[w] = "woken",
           calls' \in [Coroutines -> 0..MaxCalls]
    PROVE  TypeOK' /\ WaitInv'
  <1>1. /\ buffer' = [buffer EXCEPT ![writePos] = v] /\ writePos' = Advance(writePos)
        /\ count' = count + 1 /\ UNCHANGED <<readPos, last, closed, writers>>
        /\ writeReserved' = writeReserved - freed
    BY DEF WriteNow, DoWrite, WakeReader
  <1>2. /\ pc' \in [Coroutines -> {"idle", "suspending", "waiting", "woken"}]
        /\ pc'[w] = "idle" /\ \A d \in Writers : d # w => pc'[d] = pc[d]
    <2>1. CASE readers = << >>
      BY <2>1, Sides DEF WriteNow, WakeReader, TypeOK
    <2>2. CASE readers # << >>
      <3>1. Head(readers) \in Readers
        BY <2>2, HeadTailProperties DEF TypeOK
      <3>2. pc' = [pc EXCEPT ![w] = "idle", ![Head(readers)] = "woken"]
        BY <2>2 DEF WriteNow, WakeReader
      <3> QED
        BY <3>1, <3>2, Sides DEF TypeOK
    <2> QED
      BY <2>1, <2>2
  <1>3. /\ Queued(writers, pc') /\ writeReserved' \in Nat
        /\ writeReserved' = Cardinality(Woken(Writers, pc'))
    <2>1. CASE freed = 0
      <3>1. Queued(writers, pc') /\ Woken(Writers, pc') = Woken(Writers, pc)
        <4>1. \A d \in Writers : /\ pc[d] = "woken" <=> pc'[d] = "woken"
                                 /\ pc[d] = "waiting" => pc'[d] = "waiting"
          BY <1>2, <2>1
        <4> QED
          BY <4>1, Queues, SideSame
      <3> QED
        BY <1>1, <2>1, <3>1, Owned DEF TypeOK, WaitInv
    <2>2. CASE freed = 1
      <3>1. /\ Queued(writers, pc')
            /\ Cardinality(Woken(Writers, pc)) \in Nat \ {0}
            /\ Cardinality(Woken(Writers, pc')) = Cardinality(Woken(Writers, pc)) - 1
        <4>1. pc[w] = "woken" /\ pc'[w] # "woken"
          BY <1>2, <2>2
        <4> QED
          BY <1>2, <4>1, Queues, Sides, SideLeave
      <3> QED
        BY <1>1, <2>2, <3>1, Owned DEF TypeOK, WaitInv
    <2> QED
      BY <2>1, <2>2
  <1>4. /\ readers' \in Seq(Readers) /\ Queued(readers', pc')
        /\ readReserved' = Cardinality(Woken(Readers, pc'))
        /\ readers = << >> => readReserved' = readReserved /\ readers' = << >>
        /\ readers # << >> => readReserved' = readReserved + 1
    <2>1. CASE readers = << >>
      <3>1. \A r \in Readers : pc'[r] = pc[r]
        BY <2>1, Sides DEF WriteNow, WakeReader, TypeOK
      <3>2. Queued(readers, pc') /\ Woken(Readers, pc') = Woken(Readers, pc)
        BY <3>1, Queues, SideSame
      <3>3. readReserved' = readReserved /\ readers' = readers
        BY <2>1 DEF WriteNow, WakeReader
      <3> QED
        BY <2>1, <3>2, <3>3, Owned DEF TypeOK, WaitInv
    <2>2. CASE readers # << >>
      <3>1. Head(readers) \in Readers
        BY <2>2, HeadTailProperties DEF TypeOK
      <3>2. /\ pc' = [pc EXCEPT ![w] = "idle", ![Head(readers)] = "woken"]
            /\ readers' = Tail(readers) /\ readReserved' = readReserved + 1
        BY <2>2 DEF WriteNow, WakeReader
      <3>3. /\ pc'[Head(readers)] = "woken"
            /\ \A r \in Readers : r # Head(readers) => pc'[r] = pc[r]
        BY <3>1, <3>2, Sides DEF TypeOK
      <3>4. /\ Tail(readers) \in Seq(Readers) /\ Queued(Tail(readers), pc')
            /\ Cardinality(Woken(Readers, pc')) = Cardinality(Woken(Readers, pc)) + 1
        BY <2>2, <3>3, Queues, Sides, SideWake
      <3> QED
        BY <2>2, <3>2, <3>4, Owned DEF WaitInv
    <2> QED
      BY <2>1, <2>2
  <1>5. readReserved' \in Nat
    BY <1>4 DEF TypeOK
  <1>6. TypeOK'
    <2>1. buffer' \in [Slots -> Values \cup {None}] /\ writePos' \in Slots
      BY <1>1, AdvanceType DEF TypeOK
    <2> QED
      BY <1>1, <1>2, <1>3, <1>4, <1>5, <2>1 DEF TypeOK
  <1>7. ReservationsAreOwned' /\ QueueInv'
    BY <1>1, <1>3, <1>4, Owned DEF QueueInv
  <1>8. RoomInv'
    <2>1. readReserved' <= count'
      BY <1>1, <1>4 DEF TypeOK, WaitInv, RoomInv
    <2>2. count' + writeReserved' <= Capacity
      BY <1>1, ChannelAssumption DEF TypeOK, WaitInv, RoomInv, HasRoom
    <2> QED
      BY <1>1, <1>3, <2>1, <2>2, ChannelAssumption DEF TypeOK, RoomInv
  <1>9. NobodyWaitsInVain'
    <2>1. readers' # << >> => ~HasData'
      BY <1>1, <1>4 DEF TypeOK, WaitInv, NobodyWaitsInVain, HasData
    <2>2. writers # << >> => ~HasRoom'
      BY <1>1, ChannelAssumption DEF TypeOK, WaitInv, NobodyWaitsInVain, HasRoom
    <2> QED
      BY <1>1, <2>1, <2>2 DEF NobodyWaitsInVain
  <1> QED
    BY <1>6, <1>7, <1>8, <1>9 DEF WaitInv

\* do_read_nolock() and wake_one_writer_nolock(), by a reader that has found an
\* element nobody is promised, or that owns one.
LEMMA ReadNowStep ==
    ASSUME TypeOK, WaitInv, NEW r \in Readers, NEW freed \in {0, 1}, ReadNow(r, freed),
           freed = 0 => HasData /\ pc[r] \in {"idle", "suspending"},
           freed = 1 => count > 0 /\ pc[r] = "woken",
           calls' \in [Coroutines -> 0..MaxCalls]
    PROVE  TypeOK' /\ WaitInv'
  <1>1. /\ last' = buffer[readPos] /\ buffer' = [buffer EXCEPT ![readPos] = None]
        /\ readPos' = Advance(readPos) /\ count' = count - 1
        /\ UNCHANGED <<writePos, closed, readers>>
        /\ readReserved' = readReserved - freed
    BY DEF ReadNow, DoRead, WakeWriter
  <1>2. /\ pc' \in [Coroutines -> {"idle", "suspending", "waiting", "woken"}]
        /\ pc'[r] = "idle" /\ \A d \in Readers : d # r => pc'[d] = pc[d]
    <2>1. CASE writers = << >>
      BY <2>1, Sides DEF ReadNow, WakeWriter, TypeOK
    <2>2. CASE writers # << >>
      <3>1. Head(writers) \in Writers
        BY <2>2, HeadTailProperties DEF TypeOK
      <3>2. pc' = [pc EXCEPT ![r] = "idle", ![Head(writers)] = "woken"]
        BY <2>2 DEF ReadNow, WakeWriter
      <3> QED
        BY <3>1, <3>2, Sides DEF TypeOK
    <2> QED
      BY <2>1, <2>2
  <1>3. /\ Queued(readers, pc') /\ readReserved' \in Nat
        /\ readReserved' = Cardinality(Woken(Readers, pc'))
    <2>1. CASE freed = 0
      <3>1. Queued(readers, pc') /\ Woken(Readers, pc') = Woken(Readers, pc)
        <4>1. \A d \in Readers : /\ pc[d] = "woken" <=> pc'[d] = "woken"
                                 /\ pc[d] = "waiting" => pc'[d] = "waiting"
          BY <1>2, <2>1
        <4> QED
          BY <4>1, Queues, SideSame
      <3> QED
        BY <1>1, <2>1, <3>1, Owned DEF TypeOK, WaitInv
    <2>2. CASE freed = 1
      <3>1. /\ Queued(readers, pc')
            /\ Cardinality(Woken(Readers, pc)) \in Nat \ {0}
            /\ Cardinality(Woken(Readers, pc')) = Cardinality(Woken(Readers, pc)) - 1
        <4>1. pc[r] = "woken" /\ pc'[r] # "woken"
          BY <1>2, <2>2
        <4> QED
          BY <1>2, <4>1, Queues, Sides, SideLeave
      <3> QED
        BY <1>1, <2>2, <3>1, Owned DEF TypeOK, WaitInv
    <2> QED
      BY <2>1, <2>2
  <1>4. /\ writers' \in Seq(Writers) /\ Queued(writers', pc')
        /\ writeReserved' = Cardinality(Woken(Writers, pc'))
        /\ writers = << >> => writeReserved' = writeReserved /\ writers' = << >>
        /\ writers # << >> => writeReserved' = writeReserved + 1
    <2>1. CASE writers = << >>
      <3>1. \A w \in Writers : pc'[w] = pc[w]
        BY <2>1, Sides DEF ReadNow, WakeWriter, TypeOK
      <3>2. Queued(writers, pc') /\ Woken(Writers, pc') = Woken(Writers, pc)
        BY <3>1, Queues, SideSame
      <3>3. writeReserved' = writeReserved /\ writers' = writers
        BY <2>1 DEF ReadNow, WakeWriter
      <3> QED
        BY <2>1, <3>2, <3>3, Owned DEF TypeOK, WaitInv
    <2>2. CASE writers # << >>
      <3>1. Head(writers) \in Writers
        BY <2>2, HeadTailProperties DEF TypeOK
      <3>2. /\ pc' = [pc EXCEPT ![r] = "idle", ![Head(writers)] = "woken"]
            /\ writers' = Tail(writers) /\ writeReserved' = writeReserved + 1
        BY <2>2 DEF ReadNow, WakeWriter
      <3>3. /\ pc'[Head(writers)] = "woken"
            /\ \A w \in Writers : w # Head(writers) => pc'[w] = pc[w]
        BY <3>1, <3>2, Sides DEF TypeOK
      <3>4. /\ Tail(writers) \in Seq(Writers) /\ Queued(Tail(writers), pc')
            /\ Cardinality(Woken(Writers, pc')) = Cardinality(Woken(Writers, pc)) + 1
        BY <2>2, <3>3, Queues, Sides, SideWake
      <3> QED
        BY <2>2, <3>2, <3>4, Owned DEF WaitInv
    <2> QED
      BY <2>1, <2>2
  <1>5. writeReserved' \in Nat
    BY <1>4 DEF TypeOK
  <1>6. count > 0 /\ count' \in Nat
    BY <1>1 DEF TypeOK, HasData
  <1>7. TypeOK'
    <2>1. /\ buffer' \in [Slots -> Values \cup {None}] /\ readPos' \in Slots
          /\ last' \in Values \cup {None}
      BY <1>1, AdvanceType DEF TypeOK
    <2> QED
      BY <1>1, <1>2, <1>3, <1>4, <1>5, <1>6, <2>1 DEF TypeOK
  <1>8. ReservationsAreOwned' /\ QueueInv'
    BY <1>1, <1>3, <1>4, Owned DEF QueueInv
  <1>9. RoomInv'
    <2>1. ~closed => readReserved' <= count'
      BY <1>1 DEF TypeOK, WaitInv, RoomInv, HasData
    <2>2. ~closed => count' + writeReserved' <= Capacity
      BY <1>1, <1>4, ChannelAssumption DEF TypeOK, WaitInv, RoomInv
    <2> QED
      BY <1>1, <2>1, <2>2, ChannelAssumption DEF TypeOK, WaitInv, RoomInv
  <1>10. NobodyWaitsInVain'
    <2>1. readers # << >> => ~closed /\ ~HasData'
      BY <1>1 DEF TypeOK, WaitInv, NobodyWaitsInVain, HasData
    <2>2. writers' # << >> => ~closed /\ ~HasRoom'
      BY <1>1, <1>4, ChannelAssumption DEF TypeOK, WaitInv, NobodyWaitsInVain, HasRoom
    <2> QED
      BY <1>1, <2>1, <2>2 DEF NobodyWaitsInVain
  <1> QED
    BY <1>7, <1>8, <1>9, <1>10 DEF WaitInv

\* A writer parks because there is no room for it.
LEMMA WriterParks ==
    ASSUME TypeOK, WaitInv, NEW w \in Writers, pc[w] = "suspending", ~closed, ~HasRoom,
           writers' = Append(writers, w), Goto(w, "waiting"),
           UNCHANGED <<writeReserved, readReserved, readers, calls>>
    PROVE  TypeOK' /\ WaitInv'
  <1>1. /\ UNCHANGED <<buffer, writePos, readPos, count, last, closed>>
        /\ pc' = [pc EXCEPT ![w] = "waiting"]
    BY DEF Goto, ringVars
  <1>2. /\ pc' \in [Coroutines -> {"idle", "suspending", "waiting", "woken"}]
        /\ pc'[w] = "waiting" /\ \A d \in Writers : d # w => pc'[d] = pc[d]
        /\ \A r \in Readers : pc'[r] = pc[r]
    BY <1>1, Sides DEF TypeOK
  <1>3. /\ writers' \in Seq(Writers) /\ Queued(writers', pc')
        /\ Woken(Writers, pc') = Woken(Writers, pc)
    BY <1>2, Queues, SidePark
  <1>4. Queued(readers, pc') /\ Woken(Readers, pc') = Woken(Readers, pc)
    BY <1>2, Queues, SideSame
  <1>5. TypeOK'
    BY <1>1, <1>2, <1>3 DEF TypeOK
  <1>6. ReservationsAreOwned' /\ QueueInv'
    BY <1>3, <1>4, Owned DEF WaitInv, QueueInv
  <1>7. RoomInv' /\ NobodyWaitsInVain'
    BY <1>1 DEF WaitInv, RoomInv, NobodyWaitsInVain, HasData, HasRoom
  <1> QED
    BY <1>5, <1>6, <1>7 DEF WaitInv

\* A reader parks because there is no element for it.
LEMMA ReaderParks ==
    ASSUME TypeOK, WaitInv, NEW r \in Readers, pc[r] = "suspending", ~closed, ~HasData,
           readers' = Append(readers, r), Goto(r, "waiting"),
           UNCHANGED <<writeReserved, readReserved, writers, calls>>
    PROVE  TypeOK' /\ WaitInv'
  <1>1. /\ UNCHANGED <<buffer, writePos, readPos, count, last, closed>>
        /\ pc' = [pc EXCEPT ![r] = "waiting"]
    BY DEF Goto, ringVars
  <1>2. /\ pc' \in [Coroutines -> {"idle", "suspending", "waiting", "woken"}]
        /\ pc'[r] = "waiting" /\ \A d \in Readers : d # r => pc'[d] = pc[d]
        /\ \A w \in Writers : pc'[w] = pc[w]
    BY <1>1, Sides DEF TypeOK
  <1>3. /\ readers' \in Seq(Readers) /\ Queued(readers', pc')
        /\ Woken(Readers, pc') = Woken(Readers, pc)
    BY <1>2, Queues, SidePark
  <1>4. Queued(writers, pc') /\ Woken(Writers, pc') = Woken(Writers, pc)
    BY <1>2, Queues, SideSame
  <1>5. TypeOK'
    BY <1>1, <1>2, <1>3 DEF TypeOK
  <1>6. ReservationsAreOwned' /\ QueueInv'
    BY <1>3, <1>4, Owned DEF WaitInv, QueueInv
  <1>7. RoomInv' /\ NobodyWaitsInVain'
    BY <1>1 DEF WaitInv, RoomInv, NobodyWaitsInVain, HasData, HasRoom
  <1> QED
    BY <1>5, <1>6, <1>7 DEF WaitInv

\* A woken writer finds the channel closed and gives its reservation back.
LEMMA WriterGivesUp ==
    ASSUME TypeOK, WaitInv, NEW w \in Writers, pc[w] = "woken", closed, Goto(w, "idle"),
           writeReserved' = writeReserved - 1,
           UNCHANGED <<readReserved, readers, writers, calls>>
    PROVE  TypeOK' /\ WaitInv'
  <1>1. /\ UNCHANGED <<buffer, writePos, readPos, count, last, closed>>
        /\ pc' = [pc EXCEPT ![w] = "idle"]
    BY DEF Goto, ringVars
  <1>2. /\ pc' \in [Coroutines -> {"idle", "suspending", "waiting", "woken"}]
        /\ pc'[w] # "woken" /\ \A d \in Writers : d # w => pc'[d] = pc[d]
        /\ \A r \in Readers : pc'[r] = pc[r]
    BY <1>1, Sides DEF TypeOK
  <1>3. /\ Queued(writers, pc') /\ Cardinality(Woken(Writers, pc)) \in Nat \ {0}
        /\ Cardinality(Woken(Writers, pc')) = Cardinality(Woken(Writers, pc)) - 1
    BY <1>2, Queues, Sides, SideLeave
  <1>4. Queued(readers, pc') /\ Woken(Readers, pc') = Woken(Readers, pc)
    BY <1>2, Queues, SideSame
  <1>5. writeReserved' \in Nat
    BY <1>3, Owned DEF WaitInv
  <1>6. TypeOK'
    BY <1>1, <1>2, <1>5 DEF TypeOK
  <1>7. ReservationsAreOwned' /\ QueueInv'
    BY <1>3, <1>4, Owned DEF WaitInv, QueueInv
  <1>8. RoomInv' /\ NobodyWaitsInVain'
    BY <1>1 DEF WaitInv, RoomInv, NobodyWaitsInVain
  <1> QED
    BY <1>6, <1>7, <1>8 DEF WaitInv

\* A woken reader finds nothing.  Its reservation excludes that on an open
\* channel; on a closed one it is given back.
LEMMA ReaderGivesUp ==
    ASSUME TypeOK, WaitInv, NEW r \in Readers, pc[r] = "woken", count <= 0, Goto(r, "idle"),
           readReserved' = IF closed THEN readReserved - 1 ELSE readReserved,
           UNCHANGED <<writeReserved, readers, writers, calls>>
    PROVE  TypeOK' /\ WaitInv'
  <1>1. /\ UNCHANGED <<buffer, writePos, readPos, count, last, closed>>
        /\ pc' = [pc EXCEPT ![r] = "idle"]
    BY DEF Goto, ringVars
  <1>2. /\ pc' \in [Coroutines -> {"idle", "suspending", "waiting", "woken"}]
        /\ pc'[r] # "woken" /\ \A d \in Readers : d # r => pc'[d] = pc[d]
        /\ \A w \in Writers : pc'[w] = pc[w]
    BY <1>1, Sides DEF TypeOK
  <1>3. /\ Queued(readers, pc') /\ Cardinality(Woken(Readers, pc)) \in Nat \ {0}
        /\ Cardinality(Woken(Readers, pc')) = Cardinality(Woken(Readers, pc)) - 1
    BY <1>2, Queues, Sides, SideLeave
  <1>4. Queued(writers, pc') /\ Woken(Writers, pc') = Woken(Writers, pc)
    BY <1>2, Queues, SideSame
  <1>5. closed
    BY <1>3, Owned DEF WaitInv, RoomInv, TypeOK
  <1>6. readReserved' = readReserved - 1 /\ readReserved' \in Nat
    BY <1>3, <1>5, Owned DEF WaitInv
  <1>7. TypeOK'
    BY <1>1, <1>2, <1>6 DEF TypeOK
  <1>8. ReservationsAreOwned' /\ QueueInv'
    BY <1>3, <1>4, <1>6, Owned DEF WaitInv, QueueInv
  <1>9. RoomInv' /\ NobodyWaitsInVain'
    BY <1>1, <1>5 DEF WaitInv, RoomInv, NobodyWaitsInVain
  <1> QED
    BY <1>7, <1>8, <1>9 DEF WaitInv

\* close() wakes everybody who is parked, with a reservation each.
LEMMA CloseStep ==
    ASSUME TypeOK, WaitInv, Close
    PROVE  TypeOK' /\ WaitInv'
  <1>1. /\ UNCHANGED <<buffer, writePos, readPos, count, last, calls>>
        /\ closed' = TRUE /\ readers' = << >> /\ writers' = << >>
        /\ readReserved' = readReserved + Len(readers)
        /\ writeReserved' = writeReserved + Len(writers)
        /\ pc' = [c \in Coroutines |-> IF Parked(c) THEN "woken" ELSE pc[c]]
    BY DEF Close, ringVars
  <1>2. /\ DOMAIN readers = 1..Len(readers) /\ Len(readers) \in Nat
        /\ DOMAIN writers = 1..Len(writers) /\ Len(writers) \in Nat
        /\ \A i \in 1..Len(readers) : readers[i] \in Readers
        /\ \A i \in 1..Len(writers) : writers[i] \in Writers
    BY DEF TypeOK
  <1>3. \A r \in Readers :
           pc'[r] = IF \E i \in 1..Len(readers) : readers[i] = r THEN "woken" ELSE pc[r]
    BY <1>1, <1>2, Sides DEF Parked
  <1>4. \A w \in Writers :
           pc'[w] = IF \E i \in 1..Len(writers) : writers[i] = w THEN "woken" ELSE pc[w]
    BY <1>1, <1>2, Sides DEF Parked
  <1>5. Cardinality(Woken(Readers, pc')) = Cardinality(Woken(Readers, pc)) + Len(readers)
    <2>1. IsFiniteSet(Readers) /\ readers \in Seq(Readers) /\ Queued(readers, pc)
      BY Queues, Sides
    <2> QED
      BY <1>3, <2>1, SideWakeAll
  <1>6. Cardinality(Woken(Writers, pc')) = Cardinality(Woken(Writers, pc)) + Len(writers)
    <2>1. IsFiniteSet(Writers) /\ writers \in Seq(Writers) /\ Queued(writers, pc)
      BY Queues, Sides
    <2> QED
      BY <1>4, <2>1, SideWakeAll
  <1>7. pc' \in [Coroutines -> {"idle", "suspending", "waiting", "woken"}]
    BY <1>1 DEF TypeOK
  <1>8. TypeOK'
    <2>1. readers' \in Seq(Readers) /\ writers' \in Seq(Writers)
      BY <1>1, EmptySeq
    <2> QED
      BY <1>1, <1>2, <1>7, <2>1 DEF TypeOK
  <1>9. ReservationsAreOwned'
    BY <1>1, <1>5, <1>6, Owned DEF WaitInv
  <1>10. QueueInv'
    <2>1. Len(readers') = 0 /\ Len(writers') = 0
      BY <1>1, EmptySeq
    <2> QED
      BY <2>1 DEF QueueInv, Queued
  <1>11. RoomInv'
    BY <1>1 DEF WaitInv, RoomInv
  <1>12. NobodyWaitsInVain'
    BY <1>1 DEF NobodyWaitsInVain
  <1> QED
    BY <1>8, <1>9, <1>10, <1>11, <1>12 DEF WaitInv

-----------------------------------------------------------------------------
(* The ring.                                                                *)

\* Positions and counts never add up to two laps.
LEMMA Wrap ==
    /\ \A i \in Nat : i < Capacity => i % Capacity = i
    /\ \A i \in Nat : Capacity <= i /\ i < 2 * Capacity => i % Capacity = i - Capacity
  <1>1. \A i \in Nat : i < Capacity => i % Capacity = i
    BY ChannelAssumption
  <1>2. ASSUME NEW i \in Nat, Capacity <= i, i < 2 * Capacity
        PROVE  i % Capacity = i - Capacity
    BY <1>2, ChannelAssumption
  <1> QED
    BY <1>1, <1>2

\* The position n elements on, one further on.
LEMMA AdvanceBack ==
    ASSUME NEW i \in Slots, NEW n \in Nat, n < Capacity
    PROVE  /\ (i + n) % Capacity \in Slots
           /\ Advance((i + n) % Capacity) = (i + (n + 1)) % Capacity
  <1> USE ChannelAssumption DEF Slots
  <1>1. CASE i + n < Capacity
    <2>1. (i + n) % Capacity = i + n
      BY <1>1, Wrap
    <2>2. CASE i + n + 1 < Capacity
      <3>1. (i + (n + 1)) % Capacity = i + (n + 1)
        BY <2>2, Wrap
      <3> QED
        BY <1>1, <2>1, <2>2, <3>1 DEF Advance
    <2>3. CASE i + n + 1 = Capacity
      <3>1. (i + (n + 1)) % Capacity = 0
        BY <2>3, Wrap
      <3> QED
        BY <1>1, <2>1, <2>3, <3>1 DEF Advance
    <2> QED
      BY <1>1, <2>2, <2>3
  <1>2. CASE Capacity <= i + n
    <2>1. (i + n) % Capacity = i + n - Capacity
      BY <1>2, Wrap
    <2>2. (i + (n + 1)) % Capacity = i + (n + 1) - Capacity
      BY <1>2, Wrap
    <2> QED
      BY <1>2, <2>1, <2>2 DEF Advance
  <1> QED
    BY <1>1, <1>2

\* The position n elements after the next one.
LEMMA AdvanceFront ==
    ASSUME NEW i \in Slots, NEW n \in Nat, n < Capacity
    PROVE  (Advance(i) + n) % Capacity = (i + (n + 1)) % Capacity
  <1> USE ChannelAssumption DEF Slots
  <1>1. CASE i + 1 < Capacity
    <2>1. Advance(i) = i + 1
      BY <1>1 DEF Advance
    <2>2. Advance(i) + n = i + (n + 1)
      BY <2>1
    <2> QED
      BY <2>2
  <1>2. CASE i + 1 = Capacity
    <2>1. Advance(i) = 0
      BY <1>2 DEF Advance
    <2>2. (Advance(i) + n) % Capacity = n
      BY <2>1, Wrap
    <2>3. i + (n + 1) = Capacity + n
      BY <1>2
    <2>4. (i + (n + 1)) % Capacity = n
      BY <2>3, Wrap
    <2> QED
      BY <2>2, <2>4
  <1> QED
    BY <1>1, <1>2

\* Two of the Capacity positions from i on are different slots.
LEMMA SlotsDiffer ==
    ASSUME NEW i \in Slots, NEW m \in Nat, NEW n \in Nat, m < n, n < Capacity
    PROVE  (i + m) % Capacity # (i + n) % Capacity
  <1> USE ChannelAssumption DEF Slots
  <1>1. CASE i + n < Capacity
    <2>1. (i + m) % Capacity = i + m /\ (i + n) % Capacity = i + n
      BY <1>1, Wrap
    <2> QED
      BY <2>1
  <1>2. CASE i + m < Capacity /\ Capacity <= i + n
    <2>1. (i + m) % Capacity = i + m
      BY <1>2, Wrap
    <2>2. (i + n) % Capacity = i + n - Capacity
      BY <1>2, Wrap
    <2> QED
      BY <2>1, <2>2
  <1>3. CASE Capacity <= i + m
    <2>1. (i + m) % Capacity = i + m - Capacity
      BY <1>3, Wrap
    <2>2. (i + n) % Capacity = i + n - Capacity
      BY <1>3, Wrap
    <2> QED
      BY <2>1, <2>2
  <1> QED
    BY <1>1, <1>2, <1>3

-----------------------------------------------------------------------------
(* What a step of a coroutine does to the channel: it looks, writes, reads,  *)
(* parks, or gives up a reservation.                                        *)

Looks(c) ==
    /\ pc[c] \in {"idle", "suspending"} /\ UNCHANGED waitVars
    /\ \E l \in {"idle", "suspending"} : Goto(c, l)

Writes(w) ==
    /\ ~closed
    /\ \E v \in Values, freed \in {0, 1} :
          /\ WriteNow(w, v, freed)
          /\ freed = 0 => HasRoom /\ pc[w] \in {"idle", "suspending"}
          /\ freed = 1 => pc[w] = "woken"

Reads(r) ==
    \E freed \in {0, 1} :
        /\ ReadNow(r, freed)
        /\ freed = 0 => HasData /\ pc[r] \in {"idle", "suspending"}
        /\ freed = 1 => count > 0 /\ pc[r] = "woken"

WriteParks(w) ==
    /\ pc[w] = "suspending" /\ ~closed /\ ~HasRoom
    /\ writers' = Append(writers, w) /\ Goto(w, "waiting")
    /\ UNCHANGED <<writeReserved, readReserved, readers, calls>>

ReadParks(r) ==
    /\ pc[r] = "suspending" /\ ~closed /\ ~HasData
    /\ readers' = Append(readers, r) /\ Goto(r, "waiting")
    /\ UNCHANGED <<writeReserved, readReserved, writers, calls>>

WriteGivesUp(w) ==
    /\ pc[w] = "woken" /\ closed /\ Goto(w, "idle")
    /\ writeReserved' = writeReserved - 1
    /\ UNCHANGED <<readReserved, readers, writers, calls>>

ReadGivesUp(r) ==
    /\ pc[r] = "woken" /\ count <= 0 /\ Goto(r, "idle")
    /\ readReserved' = IF closed THEN readReserved - 1 ELSE readReserved
    /\ UNCHANGED <<writeReserved, readers, writers, calls>>

\* A coroutine counts its call when it begins it.
Calls(c) == Begin(c) \/ (UNCHANGED calls /\ pc[c] # "idle")

\* What Calls() means for the call counters.
LEMMA CallsStep ==
    ASSUME TypeOK, CallInv, NEW c \in Coroutines, Calls(c)
    PROVE  /\ calls' \in [Coroutines -> 0..MaxCalls]
           /\ c \in Writers => calls'[c] >= 1 /\ <<c, calls'[c]>> \in Values
           /\ \A d \in Coroutines : d # c => calls'[d] = calls[d]
  <1>1. CASE Begin(c)
    <2>1. calls' \in [Coroutines -> 0..MaxCalls] /\ calls'[c] \in 1..MaxCalls
      BY <1>1, ChannelAssumption DEF Begin, TypeOK
    <2>2. \A d \in Coroutines : d # c => calls'[d] = calls[d]
      BY <1>1 DEF Begin, TypeOK
    <2> QED
      BY <2>1, <2>2 DEF Values
  <1>2. CASE UNCHANGED calls /\ pc[c] # "idle"
    <2>1. calls' = calls /\ calls' \in [Coroutines -> 0..MaxCalls]
      BY <1>2 DEF TypeOK
    <2>2. c \in Writers => calls'[c] \in 1..MaxCalls
      BY <1>2, <2>1, ChannelAssumption DEF CallInv
    <2> QED
      BY <2>1, <2>2 DEF Values
  <1> QED
    BY <1>1, <1>2 DEF Calls

\* The five kinds of step of a writer.
LEMMA WriterKinds ==
    ASSUME TypeOK, CallInv, NEW w \in Writers,
           WriteReady(w) \/ TryWrite(w) \/ WriterStep(w)
    PROVE  Calls(w) /\ (Looks(w) \/ Writes(w) \/ WriteParks(w) \/ WriteGivesUp(w))
  <1>1. Calls(w)
    BY DEF WriteReady, TryWrite, WriterStep, WriteSuspend, WriteResume, Calls
  <1> SUFFICES Looks(w) \/ Writes(w) \/ WriteParks(w) \/ WriteGivesUp(w)
    BY <1>1
  <1>2. w \in Coroutines
    BY Sides
  <1>3. <<w, calls'[w]>> \in Values
    BY <1>1, <1>2, CallsStep
  <1>4. UNCHANGED calls => ValueOf(w) \in Values
    BY <1>3 DEF ValueOf
  <1>5. CASE WriteReady(w)
    <2>1. CASE ~closed /\ HasRoom /\ WriteNow(w, <<w, calls'[w]>>, 0)
      BY <1>3, <1>5, <2>1 DEF WriteReady, Writes
    <2>2. CASE ~(~closed /\ HasRoom /\ WriteNow(w, <<w, calls'[w]>>, 0))
      BY <1>5, <2>2 DEF WriteReady, Looks
    <2> QED
      BY <2>1, <2>2
  <1>6. CASE TryWrite(w)
    <2>1. CASE ~closed /\ HasRoom /\ WriteNow(w, <<w, calls'[w]>>, 0)
      BY <1>3, <1>6, <2>1 DEF TryWrite, Writes
    <2>2. CASE ~(~closed /\ HasRoom /\ WriteNow(w, <<w, calls'[w]>>, 0))
      BY <1>6, <2>2 DEF TryWrite, Looks
    <2> QED
      BY <2>1, <2>2
  <1>7. CASE WriteSuspend(w)
    <2>1. CASE ~closed /\ HasRoom /\ WriteNow(w, ValueOf(w), 0)
      BY <1>4, <1>7, <2>1 DEF WriteSuspend, Writes
    <2>2. CASE closed /\ Goto(w, "idle") /\ UNCHANGED waitVars
      BY <1>7, <2>2 DEF WriteSuspend, Looks
    <2>3. CASE /\ ~closed /\ ~HasRoom
               /\ writers' = Append(writers, w)
               /\ Goto(w, "waiting")
               /\ UNCHANGED <<writeReserved, readReserved, readers>>
      BY <1>7, <2>3 DEF WriteSuspend, WriteParks
    <2> QED
      BY <1>7, <2>1, <2>2, <2>3 DEF WriteSuspend
  <1>8. CASE WriteResume(w)
    <2>1. CASE ~closed /\ WriteNow(w, ValueOf(w), 1)
      BY <1>4, <1>8, <2>1 DEF WriteResume, Writes
    <2>2. CASE /\ closed /\ Goto(w, "idle")
               /\ writeReserved' = writeReserved - 1
               /\ UNCHANGED <<readReserved, readers, writers>>
      BY <1>8, <2>2 DEF WriteResume, WriteGivesUp
    <2> QED
      BY <1>8, <2>1, <2>2 DEF WriteResume
  <1> QED
    BY <1>5, <1>6, <1>7, <1>8 DEF WriterStep

\* The five kinds of step of a reader.
LEMMA ReaderKinds ==
    ASSUME TypeOK, NEW r \in Readers, ReadReady(r) \/ TryRead(r) \/ ReaderStep(r)
    PROVE  Calls(r) /\ (Looks(r) \/ Reads(r) \/ ReadParks(r) \/ ReadGivesUp(r))
  <1>1. Calls(r)
    BY DEF ReadReady, TryRead, ReaderStep, ReadSuspend, ReadResume, Calls
  <1> SUFFICES Looks(r) \/ Reads(r) \/ ReadParks(r) \/ ReadGivesUp(r)
    BY <1>1
  <1>2. CASE ReadReady(r)
    <2>1. CASE HasData /\ ReadNow(r, 0)
      BY <1>2, <2>1 DEF ReadReady, Reads
    <2>2. CASE ~(HasData /\ ReadNow(r, 0))
      BY <1>2, <2>2 DEF ReadReady, Looks
    <2> QED
      BY <2>1, <2>2
  <1>3. CASE TryRead(r)
    <2>1. CASE HasData /\ ReadNow(r, 0)
      BY <1>3, <2>1 DEF TryRead, Reads
    <2>2. CASE ~(HasData /\ ReadNow(r, 0))
      BY <1>3, <2>2 DEF TryRead, Looks
    <2> QED
      BY <2>1, <2>2
  <1>4. CASE ReadSuspend(r)
    <2>1. CASE HasData /\ ReadNow(r, 0)
      BY <1>4, <2>1 DEF ReadSuspend, Reads
    <2>2. CASE ~HasData /\ closed /\ Goto(r, "idle") /\ UNCHANGED waitVars
      BY <1>4, <2>2 DEF ReadSuspend, Looks
    <2>3. CASE /\ ~HasData /\ ~closed
               /\ readers' = Append(readers, r)
               /\ Goto(r, "waiting")
               /\ UNCHANGED <<writeReserved, readReserved, writers>>
      BY <1>4, <2>3 DEF ReadSuspend, ReadParks
    <2> QED
      BY <1>4, <2>1, <2>2, <2>3 DEF ReadSuspend
  <1>5. CASE ReadResume(r)
    <2>1. CASE count > 0 /\ ReadNow(r, 1)
      BY <1>5, <2>1 DEF ReadResume, Reads
    <2>2. CASE /\ count <= 0 /\ Goto(r, "idle")
               /\ readReserved' = IF closed THEN readReserved - 1 ELSE readReserved
               /\ UNCHANGED <<writeReserved, readers, writers>>
      BY <1>5, <2>2 DEF ReadResume, ReadGivesUp
    <2> QED
      BY <1>5, <2>1, <2>2 DEF ReadResume
  <1> QED
    BY <1>2, <1>3, <1>4, <1>5 DEF ReaderStep

\* Nobody else begins a call.
LEMMA OthersStay ==
    ASSUME TypeOK, WaitInv, NEW c \in Coroutines,
           \/ \E l : Goto(c, l)
           \/ c \in Writers /\ Writes(c)
           \/ c \in Readers /\ Reads(c)
    PROVE  \A d \in Writers : d # c /\ pc[d] = "idle" => pc'[d] = "idle"
  <1>1. CASE \E l : Goto(c, l)
    BY <1>1, Sides DEF Goto, TypeOK
  <1>2. CASE c \in Writers /\ Writes(c)
    <2>1. PICK v \in Values, freed \in {0, 1} : WriteNow(c, v, freed)
      BY <1>2 DEF Writes
    <2>2. CASE readers = << >>
      BY <2>1, <2>2, Sides DEF WriteNow, WakeReader, TypeOK
    <2>3. CASE readers # << >>
      <3>1. Head(readers) \in Readers
        BY <2>3, HeadTailProperties DEF TypeOK
      <3>2. pc' = [pc EXCEPT ![c] = "idle", ![Head(readers)] = "woken"]
        BY <2>1, <2>3 DEF WriteNow, WakeReader
      <3> QED
        BY <3>1, <3>2, Sides DEF TypeOK
    <2> QED
      BY <2>2, <2>3
  <1>3. CASE c \in Readers /\ Reads(c)
    <2>1. PICK freed \in {0, 1} : ReadNow(c, freed)
      BY <1>3 DEF Reads
    <2>2. CASE writers = << >>
      BY <2>1, <2>2, Sides DEF ReadNow, WakeWriter, TypeOK
    <2>3. CASE writers # << >>
      <3>1. /\ Len(writers) \in Nat \ {0}
            /\ Head(writers) = writers[1] /\ Head(writers) \in Writers
        BY <2>3, EmptySeq, HeadTailProperties DEF TypeOK
      <3>2. pc[Head(writers)] = "waiting"
        BY <3>1, Queues DEF Queued
      <3>3. pc' = [pc EXCEPT ![c] = "idle", ![Head(writers)] = "woken"]
        BY <2>1, <2>3 DEF ReadNow, WakeWriter
      <3> QED
        BY <3>1, <3>2, <3>3, Sides DEF TypeOK
    <2> QED
      BY <2>2, <2>3
  <1> QED
    BY <1>1, <1>2, <1>3

\* So every writer inside write() still has its value.
LEMMA CallInvStep ==
    ASSUME TypeOK, CallInv, NEW c \in Coroutines, Calls(c),
           \A d \in Writers : d # c /\ pc[d] = "idle" => pc'[d] = "idle"
    PROVE  CallInv'
  <1> SUFFICES ASSUME NEW d \in Writers, pc'[d] # "idle" PROVE calls'[d] >= 1
    BY DEF CallInv
  <1>1. CASE d = c
    BY <1>1, CallsStep
  <1>2. CASE d # c
    <2>1. calls'[d] = calls[d] /\ pc[d] # "idle"
      BY <1>2, CallsStep, Sides
    <2> QED
      BY <2>1 DEF CallInv
  <1> QED
    BY <1>1, <1>2

\* A writer writes into a free slot: it has found room or owns a reservation.
LEMMA WriterHasSlot ==
    ASSUME TypeOK, WaitInv, NEW w \in Writers, Writes(w)
    PROVE  count < Capacity
  <1>1. PICK v \in Values, freed \in {0, 1} :
           /\ WriteNow(w, v, freed)
           /\ freed = 0 => HasRoom /\ pc[w] \in {"idle", "suspending"}
           /\ freed = 1 => pc[w] = "woken"
    BY DEF Writes
  <1>2. CASE freed = 0
    BY <1>1, <1>2, ChannelAssumption DEF HasRoom, TypeOK
  <1>3. CASE freed = 1
    <2>1. w \in Woken(Writers, pc)
      BY <1>1, <1>3 DEF Woken
    <2>2. IsFiniteSet(Woken(Writers, pc))
      BY Sides, FS_Subset DEF Woken
    <2>3. writeReserved # 0
      BY <2>1, <2>2, FS_EmptySet, Owned DEF WaitInv
    <2> QED
      BY <2>3, ChannelAssumption DEF Writes, TypeOK, WaitInv, RoomInv
  <1> QED
    BY <1>2, <1>3

\* The positions stay count slots apart.
LEMMA RingStep ==
    ASSUME TypeOK, WaitInv, RingInv,
           \/ UNCHANGED <<readPos, writePos, count>>
           \/ \E w \in Writers : Writes(w)
           \/ \E r \in Readers : Reads(r)
    PROVE  RingInv'
  <1>1. CASE UNCHANGED <<readPos, writePos, count>>
    BY <1>1 DEF RingInv
  <1>2. CASE \E w \in Writers : Writes(w)
    <2>1. /\ writePos' = Advance(writePos) /\ count' = count + 1 /\ readPos' = readPos
      BY <1>2 DEF Writes, WriteNow, DoWrite
    <2>2. count \in Nat /\ count < Capacity /\ readPos \in Slots
      BY <1>2, WriterHasSlot DEF TypeOK
    <2>3. Advance((readPos + count) % Capacity) = (readPos + (count + 1)) % Capacity
      BY <2>2, AdvanceBack
    <2> QED
      BY <2>1, <2>3 DEF RingInv
  <1>3. CASE \E r \in Readers : Reads(r)
    <2>1. /\ readPos' = Advance(readPos) /\ count' = count - 1 /\ writePos' = writePos
      BY <1>3 DEF Reads, ReadNow, DoRead
    <2>2. count > 0
      BY <1>3 DEF Reads, HasData, TypeOK
    <2>3. /\ count - 1 \in Nat /\ count - 1 < Capacity /\ (count - 1) + 1 = count
          /\ readPos \in Slots
      BY <2>2, ChannelAssumption DEF TypeOK, WaitInv, RoomInv
    <2>4. (Advance(readPos) + (count - 1)) % Capacity
            = (readPos + ((count - 1) + 1)) % Capacity
      BY <2>3, AdvanceFront
    <2> QED
      BY <2>1, <2>3, <2>4 DEF RingInv
  <1> QED
    BY <1>1, <1>2, <1>3

\* Every step preserves the invariant.
LEMMA NextIInv == IInv /\ [Next]_vars => IInv'
  <1> SUFFICES ASSUME TypeOK, WaitInv, RingInv, CallInv, [Next]_vars
               PROVE  TypeOK' /\ WaitInv' /\ RingInv' /\ CallInv'
    BY DEF IInv
  <1>1. ASSUME NEW w \in Writers, WriteReady(w) \/ TryWrite(w) \/ WriterStep(w)
        PROVE  TypeOK' /\ WaitInv' /\ RingInv' /\ CallInv'
    <2>1. w \in Coroutines /\ Calls(w)
          /\ (Looks(w) \/ Writes(w) \/ WriteParks(w) \/ WriteGivesUp(w))
      BY <1>1, WriterKinds, Sides
    <2>2. calls' \in [Coroutines -> 0..MaxCalls]
      BY <2>1, CallsStep
    <2>3. (\E l : Goto(w, l)) \/ Writes(w)
      BY <2>1 DEF Looks, WriteParks, WriteGivesUp
    <2>4. CallInv'
      BY <2>1, <2>3, OthersStay, CallInvStep
    <2>5. RingInv'
      <3>1. (\E l : Goto(w, l)) => UNCHANGED <<readPos, writePos, count>>
        BY DEF Goto, ringVars
      <3> QED
        BY <2>3, <3>1, RingStep
    <2>6. CASE Looks(w)
      BY <2>1, <2>2, <2>4, <2>5, <2>6, QuietStep DEF Looks
    <2>7. CASE Writes(w)
      BY <2>2, <2>4, <2>5, <2>7, WriteNowStep DEF Writes
    <2>8. CASE WriteParks(w)
      BY <2>4, <2>5, <2>8, WriterParks DEF WriteParks
    <2>9. CASE WriteGivesUp(w)
      BY <2>4, <2>5, <2>9, WriterGivesUp DEF WriteGivesUp
    <2> QED
      BY <2>1, <2>6, <2>7, <2>8, <2>9
  <1>2. ASSUME NEW r \in Readers, ReadReady(r) \/ TryRead(r) \/ ReaderStep(r)
        PROVE  TypeOK' /\ WaitInv' /\ RingInv' /\ CallInv'
    <2>1. r \in Coroutines /\ Calls(r)
          /\ (Looks(r) \/ Reads(r) \/ ReadParks(r) \/ ReadGivesUp(r))
      BY <1>2, ReaderKinds, Sides
    <2>2. calls' \in [Coroutines -> 0..MaxCalls]
      BY <2>1, CallsStep
    <2>3. (\E l : Goto(r, l)) \/ Reads(r)
      BY <2>1 DEF Looks, ReadParks, ReadGivesUp
    <2>4. CallInv'
      BY <2>1, <2>3, OthersStay, CallInvStep
    <2>5. RingInv'
      <3>1. (\E l : Goto(r, l)) => UNCHANGED <<readPos, writePos, count>>
        BY DEF Goto, ringVars
      <3> QED
        BY <2>3, <3>1, RingStep
    <2>6. CASE Looks(r)
      BY <2>1, <2>2, <2>4, <2>5, <2>6, QuietStep DEF Looks
    <2>7. CASE Reads(r)
      BY <2>2, <2>4, <2>5, <2>7, ReadNowStep DEF Reads
    <2>8. CASE ReadParks(r)
      BY <2>4, <2>5, <2>8, ReaderParks DEF ReadParks
    <2>9. CASE ReadGivesUp(r)
      BY <2>4, <2>5, <2>9, ReaderGivesUp DEF ReadGivesUp
    <2> QED
      BY <2>1, <2>6, <2>7, <2>8, <2>9
  <1>3. CASE Close
    <2>1. TypeOK' /\ WaitInv'
      BY <1>3, CloseStep
    <2>2. RingInv'
      BY <1>3, RingStep DEF Close, ringVars
    <2>3. \A d \in Writers : pc[d] = "idle" => pc'[d] = "idle"
      <3>1. ASSUME NEW d \in Writers, pc[d] = "idle" PROVE ~Parked(d)
        BY <3>1, Queues, Sides DEF Parked, Queued
      <3> QED
        BY <1>3, <3>1, Sides DEF Close
    <2>4. CallInv'
      BY <1>3, <2>3 DEF Close, CallInv
    <2> QED
      BY <2>1, <2>2, <2>4
  <1>4. CASE UNCHANGED vars
    BY <1>4, Owned DEF vars, ringVars, waitVars, TypeOK, WaitInv, QueueInv, RoomInv,
       NobodyWaitsInVain, HasData, HasRoom, RingInv, CallInv
  <1> QED
    BY <1>1, <1>2, <1>3, <1>4 DEF Next

\* The invariant holds in every reachable state of the channel.
THEOREM InvariantHolds == Spec => []IInv
  BY InitIInv, NextIInv, PTL DEF Spec

\* Each reservation has exactly one owner, a coroutine that is woken and has
\* not run yet, and the counters never wrap.
THEOREM ReservationsHaveOwners == Spec => []ReservationsAreOwned
  <1>1. IInv => ReservationsAreOwned
    BY DEF IInv, WaitInv
  <1> QED
    BY InvariantHolds, <1>1, PTL

\* A co_await read() never comes back empty-handed from an open channel.
THEOREM ReadersFindData == Spec => []WokenReaderFindsData
  <1>1. IInv => WokenReaderFindsData
    <2> SUFFICES ASSUME IInv, WokenReaders # {}, ~closed PROVE count > 0
      BY DEF WokenReaderFindsData
    <2>1. IsFiniteSet(WokenReaders)
      BY Sides, FS_Subset DEF WokenReaders
    <2>2. Cardinality(WokenReaders) # 0
      BY <2>1, FS_EmptySet
    <2> QED
      BY <2>2 DEF IInv, TypeOK, WaitInv, RoomInv, ReservationsAreOwned
  <1> QED
    BY InvariantHolds, <1>1, PTL

\* No wake-up is lost.
THEOREM NoWaitInVain == Spec => []NobodyWaitsInVain
  <1>1. IInv => NobodyWaitsInVain
    BY DEF IInv, WaitInv
  <1> QED
    BY InvariantHolds, <1>1, PTL

-----------------------------------------------------------------------------
(* The refinement of FifoChannel.                                           *)

\* What a slot may hold.
Cell == Values \cup {None}

\* Contents is a sequence of count elements.
ContentsInv ==
    /\ Contents \in Seq(Cell) /\ Len(Contents) = count
    /\ \A k \in 1..count : /\ Contents[k] = buffer[(readPos + (k - 1)) % Capacity]
                           /\ (readPos + (k - 1)) % Capacity \in Slots

\* The invariant makes it one.
LEMMA ContentsView == IInv => ContentsInv
  <1> SUFFICES ASSUME IInv PROVE ContentsInv
    OBVIOUS
  <1>1. /\ count \in Nat /\ count <= Capacity /\ readPos \in Slots /\ readPos \in Nat
        /\ buffer \in [Slots -> Cell]
    BY ChannelAssumption DEF IInv, TypeOK, WaitInv, RoomInv, Slots, Cell
  <1>2. \A k \in 1..count : /\ k - 1 \in Nat /\ k - 1 < Capacity
                            /\ readPos + k - 1 = readPos + (k - 1)
    BY <1>1, ChannelAssumption
  <1>3. \A k \in 1..count : (readPos + (k - 1)) % Capacity \in Slots
    BY <1>1, <1>2, AdvanceBack
  <1>4. Contents = [k \in 1..count |-> buffer[(readPos + (k - 1)) % Capacity]]
    BY <1>2 DEF Contents
  <1>5. Contents \in [1..count -> Cell]
    BY <1>1, <1>3, <1>4
  <1>6. Contents \in Seq(Cell) /\ Len(Contents) = count
    BY <1>1, <1>5
  <1> QED
    BY <1>3, <1>4, <1>6 DEF ContentsInv

\* The same in the next state.
LEMMA ContentsViewNext == IInv' => ContentsInv'
  BY ContentsView, PTL

\* A write puts its value behind the others.
LEMMA WritesPut ==
    ASSUME IInv, IInv', NEW w \in Writers, Writes(w)
    PROVE  \E v \in Values : Fifo!Put(v)
  <1>1. PICK v \in Values, freed \in {0, 1} : WriteNow(w, v, freed)
    BY DEF Writes
  <1>2. /\ buffer' = [buffer EXCEPT ![writePos] = v]
        /\ count' = count + 1 /\ UNCHANGED <<readPos, last, closed>>
    BY <1>1 DEF WriteNow, DoWrite
  <1>3. /\ count \in Nat /\ count < Capacity /\ readPos \in Slots /\ writePos \in Slots
        /\ writePos = (readPos + count) % Capacity /\ buffer \in [Slots -> Cell]
    BY WriterHasSlot DEF IInv, TypeOK, RingInv, Cell
  <1>4. /\ Contents \in Seq(Cell) /\ Len(Contents) = count
        /\ \A k \in 1..count : /\ Contents[k] = buffer[(readPos + (k - 1)) % Capacity]
                               /\ (readPos + (k - 1)) % Capacity \in Slots
    BY ContentsView DEF ContentsInv
  <1>5. /\ Contents' \in Seq(Cell) /\ Len(Contents') = count + 1
        /\ \A k \in 1..(count + 1) :
              Contents'[k] = buffer'[(readPos + (k - 1)) % Capacity]
    BY <1>2, ContentsViewNext DEF ContentsInv
  <1>6. v \in Cell
    BY DEF Cell
  <1>7. /\ Append(Contents, v) \in Seq(Cell) /\ Len(Append(Contents, v)) = count + 1
        /\ \A k \in 1..count : Append(Contents, v)[k] = Contents[k]
        /\ Append(Contents, v)[count + 1] = v
    BY <1>4, <1>6, AppendProperties
  <1>8. \A k \in 1..(count + 1) : Contents'[k] = Append(Contents, v)[k]
    <2> SUFFICES ASSUME NEW k \in 1..(count + 1)
                 PROVE  Contents'[k] = Append(Contents, v)[k]
      OBVIOUS
    <2>1. CASE k \in 1..count
      <3>1. k - 1 \in Nat /\ k - 1 < count
        BY <1>3, <2>1
      <3>2. (readPos + (k - 1)) % Capacity # writePos
        BY <1>3, <3>1, SlotsDiffer
      <3>3. buffer'[(readPos + (k - 1)) % Capacity] = buffer[(readPos + (k - 1)) % Capacity]
        BY <1>2, <1>3, <1>4, <2>1, <3>2
      <3> QED
        BY <1>4, <1>5, <1>7, <2>1, <3>3
    <2>2. CASE k = count + 1
      <3>1. (readPos + (k - 1)) % Capacity = writePos
        BY <1>3, <2>2
      <3> QED
        BY <1>2, <1>3, <1>5, <1>7, <2>2, <3>1
    <2>3. k \in 1..count \/ k = count + 1
      BY <1>3
    <2> QED
      BY <2>1, <2>2, <2>3
  <1>9. Contents' = Append(Contents, v)
    BY <1>5, <1>7, <1>8, SeqEqual
  <1>10. Fifo!Put(v)
    BY <1>2, <1>3, <1>4, <1>9 DEF Fifo!Put, Writes
  <1> QED
    BY <1>10

\* A read hands out the oldest value.
LEMMA ReadsGet ==
    ASSUME IInv, IInv', NEW r \in Readers, Reads(r)
    PROVE  Fifo!Get
  <1>1. /\ last' = buffer[readPos] /\ buffer' = [buffer EXCEPT ![readPos] = None]
        /\ readPos' = Advance(readPos) /\ count' = count - 1 /\ UNCHANGED closed
    BY DEF Reads, ReadNow, DoRead
  <1>2. /\ count \in Nat /\ count > 0 /\ count <= Capacity /\ readPos \in Slots
        /\ buffer \in [Slots -> Cell]
    BY DEF Reads, HasData, IInv, TypeOK, WaitInv, RoomInv, Cell
  <1>3. /\ Contents \in Seq(Cell) /\ Len(Contents) = count
        /\ \A k \in 1..count : /\ Contents[k] = buffer[(readPos + (k - 1)) % Capacity]
                               /\ (readPos + (k - 1)) % Capacity \in Slots
    BY ContentsView DEF ContentsInv
  <1>4. /\ Contents' \in Seq(Cell) /\ Len(Contents') = count - 1
        /\ \A k \in 1..(count - 1) :
              Contents'[k] = buffer'[(Advance(readPos) + (k - 1)) % Capacity]
    BY <1>1, ContentsViewNext DEF ContentsInv
  <1>5. Contents # << >>
    BY <1>2, <1>3
  <1>6. /\ Tail(Contents) \in Seq(Cell) /\ Len(Tail(Contents)) = count - 1
        /\ \A k \in 1..(count - 1) : Tail(Contents)[k] = Contents[k + 1]
    BY <1>3, <1>5, HeadTailProperties
  <1>7. readPos = (readPos + 0) % Capacity
    <2>1. readPos \in Nat /\ readPos < Capacity /\ readPos + 0 = readPos
      BY <1>2, ChannelAssumption DEF Slots
    <2> QED
      BY <2>1, Wrap
  <1>8. \A k \in 1..(count - 1) : Contents'[k] = Tail(Contents)[k]
    <2> SUFFICES ASSUME NEW k \in 1..(count - 1) PROVE Contents'[k] = Tail(Contents)[k]
      OBVIOUS
    <2>1. /\ k - 1 \in Nat /\ k - 1 < Capacity /\ (k - 1) + 1 = k /\ k \in Nat
          /\ k + 1 \in 1..count /\ (k + 1) - 1 = k /\ 0 < k /\ k < Capacity
      BY <1>2, ChannelAssumption
    <2>2. (Advance(readPos) + (k - 1)) % Capacity = (readPos + ((k - 1) + 1)) % Capacity
      BY <1>2, <2>1, AdvanceFront
    <2>3. (Advance(readPos) + (k - 1)) % Capacity = (readPos + k) % Capacity
      BY <2>1, <2>2
    <2>4. /\ Contents[k + 1] = buffer[(readPos + ((k + 1) - 1)) % Capacity]
          /\ (readPos + ((k + 1) - 1)) % Capacity \in Slots
      BY <1>3, <2>1
    <2>5. /\ Contents[k + 1] = buffer[(readPos + k) % Capacity]
          /\ (readPos + k) % Capacity \in Slots
      BY <2>1, <2>4
    <2>6. (readPos + 0) % Capacity # (readPos + k) % Capacity
      BY <1>2, <2>1, SlotsDiffer
    <2>7. buffer'[(readPos + k) % Capacity] = buffer[(readPos + k) % Capacity]
      BY <1>1, <1>2, <1>7, <2>5, <2>6
    <2> QED
      BY <1>4, <1>6, <2>3, <2>5, <2>7
  <1>9. Contents' = Tail(Contents)
    BY <1>4, <1>6, <1>8, SeqEqual
  <1>10. last' = Head(Contents)
    <2>1. 1 \in 1..count /\ 1 - 1 = 0
      BY <1>2
    <2>2. Contents[1] = buffer[(readPos + (1 - 1)) % Capacity]
      BY <1>3, <2>1
    <2>3. Contents[1] = buffer[readPos]
      BY <1>7, <2>1, <2>2
    <2>4. Head(Contents) = Contents[1]
      BY <1>3, <1>5
    <2> QED
      BY <1>1, <2>3, <2>4
  <1> QED
    BY <1>1, <1>5, <1>9, <1>10 DEF Fifo!Get

\* The ring of coroutine/channel.hpp, its two positions and the places that read
\* and write it implement one FIFO: no value is lost, duplicated or reordered,
\* and nothing is accepted after close().
THEOREM Refinement == Spec => ImplementsFifo
  <1>1. Init => Fifo!ChannelInit
    <2> SUFFICES ASSUME Init PROVE Fifo!ChannelInit
      OBVIOUS
    <2>1. Contents \in Seq(Cell) /\ Len(Contents) = count
      BY InitIInv, ContentsView DEF ContentsInv
    <2>2. count = 0 /\ closed = FALSE /\ last = None
      BY DEF Init
    <2>3. Contents = << >>
      BY <2>1, <2>2, EmptySeq
    <2> QED
      BY <2>2, <2>3 DEF Fifo!ChannelInit
  <1>2. IInv /\ IInv' /\ [Next]_vars => [Fifo!ChannelNext]_<<Contents, closed, last>>
    <2> SUFFICES ASSUME IInv, IInv', [Next]_vars
                 PROVE  Fifo!ChannelNext \/ UNCHANGED <<Contents, closed, last>>
      OBVIOUS
    <2>1. UNCHANGED <<buffer, readPos, count>> => UNCHANGED Contents
      BY DEF Contents
    <2>2. ASSUME NEW c, NEW l, Goto(c, l) PROVE UNCHANGED <<Contents, closed, last>>
      BY <2>1, <2>2 DEF Goto, ringVars
    <2>3. ASSUME NEW w \in Writers, WriteReady(w) \/ TryWrite(w) \/ WriterStep(w)
          PROVE  Fifo!ChannelNext \/ UNCHANGED <<Contents, closed, last>>
      <3>1. (\E l : Goto(w, l)) \/ Writes(w)
        BY <2>3, WriterKinds DEF IInv, Looks, WriteParks, WriteGivesUp
      <3> QED
        BY <2>2, <3>1, WritesPut DEF Fifo!ChannelNext
    <2>4. ASSUME NEW r \in Readers, ReadReady(r) \/ TryRead(r) \/ ReaderStep(r)
          PROVE  Fifo!ChannelNext \/ UNCHANGED <<Contents, closed, last>>
      <3>1. (\E l : Goto(r, l)) \/ Reads(r)
        BY <2>4, ReaderKinds DEF IInv, Looks, ReadParks, ReadGivesUp
      <3> QED
        BY <2>2, <3>1, ReadsGet DEF Fifo!ChannelNext
    <2>5. CASE Close
      <3>1. closed' = TRUE /\ UNCHANGED <<buffer, readPos, count, last>>
        BY <2>5 DEF Close, ringVars
      <3> QED
        BY <2>1, <3>1 DEF Fifo!ChannelNext, Fifo!Close
    <2>6. CASE UNCHANGED vars
      BY <2>1, <2>6 DEF vars, ringVars
    <2> QED
      BY <2>3, <2>4, <2>5, <2>6 DEF Next
  <1> QED
    BY InvariantHolds, <1>1, <1>2, PTL DEF Spec, ImplementsFifo, Fifo!ChannelSpec
=============================================================================
