------------------------------ MODULE Channel ------------------------------
(***************************************************************************)
(* Channel<T, Capacity> of coroutine/channel.hpp: a ring buffer under a    *)
(* spin lock, with queues of suspended readers and writers.                *)
(*                                                                         *)
(* A critical section is one step.  co_await read()/write() is three of    *)
(* them: await_ready(), await_suspend() and, for a coroutine that was      *)
(* parked, await_resume(); anything can happen in between.  A parked       *)
(* coroutine that is taken out of its wait queue holds a reservation (an   *)
(* element or a free slot) until it runs.                                  *)
(***************************************************************************)
EXTENDS Integers, Sequences, FiniteSets

CONSTANTS
    Readers, Writers,   \* coroutines
    Capacity,
    MaxCalls,           \* bound: reads / writes per coroutine
    None

Values == Writers \X (1..MaxCalls)

ASSUME ChannelAssumption ==
    /\ Capacity \in Nat \ {0}
    /\ MaxCalls \in Nat
    /\ IsFiniteSet(Readers) /\ IsFiniteSet(Writers)
    /\ Readers \cap Writers = {}
    /\ None \notin Values

VARIABLES
    buffer, writePos, readPos, count,   \* the ring
    writeReserved, readReserved,        \* m_write_reserved, m_read_reserved
    closed,
    readers, writers,                   \* m_readers, m_writers
    pc, calls,                          \* the coroutines
    last                                \* history: value of the latest read

ringVars == <<buffer, writePos, readPos, count, last>>
waitVars == <<writeReserved, readReserved, readers, writers>>
vars == <<ringVars, waitVars, closed, pc, calls>>

Coroutines == Readers \cup Writers
Slots == 0..(Capacity - 1)

Init ==
    /\ buffer = [i \in Slots |-> None]
    /\ writePos = 0 /\ readPos = 0 /\ count = 0 /\ last = None
    /\ writeReserved = 0 /\ readReserved = 0
    /\ readers = <<>> /\ writers = <<>>
    /\ closed = FALSE
    /\ pc = [c \in Coroutines |-> "idle"]
    /\ calls = [c \in Coroutines |-> 0]

-----------------------------------------------------------------------------
(* The helpers that run under the lock.                                     *)

\* if (++pos >= Capacity) pos = 0
Advance(i) == IF i + 1 >= Capacity THEN 0 ELSE i + 1

\* do_write_nolock
DoWrite(v) ==
    /\ buffer' = [buffer EXCEPT ![writePos] = v]
    /\ writePos' = Advance(writePos)
    /\ count' = count + 1
    /\ UNCHANGED <<readPos, last>>

\* do_read_nolock
DoRead ==
    /\ last' = buffer[readPos]
    /\ buffer' = [buffer EXCEPT ![readPos] = None]
    /\ readPos' = Advance(readPos)
    /\ count' = count - 1
    /\ UNCHANGED writePos

\* wake_one_reader_nolock in a step of coroutine c that goes to `label'; freed
\* is the number of reservations c itself gives back.
WakeReader(c, label, freed) ==
    /\ writeReserved' = writeReserved - freed
    /\ IF readers = <<>>
       THEN /\ pc' = [pc EXCEPT ![c] = label]
            /\ UNCHANGED <<readers, readReserved>>
       ELSE /\ pc' = [pc EXCEPT ![c] = label, ![Head(readers)] = "woken"]
            /\ readers' = Tail(readers)
            /\ readReserved' = readReserved + 1
    /\ UNCHANGED writers

\* wake_one_writer_nolock
WakeWriter(c, label, freed) ==
    /\ readReserved' = readReserved - freed
    /\ IF writers = <<>>
       THEN /\ pc' = [pc EXCEPT ![c] = label]
            /\ UNCHANGED <<writers, writeReserved>>
       ELSE /\ pc' = [pc EXCEPT ![c] = label, ![Head(writers)] = "woken"]
            /\ writers' = Tail(writers)
            /\ writeReserved' = writeReserved + 1
    /\ UNCHANGED readers

HasRoom == count + writeReserved < Capacity

\* Mutant of HasData: the reservations are not deducted.
HasDataUnreserved == count > 0

HasData == count > readReserved

ValueOf(w) == <<w, calls[w]>>
Begin(c) == calls[c] < MaxCalls /\ calls' = [calls EXCEPT ![c] = @ + 1]

\* Only c moves: it parks, or returns without touching the channel.
Goto(c, label) ==
    /\ pc' = [pc EXCEPT ![c] = label]
    /\ UNCHANGED <<ringVars, closed>>

-----------------------------------------------------------------------------
(* co_await write(value), and try_write(value)                              *)

\* The write succeeds: in await_ready(), in await_suspend() or in try_write().
WriteNow(w, v, freed) ==
    /\ DoWrite(v)
    /\ WakeReader(w, "idle", freed)
    /\ UNCHANGED closed

\* await_ready(); a closed channel makes the call return false.
WriteReady(w) ==
    /\ pc[w] = "idle" /\ Begin(w)
    /\ \/ closed /\ Goto(w, "idle") /\ UNCHANGED waitVars
       \/ ~closed /\ HasRoom /\ WriteNow(w, <<w, calls'[w]>>, 0)
       \/ ~closed /\ ~HasRoom /\ Goto(w, "suspending") /\ UNCHANGED waitVars

\* Mutant of WriteSuspend: parks without looking again.
WriteParkBlindly(w) ==
    /\ pc[w] = "suspending"
    /\ writers' = Append(writers, w)
    /\ Goto(w, "waiting")
    /\ UNCHANGED <<writeReserved, readReserved, readers, calls>>

\* await_suspend(): look again, then park.
WriteSuspend(w) ==
    /\ pc[w] = "suspending"
    /\ \/ closed /\ Goto(w, "idle") /\ UNCHANGED waitVars
       \/ ~closed /\ HasRoom /\ WriteNow(w, ValueOf(w), 0)
       \/ /\ ~closed /\ ~HasRoom
          /\ writers' = Append(writers, w)
          /\ Goto(w, "waiting")
          /\ UNCHANGED <<writeReserved, readReserved, readers>>
    /\ UNCHANGED calls

\* Mutant of WriteResume: does not notice that the channel was closed.
WriteAfterClose(w) ==
    /\ pc[w] = "woken"
    /\ WriteNow(w, ValueOf(w), 1)
    /\ UNCHANGED calls

\* await_resume() of a parked writer: it owns a slot, unless the channel was
\* closed, and gives its reservation back.
WriteResume(w) ==
    /\ pc[w] = "woken"
    /\ \/ /\ closed /\ Goto(w, "idle")
          /\ writeReserved' = writeReserved - 1
          /\ UNCHANGED <<readReserved, readers, writers>>
       \/ ~closed /\ WriteNow(w, ValueOf(w), 1)
    /\ UNCHANGED calls

TryWrite(w) ==
    /\ pc[w] = "idle" /\ Begin(w)
    /\ \/ ~closed /\ HasRoom /\ WriteNow(w, <<w, calls'[w]>>, 0)
       \/ (closed \/ ~HasRoom) /\ Goto(w, "idle") /\ UNCHANGED waitVars

-----------------------------------------------------------------------------
(* co_await read(), and try_read()                                          *)

ReadNow(r, freed) ==
    /\ DoRead
    /\ WakeWriter(r, "idle", freed)
    /\ UNCHANGED closed

\* await_ready(): only what is not promised to a woken reader may be taken;
\* a closed channel without such data is at its end.
ReadReady(r) ==
    /\ pc[r] = "idle" /\ Begin(r)
    /\ \/ HasData /\ ReadNow(r, 0)
       \/ ~HasData /\ closed /\ Goto(r, "idle") /\ UNCHANGED waitVars
       \/ ~HasData /\ ~closed /\ Goto(r, "suspending") /\ UNCHANGED waitVars

ReadSuspend(r) ==
    /\ pc[r] = "suspending"
    /\ \/ HasData /\ ReadNow(r, 0)
       \/ ~HasData /\ closed /\ Goto(r, "idle") /\ UNCHANGED waitVars
       \/ /\ ~HasData /\ ~closed
          /\ readers' = Append(readers, r)
          /\ Goto(r, "waiting")
          /\ UNCHANGED <<writeReserved, readReserved, writers>>
    /\ UNCHANGED calls

\* await_resume() of a parked reader.  Without data on an open channel the
\* code would keep the reservation and return an empty result.
ReadResume(r) ==
    /\ pc[r] = "woken"
    /\ \/ count > 0 /\ ReadNow(r, 1)
       \/ /\ count <= 0 /\ Goto(r, "idle")
          /\ readReserved' = IF closed THEN readReserved - 1 ELSE readReserved
          /\ UNCHANGED <<writeReserved, readers, writers>>
    /\ UNCHANGED calls

TryRead(r) ==
    /\ pc[r] = "idle" /\ Begin(r)
    /\ \/ HasData /\ ReadNow(r, 0)
       \/ ~HasData /\ Goto(r, "idle") /\ UNCHANGED waitVars

-----------------------------------------------------------------------------
\* close(): everybody who waits is woken and holds a reservation.
Parked(c) == (\E i \in DOMAIN readers : readers[i] = c)
             \/ (\E i \in DOMAIN writers : writers[i] = c)

\* Mutants of Close: no reservations for the woken, and writers forgotten.
CloseUnreserved ==
    /\ closed' = TRUE
    /\ readers' = <<>> /\ writers' = <<>>
    /\ pc' = [c \in Coroutines |-> IF Parked(c) THEN "woken" ELSE pc[c]]
    /\ UNCHANGED <<ringVars, calls, readReserved, writeReserved>>

CloseForgetsWriters ==
    /\ closed' = TRUE
    /\ readReserved' = readReserved + Len(readers)
    /\ readers' = <<>>
    /\ pc' = [c \in Coroutines |-> IF Parked(c) /\ c \in Readers
                                   THEN "woken" ELSE pc[c]]
    /\ UNCHANGED <<ringVars, calls, writers, writeReserved>>

Close ==
    /\ closed' = TRUE
    /\ readReserved' = readReserved + Len(readers)
    /\ writeReserved' = writeReserved + Len(writers)
    /\ readers' = <<>> /\ writers' = <<>>
    /\ pc' = [c \in Coroutines |-> IF Parked(c) THEN "woken" ELSE pc[c]]
    /\ UNCHANGED <<ringVars, calls>>

-----------------------------------------------------------------------------
WriterStep(w) == WriteSuspend(w) \/ WriteResume(w)
ReaderStep(r) == ReadSuspend(r) \/ ReadResume(r)

Next ==
    \/ \E w \in Writers : WriteReady(w) \/ TryWrite(w) \/ WriterStep(w)
    \/ \E r \in Readers : ReadReady(r) \/ TryRead(r) \/ ReaderStep(r)
    \/ ~closed /\ Close

Spec == Init /\ [][Next]_vars

\* A coroutine that was resubmitted to the scheduler is resumed.
FairSpec ==
    /\ Spec
    /\ \A w \in Writers : WF_vars(WriterStep(w))
    /\ \A r \in Readers : WF_vars(ReaderStep(r))

-----------------------------------------------------------------------------
TypeOK ==
    /\ buffer \in [Slots -> Values \cup {None}]
    /\ writePos \in Slots /\ readPos \in Slots /\ count \in Nat
    /\ writeReserved \in Nat /\ readReserved \in Nat
    /\ closed \in BOOLEAN
    /\ readers \in Seq(Readers) /\ writers \in Seq(Writers)
    /\ pc \in [Coroutines -> {"idle", "suspending", "waiting", "woken"}]
    /\ calls \in [Coroutines -> 0..MaxCalls]
    /\ last \in Values \cup {None}

WokenReaders == {r \in Readers : pc[r] = "woken"}
WokenWriters == {w \in Writers : pc[w] = "woken"}

\* A reservation belongs to exactly one woken coroutine; the counters never
\* wrap, close() included.
ReservationsAreOwned ==
    /\ readReserved = Cardinality(WokenReaders)
    /\ writeReserved = Cardinality(WokenWriters)

\* The comment in ReadAwaitable::await_resume(): the reservation guarantees
\* that a woken reader of an open channel finds its element - a co_await
\* read() never comes back empty-handed from a live channel.
WokenReaderFindsData == WokenReaders # {} /\ ~closed => count > 0

\* No wake-up is lost: a coroutine is parked only while there is nothing for
\* it - every element is promised, every slot is taken or promised - and
\* nobody stays parked on a closed channel.
NobodyWaitsInVain ==
    /\ readers # <<>> => ~closed /\ ~HasData
    /\ writers # <<>> => ~closed /\ ~HasRoom

\* close() gets everybody out, also a coroutine between await_ready() and
\* await_suspend().
CloseReleasesAll ==
    closed ~> \A c \in Coroutines : pc[c] = "idle"

-----------------------------------------------------------------------------
(* Refinement of FifoChannel.                                               *)

Contents == [i \in 1..count |-> buffer[(readPos + i - 1) % Capacity]]

Fifo == INSTANCE FifoChannel WITH queue <- Contents

\* The ring, its two positions and the three places that read and three that
\* write it implement one FIFO: no value is lost, duplicated or reordered, and
\* nothing is accepted after close().
ImplementsFifo == Fifo!ChannelSpec
=============================================================================
