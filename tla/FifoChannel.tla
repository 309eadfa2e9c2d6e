---------------------------- MODULE FifoChannel ----------------------------
(***************************************************************************)
(* What Channel<T, Capacity> promises to the coroutines that use it: a     *)
(* bounded FIFO that accepts nothing after close() and hands out every     *)
(* value it accepted, in order.                                            *)
(***************************************************************************)
EXTENDS Naturals, Sequences

CONSTANTS Values, Capacity, None

VARIABLES
    queue,      \* accepted and not yet handed out, oldest first
    closed,
    last        \* the value handed out by the latest read

ChannelInit == queue = <<>> /\ closed = FALSE /\ last = None

Put(v) ==
    /\ ~closed /\ Len(queue) < Capacity
    /\ queue' = Append(queue, v)
    /\ UNCHANGED <<closed, last>>

Get ==
    /\ queue # <<>>
    /\ last' = Head(queue)
    /\ queue' = Tail(queue)
    /\ UNCHANGED closed

Close ==
    /\ closed' = TRUE
    /\ UNCHANGED <<queue, last>>

ChannelNext == (\E v \in Values : Put(v)) \/ Get \/ Close

ChannelSpec == ChannelInit /\ [][ChannelNext]_<<queue, closed, last>>
=============================================================================
