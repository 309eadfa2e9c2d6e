------------------------------ MODULE WsReader ------------------------------
(***************************************************************************)
(* One connection of WsServer (ws_server.hpp): the read loop, over the     *)
(* plain read_frame() or over read_frame_ring(), which takes its bytes     *)
(* from a multishot recv (recv_multishot.hpp) through a                    *)
(* BufferRingAssembler.                                                    *)
(*                                                                         *)
(* The peer's stream is a script of frames, FrameLen units each, which the *)
(* kernel cuts into chunks anywhere.  Both the reassembly buffer and the   *)
(* chunks hold consecutive pieces of the stream, so positions in it stand  *)
(* for bytes: a frame decodes when its last unit is there.                 *)
(*                                                                         *)
(* Every section under the mutex of RecvMultishotState is a step of the    *)
(* coroutine or of the thread that handles completions.                    *)
(*                                                                         *)
(* The buffers come from a BufferGroup (buffer.h), which all connections   *)
(* of a worker share and whose returns take no lock.  Another connection   *)
(* takes a buffer and gives it back in the code's two steps, add to the    *)
(* slot at the tail and advance the tail.  This connection gives back in   *)
(* one step: if the other is between its two, both have written the same   *)
(* slot, raced is set and the behaviour ends, as from then on two          *)
(* connections may be given one buffer and what they read is arbitrary.    *)
(***************************************************************************)
EXTENDS Naturals, Sequences, FiniteSets

CONSTANTS MaxFrames,  \* bound: frames in a script
          MaxShared,  \* bound: frames in a script while another connection is there
          FrameLen,   \* units of a frame
          BufLen,     \* units of a ring buffer
          Buffers,    \* ring_entries
          Modes,      \* m_ring_mode: a subset of {"ring", "plain"}
          Handlers    \* registered callbacks: a subset of {"text", "binary"}

ASSUME WsAssumption == /\ MaxFrames \in Nat /\ MaxShared \in Nat
                       /\ FrameLen \in Nat \ {0} /\ BufLen \in Nat \ {0}
                       /\ Buffers \in Nat \ {0}
                       /\ Modes \subseteq {"ring", "plain"}
                       /\ Handlers \subseteq {"text", "binary"}

VARIABLES
    mode, script,
    recvd,      \* units the kernel has handed over
    ended,      \* why no more is coming: no, eof, error, nobufs, last, unarmed
    slot,       \* the slots of the buffer ring, from its head on
    avail,      \* tail - head: the kernel may fill slot[1] .. slot[avail]
    bids,       \* buffers given to this connection and not yet returned by it
    other,      \* the buffer another connection of the worker has, or 0
    returning,  \* it has called return_buffer() and not yet advance_ring()
    raced,      \* two connections have added to one slot
    cq,         \* completions not handled yet: chunk lengths, 0 for eof or error
    queue, stopped, abandoned,  \* RecvMultishotState
    callback,   \* the IoCallback: none, live or freed
    appended, taken,  \* m_reasm (or buf) holds the units taken+1 .. appended
    pending,    \* m_pending_bids, counted
    frag, fragOp,     \* frag_buf, as frame numbers, and frag_op
    delivered,  \* the messages given to on_text and on_binary
    isOpen,     \* m_open
    closedHere, \* a callback has called close() or thrown
    fdOpen, onClose,  \* the socket; whether on_close was called
    pc

ringVars == <<slot, avail, bids, raced>>
otherVars == <<other, returning>>
kernelVars == <<recvd, ended, ringVars, otherVars, cq>>
stateVars == <<queue, stopped, abandoned, callback>>
bufferVars == <<appended, taken, pending>>
messageVars == <<frag, fragOp, delivered, isOpen, closedHere>>
endVars == <<fdOpen, onClose>>
wsVars == <<mode, script, kernelVars, stateVars, bufferVars, messageVars, endVars, pc>>

Frame == [op : {"text", "binary", "cont", "ping", "pong", "close"}, fin : BOOLEAN]

IsData(f) == f.op \in {"text", "binary", "cont"}

\* Is the message before frame i of s unfinished?
Inside(s, i) == LET d == {j \in 1..(i - 1) : IsData(s[j])} IN
                d # {} /\ ~s[CHOOSE j \in d : \A k \in d : k <= j].fin

\* What a peer may send (RFC 6455, 5.4): control frames anywhere, unfragmented,
\* continuations inside a message only, nothing after a close frame.
Conformant(s) ==
    \A i \in 1..Len(s) :
        /\ ~IsData(s[i]) => s[i].fin
        /\ IsData(s[i]) => (s[i].op = "cont" <=> Inside(s, i))
        /\ s[i].op = "close" => i = Len(s)

Scripts == {s \in UNION {[1..n -> Frame] : n \in 1..MaxFrames} : Conformant(s)}

Total == Len(script) * FrameLen

WsTypeOK ==
    /\ mode \in Modes /\ script \in Scripts
    /\ recvd \in 0..Total /\ taken \in 0..appended /\ appended \in 0..recvd
    /\ ended \in {"no", "eof", "error", "nobufs", "last", "unarmed"}
    /\ slot \in [1..Buffers -> 1..Buffers] /\ avail \in 0..Buffers
    /\ bids \in Seq(1..Buffers) /\ other \in 0..Buffers
    /\ pending \in 0..Buffers
    /\ cq \in Seq(0..BufLen) /\ queue \in Seq(0..BufLen)
    /\ {stopped, abandoned, isOpen, closedHere, fdOpen, onClose, returning, raced}
          \subseteq BOOLEAN
    /\ callback \in {"none", "live", "freed"}
    /\ fragOp \in {"cont", "text", "binary"}
    /\ pc \in {"loop", "head", "await", "suspend", "waiting", "take",
               "end", "throw", "cleanup", "done"}

\* BufferGroup's constructor gives the kernel all buffers; a bid is one less than here.
InitRing == /\ slot = [i \in 1..Buffers |-> i] /\ avail = Buffers
            /\ bids = <<>> /\ other = 0 /\ returning = FALSE /\ raced = FALSE

\* start(): the multishot recv is armed, or submit_multishot_recv() has got no
\* submission entry and returned nullptr, which nobody looks at.
Start == \/ mode = "ring" /\ ended = "no" /\ callback = "live"
         \/ mode = "ring" /\ ended = "unarmed" /\ callback = "none"
         \/ mode = "plain" /\ ended = "no" /\ callback = "none"

\* The upgrade is done.
WsInit ==
    /\ mode \in Modes /\ script \in Scripts
    /\ recvd = 0 /\ cq = <<>> /\ InitRing /\ Start
    /\ queue = <<>> /\ stopped = FALSE /\ abandoned = FALSE
    /\ appended = 0 /\ taken = 0 /\ pending = 0
    /\ frag = <<>> /\ fragOp = "cont" /\ delivered = <<>>
    /\ isOpen = TRUE /\ closedHere = FALSE
    /\ fdOpen = TRUE /\ onClose = FALSE
    /\ pc = "loop"

-----------------------------------------------------------------------------
(* The kernel: io_uring and TCP, as the code relies on them. *)

\* The kernel fills the buffer in the first slot; the head moves on.
Take == /\ avail > 0
        /\ avail' = avail - 1
        /\ slot' = [i \in 1..Buffers |-> IF i < Buffers THEN slot[i + 1] ELSE slot[1]]
        /\ UNCHANGED raced

\* A completion with data.  It may be the last one although it has data:
\* IORING_CQE_F_MORE is not set.
Recv(more) ==
    /\ mode = "ring" /\ ended = "no" /\ fdOpen
    /\ \E n \in 1..BufLen :
        /\ recvd + n <= Total
        /\ recvd' = recvd + n
        /\ cq' = Append(cq, n)
    /\ Take /\ bids' = Append(bids, slot[1])
    /\ ended' = IF more THEN "no" ELSE "last"
    /\ UNCHANGED <<mode, script, otherVars, stateVars, bufferVars, messageVars, endVars, pc>>

\* The last completion without data: the peer has closed, or reset the
\* connection, no buffer is left, or our side has shut the socket down.
RecvEnds(why) ==
    /\ mode = "ring" /\ ended = "no"
    /\ CASE why = "eof" -> recvd = Total \/ ~fdOpen
         [] why = "nobufs" -> avail = 0 /\ recvd < Total
         [] why = "error" -> fdOpen
    /\ ended' = why
    /\ cq' = Append(cq, 0)
    /\ UNCHANGED <<mode, script, recvd, ringVars, otherVars, stateVars, bufferVars,
                   messageVars, endVars, pc>>

-----------------------------------------------------------------------------
(* buffer.h. *)

\* Mutant of Return: every buffer of the batch at offset 0.
ReturnToOneSlot(n) ==
    /\ slot' = [i \in 1..Buffers |->
                  IF n > 0 /\ i = avail + 1 THEN bids[n] ELSE slot[i]]
    /\ avail' = avail + n
    /\ bids' = SubSeq(bids, n + 1, Len(bids))
    /\ raced' = (raced \/ (n > 0 /\ returning))

\* return_buffer() of the n oldest buffers of this connection, at offsets 0, 1, 2 ...
\* from the tail, and advance_ring().
Return(n) ==
    /\ slot' = [i \in 1..Buffers |->
                  IF i \in (avail + 1)..(avail + n) THEN bids[i - avail] ELSE slot[i]]
    /\ avail' = avail + n
    /\ bids' = SubSeq(bids, n + 1, Len(bids))
    /\ raced' = (raced \/ (n > 0 /\ returning))

\* The kernel gives a buffer to another connection of the worker.
OtherTake ==
    /\ mode = "ring" /\ other = 0 /\ Len(script) <= MaxShared
    /\ Take /\ other' = slot[1]
    /\ UNCHANGED <<mode, script, recvd, ended, bids, returning, cq, stateVars,
                   bufferVars, messageVars, endVars, pc>>

\* That connection's return_buffer(), perhaps on another worker,
OtherAdd ==
    /\ other # 0 /\ ~returning
    /\ slot' = [slot EXCEPT ![avail + 1] = other]
    /\ returning' = TRUE
    /\ UNCHANGED <<mode, script, recvd, ended, avail, bids, other, raced, cq, stateVars,
                   bufferVars, messageVars, endVars, pc>>

\* and its advance_ring().
OtherAdvance ==
    /\ returning
    /\ avail' = avail + 1
    /\ other' = 0 /\ returning' = FALSE
    /\ UNCHANGED <<mode, script, recvd, ended, slot, bids, raced, cq, stateVars,
                   bufferVars, messageVars, endVars, pc>>

-----------------------------------------------------------------------------
(* recv_multishot.hpp. *)

\* The number of chunks with a buffer in s.
Filled(s) == Cardinality({i \in DOMAIN s : s[i] > 0})

\* multishot_is_terminal() of the first completion.
Terminal == ended # "no" /\ Len(cq) = 1

\* Mutant of OnRecvChunk: an abandoned callback is deleted at the next completion.
DisposeAtOnce ==
    /\ cq # <<>>
    /\ cq' = Tail(cq)
    /\ \/ /\ abandoned
          /\ Return(Filled(<<Head(cq)>>))
          /\ callback' = "freed"
          /\ UNCHANGED <<queue, stopped, pc>>
       \/ /\ ~abandoned
          /\ queue' = Append(queue, Head(cq))
          /\ stopped' = (stopped \/ Terminal)
          /\ pc' = IF pc = "waiting" THEN "take" ELSE pc
          /\ UNCHANGED <<ringVars, callback>>
    /\ UNCHANGED <<mode, script, recvd, ended, otherVars, abandoned, bufferVars,
                   messageVars, endVars>>

\* on_recv_chunk_handler(): queue the chunk and resume the waiting coroutine; once
\* the reader is gone, give the buffer back, and after the last completion
\* on_io_completion() deletes the callback.
OnRecvChunk ==
    /\ cq # <<>>
    /\ cq' = Tail(cq)
    /\ \/ /\ abandoned
          /\ Return(Filled(<<Head(cq)>>))
          /\ callback' = IF Terminal THEN "freed" ELSE callback
          /\ UNCHANGED <<queue, stopped, pc>>
       \/ /\ ~abandoned
          /\ queue' = Append(queue, Head(cq))
          /\ stopped' = (stopped \/ Terminal)
          /\ pc' = IF pc = "waiting" THEN "take" ELSE pc
          /\ UNCHANGED <<ringVars, callback>>
    /\ UNCHANGED <<mode, script, recvd, ended, otherVars, abandoned, bufferVars,
                   messageVars, endVars>>

Ready == queue # <<>> \/ stopped

\* await_ready()
AwaitReady ==
    /\ mode = "ring" /\ pc = "await"
    /\ pc' = IF Ready THEN "take" ELSE "suspend"
    /\ UNCHANGED <<mode, script, kernelVars, stateVars, bufferVars, messageVars,
                   endVars>>


\* await_suspend(): look again, under the lock, before waiting.
AwaitSuspend ==
    /\ pc = "suspend"
    /\ pc' = IF Ready THEN "take" ELSE "waiting"
    /\ UNCHANGED <<mode, script, kernelVars, stateVars, bufferVars, messageVars,
                   endVars>>

\* await_resume() and append_chunk(); an empty queue reads as the end.
AwaitResume ==
    /\ pc = "take"
    /\ LET n == IF queue = <<>> THEN 0 ELSE Head(queue) IN
       /\ appended' = appended + n
       /\ pending' = IF n > 0 THEN pending + 1 ELSE pending
       /\ pc' = IF n > 0 THEN "head" ELSE "throw"
    /\ queue' = IF queue = <<>> THEN queue ELSE Tail(queue)
    /\ UNCHANGED <<mode, script, kernelVars, stopped, abandoned, callback, taken,
                   messageVars, endVars>>

-----------------------------------------------------------------------------
(* Frames. *)

\* decode() finds a whole frame in the buffer.
Whole == appended - taken >= FrameLen

Current == taken \div FrameLen + 1

\* Mutant of Consume: what follows the frame goes with it.
ConsumeAll ==
    /\ taken' = appended
    /\ Return(pending)
    /\ pending' = 0
    /\ UNCHANGED <<recvd, ended, otherVars, cq, appended>>

\* consume_bytes() and return_reasm_buffers(); read_frame() keeps what follows a
\* ping and forgets what follows any other frame.
Consume ==
    /\ taken' = IF mode = "ring" \/ script[Current].op = "ping"
                THEN taken + FrameLen ELSE appended
    /\ Return(pending)
    /\ pending' = 0
    /\ UNCHANGED <<recvd, ended, otherVars, cq, appended>>

\* Where reading goes on after a ping: read_frame() reads before it decodes the rest.
NextRead == IF mode = "ring" THEN "head" ELSE "await"

\* A ping is answered in the frame reader, which goes on.
OnPing ==
    /\ pc = "head" /\ Whole /\ script[Current].op = "ping"
    /\ Consume
    /\ pc' = NextRead
    /\ UNCHANGED <<mode, script, stateVars, messageVars, endVars>>

\* A close frame is answered and ends the loop; a pong is dropped.
OnControl ==
    /\ pc = "head" /\ Whole /\ script[Current].op \in {"close", "pong"}
    /\ Consume
    /\ isOpen' = (script[Current].op # "close")
    /\ pc' = IF script[Current].op = "close" THEN "end" ELSE "loop"
    /\ UNCHANGED <<mode, script, stateVars, frag, fragOp, delivered, closedHere,
                   endVars>>

\* The op of the message that f continues or starts.
OpWith(f) == IF f.op = "cont" THEN fragOp ELSE f.op

\* A data frame joins the fragments; the last one hands the message to the callback of
\* its kind, if there is one.  The callback may close the connection or throw.
OnData ==
    /\ pc = "head" /\ Whole /\ IsData(script[Current])
    /\ Consume
    /\ LET f == script[Current]
           parts == Append(frag, Current) IN
       \/ /\ ~f.fin
          /\ frag' = parts /\ fragOp' = OpWith(f)
          /\ pc' = "loop"
          /\ UNCHANGED <<delivered, isOpen, closedHere>>
       \/ /\ f.fin
          /\ frag' = <<>> /\ fragOp' = "cont"
          /\ \/ /\ OpWith(f) \in Handlers
                /\ delivered' = Append(delivered, [op |-> OpWith(f), parts |-> parts])
                /\ \E how \in {"returns", "closes", "throws"} :
                    /\ isOpen' = (isOpen /\ how # "closes")
                    /\ closedHere' = (how # "returns")
                    /\ pc' = IF how = "throws" THEN "throw" ELSE "loop"
             \/ /\ OpWith(f) \notin Handlers
                /\ pc' = "loop"
                /\ UNCHANGED <<delivered, isOpen, closedHere>>
    /\ UNCHANGED <<mode, script, stateVars, endVars>>

\* read_frame_ring(): no whole frame yet.
NeedMore ==
    /\ pc = "head" /\ ~Whole
    /\ pc' = "await"
    /\ UNCHANGED <<mode, script, kernelVars, stateVars, bufferVars, messageVars,
                   endVars>>

-----------------------------------------------------------------------------
(* The loops. *)

\* read_loop_ring() also stops when the last completion has been handled.
ReadLoop ==
    /\ pc = "loop"
    /\ pc' = IF ~isOpen \/ (mode = "ring" /\ stopped) THEN "end"
             ELSE IF mode = "ring" THEN "head" ELSE "await"
    /\ UNCHANGED <<mode, script, kernelVars, stateVars, bufferVars, messageVars,
                   endVars>>

\* read_frame(): one read() of what has arrived, or of the end.  What comes out of a
\* buffer that starts inside a frame is arbitrary, and not modelled.
PlainRead ==
    /\ mode = "plain" /\ pc = "await"
    /\ \/ \E n \in 1..BufLen :
            /\ recvd + n <= Total
            /\ recvd' = recvd + n /\ appended' = appended + n
            /\ pc' = IF taken % FrameLen = 0 THEN "head" ELSE "await"
            /\ UNCHANGED ended
       \/ /\ \/ ended' = "eof" /\ recvd = Total
             \/ ended' = "error"
          /\ pc' = "throw"
          /\ UNCHANGED <<recvd, appended>>
    /\ UNCHANGED <<mode, script, ringVars, otherVars, cq, stateVars, taken, pending,
                   messageVars, endVars>>

\* The answer to a ping or to a close frame cannot be written.
WriteFails ==
    /\ pc = "head" /\ Whole
    /\ script[Current].op \in {"ping", "close"}
    /\ pc' = "throw"
    /\ UNCHANGED <<mode, script, kernelVars, stateVars, bufferVars, messageVars,
                   endVars>>

\* handle_client() after the loop: close the socket, then clean up.
CloseFd ==
    /\ pc = "end"
    /\ fdOpen' = FALSE
    /\ pc' = "cleanup"
    /\ UNCHANGED <<mode, script, kernelVars, stateVars, bufferVars, messageVars,
                   onClose>>

\* cleanup() in its locked section, after return_reasm_buffers(): what the queue
\* holds goes back, and the callback is left to the last completion.
ReturnAll ==
    /\ Return(pending + Filled(queue))
    /\ pending' = 0
    /\ queue' = <<>>
    /\ abandoned' = TRUE
    /\ UNCHANGED <<recvd, ended, otherVars, cq, stopped, callback, appended, taken>>

\* The regular end calls on_close.
Cleanup ==
    /\ pc = "cleanup"
    /\ IF mode = "ring" THEN ReturnAll
       ELSE UNCHANGED <<kernelVars, stateVars, bufferVars>>
    /\ isOpen' = FALSE /\ onClose' = TRUE
    /\ pc' = "done"
    /\ UNCHANGED <<mode, script, frag, fragOp, delivered, closedHere, fdOpen>>

\* An exception destroys the assembler and then the socket, and skips on_close.
Unwind ==
    /\ pc = "throw"
    /\ IF mode = "ring" THEN ReturnAll
       ELSE UNCHANGED <<kernelVars, stateVars, bufferVars>>
    /\ fdOpen' = FALSE
    /\ pc' = "done"
    /\ UNCHANGED <<mode, script, messageVars, onClose>>

-----------------------------------------------------------------------------
Coroutine == \/ AwaitReady \/ AwaitSuspend \/ AwaitResume
             \/ OnPing \/ OnControl \/ OnData \/ NeedMore
             \/ ReadLoop \/ PlainRead \/ CloseFd \/ Cleanup \/ Unwind

Ends == {"eof", "error", "nobufs"}

Deliver == Recv(TRUE) \/ RecvEnds("nobufs")

WsNext == \/ /\ ~raced
             /\ \/ Coroutine \/ WriteFails \/ OnRecvChunk
                \/ \E more \in BOOLEAN : Recv(more)
                \/ \E why \in Ends : RecvEnds(why)
                \/ OtherTake \/ OtherAdd
          \/ OtherAdvance

\* Workers run, what the peer has sent arrives or finds no buffer, a socket that was
\* shut down ends.
WsFairness == /\ WF_wsVars(~raced /\ Coroutine) /\ WF_wsVars(~raced /\ OnRecvChunk)
              /\ WF_wsVars(~raced /\ Deliver)
              /\ WF_wsVars(~raced /\ RecvEnds("eof") /\ ~fdOpen)

WsSpec == WsInit /\ [][WsNext]_wsVars /\ WsFairness

-----------------------------------------------------------------------------
(* Properties. *)

\* The members of a set of numbers, in order.
InOrder(S) ==
    [n \in 1..Cardinality(S) |-> CHOOSE i \in S : Cardinality({j \in S : j <= i}) = n]

\* The frame that starts the message of frame i of s.
Starts(s, k) == s[k].op \in {"text", "binary"}
StartOf(s, i) == CHOOSE j \in 1..i : Starts(s, j) /\ \A k \in (j + 1)..i : ~Starts(s, k)

\* The message that frame i completes: the data frames since the one that started it.
MessageAt(s, i) == [op |-> s[StartOf(s, i)].op,
                    parts |-> InOrder({k \in StartOf(s, i)..i : IsData(s[k])})]

\* The final frames of the messages for which there is a callback.
Final(s) == {i \in 1..Len(s) : /\ IsData(s[i]) /\ s[i].fin
                               /\ MessageAt(s, i).op \in Handlers}

\* What the script says, read as a whole.
Messages == [n \in 1..Cardinality(Final(script)) |->
                MessageAt(script, InOrder(Final(script))[n])]

\* However the stream is cut into chunks and whatever control frames stand between
\* fragments, the ring reader gives the callbacks the peer's messages, whole,
\* each once and in order.
DeliveredInOrder ==
    mode = "ring" =>
        \E n \in 0..Len(Messages) : delivered = SubSeq(Messages, 1, n)

\* A buffer that this connection has been given and has not returned is in a completion,
\* in the queue or with the assembler: every path hands each one back, once, also when
\* the connection ends.
EachIsReturnedOnce == Len(bids) = Filled(cq) + Filled(queue) + pending

\* The ring's head and tail and the connections account for all buffers.
NoneIsMissing == avail + Len(bids) + (IF other = 0 THEN 0 ELSE 1) = Buffers

\* No buffer is in the ring twice, or with a connection and elsewhere as well.
InOnePlace ==
    /\ \A i, j \in 1..avail : slot[i] = slot[j] => i = j
    /\ \A i, j \in 1..Len(bids) : bids[i] = bids[j] => i = j
    /\ \A i \in 1..avail, j \in 1..Len(bids) : slot[i] # bids[j]
    /\ \A i \in 1..avail : slot[i] # other
    /\ \A i \in 1..Len(bids) : bids[i] # other

\* Every buffer of the shared ring is available to the kernel or with one connection,
\* in one place only; none is lost or given twice when a connection ends, unless the
\* returns of two connections have overlapped.
BuffersAreConserved ==
    /\ EachIsReturnedOnce
    /\ NoneIsMissing
    /\ ~raced => InOnePlace

\* What connections that share a group rely on, with overlapping returns too: once the
\* returns are over, no buffer is gone.
NoBufferIsLost ==
    ~returning => \A b \in 1..Buffers : \/ \E i \in 1..avail : slot[i] = b
                                        \/ \E i \in 1..Len(bids) : bids[i] = b
                                        \/ other = b

\* The callback is deleted only when the kernel has posted its last completion and
\* nobody handles one any more.
FreedAfterTheLast ==
    callback = "freed" => ended # "no" /\ cq = <<>> /\ abandoned


\* The same for a recv that may not have been armed.
UnarmedIsNoticed ==
    ended = "unarmed" => <>(pc = "done")

\* The comment in cleanup(): after the last completion the completing thread
\* deletes the callback.
CallbackIsFreed == mode = "ring" => (pc = "done" ~> callback = "freed" \/ raced)

\* read_loop_ring() is to behave like read_loop(), which reads everything
\* that came before the end of the stream.
EofLosesNothing ==
    mode = "ring" /\ pc = "done" /\ ended = "eof" /\ ~closedHere
        => delivered = Messages
=============================================================================
