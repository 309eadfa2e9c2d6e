------------------------ MODULE RemoteReceiverProofs ------------------------
(***************************************************************************)
(* Proofs about RemoteReceiver, for any frames, any number of threads, any *)
(* size of the table and any number of faults and restarts.                *)
(***************************************************************************)
EXTENDS RemoteReceiver, TLAPS

\* A handled record is on its way to the file.
HandledRecord(m) ==
    \/ \E r \in pending : r.type = "handled" /\ r.msg = m
    \/ \E w \in Workers : \E r \in batch[w] : r.type = "handled" /\ r.msg = m

\* Whatever says that the handler of m has run is true.
Ran(m) == \/ Executed(m) \/ HandledDurable(m)
          \/ dedup[m] = "completed"
          \/ run[m] = "finish"
          \/ m \in disk.handled
          \/ HandledRecord(m)

DoneInv == \A m \in Msgs : Ran(m) => m \in done

\* A frame is on its way to its actor, or has been there in this life.
Underway(m) == \/ mail[m] # << >>
               \/ run[m] # "idle"
               \/ \E w \in Workers : m \in cur[w]

\* With the log, nothing runs and nothing is recorded as handled before its data
\* record is in the file.
Durable(m) == \/ Persisted(m) \/ Executed(m) \/ HandledDurable(m)
              \/ dedup[m] # "absent"
              \/ Underway(m)
              \/ HandledRecord(m)

DataInv == logging /\ ~disk.torn => \A m \in Msgs : Durable(m) => m \in disk.data

\* The entry of a frame that is underway or executed cannot be rolled back, and
\* a handler that runs has its dedup entry.
EntryInv ==
    \A m \in Msgs :
        /\ logging /\ (Underway(m) \/ Executed(m)) => m \in excused \/ Persisted(m)
        /\ run[m] = "handler" => dedup[m] = "in_progress"

\* What keeps a handler that has returned from running again.
RanInv ==
    \A m \in ran :
        \/ m \in excused
        \/ logging /\ (run[m] = "finish" \/ (Executed(m) /\ Persisted(m)))
        \/ ~logging /\ dedup[m] # "absent"

SafeInv == DoneInv /\ AckMeansDone /\ DataInv /\ AckedIsReplayed /\ EntryInv /\ RanInv

IInv == TypeOK /\ SafeInv

-----------------------------------------------------------------------------
(* Type correctness.                                                        *)

\* Appending to the file leaves a file.
LEMMA AppendedType ==
    ASSUME NEW d \in [data : SUBSET Msgs, handled : SUBSET Msgs, torn : BOOLEAN],
           NEW rs \in SUBSET Record, NEW tears \in BOOLEAN
    PROVE  Appended(d, rs, tears)
              \in [data : SUBSET Msgs, handled : SUBSET Msgs, torn : BOOLEAN]
  BY DEF Appended, Record

\* set_enqueued() changes flags only.
LEMMA SetEnqueuedType ==
    ASSUME NEW i \in [Msgs -> SUBSET Flags], NEW m, NEW v
    PROVE  SetEnqueued(i, m, v) \in [Msgs -> SUBSET Flags]
  BY DEF SetEnqueued, Flags

\* buffer_handled() adds a record of the frame, or nothing.
LEMMA BufferHandledType ==
    ASSUME TypeOK, NEW i, NEW m \in Msgs, NEW conn \in BOOLEAN,
           BufferHandled(i, m, conn)
    PROVE  /\ replyConn' \in [Msgs -> BOOLEAN]
           /\ pending' \subseteq Record
  <1>1. [type |-> "handled", msg |-> m, conn |-> conn] \in Record
    BY DEF Record
  <1> QED
    BY <1>1 DEF TypeOK, BufferHandled

\* The empty file, and nothing received, running or acknowledged.
LEMMA InitType == Init => TypeOK
  <1> SUFFICES ASSUME Init PROVE TypeOK
    OBVIOUS
  <1>1. disk \in [data : SUBSET Msgs, handled : SUBSET Msgs, torn : BOOLEAN]
    BY DEF Init
  <1>2. index \in [Msgs -> SUBSET Flags]
    BY DEF Init, Scan, Flags
  <1>3. /\ batch \in [Workers -> SUBSET Record]
        /\ todo \in [Workers -> SUBSET Msgs]
        /\ cur \in [Workers -> SUBSET Msgs]
    BY DEF Init
  <1>4. /\ dedup \in [Msgs -> {"absent", "in_progress", "completed"}]
        /\ run \in [Msgs -> {"idle", "handler", "finish"}]
    BY DEF Init
  <1>5. mail \in [Msgs -> Seq(BOOLEAN)]
    <2>1. << >> \in Seq(BOOLEAN)
      OBVIOUS
    <2> QED
      BY <2>1 DEF Init
  <1>6. /\ replyConn \in [Msgs -> BOOLEAN]
        /\ runConn \in [Msgs -> BOOLEAN]
        /\ logging \in BOOLEAN /\ spawned \in BOOLEAN
    BY DEF Init
  <1>7. /\ pending \subseteq Record
        /\ unacked \subseteq Msgs /\ acks \subseteq Msgs
        /\ ran \subseteq Msgs /\ excused \subseteq Msgs /\ done \subseteq Msgs
        /\ faults \in 0..MaxFaults
    BY ReceiverAssumption DEF Init
  <1> QED
    BY <1>1, <1>2, <1>3, <1>4, <1>5, <1>6, <1>7 DEF TypeOK

\* The threads behind flush_ready().
LEMMA WorkerType ==
    ASSUME TypeOK, NEW w \in Workers,
           FlushReady(w) \/ Pump(w) \/ Work(w) \/ CommitFails(w)
    PROVE  TypeOK'
  <1> USE DEF TypeOK, logVars, workVars, actorVars, senderVars, historyVars
  <1>1. CASE FlushReady(w)
    BY <1>1 DEF FlushReady
  <1>2. CASE Pump(w)
    BY <1>2 DEF Pump, WaitingKeys
  <1>3. CASE CommitBatch(w)
    <2>1. disk' \in [data : SUBSET Msgs, handled : SUBSET Msgs, torn : BOOLEAN]
      BY <1>3, AppendedType DEF CommitBatch
    <2>2. index' \in [Msgs -> SUBSET Flags]
      BY <1>3 DEF CommitBatch, Flags
    <2>3. todo' \in [Workers -> SUBSET Msgs]
      BY <1>3 DEF CommitBatch, WaitingKeys
    <2>4. acks' \subseteq Msgs
      BY <1>3 DEF CommitBatch, Record
    <2>5. batch' \in [Workers -> SUBSET Record]
      BY <1>3 DEF CommitBatch
    <2> QED
      BY <1>3, <2>1, <2>2, <2>3, <2>4, <2>5 DEF CommitBatch
  <1>4. CASE TryEnqueue(w)
    BY <1>4 DEF TryEnqueue, SetEnqueued, Flags
  <1>5. CASE PushRouted(w)
    <2>0. PICK m \in Msgs :
              /\ \/ index' = SetEnqueued(index, m, TRUE)
                 \/ index' = SetEnqueued(index, m, FALSE)
              /\ \/ mail' = [mail EXCEPT ![m] = Append(@, replyConn[m])]
                 \/ mail' = mail
      BY <1>5 DEF PushRouted
    <2>1. index' \in [Msgs -> SUBSET Flags]
      <3>1. /\ SetEnqueued(index, m, TRUE) \in [Msgs -> SUBSET Flags]
            /\ SetEnqueued(index, m, FALSE) \in [Msgs -> SUBSET Flags]
        BY SetEnqueuedType
      <3>2. CASE index' = SetEnqueued(index, m, TRUE)
        BY <3>1, <3>2
      <3>3. CASE index' = SetEnqueued(index, m, FALSE)
        BY <3>1, <3>3
      <3> QED
        BY <2>0, <3>2, <3>3
    <2>2. mail' \in [Msgs -> Seq(BOOLEAN)]
      <3>1. Append(mail[m], replyConn[m]) \in Seq(BOOLEAN)
        OBVIOUS
      <3> QED
        BY <2>0, <3>1
    <2>3. cur' \in [Workers -> SUBSET Msgs]
      BY <1>5 DEF PushRouted
    <2> QED
      BY <1>5, <2>1, <2>2, <2>3 DEF PushRouted
  <1>6. CASE CommitFails(w)
    <2>1. disk' \in [data : SUBSET Msgs, handled : SUBSET Msgs, torn : BOOLEAN]
      <3>1. PICK rs \in SUBSET batch[w], tears \in BOOLEAN :
                disk' = Appended(disk, rs, tears)
        BY <1>6 DEF CommitFails
      <3>2. rs \in SUBSET Record
        OBVIOUS
      <3> QED
        BY <3>1, <3>2, AppendedType
    <2>2. /\ index' \in [Msgs -> SUBSET Flags]
          /\ replyConn' \in [Msgs -> BOOLEAN]
          /\ batch' \in [Workers -> SUBSET Record]
          /\ faults' \in 0..MaxFaults
      BY <1>6, ReceiverAssumption DEF CommitFails
    <2> QED
      BY <1>6, <2>1, <2>2 DEF CommitFails
  <1> QED
    BY <1>1, <1>2, <1>3, <1>4, <1>5, <1>6 DEF Work

\* Arriving frames, the actors and the sender.
LEMMA MsgType ==
    ASSUME TypeOK, NEW m \in Msgs,
           \/ ReceiveLogged(m) \/ ReceiveDirect(m) \/ Act(m)
           \/ HandlerThrows(m) \/ AckArrives(m) \/ AckLost(m)
    PROVE  TypeOK'
  <1> USE DEF TypeOK, logVars, workVars, actorVars, senderVars, historyVars
  <1>1. CASE ReceiveLogged(m)
    <2>1. CASE BufferData(m) /\ UNCHANGED <<todo, acks>>
      <3>1. [type |-> "data", msg |-> m, conn |-> TRUE] \in Record
        BY DEF Record
      <3>2. index' \in [Msgs -> SUBSET Flags]
        BY <2>1 DEF BufferData, Flags
      <3>3. pending' \subseteq Record /\ replyConn' \in [Msgs -> BOOLEAN]
        BY <2>1, <3>1 DEF BufferData
      <3> QED
        BY <1>1, <2>1, <3>2, <3>3 DEF ReceiveLogged
    <2>2. CASE BufferHandled(index, m, TRUE) /\ UNCHANGED <<index, todo, acks>>
      <3>1. pending' \subseteq Record /\ replyConn' \in [Msgs -> BOOLEAN]
        BY <2>2, BufferHandledType
      <3> QED
        BY <1>1, <2>2, <3>1 DEF ReceiveLogged
    <2>3. CASE UNCHANGED <<index, replyConn, pending>>
      <3>1. todo' \in [Workers -> SUBSET Msgs]
        <4>1. \/ todo' = todo
              \/ \E w \in Workers : todo' = [todo EXCEPT ![w] = {m}]
          BY <1>1 DEF ReceiveLogged
        <4>2. CASE todo' = todo
          BY <4>2
        <4>3. ASSUME NEW w \in Workers, todo' = [todo EXCEPT ![w] = {m}]
              PROVE  todo' \in [Workers -> SUBSET Msgs]
          BY <4>3
        <4> QED
          BY <4>1, <4>2, <4>3
      <3>2. acks' \subseteq Msgs
        BY <1>1 DEF ReceiveLogged
      <3> QED
        BY <1>1, <2>3, <3>1, <3>2 DEF ReceiveLogged
    <2> QED
      BY <1>1, <2>1, <2>2, <2>3 DEF ReceiveLogged
  <1>2. CASE ReceiveDirect(m)
    <2>1. Append(mail[m], TRUE) \in Seq(BOOLEAN)
      OBVIOUS
    <2>2. mail' \in [Msgs -> Seq(BOOLEAN)]
      BY <1>2, <2>1 DEF ReceiveDirect
    <2>3. acks' \subseteq Msgs
      BY <1>2 DEF ReceiveDirect
    <2> QED
      BY <1>2, <2>2, <2>3 DEF ReceiveDirect
  <1>3. CASE Dispatch(m)
    <2>1. mail' \in [Msgs -> Seq(BOOLEAN)] /\ Head(mail[m]) \in BOOLEAN
      BY <1>3 DEF Dispatch
    <2>4. index' \in [Msgs -> SUBSET Flags]
      <3>1. index' = index \/ index' = SetEnqueued(index, m, FALSE)
        BY <1>3 DEF Dispatch
      <3> QED
        <4>1. CASE index' = index
          BY <4>1
        <4>2. CASE index' = SetEnqueued(index, m, FALSE)
          <5>1. SetEnqueued(index, m, FALSE) \in [Msgs -> SUBSET Flags]
            BY SetEnqueuedType
          <5> QED
            BY <4>2, <5>1
        <4> QED
          BY <3>1, <4>1, <4>2
    <2>5. dedup' \in [Msgs -> {"absent", "in_progress", "completed"}]
      <3>1. \/ dedup' = dedup
            \/ dedup' = [n \in Msgs |-> IF n = m THEN "in_progress"
                                        ELSE IF n \in Victims THEN "absent" ELSE dedup[n]]
        BY <1>3 DEF Dispatch
      <3> QED
        BY <3>1
    <2>2. /\ run' \in [Msgs -> {"idle", "handler", "finish"}]
          /\ runConn' \in [Msgs -> BOOLEAN]
      <3>1. \/ UNCHANGED <<run, runConn>>
            \/ /\ run' = [run EXCEPT ![m] = "handler"]
               /\ runConn' = [runConn EXCEPT ![m] = Head(mail[m])]
        BY <1>3 DEF Dispatch
      <3>2. CASE UNCHANGED <<run, runConn>>
        BY <3>2
      <3>3. CASE /\ run' = [run EXCEPT ![m] = "handler"]
                 /\ runConn' = [runConn EXCEPT ![m] = Head(mail[m])]
        BY <2>1, <3>3
      <3> QED
        BY <3>1, <3>2, <3>3
    <2>3. acks' \subseteq Msgs /\ excused' \subseteq Msgs
      BY <1>3 DEF Dispatch, PostAck, Victims, CompletedMsgs
    <2> QED
      BY <1>3, <2>1, <2>2, <2>3, <2>4, <2>5 DEF Dispatch
  <1>4. CASE HandlerReturns(m)
    BY <1>4 DEF HandlerReturns
  <1>5. CASE FinishDelivery(m)
    <2>1. index' \in [Msgs -> SUBSET Flags]
      BY <1>5 DEF FinishDelivery, MarkExecuted, Flags
    <2>2. /\ pending' \subseteq Record
          /\ replyConn' \in [Msgs -> BOOLEAN]
          /\ acks' \subseteq Msgs
      <3>1. runConn[m] \in BOOLEAN
        OBVIOUS
      <3>2. \/ BufferHandled(MarkExecuted(m), m, runConn[m]) /\ UNCHANGED acks
            \/ PostAck(m, runConn[m]) /\ UNCHANGED <<replyConn, pending>>
        BY <1>5 DEF FinishDelivery
      <3>3. CASE BufferHandled(MarkExecuted(m), m, runConn[m]) /\ UNCHANGED acks
        <4>1. replyConn' \in [Msgs -> BOOLEAN] /\ pending' \subseteq Record
          <5> HIDE DEF TypeOK
          <5> QED
            BY <3>1, <3>3, BufferHandledType
        <4> QED
          BY <3>3, <4>1
      <3>4. CASE PostAck(m, runConn[m]) /\ UNCHANGED <<replyConn, pending>>
        BY <3>4 DEF PostAck
      <3> QED
        BY <3>2, <3>3, <3>4
    <2> QED
      BY <1>5, <2>1, <2>2 DEF FinishDelivery
  <1>6. CASE HandlerThrows(m)
    BY <1>6, ReceiverAssumption DEF HandlerThrows, DropKey
  <1>7. CASE AckArrives(m) \/ AckLost(m)
    BY <1>7 DEF AckArrives, AckLost
  <1> QED
    BY <1>1, <1>2, <1>3, <1>4, <1>5, <1>6, <1>7 DEF Act

\* The actors appear; a new process begins with what the file says.
LEMMA LifeType ==
    ASSUME TypeOK, Spawn \/ Restart
    PROVE  TypeOK'
  <1> USE DEF TypeOK, logVars, workVars, actorVars, senderVars, historyVars
  <1>1. CASE Spawn
    <2>1. mail' \in [Msgs -> Seq(BOOLEAN)]
      <3>1. \A m \in Msgs : Append(mail[m], FALSE) \in Seq(BOOLEAN)
        OBVIOUS
      <3> QED
        BY <1>1, <3>1 DEF Spawn
    <2>2. index' \in [Msgs -> SUBSET Flags]
      BY <1>1 DEF Spawn, TakeForActor, Flags
    <2> QED
      BY <1>1, <2>1, <2>2 DEF Spawn
  <1>2. CASE Restart
    <2>1. disk' \in [data : SUBSET Msgs, handled : SUBSET Msgs, torn : BOOLEAN]
      <3> DEFINE writing == UNION {batch[w] : w \in Workers}
      <3>1. PICK rs \in SUBSET writing, tears \in BOOLEAN :
                disk' = Appended(disk, rs, tears)
        BY <1>2 DEF Restart
      <3>2. rs \in SUBSET Record
        OBVIOUS
      <3> QED
        BY <3>1, <3>2, AppendedType
    <2>2. index' \in [Msgs -> SUBSET Flags]
      BY <1>2, <2>1 DEF Restart, Scan, Flags
    <2>3. /\ batch' \in [Workers -> SUBSET Record]
          /\ todo' \in [Workers -> SUBSET Msgs]
          /\ cur' \in [Workers -> SUBSET Msgs]
          /\ pending' \subseteq Record
      BY <1>2 DEF Restart
    <2>4. /\ dedup' \in [Msgs -> {"absent", "in_progress", "completed"}]
          /\ run' \in [Msgs -> {"idle", "handler", "finish"}]
          /\ mail' \in [Msgs -> Seq(BOOLEAN)]
      BY <1>2 DEF Restart
    <2>5. /\ replyConn' \in [Msgs -> BOOLEAN] /\ runConn' \in [Msgs -> BOOLEAN]
          /\ logging' \in BOOLEAN /\ spawned' \in BOOLEAN
      BY <1>2 DEF Restart
    <2>6. /\ unacked' \subseteq Msgs /\ acks' \subseteq Msgs
          /\ ran' \subseteq Msgs /\ excused' \subseteq Msgs /\ done' \subseteq Msgs
          /\ faults' \in 0..MaxFaults
      BY <1>2, ReceiverAssumption DEF Restart
    <2> QED
      BY <2>1, <2>2, <2>3, <2>4, <2>5, <2>6
  <1> QED
    BY <1>1, <1>2

-----------------------------------------------------------------------------
(* The invariant.                                                           *)

\* The flags that matter, as a step leaves them.
FlagsKept == \A n \in Msgs : /\ Executed(n)' <=> Executed(n)
                             /\ Persisted(n)' <=> Persisted(n)
                             /\ HandledDurable(n)' <=> HandledDurable(n)

\* Frames the sender may forget, now or when an ack arrives.
Acked == acks \cup (Msgs \ unacked)

\* A step that runs no handler and writes no file preserves the invariant, if it
\* buffers handled records and sends acks only for frames that have run, and
\* with the log lets only persisted frames through to the mailbox.
LEMMA QuietStep ==
    ASSUME TypeOK, TypeOK', SafeInv, FlagsKept,
           \A n \in Msgs : HandledRecord(n)' => HandledRecord(n) \/ Executed(n),
           \A n \in Msgs : Underway(n)' => Underway(n) \/ (logging => Persisted(n)),
           \A n \in Msgs : n \in Acked' =>
               n \in Acked \/ Executed(n) \/ dedup[n] = "completed",
           UNCHANGED <<logging, disk, dedup, run, ran, excused, done>>
    PROVE  SafeInv'
  <1>1. DoneInv'
    BY DEF SafeInv, DoneInv, Ran, FlagsKept
  <1>2. AckMeansDone'
    BY DEF TypeOK, SafeInv, DoneInv, Ran, AckMeansDone, Acked
  <1>3. DataInv'
    BY DEF SafeInv, DataInv, Durable, FlagsKept
  <1>4. AckedIsReplayed'
    BY DEF TypeOK, SafeInv, DataInv, Durable, AckedIsReplayed, Acked
  <1>5. EntryInv'
    BY DEF SafeInv, EntryInv, FlagsKept
  <1>6. RanInv'
    BY DEF TypeOK, SafeInv, RanInv, FlagsKept
  <1> QED
    BY <1>1, <1>2, <1>3, <1>4, <1>5, <1>6 DEF SafeInv

\* set_enqueued() leaves the flags that matter alone.
LEMMA SetEnqueuedFlags ==
    ASSUME TypeOK, NEW m, NEW v \in BOOLEAN, index' = SetEnqueued(index, m, v)
    PROVE  FlagsKept
  BY DEF TypeOK, SetEnqueued, FlagsKept, Executed, Persisted, HandledDurable

\* Taking a batch, looking for waiting keys, enqueueing and pushing.
LEMMA EnqueueSafe ==
    ASSUME TypeOK, TypeOK', SafeInv, NEW w \in Workers,
           FlushReady(w) \/ Pump(w) \/ TryEnqueue(w) \/ PushRouted(w)
    PROVE  SafeInv'
  <1> USE DEF logVars, workVars, actorVars, senderVars, historyVars
  <1>1. UNCHANGED <<logging, disk, dedup, run, ran, excused, done, unacked, acks>>
    BY DEF FlushReady, Pump, TryEnqueue, PushRouted
  <1>2. FlagsKept
    <2>1. CASE index' = index
      BY <2>1 DEF FlagsKept, Executed, Persisted, HandledDurable
    <2>2. \/ index' = index
          \/ \E m \in Msgs, v \in BOOLEAN : index' = SetEnqueued(index, m, v)
      BY DEF TypeOK, FlushReady, Pump, TryEnqueue, PushRouted
    <2> QED
      BY <2>1, <2>2, SetEnqueuedFlags
  <1>3. ASSUME NEW n \in Msgs, HandledRecord(n)' PROVE HandledRecord(n)
    <2>1. CASE FlushReady(w)
      BY <1>3, <2>1 DEF TypeOK, FlushReady, HandledRecord
    <2>2. CASE UNCHANGED <<pending, batch>>
      BY <1>3, <2>2 DEF HandledRecord
    <2> QED
      BY <2>1, <2>2 DEF Pump, TryEnqueue, PushRouted
  <1>4. ASSUME NEW n \in Msgs, Underway(n)' PROVE Underway(n) \/ Persisted(n)
    <2>1. CASE TryEnqueue(w)
      <3>1. \A x \in Workers : n \in cur'[x] => n \in cur[x] \/ Persisted(n)
        BY <2>1 DEF TypeOK, TryEnqueue, WaitingKeys, Persisted
      <3> QED
        BY <1>4, <2>1, <3>1 DEF TryEnqueue, Underway
    <2>2. CASE PushRouted(w)
      <3>1. \A x \in Workers : n \in cur'[x] => n \in cur[x]
        BY <2>2 DEF TypeOK, PushRouted
      <3>2. mail'[n] = mail[n] \/ n \in cur[w]
        BY <2>2 DEF TypeOK, PushRouted
      <3> QED
        BY <1>1, <1>4, <3>1, <3>2 DEF Underway
    <2>3. CASE UNCHANGED <<mail, cur>>
      BY <1>1, <1>4, <2>3 DEF Underway
    <2> QED
      BY <2>1, <2>2, <2>3 DEF FlushReady, Pump
  <1> QED
    BY <1>1, <1>2, <1>3, <1>4, QuietStep DEF Acked

\* A frame arrives; an ack arrives or is lost.
LEMMA ReceiveSafe ==
    ASSUME TypeOK, TypeOK', SafeInv, NEW m \in Msgs,
           ReceiveLogged(m) \/ ReceiveDirect(m) \/ AckArrives(m) \/ AckLost(m)
    PROVE  SafeInv'
  <1> USE DEF logVars, workVars, actorVars, senderVars, historyVars
  <1>1. UNCHANGED <<logging, disk, dedup, run, cur, ran, excused, done>>
    BY DEF ReceiveLogged, ReceiveDirect, AckArrives, AckLost
  <1>2. FlagsKept
    <2>1. CASE index' = index
      BY <2>1 DEF FlagsKept, Executed, Persisted, HandledDurable
    <2>2. CASE ~HasData(m) /\ index' = [index EXCEPT ![m] = {"data"}]
      BY <2>2 DEF TypeOK, HasData, FlagsKept, Executed, Persisted, HandledDurable
    <2> QED
      BY <2>1, <2>2 DEF ReceiveLogged, BufferData, ReceiveDirect, AckArrives, AckLost
  <1>3. ASSUME NEW n \in Msgs, HandledRecord(n)'
        PROVE  HandledRecord(n) \/ Executed(n)
    <2>1. batch' = batch
      BY DEF ReceiveLogged, ReceiveDirect, AckArrives, AckLost
    <2>2. \/ pending' = pending
          \/ \E c \in BOOLEAN : pending' = pending \cup {[type |-> "data", msg |-> m, conn |-> c]}
          \/ /\ Executed(m)
             /\ \E c \in BOOLEAN :
                    pending' = pending \cup {[type |-> "handled", msg |-> m, conn |-> c]}
      BY DEF ReceiveLogged, BufferData, BufferHandled, ReceiveDirect, AckArrives, AckLost
    <2> QED
      BY <1>3, <2>1, <2>2 DEF HandledRecord
  <1>4. ASSUME NEW n \in Msgs, Underway(n)'
        PROVE  Underway(n) \/ (logging => Persisted(n))
    <2>1. mail' = mail \/ ~logging
      BY DEF ReceiveLogged, ReceiveDirect, AckArrives, AckLost
    <2> QED
      BY <1>1, <1>4, <2>1 DEF Underway
  <1>5. \A n \in Msgs : n \in Acked' =>
            n \in Acked \/ Executed(n) \/ dedup[n] = "completed"
    BY DEF ReceiveLogged, ReceiveDirect, AckArrives, AckLost, PeekDedup, Acked
  <1> QED
    BY <1>1, <1>2, <1>3, <1>4, <1>5, QuietStep

\* replay_receiver_for() takes only what waits in the log.
LEMMA SpawnSafe ==
    ASSUME TypeOK, TypeOK', SafeInv, Spawn
    PROVE  SafeInv'
  <1> USE DEF logVars, workVars, actorVars, senderVars, historyVars
  <1>1. UNCHANGED <<logging, pending, batch, disk, dedup, run, cur, ran, excused, done,
                    unacked, acks>>
    BY DEF Spawn
  <1>2. FlagsKept
    BY DEF TypeOK, Spawn, TakeForActor, FlagsKept, Executed, Persisted, HandledDurable
  <1>3. \A n \in Msgs : mail'[n] # mail[n] => Persisted(n)
    BY DEF TypeOK, Spawn, WaitingKeys, Persisted
  <1>4. \A n \in Msgs : Underway(n)' => Underway(n) \/ (logging => Persisted(n))
    BY <1>1, <1>3 DEF Underway
  <1>5. \A n \in Msgs : HandledRecord(n)' => HandledRecord(n)
    BY <1>1 DEF HandledRecord
  <1> QED
    BY <1>1, <1>2, <1>4, <1>5, QuietStep DEF Acked

\* What an append does to the file: it only grows, a torn one stays torn, and a
\* sound one holds the data records that were appended.
LEMMA AppendedFacts ==
    ASSUME NEW d \in [data : SUBSET Msgs, handled : SUBSET Msgs, torn : BOOLEAN],
           NEW rs \in SUBSET Record, NEW tears \in BOOLEAN
    PROVE  /\ d.data \subseteq Appended(d, rs, tears).data
           /\ ~Appended(d, rs, tears).torn =>
                  /\ ~d.torn
                  /\ \A r \in rs : r.type = "data" => r.msg \in Appended(d, rs, tears).data
           /\ \A n \in Appended(d, rs, tears).handled :
                  n \in d.handled \/ \E r \in rs : r.type = "handled" /\ r.msg = n
  BY DEF Appended, Record

\* A batch is in the file before its flags are set and its acks are sent.
LEMMA CommitSafe ==
    ASSUME TypeOK, TypeOK', SafeInv, NEW w \in Workers, CommitBatch(w)
    PROVE  SafeInv'
  <1>1. UNCHANGED <<logging, pending, dedup, cur, mail, run, ran, excused, done, unacked>>
    BY DEF CommitBatch, actorVars, historyVars
  <1>2. /\ disk \in [data : SUBSET Msgs, handled : SUBSET Msgs, torn : BOOLEAN]
        /\ batch[w] \in SUBSET Record
        /\ disk' = Appended(disk, batch[w], FALSE)
    BY DEF TypeOK, CommitBatch
  <1>3. /\ disk.data \subseteq disk'.data
        /\ ~disk'.torn => ~disk.torn
        /\ ~disk'.torn => \A r \in batch[w] : r.type = "data" => r.msg \in disk'.data
        /\ \A n \in disk'.handled : n \in disk.handled \/ HandledRecord(n)
    <2>1. \A n \in disk'.handled :
              n \in disk.handled \/ \E r \in batch[w] : r.type = "handled" /\ r.msg = n
      BY <1>2, AppendedFacts, Zenon
    <2>2. /\ disk.data \subseteq disk'.data
          /\ ~disk'.torn => ~disk.torn
          /\ ~disk'.torn => \A r \in batch[w] : r.type = "data" => r.msg \in disk'.data
      BY <1>2, AppendedFacts, Zenon
    <2> QED
      BY <2>1, <2>2 DEF HandledRecord
  <1>4. \A n \in Msgs :
          /\ Executed(n)' <=> Executed(n)
          /\ Persisted(n) => Persisted(n)'
          /\ Persisted(n)' => Persisted(n) \/ \E r \in batch[w] : r.type = "data" /\ r.msg = n
          /\ HandledDurable(n)' =>
                HandledDurable(n) \/ \E r \in batch[w] : r.type = "handled" /\ r.msg = n
    BY DEF TypeOK, CommitBatch, Executed, Persisted, HandledDurable
  <1>5. \A n \in Msgs : HandledRecord(n)' => HandledRecord(n)
    <2>1. \A x \in Workers : batch'[x] \subseteq batch[x]
      BY DEF TypeOK, CommitBatch
    <2> QED
      BY <1>1, <2>1 DEF HandledRecord
  <1>6. \A n \in Msgs : HandledDurable(n)' => HandledDurable(n) \/ HandledRecord(n)
    BY <1>4 DEF HandledRecord
  <1>7. \A n \in Msgs : n \in Acked' => n \in Acked \/ HandledRecord(n)
    BY DEF CommitBatch, Acked, HandledRecord
  <1>8. \A n \in Msgs : Underway(n)' <=> Underway(n)
    BY <1>1 DEF Underway
  <1>9. DoneInv'
    BY <1>1, <1>3, <1>4, <1>5, <1>6 DEF TypeOK, SafeInv, DoneInv, Ran
  <1>10. AckMeansDone'
    BY <1>1, <1>7 DEF TypeOK, SafeInv, DoneInv, Ran, AckMeansDone, Acked
  <1>11. DataInv'
    BY <1>1, <1>3, <1>4, <1>5, <1>6, <1>8 DEF SafeInv, DataInv, Durable
  <1>12. AckedIsReplayed'
    BY <1>1, <1>3, <1>7 DEF TypeOK, SafeInv, DataInv, Durable, AckedIsReplayed, Acked
  <1>13. EntryInv' /\ RanInv'
    BY <1>1, <1>4, <1>8 DEF TypeOK, SafeInv, EntryInv, RanInv
  <1> QED
    BY <1>9, <1>10, <1>11, <1>12, <1>13 DEF SafeInv

\* A failed write rolls back no entry that an actor already holds.
LEMMA RollbackSafe ==
    ASSUME TypeOK, TypeOK', SafeInv, NEW w \in Workers, CommitFails(w)
    PROVE  SafeInv'
  <1>1. UNCHANGED <<logging, pending, dedup, cur, mail, run, ran, excused, done, unacked,
                    acks>>
    BY DEF CommitFails, actorVars, historyVars, senderVars
  <1>2. PICK rs \in SUBSET batch[w], tears \in BOOLEAN : disk' = Appended(disk, rs, tears)
    BY DEF CommitFails
  <1>3. /\ disk.data \subseteq disk'.data
        /\ ~disk'.torn => ~disk.torn
        /\ \A n \in disk'.handled : n \in disk.handled \/ HandledRecord(n)
    <2>1. /\ disk \in [data : SUBSET Msgs, handled : SUBSET Msgs, torn : BOOLEAN]
          /\ rs \in SUBSET Record
      BY DEF TypeOK
    <2>2. \A n \in disk'.handled :
              n \in disk.handled \/ \E r \in rs : r.type = "handled" /\ r.msg = n
      <3>1. \A n \in Appended(disk, rs, tears).handled :
                n \in disk.handled \/ \E r \in rs : r.type = "handled" /\ r.msg = n
        BY <2>1 DEF Appended, Record
      <3> QED
        BY <1>2, <3>1, Zenon
    <2>3. disk.data \subseteq disk'.data /\ (~disk'.torn => ~disk.torn)
      BY <1>2, <2>1, AppendedFacts, Zenon
    <2> QED
      BY <1>2, <2>2, <2>3 DEF HandledRecord
  <1>4. \A n \in Msgs :
          /\ Executed(n)' => Executed(n)
          /\ HandledDurable(n)' => HandledDurable(n)
          /\ Persisted(n)' <=> Persisted(n)
          /\ Persisted(n) => (Executed(n)' <=> Executed(n))
    BY DEF TypeOK, CommitFails, Executed, Persisted, HandledDurable
  <1>5. \A n \in Msgs : HandledRecord(n)' => HandledRecord(n)
    <2>1. \A x \in Workers : batch'[x] \subseteq batch[x]
      BY DEF TypeOK, CommitFails
    <2> QED
      BY <1>1, <2>1 DEF HandledRecord
  <1>6. \A n \in Msgs : Underway(n)' <=> Underway(n)
    BY <1>1 DEF Underway
  <1>7. DoneInv'
    BY <1>1, <1>3, <1>4, <1>5 DEF TypeOK, SafeInv, DoneInv, Ran
  <1>8. AckMeansDone'
    BY <1>1 DEF SafeInv, AckMeansDone
  <1>9. DataInv'
    BY <1>1, <1>3, <1>4, <1>5, <1>6 DEF SafeInv, DataInv, Durable
  <1>10. AckedIsReplayed'
    BY <1>1, <1>3 DEF SafeInv, AckedIsReplayed
  <1>11. EntryInv' /\ RanInv'
    BY <1>1, <1>4, <1>6 DEF TypeOK, SafeInv, EntryInv, RanInv
  <1> QED
    BY <1>7, <1>8, <1>9, <1>10, <1>11 DEF SafeInv

\* A new process knows what the file says, and no ack of the old one survives.
LEMMA RestartSafe ==
    ASSUME TypeOK, TypeOK', SafeInv, Restart
    PROVE  SafeInv'
  <1> DEFINE writing == UNION {batch[w] : w \in Workers}
  <1>1. /\ UNCHANGED <<logging, unacked, done>>
        /\ pending' = {} /\ acks' = {} /\ ran' = {}
        /\ batch' = [w \in Workers |-> {}] /\ cur' = [w \in Workers |-> {}]
        /\ dedup' = [m \in Msgs |-> "absent"]
        /\ mail' = [m \in Msgs |-> << >>] /\ run' = [m \in Msgs |-> "idle"]
    BY DEF Restart
  <1>2. PICK rs \in SUBSET writing, tears \in BOOLEAN : disk' = Appended(disk, rs, tears)
    BY DEF Restart
  <1>3. /\ disk.data \subseteq disk'.data
        /\ ~disk'.torn => ~disk.torn
        /\ \A n \in disk'.handled : n \in disk.handled \/ HandledRecord(n)
    <2>1. /\ disk \in [data : SUBSET Msgs, handled : SUBSET Msgs, torn : BOOLEAN]
          /\ rs \in SUBSET Record
      BY DEF TypeOK
    <2>2. \A n \in disk'.handled :
              n \in disk.handled \/ \E r \in rs : r.type = "handled" /\ r.msg = n
      <3>1. \A n \in Appended(disk, rs, tears).handled :
                n \in disk.handled \/ \E r \in rs : r.type = "handled" /\ r.msg = n
        BY <2>1 DEF Appended, Record
      <3> QED
        BY <1>2, <3>1, Zenon
    <2>3. disk.data \subseteq disk'.data /\ (~disk'.torn => ~disk.torn)
      BY <1>2, <2>1, AppendedFacts, Zenon
    <2> QED
      BY <1>2, <2>2, <2>3 DEF HandledRecord
  <1>4. \A n \in Msgs :
          /\ ~Executed(n)'
          /\ HandledDurable(n)' => n \in disk'.handled
          /\ Persisted(n)' \/ HandledDurable(n)' => n \in disk'.data
    BY DEF Restart, Scan, Executed, Persisted, HandledDurable
  <1>5. \A n \in Msgs : ~HandledRecord(n)' /\ ~Underway(n)'
    BY <1>1 DEF HandledRecord, Underway
  <1>6. DoneInv'
    BY <1>1, <1>3, <1>4, <1>5 DEF TypeOK, SafeInv, DoneInv, Ran
  <1>7. AckMeansDone' /\ AckedIsReplayed'
    BY <1>1, <1>3 DEF SafeInv, AckMeansDone, AckedIsReplayed
  <1>8. DataInv'
    BY <1>1, <1>4, <1>5 DEF DataInv, Durable
  <1>9. EntryInv' /\ RanInv'
    BY <1>1, <1>4, <1>5 DEF EntryInv, RanInv
  <1> QED
    BY <1>6, <1>7, <1>8, <1>9 DEF SafeInv

\* The verdicts of claim_remote() that matter.
LEMMA ClaimFacts ==
    ASSUME TypeOK, NEW m \in Msgs
    PROVE  /\ Claim(m) = "completed" => dedup[m] = "completed" \/ Executed(m)
           /\ Claim(m) = "fresh" => dedup[m] = "absent" /\ ~Executed(m)
  BY DEF TypeOK, Claim

\* A pop takes a copy away from its own frame only.
LEMMA DispatchFacts ==
    ASSUME TypeOK, NEW m \in Msgs, Dispatch(m)
    PROVE  /\ Underway(m)
           /\ UNCHANGED <<logging, replyConn, pending, disk, batch, cur, unacked, ran, done>>
           /\ \A n \in Msgs : n # m => mail'[n] = mail[n]
  <1>1. UNCHANGED <<logging, replyConn, pending, disk, batch, cur, unacked, ran, done>>
    BY DEF Dispatch, workVars
  <1>2. mail[m] # << >> /\ mail' = [mail EXCEPT ![m] = Tail(@)]
    BY DEF Dispatch
  <1> QED
    BY <1>1, <1>2 DEF TypeOK, Underway

\* A copy that is a duplicate, or does not fit, runs nothing.
LEMMA DuplicateSafe ==
    ASSUME TypeOK, TypeOK', SafeInv, NEW m \in Msgs, Dispatch(m), Claim(m) # "fresh"
    PROVE  SafeInv'
  <1>1. UNCHANGED <<dedup, run, runConn, excused>>
    BY DEF Dispatch
  <1>2. FlagsKept
    <2>1. CASE index' = index
      BY <2>1 DEF FlagsKept, Executed, Persisted, HandledDurable
    <2>2. CASE index' = SetEnqueued(index, m, FALSE)
      BY <2>2, SetEnqueuedFlags
    <2> QED
      BY <2>1, <2>2 DEF Dispatch
  <1>3. \A n \in Msgs : HandledRecord(n)' => HandledRecord(n)
    BY DispatchFacts DEF HandledRecord
  <1>4. \A n \in Msgs : Underway(n)' => Underway(n)
    BY <1>1, DispatchFacts DEF Underway
  <1>5. acks' = acks \/ (acks' = acks \cup {m} /\ Claim(m) = "completed")
    BY DEF Dispatch, PostAck
  <1>6. \A n \in Msgs : n \in Acked' =>
            n \in Acked \/ Executed(n) \/ dedup[n] = "completed"
    BY <1>5, DispatchFacts, ClaimFacts DEF Acked
  <1> QED
    BY <1>1, <1>2, <1>3, <1>4, <1>6, DispatchFacts, QuietStep

\* A fresh copy runs: nothing has run it yet, and a victim was excused or executed.
LEMMA FreshSafe ==
    ASSUME TypeOK, TypeOK', SafeInv, NEW m \in Msgs, Dispatch(m), Claim(m) = "fresh"
    PROVE  SafeInv'
  <1>1. /\ UNCHANGED <<index, acks>>
        /\ dedup' = [n \in Msgs |-> IF n = m THEN "in_progress"
                                    ELSE IF n \in Victims THEN "absent" ELSE dedup[n]]
        /\ excused' = IF logging THEN excused ELSE excused \cup Victims
        /\ run' = [run EXCEPT ![m] = "handler"]
    BY DEF Dispatch
  <1>2. dedup[m] = "absent" /\ ~Executed(m) /\ run[m] = "idle"
    BY ClaimFacts DEF Dispatch
  <1>3. \A n \in Msgs : /\ Executed(n)' <=> Executed(n)
                        /\ Persisted(n)' <=> Persisted(n)
                        /\ HandledDurable(n)' <=> HandledDurable(n)
                        /\ HandledRecord(n)' <=> HandledRecord(n)
    BY <1>1, DispatchFacts DEF Executed, Persisted, HandledDurable, HandledRecord
  <1>4. \A n \in Msgs : n # m => /\ run'[n] = run[n]
                                 /\ dedup'[n] = dedup[n] \/ dedup'[n] = "absent"
                                 /\ dedup'[n] # dedup[n] => dedup[n] = "completed"
                                 /\ dedup'[n] # dedup[n] => logging \/ n \in excused'
    BY <1>1 DEF TypeOK, Victims, CompletedMsgs
  <1>5. run'[m] = "handler" /\ dedup'[m] = "in_progress" /\ excused \subseteq excused'
    BY <1>1 DEF TypeOK
  <1>6. \A n \in Msgs : Underway(n)' => Underway(n)
    BY <1>4, DispatchFacts DEF Underway
  <1>7. DoneInv'
    BY <1>3, <1>4, <1>5, DispatchFacts DEF SafeInv, DoneInv, Ran
  <1>8. AckMeansDone' /\ AckedIsReplayed'
    BY <1>1, DispatchFacts DEF SafeInv, AckMeansDone, AckedIsReplayed
  <1>9. DataInv'
    BY <1>3, <1>4, <1>5, <1>6, DispatchFacts DEF SafeInv, DataInv, Durable
  <1>10. EntryInv'
    BY <1>3, <1>4, <1>5, <1>6, DispatchFacts DEF SafeInv, EntryInv
  <1>11. RanInv'
    BY <1>2, <1>3, <1>4, <1>5, DispatchFacts DEF TypeOK, SafeInv, RanInv
  <1> QED
    BY <1>7, <1>8, <1>9, <1>10, <1>11 DEF SafeInv

\* The handler returns: its dedup entry is still there.
LEMMA ReturnSafe ==
    ASSUME TypeOK, TypeOK', SafeInv, NEW m \in Msgs, HandlerReturns(m)
    PROVE  SafeInv'
  <1> USE DEF logVars, workVars, senderVars
  <1>1. /\ UNCHANGED <<logging, index, pending, disk, batch, cur, mail, unacked, acks, excused>>
        /\ run[m] = "handler"
        /\ ran' = ran \cup {m} /\ done' = done \cup {m}
    BY DEF HandlerReturns
  <1>2. /\ dedup[m] = "in_progress"
        /\ dedup'[m] = "completed" /\ run'[m] = "finish"
        /\ \A n \in Msgs : n # m => dedup'[n] = dedup[n] /\ run'[n] = run[n]
    BY DEF TypeOK, HandlerReturns, SafeInv, EntryInv
  <1>3. \A n \in Msgs : /\ Executed(n)' <=> Executed(n)
                        /\ Persisted(n)' <=> Persisted(n)
                        /\ HandledDurable(n)' <=> HandledDurable(n)
                        /\ HandledRecord(n)' <=> HandledRecord(n)
    BY <1>1 DEF Executed, Persisted, HandledDurable, HandledRecord
  <1>4. \A n \in Msgs : Underway(n)' <=> Underway(n)
    BY <1>1, <1>2 DEF Underway
  <1>5. DoneInv'
    BY <1>1, <1>2, <1>3 DEF SafeInv, DoneInv, Ran
  <1>6. AckMeansDone' /\ AckedIsReplayed'
    BY <1>1 DEF SafeInv, AckMeansDone, AckedIsReplayed
  <1>7. DataInv'
    BY <1>1, <1>2, <1>3, <1>4 DEF SafeInv, DataInv, Durable
  <1>8. EntryInv'
    BY <1>1, <1>2, <1>3, <1>4 DEF SafeInv, EntryInv
  <1>9. RanInv'
    BY <1>1, <1>2, <1>3 DEF TypeOK, SafeInv, RanInv
  <1> QED
    BY <1>5, <1>6, <1>7, <1>8, <1>9 DEF SafeInv

\* The handler throws: the frame may run again, and is excused.
LEMMA ThrowSafe ==
    ASSUME TypeOK, TypeOK', SafeInv, NEW m \in Msgs, HandlerThrows(m)
    PROVE  SafeInv'
  <1> USE DEF logVars, workVars, senderVars
  <1>1. /\ UNCHANGED <<logging, pending, disk, batch, cur, mail, unacked, acks, ran, done>>
        /\ excused' = excused \cup {m}
    BY DEF HandlerThrows
  <1>2. /\ dedup'[m] = "absent" /\ run'[m] = "idle" /\ index'[m] = {}
        /\ \A n \in Msgs : n # m =>
              dedup'[n] = dedup[n] /\ run'[n] = run[n] /\ index'[n] = index[n]
    BY DEF TypeOK, HandlerThrows, DropKey
  <1>3. \A n \in Msgs :
          /\ HandledRecord(n)' <=> HandledRecord(n)
          /\ n # m => /\ Executed(n)' <=> Executed(n)
                      /\ Persisted(n)' <=> Persisted(n)
                      /\ HandledDurable(n)' <=> HandledDurable(n)
                      /\ Underway(n)' <=> Underway(n)
    BY <1>1, <1>2 DEF Executed, Persisted, HandledDurable, HandledRecord, Underway
  <1>4. ~Executed(m)' /\ ~Persisted(m)' /\ ~HandledDurable(m)'
    BY <1>2 DEF Executed, Persisted, HandledDurable
  <1>5. Underway(m)' => Underway(m)
    BY <1>1, <1>2 DEF Underway
  <1>6. DoneInv'
    BY <1>1, <1>2, <1>3, <1>4 DEF SafeInv, DoneInv, Ran
  <1>7. AckMeansDone' /\ AckedIsReplayed'
    BY <1>1 DEF SafeInv, AckMeansDone, AckedIsReplayed
  <1>8. DataInv'
    BY <1>1, <1>2, <1>3, <1>4, <1>5 DEF SafeInv, DataInv, Durable
  <1>9. EntryInv'
    BY <1>1, <1>2, <1>3 DEF SafeInv, EntryInv
  <1>10. RanInv'
    BY <1>1, <1>2, <1>3 DEF TypeOK, SafeInv, RanInv
  <1> QED
    BY <1>6, <1>7, <1>8, <1>9, <1>10 DEF SafeInv

\* mark_executed() finds the entry of a frame that nothing excuses.
LEMMA FinishSafe ==
    ASSUME TypeOK, TypeOK', SafeInv, NEW m \in Msgs, FinishDelivery(m)
    PROVE  SafeInv'
  <1> USE DEF workVars, historyVars
  <1>1. /\ UNCHANGED <<logging, disk, batch, cur, dedup, mail, unacked, ran, excused, done>>
        /\ run[m] = "finish"
        /\ index' = MarkExecuted(m)
    BY DEF FinishDelivery
  <1>2. run'[m] = "idle" /\ \A n \in Msgs : n # m => run'[n] = run[n]
    BY DEF TypeOK, FinishDelivery
  <1>3. \A n \in Msgs :
          /\ Executed(n)' => Executed(n) \/ n = m
          /\ Executed(n) => Executed(n)'
          /\ Persisted(n)' <=> Persisted(n)
          /\ HandledDurable(n)' <=> HandledDurable(n)
          /\ n = m /\ Persisted(n) => Executed(n)'
    BY <1>1 DEF TypeOK, MarkExecuted, Executed, Persisted, HandledDurable
  <1>4. \A n \in Msgs : HandledRecord(n)' => HandledRecord(n) \/ n = m
    <2>1. \/ pending' = pending
          \/ pending' = pending \cup {[type |-> "handled", msg |-> m, conn |-> runConn[m]]}
      BY DEF FinishDelivery, BufferHandled
    <2> QED
      BY <1>1, <2>1 DEF HandledRecord
  <1>5. Underway(m) /\ \A n \in Msgs : Underway(n)' => Underway(n)
    BY <1>1, <1>2 DEF Underway
  <1>6. acks' \subseteq acks \cup {m}
    BY DEF FinishDelivery, PostAck
  <1>7. m \in done
    BY <1>1 DEF SafeInv, DoneInv, Ran
  <1>8. DoneInv'
    BY <1>1, <1>2, <1>3, <1>4, <1>7 DEF SafeInv, DoneInv, Ran
  <1>9. AckMeansDone'
    BY <1>1, <1>6, <1>7 DEF SafeInv, AckMeansDone
  <1>10. logging /\ ~disk.torn => m \in disk.data
    BY <1>5 DEF SafeInv, DataInv, Durable
  <1>11. DataInv'
    BY <1>1, <1>3, <1>4, <1>5, <1>10 DEF SafeInv, DataInv, Durable
  <1>12. AckedIsReplayed'
    BY <1>1, <1>6, <1>10 DEF SafeInv, AckedIsReplayed
  <1>13. EntryInv'
    BY <1>1, <1>2, <1>3, <1>5 DEF SafeInv, EntryInv
  <1>14. RanInv'
    BY <1>1, <1>2, <1>3, <1>5 DEF TypeOK, SafeInv, RanInv, EntryInv
  <1> QED
    BY <1>8, <1>9, <1>11, <1>12, <1>13, <1>14 DEF SafeInv

-----------------------------------------------------------------------------
\* The first process: an empty file, nothing underway, nothing acknowledged.
LEMMA InitIInv == Init => IInv
  <1> SUFFICES ASSUME Init PROVE SafeInv
    BY InitType DEF IInv
  <1>1. \A m \in Msgs : /\ index[m] = {} /\ dedup[m] = "absent" /\ mail[m] = << >>
                        /\ run[m] = "idle"
    BY DEF Init, Scan
  <1>2. \A m \in Msgs : ~Executed(m) /\ ~Persisted(m) /\ ~HandledDurable(m)
    BY <1>1 DEF Executed, Persisted, HandledDurable
  <1>3. \A m \in Msgs : ~HandledRecord(m) /\ ~Underway(m)
    BY <1>1 DEF Init, HandledRecord, Underway
  <1>4. DoneInv /\ DataInv
    BY <1>1, <1>2, <1>3 DEF Init, DoneInv, Ran, DataInv, Durable
  <1>5. EntryInv /\ RanInv /\ AckMeansDone /\ AckedIsReplayed
    BY <1>1, <1>2, <1>3 DEF Init, EntryInv, RanInv, AckMeansDone, AckedIsReplayed
  <1> QED
    BY <1>4, <1>5 DEF SafeInv

\* Every step preserves the invariant.
LEMMA StepIInv == IInv /\ [Next]_vars => IInv'
  <1> SUFFICES ASSUME TypeOK, SafeInv, [Next]_vars PROVE TypeOK' /\ SafeInv'
    BY DEF IInv
  <1>1. ASSUME NEW w \in Workers, FlushReady(w) \/ Pump(w) \/ Work(w) \/ CommitFails(w)
        PROVE  TypeOK' /\ SafeInv'
    <2>1. TypeOK'
      BY <1>1, WorkerType
    <2> QED
      BY <1>1, <2>1, EnqueueSafe, CommitSafe, RollbackSafe DEF Work
  <1>2. ASSUME NEW m \in Msgs,
               \/ ReceiveLogged(m) \/ ReceiveDirect(m) \/ Act(m)
               \/ HandlerThrows(m) \/ AckArrives(m) \/ AckLost(m)
        PROVE  TypeOK' /\ SafeInv'
    <2>1. TypeOK'
      BY <1>2, MsgType
    <2>2. CASE Dispatch(m)
      BY <2>1, <2>2, DuplicateSafe, FreshSafe
    <2> QED
      BY <1>2, <2>1, <2>2, ReceiveSafe, ReturnSafe, FinishSafe, ThrowSafe DEF Act
  <1>3. CASE Spawn \/ Restart
    <2>1. TypeOK'
      BY <1>3, LifeType
    <2> QED
      BY <1>3, <2>1, SpawnSafe, RestartSafe
  <1>4. CASE UNCHANGED vars
    <2>1. /\ UNCHANGED <<logging, index, replyConn, pending, disk, batch, todo, cur>>
          /\ UNCHANGED <<dedup, mail, run, runConn, spawned, unacked, acks>>
          /\ UNCHANGED <<ran, excused, done, faults>>
      BY <1>4 DEF vars, logVars, workVars, actorVars, senderVars, historyVars
    <2>2. TypeOK'
      BY <2>1 DEF TypeOK
    <2>3. FlagsKept
      BY <2>1 DEF FlagsKept, Executed, Persisted, HandledDurable
    <2>4. \A n \in Msgs : HandledRecord(n)' => HandledRecord(n)
      BY <2>1 DEF HandledRecord
    <2>5. \A n \in Msgs : Underway(n)' => Underway(n)
      BY <2>1 DEF Underway
    <2> QED
      BY <2>1, <2>2, <2>3, <2>4, <2>5, QuietStep DEF Acked
  <1> QED
    BY <1>1, <1>2, <1>3, <1>4 DEF Next

\* The invariant holds in every state.
THEOREM InvariantHolds == Spec => []IInv
  BY InitIInv, StepIInv, PTL DEF Spec

\* The receiver acknowledges a frame only after its handler has returned, with
\* and without the log, through throws, failing writes and restarts.
THEOREM AckOnlyWhenDone == Spec => []AckMeansDone
  <1>1. IInv => AckMeansDone
    BY DEF IInv, SafeInv
  <1> QED
    BY InvariantHolds, <1>1, PTL

\* With the log, a frame the sender may forget is in the file, unless it is torn.
THEOREM AckOnlyWhenLogged == Spec => []AckedIsReplayed
  <1>1. IInv => AckedIsReplayed
    BY DEF IInv, SafeInv
  <1> QED
    BY InvariantHolds, <1>1, PTL

\* claim_remote() lets no handler that has returned run again in the life of a
\* process, unless it also threw or the table had to forget the frame.
THEOREM HandlersRunOnce == Spec => NoSecondRun
  <1> DEFINE Again == \A m \in Msgs : run[m] = "idle" /\ run'[m] = "handler" /\ m \in ran
                                      => m \in excused'
  <1>1. IInv /\ [Next]_vars => [Again]_vars
    <2> SUFFICES ASSUME IInv, Next,
                        NEW m \in Msgs, run[m] = "idle", run'[m] = "handler", m \in ran
                 PROVE  m \in excused'
      BY DEF vars
    <2>1. Dispatch(m) /\ Claim(m) = "fresh"
      <3>1. \A w \in Workers :
                FlushReady(w) \/ Pump(w) \/ Work(w) \/ CommitFails(w) => run' = run
        BY DEF FlushReady, Pump, Work, CommitBatch, TryEnqueue, PushRouted,
               CommitFails, actorVars
      <3>2. Spawn \/ Restart => run'[m] # "handler"
        BY DEF Spawn, Restart
      <3>3. \A n \in Msgs :
                \/ ReceiveLogged(n) \/ ReceiveDirect(n) \/ AckArrives(n) \/ AckLost(n)
                => run' = run
        BY DEF ReceiveLogged, ReceiveDirect, AckArrives, AckLost, actorVars
      <3>4. \A n \in Msgs : HandlerReturns(n) \/ FinishDelivery(n) \/ HandlerThrows(n)
                            => run'[m] # "handler" \/ run'[m] = run[m]
        BY DEF IInv, TypeOK, HandlerReturns, FinishDelivery, HandlerThrows
      <3>5. ASSUME NEW n \in Msgs, Dispatch(n) PROVE n = m /\ Claim(n) = "fresh"
        BY <3>5 DEF Dispatch, IInv, TypeOK
      <3> QED
        BY <3>1, <3>2, <3>3, <3>4, <3>5 DEF Next, Act
    <2>2. dedup[m] = "absent" /\ ~Executed(m)
      BY <2>1, ClaimFacts DEF IInv
    <2>3. m \in excused
      BY <2>2 DEF IInv, SafeInv, RanInv
    <2> QED
      BY <2>1, <2>3 DEF Dispatch
  <1> QED
    BY InvariantHolds, <1>1, PTL DEF Spec, NoSecondRun
=============================================================================
