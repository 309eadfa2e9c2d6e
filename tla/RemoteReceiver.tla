--------------------------- MODULE RemoteReceiver ---------------------------
(***************************************************************************)
(* The receiving side of remote delivery (actor_system.h, receiver_log.h): *)
(* a routed frame is logged, pushed to its actor, deduplicated, run and    *)
(* acknowledged, with the receiver log and without it, through handlers    *)
(* that throw, failing writes and a receiver that is killed and restarted. *)
(*                                                                         *)
(* One sender; every frame has an actor of its own.  Every lock section    *)
(* whose order matters is a step.  flush_ready() and what follows it runs  *)
(* on the thread that called it, the flush loop's, a connection's or an    *)
(* actor's: Workers are the threads that are in it at the same time.       *)
(***************************************************************************)
EXTENDS Naturals, FiniteSets, Sequences

CONSTANTS Msgs,       \* the frames, each its msg_id
          Workers,    \* threads in the code that follows flush_ready()
          DedupCap,   \* dedup_cap
          MaxCopies,  \* bound: copies of a frame in a mailbox
          MaxFaults   \* bound: handlers that throw, writes that fail, kills

ASSUME ReceiverAssumption == /\ Msgs \subseteq Nat
                             /\ DedupCap \in Nat \ {0}
                             /\ MaxCopies \in Nat \ {0}
                             /\ MaxFaults \in Nat

VARIABLES
    logging,    \* receiver_log_path is not empty: m_rcv exists
    index,      \* m_index: the flags of the entry of a frame; {} without one
    replyConn,  \* entry::reply_conn_id is a connection, not 0
    pending,    \* m_pending
    disk,       \* the log file, as scan_existing() would find it
    batch,      \* [Workers -> SUBSET Record]: what commit_batch() writes
    todo, cur,  \* [Workers -> SUBSET Msgs]: keys to enqueue; the one to push
    dedup,      \* m_dedup
    mail,       \* [Msgs -> Seq(BOOLEAN)]: copies; has it a reply connection?
    run,        \* [Msgs -> idle | handler | finish]: the actor of the frame
    runConn,    \* the copy it runs has a reply connection
    spawned,    \* the actors exist
    unacked,    \* the sender keeps and resends these
    acks,       \* acks on their way
    ran, excused, done, \* history: see the properties
    faults

logVars == <<index, replyConn, pending, disk>>
workVars == <<batch, todo, cur>>
actorVars == <<mail, run, runConn>>
senderVars == <<unacked, acks>>
historyVars == <<ran, excused, done>>
vars == <<logging, logVars, workVars, dedup, actorVars, spawned, senderVars,
          historyVars, faults>>

Flags == {"data", "persisted", "executed", "enqueued", "handled"}
Record == [type : {"data", "handled"}, msg : Msgs, conn : BOOLEAN]

TypeOK ==
    /\ logging \in BOOLEAN
    /\ index \in [Msgs -> SUBSET Flags]
    /\ replyConn \in [Msgs -> BOOLEAN]
    /\ pending \subseteq Record
    /\ disk \in [data : SUBSET Msgs, handled : SUBSET Msgs, torn : BOOLEAN]
    /\ batch \in [Workers -> SUBSET Record]
    /\ todo \in [Workers -> SUBSET Msgs]
    /\ cur \in [Workers -> SUBSET Msgs]
    /\ dedup \in [Msgs -> {"absent", "in_progress", "completed"}]
    /\ mail \in [Msgs -> Seq(BOOLEAN)]
    /\ run \in [Msgs -> {"idle", "handler", "finish"}]
    /\ runConn \in [Msgs -> BOOLEAN]
    /\ spawned \in BOOLEAN
    /\ unacked \subseteq Msgs /\ acks \subseteq Msgs
    /\ ran \subseteq Msgs /\ excused \subseteq Msgs /\ done \subseteq Msgs
    /\ faults \in 0..MaxFaults

-----------------------------------------------------------------------------
(* The receiver log. *)

Executed(m) == "executed" \in index[m]
HandledDurable(m) == "handled" \in index[m]
HasData(m) == index[m] # {}
Persisted(m) == "persisted" \in index[m]

\* Mutant of SetEnqueued: the flag is never taken back.
StaysEnqueued(i, m, v) ==
    [i EXCEPT ![m] = IF @ = {} THEN @ ELSE @ \cup {"enqueued"}]

\* set_enqueued(m, v), of the index i; nothing without an entry
SetEnqueued(i, m, v) ==
    [i EXCEPT ![m] = IF @ = {} THEN @
                     ELSE IF v THEN @ \cup {"enqueued"} ELSE @ \ {"enqueued"}]

\* mark_executed() and drop_key()
MarkExecuted(m) == [index EXCEPT ![m] = IF @ = {} THEN @
                                        ELSE (@ \ {"enqueued"}) \cup {"executed"}]
DropKey(m) == [index EXCEPT ![m] = {}]

\* waiting_keys(): persisted, neither executed nor enqueued
WaitingKeys(i) == {m \in Msgs : /\ "persisted" \in i[m]
                                /\ i[m] \cap {"executed", "enqueued"} = {}}

\* buffer_data(), where no entry exists
BufferData(m) ==
    /\ index' = [index EXCEPT ![m] = {"data"}]
    /\ replyConn' = [replyConn EXCEPT ![m] = TRUE]
    /\ pending' = pending \cup {[type |-> "data", msg |-> m, conn |-> TRUE]}

\* buffer_handled(), after mark_executed() where i is its index: the entry must
\* exist and lack both a handled record and one that waits to be written.
BufferHandled(i, m, conn) ==
    /\ replyConn' = [replyConn EXCEPT ![m] = IF i[m] = {} THEN @ ELSE conn]
    /\ pending' = IF \/ i[m] = {} \/ "handled" \in i[m]
                     \/ \E r \in pending : r.type = "handled" /\ r.msg = m
                  THEN pending
                  ELSE pending \cup {[type |-> "handled", msg |-> m, conn |-> conn]}

\* What scan_existing() finds after the records rs were appended to d and the
\* last of them is torn: nothing behind a torn record is ever read again.
Appended(d, rs, tears) ==
    IF d.torn THEN d
    ELSE [data |-> d.data \cup {r.msg : r \in {x \in rs : x.type = "data"}},
          handled |-> d.handled \cup {r.msg : r \in {x \in rs : x.type = "handled"}},
          torn |-> tears]

\* scan_existing(): the index after a restart
Scan == [m \in Msgs |-> IF m \notin disk.data THEN {}
                        ELSE {"data", "persisted"}
                             \cup (IF m \in disk.handled THEN {"handled"} ELSE {})]

Idle(w) == batch[w] = {} /\ todo[w] = {} /\ cur[w] = {}

\* flush_ready(): 32 records, or 2 ms since the first of them.
FlushReady(w) ==
    /\ Idle(w) /\ pending # {}
    /\ batch' = [batch EXCEPT ![w] = pending]
    /\ pending' = {}
    /\ UNCHANGED <<logging, index, replyConn, disk, todo, cur, dedup, actorVars,
                   spawned, senderVars, historyVars, faults>>

\* commit_batch() succeeds, and apply_receiver_flush() sends the acks; the keys
\* it enqueues are among those that pump_receiver_waiting() finds.
CommitBatch(w) ==
    /\ batch[w] # {}
    /\ disk' = Appended(disk, batch[w], FALSE)
    /\ LET Has(t, m) == \E r \in batch[w] : r.type = t /\ r.msg = m
           i == [m \in Msgs |->
                    IF index[m] = {} THEN {}
                    ELSE index[m] \cup (IF Has("data", m) THEN {"persisted"} ELSE {})
                                  \cup (IF Has("handled", m) THEN {"handled"} ELSE {})]
       IN /\ index' = i
          /\ todo' = [todo EXCEPT ![w] = WaitingKeys(i)]
    /\ acks' = acks \cup {r.msg : r \in {x \in batch[w] : x.type = "handled" /\ x.conn}}
    /\ batch' = [batch EXCEPT ![w] = {}]
    /\ UNCHANGED <<logging, replyConn, pending, cur, dedup, actorVars, spawned,
                   unacked, historyVars, faults>>

\* Mutant of CommitFails: what was not written counts as persisted.
CommitIgnoresErrors(w) ==
    /\ faults < MaxFaults
    /\ batch[w] # {}
    /\ \E rs \in SUBSET batch[w] : disk' = Appended(disk, rs, FALSE)
    /\ index' = [m \in Msgs |->
                    IF \E r \in batch[w] : r.type = "data" /\ r.msg = m
                    THEN index[m] \cup {"persisted"} ELSE index[m]]
    /\ batch' = [batch EXCEPT ![w] = {}]
    /\ faults' = faults + 1
    /\ UNCHANGED <<logging, replyConn, pending, todo, cur, dedup, actorVars, spawned,
                   senderVars, historyVars>>

\* commit_batch() fails: part of the batch may be in the file, rollback().
CommitFails(w) ==
    /\ faults < MaxFaults
    /\ batch[w] # {}
    /\ \E rs \in SUBSET batch[w], tears \in BOOLEAN : disk' = Appended(disk, rs, tears)
    /\ index' = [m \in Msgs |->
                    IF /\ \E r \in batch[w] : r.type = "data" /\ r.msg = m
                       /\ ~Persisted(m)
                    THEN {} ELSE index[m]]
    /\ replyConn' = [m \in Msgs |-> replyConn[m] /\ index'[m] # {}]
    /\ batch' = [batch EXCEPT ![w] = {}]
    /\ faults' = faults + 1
    /\ UNCHANGED <<logging, pending, todo, cur, dedup, actorVars, spawned,
                   senderVars, historyVars>>

-----------------------------------------------------------------------------
(* Deduplication. *)

\* m_dedup.size() >= dedup_cap
TableFull == Cardinality({m \in Msgs : dedup[m] # "absent"}) >= DedupCap
CompletedMsgs == {m \in Msgs : dedup[m] = "completed"}

\* dedup_room_for()
Room(m) == IF dedup[m] # "absent" THEN "already"
           ELSE IF ~TableFull \/ CompletedMsgs # {} THEN "push" ELSE "full"

\* Mutant of Claim: the log is not asked whether the handler has run.
ClaimFromTable(m) ==
    CASE dedup[m] = "completed" -> "completed"
      [] dedup[m] = "in_progress" -> "busy"
      [] OTHER -> IF TableFull /\ CompletedMsgs = {} THEN "overflow" ELSE "fresh"

\* claim_remote(): the verdict on a copy ...
Claim(m) ==
    CASE dedup[m] = "completed" -> "completed"
      [] dedup[m] = "in_progress" -> "busy"
      [] dedup[m] = "absent" /\ Executed(m) ->
            IF HandledDurable(m) THEN "completed" ELSE "busy"
      [] OTHER -> IF TableFull /\ CompletedMsgs = {} THEN "overflow" ELSE "fresh"

\* ... and, for a fresh one, the completed entry with the smallest id that makes room.
Victims == IF TableFull THEN {m \in CompletedMsgs : \A n \in CompletedMsgs : m <= n}
           ELSE {}

-----------------------------------------------------------------------------
(* From the log to the mailbox: try_enqueue_receiver(), push_routed_frame(). *)

\* pump_receiver_waiting(), which also follows a flush with nothing to write.
Pump(w) ==
    /\ logging /\ Idle(w) /\ WaitingKeys(index) # {}
    /\ todo' = [todo EXCEPT ![w] = WaitingKeys(index)]
    /\ UNCHANGED <<logging, logVars, batch, cur, dedup, actorVars, spawned,
                   senderVars, historyVars, faults>>

\* try_enqueue_receiver(), the checks
TryEnqueue(w) ==
    \E m \in todo[w] :
        /\ cur[w] = {}
        /\ todo' = [todo EXCEPT ![w] = @ \ {m}]
        /\ LET waits == m \in WaitingKeys(index) IN
           /\ index' = IF waits /\ Room(m) = "already"
                       THEN SetEnqueued(index, m, TRUE) ELSE index
           /\ cur' = [cur EXCEPT ![w] = IF waits /\ Room(m) = "push" THEN {m} ELSE {}]
        /\ UNCHANGED <<logging, replyConn, pending, disk, batch, dedup,
                       actorVars, spawned, senderVars, historyVars, faults>>

\* find_local_proxy() finds the actor of a frame.
LocalActor == spawned

\* set_enqueued() and the push, which fails without the actor
PushRouted(w) ==
    \E m \in cur[w] :
        /\ cur' = [cur EXCEPT ![w] = {}]
        /\ \/ /\ LocalActor /\ Len(mail[m]) < MaxCopies
              /\ index' = SetEnqueued(index, m, TRUE)
              /\ mail' = [mail EXCEPT ![m] = Append(@, replyConn[m])]
           \/ /\ ~LocalActor
              /\ index' = SetEnqueued(index, m, FALSE)
              /\ UNCHANGED mail
        /\ UNCHANGED <<logging, replyConn, pending, disk, batch, todo, dedup, run,
                       runConn, spawned, senderVars, historyVars, faults>>

\* take_for_actor() selects the waiting entries ms and marks them.
TakeForActor(ms) ==
    [m \in Msgs |-> IF m \in ms THEN index[m] \cup {"enqueued"} ELSE index[m]]

\* spawn() registers the actors; replay_receiver_for()
Spawn ==
    /\ ~spawned /\ spawned' = TRUE
    /\ LET ms == IF logging THEN WaitingKeys(index) ELSE {} IN
       /\ index' = TakeForActor(ms)
       /\ mail' = [m \in Msgs |-> IF m \in ms THEN Append(mail[m], FALSE) ELSE mail[m]]
    /\ UNCHANGED <<logging, replyConn, pending, disk, workVars, dedup, run,
                   runConn, senderVars, historyVars, faults>>

-----------------------------------------------------------------------------
(* handle_inbound_message(): a copy of a frame arrives. *)

\* accept_logged_routed()
ReceiveLogged(m) ==
    /\ m \in unacked /\ logging
    /\ \/ /\ Executed(m) /\ HandledDurable(m)
          /\ acks' = acks \cup {m}
          /\ UNCHANGED <<index, replyConn, pending, todo>>
       \/ /\ Executed(m) /\ ~HandledDurable(m)
          /\ BufferHandled(index, m, TRUE)
          /\ UNCHANGED <<index, todo, acks>>
       \/ /\ HasData(m) /\ m \in WaitingKeys(index)
          /\ \E w \in Workers : Idle(w) /\ todo' = [todo EXCEPT ![w] = {m}]
          /\ UNCHANGED <<index, replyConn, pending, acks>>
       \/ /\ ~HasData(m)
          /\ BufferData(m)
          /\ UNCHANGED <<todo, acks>>
    /\ UNCHANGED <<logging, disk, batch, cur, dedup, actorVars, spawned, unacked,
                   historyVars, faults>>

\* peek_dedup()
PeekDedup(m) == dedup[m]

\* Without a log: peek_dedup(), then the mailbox.
ReceiveDirect(m) ==
    /\ m \in unacked /\ ~logging /\ LocalActor
    /\ \/ /\ PeekDedup(m) = "completed"
          /\ acks' = acks \cup {m}
          /\ UNCHANGED mail
       \/ /\ PeekDedup(m) = "absent" /\ Len(mail[m]) < MaxCopies
          /\ mail' = [mail EXCEPT ![m] = Append(@, TRUE)]
          /\ UNCHANGED acks
    /\ UNCHANGED <<logging, logVars, workVars, dedup, run, runConn, spawned,
                   unacked, historyVars, faults>>

-----------------------------------------------------------------------------
(* The actor: dispatch_envelope() and finish_remote_delivery(). *)

\* post_remote_ack(), which needs the connection the copy came on
PostAck(m, conn) == acks' = IF conn THEN acks \cup {m} ELSE acks

\* Pop a copy and claim it.
Dispatch(m) ==
    /\ run[m] = "idle" /\ mail[m] # << >>
    /\ mail' = [mail EXCEPT ![m] = Tail(@)]
    /\ LET conn == Head(mail[m]) IN
       \/ /\ Claim(m) = "completed"
          /\ PostAck(m, conn)
          /\ UNCHANGED <<index, dedup, run, runConn, excused>>
       \/ /\ Claim(m) = "busy"
          /\ UNCHANGED <<index, dedup, run, runConn, acks, excused>>
       \/ /\ Claim(m) = "overflow"
          /\ index' = SetEnqueued(index, m, FALSE)
          /\ UNCHANGED <<dedup, run, runConn, acks, excused>>
       \/ /\ Claim(m) = "fresh"
          /\ dedup' = [n \in Msgs |-> IF n = m THEN "in_progress"
                                      ELSE IF n \in Victims THEN "absent" ELSE dedup[n]]
          /\ excused' = IF logging THEN excused ELSE excused \cup Victims
          /\ run' = [run EXCEPT ![m] = "handler"]
          /\ runConn' = [runConn EXCEPT ![m] = conn]
          /\ UNCHANGED <<index, acks>>
    /\ UNCHANGED <<logging, replyConn, pending, disk, workVars, spawned, unacked,
                   ran, done, faults>>

\* Mutant of HandlerThrows: the frame is acknowledged all the same.
ThrowIsAcked(m) ==
    /\ run[m] = "handler" /\ faults < MaxFaults
    /\ faults' = faults + 1
    /\ dedup' = [dedup EXCEPT ![m] = "absent"]
    /\ index' = DropKey(m)
    /\ replyConn' = [replyConn EXCEPT ![m] = FALSE]
    /\ run' = [run EXCEPT ![m] = "idle"]
    /\ runConn' = [runConn EXCEPT ![m] = FALSE]
    /\ excused' = excused \cup {m}
    /\ PostAck(m, runConn[m])
    /\ UNCHANGED <<logging, pending, disk, workVars, mail, spawned, unacked,
                   ran, done>>

\* The handler throws: release the dedup entry and the log entry, no ack.
HandlerThrows(m) ==
    /\ run[m] = "handler" /\ faults < MaxFaults
    /\ faults' = faults + 1
    /\ dedup' = [dedup EXCEPT ![m] = "absent"]
    /\ index' = DropKey(m)
    /\ replyConn' = [replyConn EXCEPT ![m] = FALSE]
    /\ run' = [run EXCEPT ![m] = "idle"]
    /\ runConn' = [runConn EXCEPT ![m] = FALSE]
    /\ excused' = excused \cup {m}
    /\ UNCHANGED <<logging, pending, disk, workVars, mail, spawned, senderVars,
                   ran, done>>

\* The handler returns ok or dead_letter: complete the dedup entry ...
HandlerReturns(m) ==
    /\ run[m] = "handler"
    /\ dedup' = [dedup EXCEPT ![m] = IF @ # "absent" \/ ~TableFull THEN "completed" ELSE @]
    /\ run' = [run EXCEPT ![m] = "finish"]
    /\ ran' = ran \cup {m} /\ done' = done \cup {m}
    /\ UNCHANGED <<logging, logVars, workVars, mail, runConn, spawned, senderVars,
                   excused, faults>>

\* ... then mark_executed() and buffer_handled(), or ack.
FinishDelivery(m) ==
    /\ run[m] = "finish"
    /\ run' = [run EXCEPT ![m] = "idle"]
    /\ runConn' = [runConn EXCEPT ![m] = FALSE]
    /\ LET i == MarkExecuted(m) IN
       /\ index' = i
       /\ IF logging /\ ~HandledDurable(m)
          THEN BufferHandled(i, m, runConn[m]) /\ UNCHANGED acks
          ELSE /\ PostAck(m, runConn[m])
               /\ UNCHANGED <<replyConn, pending>>
    /\ UNCHANGED <<logging, disk, workVars, dedup, mail, spawned, unacked,
                   historyVars, faults>>

-----------------------------------------------------------------------------
(* The sender, and the receiver's end and new beginning. *)

AckArrives(m) ==
    /\ m \in acks
    /\ acks' = acks \ {m}
    /\ unacked' = unacked \ {m}
    /\ UNCHANGED <<logging, logVars, workVars, dedup, actorVars, spawned,
                   historyVars, faults>>

\* The connection breaks with the ack on it.
AckLost(m) ==
    /\ m \in acks
    /\ acks' = acks \ {m}
    /\ UNCHANGED <<logging, logVars, workVars, dedup, actorVars, spawned,
                   unacked, historyVars, faults>>

\* SIGKILL and a new process: of the batches being written any part may be in
\* the file, the last record torn; everything else is what the file says.
Restart ==
    /\ faults < MaxFaults
    /\ faults' = faults + 1
    /\ LET writing == UNION {batch[w] : w \in Workers} IN
       \E rs \in SUBSET writing, tears \in BOOLEAN :
          /\ tears => rs # writing
          /\ disk' = Appended(disk, rs, tears)
    /\ index' = Scan'
    /\ replyConn' = [m \in Msgs |-> FALSE]
    /\ pending' = {}
    /\ batch' = [w \in Workers |-> {}]
    /\ todo' = [w \in Workers |-> {}] /\ cur' = [w \in Workers |-> {}]
    /\ dedup' = [m \in Msgs |-> "absent"]
    /\ mail' = [m \in Msgs |-> << >>]
    /\ run' = [m \in Msgs |-> "idle"]
    /\ runConn' = [m \in Msgs |-> FALSE]
    /\ spawned' = FALSE
    /\ acks' = {}
    /\ ran' = {} /\ excused' = {}
    /\ UNCHANGED <<logging, unacked, done>>

-----------------------------------------------------------------------------
Init ==
    /\ logging \in BOOLEAN
    /\ disk = [data |-> {}, handled |-> {}, torn |-> FALSE]
    /\ index = Scan
    /\ replyConn = [m \in Msgs |-> FALSE]
    /\ pending = {}
    /\ batch = [w \in Workers |-> {}]
    /\ todo = [w \in Workers |-> {}] /\ cur = [w \in Workers |-> {}]
    /\ dedup = [m \in Msgs |-> "absent"]
    /\ mail = [m \in Msgs |-> << >>]
    /\ run = [m \in Msgs |-> "idle"]
    /\ runConn = [m \in Msgs |-> FALSE]
    /\ spawned = FALSE
    /\ unacked = Msgs /\ acks = {}
    /\ ran = {} /\ excused = {} /\ done = {}
    /\ faults = 0

Work(w) == CommitBatch(w) \/ TryEnqueue(w) \/ PushRouted(w)
Act(m) == Dispatch(m) \/ HandlerReturns(m) \/ FinishDelivery(m)

Next ==
    \/ \E w \in Workers : FlushReady(w) \/ Pump(w) \/ Work(w) \/ CommitFails(w)
    \/ \E m \in Msgs : \/ ReceiveLogged(m) \/ ReceiveDirect(m) \/ Act(m)
                       \/ HandlerThrows(m) \/ AckArrives(m) \/ AckLost(m)
    \/ Spawn \/ Restart

\* The flush loop and the actors run, the actors are spawned, the sender resends
\* until an ack gets through.
Fairness ==
    /\ WF_vars(Spawn)
    /\ WF_vars(\E w \in Workers : FlushReady(w)) /\ SF_vars(\E w \in Workers : Pump(w))
    /\ \A w \in Workers : WF_vars(Work(w))
    /\ \A m \in Msgs : /\ WF_vars(Act(m))
                       /\ SF_vars(ReceiveLogged(m) \/ ReceiveDirect(m))
                       /\ SF_vars(AckArrives(m))

Spec == Init /\ [][Next]_vars /\ Fairness

-----------------------------------------------------------------------------
(* Properties. *)

\* An ack is sent only for a frame whose handler has returned, whatever copies,
\* throws and restarts came before.
AckMeansDone == acks \cup (Msgs \ unacked) \subseteq done

\* In the life of a process a handler that has returned does not run again for
\* the same frame, unless it also threw, or there is no log and the table of
\* dedup_cap entries had to forget the frame.
NoSecondRun ==
    [][\A m \in Msgs : run[m] = "idle" /\ run'[m] = "handler" /\ m \in ran
                       => m \in excused']_vars

\* With the log, what the sender may forget is found again by a restart, unless
\* the file has been torn.
AckedIsReplayed ==
    logging /\ ~disk.torn => acks \cup (Msgs \ unacked) \subseteq disk.data

\* What the guide says of a restart: every data record that was fsynced runs again.
SyncedIsReplayed ==
    \A m \in Msgs : Persisted(m) => m \in disk.data

\* A frame the sender keeps resending is handled in the end, although the table
\* is too small for all frames, a handler throws, a write fails, or the receiver
\* is restarted.
SentIsHandled == \A m \in Msgs : m \in unacked ~> m \in done
=============================================================================
