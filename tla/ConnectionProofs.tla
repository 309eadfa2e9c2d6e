-------------------------- MODULE ConnectionProofs --------------------------
(***************************************************************************)
(* Proofs about connections: the link between two nodes (NodeLink), for    *)
(* any frames, any connections and any number of faults, and the reader of *)
(* a WebSocket (WsReader), for any script, any cut of it into chunks and   *)
(* any number of buffers.                                                  *)
(***************************************************************************)
EXTENDS NodeLink, WsReader, FiniteSetTheorems, SequenceTheorems, TLAPS

-----------------------------------------------------------------------------
(* NodeLink.                                                               *)

\* What resend_unacked() returns to, while the recovery is inside it.
ReturnInv == kpc["recover"] = "resend" => ret["recover"] \in {"look", "decide"}

\* Only a valid connection carries frames, so that one made from a dead object
\* starts empty.
DeadCarryNothing == \A c \in Conns : frames[c] # {} => Valid(c)

\* From track_unacked() on, a frame stays in m_unacked until the peer has handled
\* it: through dead links, refusals, flushes and resends alike.
TrackedUntilHandled ==
    \A m \in Msgs : spc[m] # "idle" => m \in handled \/ unacked[m] # "none"

\* The proxy never buffers more than k_max_buffered frames.
BufferIsBounded == IsFiniteSet(buffered) /\ Cardinality(buffered) <= MaxBuffered

IInv == TypeOK /\ ReturnInv /\ OneRecovery

-----------------------------------------------------------------------------
\* Nothing is sent, connected or recovering.
LEMMA InitIInv == Init => IInv
  <1> SUFFICES ASSUME Init PROVE IInv
    OBVIOUS
  <1>1. TypeOK
    <2>1. /\ frames \in [Conns -> SUBSET Msgs]
          /\ pend \in [Procs -> SUBSET Msgs]
          /\ todo \in [Procs -> SUBSET Msgs]
          /\ cur \in [Procs -> SUBSET Msgs]
      BY DEF Init
    <2>2. /\ haveAddr \in [Conns -> BOOLEAN]
          /\ recovering \in BOOLEAN /\ again \in BOOLEAN
      BY DEF Init
    <2>3. faults \in 0..MaxFaults
      BY LinkAssumption DEF Init
    <2>4. /\ unacked \in [Msgs -> {"none", "sent", "resend"}]
          /\ spc \in [Msgs -> {"idle", "route", "post", "retry", "accepted"}]
          /\ sconn \in [Msgs -> Conns \cup {None}]
          /\ dpc \in [Conns -> {"none", "erase", "mark", "drop", "flags"}]
      BY DEF Init
    <2>5. /\ kpc \in [Procs -> {"off", "sleep", "flush", "flushing", "resend",
                                "look", "decide"}]
          /\ kconn \in [Procs -> Conns \cup {None}]
          /\ ret \in [Procs -> {"off", "look", "decide"}]
      BY DEF Init
    <2>6. /\ buffered \subseteq Msgs /\ handled \subseteq Msgs
          /\ proxyConn \in Conns \cup {None}
          /\ pool \in Conns \cup {None}
          /\ valid \subseteq Conns
      BY DEF Init
    <2> QED
      BY <2>1, <2>2, <2>3, <2>4, <2>5, <2>6 DEF TypeOK
  <1>2. kpc["recover"] = "off" /\ recovering = FALSE
    BY DEF Init, Procs
  <1> QED
    BY <1>1, <1>2 DEF IInv, ReturnInv, OneRecovery

\* A dial that succeeds pools an object of Conns.
LEMMA PoolNewType ==
    ASSUME NEW p \in Procs, PoolNew(p)
    PROVE  \E c \in Conns : /\ pool' = c
                            /\ valid' = valid \cup {c}
                            /\ kconn' = [kconn EXCEPT ![p] = c]
  BY DEF PoolNew

\* The actions of senders, of the peer and of the ack timeout.
LEMMA SenderIInv ==
    ASSUME IInv, NEW m \in Msgs, Sender(m) \/ NoteAck(m) \/ AckTimeout(m)
    PROVE  IInv'
  <1>1. UNCHANGED <<kpc, ret, recovering>>
    BY DEF Sender, Track, Route, Post, NoteAck, AckTimeout, procVars, flagVars
  <1>2. TypeOK'
    <2> USE DEF IInv, TypeOK, senderVars, proxyVars, connVars, deathVars, flagVars,
                procVars, envVars
    <2>1. CASE Track(m)
      BY <2>1 DEF Track
    <2>2. CASE Route(m)
      BY <2>2 DEF Route
    <2>3. CASE Post(m)
      BY <2>3 DEF Post, PostFrames, Failed
    <2>4. CASE NoteAck(m)
      BY <2>4 DEF NoteAck, Forgotten
    <2>5. CASE AckTimeout(m)
      BY <2>5 DEF AckTimeout, PostFrames
    <2> QED
      BY <2>1, <2>2, <2>3, <2>4, <2>5 DEF Sender
  <1> QED
    BY <1>1, <1>2 DEF IInv, ReturnInv, OneRecovery

\* The actions of a connection: the last of them may start a recovery.
LEMMA ConnIInv ==
    ASSUME IInv, NEW c \in Conns, PeerHandles(c) \/ NotifyDead(c) \/ LinkDeath(c)
    PROVE  IInv'
  <1> USE DEF senderVars, proxyVars, connVars, deathVars, flagVars, procVars, envVars
  <1>1. CASE PeerHandles(c)
    <2>1. TypeOK'
      BY <1>1 DEF PeerHandles, IInv, TypeOK
    <2> QED
      BY <1>1, <2>1 DEF PeerHandles, IInv, ReturnInv, OneRecovery
  <1>2. CASE NotifyDead(c)
    <2>1. TypeOK'
      BY <1>2, LinkAssumption DEF NotifyDead, LoseFrames, IInv, TypeOK
    <2> QED
      BY <1>2, <2>1 DEF NotifyDead, IInv, ReturnInv, OneRecovery
  <1>3. CASE ErasePooled(c)
    <2>1. TypeOK'
      BY <1>3 DEF ErasePooled, IInv, TypeOK
    <2> QED
      BY <1>3, <2>1 DEF ErasePooled, IInv, ReturnInv, OneRecovery
  <1>4. CASE MarkResend(c)
    <2>1. TypeOK'
      BY <1>4 DEF MarkResend, IInv, TypeOK
    <2> QED
      BY <1>4, <2>1 DEF MarkResend, IInv, ReturnInv, OneRecovery
  <1>5. CASE DropProxyConn(c)
    <2>1. TypeOK'
      BY <1>5 DEF DropProxyConn, IInv, TypeOK
    <2> QED
      BY <1>5, <2>1 DEF DropProxyConn, IInv, ReturnInv, OneRecovery
  <1>6. CASE RequestRecovery(c)
    <2>1. TypeOK'
      BY <1>6 DEF RequestRecovery, Goto, IInv, TypeOK
    <2>2. (ReturnInv /\ OneRecovery)'
      BY <1>6 DEF RequestRecovery, Goto, IInv, TypeOK, ReturnInv, OneRecovery, Procs
    <2> QED
      BY <2>1, <2>2 DEF IInv
  <1> QED
    BY <1>1, <1>2, <1>3, <1>4, <1>5, <1>6 DEF LinkDeath

\* connect_to_node() and resend_unacked() never end a recovery by themselves.
LEMMA ConnectIInv ==
    ASSUME IInv, NEW p \in Procs, ConnectAndResend(p)
    PROVE  IInv'
  <1> USE DEF senderVars, proxyVars, connVars, deathVars, flagVars, procVars, envVars
  <1>1. TypeOK'
    <2> USE DEF IInv, TypeOK
    <2>1. CASE TakeBuffer(p)
      BY <2>1 DEF TakeBuffer, Goto
    <2>2. CASE FlushOne(p)
      <3>1. PICK m \in Msgs : m \in pend[p] /\ FlushOne(p)!(m)
        BY <2>2 DEF FlushOne
      <3> QED
        BY <3>1 DEF PostFrames
    <2>3. CASE CollectAfterFlush(p)
      BY <2>3 DEF CollectAfterFlush, Collect, AfterConnect, Goto
    <2>4. CASE ResendOne(p)
      <3>1. PICK m \in Msgs : m \in todo[p] /\ ResendOne(p)!(m)
        BY <2>4 DEF ResendOne
      <3> QED
        BY <3>1 DEF PostFrames
    <2>5. CASE ClearMark(p)
      BY <2>5 DEF ClearMark
    <2>6. CASE ResendDone(p)
      BY <2>6 DEF ResendDone, Goto
    <2> QED
      BY <2>1, <2>2, <2>3, <2>4, <2>5, <2>6 DEF ConnectAndResend
  <1>2. (ReturnInv /\ OneRecovery)'
    <2>1. UNCHANGED recovering
      BY DEF ConnectAndResend, TakeBuffer, FlushOne, CollectAfterFlush, ResendOne,
             ClearMark, ResendDone
    <2> USE DEF IInv, TypeOK, ReturnInv, OneRecovery, Procs
    <2>2. CASE TakeBuffer(p)
      BY <2>1, <2>2 DEF TakeBuffer, Goto
    <2>3. CASE FlushOne(p)
      BY <2>1, <2>3 DEF FlushOne
    <2>4. CASE CollectAfterFlush(p)
      BY <2>1, <2>4 DEF CollectAfterFlush, Collect, AfterConnect, Goto
    <2>5. CASE ResendOne(p)
      BY <2>1, <2>5 DEF ResendOne
    <2>6. CASE ClearMark(p)
      BY <2>1, <2>6 DEF ClearMark
    <2>7. CASE ResendDone(p)
      BY <2>1, <2>7 DEF ResendDone, Goto
    <2> QED
      BY <2>2, <2>3, <2>4, <2>5, <2>6, <2>7 DEF ConnectAndResend
  <1> QED
    BY <1>1, <1>2 DEF IInv

\* gossip_loop() and recover_node() themselves.
LEMMA RecoverIInv ==
    ASSUME IInv, GossipConnect \/ Recover \/ RecoverStops \/ RecoverConnect
    PROVE  IInv'
  <1> USE DEF senderVars, proxyVars, connVars, deathVars, flagVars, procVars, envVars
  <1>1. ASSUME NEW p \in Procs, PoolNew(p), p = "recover" => kpc[p] = "sleep"
        PROVE  IInv'
    <2>1. PICK c \in Conns : /\ pool' = c
                             /\ valid' = valid \cup {c}
                             /\ kconn' = [kconn EXCEPT ![p] = c]
      BY <1>1, PoolNewType
    <2>2. TypeOK'
      BY <1>1, <2>1 DEF PoolNew, Goto, IInv, TypeOK
    <2>3. (ReturnInv /\ OneRecovery)'
      BY <1>1 DEF PoolNew, Goto, IInv, TypeOK, ReturnInv, OneRecovery, Procs
    <2> QED
      BY <2>2, <2>3 DEF IInv
  <1>2. CASE GossipConnect
    BY <1>2, <1>1 DEF GossipConnect, Procs
  <1>3. CASE RecoverConnect
    BY <1>3, <1>1 DEF RecoverConnect, Procs
  <1>4. CASE RecoverStops
    <2>1. faults' \in 0..MaxFaults
      BY <1>4, LinkAssumption DEF RecoverStops, IInv, TypeOK
    <2>2. TypeOK'
      BY <1>4, <2>1 DEF RecoverStops, Goto, IInv, TypeOK, Procs
    <2>3. (ReturnInv /\ OneRecovery)'
      BY <1>4 DEF RecoverStops, Goto, IInv, TypeOK, ReturnInv, OneRecovery, Procs
    <2> QED
      BY <2>2, <2>3 DEF IInv
  <1>5. CASE Recover
    <2>1. TypeOK'
      <3>1. CASE RecoverNoConnect
        BY <3>1 DEF RecoverNoConnect, Goto, IInv, TypeOK, Procs
      <3>2. CASE RecoverLook
        BY <3>2 DEF RecoverLook, Collect, Goto, IInv, TypeOK, Procs
      <3>3. CASE RecoverDecide
        BY <3>3, LinkAssumption DEF RecoverDecide, Goto, IInv, TypeOK, Procs
      <3> QED
        BY <1>5, <3>1, <3>2, <3>3 DEF Recover
    <2>2. (ReturnInv /\ OneRecovery)'
      BY <1>5 DEF Recover, RecoverNoConnect, RecoverLook, RecoverDecide, Collect,
                  Goto, IInv, TypeOK, ReturnInv, OneRecovery, Procs
    <2> QED
      BY <2>1, <2>2 DEF IInv
  <1> QED
    BY <1>2, <1>3, <1>4, <1>5

\* Every step preserves the invariant.
LEMMA StepIInv == IInv /\ [Next]_vars => IInv'
  <1> SUFFICES ASSUME IInv, [Next]_vars PROVE IInv'
    OBVIOUS
  <1>1. CASE Next
    BY <1>1, SenderIInv, ConnIInv, ConnectIInv, RecoverIInv DEF Next
  <1>2. CASE UNCHANGED vars
    BY <1>2 DEF vars, senderVars, proxyVars, connVars, deathVars, flagVars, procVars,
                envVars, IInv, TypeOK, ReturnInv, OneRecovery
  <1> QED
    BY <1>1, <1>2

\* The invariant holds in every state.
THEOREM InvariantHolds == Spec => []IInv
  BY InitIInv, StepIInv, PTL DEF Spec

\* A second recover_node() is never started for a node, and m_recovering is never
\* set without one, whichever connections die while it runs.
THEOREM AtMostOneRecovery == Spec => []OneRecovery
  <1>1. IInv => OneRecovery
    BY DEF IInv
  <1> QED
    BY InvariantHolds, <1>1, PTL

-----------------------------------------------------------------------------
(* What becomes of a frame.                                                 *)

DeliveryInv == DeadCarryNothing /\ TrackedUntilHandled /\ BufferIsBounded

\* post_frame() puts frames on a valid connection only.
LEMMA PostFramesValid ==
    ASSUME TypeOK, DeadCarryNothing, NEW c, NEW ms, PostFrames(c, ms), valid' = valid
    PROVE  DeadCarryNothing'
  BY DEF TypeOK, DeadCarryNothing, PostFrames, Valid

\* A step of a sender, an ack and an ack timeout.
LEMMA SenderDelivery ==
    ASSUME TypeOK, DeliveryInv, NEW m \in Msgs, Sender(m) \/ NoteAck(m) \/ AckTimeout(m)
    PROVE  DeliveryInv'
  <1> USE DEF senderVars, proxyVars, connVars, deathVars, flagVars, procVars, envVars
  <1>1. DeadCarryNothing'
    <2>1. CASE Post(m)
      BY <2>1, PostFramesValid DEF Post, DeliveryInv
    <2>2. CASE AckTimeout(m)
      BY <2>2, PostFramesValid DEF AckTimeout, DeliveryInv
    <2>3. CASE Track(m) \/ Route(m) \/ NoteAck(m)
      BY <2>3 DEF Track, Route, NoteAck, DeliveryInv, DeadCarryNothing, Valid
    <2> QED
      BY <2>1, <2>2, <2>3 DEF Sender
  <1>2. TrackedUntilHandled'
    <2> USE DEF TypeOK, DeliveryInv, TrackedUntilHandled
    <2>1. CASE Track(m)
      BY <2>1 DEF Track
    <2>2. CASE Route(m)
      BY <2>2 DEF Route
    <2>3. CASE Post(m)
      BY <2>3 DEF Post, Failed
    <2>4. CASE NoteAck(m)
      BY <2>4 DEF NoteAck, Forgotten
    <2>5. CASE AckTimeout(m)
      BY <2>5 DEF AckTimeout
    <2> QED
      BY <2>1, <2>2, <2>3, <2>4, <2>5 DEF Sender
  <1>3. BufferIsBounded'
    <2>1. CASE buffered' = buffered
      BY <2>1 DEF DeliveryInv, BufferIsBounded
    <2>2. CASE Cardinality(buffered) < MaxBuffered /\ buffered' = buffered \cup {m}
      <3>1. Cardinality(buffered) \in Nat
        BY FS_CardinalityType DEF DeliveryInv, BufferIsBounded
      <3>2. /\ IsFiniteSet(buffered')
            /\ Cardinality(buffered') = Cardinality(buffered)
               \/ Cardinality(buffered') = Cardinality(buffered) + 1
        BY <2>2, FS_AddElement DEF DeliveryInv, BufferIsBounded
      <3> QED
        BY <2>2, <3>1, <3>2, LinkAssumption DEF DeliveryInv, BufferIsBounded
    <2> QED
      BY <2>1, <2>2 DEF Sender, Track, Route, Post, NoteAck, AckTimeout
  <1> QED
    BY <1>1, <1>2, <1>3 DEF DeliveryInv

\* The peer, and the death of a connection: what it carried is lost, and with
\* MarkResend every frame that is still tracked stays so.
LEMMA ConnDelivery ==
    ASSUME TypeOK, DeliveryInv, NEW c \in Conns,
           PeerHandles(c) \/ NotifyDead(c) \/ LinkDeath(c)
    PROVE  DeliveryInv'
  <1> USE DEF senderVars, proxyVars, connVars, deathVars, flagVars, procVars, envVars
  <1>1. DeadCarryNothing'
    <2> USE DEF TypeOK, DeliveryInv, DeadCarryNothing, Valid
    <2>1. CASE PeerHandles(c)
      BY <2>1 DEF PeerHandles
    <2>2. CASE NotifyDead(c)
      BY <2>2 DEF NotifyDead, LoseFrames
    <2>3. CASE LinkDeath(c)
      BY <2>3 DEF LinkDeath, ErasePooled, MarkResend, DropProxyConn, RequestRecovery
    <2> QED
      BY <2>1, <2>2, <2>3
  <1>2. TrackedUntilHandled'
    <2> USE DEF TypeOK, DeliveryInv, TrackedUntilHandled
    <2>1. CASE PeerHandles(c)
      BY <2>1 DEF PeerHandles
    <2>2. CASE NotifyDead(c)
      BY <2>2 DEF NotifyDead
    <2>3. CASE MarkResend(c)
      BY <2>3 DEF MarkResend
    <2>4. CASE ErasePooled(c) \/ DropProxyConn(c) \/ RequestRecovery(c)
      BY <2>4 DEF ErasePooled, DropProxyConn, RequestRecovery
    <2> QED
      BY <2>1, <2>2, <2>3, <2>4 DEF LinkDeath
  <1>3. BufferIsBounded'
    BY DEF PeerHandles, NotifyDead, LinkDeath, ErasePooled, MarkResend,
           DropProxyConn, RequestRecovery, DeliveryInv, BufferIsBounded
  <1> QED
    BY <1>1, <1>2, <1>3 DEF DeliveryInv

\* A flush empties the buffer, a resend keeps the frame tracked.
LEMMA ConnectDelivery ==
    ASSUME TypeOK, DeliveryInv, NEW p \in Procs, ConnectAndResend(p)
    PROVE  DeliveryInv'
  <1> USE DEF senderVars, proxyVars, connVars, deathVars, flagVars, procVars, envVars
  <1>1. DeadCarryNothing'
    <2>1. CASE FlushOne(p)
      BY <2>1, PostFramesValid DEF FlushOne, DeliveryInv
    <2>2. CASE ResendOne(p)
      BY <2>2, PostFramesValid DEF ResendOne, DeliveryInv
    <2>3. CASE TakeBuffer(p) \/ CollectAfterFlush(p) \/ ClearMark(p) \/ ResendDone(p)
      BY <2>3 DEF TakeBuffer, CollectAfterFlush, ClearMark, ResendDone, DeliveryInv,
                  DeadCarryNothing, Valid
    <2> QED
      BY <2>1, <2>2, <2>3 DEF ConnectAndResend
  <1>2. TrackedUntilHandled'
    <2> USE DEF TypeOK, DeliveryInv, TrackedUntilHandled
    <2>1. CASE FlushOne(p)
      BY <2>1 DEF FlushOne
    <2>2. CASE ClearMark(p)
      BY <2>2 DEF ClearMark
    <2>3. CASE \/ ResendOne(p) \/ TakeBuffer(p) \/ CollectAfterFlush(p)
               \/ ResendDone(p)
      BY <2>3 DEF ResendOne, TakeBuffer, CollectAfterFlush, ResendDone
    <2> QED
      BY <2>1, <2>2, <2>3 DEF ConnectAndResend
  <1>3. BufferIsBounded'
    <2>1. buffered' = buffered \/ buffered' = {}
      BY DEF ConnectAndResend, FlushOne, ResendOne, TakeBuffer, CollectAfterFlush,
             ClearMark, ResendDone
    <2> QED
      BY <2>1, FS_EmptySet, LinkAssumption DEF DeliveryInv, BufferIsBounded
  <1> QED
    BY <1>1, <1>2, <1>3 DEF DeliveryInv

\* Dialling and the decisions of recover_node() touch no frame.
LEMMA RecoverDelivery ==
    ASSUME TypeOK, DeliveryInv, GossipConnect \/ Recover \/ RecoverStops \/ RecoverConnect
    PROVE  DeliveryInv'
  <1>1. UNCHANGED <<unacked, spc, handled, frames, buffered>>
    BY DEF GossipConnect, Recover, RecoverStops, RecoverConnect, PoolNew,
           RecoverNoConnect, RecoverLook, RecoverDecide, senderVars, proxyVars,
           connVars, deathVars, flagVars, procVars, envVars
  <1>2. valid \subseteq valid'
    BY DEF GossipConnect, Recover, RecoverStops, RecoverConnect, PoolNew,
           RecoverNoConnect, RecoverLook, RecoverDecide, connVars
  <1> QED
    BY <1>1, <1>2 DEF DeliveryInv, DeadCarryNothing, Valid, TrackedUntilHandled,
                      BufferIsBounded

\* Every accepted or refused frame is tracked until the peer has handled it, the
\* buffer keeps its bound and a connection object is reused only when it is empty.
THEOREM FramesStayTracked ==
    Spec => [](DeadCarryNothing /\ TrackedUntilHandled /\ BufferIsBounded)
  <1>1. Init => DeliveryInv
    BY FS_EmptySet, LinkAssumption
       DEF Init, DeliveryInv, DeadCarryNothing, TrackedUntilHandled, BufferIsBounded
  <1>2. IInv /\ DeliveryInv /\ [Next]_vars => DeliveryInv'
    <2> SUFFICES ASSUME TypeOK, DeliveryInv, [Next]_vars PROVE DeliveryInv'
      BY DEF IInv
    <2>1. CASE Next
      BY <2>1, SenderDelivery, ConnDelivery, ConnectDelivery, RecoverDelivery DEF Next
    <2>2. CASE UNCHANGED vars
      BY <2>2 DEF vars, senderVars, proxyVars, connVars, envVars, DeliveryInv,
                  DeadCarryNothing, Valid, TrackedUntilHandled, BufferIsBounded
    <2> QED
      BY <2>1, <2>2
  <1> QED
    BY <1>1, <1>2, InvariantHolds, PTL DEF Spec, DeliveryInv

-----------------------------------------------------------------------------
(* WsReader: sets of numbers in order.                                     *)

Rank(S, i) == Cardinality({j \in S : j <= i})

\* The rank of a member is a number up to the size of the set.
LEMMA RankType ==
    ASSUME NEW S \in SUBSET Nat, IsFiniteSet(S), NEW i \in S
    PROVE  Rank(S, i) \in 1..Cardinality(S)
  <1> DEFINE T == {j \in S : j <= i}
  <1>1. T \in SUBSET S /\ i \in T
    OBVIOUS
  <1>2. IsFiniteSet(T) /\ Cardinality(T) <= Cardinality(S)
    BY <1>1, FS_Subset
  <1>3. Cardinality(T) \in Nat /\ Cardinality(S) \in Nat
    BY <1>2, FS_CardinalityType
  <1>4. Cardinality(T) # 0
    BY <1>1, <1>2, FS_EmptySet
  <1> HIDE DEF T
  <1>5. Cardinality(T) \in 1..Cardinality(S)
    BY <1>2, <1>3, <1>4
  <1> QED
    BY <1>5 DEF Rank, T

\* A larger member has a larger rank.
LEMMA RankGrows ==
    ASSUME NEW S \in SUBSET Nat, IsFiniteSet(S), NEW i \in S, NEW k \in S, i < k
    PROVE  Rank(S, i) < Rank(S, k)
  <1> DEFINE T == {j \in S : j <= i}
  <1> DEFINE U == {j \in S : j <= k}
  <1>0. i \in Nat /\ k \in Nat
    OBVIOUS
  <1>1. T \in SUBSET U /\ U \in SUBSET S /\ k \in U /\ k \notin T
    <2>1. \A j \in S : j \in Nat /\ (j <= i => j <= k)
      BY <1>0
    <2>2. ~(k <= i) /\ k <= k
      BY <1>0
    <2> QED
      BY <2>1, <2>2
  <1> HIDE DEF T, U
  <1>2. IsFiniteSet(U)
    BY <1>1, FS_Subset
  <1>3. /\ Cardinality(T) <= Cardinality(U) /\ Cardinality(U) # Cardinality(T)
        /\ IsFiniteSet(T)
    BY <1>1, <1>2, FS_Subset
  <1>4. Cardinality(T) \in Nat /\ Cardinality(U) \in Nat
    BY <1>2, <1>3, FS_CardinalityType
  <1>5. Cardinality(T) < Cardinality(U)
    BY <1>3, <1>4
  <1> QED
    BY <1>5 DEF Rank, T, U

\* Every number up to the size of the set is the rank of one member.
LEMMA RankIsOnto ==
    ASSUME NEW S \in SUBSET Nat, IsFiniteSet(S), NEW n \in 1..Cardinality(S)
    PROVE  \E i \in S : Rank(S, i) = n
  <1> DEFINE f == [i \in S |-> Rank(S, i)]
  <1> DEFINE N == 1..Cardinality(S)
  <1>1. f \in [S -> N]
    BY RankType
  <1>2. ASSUME NEW i \in S, NEW k \in S, f[i] = f[k] PROVE i = k
    <2>1. Rank(S, i) = Rank(S, k) /\ Rank(S, i) \in N
      BY <1>2, RankType
    <2>2. ~(i < k) /\ ~(k < i)
      BY <2>1, RankGrows
    <2> QED
      BY <2>2
  <1>3. f \in Injection(S, N)
    BY <1>1, <1>2 DEF Injection, IsInjective
  <1>4. Cardinality(S) \in Nat
    BY FS_CardinalityType
  <1>5. IsFiniteSet(N) /\ Cardinality(N) = Cardinality(S)
    BY <1>4, FS_Interval
  <1>6. f \in Surjection(S, N)
    BY <1>3, <1>5, FS_Injection
  <1> QED
    BY <1>6 DEF Surjection

\* What InOrder() has at n is the one member of rank n.
LEMMA InOrderIs ==
    ASSUME NEW S \in SUBSET Nat, IsFiniteSet(S), NEW n \in 1..Cardinality(S)
    PROVE  /\ InOrder(S)[n] \in S /\ Rank(S, InOrder(S)[n]) = n
           /\ \A i \in S : Rank(S, i) = n => i = InOrder(S)[n]
  <1> DEFINE m == CHOOSE i \in S : Rank(S, i) = n
  <1>1. InOrder(S)[n] = m
    BY DEF InOrder, Rank
  <1>2. m \in S /\ Rank(S, m) = n
    BY RankIsOnto
  <1> HIDE DEF m
  <1>3. ASSUME NEW i \in S, Rank(S, i) = n PROVE i = m
    <2>1. ~(i < m) /\ ~(m < i)
      BY <1>2, <1>3, RankGrows
    <2> QED
      BY <1>2, <2>1
  <1> QED
    BY <1>1, <1>2, <1>3

\* It is a sequence.
LEMMA InOrderType ==
    ASSUME NEW S \in SUBSET Nat, IsFiniteSet(S)
    PROVE  /\ Cardinality(S) \in Nat
           /\ InOrder(S) \in Seq(Nat) /\ Len(InOrder(S)) = Cardinality(S)
  <1>1. Cardinality(S) \in Nat
    BY FS_CardinalityType
  <1>2. \A n \in 1..Cardinality(S) : InOrder(S)[n] \in Nat
    BY InOrderIs
  <1>3. \A f : f = InOrder(S) => f = [n \in DOMAIN f |-> f[n]]
                               /\ DOMAIN f = 1..Cardinality(S)
    BY DEF InOrder
  <1>4. InOrder(S) \in [1..Cardinality(S) -> Nat]
    BY <1>2, <1>3
  <1> QED
    BY <1>1, <1>4

\* The members before some point come first.
LEMMA InOrderPrefix ==
    ASSUME NEW S \in SUBSET Nat, IsFiniteSet(S), NEW T \in SUBSET S,
           \A i \in S \ T : \A j \in T : j < i
    PROVE  /\ IsFiniteSet(T) /\ Cardinality(T) \in Nat /\ Cardinality(T) <= Cardinality(S)
           /\ \A n \in 1..Cardinality(T) : InOrder(T)[n] = InOrder(S)[n]
  <1>1. IsFiniteSet(T) /\ Cardinality(T) <= Cardinality(S)
    BY FS_Subset
  <1>2. Cardinality(T) \in Nat /\ Cardinality(S) \in Nat
    BY <1>1, FS_CardinalityType
  <1>3. ASSUME NEW n \in 1..Cardinality(T) PROVE InOrder(T)[n] = InOrder(S)[n]
    <2>0. T \in SUBSET Nat
      OBVIOUS
    <2>1. InOrder(T)[n] \in T /\ Rank(T, InOrder(T)[n]) = n
      BY <1>1, <2>0, InOrderIs
    <2> DEFINE i == InOrder(T)[n]
    <2> HIDE DEF i
    <2>5. i \in T /\ Rank(T, i) = n /\ i = InOrder(T)[n]
      BY <2>1 DEF i
    <2>2. {j \in S : j <= i} = {j \in T : j <= i}
      <3>1. ASSUME NEW j \in S, j <= i PROVE j \in T
        BY <2>5, <3>1
      <3> QED
        BY <3>1
    <2>3. Rank(S, i) = n
      BY <2>5, <2>2 DEF Rank
    <2>4. n \in 1..Cardinality(S) /\ i \in S
      BY <1>1, <1>2, <2>5
    <2> QED
      BY <2>5, <2>3, <2>4, InOrderIs
  <1> QED
    BY <1>1, <1>2, <1>3

\* A number beyond all members comes last.
LEMMA InOrderAppend ==
    ASSUME NEW S \in SUBSET Nat, IsFiniteSet(S), NEW c \in Nat, \A j \in S : j < c
    PROVE  /\ IsFiniteSet(S \cup {c}) /\ Cardinality(S \cup {c}) = Cardinality(S) + 1
           /\ InOrder(S \cup {c}) = Append(InOrder(S), c)
  <1> DEFINE T == S \cup {c}
  <1>1. c \notin S /\ T \in SUBSET Nat
    OBVIOUS
  <1>2. IsFiniteSet(T) /\ Cardinality(T) = Cardinality(S) + 1
    BY <1>1, FS_AddElement
  <1>3. \A i \in T \ S : \A j \in S : j < i
    OBVIOUS
  <1>4. {j \in T : j <= c} = T
    <2>1. \A j \in S : j \in Nat /\ j <= c
      OBVIOUS
    <2>2. \A j \in T : j <= c
      BY <2>1
    <2> HIDE DEF T
    <2> QED
      BY <2>2
  <1>5. c \in T /\ S \in SUBSET T
    OBVIOUS
  <1> HIDE DEF T
  <1>6. \A n \in 1..Cardinality(S) : InOrder(S)[n] = InOrder(T)[n]
    BY <1>1, <1>2, <1>3, <1>5, InOrderPrefix
  <1>7. /\ Cardinality(S) \in Nat /\ InOrder(S) \in Seq(Nat)
        /\ Len(InOrder(S)) = Cardinality(S)
    BY InOrderType
  <1>8. InOrder(T) \in Seq(Nat) /\ Len(InOrder(T)) = Cardinality(T)
    BY <1>1, <1>2, InOrderType
  <1>9. InOrder(T)[Cardinality(T)] = c
    <2>0. Rank(T, c) = Cardinality(T)
      BY <1>4 DEF Rank
    <2>1. Rank(T, c) = Cardinality(T) /\ Cardinality(T) \in 1..Cardinality(T)
      BY <1>2, <1>7, <2>0
    <2> QED
      BY <1>1, <1>2, <1>5, <2>1, InOrderIs
  <1>10. /\ Append(InOrder(S), c) \in Seq(Nat)
         /\ Len(Append(InOrder(S), c)) = Cardinality(S) + 1
    BY <1>7
  <1>11. ASSUME NEW n \in 1..(Cardinality(S) + 1)
         PROVE  InOrder(T)[n] = Append(InOrder(S), c)[n]
    <2>1. CASE n = Cardinality(S) + 1
      BY <1>2, <1>7, <1>9, <2>1
    <2>2. CASE n # Cardinality(S) + 1
      <3>1. n \in 1..Cardinality(S)
        BY <1>7, <2>2
      <3> QED
        BY <1>6, <1>7, <3>1
    <2> QED
      BY <2>1, <2>2
  <1>12. InOrder(T) = Append(InOrder(S), c)
    BY <1>2, <1>8, <1>10, <1>11, SeqEqual
  <1> QED
    BY <1>2, <1>12 DEF T

\* Of nothing it is empty.
LEMMA InOrderEmpty == InOrder({}) = << >> /\ Cardinality({}) = 0 /\ IsFiniteSet({})
  <1>1. Cardinality({}) = 0 /\ IsFiniteSet({})
    BY FS_EmptySet
  <1>2. InOrder({}) \in Seq(Nat) /\ Len(InOrder({})) = 0
    BY <1>1, InOrderType
  <1> QED
    BY <1>1, <1>2

-----------------------------------------------------------------------------
(* Chunks: how many have a buffer, and how much of the stream they are.     *)

\* A count.
LEMMA FilledType ==
    ASSUME NEW s \in Seq(Nat)
    PROVE  /\ Filled(s) \in Nat /\ IsFiniteSet({i \in DOMAIN s : s[i] > 0})
           /\ Filled(<< >>) = 0
  <1>1. IsFiniteSet(1..Len(s))
    BY FS_Interval
  <1>2. {i \in DOMAIN s : s[i] > 0} \in SUBSET (1..Len(s))
    OBVIOUS
  <1>3. IsFiniteSet({i \in DOMAIN s : s[i] > 0})
    BY <1>1, <1>2, FS_Subset
  <1>4. {i \in DOMAIN << >> : << >>[i] > 0} = {}
    OBVIOUS
  <1> QED
    BY <1>3, <1>4, FS_CardinalityType, FS_EmptySet DEF Filled

\* A chunk at the end.
LEMMA FilledAppend ==
    ASSUME NEW s \in Seq(Nat), NEW n \in Nat
    PROVE  Filled(Append(s, n)) = Filled(s) + (IF n > 0 THEN 1 ELSE 0)
  <1> DEFINE S == {i \in DOMAIN s : s[i] > 0}
  <1> DEFINE T == {i \in DOMAIN Append(s, n) : Append(s, n)[i] > 0}
  <1> DEFINE c == Len(s) + 1
  <1>1. IsFiniteSet(S) /\ Cardinality(S) \in Nat
    BY FilledType DEF Filled
  <1>2. c \notin S /\ \A i \in DOMAIN Append(s, n) : i \in DOMAIN s \/ i = c
    OBVIOUS
  <1>3. CASE n > 0
    <2>1. T = S \cup {c}
      BY <1>3
    <2> HIDE DEF S, T, c
    <2>2. Cardinality(T) = Cardinality(S) + 1
      BY <1>1, <1>2, <2>1, FS_AddElement
    <2> QED
      BY <1>3, <2>2 DEF Filled, S, T
  <1>4. CASE ~(n > 0)
    <2>1. T = S
      BY <1>4
    <2>2. Filled(s) = Cardinality(S) /\ Filled(Append(s, n)) = Cardinality(T)
      BY DEF Filled
    <2> HIDE DEF S, T, c
    <2> QED
      BY <1>1, <1>4, <2>1, <2>2
  <1> QED
    BY <1>3, <1>4

\* A chunk by itself.
LEMMA FilledOne ==
    ASSUME NEW n \in Nat
    PROVE  Filled(<<n>>) = IF n > 0 THEN 1 ELSE 0
  <1>1. << >> \in Seq(Nat) /\ <<n>> = Append(<< >>, n)
    OBVIOUS
  <1>2. Filled(Append(<< >>, n)) = Filled(<< >>) + (IF n > 0 THEN 1 ELSE 0)
    BY <1>1, FilledAppend
  <1>3. Filled(<<n>>) = Filled(Append(<< >>, n))
    BY <1>1
  <1>4. Filled(<< >>) = 0
    BY <1>1, FilledType
  <1> QED
    BY <1>2, <1>3, <1>4

\* A chunk taken from the front.
LEMMA FilledTail ==
    ASSUME NEW s \in Seq(Nat), s # << >>
    PROVE  /\ Head(s) \in Nat /\ Tail(s) \in Seq(Nat)
           /\ Filled(s) = Filled(Tail(s)) + (IF Head(s) > 0 THEN 1 ELSE 0)
  <1> DEFINE S == {i \in DOMAIN s : s[i] > 0}
  <1> DEFINE T == {i \in DOMAIN Tail(s) : Tail(s)[i] > 0}
  <1> DEFINE U == S \ {1}
  <1>0. /\ Head(s) \in Nat /\ Tail(s) \in Seq(Nat) /\ Head(s) = s[1] /\ Len(s) \in Nat \ {0}
        /\ Len(Tail(s)) = Len(s) - 1 /\ \A i \in 1..(Len(s) - 1) : Tail(s)[i] = s[i + 1]
    OBVIOUS
  <1>1. IsFiniteSet(S) /\ Cardinality(S) \in Nat
    BY FilledType DEF Filled
  <1>2. IsFiniteSet(T) /\ Cardinality(T) \in Nat
    BY <1>0, FilledType DEF Filled
  <1> DEFINE f == [i \in T |-> i + 1]
  <1>3. DOMAIN Tail(s) = 1..(Len(s) - 1) /\ DOMAIN s = 1..Len(s)
    BY <1>0
  <1>4. \A i \in T : i \in 1..(Len(s) - 1) /\ i + 1 \in U
    BY <1>0, <1>3
  <1>5. \A k \in U : k - 1 \in T /\ k \in Nat
    BY <1>0, <1>3
  <1> HIDE DEF S, T, U
  <1>6. f \in [T -> U] /\ \A i, k \in T : f[i] = f[k] => i = k
    BY <1>4
  <1>7. \A k \in U : \E i \in T : f[i] = k
    <2> SUFFICES ASSUME NEW k \in U PROVE \E i \in T : f[i] = k
      OBVIOUS
    <2>1. k - 1 \in T /\ f[k - 1] = (k - 1) + 1 /\ (k - 1) + 1 = k
      BY <1>5
    <2> QED
      BY <2>1
  <1> HIDE DEF f
  <1>8. f \in Bijection(T, U)
    BY <1>6, <1>7 DEF Bijection, Injection, Surjection, IsInjective
  <1>9. Cardinality(U) = Cardinality(T)
    BY <1>2, <1>8, FS_Bijection DEF ExistsBijection
  <1>10. 1 \in S <=> Head(s) > 0
    BY <1>0, <1>3 DEF S
  <1>11. Cardinality(U) = IF 1 \in S THEN Cardinality(S) - 1 ELSE Cardinality(S)
    BY <1>1, FS_RemoveElement DEF U
  <1>12. Filled(s) = Cardinality(S) /\ Filled(Tail(s)) = Cardinality(T)
    BY DEF Filled, S, T
  <1>13. CASE 1 \in S
    BY <1>0, <1>1, <1>9, <1>10, <1>11, <1>12, <1>13
  <1>14. CASE 1 \notin S
    BY <1>0, <1>1, <1>9, <1>10, <1>11, <1>12, <1>14
  <1> QED
    BY <1>13, <1>14

\* The chunks of s lead from position a of the stream to position z; p has the
\* positions between them.
Leads(s, a, z) ==
    \E p \in [1..(Len(s) + 1) -> 0..z] :
        /\ p[1] = a /\ p[Len(s) + 1] = z
        /\ \A i \in 1..Len(s) : p[i + 1] = p[i] + s[i]

\* No chunk leads nowhere.
LEMMA LeadsNowhere ==
    ASSUME NEW a \in Nat
    PROVE  Leads(<< >>, a, a)
  <1> DEFINE p == [i \in 1..1 |-> a]
  <1>1. Len(<< >>) = 0 /\ p \in [1..(0 + 1) -> 0..a] /\ p[1] = a
    OBVIOUS
  <1>2. \A i \in 1..0 : p[i + 1] = p[i] + << >>[i]
    OBVIOUS
  <1> HIDE DEF p
  <1> QED
    BY <1>1, <1>2 DEF Leads

\* Chunks never lead back.
LEMMA LeadsForward ==
    ASSUME NEW s \in Seq(Nat), NEW a \in Nat, NEW z \in Nat, Leads(s, a, z)
    PROVE  a <= z
  <1>1. PICK p \in [1..(Len(s) + 1) -> 0..z] : p[1] = a
    BY DEF Leads
  <1>2. 1 \in 1..(Len(s) + 1)
    OBVIOUS
  <1> QED
    BY <1>1, <1>2

\* One more chunk leads on by its length.
LEMMA LeadsAppend ==
    ASSUME NEW s \in Seq(Nat), NEW a \in Nat, NEW z \in Nat, NEW n \in Nat, Leads(s, a, z)
    PROVE  Leads(Append(s, n), a, z + n)
  <1> DEFINE l == Len(s)
  <1>1. PICK p \in [1..(l + 1) -> 0..z] :
            /\ p[1] = a /\ p[l + 1] = z
            /\ \A i \in 1..l : p[i + 1] = p[i] + s[i]
    BY DEF Leads
  <1>2. /\ l \in Nat /\ Len(Append(s, n)) = l + 1 /\ Append(s, n)[l + 1] = n
        /\ \A i \in 1..l : Append(s, n)[i] = s[i]
    OBVIOUS
  <1> HIDE DEF l
  <1> DEFINE q == [i \in 1..(l + 1 + 1) |-> IF i = l + 2 THEN z + n ELSE p[i]]
  <1>3. \A i \in 1..(l + 1) : q[i] = p[i] /\ p[i] \in 0..z
    BY <1>1, <1>2
  <1>4. q[l + 2] = z + n
    BY <1>2
  <1>5. q \in [1..(l + 1 + 1) -> 0..(z + n)]
    BY <1>1, <1>2
  <1> HIDE DEF q
  <1>6. \A i \in 1..(l + 1) : q[i + 1] = q[i] + Append(s, n)[i]
    <2> SUFFICES ASSUME NEW i \in 1..(l + 1) PROVE q[i + 1] = q[i] + Append(s, n)[i]
      OBVIOUS
    <2>1. CASE i = l + 1
      BY <1>1, <1>2, <1>3, <1>4, <2>1
    <2>2. CASE i # l + 1
      <3>1. i \in 1..l /\ i + 1 \in 1..(l + 1)
        BY <1>2, <2>2
      <3> QED
        BY <1>1, <1>2, <1>3, <3>1
    <2> QED
      BY <2>1, <2>2
  <1>7. q[1] = a /\ q[(l + 1) + 1] = z + n
    BY <1>1, <1>2, <1>3, <1>4
  <1> QED
    BY <1>2, <1>5, <1>6, <1>7 DEF Leads

\* What is left after the first chunk leads on from where that one ends.
LEMMA LeadsTail ==
    ASSUME NEW s \in Seq(Nat), s # << >>, NEW a \in Nat, NEW z \in Nat, Leads(s, a, z)
    PROVE  Leads(Tail(s), a + Head(s), z)
  <1> DEFINE l == Len(s)
  <1>1. PICK p \in [1..(l + 1) -> 0..z] :
            /\ p[1] = a /\ p[l + 1] = z
            /\ \A i \in 1..l : p[i + 1] = p[i] + s[i]
    BY DEF Leads
  <1>2. /\ l \in Nat \ {0} /\ Len(Tail(s)) = l - 1 /\ Head(s) = s[1]
        /\ \A i \in 1..(l - 1) : Tail(s)[i] = s[i + 1]
    OBVIOUS
  <1> HIDE DEF l
  <1> DEFINE q == [i \in 1..l |-> p[i + 1]]
  <1>3. q \in [1..((l - 1) + 1) -> 0..z]
    BY <1>1, <1>2
  <1>4. q[1] = a + Head(s) /\ q[(l - 1) + 1] = z
    BY <1>1, <1>2
  <1>5. \A i \in 1..(l - 1) : q[i + 1] = q[i] + Tail(s)[i]
    BY <1>1, <1>2
  <1> HIDE DEF q
  <1> QED
    BY <1>2, <1>3, <1>4, <1>5 DEF Leads

-----------------------------------------------------------------------------
(* Reading a script frame by frame.                                         *)

\* A script is a sequence of frames that a peer may send.
LEMMA ScriptIs ==
    ASSUME NEW s \in Scripts
    PROVE  /\ s \in Seq(Frame) /\ Len(s) \in Nat /\ Conformant(s)
           /\ \A i \in 1..Len(s) : s[i] \in Frame
  <1>1. PICK n \in 1..MaxFrames : s \in [1..n -> Frame] /\ Conformant(s)
    BY DEF Scripts
  <1>2. n \in Nat
    BY WsAssumption
  <1>3. s \in Seq(Frame)
    BY <1>1, <1>2
  <1> QED
    BY <1>1, <1>3

\* Before the first frame there is no message.
LEMMA InsideFirst ==
    ASSUME NEW s
    PROVE  ~Inside(s, 1)
  BY DEF Inside

\* A data frame decides whether its message goes on, a control frame does not.
LEMMA InsideNext ==
    ASSUME NEW s, NEW c \in Nat \ {0}
    PROVE  /\ IsData(s[c]) => (Inside(s, c + 1) <=> ~s[c].fin)
           /\ ~IsData(s[c]) => (Inside(s, c + 1) <=> Inside(s, c))
  <1> DEFINE d(i) == {j \in 1..(i - 1) : IsData(s[j])}
  <1> DEFINE m(i) == CHOOSE j \in d(i) : \A k \in d(i) : k <= j
  <1>1. \A i : Inside(s, i) <=> d(i) # {} /\ ~s[m(i)].fin
    BY DEF Inside
  <1>2. ASSUME IsData(s[c]) PROVE Inside(s, c + 1) <=> ~s[c].fin
    <2>1. c \in d(c + 1) /\ \A k \in d(c + 1) : k \in Nat /\ k <= c
      BY <1>2
    <2>2. PICK D : D = d(c + 1)
      OBVIOUS
    <2>3. c \in D /\ \A k \in D : k \in Nat /\ k <= c
      BY <2>1, <2>2
    <2>4. m(c + 1) \in D /\ \A k \in D : k <= m(c + 1)
      BY <2>2, <2>3
    <2>5. m(c + 1) = c
      <3>1. PICK x : x = m(c + 1)
        OBVIOUS
      <3>2. x \in D /\ c <= x
        BY <2>3, <2>4, <3>1
      <3> HIDE DEF m
      <3>3. x = c
        BY <2>3, <3>2
      <3> QED
        BY <3>1, <3>3
    <2> HIDE DEF d, m
    <2> QED
      BY <1>1, <2>2, <2>3, <2>5
  <1>3. ASSUME ~IsData(s[c]) PROVE Inside(s, c + 1) <=> Inside(s, c)
    <2>1. d(c + 1) = d(c)
      BY <1>3
    <2>2. m(c + 1) = m(c)
      BY <2>1
    <2> HIDE DEF d, m
    <2> QED
      BY <1>1, <2>1, <2>2
  <1> QED
    BY <1>2, <1>3

Opens(s, j, i) == Starts(s, j) /\ \A k \in (j + 1)..i : ~Starts(s, k)
DataIn(s, j, i) == {k \in j..i : IsData(s[k])}

\* What frag_buf and frag_op hold before frame c: the open message, if there is one.
FragAt(s, c, fr, fo) ==
    \/ /\ Inside(s, c)
       /\ \E j \in 1..(c - 1) : /\ Opens(s, j, c - 1)
                                /\ fr = InOrder(DataIn(s, j, c - 1))
                                /\ fo = s[j].op
    \/ ~Inside(s, c) /\ fr = << >> /\ fo = "cont"

\* The messages that are complete before frame c.
Complete(s, c) == {i \in Final(s) : i < c}
DeliveredAt(s, c) ==
    [n \in 1..Cardinality(Complete(s, c)) |-> MessageAt(s, InOrder(Complete(s, c))[n])]

\* A message has one start.
LEMMA StartIs ==
    ASSUME NEW s, NEW i \in Nat, NEW j \in 1..i, Opens(s, j, i)
    PROVE  /\ StartOf(s, i) = j
           /\ MessageAt(s, i) = [op |-> s[j].op, parts |-> InOrder(DataIn(s, j, i))]
  <1> DEFINE m == CHOOSE k \in 1..i : Opens(s, k, i)
  <1>1. StartOf(s, i) = m
    BY DEF StartOf, Opens
  <1>2. m \in 1..i /\ Opens(s, m, i)
    OBVIOUS
  <1> HIDE DEF m
  <1>3. ASSUME m < j PROVE FALSE
    <2>1. j \in (m + 1)..i
      BY <1>2, <1>3
    <2> QED
      BY <1>2, <2>1 DEF Opens
  <1>4. ASSUME j < m PROVE FALSE
    <2>1. m \in (j + 1)..i
      BY <1>2, <1>4
    <2> QED
      BY <1>2, <2>1 DEF Opens
  <1>5. StartOf(s, i) = j
    BY <1>1, <1>2, <1>3, <1>4
  <1> QED
    BY <1>5 DEF MessageAt, DataIn

\* The data frames of a message, one more at a time.
LEMMA DataInNext ==
    ASSUME NEW s, NEW c \in Nat, NEW j \in 1..c
    PROVE  /\ DataIn(s, j, c - 1) \in SUBSET Nat /\ IsFiniteSet(DataIn(s, j, c - 1))
           /\ \A k \in DataIn(s, j, c - 1) : k < c
           /\ IsData(s[c]) => DataIn(s, j, c) = DataIn(s, j, c - 1) \cup {c}
           /\ ~IsData(s[c]) => DataIn(s, j, c) = DataIn(s, j, c - 1)
  <1>1. IsFiniteSet(j..(c - 1))
    BY FS_Interval
  <1>2. DataIn(s, j, c - 1) \in SUBSET (j..(c - 1))
    BY DEF DataIn
  <1>3. IsFiniteSet(DataIn(s, j, c - 1))
    BY <1>1, <1>2, FS_Subset
  <1>4. \A k : k \in j..c <=> k \in j..(c - 1) \/ k = c
    OBVIOUS
  <1>5. IsData(s[c]) => DataIn(s, j, c) = DataIn(s, j, c - 1) \cup {c}
    BY <1>4 DEF DataIn
  <1>6. ~IsData(s[c]) => DataIn(s, j, c) = DataIn(s, j, c - 1)
    BY <1>4 DEF DataIn
  <1>7. \A k \in j..(c - 1) : k \in Nat /\ k < c
    OBVIOUS
  <1> QED
    BY <1>2, <1>3, <1>5, <1>6, <1>7

\* A control frame between fragments changes nothing.
LEMMA FragSkip ==
    ASSUME NEW s \in Scripts, NEW c \in 1..Len(s), ~IsData(s[c]), NEW fr, NEW fo,
           FragAt(s, c, fr, fo)
    PROVE  FragAt(s, c + 1, fr, fo)
  <1>1. c \in Nat \ {0} /\ (c + 1) - 1 = c
    BY ScriptIs
  <1>2. Inside(s, c + 1) <=> Inside(s, c)
    BY <1>1, InsideNext
  <1>3. CASE ~Inside(s, c)
    BY <1>2, <1>3 DEF FragAt
  <1>4. CASE Inside(s, c)
    <2>1. PICK j \in 1..(c - 1) : /\ Opens(s, j, c - 1)
                                  /\ fr = InOrder(DataIn(s, j, c - 1))
                                  /\ fo = s[j].op
      BY <1>4 DEF FragAt
    <2>2. j \in 1..c
      BY <1>1
    <2>3. DataIn(s, j, c) = DataIn(s, j, c - 1)
      BY <1>1, <2>2, DataInNext
    <2>4. ~Starts(s, c)
      BY DEF Starts, IsData
    <2>5. Opens(s, j, c)
      <3>1. \A k \in (j + 1)..c : k \in (j + 1)..(c - 1) \/ k = c
        BY <1>1
      <3> QED
        BY <2>1, <2>4, <3>1 DEF Opens
    <2> QED
      BY <1>1, <1>2, <1>4, <2>1, <2>2, <2>3, <2>5 DEF FragAt
  <1> QED
    BY <1>3, <1>4

\* A data frame: with it frag_buf has the message so far, under the op of its start.
LEMMA FragData ==
    ASSUME NEW s \in Scripts, NEW c \in 1..Len(s), IsData(s[c]), NEW fr, NEW fo,
           FragAt(s, c, fr, fo), NEW op, op = IF s[c].op = "cont" THEN fo ELSE s[c].op
    PROVE  /\ MessageAt(s, c) = [op |-> op, parts |-> Append(fr, c)]
           /\ ~s[c].fin => FragAt(s, c + 1, Append(fr, c), op)
           /\ s[c].fin => FragAt(s, c + 1, << >>, "cont")
  <1>1. c \in Nat \ {0} /\ (c + 1) - 1 = c /\ c \in 1..c
    BY ScriptIs
  <1>2. Inside(s, c + 1) <=> ~s[c].fin
    BY <1>1, InsideNext
  <1>3. s[c].op = "cont" <=> Inside(s, c)
    BY ScriptIs DEF Conformant
  <1>4. \E j \in 1..c : /\ Opens(s, j, c) /\ op = s[j].op
                        /\ Append(fr, c) = InOrder(DataIn(s, j, c))
    <2>1. CASE Inside(s, c)
      <3>1. PICK j \in 1..(c - 1) : /\ Opens(s, j, c - 1)
                                    /\ fr = InOrder(DataIn(s, j, c - 1))
                                    /\ fo = s[j].op
        BY <2>1 DEF FragAt
      <3>2. j \in 1..c
        BY <1>1
      <3>3. /\ DataIn(s, j, c) = DataIn(s, j, c - 1) \cup {c}
            /\ DataIn(s, j, c - 1) \in SUBSET Nat /\ IsFiniteSet(DataIn(s, j, c - 1))
            /\ \A k \in DataIn(s, j, c - 1) : k < c
        BY <1>1, <3>2, DataInNext
      <3>4. InOrder(DataIn(s, j, c)) = Append(fr, c)
        BY <1>1, <3>1, <3>3, InOrderAppend
      <3>5. ~Starts(s, c)
        BY <1>3, <2>1 DEF Starts
      <3>6. Opens(s, j, c)
        <4>1. \A k \in (j + 1)..c : k \in (j + 1)..(c - 1) \/ k = c
          BY <1>1
        <4> QED
          BY <3>1, <3>5, <4>1 DEF Opens
      <3> QED
        BY <1>3, <2>1, <3>1, <3>2, <3>4, <3>6
    <2>2. CASE ~Inside(s, c)
      <3>1. fr = << >> /\ op = s[c].op /\ s[c].op # "cont"
        BY <1>3, <2>2 DEF FragAt
      <3>2. DataIn(s, c, c) = {} \cup {c}
        BY <1>1 DEF DataIn
      <3>3. InOrder({} \cup {c}) = Append(InOrder({}), c)
        BY <1>1, InOrderEmpty, InOrderAppend
      <3>4. Append(fr, c) = InOrder(DataIn(s, c, c))
        BY <3>1, <3>2, <3>3, InOrderEmpty
      <3>5. Opens(s, c, c)
        BY <1>1, <3>1 DEF Opens, Starts, IsData
      <3> QED
        BY <1>1, <3>1, <3>4, <3>5
    <2> QED
      BY <2>1, <2>2
  <1>5. PICK j \in 1..c : /\ Opens(s, j, c) /\ op = s[j].op
                          /\ Append(fr, c) = InOrder(DataIn(s, j, c))
    BY <1>4
  <1>6. MessageAt(s, c) = [op |-> op, parts |-> Append(fr, c)]
    BY <1>1, <1>5, StartIs
  <1>7. ASSUME ~s[c].fin PROVE FragAt(s, c + 1, Append(fr, c), op)
    BY <1>1, <1>2, <1>5, <1>7 DEF FragAt
  <1>8. ASSUME s[c].fin PROVE FragAt(s, c + 1, << >>, "cont")
    BY <1>2, <1>8 DEF FragAt
  <1> QED
    BY <1>6, <1>7, <1>8

\* The final frames of a script, and those before frame c.
LEMMA CompleteIs ==
    ASSUME NEW s \in Scripts, NEW c \in Nat
    PROVE  /\ Final(s) \in SUBSET Nat /\ IsFiniteSet(Final(s))
           /\ Complete(s, c) \in SUBSET Final(s)
           /\ \A i \in Final(s) \ Complete(s, c) : \A j \in Complete(s, c) : j < i
           /\ Complete(s, c) \in SUBSET Nat /\ IsFiniteSet(Complete(s, c))
           /\ \A j \in Complete(s, c) : j < c
  <1>1. Final(s) \in SUBSET (1..Len(s)) /\ Len(s) \in Nat
    BY ScriptIs DEF Final
  <1>2. IsFiniteSet(1..Len(s))
    BY <1>1, FS_Interval
  <1>3. IsFiniteSet(Final(s)) /\ Final(s) \in SUBSET Nat
    BY <1>1, <1>2, FS_Subset
  <1>4. Complete(s, c) \in SUBSET Final(s)
    BY DEF Complete
  <1>5. IsFiniteSet(Complete(s, c))
    BY <1>3, <1>4, FS_Subset
  <1>6. \A i \in Final(s) \ Complete(s, c) : \A j \in Complete(s, c) : j < i
    BY <1>3 DEF Complete
  <1>7. \A j \in Complete(s, c) : j < c
    BY DEF Complete
  <1> QED
    BY <1>3, <1>4, <1>5, <1>6, <1>7

\* What a message is made of, as a set for the sequences of messages.
LEMMA DeliveredType ==
    ASSUME NEW s, NEW T \in SUBSET Nat, IsFiniteSet(T), NEW M,
           \A i \in T : MessageAt(s, i) \in M
    PROVE  LET q == [n \in 1..Cardinality(T) |-> MessageAt(s, InOrder(T)[n])]
           IN  q \in Seq(M) /\ Len(q) = Cardinality(T) /\ Cardinality(T) \in Nat
  <1> DEFINE q == [n \in 1..Cardinality(T) |-> MessageAt(s, InOrder(T)[n])]
  <1>1. Cardinality(T) \in Nat
    BY FS_CardinalityType
  <1>2. \A n \in 1..Cardinality(T) : InOrder(T)[n] \in T
    BY InOrderIs
  <1>3. q \in [1..Cardinality(T) -> M]
    BY <1>2
  <1> HIDE DEF q
  <1>4. q \in Seq(M) /\ Len(q) = Cardinality(T)
    BY <1>1, <1>3
  <1> QED
    BY <1>1, <1>4 DEF q

\* A final frame adds its message, any other frame none.
LEMMA DeliveredNext ==
    ASSUME NEW s \in Scripts, NEW c \in 1..Len(s)
    PROVE  /\ c \in Final(s) =>
                DeliveredAt(s, c + 1) = Append(DeliveredAt(s, c), MessageAt(s, c))
           /\ c \notin Final(s) => DeliveredAt(s, c + 1) = DeliveredAt(s, c)
  <1>1. c \in Nat /\ Final(s) \in SUBSET Nat
    BY ScriptIs, CompleteIs
  <1>2. ASSUME c \notin Final(s) PROVE DeliveredAt(s, c + 1) = DeliveredAt(s, c)
    <2>1. Complete(s, c + 1) = Complete(s, c)
      BY <1>1, <1>2 DEF Complete
    <2> QED
      BY <2>1 DEF DeliveredAt
  <1>3. ASSUME c \in Final(s)
        PROVE  DeliveredAt(s, c + 1) = Append(DeliveredAt(s, c), MessageAt(s, c))
    <2> DEFINE S == Complete(s, c)
    <2> DEFINE T == S \cup {c}
    <2> DEFINE M == {MessageAt(s, i) : i \in Nat}
    <2>1. Complete(s, c + 1) = T
      BY <1>1, <1>3 DEF Complete
    <2>2. S \in SUBSET Nat /\ IsFiniteSet(S) /\ \A j \in S : j < c
      BY <1>1, CompleteIs
    <2> HIDE DEF S
    <2>3. /\ IsFiniteSet(T) /\ Cardinality(T) = Cardinality(S) + 1
          /\ InOrder(T) = Append(InOrder(S), c) /\ T \in SUBSET Nat
      BY <1>1, <2>2, InOrderAppend
    <2>4. \A i \in Nat : MessageAt(s, i) \in M
      OBVIOUS
    <2> HIDE DEF T, M
    <2> DEFINE p == [n \in 1..Cardinality(S) |-> MessageAt(s, InOrder(S)[n])]
    <2> DEFINE q == [n \in 1..Cardinality(T) |-> MessageAt(s, InOrder(T)[n])]
    <2>5. p \in Seq(M) /\ Len(p) = Cardinality(S) /\ Cardinality(S) \in Nat
      BY <2>2, <2>4, DeliveredType
    <2>6. q \in Seq(M) /\ Len(q) = Cardinality(T)
      BY <2>3, <2>4, DeliveredType
    <2>7. InOrder(S) \in Seq(Nat) /\ Len(InOrder(S)) = Cardinality(S)
      BY <2>2, InOrderType
    <2>8. MessageAt(s, c) \in M
      BY <1>1, <2>4
    <2>9. \A n \in 1..Cardinality(S) : q[n] = p[n]
      <3> SUFFICES ASSUME NEW n \in 1..Cardinality(S) PROVE q[n] = p[n]
        OBVIOUS
      <3>1. n \in 1..Cardinality(T) /\ InOrder(T)[n] = InOrder(S)[n]
        BY <2>3, <2>5, <2>7
      <3> QED
        BY <3>1
    <2>10. q[Cardinality(S) + 1] = MessageAt(s, c)
      <3>1. InOrder(T)[Cardinality(S) + 1] = c /\ Cardinality(S) + 1 \in 1..Cardinality(T)
        BY <2>3, <2>5, <2>7
      <3> QED
        BY <3>1
    <2>11. DeliveredAt(s, c) = p /\ DeliveredAt(s, c + 1) = q
      BY <2>1 DEF DeliveredAt, S
    <2> HIDE DEF p, q
    <2>12. /\ Append(p, MessageAt(s, c)) \in Seq(M)
           /\ Len(Append(p, MessageAt(s, c))) = Cardinality(S) + 1
      BY <2>5, <2>8
    <2>13. ASSUME NEW n \in 1..(Cardinality(S) + 1)
           PROVE  q[n] = Append(p, MessageAt(s, c))[n]
      <3>1. CASE n = Cardinality(S) + 1
        BY <2>5, <2>10, <3>1
      <3>2. CASE n # Cardinality(S) + 1
        <4>1. n \in 1..Cardinality(S)
          BY <2>5, <3>2
        <4> QED
          BY <2>5, <2>9, <4>1
      <3> QED
        BY <3>1, <3>2
    <2>14. q = Append(p, MessageAt(s, c))
      BY <2>3, <2>6, <2>12, <2>13, SeqEqual
    <2> QED
      BY <2>11, <2>14
  <1> QED
    BY <1>2, <1>3

\* Nothing is complete before the first frame.
LEMMA DeliveredFirst ==
    ASSUME NEW s \in Scripts
    PROVE  DeliveredAt(s, 1) = << >>
  <1>1. Complete(s, 1) = {}
    BY ScriptIs DEF Complete, Final
  <1>2. Cardinality({}) = 0
    BY FS_EmptySet
  <1>3. DeliveredAt(s, 1) = [n \in 1..0 |-> MessageAt(s, InOrder({})[n])]
    BY <1>1, <1>2 DEF DeliveredAt
  <1> QED
    BY <1>3

\* What is complete before frame c is the beginning of what the script says.
LEMMA DeliveredIsPrefix ==
    ASSUME script \in Scripts, NEW c \in Nat
    PROVE  \E n \in 0..Len(Messages) : DeliveredAt(script, c) = SubSeq(Messages, 1, n)
  <1> DEFINE s == script
  <1> DEFINE S == Complete(s, c)
  <1> DEFINE T == Final(s)
  <1> DEFINE M == {MessageAt(s, i) : i \in Nat}
  <1>1. /\ S \in SUBSET Nat /\ IsFiniteSet(S) /\ T \in SUBSET Nat /\ IsFiniteSet(T)
        /\ S \in SUBSET T /\ \A i \in T \ S : \A j \in S : j < i
    BY CompleteIs
  <1>2. \A i \in Nat : MessageAt(s, i) \in M
    OBVIOUS
  <1> DEFINE p == [n \in 1..Cardinality(S) |-> MessageAt(s, InOrder(S)[n])]
  <1> DEFINE q == [n \in 1..Cardinality(T) |-> MessageAt(s, InOrder(T)[n])]
  <1>3. DeliveredAt(s, c) = p /\ Messages = q
    BY DEF DeliveredAt, Messages
  <1> HIDE DEF s, S, T, M
  <1>4. p \in Seq(M) /\ Len(p) = Cardinality(S) /\ Cardinality(S) \in Nat
    BY <1>1, <1>2, DeliveredType
  <1>5. q \in Seq(M) /\ Len(q) = Cardinality(T) /\ Cardinality(T) \in Nat
    BY <1>1, <1>2, DeliveredType
  <1>6. /\ Cardinality(S) <= Cardinality(T)
        /\ \A n \in 1..Cardinality(S) : InOrder(S)[n] = InOrder(T)[n]
    BY <1>1, InOrderPrefix
  <1>7. \A n \in 1..Cardinality(S) : p[n] = q[n]
    <2> SUFFICES ASSUME NEW n \in 1..Cardinality(S) PROVE p[n] = q[n]
      OBVIOUS
    <2>1. n \in 1..Cardinality(T)
      BY <1>4, <1>5, <1>6
    <2> QED
      BY <1>6, <2>1
  <1> HIDE DEF p, q
  <1>8. SubSeq(q, 1, Cardinality(S)) = p
    <2>1. /\ SubSeq(q, 1, Cardinality(S)) \in Seq(M)
          /\ Len(SubSeq(q, 1, Cardinality(S))) = Cardinality(S)
          /\ \A n \in 1..Cardinality(S) : SubSeq(q, 1, Cardinality(S))[n] = q[n]
      BY <1>4, <1>5, <1>6
    <2> QED
      BY <1>4, <1>7, <2>1, SeqEqual
  <1>9. Cardinality(S) \in 0..Len(q)
    BY <1>4, <1>5, <1>6
  <1>10. DeliveredAt(s, c) = SubSeq(Messages, 1, Cardinality(S))
         /\ Cardinality(S) \in 0..Len(Messages)
    BY <1>3, <1>8, <1>9
  <1> QED
    BY <1>10 DEF s

-----------------------------------------------------------------------------
(* The invariants of a connection.                                          *)

WsTypes ==
    /\ mode \in Modes /\ script \in Scripts
    /\ recvd \in Nat /\ appended \in Nat /\ taken \in Nat
    /\ ended \in {"no", "eof", "error", "nobufs", "last", "unarmed"}
    /\ pending \in Nat
    /\ cq \in Seq(0..BufLen) /\ queue \in Seq(0..BufLen)
    /\ stopped \in BOOLEAN /\ abandoned \in BOOLEAN /\ isOpen \in BOOLEAN
    /\ closedHere \in BOOLEAN /\ fdOpen \in BOOLEAN /\ onClose \in BOOLEAN
    /\ callback \in {"none", "live", "freed"}
    /\ fragOp \in {"cont", "text", "binary"}
    /\ pc \in {"loop", "head", "await", "suspend", "waiting", "take",
               "end", "throw", "cleanup", "done"}

\* What follows the buffer is in the queue, and what follows that in the completions.
ChunksInv == \E mid \in Nat : Leads(queue, appended, mid) /\ Leads(cq, mid, recvd)

\* What the kernel has handed over is in the buffer, then in the queue, then in
\* the completions, until the reader is gone.
StreamInv ==
    /\ recvd <= Total /\ appended <= recvd /\ taken <= appended
    /\ abandoned => pc = "done"
    /\ mode = "plain" => /\ appended = recvd /\ cq = << >>
                         /\ pc \notin {"suspend", "waiting", "take"}
    /\ mode = "ring" /\ ~abandoned => ChunksInv

\* The ring reader has taken whole frames, and the fragments and the messages it
\* holds are those that the script has up to there.
FrameInv ==
    mode = "ring" =>
        /\ \E q \in Nat : taken = FrameLen * q
        /\ FragAt(script, Current, frag, fragOp)
        /\ delivered = DeliveredAt(script, Current)

\* Division by the length of a frame.
LEMMA FrameNumber ==
    ASSUME NEW q \in Nat
    PROVE  (FrameLen * q) \div FrameLen = q
  <1> DEFINE a == FrameLen * q
  <1> DEFINE d == a \div FrameLen
  <1> DEFINE r == a % FrameLen
  <1>1. FrameLen \in Nat /\ FrameLen > 0 /\ a \in Nat
    BY WsAssumption
  <1> HIDE DEF a
  <1>2. d \in Int /\ r \in 0..(FrameLen - 1)
    BY <1>1
  <1>3. FrameLen * d \in Int /\ a = FrameLen * d + r
    BY <1>1, <1>2
  <1> HIDE DEF d, r
  <1>4. FrameLen * q = FrameLen * d + r
    BY <1>3 DEF a
  <1>5. FrameLen * (q - d) = r /\ q - d \in Int
    BY <1>1, <1>2, <1>4
  <1>6. PICK x \in Int : x = q - d
    BY <1>5
  <1>7. ~(x >= 1)
    <2> SUFFICES ASSUME x >= 1 PROVE FALSE
      OBVIOUS
    <2>1. FrameLen * x >= FrameLen
      BY <1>1
    <2> QED
      BY <1>1, <1>2, <1>5, <1>6, <2>1
  <1>8. ~(x <= -1)
    <2> SUFFICES ASSUME x <= -1 PROVE FALSE
      OBVIOUS
    <2>1. FrameLen * x <= -FrameLen
      BY <1>1
    <2> QED
      BY <1>1, <1>2, <1>5, <1>6, <2>1
  <1>9. d = q
    BY <1>2, <1>6, <1>7, <1>8
  <1> QED
    BY <1>9 DEF d, a

\* A whole frame in the buffer is one of the script.
LEMMA AtFrame ==
    ASSUME WsTypes, StreamInv, FrameInv, mode = "ring", Whole
    PROVE  /\ Current \in 1..Len(script) /\ taken + FrameLen <= appended
           /\ \E q \in Nat : taken + FrameLen = FrameLen * q
           /\ taken' = taken + FrameLen => Current' = Current + 1
  <1>1. PICK q \in Nat : taken = FrameLen * q
    BY DEF FrameInv
  <1>2. FrameLen \in Nat /\ FrameLen > 0
    BY WsAssumption
  <1>3. /\ appended \in Nat /\ taken \in Nat /\ recvd \in Nat /\ taken <= appended
        /\ appended <= recvd /\ recvd <= Total /\ script \in Scripts
    BY DEF WsTypes, StreamInv
  <1>4. Current = q + 1
    BY <1>1, FrameNumber DEF Current
  <1>5. taken + FrameLen <= appended
    BY <1>2, <1>3 DEF Whole
  <1>6. Len(script) \in Nat
    BY <1>3, ScriptIs
  <1>7. FrameLen * (q + 1) = taken + FrameLen
    BY <1>1, <1>2
  <1>8. taken' = taken + FrameLen => Current' = Current + 1
    <2> SUFFICES ASSUME taken' = taken + FrameLen PROVE Current' = Current + 1
      OBVIOUS
    <2>1. taken' = FrameLen * (q + 1) /\ q + 1 \in Nat
      BY <1>7
    <2>2. taken' \div FrameLen = q + 1
      BY <2>1, FrameNumber
    <2> QED
      BY <1>4, <2>2 DEF Current
  <1>9. q + 1 <= Len(script)
    <2>1. FrameLen * q + FrameLen <= Len(script) * FrameLen
      BY <1>1, <1>2, <1>3, <1>5, <1>6 DEF Total
    <2>2. PICK x \in Int : x = Len(script) - q
      BY <1>6
    <2>3. FrameLen * x >= FrameLen
      BY <1>2, <1>6, <2>1, <2>2
    <2>4. x >= 1
      <3> SUFFICES ASSUME x <= 0 PROVE FALSE
        OBVIOUS
      <3>1. FrameLen * x <= 0
        BY <1>2
      <3> QED
        BY <1>2, <2>3, <3>1
    <2> QED
      BY <1>6, <2>2, <2>4
  <1> QED
    BY <1>4, <1>5, <1>6, <1>7, <1>8, <1>9

\* Chunk lengths are numbers.
LEMMA ChunkLengths ==
    ASSUME WsTypes
    PROVE  cq \in Seq(Nat) /\ queue \in Seq(Nat)
  <1>1. 0..BufLen \subseteq Nat
    BY WsAssumption
  <1> QED
    BY <1>1, SeqMonotonic DEF WsTypes

\* Every variable keeps its type.
LEMMA WsTypesStep == WsTypes /\ [WsNext]_wsVars => WsTypes'
  <1> SUFFICES ASSUME WsTypes, [WsNext]_wsVars PROVE WsTypes'
    OBVIOUS
  <1> USE DEF kernelVars, stateVars, bufferVars, messageVars, endVars
  <1>00. queue \in Seq(Nat)
    BY ChunkLengths
  <1>01. Filled(queue) \in Nat
    BY <1>00, FilledType
  <1>0. BufLen \in Nat /\ FrameLen \in Nat /\ Filled(queue) \in Nat /\ 0 \in 0..BufLen
    BY <1>01, WsAssumption
  <1>1. ASSUME NEW more \in BOOLEAN, Recv(more) PROVE WsTypes'
    <2>1. PICK n \in 1..BufLen : recvd' = recvd + n /\ cq' = Append(cq, n)
      BY <1>1 DEF Recv
    <2>2. n \in 0..BufLen /\ n \in Nat
      BY <1>0
    <2>3. cq' \in Seq(0..BufLen) /\ recvd' \in Nat
      BY <1>1, <2>1, <2>2 DEF Recv, WsTypes
    <2> QED
      BY <1>1, <2>3 DEF Recv, WsTypes
  <1>2. ASSUME NEW why \in Ends, RecvEnds(why) PROVE WsTypes'
    <2>1. cq' = Append(cq, 0) /\ ended' = why
      BY <1>2 DEF RecvEnds
    <2>2. cq' \in Seq(0..BufLen)
      BY <1>0, <2>1 DEF WsTypes
    <2> QED
      BY <1>2, <2>1, <2>2 DEF RecvEnds, WsTypes, Ends
  <1>3. CASE OnRecvChunk
    <2>1. /\ cq # << >> /\ Head(cq) \in 0..BufLen /\ Head(cq) \in Nat
          /\ cq' \in Seq(0..BufLen)
      BY <1>0, <1>3 DEF OnRecvChunk, WsTypes
    <2>2. CASE abandoned
      BY <1>3, <2>1, <2>2 DEF OnRecvChunk, WsTypes
    <2>3. CASE ~abandoned
      <3>0. queue' = Append(queue, Head(cq)) /\ queue \in Seq(0..BufLen)
        BY <1>3, <2>3 DEF OnRecvChunk, WsTypes
      <3>1. queue' \in Seq(0..BufLen)
        BY <2>1, <3>0
      <3>2. stopped' \in BOOLEAN
        BY <1>3, <2>3 DEF OnRecvChunk, WsTypes
      <3> QED
        BY <1>3, <2>1, <2>3, <3>1, <3>2 DEF OnRecvChunk, WsTypes
    <2> QED
      BY <2>2, <2>3 DEF WsTypes
  <1>4. CASE AwaitReady \/ AwaitSuspend \/ NeedMore \/ ReadLoop \/ WriteFails \/ CloseFd
    <2>1. CASE AwaitReady
      BY <2>1 DEF AwaitReady, WsTypes
    <2>2. CASE AwaitSuspend
      BY <2>2 DEF AwaitSuspend, WsTypes
    <2>3. CASE NeedMore
      BY <2>3 DEF NeedMore, WsTypes
    <2>4. CASE ReadLoop
      BY <2>4 DEF ReadLoop, WsTypes
    <2>5. CASE WriteFails
      BY <2>5 DEF WriteFails, WsTypes
    <2>6. CASE CloseFd
      BY <2>6 DEF CloseFd, WsTypes
    <2> QED
      BY <1>4, <2>1, <2>2, <2>3, <2>4, <2>5, <2>6
  <1>5. CASE AwaitResume
    <2>1. CASE queue = << >>
      BY <1>5, <2>1 DEF AwaitResume, WsTypes
    <2>2. CASE queue # << >>
      <3>1. Head(queue) \in Nat /\ queue' \in Seq(0..BufLen)
        BY <1>0, <1>5, <2>2 DEF AwaitResume, WsTypes
      <3>2. appended' \in Nat /\ pending' \in Nat
        BY <1>5, <2>2, <3>1 DEF AwaitResume, WsTypes
      <3> QED
        BY <1>5, <3>1, <3>2 DEF AwaitResume, WsTypes
    <2> QED
      BY <2>1, <2>2
  <1>6. ASSUME Consume PROVE /\ taken' \in Nat /\ pending' \in Nat
                             /\ UNCHANGED <<recvd, ended, cq, appended>>
    BY <1>0, <1>6 DEF Consume, WsTypes
  <1>7. CASE OnPing
    BY <1>6, <1>7 DEF OnPing, NextRead, WsTypes
  <1>8. CASE OnControl
    BY <1>6, <1>8 DEF OnControl, WsTypes
  <1>9. CASE OnData
    <2>1. OpWith(script[Current]) \in {"cont", "text", "binary"}
      BY <1>9 DEF OnData, OpWith, IsData, WsTypes
    <2>2. /\ fragOp' \in {"cont", "text", "binary"} /\ isOpen' \in BOOLEAN
          /\ closedHere' \in BOOLEAN /\ pc' \in {"loop", "throw"}
      BY <1>9, <2>1 DEF OnData, WsTypes
    <2> QED
      BY <1>6, <1>9, <2>2 DEF OnData, WsTypes
  <1>10. CASE PlainRead
    <2>1. /\ recvd' \in Nat /\ appended' \in Nat
          /\ ended' \in {"no", "eof", "error", "nobufs", "last", "unarmed"}
      BY <1>0, <1>10 DEF PlainRead, WsTypes
    <2>2. pc' \in {"head", "await", "throw"}
      BY <1>10 DEF PlainRead
    <2> QED
      BY <1>10, <2>1, <2>2 DEF PlainRead, WsTypes
  <1>11. ASSUME ReturnAll
         PROVE  /\ pending' \in Nat /\ queue' \in Seq(0..BufLen)
                /\ abandoned' = TRUE
                /\ UNCHANGED <<recvd, ended, cq, stopped, callback, appended, taken>>
    BY <1>0, <1>11 DEF ReturnAll, WsTypes
  <1>12. CASE Cleanup
    <2>1. CASE mode = "ring"
      BY <1>11, <1>12, <2>1 DEF Cleanup, WsTypes
    <2>2. CASE mode # "ring"
      BY <1>12, <2>2 DEF Cleanup, WsTypes
    <2> QED
      BY <2>1, <2>2
  <1>13. CASE Unwind
    <2>1. CASE mode = "ring"
      BY <1>11, <1>13, <2>1 DEF Unwind, WsTypes
    <2>2. CASE mode # "ring"
      BY <1>13, <2>2 DEF Unwind, WsTypes
    <2> QED
      BY <2>1, <2>2
  <1>14. CASE UNCHANGED wsVars
    BY <1>14 DEF wsVars, WsTypes
  <1>15. CASE OtherTake \/ OtherAdd \/ OtherAdvance
    BY <1>15 DEF OtherTake, OtherAdd, OtherAdvance, WsTypes
  <1> QED
    BY <1>1, <1>2, <1>3, <1>4, <1>5, <1>7, <1>8, <1>9, <1>10, <1>12, <1>13, <1>14, <1>15
       DEF WsNext, Coroutine

\* The frame reader takes no more than there is.
LEMMA ConsumeStays ==
    ASSUME WsTypes, StreamInv, Whole, Consume, Total' = Total
    PROVE  /\ UNCHANGED <<recvd, ended, cq, appended>>
           /\ taken' <= appended'
  <1>1. FrameLen \in Nat /\ appended \in Nat /\ taken \in Nat /\ taken <= appended
    BY WsAssumption DEF WsTypes, StreamInv
  <1>2. taken + FrameLen <= appended
    BY <1>1 DEF Whole
  <1>3. UNCHANGED <<recvd, ended, cq, appended>>
    BY DEF Consume
  <1>4. taken' = taken + FrameLen \/ taken' = appended
    BY DEF Consume
  <1>5. CASE taken' = taken + FrameLen
    BY <1>2, <1>3, <1>5
  <1>6. CASE taken' = appended
    BY <1>1, <1>3, <1>6
  <1> QED
    BY <1>3, <1>4, <1>5, <1>6

\* The chunks stay one stretch of the stream.
LEMMA StreamStep == WsTypes /\ StreamInv /\ [WsNext]_wsVars => StreamInv'
  <1> SUFFICES ASSUME WsTypes, StreamInv, [WsNext]_wsVars PROVE StreamInv'
    OBVIOUS
  <1> USE DEF kernelVars, stateVars, bufferVars, messageVars, endVars
  <1>0. /\ recvd \in Nat /\ appended \in Nat /\ taken \in Nat
        /\ mode \in {"ring", "plain"} /\ BufLen \in Nat
    BY WsAssumption DEF WsTypes
  <1>s. script' = script /\ mode' = mode
    BY DEF WsNext, Coroutine, Recv, RecvEnds, OnRecvChunk, AwaitReady, AwaitSuspend,
           AwaitResume, OnPing, OnControl, OnData, NeedMore, ReadLoop, PlainRead,
           WriteFails, CloseFd, Cleanup, Unwind, OtherTake, OtherAdd, OtherAdvance, wsVars
  <1>t. Total' = Total
    BY <1>s DEF Total
  <1>q. cq \in Seq(Nat) /\ queue \in Seq(Nat)
    BY ChunkLengths
  <1>r. ASSUME UNCHANGED <<queue, appended, cq, recvd>>, ChunksInv PROVE ChunksInv'
    BY <1>r DEF ChunksInv
  <1>1. ASSUME NEW more \in BOOLEAN, Recv(more) PROVE StreamInv'
    <2>1. PICK n \in 1..BufLen : /\ recvd' = recvd + n /\ cq' = Append(cq, n)
                                 /\ recvd + n <= Total
      BY <1>1 DEF Recv
    <2>2. n \in Nat
      BY <1>0
    <2>3. UNCHANGED <<queue, appended, taken, abandoned, pc>> /\ mode = "ring"
      BY <1>1 DEF Recv
    <2>4. ~abandoned => ChunksInv'
      <3> SUFFICES ASSUME ~abandoned PROVE ChunksInv'
        OBVIOUS
      <3>1. PICK mid \in Nat : Leads(queue, appended, mid) /\ Leads(cq, mid, recvd)
        BY <2>3 DEF StreamInv, ChunksInv
      <3>2. Leads(cq', mid, recvd')
        BY <1>0, <1>q, <2>1, <2>2, <3>1, LeadsAppend
      <3> QED
        BY <2>3, <3>1, <3>2 DEF ChunksInv
    <2>5. recvd' <= Total' /\ appended' <= recvd' /\ taken' <= appended'
      BY <1>0, <1>t, <2>1, <2>2, <2>3 DEF StreamInv
    <2> QED
      BY <1>s, <2>3, <2>4, <2>5 DEF StreamInv
  <1>2. ASSUME NEW why \in Ends, RecvEnds(why) PROVE StreamInv'
    <2>1. /\ cq' = Append(cq, 0) /\ mode = "ring"
          /\ UNCHANGED <<recvd, queue, appended, taken, abandoned, pc>>
      BY <1>2 DEF RecvEnds
    <2>2. ~abandoned => ChunksInv'
      <3> SUFFICES ASSUME ~abandoned PROVE ChunksInv'
        OBVIOUS
      <3>1. PICK mid \in Nat : Leads(queue, appended, mid) /\ Leads(cq, mid, recvd)
        BY <2>1 DEF StreamInv, ChunksInv
      <3>2. Leads(Append(cq, 0), mid, recvd + 0)
        BY <1>0, <1>q, <3>1, LeadsAppend
      <3>3. recvd + 0 = recvd
        BY <1>0
      <3>4. Leads(cq', mid, recvd')
        BY <2>1, <3>2, <3>3
      <3> QED
        BY <2>1, <3>1, <3>4 DEF ChunksInv
    <2> QED
      BY <1>s, <1>t, <2>1, <2>2 DEF StreamInv
  <1>3. CASE OnRecvChunk
    <2>1. /\ cq # << >> /\ cq' = Tail(cq) /\ mode = "ring"
          /\ UNCHANGED <<recvd, appended, taken, abandoned>>
      BY <1>0, <1>3 DEF OnRecvChunk, StreamInv
    <2>2. CASE abandoned
      BY <1>3, <1>s, <1>t, <2>1, <2>2 DEF OnRecvChunk, StreamInv
    <2>3. CASE ~abandoned
      <3>1. queue' = Append(queue, Head(cq))
        BY <1>3, <2>3 DEF OnRecvChunk
      <3>2. PICK mid \in Nat : Leads(queue, appended, mid) /\ Leads(cq, mid, recvd)
        BY <2>1, <2>3 DEF StreamInv, ChunksInv
      <3>3. Head(cq) \in Nat /\ mid + Head(cq) \in Nat
        BY <1>q, <2>1
      <3>4. Leads(queue', appended', mid + Head(cq))
        BY <1>0, <1>q, <2>1, <3>1, <3>2, <3>3, LeadsAppend
      <3>5. Leads(cq', mid + Head(cq), recvd')
        BY <1>0, <1>q, <2>1, <3>2, LeadsTail
      <3>6. ChunksInv'
        BY <3>3, <3>4, <3>5 DEF ChunksInv
      <3> QED
        BY <1>s, <1>t, <2>1, <2>3, <3>6 DEF StreamInv
    <2> QED
      BY <2>2, <2>3
  <1>4. ASSUME UNCHANGED <<recvd, cq, queue, appended, taken, abandoned>>,
               pc # "done", mode = "plain" => pc' \notin {"suspend", "waiting", "take"}
        PROVE  StreamInv'
    BY <1>r, <1>s, <1>t, <1>4 DEF StreamInv
  <1>5. CASE AwaitReady
    BY <1>4, <1>5 DEF AwaitReady
  <1>6. CASE AwaitSuspend
    BY <1>4, <1>6 DEF AwaitSuspend, StreamInv
  <1>7. CASE NeedMore
    BY <1>4, <1>7 DEF NeedMore
  <1>8. CASE ReadLoop
    BY <1>4, <1>8 DEF ReadLoop
  <1>9. CASE WriteFails
    BY <1>4, <1>9 DEF WriteFails
  <1>10. CASE CloseFd
    BY <1>4, <1>10 DEF CloseFd
  <1>11. CASE AwaitResume
    <2>0. mode = "ring" /\ ~abandoned
      BY <1>0, <1>11 DEF AwaitResume, StreamInv
    <2>1. CASE queue = << >>
      <3>1. appended' = appended
        BY <1>0, <1>11, <2>1 DEF AwaitResume
      <3> QED
        BY <1>4, <1>11, <2>0, <2>1, <3>1 DEF AwaitResume
    <2>2. CASE queue # << >>
      <3>1. /\ queue' = Tail(queue) /\ appended' = appended + Head(queue)
            /\ UNCHANGED <<recvd, cq, taken, abandoned>>
        BY <1>11, <2>2 DEF AwaitResume
      <3>2. PICK mid \in Nat : Leads(queue, appended, mid) /\ Leads(cq, mid, recvd)
        BY <2>0 DEF StreamInv, ChunksInv
      <3>3. Head(queue) \in Nat /\ Tail(queue) \in Seq(Nat) /\ appended' \in Nat
        BY <1>0, <1>q, <2>2, <3>1
      <3>4. Leads(queue', appended', mid)
        BY <1>0, <1>q, <2>2, <3>1, <3>2, LeadsTail
      <3>5. appended' <= mid
        BY <3>1, <3>3, <3>4, LeadsForward
      <3>6. mid <= recvd
        BY <1>0, <1>q, <3>2, LeadsForward
      <3>7. ChunksInv'
        BY <3>1, <3>2, <3>4 DEF ChunksInv
      <3>8. taken' <= appended' /\ appended' <= recvd' /\ recvd' <= Total'
        BY <1>0, <1>t, <3>1, <3>3, <3>5, <3>6 DEF StreamInv
      <3> QED
        BY <1>s, <2>0, <3>1, <3>7, <3>8 DEF StreamInv
    <2> QED
      BY <2>1, <2>2
  <1>12. CASE OnPing \/ OnControl \/ OnData
    <2>1. /\ Whole /\ Consume /\ pc = "head"
          /\ pc' \in {"head", "await", "end", "loop", "throw"}
          /\ UNCHANGED <<queue, abandoned>>
      <3>1. CASE OnPing
        BY <3>1 DEF OnPing, NextRead
      <3>2. CASE OnControl
        BY <3>2 DEF OnControl
      <3>3. CASE OnData
        BY <3>3 DEF OnData
      <3> QED
        BY <1>12, <3>1, <3>2, <3>3
    <2>2. UNCHANGED <<recvd, cq, appended>> /\ taken' <= appended'
      BY <1>t, <2>1, ConsumeStays
    <2> QED
      BY <1>r, <1>s, <1>t, <2>1, <2>2 DEF StreamInv
  <1>13. CASE PlainRead
    <2>0. /\ mode = "plain" /\ appended = recvd /\ cq = << >> /\ pc # "done"
          /\ UNCHANGED <<cq, taken, abandoned>>
      BY <1>13 DEF PlainRead, StreamInv
    <2>1. pc' \in {"head", "await", "throw"}
      BY <1>13 DEF PlainRead
    <2>2. /\ appended' = recvd' /\ taken' <= appended' /\ recvd' <= Total'
          /\ appended' <= recvd'
      <3>1. CASE \E n \in 1..BufLen : /\ recvd + n <= Total
                                       /\ recvd' = recvd + n /\ appended' = appended + n
        BY <1>0, <1>t, <2>0, <3>1 DEF StreamInv
      <3>2. CASE UNCHANGED <<recvd, appended>>
        BY <1>0, <1>t, <2>0, <3>2 DEF StreamInv
      <3> QED
        BY <1>13, <3>1, <3>2 DEF PlainRead
    <2> QED
      BY <1>s, <2>0, <2>1, <2>2 DEF StreamInv
  <1>14. CASE Cleanup \/ Unwind
    <2>1. /\ pc' = "done" /\ UNCHANGED <<recvd, cq, appended, taken>>
          /\ mode = "ring" => abandoned'
      BY <1>14 DEF Cleanup, Unwind, ReturnAll
    <2> QED
      BY <1>s, <1>t, <2>1 DEF StreamInv
  <1>15. CASE OtherTake \/ OtherAdd \/ OtherAdvance \/ UNCHANGED wsVars
    <2>1. UNCHANGED <<recvd, cq, queue, appended, taken, abandoned, pc>>
      BY <1>15 DEF OtherTake, OtherAdd, OtherAdvance, wsVars
    <2> QED
      BY <1>r, <1>s, <1>t, <2>1 DEF StreamInv
  <1> QED
    BY <1>1, <1>2, <1>3, <1>5, <1>6, <1>7, <1>8, <1>9, <1>10, <1>11, <1>12, <1>13,
       <1>14, <1>15 DEF WsNext, Coroutine

\* Frame by frame the ring reader follows the script.
LEMMA FrameStep ==
    WsTypes /\ StreamInv /\ FrameInv /\ [WsNext]_wsVars => FrameInv'
  <1> SUFFICES ASSUME WsTypes, StreamInv, FrameInv, [WsNext]_wsVars, mode' = "ring"
               PROVE  FrameInv'
    BY DEF FrameInv
  <1> USE DEF kernelVars, stateVars, bufferVars, messageVars, endVars
  <1>1. script' = script /\ mode' = mode
    BY DEF WsNext, Coroutine, Recv, RecvEnds, OnRecvChunk, AwaitReady, AwaitSuspend,
           AwaitResume, OnPing, OnControl, OnData, NeedMore, ReadLoop, PlainRead,
           WriteFails, CloseFd, Cleanup, Unwind, OtherTake, OtherAdd, OtherAdvance, wsVars
  <1>2. mode = "ring" /\ script \in Scripts
    BY <1>1 DEF WsTypes
  <1>3. PICK c : c = Current
    OBVIOUS
  <1>4. PICK s : s = script
    OBVIOUS
  <1>5. FragAt(s, c, frag, fragOp) /\ delivered = DeliveredAt(s, c) /\ s \in Scripts
    BY <1>2, <1>3, <1>4 DEF FrameInv
  <1>6. ASSUME Whole, Consume
        PROVE  /\ c \in 1..Len(s) /\ Current' = c + 1
               /\ \E q \in Nat : taken' = FrameLen * q
    <2>1. taken' = taken + FrameLen
      BY <1>2, <1>6 DEF Consume
    <2> QED
      BY <1>2, <1>3, <1>4, <1>6, <2>1, AtFrame
  <1>7. CASE OnPing \/ OnControl
    <2>1. /\ Whole /\ Consume /\ ~IsData(s[c]) /\ UNCHANGED <<frag, fragOp, delivered>>
      <3>1. CASE OnPing
        BY <1>3, <1>4, <3>1 DEF OnPing, IsData
      <3>2. CASE OnControl
        BY <1>3, <1>4, <3>2 DEF OnControl, IsData
      <3> QED
        BY <1>7, <3>1, <3>2
    <2>2. /\ c \in 1..Len(s) /\ Current' = c + 1
          /\ \E q \in Nat : taken' = FrameLen * q
      BY <1>6, <2>1
    <2>3. FragAt(s, c + 1, frag, fragOp)
      BY <1>5, <2>1, <2>2, FragSkip
    <2>4. c \notin Final(s)
      BY <2>1 DEF Final
    <2>5. DeliveredAt(s, c + 1) = DeliveredAt(s, c)
      BY <1>5, <2>2, <2>4, DeliveredNext
    <2>6. FragAt(s, c + 1, frag', fragOp') /\ delivered' = DeliveredAt(s, c + 1)
      BY <1>5, <2>1, <2>3, <2>5
    <2> QED
      BY <1>1, <1>4, <2>2, <2>6 DEF FrameInv
  <1>8. CASE OnData
    <2> DEFINE op == OpWith(s[c])
    <2> DEFINE parts == Append(frag, c)
    <2>1. Whole /\ Consume /\ IsData(s[c])
      BY <1>3, <1>4, <1>8 DEF OnData
    <2>2. /\ c \in 1..Len(s) /\ Current' = c + 1
          /\ \E q \in Nat : taken' = FrameLen * q
      BY <1>6, <2>1
    <2>3. op = IF s[c].op = "cont" THEN fragOp ELSE s[c].op
      BY DEF OpWith
    <2> HIDE DEF op
    <2>4. /\ MessageAt(s, c) = [op |-> op, parts |-> parts]
          /\ ~s[c].fin => FragAt(s, c + 1, parts, op)
          /\ s[c].fin => FragAt(s, c + 1, << >>, "cont")
      BY <1>5, <2>1, <2>2, <2>3, FragData
    <2>5. MessageAt(s, c).op = op
      BY <2>4
    <2>6. c \in Final(s) <=> s[c].fin /\ op \in Handlers
      BY <2>1, <2>2, <2>5 DEF Final
    <2>7. /\ c \in Final(s) => DeliveredAt(s, c + 1) = Append(delivered, MessageAt(s, c))
          /\ c \notin Final(s) => DeliveredAt(s, c + 1) = delivered
      BY <1>5, <2>2, DeliveredNext
    <2>8. CASE ~s[c].fin
      <3>1. frag' = parts /\ fragOp' = op /\ delivered' = delivered
        BY <1>3, <1>4, <1>8, <2>8 DEF OnData, op
      <3>2. FragAt(s, c + 1, frag', fragOp') /\ delivered' = DeliveredAt(s, c + 1)
        BY <2>4, <2>6, <2>7, <2>8, <3>1
      <3> QED
        BY <1>1, <1>4, <2>2, <3>2 DEF FrameInv
    <2>9. CASE s[c].fin
      <3>1. /\ frag' = << >> /\ fragOp' = "cont"
            /\ op \in Handlers =>
                 delivered' = Append(delivered, [op |-> op, parts |-> parts])
            /\ op \notin Handlers => delivered' = delivered
        BY <1>3, <1>4, <1>8, <2>9 DEF OnData, op
      <3>2. delivered' = DeliveredAt(s, c + 1)
        <4>1. CASE op \in Handlers
          BY <2>4, <2>6, <2>7, <2>9, <3>1, <4>1
        <4>2. CASE op \notin Handlers
          BY <2>6, <2>7, <3>1, <4>2
        <4> QED
          BY <4>1, <4>2
      <3>3. FragAt(s, c + 1, frag', fragOp')
        BY <2>4, <2>9, <3>1
      <3> QED
        BY <1>1, <1>4, <2>2, <3>2, <3>3 DEF FrameInv
    <2> QED
      BY <2>8, <2>9
  <1>9. ASSUME UNCHANGED <<taken, frag, fragOp, delivered>> PROVE FrameInv'
    <2>1. Current' = Current
      BY <1>9 DEF Current
    <2> QED
      BY <1>1, <1>9, <2>1 DEF FrameInv
  <1>10. CASE \/ \E more \in BOOLEAN : Recv(more)
              \/ \E why \in Ends : RecvEnds(why)
              \/ OnRecvChunk \/ AwaitReady \/ AwaitSuspend \/ AwaitResume \/ NeedMore
              \/ ReadLoop \/ PlainRead \/ WriteFails \/ CloseFd
              \/ OtherTake \/ OtherAdd \/ OtherAdvance
    BY <1>9, <1>10 DEF Recv, RecvEnds, OnRecvChunk, AwaitReady, AwaitSuspend,
           AwaitResume, NeedMore, ReadLoop, PlainRead, WriteFails, CloseFd,
           OtherTake, OtherAdd, OtherAdvance
  <1>11. CASE Cleanup \/ Unwind
    BY <1>2, <1>9, <1>11 DEF Cleanup, Unwind, ReturnAll
  <1>12. CASE UNCHANGED wsVars
    BY <1>9, <1>12 DEF wsVars
  <1> QED
    BY <1>7, <1>8, <1>10, <1>11, <1>12 DEF WsNext, Coroutine

-----------------------------------------------------------------------------
(* The shared buffer ring.                                                  *)

\* The ring's part of the invariant: what another connection has added and not yet
\* published is still in its slot, unless two returns have overlapped.
RingInv ==
    /\ slot \in [1..Buffers -> 1..Buffers] /\ avail \in Nat
    /\ bids \in Seq(1..Buffers) /\ other \in 0..Buffers
    /\ returning \in BOOLEAN /\ raced \in BOOLEAN
    /\ NoneIsMissing
    /\ returning => other # 0
    /\ ~raced => InOnePlace /\ (returning => slot[avail + 1] = other)

\* The kernel takes a buffer for this connection.
LEMMA RingRecv ==
    ASSUME RingInv, Take, bids' = Append(bids, slot[1]), UNCHANGED otherVars
    PROVE  RingInv' /\ Len(bids') = Len(bids) + 1
  <1> USE DEF otherVars
  <1>0. Buffers \in Nat /\ Buffers > 0
    BY WsAssumption
  <1>1. /\ slot \in [1..Buffers -> 1..Buffers] /\ avail \in Nat /\ Len(bids) \in Nat
        /\ bids \in Seq(1..Buffers) /\ other \in 0..Buffers /\ avail > 0
        /\ avail' = avail - 1
    BY DEF RingInv, Take
  <1>2. slot[1] \in 1..Buffers
    BY <1>0, <1>1
  <1>3. /\ bids' \in Seq(1..Buffers) /\ Len(bids') = Len(bids) + 1
        /\ bids'[Len(bids) + 1] = slot[1]
        /\ \A k \in 1..Len(bids) : bids'[k] = bids[k]
    BY <1>1, <1>2
  <1>4. avail + Len(bids) + (IF other = 0 THEN 0 ELSE 1) = Buffers /\ avail <= Buffers
    BY <1>0, <1>1 DEF RingInv, NoneIsMissing
  <1>5. /\ slot' \in [1..Buffers -> 1..Buffers]
        /\ \A k \in 1..(Buffers - 1) : slot'[k] = slot[k + 1]
    BY <1>0, <1>1, <1>2 DEF Take
  <1>6. NoneIsMissing'
    BY <1>1, <1>3, <1>4 DEF NoneIsMissing
  <1>7. ASSUME ~raced PROVE InOnePlace'
    <2>1. InOnePlace
      BY <1>7 DEF RingInv
    <2>a. \A k \in 1..avail' : /\ k \in 1..(Buffers - 1) /\ k + 1 \in 1..avail
                                /\ k + 1 # 1
      BY <1>0, <1>1, <1>4
    <2>2. \A k \in 1..avail' : slot'[k] = slot[k + 1] /\ k + 1 \in 1..avail /\ k + 1 # 1
      BY <1>5, <2>a
    <2>3. \A k \in 1..Len(bids') : k = Len(bids) + 1 \/ k \in 1..Len(bids)
      BY <1>1, <1>3
    <2>4. 1 \in 1..avail
      BY <1>1
    <2>5. \A i, j \in 1..avail' : slot'[i] = slot'[j] => i = j
      BY <1>1, <2>1, <2>2 DEF InOnePlace
    <2>6. \A i, j \in 1..Len(bids') : bids'[i] = bids'[j] => i = j
      BY <1>3, <2>1, <2>3, <2>4 DEF InOnePlace
    <2>7. \A i \in 1..avail', j \in 1..Len(bids') : slot'[i] # bids'[j]
      BY <1>3, <2>1, <2>2, <2>3, <2>4 DEF InOnePlace
    <2>8. \A i \in 1..avail' : slot'[i] # other'
      BY <2>1, <2>2 DEF InOnePlace
    <2>9. \A i \in 1..Len(bids') : bids'[i] # other'
      BY <1>3, <2>1, <2>3, <2>4 DEF InOnePlace
    <2> QED
      BY <2>5, <2>6, <2>7, <2>8, <2>9 DEF InOnePlace
  <1>8. ASSUME ~raced, returning PROVE slot'[avail' + 1] = other
    <2>1. slot[avail + 1] = other /\ other # 0
      BY <1>8 DEF RingInv
    <2>2. avail \in 1..(Buffers - 1) /\ avail' + 1 = avail
      BY <1>0, <1>1, <1>4, <2>1
    <2> QED
      BY <1>5, <2>1, <2>2
  <1> QED
    BY <1>1, <1>3, <1>5, <1>6, <1>7, <1>8 DEF RingInv, Take

\* The kernel takes a buffer for another connection.
LEMMA RingOtherTake ==
    ASSUME RingInv, OtherTake PROVE RingInv'
  <1>0. Buffers \in Nat /\ Buffers > 0
    BY WsAssumption
  <1>1. /\ slot \in [1..Buffers -> 1..Buffers] /\ avail \in Nat /\ Len(bids) \in Nat
        /\ bids \in Seq(1..Buffers) /\ other = 0 /\ avail > 0 /\ other' = slot[1]
        /\ avail' = avail - 1 /\ UNCHANGED <<bids, raced, returning>> /\ ~returning
    BY DEF RingInv, Take, OtherTake
  <1>2. slot[1] \in 1..Buffers /\ other' # 0 /\ other' \in 0..Buffers
    BY <1>0, <1>1
  <1>4. avail + Len(bids) = Buffers /\ avail <= Buffers
    BY <1>0, <1>1 DEF RingInv, NoneIsMissing
  <1>5. /\ slot' \in [1..Buffers -> 1..Buffers]
        /\ \A k \in 1..(Buffers - 1) : slot'[k] = slot[k + 1]
    BY <1>0, <1>1, <1>2 DEF Take, OtherTake
  <1>6. NoneIsMissing'
    BY <1>1, <1>2, <1>4 DEF NoneIsMissing
  <1>7. ASSUME ~raced PROVE InOnePlace'
    <2>1. InOnePlace
      BY <1>7 DEF RingInv
    <2>a. \A k \in 1..avail' : /\ k \in 1..(Buffers - 1) /\ k + 1 \in 1..avail
                                /\ k + 1 # 1
      BY <1>0, <1>1, <1>4
    <2>2. \A k \in 1..avail' : slot'[k] = slot[k + 1] /\ k + 1 \in 1..avail /\ k + 1 # 1
      BY <1>5, <2>a
    <2>4. 1 \in 1..avail
      BY <1>1
    <2>5. \A i, j \in 1..avail' : slot'[i] = slot'[j] => i = j
      BY <1>1, <2>1, <2>2 DEF InOnePlace
    <2>7. \A i \in 1..avail', j \in 1..Len(bids') : slot'[i] # bids'[j]
      BY <1>1, <2>1, <2>2 DEF InOnePlace
    <2>8. \A i \in 1..avail' : slot'[i] # other'
      BY <1>1, <2>1, <2>2, <2>4 DEF InOnePlace
    <2>9. \A i \in 1..Len(bids') : bids'[i] # other'
      BY <1>1, <2>1, <2>4 DEF InOnePlace
    <2> QED
      BY <1>1, <2>1, <2>5, <2>7, <2>8, <2>9 DEF InOnePlace
  <1> QED
    BY <1>1, <1>2, <1>5, <1>6, <1>7 DEF RingInv

\* Another connection writes its buffer behind the tail and publishes it.
LEMMA RingOtherReturns ==
    ASSUME RingInv, OtherAdd \/ OtherAdvance PROVE RingInv'
  <1>0. Buffers \in Nat /\ Buffers > 0
    BY WsAssumption
  <1>1. /\ slot \in [1..Buffers -> 1..Buffers] /\ avail \in Nat /\ Len(bids) \in Nat
        /\ bids \in Seq(1..Buffers) /\ other \in 1..Buffers
        /\ UNCHANGED <<bids, raced>>
    BY <1>0 DEF RingInv, OtherAdd, OtherAdvance
  <1>2. avail + Len(bids) + 1 = Buffers /\ avail + 1 \in 1..Buffers
    BY <1>0, <1>1 DEF RingInv, NoneIsMissing
  <1>3. CASE OtherAdd
    <2>1. /\ slot' = [slot EXCEPT ![avail + 1] = other]
          /\ UNCHANGED <<avail, other>> /\ returning' = TRUE
      BY <1>3 DEF OtherAdd
    <2>2. /\ slot' \in [1..Buffers -> 1..Buffers] /\ slot'[avail + 1] = other
          /\ \A k \in 1..avail : slot'[k] = slot[k]
      <3>1. \A k \in 1..avail : k \in 1..Buffers /\ k # avail + 1
        BY <1>0, <1>1, <1>2
      <3>2. /\ slot' \in [1..Buffers -> 1..Buffers] /\ slot'[avail + 1] = other
            /\ \A k \in 1..Buffers : k # avail + 1 => slot'[k] = slot[k]
        BY <1>1, <1>2, <2>1
      <3> QED
        BY <3>1, <3>2
    <2>3. NoneIsMissing'
      BY <1>1, <2>1 DEF RingInv, NoneIsMissing
    <2>4. ~raced => InOnePlace'
      BY <1>1, <2>1, <2>2 DEF RingInv, InOnePlace
    <2> QED
      BY <1>0, <1>1, <2>1, <2>2, <2>3, <2>4 DEF RingInv
  <1>4. CASE OtherAdvance
    <2>1. /\ avail' = avail + 1 /\ slot' = slot /\ other' = 0 /\ returning' = FALSE
          /\ returning
      BY <1>4 DEF OtherAdvance
    <2>2. NoneIsMissing'
      BY <1>1, <1>2, <2>1 DEF NoneIsMissing
    <2>3. ASSUME ~raced PROVE InOnePlace'
      <3>1. InOnePlace /\ slot[avail + 1] = other
        BY <2>1, <2>3 DEF RingInv
      <3>2. \A k \in 1..avail' : k = avail + 1 \/ k \in 1..avail
        BY <1>1, <2>1
      <3>3. \A k \in 1..avail' : slot'[k] # 0
        BY <1>0, <1>1, <1>2, <2>1
      <3>4. \A k \in 1..Len(bids) : bids[k] # 0
        BY <1>0, <1>1
      <3>5. \A i, j \in 1..avail' : slot'[i] = slot'[j] => i = j
        BY <2>1, <3>1, <3>2 DEF InOnePlace
      <3>6. \A i \in 1..avail', j \in 1..Len(bids') : slot'[i] # bids'[j]
        BY <1>1, <2>1, <3>1, <3>2 DEF InOnePlace
      <3> QED
        BY <1>1, <2>1, <3>1, <3>3, <3>4, <3>5, <3>6 DEF InOnePlace
    <2>4. other' \in 0..Buffers /\ avail' \in Nat
      BY <1>0, <1>1, <2>1
    <2>5. raced' = raced /\ raced \in BOOLEAN
      BY <1>1 DEF RingInv
    <2>6. /\ slot' \in [1..Buffers -> 1..Buffers] /\ bids' \in Seq(1..Buffers)
          /\ ~returning' /\ returning' \in BOOLEAN /\ raced' \in BOOLEAN
      BY <1>1, <2>1, <2>5
    <2>7. ~raced' => InOnePlace'
      BY <2>3, <2>5
    <2> QED
      BY <2>2, <2>4, <2>6, <2>7 DEF RingInv
  <1> QED
    BY <1>3, <1>4

\* This connection returns its n oldest buffers.
LEMMA RingReturn ==
    ASSUME RingInv, NEW n \in Nat, n <= Len(bids), Return(n), UNCHANGED otherVars
    PROVE  RingInv' /\ Len(bids') = Len(bids) - n
  <1> USE DEF otherVars
  <1>0. Buffers \in Nat /\ Buffers > 0
    BY WsAssumption
  <1>1. /\ slot \in [1..Buffers -> 1..Buffers] /\ avail \in Nat /\ Len(bids) \in Nat
        /\ bids \in Seq(1..Buffers) /\ other \in 0..Buffers
        /\ avail' = avail + n /\ bids' = SubSeq(bids, n + 1, Len(bids))
    BY DEF RingInv, Return
  <1>2. \A k \in 1..Len(bids) : bids[k] \in 1..Buffers
    BY <1>1, ElementOfSeq
  <1>3. /\ bids' \in Seq(1..Buffers) /\ Len(bids') = Len(bids) - n
        /\ \A k \in 1..(Len(bids) - n) : bids'[k] = bids[k + n]
    <2>1. \A k \in (n + 1)..Len(bids) : bids[k] \in 1..Buffers
      BY <1>1, <1>2
    <2>2. n + 1 \in Nat /\ Len(bids) \in Nat /\ n + 1 <= Len(bids) + 1
      BY <1>1
    <2>3. bids' \in Seq(1..Buffers)
      BY <1>1, <2>1, <2>2, SubSeqProperties
    <2>4. Len(bids') = Len(bids) - n
      BY <1>1, <2>2, SubSeqProperties
    <2>5. \A k \in 1..(Len(bids) - n) : bids'[k] = bids[k + n]
      BY <1>1, <2>2, SubSeqProperties
    <2> QED
      BY <2>3, <2>4, <2>5
  <1>4. avail + Len(bids) + (IF other = 0 THEN 0 ELSE 1) = Buffers
        /\ avail + n <= Buffers
    BY <1>0, <1>1 DEF RingInv, NoneIsMissing
  <1>5. slot' = [i \in 1..Buffers |->
                  IF i \in (avail + 1)..(avail + n) THEN bids[i - avail] ELSE slot[i]]
    BY DEF Return
  <1>6. slot' \in [1..Buffers -> 1..Buffers]
    <2>1. \A i \in 1..Buffers :
             i \in (avail + 1)..(avail + n) => i - avail \in 1..Len(bids)
      BY <1>1
    <2> QED
      BY <1>1, <1>2, <1>5, <2>1
  <1>7. /\ \A k \in 1..avail : slot'[k] = slot[k]
        /\ \A k \in (avail + 1)..(avail + n) :
              slot'[k] = bids[k - avail] /\ k - avail \in 1..n
    BY <1>0, <1>1, <1>4, <1>5
  <1>8. NoneIsMissing'
    <2>1. other' = other
      OBVIOUS
    <2>2. PICK held \in Nat, left \in Nat : held = Len(bids) /\ left = avail
      BY <1>1
    <2>3. Len(bids') = held - n
      BY <1>3, <2>2
    <2>4. avail' = left + n
      BY <1>1, <2>2
    <2>5. avail' + Len(bids') = left + held
      <3>1. (left + n) + (held - n) = left + held
        BY <2>2
      <3> QED
        BY <2>3, <2>4, <3>1, Zenon
    <2>6. avail' + Len(bids') = avail + Len(bids)
      BY <2>2, <2>5, Zenon
    <2> QED
      BY <1>4, <2>1, <2>6, Zenon DEF NoneIsMissing
  <1>9. raced' = (raced \/ (n > 0 /\ returning))
    BY DEF Return
  <1>10. ASSUME ~raced PROVE InOnePlace'
    <2>1. InOnePlace
      BY <1>10 DEF RingInv
    <2>2. \A k \in 1..avail' : k \in 1..avail \/ k \in (avail + 1)..(avail + n)
      BY <1>1
    <2>3. \A k \in 1..Len(bids') : /\ bids'[k] = bids[k + n] /\ k + n \in 1..Len(bids)
                                    /\ k + n \notin 1..n
      BY <1>1, <1>3
    <2>4. 1..n \subseteq 1..Len(bids)
      BY <1>1
    <2>5. \A i, j \in 1..avail' : slot'[i] = slot'[j] => i = j
      <3> SUFFICES ASSUME NEW i \in 1..avail', NEW j \in 1..avail', slot'[i] = slot'[j]
                   PROVE  i = j
        OBVIOUS
      <3>1. CASE i \in 1..avail /\ j \in 1..avail
        BY <1>7, <2>1, <3>1 DEF InOnePlace
      <3>2. CASE i \in 1..avail /\ j \in (avail + 1)..(avail + n)
        BY <1>7, <2>1, <2>4, <3>2 DEF InOnePlace
      <3>3. CASE j \in 1..avail /\ i \in (avail + 1)..(avail + n)
        BY <1>7, <2>1, <2>4, <3>3 DEF InOnePlace
      <3>4. CASE i \in (avail + 1)..(avail + n) /\ j \in (avail + 1)..(avail + n)
        <4>1. i - avail = j - avail
          BY <1>7, <2>1, <2>4, <3>4 DEF InOnePlace
        <4> QED
          BY <1>1, <3>4, <4>1
      <3> QED
        BY <2>2, <3>1, <3>2, <3>3, <3>4
    <2>6. \A i, j \in 1..Len(bids') : bids'[i] = bids'[j] => i = j
      <3> SUFFICES ASSUME NEW i \in 1..Len(bids'), NEW j \in 1..Len(bids'),
                          bids'[i] = bids'[j]
                   PROVE  i = j
        OBVIOUS
      <3>1. i + n = j + n
        BY <2>1, <2>3 DEF InOnePlace
      <3> QED
        BY <1>1, <1>3, <3>1
    <2>7. \A i \in 1..avail', j \in 1..Len(bids') : slot'[i] # bids'[j]
      <3> SUFFICES ASSUME NEW i \in 1..avail', NEW j \in 1..Len(bids')
                   PROVE  slot'[i] # bids'[j]
        OBVIOUS
      <3>1. CASE i \in 1..avail
        BY <1>7, <2>1, <2>3, <3>1 DEF InOnePlace
      <3>2. CASE i \in (avail + 1)..(avail + n)
        <4>1. i - avail # j + n
          BY <1>7, <2>3, <3>2
        <4> QED
          BY <1>7, <2>1, <2>3, <2>4, <3>2, <4>1 DEF InOnePlace
      <3> QED
        BY <2>2, <3>1, <3>2
    <2>8. \A i \in 1..avail' : slot'[i] # other'
      BY <1>7, <2>1, <2>2, <2>4 DEF InOnePlace
    <2>9. \A i \in 1..Len(bids') : bids'[i] # other'
      BY <2>1, <2>3 DEF InOnePlace
    <2> QED
      BY <2>5, <2>6, <2>7, <2>8, <2>9 DEF InOnePlace
  <1>11. ASSUME ~raced', returning PROVE slot'[avail' + 1] = other
    <2>0. ~raced /\ ~(n > 0)
      BY <1>9, <1>11
    <2>1. n = 0 /\ slot[avail + 1] = other /\ other # 0
      BY <1>11, <2>0 DEF RingInv
    <2>2. avail + 1 \in 1..Buffers /\ avail + 1 \notin (avail + 1)..(avail + n)
      BY <1>0, <1>1, <1>4, <2>1
    <2>3. avail' + 1 = avail + 1
      BY <1>1, <2>1
    <2> QED
      BY <1>5, <2>1, <2>2, <2>3
  <1> QED
    BY <1>1, <1>3, <1>6, <1>8, <1>9, <1>10, <1>11 DEF RingInv

\* A buffer moves from the completions to the queue, to the assembler and back.
LEMMA BuffersStep ==
    WsTypes /\ StreamInv /\ RingInv /\ EachIsReturnedOnce /\ [WsNext]_wsVars
        => RingInv' /\ EachIsReturnedOnce'
  <1> SUFFICES ASSUME WsTypes, StreamInv, RingInv, EachIsReturnedOnce, [WsNext]_wsVars
               PROVE  RingInv' /\ EachIsReturnedOnce'
    OBVIOUS
  <1> USE DEF kernelVars, stateVars, bufferVars, messageVars, endVars
  <1>1. cq \in Seq(Nat) /\ queue \in Seq(Nat) /\ BufLen \in Nat /\ Buffers \in Nat
    BY ChunkLengths, WsAssumption
  <1>2. /\ Filled(cq) \in Nat /\ Filled(queue) \in Nat /\ Filled(<< >>) = 0
        /\ Len(bids) \in Nat /\ pending \in Nat
    <2>1. bids \in Seq(1..Buffers) /\ pending \in Nat
      BY DEF WsTypes, RingInv
    <2>2. Len(bids) \in Nat
      BY <2>1, LenProperties
    <2> QED
      BY <1>1, <2>1, <2>2, FilledType
  <1>3. Len(bids) = Filled(cq) + Filled(queue) + pending
    BY DEF EachIsReturnedOnce
  <1>r. ASSUME UNCHANGED <<ringVars, otherVars>> PROVE RingInv'
    <2>1. UNCHANGED <<slot, avail, bids, raced, other, returning>>
      BY <1>r DEF ringVars, otherVars
    <2> QED
      BY <2>1 DEF RingInv, NoneIsMissing, InOnePlace
  <1>b. ASSUME UNCHANGED ringVars PROVE bids' = bids
    BY <1>b DEF ringVars
  <1>4. ASSUME UNCHANGED <<ringVars, otherVars, cq, queue, pending>>
        PROVE  RingInv' /\ EachIsReturnedOnce'
    BY <1>3, <1>4, <1>r, <1>b DEF EachIsReturnedOnce
  <1>5. ASSUME NEW more \in BOOLEAN, Recv(more) PROVE RingInv' /\ EachIsReturnedOnce'
    <2>1. PICK n \in 1..BufLen : cq' = Append(cq, n)
      BY <1>5 DEF Recv
    <2>2. Filled(cq') = Filled(cq) + 1
      BY <1>1, <2>1, FilledAppend
    <2>3. /\ Take /\ bids' = Append(bids, slot[1]) /\ UNCHANGED otherVars
          /\ UNCHANGED <<queue, pending>>
      BY <1>5 DEF Recv
    <2>4. RingInv' /\ Len(bids') = Len(bids) + 1
      BY <2>3, RingRecv
    <2> QED
      BY <1>2, <1>3, <2>2, <2>3, <2>4 DEF EachIsReturnedOnce
  <1>6. ASSUME NEW why \in Ends, RecvEnds(why) PROVE RingInv' /\ EachIsReturnedOnce'
    <2>1. cq' = Append(cq, 0) /\ UNCHANGED <<ringVars, otherVars, queue, pending>>
      BY <1>6 DEF RecvEnds
    <2>2. Filled(cq') = Filled(cq)
      BY <1>1, <1>2, <2>1, FilledAppend
    <2> QED
      BY <1>3, <1>r, <1>b, <2>1, <2>2 DEF EachIsReturnedOnce
  <1>7. CASE OnRecvChunk
    <2>1. /\ cq # << >> /\ cq' = Tail(cq) /\ pending' = pending
          /\ UNCHANGED otherVars
      BY <1>7 DEF OnRecvChunk
    <2>2. PICK n : n = Head(cq)
      OBVIOUS
    <2>3. n \in Nat /\ Filled(cq) = Filled(cq') + (IF n > 0 THEN 1 ELSE 0)
          /\ Tail(cq) \in Seq(Nat)
      BY <1>1, <2>1, <2>2, FilledTail
    <2>4. Filled(cq') \in Nat
      BY <2>1, <2>3, FilledType
    <2>5. CASE abandoned
      <3>1. PICK k : k = Filled(<<n>>)
        OBVIOUS
      <3>2. k = (IF n > 0 THEN 1 ELSE 0) /\ k \in Nat
        BY <2>3, <3>1, FilledOne
      <3>3. Return(k) /\ queue' = queue
        BY <1>7, <2>2, <2>5, <3>1 DEF OnRecvChunk
      <3>4. k <= Len(bids)
        BY <1>2, <1>3, <2>3, <2>4, <3>2
      <3>5. RingInv' /\ Len(bids') = Len(bids) - k
        BY <2>1, <3>2, <3>3, <3>4, RingReturn
      <3> QED
        BY <1>2, <1>3, <2>1, <2>3, <2>4, <3>2, <3>3, <3>5 DEF EachIsReturnedOnce
    <2>6. CASE ~abandoned
      <3>1. queue' = Append(queue, n) /\ UNCHANGED ringVars
        BY <1>7, <2>2, <2>6 DEF OnRecvChunk
      <3>2. Filled(queue') = Filled(queue) + (IF n > 0 THEN 1 ELSE 0)
        BY <1>1, <2>3, <3>1, FilledAppend
      <3>3. RingInv' /\ bids' = bids
        BY <1>r, <1>b, <2>1, <3>1
      <3> QED
        BY <1>2, <1>3, <2>1, <2>3, <2>4, <3>2, <3>3 DEF EachIsReturnedOnce
    <2> QED
      BY <2>5, <2>6
  <1>8. CASE AwaitResume
    <2>1. CASE queue = << >>
      BY <1>2, <1>4, <1>8, <2>1 DEF AwaitResume
    <2>2. CASE queue # << >>
      <3>1. PICK n : n = Head(queue)
        OBVIOUS
      <3>2. /\ queue' = Tail(queue) /\ UNCHANGED <<ringVars, otherVars, cq>>
            /\ pending' = IF n > 0 THEN pending + 1 ELSE pending
        BY <1>8, <2>2, <3>1 DEF AwaitResume
      <3>3. n \in Nat /\ Filled(queue) = Filled(queue') + (IF n > 0 THEN 1 ELSE 0)
            /\ Tail(queue) \in Seq(Nat)
        BY <1>1, <2>2, <3>1, <3>2, FilledTail
      <3>4. Filled(queue') \in Nat
        BY <3>2, <3>3, FilledType
      <3>5. RingInv' /\ bids' = bids
        BY <1>r, <1>b, <3>2
      <3> QED
        BY <1>2, <1>3, <3>2, <3>3, <3>4, <3>5 DEF EachIsReturnedOnce
    <2> QED
      BY <2>1, <2>2
  <1>9. CASE OnPing \/ OnControl \/ OnData
    <2>1. /\ Return(pending) /\ pending' = 0 /\ UNCHANGED <<cq, queue>>
          /\ UNCHANGED otherVars
      BY <1>9 DEF OnPing, OnControl, OnData, Consume
    <2>2. pending <= Len(bids)
      BY <1>2, <1>3
    <2>3. RingInv' /\ Len(bids') = Len(bids) - pending
      BY <1>2, <2>1, <2>2, RingReturn
    <2> QED
      BY <1>2, <1>3, <2>1, <2>3 DEF EachIsReturnedOnce
  <1>10. CASE Cleanup \/ Unwind
    <2>1. CASE mode = "ring"
      <3>1. PICK n : n = pending + Filled(queue)
        OBVIOUS
      <3>2. /\ Return(n) /\ pending' = 0 /\ cq' = cq /\ queue' = << >>
            /\ UNCHANGED otherVars
        BY <1>10, <2>1, <3>1 DEF Cleanup, Unwind, ReturnAll
      <3>3. n \in Nat /\ n <= Len(bids) /\ Filled(queue') = 0
        BY <1>2, <1>3, <3>1, <3>2
      <3>4. RingInv' /\ Len(bids') = Len(bids) - n
        BY <3>2, <3>3, RingReturn
      <3> QED
        BY <1>2, <1>3, <3>1, <3>2, <3>3, <3>4 DEF EachIsReturnedOnce
    <2>2. CASE mode # "ring"
      BY <1>4, <1>10, <2>2 DEF Cleanup, Unwind
    <2> QED
      BY <2>1, <2>2
  <1>11. CASE \/ AwaitReady \/ AwaitSuspend \/ NeedMore \/ ReadLoop \/ PlainRead
              \/ WriteFails \/ CloseFd
    BY <1>4, <1>11 DEF AwaitReady, AwaitSuspend, NeedMore, ReadLoop, PlainRead,
           WriteFails, CloseFd
  <1>12. CASE OtherTake \/ OtherAdd \/ OtherAdvance
    <2>1. UNCHANGED <<bids, cq, queue, pending>>
      BY <1>12 DEF OtherTake, OtherAdd, OtherAdvance
    <2> QED
      BY <1>3, <1>12, <2>1, RingOtherTake, RingOtherReturns DEF EachIsReturnedOnce
  <1>13. CASE UNCHANGED wsVars
    BY <1>4, <1>13 DEF wsVars
  <1> QED
    BY <1>5, <1>6, <1>7, <1>8, <1>9, <1>10, <1>11, <1>12, <1>13 DEF WsNext, Coroutine

\* Once freed, the callback gets no completion: the kernel posts none after the last,
\* and the reader that has left does not come back.
LEMMA FreedStep ==
    WsTypes /\ StreamInv /\ FreedAfterTheLast /\ [WsNext]_wsVars => FreedAfterTheLast'
  <1> SUFFICES ASSUME WsTypes, StreamInv, FreedAfterTheLast, [WsNext]_wsVars
               PROVE  FreedAfterTheLast'
    OBVIOUS
  <1> USE DEF kernelVars, stateVars, bufferVars, messageVars, endVars
  <1>1. ASSUME UNCHANGED <<callback, ended, cq, abandoned>> PROVE FreedAfterTheLast'
    BY <1>1 DEF FreedAfterTheLast
  <1>2. ASSUME NEW more \in BOOLEAN, Recv(more) PROVE FreedAfterTheLast'
    BY <1>2 DEF Recv, FreedAfterTheLast
  <1>3. ASSUME NEW why \in Ends, RecvEnds(why) PROVE FreedAfterTheLast'
    BY <1>3 DEF RecvEnds, FreedAfterTheLast
  <1>4. CASE OnRecvChunk
    <2>1. /\ cq # << >> /\ cq' = Tail(cq) /\ UNCHANGED <<ended, abandoned>>
          /\ callback # "freed"
      BY <1>4 DEF OnRecvChunk, FreedAfterTheLast
    <2>2. CASE abandoned
      <3>1. callback' = "freed" => Terminal
        BY <1>4, <2>1, <2>2 DEF OnRecvChunk
      <3>2. Terminal => cq' = << >> /\ ended # "no"
        BY <2>1 DEF Terminal, WsTypes
      <3> QED
        BY <2>1, <2>2, <3>1, <3>2 DEF FreedAfterTheLast
    <2>3. CASE ~abandoned
      BY <1>4, <2>1, <2>3 DEF OnRecvChunk, FreedAfterTheLast
    <2> QED
      BY <2>2, <2>3
  <1>5. CASE \/ AwaitReady \/ AwaitSuspend \/ AwaitResume \/ NeedMore \/ ReadLoop
             \/ WriteFails \/ CloseFd \/ OtherTake \/ OtherAdd \/ OtherAdvance
    BY <1>1, <1>5 DEF AwaitReady, AwaitSuspend, AwaitResume, NeedMore, ReadLoop,
           WriteFails, CloseFd, OtherTake, OtherAdd, OtherAdvance
  <1>6. CASE OnPing \/ OnControl \/ OnData
    BY <1>1, <1>6 DEF OnPing, OnControl, OnData, Consume
  <1>7. CASE PlainRead
    <2>1. ~abandoned /\ UNCHANGED <<callback, abandoned>>
      BY <1>7 DEF PlainRead, StreamInv
    <2> QED
      BY <2>1 DEF FreedAfterTheLast
  <1>8. CASE Cleanup \/ Unwind
    <2>1. CASE mode = "ring"
      <3>1. abandoned' = TRUE /\ UNCHANGED <<callback, ended, cq>>
        BY <1>8, <2>1 DEF Cleanup, Unwind, ReturnAll
      <3> QED
        BY <3>1 DEF FreedAfterTheLast
    <2>2. CASE mode # "ring"
      BY <1>1, <1>8, <2>2 DEF Cleanup, Unwind
    <2> QED
      BY <2>1, <2>2
  <1>9. CASE UNCHANGED wsVars
    BY <1>1, <1>9 DEF wsVars
  <1> QED
    BY <1>2, <1>3, <1>4, <1>5, <1>6, <1>7, <1>8, <1>9 DEF WsNext, Coroutine

\* The inductive invariant of a connection.
WsInv == /\ WsTypes /\ StreamInv /\ FrameInv /\ RingInv /\ EachIsReturnedOnce
         /\ FreedAfterTheLast

\* A fresh connection.
LEMMA InitWsInv == WsInit => WsInv
  <1> SUFFICES ASSUME WsInit PROVE WsInv
    OBVIOUS
  <1>1. << >> \in Seq(0..BufLen) /\ << >> \in Seq(Nat) /\ Buffers \in Nat
        /\ FrameLen \in Nat /\ FrameLen > 0
    BY WsAssumption
  <1>2. WsTypes
    BY <1>1 DEF WsInit, Start, WsTypes
  <1>3. Len(script) \in Nat /\ script \in Scripts
    BY <1>2, ScriptIs DEF WsTypes
  <1>4. StreamInv
    <2>1. Total \in Nat
      BY <1>1, <1>3 DEF Total
    <2>2. Leads(<< >>, 0, 0)
      BY LeadsNowhere
    <2>3. ChunksInv
      BY <2>2 DEF ChunksInv, WsInit
    <2> QED
      BY <2>1, <2>3 DEF StreamInv, WsInit
  <1>5. FrameInv
    <2>1. taken = FrameLen * 0 /\ taken = 0
      BY <1>1 DEF WsInit
    <2>2. Current = 1
      <3>1. (FrameLen * 0) \div FrameLen = 0
        BY FrameNumber
      <3> QED
        BY <2>1, <3>1 DEF Current
    <2>3. ~Inside(script, 1)
      BY InsideFirst
    <2>4. FragAt(script, 1, frag, fragOp)
      BY <2>3 DEF FragAt, WsInit
    <2>5. delivered = DeliveredAt(script, 1)
      BY <1>3, DeliveredFirst DEF WsInit
    <2> QED
      BY <2>1, <2>2, <2>4, <2>5 DEF FrameInv
  <1>6. RingInv /\ EachIsReturnedOnce
    <2>1. Filled(<< >>) = 0
      BY <1>1, FilledType
    <2>2. /\ slot = [i \in 1..Buffers |-> i] /\ avail = Buffers /\ bids = << >>
          /\ other = 0 /\ returning = FALSE /\ raced = FALSE
          /\ cq = << >> /\ queue = << >> /\ pending = 0
      BY DEF WsInit, InitRing
    <2>3. Len(bids) = 0 /\ bids \in Seq(1..Buffers) /\ 0 \in 0..Buffers
      BY <1>1, <2>2
    <2>4. InOnePlace
      BY <1>1, <2>2, <2>3 DEF InOnePlace
    <2>5. slot \in [1..Buffers -> 1..Buffers] /\ avail \in Nat
      BY <1>1, <2>2
    <2>6. NoneIsMissing
      BY <1>1, <2>2, <2>3 DEF NoneIsMissing
    <2>7. RingInv
      BY <2>2, <2>3, <2>4, <2>5, <2>6 DEF RingInv
    <2> QED
      BY <2>1, <2>2, <2>3, <2>7 DEF EachIsReturnedOnce
  <1>7. FreedAfterTheLast
    BY DEF FreedAfterTheLast, WsInit, Start
  <1> QED
    BY <1>2, <1>4, <1>5, <1>6, <1>7 DEF WsInv

\* The inductive invariant holds.
THEOREM WsInvariantHolds == WsSpec => []WsInv
  <1>1. WsInv /\ [WsNext]_wsVars => WsInv'
    BY WsTypesStep, StreamStep, FrameStep, BuffersStep, FreedStep DEF WsInv
  <1> QED
    BY <1>1, InitWsInv, PTL DEF WsSpec

\* The variables of WsReader keep their types: no position overtakes the next, and
\* the ring never holds more buffers than ring_entries.
THEOREM WsTypeCorrect == WsSpec => []WsTypeOK
  <1>1. WsInv => WsTypeOK
    <2> SUFFICES ASSUME WsInv PROVE WsTypeOK
      OBVIOUS
    <2>1. WsTypes /\ StreamInv /\ RingInv /\ EachIsReturnedOnce
      BY DEF WsInv
    <2>2. cq \in Seq(Nat) /\ queue \in Seq(Nat)
      BY <2>1, ChunkLengths
    <2>3. Filled(cq) \in Nat /\ Filled(queue) \in Nat
      BY <2>2, FilledType
    <2>4. Len(script) \in Nat
      BY <2>1, ScriptIs DEF WsTypes
    <2>5. Total \in Nat
      BY <2>4, WsAssumption DEF Total
    <2>6. avail \in 0..Buffers /\ pending \in 0..Buffers
      <3>1. /\ avail \in Nat /\ bids \in Seq(1..Buffers) /\ pending \in Nat
            /\ Buffers \in Nat
        BY <2>1, WsAssumption DEF RingInv, WsTypes
      <3>2. Len(bids) \in Nat
        BY <3>1, LenProperties
      <3>3. PICK k \in {0, 1} : avail + Len(bids) + k = Buffers
        BY <2>1 DEF RingInv, NoneIsMissing
      <3>4. Len(bids) = Filled(cq) + Filled(queue) + pending
        BY <2>1 DEF EachIsReturnedOnce
      <3> QED
        BY <2>3, <3>1, <3>2, <3>3, <3>4
    <2>7. recvd \in 0..Total /\ taken \in 0..appended /\ appended \in 0..recvd
      BY <2>1, <2>5 DEF WsTypes, StreamInv
    <2> QED
      BY <2>1, <2>6, <2>7 DEF WsTypeOK, WsTypes, RingInv
  <1> QED
    BY <1>1, WsInvariantHolds, PTL

\* However the kernel cuts the stream, read_frame_ring() and read_loop_ring() give
\* on_text and on_binary the peer's messages whole, each once and in order.
THEOREM MessagesInOrder == WsSpec => []DeliveredInOrder
  <1>1. WsInv => DeliveredInOrder
    <2> SUFFICES ASSUME WsInv, mode = "ring" PROVE DeliveredInOrder
      BY DEF DeliveredInOrder
    <2>1. /\ delivered = DeliveredAt(script, Current) /\ script \in Scripts
          /\ \E q \in Nat : taken = FrameLen * q
      BY DEF WsInv, FrameInv, WsTypes
    <2>2. Current \in Nat
      BY <2>1, FrameNumber DEF Current
    <2> QED
      BY <2>1, <2>2, DeliveredIsPrefix DEF DeliveredInOrder
  <1> QED
    BY <1>1, WsInvariantHolds, PTL

\* Every buffer of the shared ring is available or with one connection, in one place:
\* this connection gives back each buffer once, at slots of its own, on its regular end
\* and on the way out of an exception; and unless two returns have overlapped the ring
\* holds no buffer twice.
THEOREM BuffersStayConserved == WsSpec => []BuffersAreConserved
  <1>1. WsInv => BuffersAreConserved
    BY DEF WsInv, RingInv, BuffersAreConserved
  <1> QED
    BY <1>1, WsInvariantHolds, PTL

\* on_io_completion() deletes the callback only after the last completion.
THEOREM CallbackOutlivesItsCompletions == WsSpec => []FreedAfterTheLast
  BY WsInvariantHolds, PTL DEF WsInv
=============================================================================
