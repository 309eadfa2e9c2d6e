------------------------- MODULE ActorMailboxProofs -------------------------
(***************************************************************************)
(* Proofs about ActorMailbox, for any number of senders and pool threads   *)
(* and any capacity, batch limit and restart limit, and about Ask, for any *)
(* set of asks and any number of replies.                                  *)
(***************************************************************************)
EXTENDS ActorMailbox, Ask, FiniteSetTheorems, SequenceTheorems, TLAPS

-----------------------------------------------------------------------------
(* The mailbox operations, as the actor's proofs use them.                  *)

\* A successful CAS in emplace() adds one ticket.
LEMMA ClaimFacts ==
    ASSUME tickets \in Seq(Ticket), NEW m \in Msgs, Claim(m)
    PROVE  tickets' \in Seq(Ticket) /\ Len(tickets') = Len(tickets) + 1
  BY DEF Claim, Ticket

\* Publishing a slot changes neither the number of tickets nor their messages.
LEMMA PublishFacts ==
    ASSUME tickets \in Seq(Ticket), NEW m \in Msgs, Publish(m)
    PROVE  tickets' \in Seq(Ticket) /\ Len(tickets') = Len(tickets)
  <1>1. PICK i \in DOMAIN tickets :
          tickets' = [tickets EXCEPT ![i] = [msg |-> tickets[i].msg,
                                             ready |-> TRUE]]
    BY DEF Publish, PublishAt
  <1> DEFINE t == [msg |-> tickets[i].msg, ready |-> TRUE]
  <1>2. i \in 1..Len(tickets) /\ tickets[i] \in Ticket
    OBVIOUS
  <1>3. t \in Ticket
    BY <1>2 DEF Ticket
  <1>4. tickets' = [tickets EXCEPT ![i] = t]
    BY <1>1
  <1> HIDE DEF t
  <1> QED
    BY <1>2, <1>3, <1>4, ExceptSeq

\* A successful try_pop() removes one ticket.
LEMMA PopFacts ==
    ASSUME tickets \in Seq(Ticket), Pop
    PROVE  /\ Len(tickets) > 0
           /\ tickets' \in Seq(Ticket) /\ Len(tickets') = Len(tickets) - 1
  BY DEF Pop, HeadReady

-----------------------------------------------------------------------------
(* The inductive invariant holds initially and is preserved by every step.  *)

\* A freshly constructed actor satisfies the invariant.
LEMMA InitIInv == Init => IInv
  <1> SUFFICES ASSUME Init PROVE IInv
    OBVIOUS
  <1>1. InFlight = {} /\ Cardinality(InFlight) = 0
    BY FS_EmptySet DEF Init, InFlight
  <1>0. tickets \in Seq(Ticket) /\ 0 \in 0..MaxCalls
    BY ActorAssumption DEF Init, QueueInit
  <1>2. TypeOK /\ CallInv
    BY <1>0 DEF Init, TypeOK, CallInv, SenderPC, WorkerPC
  <1>3. TokenInv /\ LimitInv /\ WakeInv
    BY DEF Init, TokenInv, LimitInv, WakeInv, Rechecking, Holds, Draining
  <1>4. PendingAccounting
    BY <1>1 DEF Init, QueueInit, PendingAccounting
  <1> QED
    BY <1>2, <1>3, <1>4 DEF IInv

\* The message of a call that has been made is one of Msgs.
LEMMA MsgOfType ==
    ASSUME TypeOK, NEW s \in Senders, calls[s] > 0
    PROVE  MsgOf(s) \in Msgs
  BY ActorAssumption DEF MsgOf, TypeOK

\* Types, and that a sender past its entry check has made a call.
LEMMA TypeStep == IInv /\ [Next]_vars => TypeOK' /\ CallInv'
  <1> SUFFICES ASSUME IInv, [Next]_vars PROVE TypeOK' /\ CallInv'
    OBVIOUS
  <1>1. ASSUME NEW s \in Senders, Send(s) PROVE TypeOK' /\ CallInv'
    BY <1>1, ActorAssumption DEF Send, SenderGoto, actorVars, senderVars,
       workerVars, IInv, TypeOK, CallInv, SenderPC, WorkerPC
  <1>2. ASSUME NEW s \in Senders, PushClaim(s) PROVE TypeOK' /\ CallInv'
    <2>1. calls[s] > 0 /\ MsgOf(s) \in Msgs
      BY <1>2, MsgOfType DEF PushClaim, IInv, CallInv
    <2>2. tickets' \in Seq(Ticket)
      BY <1>2, <2>1, ClaimFacts DEF PushClaim, IInv, TypeOK
    <2> QED
      BY <1>2, <2>2 DEF PushClaim, SenderGoto, actorVars, workerVars,
         IInv, TypeOK, CallInv, SenderPC
  <1>3. ASSUME NEW s \in Senders, TryPushFull(s) PROVE TypeOK' /\ CallInv'
    BY <1>3 DEF TryPushFull, SenderGoto, actorVars, senderVars, workerVars,
       IInv, TypeOK, CallInv, SenderPC, WorkerPC
  <1>4. ASSUME NEW s \in Senders, PushPublish(s) PROVE TypeOK' /\ CallInv'
    <2>1. calls[s] > 0 /\ MsgOf(s) \in Msgs
      BY <1>4, MsgOfType DEF PushPublish, IInv, CallInv
    <2>2. tickets' \in Seq(Ticket)
      BY <1>4, <2>1, PublishFacts DEF PushPublish, IInv, TypeOK
    <2> QED
      BY <1>4, <2>2 DEF PushPublish, SenderGoto, actorVars, workerVars,
         IInv, TypeOK, CallInv, SenderPC
  <1>5. ASSUME NEW s \in Senders, CountPending(s) PROVE TypeOK' /\ CallInv'
    BY <1>5 DEF CountPending, SenderGoto, actorVars, senderVars, workerVars,
       IInv, TypeOK, CallInv, SenderPC, WorkerPC
  <1>6. ASSUME NEW s \in Senders, SenderActivate(s) PROVE TypeOK' /\ CallInv'
    BY <1>6 DEF SenderActivate, SenderGoto, actorVars, senderVars, workerVars,
       IInv, TypeOK, CallInv, SenderPC, WorkerPC
  <1>7. ASSUME NEW s \in Senders, SenderCas(s) PROVE TypeOK' /\ CallInv'
    BY <1>7 DEF SenderCas, SenderGoto, WinActivation, actorVars, senderVars,
       workerVars, IInv, TypeOK, CallInv, SenderPC, WorkerPC
  <1>8. ASSUME NEW w \in Workers, Start(w) PROVE TypeOK' /\ CallInv'
    BY <1>8 DEF Start, WorkerGoto, actorVars, senderVars, workerVars, IInv,
       TypeOK, CallInv, SenderPC, WorkerPC
  <1>9. ASSUME NEW w \in Workers, LoadLimit(w) PROVE TypeOK' /\ CallInv'
    BY <1>9, ActorAssumption DEF LoadLimit, WorkerGoto, actorVars, senderVars,
       workerVars, IInv, TypeOK, CallInv, SenderPC, WorkerPC
  <1>10. ASSUME NEW w \in Workers, DrainOne(w) PROVE TypeOK' /\ CallInv'
    <2>1. tickets' \in Seq(Ticket)
      BY <1>10, PopFacts DEF DrainOne, IInv, TypeOK
    <2> QED
      BY <1>10, <2>1 DEF DrainOne, WorkerGoto, actorVars, senderVars,
         IInv, TypeOK, CallInv, WorkerPC
  <1>11. ASSUME NEW w \in Workers, DrainEnd(w) PROVE TypeOK' /\ CallInv'
    BY <1>11 DEF DrainEnd, WorkerGoto, actorVars, senderVars, workerVars,
       IInv, TypeOK, CallInv, SenderPC, WorkerPC
  <1>12. ASSUME NEW w \in Workers, HandlerReturns(w) PROVE TypeOK' /\ CallInv'
    BY <1>12 DEF HandlerReturns, WorkerGoto, actorVars, senderVars,
       workerVars, IInv, TypeOK, CallInv, SenderPC, WorkerPC
  <1>13. ASSUME NEW w \in Workers, HandlerThrows(w) PROVE TypeOK' /\ CallInv'
    BY <1>13 DEF HandlerThrows, WorkerGoto, actorVars, senderVars, workerVars,
       IInv, TypeOK, CallInv, SenderPC, WorkerPC
  <1>14. ASSUME NEW w \in Workers, SubPending(w) PROVE TypeOK' /\ CallInv'
    BY <1>14 DEF SubPending, WorkerGoto, senderVars, IInv, TypeOK, CallInv,
       WorkerPC, LimitInv
  <1>15. ASSUME NEW w \in Workers, Release(w) PROVE TypeOK' /\ CallInv'
    BY <1>15 DEF Release, WorkerGoto, actorVars, senderVars, workerVars, IInv,
       TypeOK, CallInv, SenderPC, WorkerPC
  <1>16. ASSUME NEW w \in Workers, Flush(w) PROVE TypeOK' /\ CallInv'
    BY <1>16 DEF Flush, actorVars, senderVars, workerVars, IInv, TypeOK,
       CallInv, SenderPC, WorkerPC
  <1>17. ASSUME NEW w \in Workers, CheckDown(w) PROVE TypeOK' /\ CallInv'
    BY <1>17 DEF CheckDown, WorkerGoto, actorVars, senderVars, workerVars,
       IInv, TypeOK, CallInv, SenderPC, WorkerPC
  <1>18. ASSUME NEW w \in Workers, CheckPending(w) PROVE TypeOK' /\ CallInv'
    BY <1>18 DEF CheckPending, WorkerGoto, actorVars, senderVars, workerVars,
       IInv, TypeOK, CallInv, SenderPC, WorkerPC
  <1>19. ASSUME NEW w \in Workers, WorkerActivate(w) PROVE TypeOK' /\ CallInv'
    BY <1>19 DEF WorkerActivate, WorkerGoto, actorVars, senderVars,
       workerVars, IInv, TypeOK, CallInv, SenderPC, WorkerPC
  <1>20. ASSUME NEW w \in Workers, WorkerCas(w) PROVE TypeOK' /\ CallInv'
    BY <1>20 DEF WorkerCas, WorkerGoto, WinActivation, actorVars, senderVars,
       workerVars, IInv, TypeOK, CallInv, SenderPC, WorkerPC
  <1>21. CASE SetShuttingDown
    BY <1>21 DEF SetShuttingDown, actorVars, senderVars, workerVars, IInv,
       TypeOK, CallInv, SenderPC, WorkerPC
  <1>22. CASE DrainPending
    BY <1>22 DEF DrainPending, actorVars, senderVars, workerVars, IInv,
       TypeOK, CallInv, SenderPC, WorkerPC
  <1>23. CASE UNCHANGED vars
    BY <1>23 DEF vars, actorVars, senderVars, workerVars, IInv, TypeOK,
       CallInv, SenderPC, WorkerPC
  <1>24. QED
    BY <1>1, <1>2, <1>3, <1>4, <1>5, <1>6, <1>7, <1>8, <1>9, <1>10, <1>11,
       <1>12, <1>13, <1>14, <1>15, <1>16, <1>17, <1>18, <1>19, <1>20, <1>21,
       <1>22, <1>23 DEF Next, SenderStep, WorkerStep

\* m_activated stays the one token of the actor.
LEMMA TokenStep == IInv /\ [Next]_vars => TokenInv'
  <1> SUFFICES ASSUME IInv, [Next]_vars PROVE TokenInv'
    OBVIOUS
  <1>1. ASSUME NEW s \in Senders, Send(s) PROVE TokenInv'
    BY <1>1 DEF Send, SenderGoto, actorVars, senderVars, workerVars, IInv,
       TypeOK, TokenInv, Holds, Draining, SenderPC, WorkerPC
  <1>2. ASSUME NEW s \in Senders, PushClaim(s) PROVE TokenInv'
    BY <1>2 DEF PushClaim, SenderGoto, actorVars, senderVars, workerVars,
       IInv, TypeOK, TokenInv, Holds, Draining, SenderPC, WorkerPC
  <1>3. ASSUME NEW s \in Senders, TryPushFull(s) PROVE TokenInv'
    BY <1>3 DEF TryPushFull, SenderGoto, actorVars, senderVars, workerVars,
       IInv, TypeOK, TokenInv, Holds, Draining, SenderPC, WorkerPC
  <1>4. ASSUME NEW s \in Senders, PushPublish(s) PROVE TokenInv'
    BY <1>4 DEF PushPublish, SenderGoto, actorVars, senderVars, workerVars,
       IInv, TypeOK, TokenInv, Holds, Draining, SenderPC, WorkerPC
  <1>5. ASSUME NEW s \in Senders, CountPending(s) PROVE TokenInv'
    BY <1>5 DEF CountPending, SenderGoto, actorVars, senderVars, workerVars,
       IInv, TypeOK, TokenInv, Holds, Draining, SenderPC, WorkerPC
  <1>6. ASSUME NEW s \in Senders, SenderActivate(s) PROVE TokenInv'
    BY <1>6 DEF SenderActivate, SenderGoto, actorVars, senderVars, workerVars,
       IInv, TypeOK, TokenInv, Holds, Draining, SenderPC, WorkerPC
  <1>7. ASSUME NEW s \in Senders, SenderCas(s) PROVE TokenInv'
    BY <1>7 DEF SenderCas, SenderGoto, WinActivation, actorVars, senderVars,
       workerVars, IInv, TypeOK, TokenInv, Holds, Draining, SenderPC, WorkerPC
  <1>8. ASSUME NEW w \in Workers, Start(w) PROVE TokenInv'
    BY <1>8 DEF Start, WorkerGoto, actorVars, senderVars, workerVars, IInv,
       TypeOK, TokenInv, Holds, Draining, SenderPC, WorkerPC
  <1>9. ASSUME NEW w \in Workers, LoadLimit(w) PROVE TokenInv'
    BY <1>9 DEF LoadLimit, WorkerGoto, actorVars, senderVars, workerVars,
       IInv, TypeOK, TokenInv, Holds, Draining, SenderPC, WorkerPC
  <1>10. ASSUME NEW w \in Workers, DrainOne(w) PROVE TokenInv'
    BY <1>10 DEF DrainOne, WorkerGoto, actorVars, senderVars, workerVars,
       IInv, TypeOK, TokenInv, Holds, Draining, SenderPC, WorkerPC
  <1>11. ASSUME NEW w \in Workers, DrainEnd(w) PROVE TokenInv'
    BY <1>11 DEF DrainEnd, WorkerGoto, actorVars, senderVars, workerVars,
       IInv, TypeOK, TokenInv, Holds, Draining, SenderPC, WorkerPC
  <1>12. ASSUME NEW w \in Workers, HandlerReturns(w) PROVE TokenInv'
    BY <1>12 DEF HandlerReturns, WorkerGoto, actorVars, senderVars,
       workerVars, IInv, TypeOK, TokenInv, Holds, Draining, SenderPC, WorkerPC
  <1>13. ASSUME NEW w \in Workers, HandlerThrows(w) PROVE TokenInv'
    BY <1>13 DEF HandlerThrows, WorkerGoto, actorVars, senderVars, workerVars,
       IInv, TypeOK, TokenInv, Holds, Draining, SenderPC, WorkerPC
  <1>14. ASSUME NEW w \in Workers, SubPending(w) PROVE TokenInv'
    BY <1>14 DEF SubPending, WorkerGoto, actorVars, senderVars, workerVars,
       IInv, TypeOK, TokenInv, Holds, Draining, SenderPC, WorkerPC
  <1>15. ASSUME NEW w \in Workers, Release(w) PROVE TokenInv'
    BY <1>15 DEF Release, WorkerGoto, actorVars, senderVars, workerVars, IInv,
       TypeOK, TokenInv, Holds, Draining, SenderPC, WorkerPC
  <1>16. ASSUME NEW w \in Workers, Flush(w) PROVE TokenInv'
    BY <1>16 DEF Flush, actorVars, senderVars, workerVars, IInv, TypeOK,
       TokenInv, Holds, Draining, SenderPC, WorkerPC
  <1>17. ASSUME NEW w \in Workers, CheckDown(w) PROVE TokenInv'
    BY <1>17 DEF CheckDown, WorkerGoto, actorVars, senderVars, workerVars,
       IInv, TypeOK, TokenInv, Holds, Draining, SenderPC, WorkerPC
  <1>18. ASSUME NEW w \in Workers, CheckPending(w) PROVE TokenInv'
    BY <1>18 DEF CheckPending, WorkerGoto, actorVars, senderVars, workerVars,
       IInv, TypeOK, TokenInv, Holds, Draining, SenderPC, WorkerPC
  <1>19. ASSUME NEW w \in Workers, WorkerActivate(w) PROVE TokenInv'
    BY <1>19 DEF WorkerActivate, WorkerGoto, actorVars, senderVars,
       workerVars, IInv, TypeOK, TokenInv, Holds, Draining, SenderPC, WorkerPC
  <1>20. ASSUME NEW w \in Workers, WorkerCas(w) PROVE TokenInv'
    BY <1>20 DEF WorkerCas, WorkerGoto, WinActivation, actorVars, senderVars,
       workerVars, IInv, TypeOK, TokenInv, Holds, Draining, SenderPC, WorkerPC
  <1>21. CASE SetShuttingDown
    BY <1>21 DEF SetShuttingDown, actorVars, senderVars, workerVars, IInv,
       TypeOK, TokenInv, Holds, Draining, SenderPC, WorkerPC
  <1>22. CASE DrainPending
    BY <1>22 DEF DrainPending, actorVars, senderVars, workerVars, IInv,
       TypeOK, TokenInv, Holds, Draining, SenderPC, WorkerPC
  <1>23. CASE UNCHANGED vars
    BY <1>23 DEF vars, actorVars, senderVars, workerVars, IInv, TypeOK,
       TokenInv, Holds, Draining, SenderPC, WorkerPC
  <1>24. QED
    BY <1>1, <1>2, <1>3, <1>4, <1>5, <1>6, <1>7, <1>8, <1>9, <1>10, <1>11,
       <1>12, <1>13, <1>14, <1>15, <1>16, <1>17, <1>18, <1>19, <1>20, <1>21,
       <1>22, <1>23 DEF Next, SenderStep, WorkerStep

\* A batch never exceeds what m_pending announced.
LEMMA LimitStep == IInv /\ [Next]_vars => LimitInv'
  <1> SUFFICES ASSUME IInv, [Next]_vars PROVE LimitInv'
    OBVIOUS
  <1>1. ASSUME NEW s \in Senders, Send(s) PROVE LimitInv'
    BY <1>1 DEF Send, SenderGoto, actorVars, senderVars, workerVars, IInv,
       TypeOK, TokenInv, Holds, Draining, LimitInv, SenderPC, WorkerPC
  <1>2. ASSUME NEW s \in Senders, PushClaim(s) PROVE LimitInv'
    BY <1>2 DEF PushClaim, SenderGoto, actorVars, senderVars, workerVars,
       IInv, TypeOK, TokenInv, Holds, Draining, LimitInv, SenderPC, WorkerPC
  <1>3. ASSUME NEW s \in Senders, TryPushFull(s) PROVE LimitInv'
    BY <1>3 DEF TryPushFull, SenderGoto, actorVars, senderVars, workerVars,
       IInv, TypeOK, TokenInv, Holds, Draining, LimitInv, SenderPC, WorkerPC
  <1>4. ASSUME NEW s \in Senders, PushPublish(s) PROVE LimitInv'
    BY <1>4 DEF PushPublish, SenderGoto, actorVars, senderVars, workerVars,
       IInv, TypeOK, TokenInv, Holds, Draining, LimitInv, SenderPC, WorkerPC
  <1>5. ASSUME NEW s \in Senders, CountPending(s) PROVE LimitInv'
    BY <1>5 DEF CountPending, SenderGoto, actorVars, senderVars, workerVars,
       IInv, TypeOK, TokenInv, Holds, Draining, LimitInv, SenderPC, WorkerPC
  <1>6. ASSUME NEW s \in Senders, SenderActivate(s) PROVE LimitInv'
    BY <1>6 DEF SenderActivate, SenderGoto, actorVars, senderVars, workerVars,
       IInv, TypeOK, TokenInv, Holds, Draining, LimitInv, SenderPC, WorkerPC
  <1>7. ASSUME NEW s \in Senders, SenderCas(s) PROVE LimitInv'
    BY <1>7 DEF SenderCas, SenderGoto, WinActivation, actorVars, senderVars,
       workerVars, IInv, TypeOK, TokenInv, Holds, Draining, LimitInv,
       SenderPC, WorkerPC
  <1>8. ASSUME NEW w \in Workers, Start(w) PROVE LimitInv'
    BY <1>8 DEF Start, WorkerGoto, actorVars, senderVars, workerVars, IInv,
       TypeOK, TokenInv, Holds, Draining, LimitInv, SenderPC, WorkerPC
  <1>9. ASSUME NEW w \in Workers, LoadLimit(w) PROVE LimitInv'
    BY <1>9, ActorAssumption DEF LoadLimit, WorkerGoto, actorVars, senderVars,
       workerVars, IInv, TypeOK, TokenInv, Holds, Draining, LimitInv,
       SenderPC, WorkerPC
  <1>10. ASSUME NEW w \in Workers, DrainOne(w) PROVE LimitInv'
    BY <1>10 DEF DrainOne, WorkerGoto, actorVars, senderVars, workerVars,
       IInv, TypeOK, TokenInv, Holds, Draining, LimitInv, SenderPC, WorkerPC
  <1>11. ASSUME NEW w \in Workers, DrainEnd(w) PROVE LimitInv'
    BY <1>11 DEF DrainEnd, WorkerGoto, actorVars, senderVars, workerVars,
       IInv, TypeOK, TokenInv, Holds, Draining, LimitInv, SenderPC, WorkerPC
  <1>12. ASSUME NEW w \in Workers, HandlerReturns(w) PROVE LimitInv'
    BY <1>12 DEF HandlerReturns, WorkerGoto, actorVars, senderVars,
       workerVars, IInv, TypeOK, TokenInv, Holds, Draining, LimitInv,
       SenderPC, WorkerPC
  <1>13. ASSUME NEW w \in Workers, HandlerThrows(w) PROVE LimitInv'
    BY <1>13 DEF HandlerThrows, WorkerGoto, actorVars, senderVars, workerVars,
       IInv, TypeOK, TokenInv, Holds, Draining, LimitInv, SenderPC, WorkerPC
  <1>14. ASSUME NEW w \in Workers, SubPending(w) PROVE LimitInv'
    BY <1>14 DEF SubPending, WorkerGoto, actorVars, senderVars, workerVars,
       IInv, TypeOK, TokenInv, Holds, Draining, LimitInv, SenderPC, WorkerPC
  <1>15. ASSUME NEW w \in Workers, Release(w) PROVE LimitInv'
    BY <1>15 DEF Release, WorkerGoto, actorVars, senderVars, workerVars, IInv,
       TypeOK, TokenInv, Holds, Draining, LimitInv, SenderPC, WorkerPC
  <1>16. ASSUME NEW w \in Workers, Flush(w) PROVE LimitInv'
    BY <1>16 DEF Flush, actorVars, senderVars, workerVars, IInv, TypeOK,
       TokenInv, Holds, Draining, LimitInv, SenderPC, WorkerPC
  <1>17. ASSUME NEW w \in Workers, CheckDown(w) PROVE LimitInv'
    BY <1>17 DEF CheckDown, WorkerGoto, actorVars, senderVars, workerVars,
       IInv, TypeOK, TokenInv, Holds, Draining, LimitInv, SenderPC, WorkerPC
  <1>18. ASSUME NEW w \in Workers, CheckPending(w) PROVE LimitInv'
    BY <1>18 DEF CheckPending, WorkerGoto, actorVars, senderVars, workerVars,
       IInv, TypeOK, TokenInv, Holds, Draining, LimitInv, SenderPC, WorkerPC
  <1>19. ASSUME NEW w \in Workers, WorkerActivate(w) PROVE LimitInv'
    BY <1>19 DEF WorkerActivate, WorkerGoto, actorVars, senderVars,
       workerVars, IInv, TypeOK, TokenInv, Holds, Draining, LimitInv,
       SenderPC, WorkerPC
  <1>20. ASSUME NEW w \in Workers, WorkerCas(w) PROVE LimitInv'
    BY <1>20 DEF WorkerCas, WorkerGoto, WinActivation, actorVars, senderVars,
       workerVars, IInv, TypeOK, TokenInv, Holds, Draining, LimitInv,
       SenderPC, WorkerPC
  <1>21. CASE SetShuttingDown
    BY <1>21 DEF SetShuttingDown, actorVars, senderVars, workerVars, IInv,
       TypeOK, TokenInv, Holds, Draining, LimitInv, SenderPC, WorkerPC
  <1>22. CASE DrainPending
    BY <1>22 DEF DrainPending, actorVars, senderVars, workerVars, IInv,
       TypeOK, TokenInv, Holds, Draining, LimitInv, SenderPC, WorkerPC
  <1>23. CASE UNCHANGED vars
    BY <1>23 DEF vars, actorVars, senderVars, workerVars, IInv, TypeOK,
       TokenInv, Holds, Draining, LimitInv, SenderPC, WorkerPC
  <1>24. QED
    BY <1>1, <1>2, <1>3, <1>4, <1>5, <1>6, <1>7, <1>8, <1>9, <1>10, <1>11,
       <1>12, <1>13, <1>14, <1>15, <1>16, <1>17, <1>18, <1>19, <1>20, <1>21,
       <1>22, <1>23 DEF Next, SenderStep, WorkerStep

\* Whoever could be the last to look does look.
LEMMA WakeStep == IInv /\ [Next]_vars => WakeInv'
  <1> SUFFICES ASSUME IInv, [Next]_vars PROVE WakeInv'
    OBVIOUS
  <1>1. ASSUME NEW s \in Senders, Send(s) PROVE WakeInv'
    BY <1>1 DEF Send, SenderGoto, actorVars, senderVars, workerVars, IInv,
       TypeOK, TokenInv, Holds, Draining, WakeInv, Rechecking, SenderPC,
       WorkerPC
  <1>2. ASSUME NEW s \in Senders, PushClaim(s) PROVE WakeInv'
    BY <1>2 DEF PushClaim, SenderGoto, actorVars, senderVars, workerVars,
       IInv, TypeOK, TokenInv, Holds, Draining, WakeInv, Rechecking, SenderPC,
       WorkerPC
  <1>3. ASSUME NEW s \in Senders, TryPushFull(s) PROVE WakeInv'
    BY <1>3 DEF TryPushFull, SenderGoto, actorVars, senderVars, workerVars,
       IInv, TypeOK, TokenInv, Holds, Draining, WakeInv, Rechecking, SenderPC,
       WorkerPC
  <1>4. ASSUME NEW s \in Senders, PushPublish(s) PROVE WakeInv'
    BY <1>4 DEF PushPublish, SenderGoto, actorVars, senderVars, workerVars,
       IInv, TypeOK, TokenInv, Holds, Draining, WakeInv, Rechecking, SenderPC,
       WorkerPC
  <1>5. ASSUME NEW s \in Senders, CountPending(s) PROVE WakeInv'
    BY <1>5 DEF CountPending, SenderGoto, actorVars, senderVars, workerVars,
       IInv, TypeOK, TokenInv, Holds, Draining, WakeInv, Rechecking, SenderPC,
       WorkerPC
  <1>6. ASSUME NEW s \in Senders, SenderActivate(s) PROVE WakeInv'
    BY <1>6 DEF SenderActivate, SenderGoto, actorVars, senderVars, workerVars,
       IInv, TypeOK, TokenInv, Holds, Draining, WakeInv, Rechecking, SenderPC,
       WorkerPC
  <1>7. ASSUME NEW s \in Senders, SenderCas(s) PROVE WakeInv'
    BY <1>7 DEF SenderCas, SenderGoto, WinActivation, actorVars, senderVars,
       workerVars, IInv, TypeOK, TokenInv, Holds, Draining, WakeInv,
       Rechecking, SenderPC, WorkerPC
  <1>8. ASSUME NEW w \in Workers, Start(w) PROVE WakeInv'
    BY <1>8 DEF Start, WorkerGoto, actorVars, senderVars, workerVars, IInv,
       TypeOK, TokenInv, Holds, Draining, WakeInv, Rechecking, SenderPC,
       WorkerPC
  <1>9. ASSUME NEW w \in Workers, LoadLimit(w) PROVE WakeInv'
    BY <1>9 DEF LoadLimit, WorkerGoto, actorVars, senderVars, workerVars,
       IInv, TypeOK, TokenInv, Holds, Draining, WakeInv, Rechecking, SenderPC,
       WorkerPC
  <1>10. ASSUME NEW w \in Workers, DrainOne(w) PROVE WakeInv'
    BY <1>10 DEF DrainOne, WorkerGoto, actorVars, senderVars, workerVars,
       IInv, TypeOK, TokenInv, Holds, Draining, WakeInv, Rechecking, SenderPC,
       WorkerPC
  <1>11. ASSUME NEW w \in Workers, DrainEnd(w) PROVE WakeInv'
    BY <1>11 DEF DrainEnd, WorkerGoto, actorVars, senderVars, workerVars,
       IInv, TypeOK, TokenInv, Holds, Draining, WakeInv, Rechecking, SenderPC,
       WorkerPC
  <1>12. ASSUME NEW w \in Workers, HandlerReturns(w) PROVE WakeInv'
    BY <1>12 DEF HandlerReturns, WorkerGoto, actorVars, senderVars,
       workerVars, IInv, TypeOK, TokenInv, Holds, Draining, WakeInv,
       Rechecking, SenderPC, WorkerPC
  <1>13. ASSUME NEW w \in Workers, HandlerThrows(w) PROVE WakeInv'
    BY <1>13 DEF HandlerThrows, WorkerGoto, actorVars, senderVars, workerVars,
       IInv, TypeOK, TokenInv, Holds, Draining, WakeInv, Rechecking, SenderPC,
       WorkerPC
  <1>14. ASSUME NEW w \in Workers, SubPending(w) PROVE WakeInv'
    BY <1>14 DEF SubPending, WorkerGoto, actorVars, senderVars, workerVars,
       IInv, TypeOK, TokenInv, Holds, Draining, WakeInv, Rechecking, SenderPC,
       WorkerPC
  <1>15. ASSUME NEW w \in Workers, Release(w) PROVE WakeInv'
    BY <1>15 DEF Release, WorkerGoto, actorVars, senderVars, workerVars, IInv,
       TypeOK, TokenInv, Holds, Draining, WakeInv, Rechecking, SenderPC,
       WorkerPC
  <1>16. ASSUME NEW w \in Workers, Flush(w) PROVE WakeInv'
    BY <1>16 DEF Flush, actorVars, senderVars, workerVars, IInv, TypeOK,
       TokenInv, Holds, Draining, WakeInv, Rechecking, SenderPC, WorkerPC
  <1>17. ASSUME NEW w \in Workers, CheckDown(w) PROVE WakeInv'
    BY <1>17 DEF CheckDown, WorkerGoto, actorVars, senderVars, workerVars,
       IInv, TypeOK, TokenInv, Holds, Draining, WakeInv, Rechecking, SenderPC,
       WorkerPC
  <1>18. ASSUME NEW w \in Workers, CheckPending(w) PROVE WakeInv'
    BY <1>18 DEF CheckPending, WorkerGoto, actorVars, senderVars, workerVars,
       IInv, TypeOK, TokenInv, Holds, Draining, WakeInv, Rechecking, SenderPC,
       WorkerPC
  <1>19. ASSUME NEW w \in Workers, WorkerActivate(w) PROVE WakeInv'
    BY <1>19 DEF WorkerActivate, WorkerGoto, actorVars, senderVars,
       workerVars, IInv, TypeOK, TokenInv, Holds, Draining, WakeInv,
       Rechecking, SenderPC, WorkerPC
  <1>20. ASSUME NEW w \in Workers, WorkerCas(w) PROVE WakeInv'
    BY <1>20 DEF WorkerCas, WorkerGoto, WinActivation, actorVars, senderVars,
       workerVars, IInv, TypeOK, TokenInv, Holds, Draining, WakeInv,
       Rechecking, SenderPC, WorkerPC
  <1>21. CASE SetShuttingDown
    BY <1>21 DEF SetShuttingDown, actorVars, senderVars, workerVars, IInv,
       TypeOK, TokenInv, Holds, Draining, WakeInv, Rechecking, SenderPC,
       WorkerPC
  <1>22. CASE DrainPending
    BY <1>22 DEF DrainPending, actorVars, senderVars, workerVars, IInv,
       TypeOK, TokenInv, Holds, Draining, WakeInv, Rechecking, SenderPC,
       WorkerPC
  <1>23. CASE UNCHANGED vars
    BY <1>23 DEF vars, actorVars, senderVars, workerVars, IInv, TypeOK,
       TokenInv, Holds, Draining, WakeInv, Rechecking, SenderPC, WorkerPC
  <1>24. QED
    BY <1>1, <1>2, <1>3, <1>4, <1>5, <1>6, <1>7, <1>8, <1>9, <1>10, <1>11,
       <1>12, <1>13, <1>14, <1>15, <1>16, <1>17, <1>18, <1>19, <1>20, <1>21,
       <1>22, <1>23 DEF Next, SenderStep, WorkerStep

\* InFlight is finite and follows the senders.
LEMMA InFlightFinite ==
    IsFiniteSet(InFlight) /\ Cardinality(InFlight) \in Nat
  BY ActorAssumption, FS_Subset, FS_CardinalityType DEF InFlight

\* m_pending keeps counting the mailbox.
LEMMA PendingStep == IInv /\ [Next]_vars => PendingAccounting'
  <1> SUFFICES ASSUME IInv, [Next]_vars PROVE PendingAccounting'
    OBVIOUS
  <1>1. ASSUME NEW s \in Senders, Send(s) PROVE PendingAccounting'
    <2>1. InFlight' = InFlight
      BY <1>1 DEF Send, SenderGoto, actorVars, senderVars, workerVars, IInv,
         TypeOK,
         InFlight
    <2> QED
      BY <1>1, <2>1, InFlightFinite DEF Send, SenderGoto, actorVars,
         senderVars,
         workerVars, IInv, TypeOK, TokenInv, Holds, Draining, LimitInv,
         PendingAccounting, Popped
  <1>2. ASSUME NEW s \in Senders, PushClaim(s) PROVE PendingAccounting'
    <2>1. s \notin InFlight /\ InFlight' = InFlight \cup {s}
      BY <1>2 DEF PushClaim, SenderGoto, IInv, TypeOK, InFlight
    <2>2. Cardinality(InFlight') = Cardinality(InFlight) + 1
      BY <2>1, InFlightFinite, FS_AddElement
    <2>3. MsgOf(s) \in Msgs
      BY <1>2, MsgOfType DEF PushClaim, IInv, CallInv
    <2>4. Len(tickets) \in Nat /\ Len(tickets') = Len(tickets) + 1
      BY <1>2, <2>3, ClaimFacts DEF PushClaim, IInv, TypeOK
    <2>5. UNCHANGED <<pending, wpc, executed>>
      BY <1>2 DEF PushClaim, actorVars, workerVars
    <2>6. pending \in Nat /\ executed \in [Workers -> Nat]
      BY DEF IInv, TypeOK
    <2>7. ASSUME NEW w \in Workers, wpc[w] \in {"drain", "run", "sub"}
          PROVE  /\ Popped(w) <= pending
                 /\ Len(tickets') + Popped(w)
                      = pending + Cardinality(InFlight')
      <3>1. Popped(w) \in Nat
        BY <2>6 DEF Popped
      <3> QED
        BY <2>2, <2>4, <2>6, <2>7, <3>1, InFlightFinite
           DEF IInv, PendingAccounting
    <2> QED
      BY <2>2, <2>4, <2>5, <2>6, <2>7, InFlightFinite
         DEF IInv, PendingAccounting, Popped
  <1>3. ASSUME NEW s \in Senders, TryPushFull(s) PROVE PendingAccounting'
    <2>1. InFlight' = InFlight
      BY <1>3 DEF TryPushFull, SenderGoto, actorVars, senderVars, workerVars,
         IInv, TypeOK,
         InFlight
    <2> QED
      BY <1>3, <2>1, InFlightFinite DEF TryPushFull, SenderGoto, actorVars,
         senderVars,
         workerVars, IInv, TypeOK, TokenInv, Holds, Draining, LimitInv,
         PendingAccounting, Popped
  <1>4. ASSUME NEW s \in Senders, PushPublish(s) PROVE PendingAccounting'
    <2>1. InFlight' = InFlight
      BY <1>4 DEF PushPublish, SenderGoto, IInv, TypeOK, InFlight
    <2>2. MsgOf(s) \in Msgs
      BY <1>4, MsgOfType DEF PushPublish, IInv, CallInv
    <2>3. Len(tickets') = Len(tickets)
      BY <1>4, <2>2, PublishFacts DEF PushPublish, IInv, TypeOK
    <2> QED
      BY <1>4, <2>1, <2>3, InFlightFinite DEF PushPublish, actorVars,
         workerVars, IInv, TypeOK, PendingAccounting, Popped
  <1>5. ASSUME NEW s \in Senders, CountPending(s) PROVE PendingAccounting'
    <2>1. s \in InFlight /\ InFlight' = InFlight \ {s}
      BY <1>5 DEF CountPending, SenderGoto, IInv, TypeOK, InFlight
    <2>2. Cardinality(InFlight') = Cardinality(InFlight) - 1
      BY <2>1, InFlightFinite, FS_RemoveElement
    <2> QED
      BY <1>5, <2>2, InFlightFinite DEF CountPending, workerVars, IInv, TypeOK,
         PendingAccounting, Popped
  <1>6. ASSUME NEW s \in Senders, SenderActivate(s) PROVE PendingAccounting'
    <2>1. InFlight' = InFlight
      BY <1>6 DEF SenderActivate, SenderGoto, actorVars, senderVars,
         workerVars, IInv, TypeOK,
         InFlight
    <2> QED
      BY <1>6, <2>1, InFlightFinite DEF SenderActivate, SenderGoto, actorVars,
         senderVars,
         workerVars, IInv, TypeOK, TokenInv, Holds, Draining, LimitInv,
         PendingAccounting, Popped
  <1>7. ASSUME NEW s \in Senders, SenderCas(s) PROVE PendingAccounting'
    <2>1. InFlight' = InFlight
      BY <1>7 DEF SenderCas, SenderGoto, WinActivation, actorVars, senderVars,
         workerVars, IInv, TypeOK,
         InFlight
    <2> QED
      BY <1>7, <2>1, InFlightFinite DEF SenderCas, SenderGoto, WinActivation,
         actorVars, senderVars,
         workerVars, IInv, TypeOK, TokenInv, Holds, Draining, LimitInv,
         PendingAccounting, Popped
  <1>8. ASSUME NEW w \in Workers, Start(w) PROVE PendingAccounting'
    <2>1. InFlight' = InFlight
      BY <1>8 DEF Start, WorkerGoto, actorVars, senderVars, workerVars, IInv,
         TypeOK,
         InFlight
    <2> QED
      BY <1>8, <2>1, InFlightFinite DEF Start, WorkerGoto, actorVars,
         senderVars,
         workerVars, IInv, TypeOK, TokenInv, Holds, Draining, LimitInv,
         PendingAccounting, Popped
  <1>9. ASSUME NEW w \in Workers, LoadLimit(w) PROVE PendingAccounting'
    <2>1. InFlight' = InFlight
      BY <1>9 DEF LoadLimit, WorkerGoto, actorVars, senderVars, workerVars,
         IInv, TypeOK,
         InFlight
    <2> QED
      BY <1>9, <2>1, InFlightFinite DEF LoadLimit, WorkerGoto, actorVars,
         senderVars,
         workerVars, IInv, TypeOK, TokenInv, Holds, Draining, LimitInv,
         PendingAccounting, Popped
  <1>10. ASSUME NEW w \in Workers, DrainOne(w) PROVE PendingAccounting'
    <2>1. InFlight' = InFlight
      BY <1>10 DEF DrainOne, senderVars, InFlight
    <2>2. /\ Len(tickets) \in Nat /\ Len(tickets) > 0
          /\ Len(tickets') = Len(tickets) - 1
      BY <1>10, PopFacts DEF DrainOne, IInv, TypeOK
    <2>3. /\ wpc[w] = "drain" /\ wpc' = [wpc EXCEPT ![w] = "run"]
          /\ executed[w] < limit[w] /\ UNCHANGED <<pending, executed>>
      BY <1>10 DEF DrainOne, WorkerGoto, actorVars
    <2>4. pending \in Nat /\ executed \in [Workers -> Nat]
          /\ wpc \in [Workers -> WorkerPC] /\ limit \in [Workers -> Nat]
      BY DEF IInv, TypeOK
    <2>5. ASSUME NEW v \in Workers, v # w
          PROVE  wpc'[v] \notin {"drain", "run", "sub"}
      BY <2>3, <2>4, <2>5 DEF IInv, TokenInv, Holds, Draining
    <2>6. /\ executed[w] + 1 <= pending
          /\ Len(tickets) + executed[w] = pending + Cardinality(InFlight)
      BY <2>3, <2>4 DEF IInv, LimitInv, PendingAccounting, Popped
    <2>7. Popped(w)' = executed[w] + 1 /\ wpc'[w] = "run"
      BY <2>3, <2>4 DEF Popped
    <2> QED
      BY <2>1, <2>2, <2>3, <2>4, <2>5, <2>6, <2>7, InFlightFinite
         DEF PendingAccounting
  <1>11. ASSUME NEW w \in Workers, DrainEnd(w) PROVE PendingAccounting'
    <2>1. InFlight' = InFlight
      BY <1>11 DEF DrainEnd, WorkerGoto, actorVars, senderVars, workerVars,
         IInv, TypeOK,
         InFlight
    <2> QED
      BY <1>11, <2>1, InFlightFinite DEF DrainEnd, WorkerGoto, actorVars,
         senderVars,
         workerVars, IInv, TypeOK, TokenInv, Holds, Draining, LimitInv,
         PendingAccounting, Popped
  <1>12. ASSUME NEW w \in Workers, HandlerReturns(w) PROVE PendingAccounting'
    <2>1. InFlight' = InFlight
      BY <1>12 DEF HandlerReturns, WorkerGoto, actorVars, senderVars,
         workerVars, IInv, TypeOK,
         InFlight
    <2> QED
      BY <1>12, <2>1, InFlightFinite DEF HandlerReturns, WorkerGoto,
         actorVars, senderVars,
         workerVars, IInv, TypeOK, TokenInv, Holds, Draining, LimitInv,
         PendingAccounting, Popped
  <1>13. ASSUME NEW w \in Workers, HandlerThrows(w) PROVE PendingAccounting'
    <2>1. InFlight' = InFlight
      BY <1>13 DEF HandlerThrows, WorkerGoto, actorVars, senderVars,
         workerVars, IInv, TypeOK,
         InFlight
    <2> QED
      BY <1>13, <2>1, InFlightFinite DEF HandlerThrows, WorkerGoto, actorVars,
         senderVars,
         workerVars, IInv, TypeOK, TokenInv, Holds, Draining, LimitInv,
         PendingAccounting, Popped
  <1>14. ASSUME NEW w \in Workers, SubPending(w) PROVE PendingAccounting'
    <2>1. InFlight' = InFlight
      BY <1>14 DEF SubPending, WorkerGoto, actorVars, senderVars, workerVars,
         IInv, TypeOK,
         InFlight
    <2> QED
      BY <1>14, <2>1, InFlightFinite DEF SubPending, WorkerGoto, actorVars,
         senderVars,
         workerVars, IInv, TypeOK, TokenInv, Holds, Draining, LimitInv,
         PendingAccounting, Popped
  <1>15. ASSUME NEW w \in Workers, Release(w) PROVE PendingAccounting'
    <2>1. InFlight' = InFlight
      BY <1>15 DEF Release, WorkerGoto, actorVars, senderVars, workerVars,
         IInv, TypeOK,
         InFlight
    <2> QED
      BY <1>15, <2>1, InFlightFinite DEF Release, WorkerGoto, actorVars,
         senderVars,
         workerVars, IInv, TypeOK, TokenInv, Holds, Draining, LimitInv,
         PendingAccounting, Popped
  <1>16. ASSUME NEW w \in Workers, Flush(w) PROVE PendingAccounting'
    <2>1. InFlight' = InFlight
      BY <1>16 DEF Flush, actorVars, senderVars, workerVars, IInv, TypeOK,
         InFlight
    <2> QED
      BY <1>16, <2>1, InFlightFinite DEF Flush, actorVars, senderVars,
         workerVars, IInv, TypeOK, TokenInv, Holds, Draining, LimitInv,
         PendingAccounting, Popped
  <1>17. ASSUME NEW w \in Workers, CheckDown(w) PROVE PendingAccounting'
    <2>1. InFlight' = InFlight
      BY <1>17 DEF CheckDown, WorkerGoto, actorVars, senderVars, workerVars,
         IInv, TypeOK,
         InFlight
    <2> QED
      BY <1>17, <2>1, InFlightFinite DEF CheckDown, WorkerGoto, actorVars,
         senderVars,
         workerVars, IInv, TypeOK, TokenInv, Holds, Draining, LimitInv,
         PendingAccounting, Popped
  <1>18. ASSUME NEW w \in Workers, CheckPending(w) PROVE PendingAccounting'
    <2>1. InFlight' = InFlight
      BY <1>18 DEF CheckPending, WorkerGoto, actorVars, senderVars,
         workerVars, IInv, TypeOK,
         InFlight
    <2> QED
      BY <1>18, <2>1, InFlightFinite DEF CheckPending, WorkerGoto, actorVars,
         senderVars,
         workerVars, IInv, TypeOK, TokenInv, Holds, Draining, LimitInv,
         PendingAccounting, Popped
  <1>19. ASSUME NEW w \in Workers, WorkerActivate(w) PROVE PendingAccounting'
    <2>1. InFlight' = InFlight
      BY <1>19 DEF WorkerActivate, WorkerGoto, actorVars, senderVars,
         workerVars, IInv, TypeOK,
         InFlight
    <2> QED
      BY <1>19, <2>1, InFlightFinite DEF WorkerActivate, WorkerGoto,
         actorVars, senderVars,
         workerVars, IInv, TypeOK, TokenInv, Holds, Draining, LimitInv,
         PendingAccounting, Popped
  <1>20. ASSUME NEW w \in Workers, WorkerCas(w) PROVE PendingAccounting'
    <2>1. InFlight' = InFlight
      BY <1>20 DEF WorkerCas, WorkerGoto, WinActivation, actorVars,
         senderVars, workerVars, IInv, TypeOK,
         InFlight
    <2> QED
      BY <1>20, <2>1, InFlightFinite DEF WorkerCas, WorkerGoto, WinActivation,
         actorVars, senderVars,
         workerVars, IInv, TypeOK, TokenInv, Holds, Draining, LimitInv,
         PendingAccounting, Popped
  <1>21. CASE SetShuttingDown
    <2>1. InFlight' = InFlight
      BY <1>21 DEF SetShuttingDown, actorVars, senderVars, workerVars, IInv,
         TypeOK,
         InFlight
    <2> QED
      BY <1>21, <2>1, InFlightFinite DEF SetShuttingDown, actorVars,
         senderVars,
         workerVars, IInv, TypeOK, TokenInv, Holds, Draining, LimitInv,
         PendingAccounting, Popped
  <1>22. CASE DrainPending
    <2>1. InFlight = {} /\ InFlight' = {}
      BY <1>22 DEF DrainPending, senderVars, InFlight
    <2>2. Cardinality({}) = 0
      BY FS_EmptySet
    <2> QED
      BY <1>22, <2>1, <2>2 DEF DrainPending, workerVars, PendingAccounting
  <1>23. CASE UNCHANGED vars
    BY <1>23 DEF vars, actorVars, senderVars, workerVars, IInv, TypeOK,
       TokenInv, Holds, Draining, LimitInv, PendingAccounting, Popped,
       InFlight
  <1>24. QED
    BY <1>1, <1>2, <1>3, <1>4, <1>5, <1>6, <1>7, <1>8, <1>9, <1>10, <1>11,
       <1>12, <1>13, <1>14, <1>15, <1>16, <1>17, <1>18, <1>19, <1>20, <1>21,
       <1>22, <1>23 DEF Next, SenderStep, WorkerStep

-----------------------------------------------------------------------------
(* The theorems.                                                            *)

\* The inductive invariant: the token, the batch limit, the count of pending
\* mail and the wake-up argument support each other.
THEOREM InvariantHolds == Spec => []IInv
  <1>1. IInv /\ [Next]_vars => IInv'
    BY TypeStep, TokenStep, LimitStep, PendingStep, WakeStep DEF IInv
  <1> QED
    BY InitIInv, <1>1, PTL DEF Spec

\* Types are preserved; in particular m_pending never wraps below zero.
THEOREM TypeCorrect == Spec => []TypeOK
  <1>1. IInv => TypeOK
    BY DEF IInv
  <1> QED
    BY InvariantHolds, <1>1, PTL

\* The CAS on m_activated makes the handlers of one actor run one at a time,
\* although m_activated is given back by a store other threads see late.
THEOREM HandlersAreSerial == Spec => []SerialExecution
  <1>1. IInv => SerialExecution
    BY DEF IInv, TokenInv, Holds, SerialExecution
  <1> QED
    BY InvariantHolds, <1>1, PTL

\* m_pending and the mailbox agree, whatever the interleaving of push, count
\* and drain.
THEOREM PendingIsExact == Spec => []PendingAccounting
  <1>1. IInv => PendingAccounting
    BY DEF IInv
  <1> QED
    BY InvariantHolds, <1>1, PTL

\* The second look at m_pending in pull_and_run() is enough: the only way to
\* leave mail behind is to read m_pending before the store of m_activated has
\* become visible.
THEOREM NoMailIsStranded == Spec => []NoStrandedMail
  <1>1. IInv => NoStrandedMail
    <2> SUFFICES ASSUME IInv, Quiescent, ~shuttingDown, ~overtook
                 PROVE  tickets = <<>>
      BY DEF NoStrandedMail
    <2>1. InFlight = {} /\ Cardinality(InFlight) = 0
      BY FS_EmptySet DEF Quiescent, InFlight
    <2>2. Len(tickets) = pending
      BY <2>1 DEF IInv, TypeOK, Quiescent, PendingAccounting
    <2>3. ~activated
      BY DEF IInv, TokenInv, Quiescent, Holds, Draining
    <2>4. ~(pending > 0)
      BY <2>3 DEF IInv, WakeInv, Rechecking, Quiescent
    <2>5. Len(tickets) = 0
      BY <2>2, <2>4 DEF IInv, TypeOK
    <2> QED
      BY <2>5, EmptySeq DEF IInv, TypeOK
  <1> QED
    BY InvariantHolds, <1>1, PTL

\* Nobody can get a closed actor that has come to rest going again: the CAS that
\* submits pull_and_run() is only reached past a check of m_shutting_down, and a
\* closure starts only when one is waiting in the pool.
THEOREM ClosedIsFinal == Spec => ClosedStaysAtRest
  <1>1. TypeOK /\ [Next]_vars => [AtRest => AtRest']_vars
    <2> SUFFICES ASSUME TypeOK, [Next]_vars, AtRest PROVE AtRest'
      OBVIOUS
    <2>0. spc \in [Senders -> SenderPC] /\ wpc \in [Workers -> WorkerPC]
      BY DEF TypeOK
    <2> USE DEF AtRest, Draining
    <2>1. ASSUME NEW s \in Senders, Send(s) PROVE AtRest'
      BY <2>0, <2>1 DEF Send, SenderGoto, actorVars, workerVars
    <2>2. ASSUME NEW s \in Senders, TryPushFull(s) PROVE AtRest'
      BY <2>0, <2>2 DEF TryPushFull, SenderGoto, actorVars, workerVars
    <2>3. ASSUME NEW s \in Senders, SenderStep(s) PROVE AtRest'
      BY <2>0, <2>3 DEF SenderStep, PushClaim, PushPublish, CountPending,
         SenderActivate, SenderCas, SenderGoto, actorVars, workerVars
    <2>4. ASSUME NEW w \in Workers, WorkerStep(w) PROVE AtRest'
      <3>1. ~Start(w) /\ ~WorkerCas(w)
        BY DEF Start, WorkerCas
      <3>2. ~LoadLimit(w) /\ ~DrainOne(w) /\ ~DrainEnd(w)
        BY DEF LoadLimit, DrainOne, DrainEnd
      <3>3. ~HandlerReturns(w) /\ ~HandlerThrows(w)
        BY DEF HandlerReturns, HandlerThrows
      <3>4. ~SubPending(w) /\ ~Release(w)
        BY DEF SubPending, Release
      <3>5. CASE CheckDown(w)
        BY <2>0, <3>5 DEF CheckDown, WorkerGoto, actorVars, senderVars
      <3>6. CASE CheckPending(w)
        BY <2>0, <3>6 DEF CheckPending, WorkerGoto, actorVars, senderVars
      <3>7. CASE WorkerActivate(w)
        BY <2>0, <3>7 DEF WorkerActivate, WorkerGoto, actorVars, senderVars
      <3> QED
        BY <2>4, <3>1, <3>2, <3>3, <3>4, <3>5, <3>6, <3>7 DEF WorkerStep
    <2>5. ASSUME NEW w \in Workers, Flush(w) PROVE AtRest'
      BY <2>5 DEF Flush, senderVars
    <2>6. CASE SetShuttingDown
      BY <2>6 DEF SetShuttingDown
    <2>7. CASE DrainPending
      BY <2>7 DEF DrainPending, senderVars, workerVars
    <2>8. CASE UNCHANGED vars
      BY <2>8 DEF vars, actorVars, senderVars, workerVars
    <2> QED
      BY <2>1, <2>2, <2>3, <2>4, <2>5, <2>6, <2>7, <2>8 DEF Next
  <1> QED
    BY TypeCorrect, <1>1, PTL DEF Spec, ClosedStaysAtRest
-----------------------------------------------------------------------------
(* What ask() keeps in m_asks while it waits for a reply.                   *)

AskPC == {"idle", "deliver", "lookup", "wait", "cancel"} \cup Returned

AskTypes ==
    /\ asks \subseteq Asks
    /\ payload \in [Asks -> Nat]
    /\ sent \in [Asks -> BOOLEAN]
    /\ pc \in [Asks -> AskPC]
    /\ answer \in [Asks -> Nat]
    /\ rpc \in [Replies -> {"none", "found", "refused", "filled"}]

\* The n-th reply to a has taken the entry of a out of the table.
Won(a, n) == rpc[<<a, n>>] \in {"found", "filled"}

\* A reply comes to a message that was sent, and the entry it took is gone for
\* good, as only the first step of a call makes one.
WonInv ==
    \A a \in Asks :
        /\ sent[a] => pc[a] # "idle"
        /\ \A n \in 1..MaxReplies : Won(a, n) => a \notin asks /\ pc[a] # "idle"

\* The slot is filled only by a reply that took its entry.
FillInv ==
    \A a \in Asks : payload[a] # NoReply => \E n \in 1..MaxReplies : Won(a, n)

\* At most one reply takes the entry of an ask.
SingleInv ==
    \A a \in Asks : \A m, n \in 1..MaxReplies : Won(a, m) /\ Won(a, n) => m = n

AskInv == AskTypes /\ WonInv /\ FillInv /\ SingleInv /\ NoAskLeaks

-----------------------------------------------------------------------------
\* The table is empty and nobody has asked or replied.
LEMMA InitAskInv == AskInit => AskInv
  BY DEF AskInit, AskInv, AskTypes, AskPC, WonInv, Won, FillInv, SingleInv, NoAskLeaks,
     Returned, Replies, NoReply

\* A step of an asking thread touches no reply and no slot, and puts an entry
\* into the table only when the call begins.
LEMMA AskingAskInv ==
    ASSUME AskInv, NEW a \in Asks, PrepareAsk(a) \/ AskStep(a)
    PROVE  AskInv'
  <1>1. rpc' = rpc /\ payload' = payload
    BY DEF PrepareAsk, AskStep, Accepted, Refused, TakeLookup, WaitDone,
           WaitTimeout, CancelAsk
  <1>2. AskTypes'
    BY DEF AskInv, AskTypes, AskPC, Returned, PrepareAsk, AskStep, Accepted, Refused,
           TakeLookup, WaitDone, WaitTimeout, CancelAsk, Goto
  <1>3. WonInv'
    <2>1. asks' \subseteq asks \cup {b \in {a} : pc[b] = "idle"}
      BY DEF PrepareAsk, AskStep, Accepted, Refused, TakeLookup, WaitDone,
             WaitTimeout, CancelAsk
    <2>2. \A b \in Asks : pc'[b] = "idle" => pc[b] = "idle" /\ b # a
      BY DEF AskInv, AskTypes, PrepareAsk, AskStep, Accepted, Refused, TakeLookup,
             WaitDone, WaitTimeout, CancelAsk, Goto
    <2>3. \A b \in Asks : sent'[b] => sent[b] \/ b = a
      BY DEF AskInv, AskTypes, PrepareAsk, AskStep, Accepted, Refused, TakeLookup,
             WaitDone, WaitTimeout, CancelAsk
    <2> QED
      BY <1>1, <2>1, <2>2, <2>3 DEF AskInv, WonInv, Won
  <1>4. FillInv' /\ SingleInv'
    BY <1>1 DEF AskInv, FillInv, SingleInv, Won
  <1>5. NoAskLeaks'
    <2>1. ASSUME NEW b \in Asks, b # a, pc'[b] \in Returned
          PROVE  b \notin asks'
      BY <2>1 DEF AskInv, AskTypes, NoAskLeaks, PrepareAsk, AskStep, Accepted,
                  Refused, TakeLookup, WaitDone, WaitTimeout, CancelAsk, Goto
    <2>2. CASE WaitDone(a)
      <3>1. PICK n \in 1..MaxReplies : Won(a, n)
        BY <2>2 DEF WaitDone, AskInv, FillInv
      <3>2. a \notin asks'
        BY <2>2, <3>1 DEF WaitDone, AskInv, WonInv
      <3> QED
        BY <2>1, <3>2 DEF NoAskLeaks
    <2>3. CASE ~WaitDone(a)
      <3>1. pc'[a] \in Returned => a \notin asks'
        BY <2>3 DEF AskInv, AskTypes, Returned, PrepareAsk, AskStep, Accepted,
                    Refused, TakeLookup, WaitTimeout, CancelAsk, Goto
      <3> QED
        BY <2>1, <3>1 DEF NoAskLeaks
    <2> QED
      BY <2>2, <2>3
  <1> QED
    BY <1>2, <1>3, <1>4, <1>5 DEF AskInv

\* A reply wins only when it finds the entry, and then takes it along.
LEMMA LookupAskInv ==
    ASSUME AskInv, NEW r \in Replies, FinishLookup(r)
    PROVE  AskInv'
  <1>1. PICK a \in Asks, n \in 1..MaxReplies : r = <<a, n>>
    BY DEF Replies
  <1>2. /\ asks' = asks \ {a}
        /\ sent[a]
        /\ rpc' = [rpc EXCEPT ![<<a, n>>] = IF a \in asks THEN "found" ELSE "refused"]
        /\ rpc[<<a, n>>] = "none"
        /\ UNCHANGED <<payload, sent, pc, answer>>
    BY <1>1 DEF FinishLookup
  <1>3. AskTypes'
    BY <1>1, <1>2 DEF AskInv, AskTypes
  <1>4. \A b \in Asks, m \in 1..MaxReplies :
            Won(b, m)' <=> Won(b, m) \/ (b = a /\ m = n /\ a \in asks)
    BY <1>1, <1>2 DEF AskInv, AskTypes, Won, Replies
  <1>5. WonInv'
    BY <1>2, <1>4 DEF AskInv, WonInv
  <1>6. FillInv'
    BY <1>2, <1>4 DEF AskInv, FillInv
  <1>7. SingleInv'
    BY <1>2, <1>4 DEF AskInv, SingleInv, WonInv
  <1>8. NoAskLeaks'
    BY <1>2 DEF AskInv, NoAskLeaks
  <1> QED
    BY <1>3, <1>5, <1>6, <1>7, <1>8 DEF AskInv

\* Filling the slot changes nobody's claim to it.
LEMMA FillAskInv ==
    ASSUME AskInv, NEW r \in Replies, FinishFill(r)
    PROVE  AskInv'
  <1>1. PICK a \in Asks, n \in 1..MaxReplies : r = <<a, n>>
    BY DEF Replies
  <1>2. /\ payload' = [payload EXCEPT ![a] = n]
        /\ rpc' = [rpc EXCEPT ![<<a, n>>] = "filled"]
        /\ rpc[<<a, n>>] = "found"
        /\ UNCHANGED <<asks, sent, pc, answer>>
    BY <1>1 DEF FinishFill
  <1>3. n \in Nat
    BY AskAssumption
  <1>4. AskTypes'
    BY <1>1, <1>2, <1>3 DEF AskInv, AskTypes
  <1>5. Won(a, n) /\ \A b \in Asks, m \in 1..MaxReplies : Won(b, m)' <=> Won(b, m)
    BY <1>1, <1>2 DEF AskInv, AskTypes, Won, Replies
  <1>6. WonInv' /\ SingleInv' /\ NoAskLeaks'
    BY <1>2, <1>5 DEF AskInv, WonInv, SingleInv, NoAskLeaks
  <1>7. FillInv'
    BY <1>2, <1>5 DEF AskInv, AskTypes, FillInv
  <1> QED
    BY <1>4, <1>6, <1>7 DEF AskInv

\* Every step of an asking thread and of a reply preserves the invariant.
LEMMA StepAskInv == AskInv /\ [AskNext]_askVars => AskInv'
  <1> SUFFICES ASSUME AskInv, [AskNext]_askVars PROVE AskInv'
    OBVIOUS
  <1>1. CASE AskNext
    BY <1>1, AskingAskInv, LookupAskInv, FillAskInv DEF AskNext
  <1>2. CASE UNCHANGED askVars
    BY <1>2 DEF askVars, AskInv, AskTypes, WonInv, Won, FillInv, SingleInv, NoAskLeaks
  <1> QED
    BY <1>1, <1>2

\* The invariant holds in every state.
THEOREM AskInvariantHolds == AskSpec => []AskInv
  BY InitAskInv, StepAskInv, PTL DEF AskSpec

\* ask() leaves no entry in m_asks behind on any of its ways out, for any number
\* of concurrent asks and replies.
THEOREM AsksDoNotLeak == AskSpec => []NoAskLeaks
  <1>1. AskInv => NoAskLeaks
    BY DEF AskInv
  <1> QED
    BY AskInvariantHolds, <1>1, PTL

\* finish_ask() lets one reply through per ask, however many race for it.
THEOREM OneReplyTakesTheSlot == AskSpec => []OneReplyWins
  <1>1. AskInv => OneReplyWins
    <2> SUFFICES ASSUME AskInv, NEW a \in Asks
                 PROVE  Cardinality({n \in 1..MaxReplies : Won(a, n)}) <= 1
      BY DEF OneReplyWins, Won
    <2> DEFINE W == {n \in 1..MaxReplies : Won(a, n)}
    <2>1. CASE W = {}
      BY <2>1, FS_EmptySet
    <2>2. CASE W # {}
      <3>1. PICK n : n \in W
        BY <2>2
      <3>2. \A m \in W : m = n
        BY <3>1 DEF AskInv, SingleInv
      <3>3. W = {n}
        BY <3>1, <3>2
      <3> QED
        BY <3>3, FS_Singleton
    <2> QED
      BY <2>1, <2>2
  <1> QED
    BY AskInvariantHolds, <1>1, PTL
=============================================================================
