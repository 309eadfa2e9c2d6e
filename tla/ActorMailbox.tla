---------------------------- MODULE ActorMailbox ----------------------------
(***************************************************************************)
(* The scheduling core of one actor (actor/core/base_actor.h, mailbox.h).  *)
(*                                                                         *)
(* Sender threads push envelopes into the mailbox, count them in m_pending *)
(* and race to activate the actor: the winner of the CAS on m_activated    *)
(* submits pull_and_run() to the thread pool.  A pool thread runs it,      *)
(* drains a batch, gives m_activated back and looks at m_pending again.    *)
(*                                                                         *)
(* Every atomic access of the code is one step.  m_activated is given back *)
(* by a plain release store which may stay in the store buffer of its      *)
(* thread (buf) while that thread goes on to load m_shutting_down and      *)
(* m_pending; a locked instruction of the same thread flushes it first.    *)
(***************************************************************************)
EXTENDS TicketQueue, FiniteSets

CONSTANTS
    Senders,            \* threads that call send() / try_send()
    Workers,            \* threads of the pool
    MaxCalls,           \* bound: calls per sender
    MaxPerActivation,   \* m_max_per_activation (256)
    MaxRestarts         \* supervisor{max_restarts}

ASSUME ActorAssumption ==
    /\ IsFiniteSet(Senders)
    /\ Msgs = Senders \X (1..MaxCalls)
    /\ MaxCalls \in Nat
    /\ MaxPerActivation \in Nat \ {0}
    /\ MaxRestarts \in Nat

VARIABLES
    activated,      \* m_activated, as other threads see it
    pending,        \* m_pending
    shuttingDown,   \* m_shutting_down
    failures,       \* m_failure_count
    scheduled,      \* pull_and_run() closures waiting in the pool
    spc, calls,     \* sender: program counter, calls made so far
    wpc, limit, executed,   \* pool thread: pc, and the locals of pull_and_run()
    buf,            \* pool thread: m_activated.store(false) not yet visible
    overtook        \* history: m_pending was read as 0 past a buffered store

actorVars == <<activated, pending, shuttingDown, failures, scheduled>>
senderVars == <<spc, calls>>
workerVars == <<wpc, limit, executed, buf, overtook>>
vars == <<tickets, actorVars, senderVars, workerVars>>

SenderPC == {"idle", "push", "publish", "count", "activate", "cas"}
WorkerPC == {"idle", "load", "drain", "run", "sub", "release",
             "checkDown", "checkPending", "activate", "cas"}

Init ==
    /\ QueueInit
    /\ activated = FALSE /\ pending = 0 /\ shuttingDown = FALSE
    /\ failures = 0 /\ scheduled = 0
    /\ spc = [s \in Senders |-> "idle"]
    /\ calls = [s \in Senders |-> 0]
    /\ wpc = [w \in Workers |-> "idle"]
    /\ limit = [w \in Workers |-> 0]
    /\ executed = [w \in Workers |-> 0]
    /\ buf = [w \in Workers |-> FALSE]
    /\ overtook = FALSE

SenderGoto(s, pc) == spc' = [spc EXCEPT ![s] = pc]
WorkerGoto(w, pc) == wpc' = [wpc EXCEPT ![w] = pc]

-----------------------------------------------------------------------------
(* push_envelope() and try_push_envelope(): check, push, count, activate.   *)

MsgOf(s) == <<s, calls[s]>>

\* Entry: a message to a closing actor is dropped.
Send(s) ==
    /\ spc[s] = "idle" /\ calls[s] < MaxCalls
    /\ calls' = [calls EXCEPT ![s] = @ + 1]
    /\ SenderGoto(s, IF shuttingDown THEN "idle" ELSE "push")
    /\ UNCHANGED <<tickets, actorVars, workerVars>>

\* m_mailbox.try_push finds room.  push_envelope() keeps retrying until it
\* does, and never looks at m_shutting_down again.
PushClaim(s) ==
    /\ spc[s] = "push"
    /\ Claim(MsgOf(s))
    /\ SenderGoto(s, "publish")
    /\ UNCHANGED <<actorVars, calls, workerVars>>

\* try_push_envelope() gives up on a full mailbox.
TryPushFull(s) ==
    /\ spc[s] = "push" /\ Full
    /\ SenderGoto(s, "idle")
    /\ UNCHANGED <<tickets, actorVars, calls, workerVars>>

PushPublish(s) ==
    /\ spc[s] = "publish"
    /\ Publish(MsgOf(s))
    /\ SenderGoto(s, "count")
    /\ UNCHANGED <<actorVars, calls, workerVars>>

CountPending(s) ==
    /\ spc[s] = "count"
    /\ pending' = pending + 1
    /\ SenderGoto(s, "activate")
    /\ UNCHANGED <<tickets, activated, shuttingDown, failures, scheduled,
                   calls, workerVars>>

\* Mutants of SenderActivate: only the sender that sees a count of one
\* activates, and activation without the check of m_shutting_down.
ActivateOnFirstOnly(s) ==
    /\ spc[s] = "activate"
    /\ SenderGoto(s, IF shuttingDown \/ pending # 1 THEN "idle" ELSE "cas")
    /\ UNCHANGED <<tickets, actorVars, calls, workerVars>>

ActivateWhenClosed(s) ==
    /\ spc[s] = "activate"
    /\ SenderGoto(s, "cas")
    /\ UNCHANGED <<tickets, actorVars, calls, workerVars>>

\* try_activate(): the early return ...
SenderActivate(s) ==
    /\ spc[s] = "activate"
    /\ SenderGoto(s, IF shuttingDown THEN "idle" ELSE "cas")
    /\ UNCHANGED <<tickets, actorVars, calls, workerVars>>

\* Mutants of WinActivation: a store instead of the CAS, and an actor whose
\* m_schedule_fn was never set.
ActivateWithoutCas ==
    /\ activated' = TRUE
    /\ scheduled' = scheduled + 1
    /\ UNCHANGED <<pending, shuttingDown, failures>>

ActivateWithoutScheduling ==
    /\ activated' = TRUE
    /\ UNCHANGED <<pending, shuttingDown, failures, scheduled>>

\* ... and the CAS on m_activated: the winner submits pull_and_run().
WinActivation ==
    /\ activated' = TRUE
    /\ scheduled' = IF activated THEN scheduled ELSE scheduled + 1
    /\ UNCHANGED <<pending, shuttingDown, failures>>

SenderCas(s) ==
    /\ spc[s] = "cas"
    /\ WinActivation
    /\ SenderGoto(s, "idle")
    /\ UNCHANGED <<tickets, calls, workerVars>>

-----------------------------------------------------------------------------
(* pull_and_run() on a thread of the pool.                                  *)

\* Taking the closure out of a pool queue is a locked instruction.
Start(w) ==
    /\ wpc[w] = "idle" /\ scheduled > 0 /\ ~buf[w]
    /\ scheduled' = scheduled - 1
    /\ WorkerGoto(w, "load")
    /\ UNCHANGED <<tickets, activated, pending, shuttingDown, failures,
                   senderVars, limit, executed, buf, overtook>>

\* Mutant of LoadLimit: the batch is not bounded by m_pending.
LoadLimitIgnoresPending(w) ==
    /\ wpc[w] = "load"
    /\ limit' = [limit EXCEPT ![w] = MaxPerActivation]
    /\ WorkerGoto(w, "drain")
    /\ UNCHANGED <<tickets, actorVars, senderVars, executed, buf, overtook>>

LoadLimit(w) ==
    /\ wpc[w] = "load"
    /\ limit' = [limit EXCEPT ![w] = IF pending < MaxPerActivation
                                     THEN pending ELSE MaxPerActivation]
    /\ WorkerGoto(w, "drain")
    /\ UNCHANGED <<tickets, actorVars, senderVars, executed, buf, overtook>>

\* mailbox::drain(): one more envelope goes to its handler ...
DrainOne(w) ==
    /\ wpc[w] = "drain" /\ executed[w] < limit[w]
    /\ Pop
    /\ WorkerGoto(w, "run")
    /\ UNCHANGED <<actorVars, senderVars, limit, executed, buf, overtook>>

\* ... until the limit, or until the head is missing or not yet published.
DrainEnd(w) ==
    /\ wpc[w] = "drain" /\ (executed[w] >= limit[w] \/ ~HeadReady)
    /\ WorkerGoto(w, "sub")
    /\ UNCHANGED <<tickets, actorVars, senderVars, limit, executed, buf,
                   overtook>>

\* deliver() returns ok or dead_letter.
HandlerReturns(w) ==
    /\ wpc[w] = "run"
    /\ executed' = [executed EXCEPT ![w] = @ + 1]
    /\ WorkerGoto(w, "drain")
    /\ UNCHANGED <<tickets, actorVars, senderVars, limit, buf, overtook>>

\* deliver() catches an exception: note_supervised_failure() counts it and
\* closes the actor once the restarts are used up.
HandlerThrows(w) ==
    /\ wpc[w] = "run"
    /\ failures' = failures + 1
    /\ shuttingDown' = (shuttingDown \/ failures' > MaxRestarts)
    /\ executed' = [executed EXCEPT ![w] = @ + 1]
    /\ WorkerGoto(w, "drain")
    /\ UNCHANGED <<tickets, activated, pending, scheduled, senderVars, limit,
                   buf, overtook>>

\* Mutant of SubPending: subtracts the limit instead of what was executed.
SubLimit(w) ==
    /\ wpc[w] = "sub"
    /\ pending' = pending - limit[w]
    /\ limit' = [limit EXCEPT ![w] = 0]
    /\ executed' = [executed EXCEPT ![w] = 0]
    /\ WorkerGoto(w, "release")
    /\ UNCHANGED <<tickets, activated, shuttingDown, failures, scheduled,
                   senderVars, buf, overtook>>

\* The locals die here: they are reset so that the next run starts afresh.
SubPending(w) ==
    /\ wpc[w] = "sub"
    /\ pending' = pending - executed[w]
    /\ limit' = [limit EXCEPT ![w] = 0]
    /\ executed' = [executed EXCEPT ![w] = 0]
    /\ WorkerGoto(w, "release")
    /\ UNCHANGED <<tickets, activated, shuttingDown, failures, scheduled,
                   senderVars, buf, overtook>>

\* m_activated.store(false, release): into the store buffer.
Release(w) ==
    /\ wpc[w] = "release"
    /\ buf' = [buf EXCEPT ![w] = TRUE]
    /\ WorkerGoto(w, "checkDown")
    /\ UNCHANGED <<tickets, actorVars, senderVars, limit, executed, overtook>>

\* The store becomes visible to the other threads.
Flush(w) ==
    /\ buf[w]
    /\ buf' = [buf EXCEPT ![w] = FALSE]
    /\ activated' = FALSE
    /\ UNCHANGED <<tickets, pending, shuttingDown, failures, scheduled,
                   senderVars, wpc, limit, executed, overtook>>

\* The self-activation check: two loads, then try_activate().
CheckDown(w) ==
    /\ wpc[w] = "checkDown"
    /\ WorkerGoto(w, IF shuttingDown THEN "idle" ELSE "checkPending")
    /\ UNCHANGED <<tickets, actorVars, senderVars, limit, executed, buf,
                   overtook>>

\* Mutant of CheckPending: no self-activation.
NoSecondLook(w) ==
    /\ wpc[w] = "checkPending"
    /\ WorkerGoto(w, "idle")
    /\ overtook' = (overtook \/ (buf[w] /\ pending = 0))
    /\ UNCHANGED <<tickets, actorVars, senderVars, limit, executed, buf>>

CheckPending(w) ==
    /\ wpc[w] = "checkPending"
    /\ WorkerGoto(w, IF pending > 0 THEN "activate" ELSE "idle")
    /\ overtook' = (overtook \/ (buf[w] /\ pending = 0))
    /\ UNCHANGED <<tickets, actorVars, senderVars, limit, executed, buf>>

WorkerActivate(w) ==
    /\ wpc[w] = "activate"
    /\ WorkerGoto(w, IF shuttingDown THEN "idle" ELSE "cas")
    /\ UNCHANGED <<tickets, actorVars, senderVars, limit, executed, buf,
                   overtook>>

WorkerCas(w) ==
    /\ wpc[w] = "cas" /\ ~buf[w]
    /\ WinActivation
    /\ WorkerGoto(w, "idle")
    /\ UNCHANGED <<tickets, senderVars, limit, executed, buf, overtook>>

-----------------------------------------------------------------------------
(* The owner of the actor.                                                  *)

\* ~actor_system() closes every actor.
SetShuttingDown ==
    /\ ~shuttingDown
    /\ shuttingDown' = TRUE
    /\ UNCHANGED <<tickets, activated, pending, failures, scheduled,
                   senderVars, workerVars>>

\* drain_pending(): the pool has stopped and nobody sends any more.
DrainPending ==
    /\ shuttingDown /\ scheduled = 0 /\ tickets # <<>>
    /\ \A w \in Workers : wpc[w] = "idle" /\ ~buf[w]
    /\ \A s \in Senders : spc[s] = "idle"
    /\ tickets' = <<>>
    /\ pending' = 0
    /\ \E thrown \in 0..Len(tickets) : failures' = failures + thrown
    /\ UNCHANGED <<activated, shuttingDown, scheduled, senderVars, workerVars>>

-----------------------------------------------------------------------------
\* The rest of a push once it is called, its retry loop included.
SenderStep(s) ==
    \/ PushClaim(s) \/ PushPublish(s) \/ CountPending(s)
    \/ SenderActivate(s) \/ SenderCas(s)

WorkerStep(w) ==
    \/ Start(w) \/ LoadLimit(w) \/ DrainOne(w) \/ DrainEnd(w)
    \/ HandlerReturns(w) \/ HandlerThrows(w) \/ SubPending(w) \/ Release(w)
    \/ CheckDown(w) \/ CheckPending(w) \/ WorkerActivate(w) \/ WorkerCas(w)

Next ==
    \/ \E s \in Senders : Send(s) \/ TryPushFull(s) \/ SenderStep(s)
    \/ \E w \in Workers : WorkerStep(w) \/ Flush(w)
    \/ SetShuttingDown
    \/ DrainPending

Spec == Init /\ [][Next]_vars

\* Threads keep running and handlers return; store buffers drain.  Nobody has
\* to call send(), and nothing obliges a try_send() to give up.
FairSpec ==
    /\ Spec
    /\ \A s \in Senders : WF_vars(SenderStep(s))
    /\ \A w \in Workers : WF_vars(WorkerStep(w)) /\ WF_vars(Flush(w))

-----------------------------------------------------------------------------
TypeOK ==
    /\ tickets \in Seq(Ticket)
    /\ activated \in BOOLEAN /\ shuttingDown \in BOOLEAN
    /\ pending \in Nat /\ failures \in Nat /\ scheduled \in Nat
    /\ spc \in [Senders -> SenderPC]
    /\ calls \in [Senders -> 0..MaxCalls]
    /\ wpc \in [Workers -> WorkerPC]
    /\ limit \in [Workers -> Nat] /\ executed \in [Workers -> Nat]
    /\ buf \in [Workers -> BOOLEAN]
    /\ overtook \in BOOLEAN

\* w is inside the part of pull_and_run() that m_activated protects.
Draining(w) == wpc[w] \in {"load", "drain", "run", "sub", "release"}

\* docs/actor-guide.md: messages of one actor are never handled concurrently.
\* pull_and_run() of two pool threads may overlap, but never in its drain
\* part: this is what makes MpscQueue's single consumer and the handlers'
\* lock-free access to the actor's fields sound.
SerialExecution ==
    \A v, w \in Workers : Draining(v) /\ Draining(w) => v = w

\* Envelopes whose sender has drawn a ticket but not yet counted it.
InFlight == {s \in Senders : spc[s] \in {"publish", "count"}}

\* Envelopes popped by pull_and_run() and not yet subtracted.
Popped(w) == executed[w] + (IF wpc[w] = "run" THEN 1 ELSE 0)

\* m_pending counts what is in the mailbox, up to the envelopes in flight at
\* either end; in particular fetch_sub never takes it below zero, although an
\* envelope can be popped before its own sender has counted it.
PendingAccounting ==
    /\ \A w \in Workers : wpc[w] \in {"drain", "run", "sub"} =>
        /\ Popped(w) <= pending
        /\ Len(tickets) + Popped(w) = pending + Cardinality(InFlight)
    /\ (\A w \in Workers : wpc[w] \notin {"drain", "run", "sub"}) =>
        Len(tickets) = pending + Cardinality(InFlight)

\* Nobody is sending, running or scheduled.
Quiescent ==
    /\ scheduled = 0
    /\ \A s \in Senders : spc[s] = "idle"
    /\ \A w \in Workers : wpc[w] = "idle" /\ ~buf[w]

\* The self-activation check at the end of pull_and_run() loses no wake-up:
\* an open actor at rest has an empty mailbox, unless a pool thread read
\* m_pending past its own buffered store of m_activated.
NoStrandedMail ==
    Quiescent /\ ~shuttingDown /\ ~overtook => tickets = <<>>

\* The claim of the self-activation check as the code states it, whatever the
\* memory model: an open actor at rest has an empty mailbox.
SelfActivationSuffices ==
    Quiescent /\ ~shuttingDown => tickets = <<>>

\* Mail that reached the mailbox of an open actor is handled, also when its
\* head is held up by a sender that has not published yet.
MailIsHandled ==
    tickets # <<>> ~> (tickets = <<>> \/ shuttingDown \/ overtook)

\* No closure waits in the pool, none is in its drain part, and no thread is
\* past the check of m_shutting_down in try_activate().
AtRest ==
    /\ shuttingDown /\ scheduled = 0
    /\ \A s \in Senders : spc[s] # "cas"
    /\ \A w \in Workers : wpc[w] # "cas" /\ ~Draining(w)

\* Closing is final: once a closed actor has come to rest no late sender and no
\* pool thread in its second look submits pull_and_run() again.  The pool can
\* then be torn down.
ClosedStaysAtRest == [][AtRest => AtRest']_vars

\* A sender that found the mailbox full gets in once pull_and_run() makes
\* room, as long as the actor is open.
BlockedSenderGetsIn ==
    \A s \in Senders :
        spc[s] = "push" ~> (spc[s] # "push" \/ shuttingDown \/ overtook)

\* The comment on set_shutting_down(): once the flag is set push_envelope()
\* drops the message - so every call returns, also one already in its loop.
ClosingReleasesSenders ==
    \A s \in Senders : spc[s] = "push" ~> spc[s] # "push"

-----------------------------------------------------------------------------
(* The inductive invariant behind the theorems of ActorMailboxProofs.       *)

\* w holds the activation: it drains, or its giving back is still buffered.
Holds(w) == Draining(w) \/ buf[w]

\* m_activated stands for exactly one token: a closure in the pool, or the
\* pool thread that runs it.
TokenInv ==
    /\ scheduled \in {0, 1}
    /\ \A v, w \in Workers : Holds(v) /\ Holds(w) => v = w
    /\ \A w \in Workers : Holds(w) => scheduled = 0 /\ activated
    /\ \A w \in Workers : Draining(w) => ~buf[w]
    /\ activated => scheduled = 1 \/ \E w \in Workers : Holds(w)
    /\ scheduled = 1 => activated

CallInv == \A s \in Senders : spc[s] # "idle" => calls[s] > 0

LimitInv ==
    \A w \in Workers :
      /\ wpc[w] \notin {"drain", "run", "sub"} => executed[w] = 0
      /\ wpc[w] \in {"drain", "run", "sub"} =>
        /\ executed[w] <= limit[w]
        /\ wpc[w] = "run" => executed[w] < limit[w]
        /\ limit[w] <= pending

\* w has given m_activated back and has not finished its second look.
Rechecking(w) == wpc[w] \in {"checkDown", "checkPending", "activate", "cas"}

\* Counted mail of an open, inactive actor has somebody about to activate it;
\* so will it have when a buffered store makes the actor inactive.
WakeInv ==
    ~shuttingDown /\ ~overtook =>
        /\ pending > 0 /\ ~activated =>
            \/ \E s \in Senders : spc[s] \in {"activate", "cas"}
            \/ \E w \in Workers : Rechecking(w)
        /\ \A w \in Workers : buf[w] => Rechecking(w)

IInv ==
    /\ TypeOK /\ CallInv /\ TokenInv /\ LimitInv
    /\ PendingAccounting /\ WakeInv
=============================================================================
