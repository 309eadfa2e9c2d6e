----------------------------- MODULE ThreadPool -----------------------------
(***************************************************************************)
(* WorkStealingThreadPool (coroutine/thread_pool.hpp) with the wake-up     *)
(* part of IoReactor (io/reactor.hpp).                                     *)
(*                                                                         *)
(* A task submitted by a pool thread goes to that thread's local queue,    *)
(* one from outside to the MPSC queue of some worker, whose eventfd is     *)
(* then written.  A worker polls its completion queue, runs what it finds  *)
(* in its own, the others' and its MPSC queue, and sleeps in io_uring.     *)
(*                                                                         *)
(* The queues are used as WorkStealingQueue and TicketQueue specify them.  *)
(* Tasks are numbered in the order of their submission.                    *)
(***************************************************************************)
EXTENDS Naturals, FiniteSets, SequencesExt

CONSTANTS
    Workers,        \* worker threads
    Clients,        \* threads outside the pool
    MpscCapacity,   \* 256 in the code
    MaxTasks,       \* bound: tasks submitted
    MaxSleeps       \* bound: suspensions of coroutines

ASSUME PoolAssumption ==
    /\ MpscCapacity \in Nat \ {0}
    /\ MaxTasks \in Nat /\ MaxSleeps \in Nat

VARIABLES
    local, mpsc,        \* m_local_queues, m_mpsc_queues
    eventfd, armed,     \* counter of m_event_fds[w]; its read is submitted
                        \* (FALSE: the wake-up is in w's completion queue)
    cqes, io,           \* I/O completions of w's ring; coroutines that wait
    stop, owner,        \* m_stop; the thread in ~WorkStealingThreadPool()
    active, submitted,  \* m_active_tasks; tasks submitted so far
    sleeps,             \* suspensions so far
    wpc, task, ret, hadWork,    \* worker: pc, task it runs, where to go on
    cpc, ctask, target  \* client: pc, task it submits, and where

queueVars == <<local, mpsc>>
ringVars == <<eventfd, armed, cqes, io>>
countVars == <<active, submitted, sleeps>>
stopVars == <<stop, owner>>
workerVars == <<wpc, task, ret, hadWork>>
clientVars == <<cpc, ctask, target>>
vars == <<queueVars, ringVars, countVars, stopVars, workerVars, clientVars>>

None == 0
Tasks == 1..MaxTasks

Init ==
    /\ local = [w \in Workers |-> <<>>] /\ mpsc = [w \in Workers |-> <<>>]
    /\ eventfd = [w \in Workers |-> 0] /\ armed = [w \in Workers |-> TRUE]
    /\ cqes = [w \in Workers |-> <<>>] /\ io = [w \in Workers |-> {}]
    /\ stop = FALSE /\ owner = "live"
    /\ active = 0 /\ submitted = 0 /\ sleeps = 0
    /\ wpc = [w \in Workers |-> "start"] /\ task = [w \in Workers |-> None]
    /\ ret = [w \in Workers |-> "none"] /\ hadWork = [w \in Workers |-> FALSE]
    /\ cpc = [c \in Clients |-> "idle"] /\ ctask = [c \in Clients |-> None]
    /\ target = [c \in Clients |-> None]

Goto(w, pc) == wpc' = [wpc EXCEPT ![w] = pc]
ClientGoto(c, pc) == cpc' = [cpc EXCEPT ![c] = pc]

HeadReady(w) == mpsc[w] # <<>> /\ Head(mpsc[w]).ready

-----------------------------------------------------------------------------
(* Threads outside the pool.                                                *)

\* submit_function(), submit_coroutine(): the task is counted first.
Submit(c) ==
    /\ cpc[c] = "idle" /\ submitted < MaxTasks /\ ~stop
    /\ submitted' = submitted + 1
    /\ active' = active + 1
    /\ ctask' = [ctask EXCEPT ![c] = submitted + 1]
    /\ ClientGoto(c, "push")
    /\ UNCHANGED <<queueVars, ringVars, sleeps, stopVars, workerVars, target>>

\* enqueue_external() takes the next worker of m_next_worker, again whenever a
\* queue is full; submit_on_thread() keeps retrying the one it was given.
PushClaim(c) ==
    /\ cpc[c] = "push"
    /\ \E w \in Workers :
        /\ Len(mpsc[w]) < MpscCapacity
        /\ mpsc' = [mpsc EXCEPT ![w] =
                        Append(@, [task |-> ctask[c], ready |-> FALSE])]
        /\ target' = [target EXCEPT ![c] = w]
    /\ ClientGoto(c, "publish")
    /\ UNCHANGED <<local, ringVars, countVars, stopVars, workerVars, ctask>>

PushPublish(c) ==
    /\ cpc[c] = "publish"
    /\ mpsc' = [mpsc EXCEPT ![target[c]] =
                    [i \in DOMAIN @ |-> IF @[i].task = ctask[c]
                                        THEN [@[i] EXCEPT !.ready = TRUE]
                                        ELSE @[i]]]
    /\ ctask' = [ctask EXCEPT ![c] = None]
    /\ ClientGoto(c, "wake")
    /\ UNCHANGED <<local, ringVars, countVars, stopVars, workerVars, target>>

\* Mutant of WakeWorker: one eventfd shared by all workers.
WakeAnyWorker(w) ==
    \E v \in Workers : eventfd' = [eventfd EXCEPT ![v] = @ + 1]

WakeWorker(w) == eventfd' = [eventfd EXCEPT ![w] = @ + 1]

PushWake(c) ==
    /\ cpc[c] = "wake"
    /\ WakeWorker(target[c])
    /\ target' = [target EXCEPT ![c] = None]
    /\ ClientGoto(c, "idle")
    /\ UNCHANGED <<queueVars, armed, cqes, io, countVars, stopVars, workerVars,
                   ctask>>

\* wait_all(): under the mutex, either return or go to sleep.
WaitAll(c) ==
    /\ cpc[c] \in {"idle", "notified"}
    /\ cpc[c] = "idle" => active > 0
    /\ ClientGoto(c, IF active = 0 THEN "idle" ELSE "blocked")
    /\ UNCHANGED <<queueVars, ringVars, countVars, stopVars, workerVars, ctask,
                   target>>

-----------------------------------------------------------------------------
(* The kernel's side of a ring.                                             *)

EventfdRead(w) ==
    /\ armed[w] /\ eventfd[w] > 0 /\ wpc[w] # "exited"
    /\ eventfd' = [eventfd EXCEPT ![w] = 0]
    /\ armed' = [armed EXCEPT ![w] = FALSE]
    /\ UNCHANGED <<queueVars, cqes, io, countVars, stopVars, workerVars, clientVars>>

IoCompletes(w) ==
    /\ wpc[w] # "exited"
    /\ \E t \in io[w] :
        /\ io' = [io EXCEPT ![w] = @ \ {t}]
        /\ cqes' = [cqes EXCEPT ![w] = Append(@, t)]
    /\ UNCHANGED <<queueVars, eventfd, armed, countVars, stopVars, workerVars,
                   clientVars>>

-----------------------------------------------------------------------------
(* worker_thread()                                                          *)

\* while (!m_stop): on entry, and whenever wait_for_events() returns.
LoopHead(w) ==
    /\ Goto(w, IF stop THEN "drainLocal" ELSE "poll")
    /\ UNCHANGED <<queueVars, ringVars, countVars, stopVars, task, ret, hadWork,
                   clientVars>>

Start(w) == wpc[w] = "start" /\ LoopHead(w)

\* on_io_completion(): resubmit_coroutine() to this worker's local queue.
Requeue(w) ==
    /\ local' = [local EXCEPT ![w] = @ \o cqes[w]]
    /\ cqes' = [cqes EXCEPT ![w] = <<>>]
    /\ Goto(w, "scan")
    /\ UNCHANGED <<mpsc, io, countVars, stopVars, task, ret, hadWork, clientVars>>

\* poll(): a wake-up empties the eventfd once more and submits a new read.
Poll(w) ==
    /\ wpc[w] = "poll"
    /\ Requeue(w)
    /\ IF armed[w]
       THEN UNCHANGED <<eventfd, armed>>
       ELSE /\ eventfd' = [eventfd EXCEPT ![w] = 0]
            /\ armed' = [armed EXCEPT ![w] = TRUE]

\* w runs t and goes on at `next'; had tells whether had_work is then set.
Run(w, t, next, had) ==
    /\ task' = [task EXCEPT ![w] = t]
    /\ ret' = [ret EXCEPT ![w] = next]
    /\ hadWork' = [hadWork EXCEPT ![w] = had]
    /\ Goto(w, "run")
    /\ UNCHANGED <<ringVars, countVars, stopVars, clientVars>>

\* w found no task and goes on at `next'.
Skip(w, next, had) ==
    /\ Goto(w, next)
    /\ hadWork' = [hadWork EXCEPT ![w] = had]
    /\ UNCHANGED <<queueVars, ringVars, countVars, stopVars, task, ret, clientVars>>

\* try_get_local_task(): the owner's end is the newest one.
PopLocal(w, next, had) ==
    /\ local[w] # <<>>
    /\ Run(w, Last(local[w]), next, had)
    /\ local' = [local EXCEPT ![w] = Front(@)]
    /\ UNCHANGED mpsc

\* try_get_from_mpsc()
PopMpsc(w, next) ==
    /\ HeadReady(w)
    /\ Run(w, Head(mpsc[w]).task, next, FALSE)
    /\ mpsc' = [mpsc EXCEPT ![w] = Tail(@)]
    /\ UNCHANGED local

\* The loop `while (had_work)': first the local queue, until it is empty ...
GetLocal(w) ==
    /\ wpc[w] = "scan"
    /\ PopLocal(w, "scan", TRUE)

\* ... then one stolen task: a thief can lose every race and find nothing ...
StealTask(w) ==
    /\ wpc[w] = "scan" /\ local[w] = <<>>
    /\ \/ \E v \in Workers \ {w} :
            /\ local[v] # <<>>
            /\ Run(w, Head(local[v]), "mpsc", TRUE)
            /\ local' = [local EXCEPT ![v] = Tail(@)]
            /\ UNCHANGED mpsc
       \/ Skip(w, "mpsc", hadWork[w])

\* Mutant of GetMpsc: looked at only after other work.
GetMpscIfBusy(w) ==
    /\ wpc[w] = "mpsc"
    /\ \/ hadWork[w] /\ PopMpsc(w, "scan")
       \/ /\ ~(hadWork[w] /\ HeadReady(w))
          /\ Skip(w, IF hadWork[w] THEN "scan" ELSE "wait", FALSE)

\* ... then one task from outside; and again if there was any work.
GetMpsc(w) ==
    /\ wpc[w] = "mpsc"
    /\ \/ PopMpsc(w, "scan")
       \/ /\ ~HeadReady(w)
          /\ Skip(w, IF hadWork[w] THEN "scan" ELSE "wait", FALSE)

\* wait_for_events(): a completion is there, or 100 ms have passed.
Completed(w) == cqes[w] # <<>> \/ ~armed[w]

WaitCqe(w) == wpc[w] = "wait" /\ Completed(w) /\ LoopHead(w)

\* Mutant of WaitTimeout: no timeout.
WaitForever(w) == FALSE /\ UNCHANGED vars

WaitTimeout(w) == wpc[w] = "wait" /\ ~Completed(w) /\ LoopHead(w)

\* After the loop: what is left in the worker's own queues.
DrainLocal(w) ==
    /\ wpc[w] = "drainLocal"
    /\ \/ PopLocal(w, "drainLocal", FALSE)
       \/ local[w] = <<>> /\ Skip(w, "drainMpsc", FALSE)

DrainMpsc(w) ==
    /\ wpc[w] = "drainMpsc"
    /\ \/ PopMpsc(w, "drainMpsc")
       \/ ~HeadReady(w) /\ Skip(w, "exited", FALSE)

-----------------------------------------------------------------------------
(* A task on worker w.                                                      *)

\* It submits another one, which goes to the local queue.
Spawn(w) ==
    /\ wpc[w] = "run" /\ submitted < MaxTasks
    /\ submitted' = submitted + 1
    /\ active' = active + 1
    /\ local' = [local EXCEPT ![w] = Append(@, submitted + 1)]
    /\ UNCHANGED <<mpsc, ringVars, sleeps, stopVars, workerVars, clientVars>>

\* The task has returned to w, which goes on.
GoOn(w) ==
    /\ Goto(w, ret[w])
    /\ ret' = [ret EXCEPT ![w] = "none"]

\* Mutant of Suspend: the coroutine is counted as completed.
SuspendUncounted(w) ==
    /\ wpc[w] = "run" /\ sleeps < MaxSleeps
    /\ io' = [io EXCEPT ![w] = @ \cup {task[w]}]
    /\ sleeps' = sleeps + 1
    /\ active' = active - 1
    /\ task' = [task EXCEPT ![w] = None]
    /\ GoOn(w)
    /\ UNCHANGED <<queueVars, eventfd, armed, cqes, submitted, stopVars, hadWork,
                   clientVars>>

\* A coroutine awaits an operation on this worker's ring.
Suspend(w) ==
    /\ wpc[w] = "run" /\ sleeps < MaxSleeps
    /\ io' = [io EXCEPT ![w] = @ \cup {task[w]}]
    /\ sleeps' = sleeps + 1
    /\ task' = [task EXCEPT ![w] = None]
    /\ GoOn(w)
    /\ UNCHANGED <<queueVars, eventfd, armed, cqes, active, submitted, stopVars,
                   hadWork, clientVars>>

\* Mutant of Finish: no notification.
FinishSilently(w) ==
    /\ wpc[w] = "run"
    /\ active' = active - 1
    /\ task' = [task EXCEPT ![w] = None]
    /\ GoOn(w)
    /\ UNCHANGED <<queueVars, ringVars, submitted, sleeps, stopVars, hadWork,
                   clientVars>>

\* decrement_tasks(): the last one notifies, after taking the mutex.
Finish(w) ==
    /\ wpc[w] = "run"
    /\ active' = active - 1
    /\ task' = [task EXCEPT ![w] = None]
    /\ IF active = 1 THEN Goto(w, "notify") /\ UNCHANGED ret ELSE GoOn(w)
    /\ UNCHANGED <<queueVars, ringVars, submitted, sleeps, stopVars, hadWork,
                   clientVars>>

NotifyAll(w) ==
    /\ wpc[w] = "notify"
    /\ cpc' = [c \in Clients |-> IF cpc[c] = "blocked" THEN "notified" ELSE cpc[c]]
    /\ GoOn(w)
    /\ UNCHANGED <<queueVars, ringVars, countVars, stopVars, task, hadWork,
                   ctask, target>>

-----------------------------------------------------------------------------
(* ~WorkStealingThreadPool(), once no other thread uses the pool.           *)

Stop ==
    /\ owner = "live" /\ \A c \in Clients : cpc[c] = "idle"
    /\ stop' = TRUE /\ owner' = "wake"
    /\ UNCHANGED <<queueVars, ringVars, countVars, workerVars, clientVars>>

WakeAllWorkers ==
    /\ owner = "wake" /\ owner' = "join"
    /\ eventfd' = [w \in Workers |-> eventfd[w] + 1]
    /\ UNCHANGED <<queueVars, armed, cqes, io, countVars, stop, workerVars,
                   clientVars>>

Join ==
    /\ owner = "join" /\ \A w \in Workers : wpc[w] = "exited"
    /\ owner' = "gone"
    /\ UNCHANGED <<queueVars, ringVars, countVars, stop, workerVars, clientVars>>

-----------------------------------------------------------------------------
ClientStep(c) ==
    \/ PushClaim(c) \/ PushPublish(c) \/ PushWake(c)
    \/ cpc[c] = "notified" /\ WaitAll(c)

WorkerStep(w) ==
    \/ Start(w) \/ Poll(w) \/ GetLocal(w) \/ StealTask(w) \/ GetMpsc(w)
    \/ WaitCqe(w) \/ DrainLocal(w) \/ DrainMpsc(w)
    \/ Suspend(w) \/ Finish(w) \/ NotifyAll(w)

OwnerStep == WakeAllWorkers \/ Join

Next ==
    \/ \E c \in Clients : Submit(c) \/ WaitAll(c) \/ ClientStep(c)
    \/ \E w \in Workers :
        WorkerStep(w) \/ Spawn(w) \/ WaitTimeout(w) \/ EventfdRead(w)
        \/ IoCompletes(w)
    \/ Stop \/ OwnerStep

Spec == Init /\ [][Next]_vars

\* Threads keep running, tasks return, submitted reads and I/O complete, and
\* the 100 ms timeout of a sleeping worker fires.
FairSpec ==
    /\ Spec
    /\ \A c \in Clients : WF_vars(ClientStep(c))
    /\ \A w \in Workers :
        /\ WF_vars(WorkerStep(w)) /\ WF_vars(WaitTimeout(w))
        /\ WF_vars(EventfdRead(w)) /\ WF_vars(IoCompletes(w))
    /\ WF_vars(OwnerStep)

-----------------------------------------------------------------------------
\* The tasks that are submitted and not completed, wherever they are.
Live ==
    (UNION {Range(local[w]) \cup io[w]
            \cup {e.task : e \in Range(mpsc[w])}
            \cup Range(cqes[w]) \cup {task[w]} : w \in Workers})
    \cup {ctask[c] : c \in Clients}

\* m_active_tasks counts every task from before it can be seen until it has
\* completed, across suspensions, steals and requeueing: wait_all() does not
\* return while a task, or one it spawned, is still on its way.
ActiveIsExact == active = Cardinality(Live \ {None})

\* The comment on m_event_fds: a task in the queue of a sleeping worker never
\* waits for the 100 ms timeout - a wake-up is there or on its way.
NoLostWakeup ==
    \A w \in Workers : wpc[w] = "wait" /\ HeadReady(w) =>
        \/ Completed(w)
        \/ eventfd[w] > 0
        \/ \E c \in Clients : cpc[c] = "wake" /\ target[c] = w

\* Every task is run to its end, wherever it is queued, also when the head of
\* its queue was not yet published when its worker looked.
TasksComplete == \A t \in Tasks : t \in Live ~> (t \notin Live \/ stop)

\* wait_all() returns once nothing is active.
WaitAllReturns ==
    \A c \in Clients : cpc[c] = "blocked" ~> (cpc[c] = "idle" \/ active > 0)

\* The destructor returns: every worker notices m_stop.  A worker that read the
\* flag before it was set can use up the wake-up of the destructor in poll()
\* and go to sleep: it is the timeout of wait_for_events() that gets it out.
PoolStops == stop ~> owner = "gone"

\* The comment at the end of worker_thread(): the remaining tasks are drained
\* before the worker exits.
StopDrainsQueues ==
    \A w \in Workers : wpc[w] = "exited" => local[w] = <<>> /\ mpsc[w] = <<>>
=============================================================================
