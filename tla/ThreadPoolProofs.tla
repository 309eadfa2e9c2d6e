-------------------------- MODULE ThreadPoolProofs --------------------------
(***************************************************************************)
(* Proofs about ThreadPool, for any number of workers and outside threads, *)
(* any capacity of the MPSC queues and any number of tasks: a sleeping     *)
(* worker with a task in its MPSC queue has a wake-up on its way, and      *)
(* m_active_tasks counts exactly the tasks that are not completed.         *)
(*                                                                         *)
(* The second needs to know that a task is in one place at a time, so that *)
(* its completion takes it out of the system: At names the places, and     *)
(* every step is described by what it does to them.                        *)
(***************************************************************************)
EXTENDS ThreadPool, FiniteSetTheorems, TLAPS

Entries == [task : Tasks, ready : BOOLEAN]

WorkerPcs == {"start", "poll", "scan", "mpsc", "wait", "run", "notify",
              "drainLocal", "drainMpsc", "exited"}
Returns == {"scan", "mpsc", "drainLocal", "drainMpsc"}
ClientPcs == {"idle", "push", "publish", "wake", "blocked", "notified"}

QueueTypes ==
    /\ local \in [Workers -> Seq(Tasks)] /\ mpsc \in [Workers -> Seq(Entries)]
    /\ cqes \in [Workers -> Seq(Tasks)] /\ io \in [Workers -> SUBSET Tasks]

ThreadTypes ==
    /\ eventfd \in [Workers -> Nat] /\ armed \in [Workers -> BOOLEAN]
    /\ stop \in BOOLEAN /\ owner \in {"live", "wake", "join", "gone"}
    /\ submitted \in 0..MaxTasks /\ sleeps \in 0..MaxSleeps
    /\ wpc \in [Workers -> WorkerPcs] /\ task \in [Workers -> Tasks \cup {None}]
    /\ ret \in [Workers -> Returns \cup {"none"}]
    /\ hadWork \in [Workers -> BOOLEAN]
    /\ cpc \in [Clients -> ClientPcs] /\ ctask \in [Clients -> Tasks \cup {None}]
    /\ target \in [Clients -> Workers \cup {None}]

\* What a thread holds follows from where it is.
ControlInv ==
    /\ \A w \in Workers : wpc[w] = "run" <=> task[w] # None
    /\ \A w \in Workers : wpc[w] \in {"run", "notify"} => ret[w] # "none"
    /\ \A c \in Clients : cpc[c] \in {"push", "publish"} <=> ctask[c] # None
    /\ \A c \in Clients : cpc[c] \in {"publish", "wake"} => target[c] \in Workers

\* Task t is in place k of thread x, at index i where the place is a queue.  A
\* claimed task is in the MPSC queue; its client only remembers it.
At(t, k, x, i) ==
    \/ k = "local" /\ x \in Workers /\ i \in 1..Len(local[x]) /\ local[x][i] = t
    \/ k = "mpsc" /\ x \in Workers /\ i \in 1..Len(mpsc[x])
       /\ mpsc[x][i].task = t
    \/ k = "cqes" /\ x \in Workers /\ i \in 1..Len(cqes[x]) /\ cqes[x][i] = t
    \/ k = "io" /\ x \in Workers /\ i = 0 /\ t \in io[x]
    \/ k = "task" /\ x \in Workers /\ i = 0 /\ t = task[x]
    \/ k = "client" /\ x \in Clients /\ i = 0 /\ cpc[x] = "push" /\ t = ctask[x]

Kinds == {"local", "mpsc", "cqes", "io", "task", "client"}
Threads == Workers \cup Clients

OnePlace ==
    \A t \in Tasks, k \in Kinds, l \in Kinds, x \in Threads, y \in Threads,
       i \in Nat, j \in Nat :
        At(t, k, x, i) /\ At(t, l, y, j) => k = l /\ x = y /\ i = j

\* The tasks to come are nowhere.
NoFutureTask ==
    \A t \in Tasks, k \in Kinds, x \in Threads, i \in Nat :
        At(t, k, x, i) => t <= submitted

\* A claimed slot keeps its task, unready, until its client publishes it.
ClaimedSlot(c, i) ==
    /\ i \in 1..Len(mpsc[target[c]])
    /\ mpsc[target[c]][i] = [task |-> ctask[c], ready |-> FALSE]

ClaimInv ==
    /\ \A c \in Clients : cpc[c] = "publish" => \E i \in Nat : ClaimedSlot(c, i)
    /\ \A c \in Clients, d \in Clients :
        cpc[c] = "publish" /\ cpc[d] = "publish" /\ ctask[c] = ctask[d] => c = d

\* The tasks that are somewhere.
Placed ==
    {t \in Tasks : \E k \in Kinds, x \in Threads, i \in Nat : At(t, k, x, i)}

ActiveInv == active = Cardinality(Placed)

PlaceInv == OnePlace /\ NoFutureTask /\ ClaimInv /\ ActiveInv

TypeOK == QueueTypes /\ ThreadTypes

IInv == TypeOK /\ ControlInv /\ NoLostWakeup /\ PlaceInv

-----------------------------------------------------------------------------
(* Types.                                                                   *)

QueueNames == <<local, mpsc, cqes, io>>

\* What Append, \o, Front and Tail leave is a sequence of the same elements.
LEMMA SeqFacts ==
    ASSUME NEW S, NEW s \in Seq(S)
    PROVE  /\ \A e \in S : Append(s, e) \in Seq(S)
           /\ \A u \in Seq(S) : s \o u \in Seq(S)
           /\ s # <<>> => /\ Front(s) \in Seq(S) /\ Tail(s) \in Seq(S)
                          /\ Last(s) \in S /\ Head(s) \in S
  <1>1. s # <<>> => Len(s) \in Nat /\ Len(s) >= 1
    OBVIOUS
  <1>2. ASSUME s # <<>>
        PROVE  Front(s) \in Seq(S) /\ Last(s) \in S
    BY <1>1, <1>2 DEF Front, Last
  <1>3. ASSUME s # <<>>
        PROVE  Tail(s) \in Seq(S) /\ Head(s) \in S
    BY <1>1, <1>3
  <1> QED
    BY <1>2, <1>3

\* Length and elements of Append(s, e).
LEMMA AppendFacts ==
    ASSUME NEW S, NEW s \in Seq(S), NEW e \in S
    PROVE  /\ Append(s, e) # <<>> /\ Len(Append(s, e)) = Len(s) + 1
           /\ \A i \in 1..Len(s) + 1 :
                Append(s, e)[i] = IF i = Len(s) + 1 THEN e ELSE s[i]
  <1>1. Len(Append(s, e)) = Len(s) + 1 /\ Len(s) \in Nat /\ Len(<<>>) = 0
    OBVIOUS
  <1>2. Append(s, e) # <<>>
    BY <1>1
  <1> QED
    BY <1>1, <1>2

\* Publishing a slot leaves a sequence of slots.
LEMMA PublishType ==
    ASSUME NEW q \in Seq(Entries), NEW t
    PROVE  [i \in DOMAIN q |-> IF q[i].task = t THEN [q[i] EXCEPT !.ready = TRUE]
                               ELSE q[i]] \in Seq(Entries)
  <1> DEFINE r == [i \in DOMAIN q |->
                    IF q[i].task = t THEN [q[i] EXCEPT !.ready = TRUE] ELSE q[i]]
  <1>1. DOMAIN q = 1..Len(q) /\ Len(q) \in Nat
    OBVIOUS
  <1>2. \A i \in 1..Len(q) : r[i] \in Entries
    <2> SUFFICES ASSUME NEW i \in 1..Len(q)
                 PROVE  r[i] \in Entries
      OBVIOUS
    <2>1. q[i] \in Entries
      BY <1>1
    <2>2. [q[i] EXCEPT !.ready = TRUE] \in Entries
      BY <2>1 DEF Entries
    <2> QED
      BY <1>1, <2>1, <2>2
  <1> HIDE DEF r
  <1>3. r = [i \in 1..Len(q) |-> r[i]]
    BY <1>1 DEF r
  <1>4. r \in Seq(Entries)
    BY <1>1, <1>2, <1>3
  <1> QED
    BY <1>4 DEF r

\* Every step keeps the queues well-typed.
LEMMA QueuesStayTyped == TypeOK /\ ControlInv /\ [Next]_vars => QueueTypes'
  <1> SUFFICES ASSUME TypeOK, ControlInv, [Next]_vars
               PROVE  QueueTypes'
    OBVIOUS
  <1> USE DEF TypeOK, QueueTypes
  <1>0. ASSUME UNCHANGED QueueNames
        PROVE  QueueTypes'
    BY <1>0 DEF QueueNames
  <1>1. ASSUME NEW w \in Workers, NEW n, NEW h, PopLocal(w, n, h)
        PROVE  QueueTypes'
    <2>1. Front(local[w]) \in Seq(Tasks)
      BY <1>1, SeqFacts DEF PopLocal
    <2> QED
      BY <1>1, <2>1 DEF PopLocal, Run, ringVars
  <1>2. ASSUME NEW w \in Workers, NEW n, PopMpsc(w, n)
        PROVE  QueueTypes'
    <2>1. Tail(mpsc[w]) \in Seq(Entries)
      BY <1>2, SeqFacts DEF PopMpsc, HeadReady
    <2> QED
      BY <1>2, <2>1 DEF PopMpsc, Run, ringVars
  <1>3. ASSUME NEW c \in Clients, PushClaim(c)
        PROVE  QueueTypes'
    <2>1. PICK w \in Workers : mpsc' = [mpsc EXCEPT ![w] =
                        Append(mpsc[w], [task |-> ctask[c], ready |-> FALSE])]
      BY <1>3 DEF PushClaim
    <2>2. ctask[c] \in Tasks
      BY <1>3 DEF PushClaim, ControlInv, ThreadTypes
    <2>3. [task |-> ctask[c], ready |-> FALSE] \in Entries
      BY <2>2 DEF Entries
    <2>4. Append(mpsc[w], [task |-> ctask[c], ready |-> FALSE]) \in Seq(Entries)
      BY <2>3, SeqFacts
    <2> QED
      BY <1>3, <2>1, <2>4 DEF PushClaim, ringVars
  <1>4. ASSUME NEW c \in Clients, PushPublish(c)
        PROVE  QueueTypes'
    <2>1. target[c] \in Workers
      BY <1>4 DEF PushPublish, ControlInv
    <2>2. mpsc[target[c]] \in Seq(Entries)
      BY <2>1
    <2>3. mpsc'[target[c]] \in Seq(Entries)
      BY <1>4, <2>1, <2>2, PublishType DEF PushPublish
    <2> QED
      BY <1>4, <2>1, <2>3 DEF PushPublish, ringVars
  <1>5. ASSUME NEW w \in Workers, IoCompletes(w)
        PROVE  QueueTypes'
    <2>1. PICK t \in io[w] : /\ io' = [io EXCEPT ![w] = @ \ {t}]
                             /\ cqes' = [cqes EXCEPT ![w] = Append(@, t)]
      BY <1>5 DEF IoCompletes
    <2>2. Append(cqes[w], t) \in Seq(Tasks)
      BY SeqFacts
    <2> QED
      BY <1>5, <2>1, <2>2 DEF IoCompletes, queueVars
  <1>6. ASSUME NEW w \in Workers, Poll(w)
        PROVE  QueueTypes'
    <2>1. local[w] \o cqes[w] \in Seq(Tasks)
      BY SeqFacts
    <2> QED
      BY <1>6, <2>1 DEF Poll, Requeue
  <1>7. ASSUME NEW w \in Workers, Spawn(w)
        PROVE  QueueTypes'
    <2>1. submitted + 1 \in Tasks
      BY <1>7, PoolAssumption DEF Spawn, ThreadTypes, Tasks
    <2>2. Append(local[w], submitted + 1) \in Seq(Tasks)
      BY <2>1, SeqFacts
    <2> QED
      BY <1>7, <2>2 DEF Spawn, ringVars
  <1>8. ASSUME NEW w \in Workers, Suspend(w)
        PROVE  QueueTypes'
    <2>1. task[w] \in Tasks
      BY <1>8 DEF Suspend, ControlInv, ThreadTypes
    <2> QED
      BY <1>8, <2>1 DEF Suspend, queueVars
  <1>9. ASSUME NEW w \in Workers, StealTask(w)
        PROVE  QueueTypes'
    <2>1. CASE Skip(w, "mpsc", hadWork[w])
      BY <2>1, <1>0 DEF Skip, queueVars, ringVars, QueueNames
    <2>2. ASSUME NEW v \in Workers \ {w}, local[v] # <<>>,
                 Run(w, Head(local[v]), "mpsc", TRUE),
                 local' = [local EXCEPT ![v] = Tail(@)], UNCHANGED mpsc
          PROVE  QueueTypes'
      <3>1. Tail(local[v]) \in Seq(Tasks)
        BY <2>2, SeqFacts
      <3> QED
        BY <2>2, <3>1 DEF Run, ringVars
    <2> QED
      BY <1>9, <2>1, <2>2 DEF StealTask
  <1>10. ASSUME NEW w \in Workers,
                Start(w) \/ WaitCqe(w) \/ WaitTimeout(w) \/ Finish(w)
                \/ NotifyAll(w) \/ EventfdRead(w)
         PROVE  QueueTypes'
    BY <1>10, <1>0 DEF Start, WaitCqe, WaitTimeout, LoopHead, Finish, NotifyAll,
        EventfdRead, queueVars, ringVars, QueueNames
  <1>11. ASSUME NEW w \in Workers, GetLocal(w) \/ DrainLocal(w) \/ GetMpsc(w)
                                   \/ DrainMpsc(w)
         PROVE  QueueTypes'
    <2>1. ASSUME NEW n, NEW h, Skip(w, n, h)
          PROVE  QueueTypes'
      BY <2>1, <1>0 DEF Skip, queueVars, ringVars, QueueNames
    <2> QED
      BY <1>11, <2>1, <1>1, <1>2 DEF GetLocal, DrainLocal, GetMpsc, DrainMpsc
  <1>12. ASSUME NEW c \in Clients, Submit(c) \/ WaitAll(c) \/ PushWake(c)
         PROVE  QueueTypes'
    BY <1>12, <1>0 DEF Submit, WaitAll, PushWake, queueVars, ringVars, QueueNames
  <1>13. CASE Stop \/ WakeAllWorkers \/ Join \/ UNCHANGED vars
    BY <1>13, <1>0 DEF Stop, WakeAllWorkers, Join, vars, queueVars, ringVars,
        QueueNames
  <1> QED
    BY <1>3, <1>4, <1>5, <1>6, <1>7, <1>8, <1>9, <1>10, <1>11, <1>12, <1>13
       DEF Next, ClientStep, WorkerStep, OwnerStep

\* Setting one flag of a function of flags.
LEMMA SetFlag ==
    ASSUME NEW S, NEW f \in [S -> BOOLEAN], NEW x \in S, NEW b \in BOOLEAN
    PROVE  [f EXCEPT ![x] = b] \in [S -> BOOLEAN]
  OBVIOUS

\* Every step keeps counters, flags and program counters well-typed.
LEMMA ThreadsStayTyped == TypeOK /\ ControlInv /\ [Next]_vars => ThreadTypes'
  <1> SUFFICES ASSUME TypeOK, ControlInv, [Next]_vars
               PROVE  ThreadTypes'
    OBVIOUS
  <1> USE DEF TypeOK, ThreadTypes, WorkerPcs, Returns, ClientPcs, Goto, ClientGoto,
              ringVars, countVars, stopVars, workerVars, clientVars
  <1>1. ASSUME NEW w \in Workers, NEW t \in Tasks, NEW n \in Returns,
               NEW h \in BOOLEAN, Run(w, t, n, h)
        PROVE  ThreadTypes'
    BY <1>1 DEF Run
  <1>2. ASSUME NEW w \in Workers, NEW n \in WorkerPcs, NEW h \in BOOLEAN,
               Skip(w, n, h)
        PROVE  ThreadTypes'
    BY <1>2 DEF Skip
  <1>3. ASSUME NEW w \in Workers, NEW n \in Returns, NEW h \in BOOLEAN,
               PopLocal(w, n, h)
        PROVE  ThreadTypes'
    <2>1. Last(local[w]) \in Tasks
      BY <1>3, SeqFacts DEF PopLocal, QueueTypes
    <2> QED
      BY <1>1, <1>3, <2>1 DEF PopLocal
  <1>4. ASSUME NEW w \in Workers, NEW n \in Returns, PopMpsc(w, n)
        PROVE  ThreadTypes'
    <2>1. Head(mpsc[w]) \in Entries
      BY <1>4, SeqFacts DEF PopMpsc, HeadReady, QueueTypes
    <2>2. Head(mpsc[w]).task \in Tasks
      BY <2>1 DEF Entries
    <2> QED
      BY <1>1, <1>4, <2>2 DEF PopMpsc
  <1>5. ASSUME NEW w \in Workers, StealTask(w)
        PROVE  ThreadTypes'
    <2>1. CASE Skip(w, "mpsc", hadWork[w])
      BY <2>1, <1>2
    <2>2. ASSUME NEW v \in Workers \ {w}, local[v] # <<>>,
                 Run(w, Head(local[v]), "mpsc", TRUE)
          PROVE  ThreadTypes'
      <3>1. Head(local[v]) \in Tasks
        BY <2>2, SeqFacts DEF QueueTypes
      <3> QED
        BY <1>1, <2>2, <3>1
    <2> QED
      BY <1>5, <2>1, <2>2 DEF StealTask
  <1>6. ASSUME NEW w \in Workers, GetLocal(w) \/ DrainLocal(w)
        PROVE  ThreadTypes'
    BY <1>6, <1>2, <1>3 DEF GetLocal, DrainLocal
  <1>7. ASSUME NEW w \in Workers, GetMpsc(w) \/ DrainMpsc(w)
        PROVE  ThreadTypes'
    <2>1. (IF hadWork[w] THEN "scan" ELSE "wait") \in WorkerPcs
      OBVIOUS
    <2> QED
      BY <1>7, <1>2, <1>4, <2>1 DEF GetMpsc, DrainMpsc
  <1>8. ASSUME NEW w \in Workers, Start(w) \/ WaitCqe(w) \/ WaitTimeout(w)
        PROVE  ThreadTypes'
    BY <1>8 DEF Start, WaitCqe, WaitTimeout, LoopHead
  <1>9. ASSUME NEW w \in Workers, Suspend(w)
        PROVE  ThreadTypes'
    BY <1>9, PoolAssumption DEF Suspend, GoOn, ControlInv
  <1>10. ASSUME NEW w \in Workers, Finish(w)
         PROVE  ThreadTypes'
    BY <1>10 DEF Finish, GoOn, ControlInv
  <1>11. ASSUME NEW w \in Workers, NotifyAll(w)
         PROVE  ThreadTypes'
    BY <1>11 DEF NotifyAll, GoOn, ControlInv
  <1>12. ASSUME NEW w \in Workers, Spawn(w)
         PROVE  ThreadTypes'
    BY <1>12, PoolAssumption DEF Spawn
  <1>13. ASSUME NEW w \in Workers, Poll(w)
         PROVE  ThreadTypes'
    <2>1. CASE armed[w]
      BY <1>13, <2>1 DEF Poll, Requeue
    <2>2. CASE ~armed[w]
      <3>1. armed' = [armed EXCEPT ![w] = TRUE]
        BY <1>13, <2>2 DEF Poll
      <3>2. armed' \in [Workers -> BOOLEAN]
        BY <3>1, SetFlag
      <3> QED
        BY <1>13, <2>2, <3>2 DEF Poll, Requeue
    <2> QED
      BY <2>1, <2>2
  <1>14. ASSUME NEW w \in Workers, EventfdRead(w) \/ IoCompletes(w)
         PROVE  ThreadTypes'
    <2>1. CASE EventfdRead(w)
      <3>1. armed' = [armed EXCEPT ![w] = FALSE]
        BY <2>1 DEF EventfdRead
      <3>2. armed' \in [Workers -> BOOLEAN]
        BY <3>1, SetFlag
      <3> QED
        BY <2>1, <3>2 DEF EventfdRead
    <2>2. CASE IoCompletes(w)
      BY <2>2 DEF IoCompletes
    <2> QED
      BY <1>14, <2>1, <2>2
  <1>15. ASSUME NEW c \in Clients, Submit(c)
         PROVE  ThreadTypes'
    BY <1>15, PoolAssumption DEF Submit, Tasks
  <1>16. ASSUME NEW c \in Clients, PushClaim(c)
         PROVE  ThreadTypes'
    BY <1>16 DEF PushClaim
  <1>17. ASSUME NEW c \in Clients, PushPublish(c)
         PROVE  ThreadTypes'
    BY <1>17 DEF PushPublish
  <1>18. ASSUME NEW c \in Clients, PushWake(c)
         PROVE  ThreadTypes'
    BY <1>18 DEF PushWake, WakeWorker, ControlInv
  <1>19. ASSUME NEW c \in Clients, WaitAll(c)
         PROVE  ThreadTypes'
    BY <1>19 DEF WaitAll
  <1>20. CASE Stop \/ Join \/ UNCHANGED vars
    BY <1>20 DEF Stop, Join, vars
  <1>21. CASE WakeAllWorkers
    BY <1>21 DEF WakeAllWorkers
  <1> QED
    BY <1>5, <1>6, <1>7, <1>8, <1>9, <1>10, <1>11, <1>12, <1>13, <1>14, <1>15,
       <1>16, <1>17, <1>18, <1>19, <1>20, <1>21
       DEF Next, ClientStep, WorkerStep, OwnerStep

\* Every step keeps what a thread holds in line with where it is.
LEMMA ControlStep ==
    TypeOK /\ ControlInv /\ [Next]_vars => ControlInv'
  <1> SUFFICES ASSUME TypeOK, ControlInv, [Next]_vars
               PROVE  ControlInv'
    OBVIOUS
  <1> USE DEF TypeOK, ThreadTypes, ControlInv, Goto, ClientGoto, Returns, None,
              Tasks, workerVars, clientVars
  <1>1. ASSUME NEW w \in Workers, NEW t \in Tasks, NEW n \in Returns, NEW h,
               Run(w, t, n, h)
        PROVE  ControlInv'
    BY <1>1 DEF Run
  <1>2. ASSUME NEW w \in Workers, wpc[w] # "run",
               NEW n \in WorkerPcs \ {"run", "notify"}, NEW h, Skip(w, n, h)
        PROVE  ControlInv'
    BY <1>2 DEF Skip
  <1>3. ASSUME NEW w \in Workers, NEW n \in Returns, NEW h, PopLocal(w, n, h)
        PROVE  ControlInv'
    <2>1. Last(local[w]) \in Tasks
      BY <1>3, SeqFacts DEF PopLocal, QueueTypes
    <2> QED
      BY <1>1, <1>3, <2>1 DEF PopLocal
  <1>4. ASSUME NEW w \in Workers, NEW n \in Returns, PopMpsc(w, n)
        PROVE  ControlInv'
    <2>1. Head(mpsc[w]) \in Entries
      BY <1>4, SeqFacts DEF PopMpsc, HeadReady, QueueTypes
    <2>2. Head(mpsc[w]).task \in Tasks
      BY <2>1 DEF Entries
    <2> QED
      BY <1>1, <1>4, <2>2 DEF PopMpsc
  <1>5. ASSUME NEW w \in Workers, StealTask(w)
        PROVE  ControlInv'
    <2>1. CASE Skip(w, "mpsc", hadWork[w])
      BY <1>5, <2>1, <1>2 DEF StealTask, WorkerPcs
    <2>2. ASSUME NEW v \in Workers \ {w}, local[v] # <<>>,
                 Run(w, Head(local[v]), "mpsc", TRUE)
          PROVE  ControlInv'
      <3>1. Head(local[v]) \in Tasks
        BY <2>2, SeqFacts DEF QueueTypes
      <3> QED
        BY <1>1, <2>2, <3>1
    <2> QED
      BY <1>5, <2>1, <2>2 DEF StealTask
  <1>6. ASSUME NEW w \in Workers, GetLocal(w) \/ DrainLocal(w)
        PROVE  ControlInv'
    BY <1>6, <1>2, <1>3 DEF GetLocal, DrainLocal, WorkerPcs
  <1>7. ASSUME NEW w \in Workers, GetMpsc(w) \/ DrainMpsc(w)
        PROVE  ControlInv'
    <2>1. (IF hadWork[w] THEN "scan" ELSE "wait") \in WorkerPcs \ {"run", "notify"}
      BY DEF WorkerPcs
    <2>2. "exited" \in WorkerPcs \ {"run", "notify"}
      BY DEF WorkerPcs
    <2> QED
      BY <1>7, <1>2, <1>4, <2>1, <2>2 DEF GetMpsc, DrainMpsc
  <1>8. ASSUME NEW w \in Workers, Start(w) \/ WaitCqe(w) \/ WaitTimeout(w)
        PROVE  ControlInv'
    BY <1>8 DEF Start, WaitCqe, WaitTimeout, LoopHead
  <1>9. ASSUME NEW w \in Workers, Suspend(w) \/ Finish(w)
        PROVE  ControlInv'
    <2>1. CASE Suspend(w)
      BY <2>1 DEF Suspend, GoOn
    <2>2. CASE Finish(w) /\ active = 1
      BY <2>2 DEF Finish
    <2>3. CASE Finish(w) /\ active # 1
      BY <2>3 DEF Finish, GoOn
    <2> QED
      BY <1>9, <2>1, <2>2, <2>3
  <1>10. ASSUME NEW w \in Workers, NotifyAll(w)
         PROVE  ControlInv'
    BY <1>10 DEF NotifyAll, GoOn
  <1>11. ASSUME NEW w \in Workers, Spawn(w) \/ EventfdRead(w) \/ IoCompletes(w)
         PROVE  ControlInv'
    BY <1>11 DEF Spawn, EventfdRead, IoCompletes
  <1>12. ASSUME NEW w \in Workers, Poll(w)
         PROVE  ControlInv'
    BY <1>12 DEF Poll, Requeue
  <1>13. ASSUME NEW c \in Clients, Submit(c)
         PROVE  ControlInv'
    BY <1>13 DEF Submit
  <1>14. ASSUME NEW c \in Clients, PushClaim(c)
         PROVE  ControlInv'
    BY <1>14 DEF PushClaim
  <1>15. ASSUME NEW c \in Clients, PushPublish(c) \/ PushWake(c) \/ WaitAll(c)
         PROVE  ControlInv'
    BY <1>15 DEF PushPublish, PushWake, WaitAll
  <1>16. CASE Stop \/ WakeAllWorkers \/ Join \/ UNCHANGED vars
    BY <1>16 DEF Stop, WakeAllWorkers, Join, vars
  <1> QED
    BY <1>5, <1>6, <1>7, <1>8, <1>9, <1>10, <1>11, <1>12, <1>13, <1>14, <1>15,
       <1>16 DEF Next, ClientStep, WorkerStep, OwnerStep

-----------------------------------------------------------------------------
(* Wake-ups.  The head of a sleeping worker's queue becomes ready only when *)
(* a client publishes it, and that client then writes the eventfd.          *)

WokenUp(w) ==
    \/ Completed(w)
    \/ eventfd[w] > 0
    \/ \E c \in Clients : cpc[c] = "wake" /\ target[c] = w

\* Every step keeps the wake-up of a sleeping worker.
LEMMA WakeStep ==
    TypeOK /\ ControlInv /\ NoLostWakeup /\ [Next]_vars => NoLostWakeup'
  <1> SUFFICES ASSUME TypeOK, ControlInv, NoLostWakeup, [Next]_vars,
                      NEW v \in Workers, (wpc[v] = "wait")', HeadReady(v)'
               PROVE  WokenUp(v)'
    BY DEF NoLostWakeup, WokenUp
  <1> USE DEF TypeOK, ThreadTypes, Goto, ClientGoto, queueVars, ringVars,
              workerVars, clientVars
  <1>old. wpc[v] = "wait" /\ HeadReady(v) => WokenUp(v)
    BY DEF NoLostWakeup, WokenUp
  \* Steps of other threads that neither publish nor use up a wake-up of v.
  <1>1. ASSUME wpc'[v] = wpc[v], mpsc'[v] = mpsc[v], cqes'[v] = cqes[v],
               armed'[v] = armed[v], eventfd'[v] = eventfd[v],
               \A c \in Clients : cpc[c] = "wake" => cpc'[c] = "wake"
                                                     /\ target'[c] = target[c]
        PROVE  WokenUp(v)'
    <2>1. wpc[v] = "wait" /\ HeadReady(v)
      BY <1>1 DEF HeadReady
    <2> QED
      BY <1>1, <2>1, <1>old DEF WokenUp, Completed
  <1>2. ASSUME NEW w \in Workers, NEW t, NEW n, NEW h, Run(w, t, n, h),
               mpsc' = mpsc \/ mpsc' = [mpsc EXCEPT ![w] = Tail(@)]
        PROVE  WokenUp(v)'
    <2>1. v # w
      BY <1>2 DEF Run
    <2>2. mpsc'[v] = mpsc[v]
      BY <1>2, <2>1 DEF QueueTypes
    <2> QED
      BY <1>1, <1>2, <2>1, <2>2 DEF Run
  <1>3. ASSUME NEW w \in Workers, NEW n, NEW h, n # "wait" \/ ~HeadReady(w),
               Skip(w, n, h)
        PROVE  WokenUp(v)'
    <2>1. v # w
      BY <1>3 DEF Skip, HeadReady
    <2> QED
      BY <1>1, <1>3, <2>1 DEF Skip
  <1>4. ASSUME NEW w \in Workers, StealTask(w)
        PROVE  WokenUp(v)'
    BY <1>2, <1>3, <1>4 DEF StealTask
  <1>5. ASSUME NEW w \in Workers, GetLocal(w) \/ DrainLocal(w)
        PROVE  WokenUp(v)'
    BY <1>2, <1>3, <1>5 DEF GetLocal, DrainLocal, PopLocal
  <1>6. ASSUME NEW w \in Workers, GetMpsc(w) \/ DrainMpsc(w)
        PROVE  WokenUp(v)'
    BY <1>2, <1>3, <1>6 DEF GetMpsc, DrainMpsc, PopMpsc
  <1>7. ASSUME NEW w \in Workers,
               Start(w) \/ WaitCqe(w) \/ WaitTimeout(w)
        PROVE  WokenUp(v)'
    <2>1. LoopHead(w)
      BY <1>7 DEF Start, WaitCqe, WaitTimeout
    <2>2. v # w
      BY <2>1 DEF LoopHead
    <2> QED
      BY <1>1, <2>1, <2>2 DEF LoopHead
  <1>8. ASSUME NEW w \in Workers, Suspend(w) \/ Finish(w)
        PROVE  WokenUp(v)'
    <2>1. v # w
      BY <1>8 DEF Suspend, Finish, GoOn, Returns, ControlInv
    <2>2. wpc'[v] = wpc[v]
      BY <1>8, <2>1 DEF Suspend, Finish, GoOn
    <2> QED
      BY <1>1, <1>8, <2>2 DEF Suspend, Finish
  <1>9. ASSUME NEW w \in Workers, NotifyAll(w)
        PROVE  WokenUp(v)'
    <2>1. v # w
      BY <1>9 DEF NotifyAll, GoOn, Returns, ControlInv
    <2> QED
      BY <1>1, <1>9, <2>1 DEF NotifyAll, GoOn
  <1>10. ASSUME NEW w \in Workers, Spawn(w)
         PROVE  WokenUp(v)'
    BY <1>1, <1>10 DEF Spawn
  <1>11. ASSUME NEW w \in Workers, Poll(w)
         PROVE  WokenUp(v)'
    <2>1. v # w
      BY <1>11 DEF Poll, Requeue
    <2>2. cqes'[v] = cqes[v] /\ wpc'[v] = wpc[v] /\ mpsc'[v] = mpsc[v]
      BY <1>11, <2>1 DEF Poll, Requeue, QueueTypes
    <2>3. armed'[v] = armed[v] /\ eventfd'[v] = eventfd[v]
      BY <1>11, <2>1 DEF Poll
    <2> QED
      BY <1>1, <1>11, <2>2, <2>3 DEF Poll, Requeue
  <1>12. ASSUME NEW w \in Workers, EventfdRead(w)
         PROVE  WokenUp(v)'
    <2>1. CASE v = w
      BY <1>12, <2>1 DEF EventfdRead, WokenUp, Completed
    <2>2. CASE v # w
      BY <1>1, <1>12, <2>2 DEF EventfdRead
    <2> QED
      BY <2>1, <2>2
  <1>13. ASSUME NEW w \in Workers, IoCompletes(w)
         PROVE  WokenUp(v)'
    <2>1. PICK t \in io[w] : cqes' = [cqes EXCEPT ![w] = Append(@, t)]
      BY <1>13 DEF IoCompletes
    <2>2. CASE v = w
      <3>1. cqes'[v] = Append(cqes[v], t) /\ cqes[v] \in Seq(Tasks) /\ t \in Tasks
        BY <2>1, <2>2 DEF QueueTypes
      <3>2. cqes'[v] # <<>>
        BY <3>1, AppendFacts
      <3> QED
        BY <3>2 DEF WokenUp, Completed
    <2>3. CASE v # w
      BY <1>1, <1>13, <2>1, <2>3 DEF IoCompletes, QueueTypes
    <2> QED
      BY <2>2, <2>3
  <1>14. ASSUME NEW c \in Clients, Submit(c) \/ WaitAll(c)
         PROVE  WokenUp(v)'
    BY <1>1, <1>14 DEF Submit, WaitAll
  \* A claimed slot is not ready: the head of the queue is the one it was.
  <1>15. ASSUME NEW c \in Clients, PushClaim(c)
         PROVE  WokenUp(v)'
    <2> DEFINE e == [task |-> ctask[c], ready |-> FALSE]
    <2>1. PICK w \in Workers :
            /\ mpsc' = [mpsc EXCEPT ![w] = Append(@, e)]
            /\ target' = [target EXCEPT ![c] = w]
      BY <1>15 DEF PushClaim
    <2>2. HeadReady(v)
      <3>1. CASE v # w
        BY <2>1, <3>1 DEF HeadReady, QueueTypes
      <3>2. CASE v = w
        <4>1. mpsc'[v] = Append(mpsc[v], e) /\ mpsc[v] \in Seq(Entries)
          BY <2>1, <3>2 DEF QueueTypes
        <4>2. e \in [task : Tasks \cup {None}, ready : BOOLEAN] /\ ~e.ready
          OBVIOUS
        <4> HIDE DEF e
        <4>3. mpsc[v] = <<>> => Head(mpsc'[v]) = e
          BY <4>1
        <4>4. mpsc[v] # <<>> => Head(mpsc'[v]) = Head(mpsc[v])
          BY <4>1
        <4> QED
          BY <4>2, <4>3, <4>4 DEF HeadReady
      <3> QED
        BY <3>1, <3>2
    <2>3. wpc[v] = "wait" /\ WokenUp(v)
      BY <1>15, <1>old, <2>2 DEF PushClaim
    <2> QED
      BY <1>15, <2>1, <2>3 DEF PushClaim, WokenUp, Completed
  <1>16. ASSUME NEW c \in Clients, PushPublish(c)
         PROVE  WokenUp(v)'
    <2>1. CASE v = target[c]
      BY <1>16, <2>1 DEF PushPublish, WokenUp
    <2>2. CASE v # target[c]
      <3>1. mpsc'[v] = mpsc[v]
        BY <1>16, <2>2 DEF PushPublish, QueueTypes
      <3> QED
        BY <1>1, <1>16, <3>1 DEF PushPublish
    <2> QED
      BY <2>1, <2>2
  <1>17. ASSUME NEW c \in Clients, PushWake(c)
         PROVE  WokenUp(v)'
    <2>1. CASE v = target[c]
      <3>1. eventfd'[v] > 0
        BY <1>17, <2>1 DEF PushWake, WakeWorker
      <3> QED
        BY <3>1 DEF WokenUp
    <2>2. CASE v # target[c]
      <3>1. wpc[v] = "wait" /\ HeadReady(v)
        BY <1>17 DEF PushWake, HeadReady
      <3>2. WokenUp(v)
        BY <3>1, <1>old
      <3>3. eventfd'[v] = eventfd[v]
        BY <1>17, <2>2 DEF PushWake, WakeWorker
      <3> QED
        BY <1>17, <2>2, <3>2, <3>3 DEF PushWake, WokenUp, Completed
    <2> QED
      BY <2>1, <2>2
  <1>18. CASE WakeAllWorkers
    <2>1. eventfd'[v] > 0
      BY <1>18 DEF WakeAllWorkers
    <2> QED
      BY <2>1 DEF WokenUp
  <1>19. CASE Stop \/ Join \/ UNCHANGED vars
    BY <1>1, <1>19 DEF Stop, Join, vars
  <1> QED
    BY <1>4, <1>5, <1>6, <1>7, <1>8, <1>9, <1>10, <1>11, <1>12, <1>13, <1>14,
       <1>15, <1>16, <1>17, <1>18, <1>19 DEF Next, ClientStep, WorkerStep, OwnerStep

-----------------------------------------------------------------------------
(* What a step does to the places of the tasks.                             *)

CountInv == OnePlace /\ NoFutureTask /\ ActiveInv

\* Nothing moves.
Stays ==
    \A t \in Tasks, k \in Kinds, x \in Threads, i \in Nat :
        At(t, k, x, i)' <=> At(t, k, x, i)

\* Task a, wherever it was, is now in the given place.
MovedTo(a, k2, x2, i2) ==
    \A t \in Tasks, k \in Kinds, x \in Threads, i \in Nat :
        At(t, k, x, i)' <=> IF t = a THEN k = k2 /\ x = x2 /\ i = i2
                            ELSE At(t, k, x, i)

\* Task a was the head of a queue, whose other tasks move up.
HeadMovedTo(a, k1, x1, k2, x2, i2) ==
    \A t \in Tasks, k \in Kinds, x \in Threads, i \in Nat :
        At(t, k, x, i)' <=> IF t = a THEN k = k2 /\ x = x2 /\ i = i2
                            ELSE IF k = k1 /\ x = x1
                                 THEN i # 0 /\ At(t, k, x, i + 1)
                                 ELSE At(t, k, x, i)

\* Task a is gone.
Gone(a) ==
    \A t \in Tasks, k \in Kinds, x \in Threads, i \in Nat :
        At(t, k, x, i)' <=> t # a /\ At(t, k, x, i)

\* There are at most MaxTasks tasks anywhere.
LEMMA PlacedIsFinite == IsFiniteSet(Placed)
  <1>1. IsFiniteSet(Tasks)
    BY PoolAssumption, FS_Interval DEF Tasks
  <1> QED
    BY <1>1, FS_Subset DEF Placed

\* A step that moves nothing keeps the count.
LEMMA CountIfStays ==
    CountInv /\ Stays /\ submitted' = submitted /\ active' = active => CountInv'
  <1> SUFFICES ASSUME CountInv, Stays, submitted' = submitted, active' = active
               PROVE  CountInv'
    OBVIOUS
  <1>1. OnePlace'
    BY DEF CountInv, OnePlace, Stays
  <1>2. NoFutureTask'
    BY DEF CountInv, NoFutureTask, Stays
  <1>3. Placed' = Placed
    BY DEF Placed, Stays
  <1> QED
    BY <1>1, <1>2, <1>3 DEF CountInv, ActiveInv

\* A step that moves one task keeps the count.
LEMMA CountIfMoved ==
    ASSUME CountInv, submitted' = submitted, active' = active,
           NEW a \in Tasks, NEW k1 \in Kinds, NEW x1 \in Threads, NEW i1 \in Nat,
           NEW k2 \in Kinds, NEW x2 \in Threads, NEW i2 \in Nat,
           At(a, k1, x1, i1), MovedTo(a, k2, x2, i2)
    PROVE  CountInv'
  <1>1. OnePlace'
    BY DEF CountInv, OnePlace, MovedTo
  <1>2. NoFutureTask'
    BY DEF CountInv, NoFutureTask, MovedTo
  <1>3. ASSUME NEW t \in Tasks
        PROVE  t \in Placed' <=> t \in Placed
    <2>1. CASE t = a
      <3>1. t \in Placed
        BY <2>1 DEF Placed
      <3>2. At(t, k2, x2, i2)'
        BY <2>1 DEF MovedTo
      <3>3. t \in Placed'
        BY <3>2 DEF Placed
      <3> QED
        BY <3>1, <3>3
    <2>2. CASE t # a
      <3>1. \A k \in Kinds, x \in Threads, i \in Nat :
                At(t, k, x, i)' <=> At(t, k, x, i)
        BY <2>2 DEF MovedTo
      <3> QED
        BY <3>1 DEF Placed
    <2> QED
      BY <2>1, <2>2
  <1>4. Placed' = Placed
    BY <1>3 DEF Placed
  <1> QED
    BY <1>1, <1>2, <1>4 DEF CountInv, ActiveInv

\* A step that takes the head of a queue keeps the count.
LEMMA CountIfHeadMoved ==
    ASSUME CountInv, submitted' = submitted, active' = active,
           NEW a \in Tasks, NEW k1 \in Kinds, NEW x1 \in Threads,
           NEW k2 \in Kinds, NEW x2 \in Threads, NEW i2 \in Nat,
           At(a, k1, x1, 1), \A t \in Tasks : At(t, k1, x1, 1) => t = a,
           \A t \in Tasks : ~At(t, k1, x1, 0),
           HeadMovedTo(a, k1, x1, k2, x2, i2)
    PROVE  CountInv'
  <1>1. OnePlace'
    <2> SUFFICES ASSUME NEW t \in Tasks, NEW k \in Kinds, NEW l \in Kinds,
                        NEW x \in Threads, NEW y \in Threads,
                        NEW i \in Nat, NEW j \in Nat,
                        At(t, k, x, i)', At(t, l, y, j)'
                 PROVE  k = l /\ x = y /\ i = j
      BY DEF OnePlace
    <2>1. CASE t = a
      BY <2>1 DEF HeadMovedTo
    <2>2. CASE t # a
      <3> DEFINE m == IF k = k1 /\ x = x1 THEN i + 1 ELSE i
                 n == IF l = k1 /\ y = x1 THEN j + 1 ELSE j
      <3>1. m \in Nat /\ n \in Nat
        OBVIOUS
      <3>2. At(t, k, x, m)
        BY <2>2 DEF HeadMovedTo
      <3>3. At(t, l, y, n)
        BY <2>2 DEF HeadMovedTo
      <3>4. k = l /\ x = y /\ m = n
        BY <3>1, <3>2, <3>3 DEF CountInv, OnePlace
      <3> QED
        BY <3>4
    <2> QED
      BY <2>1, <2>2
  <1>2. NoFutureTask'
    <2> SUFFICES ASSUME NEW t \in Tasks, NEW k \in Kinds, NEW x \in Threads,
                        NEW i \in Nat, At(t, k, x, i)'
                 PROVE  t <= submitted
      BY DEF NoFutureTask
    <2>1. i + 1 \in Nat
      OBVIOUS
    <2> QED
      BY <2>1 DEF HeadMovedTo, CountInv, NoFutureTask
  <1>3. ASSUME NEW t \in Tasks
        PROVE  t \in Placed' <=> t \in Placed
    <2>1. CASE t = a
      <3>1. t \in Placed
        BY <2>1 DEF Placed
      <3>2. At(t, k2, x2, i2)'
        BY <2>1 DEF HeadMovedTo
      <3>3. t \in Placed'
        BY <3>2 DEF Placed
      <3> QED
        BY <3>1, <3>3
    <2>2. CASE t # a
      <3>1. ASSUME NEW k \in Kinds, NEW x \in Threads, NEW i \in Nat,
                   At(t, k, x, i)'
            PROVE  t \in Placed
        <4>1. i + 1 \in Nat
          OBVIOUS
        <4> QED
          BY <2>2, <3>1, <4>1 DEF HeadMovedTo, Placed
      <3>2. ASSUME NEW k \in Kinds, NEW x \in Threads, NEW i \in Nat,
                   At(t, k, x, i)
            PROVE  t \in Placed'
        <4>1. CASE k = k1 /\ x = x1
          <5>1. i # 0
            BY <3>2, <4>1
          <5>2. i # 1
            BY <2>2, <3>2, <4>1
          <5>3. i - 1 \in Nat /\ i - 1 # 0 /\ (i - 1) + 1 = i
            BY <5>1, <5>2
          <5>4. At(t, k, x, i - 1)'
            BY <2>2, <3>2, <4>1, <5>3 DEF HeadMovedTo
          <5> QED
            BY <5>3, <5>4 DEF Placed
        <4>2. CASE ~(k = k1 /\ x = x1)
          <5>1. At(t, k, x, i)'
            BY <2>2, <3>2, <4>2 DEF HeadMovedTo
          <5> QED
            BY <5>1 DEF Placed
        <4> QED
          BY <4>1, <4>2
      <3> QED
        BY <3>1, <3>2 DEF Placed
    <2> QED
      BY <2>1, <2>2
  <1>4. Placed' = Placed
    BY <1>3 DEF Placed
  <1> QED
    BY <1>1, <1>2, <1>4 DEF CountInv, ActiveInv

\* A new task is counted as it is put somewhere.
LEMMA CountIfNew ==
    ASSUME CountInv, submitted \in Nat, submitted' = submitted + 1,
           active' = active + 1, submitted + 1 \in Tasks,
           NEW k2 \in Kinds, NEW x2 \in Threads, NEW i2 \in Nat,
           MovedTo(submitted + 1, k2, x2, i2)
    PROVE  CountInv'
  <1>1. PICK a \in Tasks : a = submitted + 1
    OBVIOUS
  <1>2. MovedTo(a, k2, x2, i2)
    BY <1>1
  <1>3. OnePlace'
    BY <1>2 DEF CountInv, OnePlace, MovedTo
  <1>4. NoFutureTask'
    <2> SUFFICES ASSUME NEW t \in Tasks, NEW k \in Kinds, NEW x \in Threads,
                        NEW i \in Nat, At(t, k, x, i)'
                 PROVE  t <= submitted + 1
      BY DEF NoFutureTask
    <2>1. CASE t = a
      BY <1>1, <2>1
    <2>2. CASE t # a
      <3>1. At(t, k, x, i)
        BY <1>2, <2>2 DEF MovedTo
      <3>2. t <= submitted /\ t \in Nat
        BY <3>1 DEF CountInv, NoFutureTask, Tasks
      <3> QED
        BY <3>2
    <2> QED
      BY <2>1, <2>2
  <1>5. a \notin Placed
    <2>1. ~(a <= submitted)
      BY <1>1
    <2> QED
      BY <2>1 DEF Placed, CountInv, NoFutureTask
  <1>6. ASSUME NEW t \in Tasks
        PROVE  t \in Placed' <=> t \in Placed \cup {a}
    <2>1. CASE t = a
      <3>1. At(t, k2, x2, i2)'
        BY <1>2, <2>1 DEF MovedTo
      <3> QED
        BY <2>1, <3>1 DEF Placed
    <2>2. CASE t # a
      <3>1. \A k \in Kinds, x \in Threads, i \in Nat :
                At(t, k, x, i)' <=> At(t, k, x, i)
        BY <1>2, <2>2 DEF MovedTo
      <3> QED
        BY <2>2, <3>1 DEF Placed
    <2> QED
      BY <2>1, <2>2
  <1>7. Placed' = Placed \cup {a}
    BY <1>6 DEF Placed
  <1>8. Cardinality(Placed \cup {a}) = Cardinality(Placed) + 1
    BY <1>5, PlacedIsFinite, FS_AddElement
  <1> QED
    BY <1>3, <1>4, <1>7, <1>8 DEF CountInv, ActiveInv

\* A task is uncounted as it leaves the only place it was in.
LEMMA CountIfGone ==
    ASSUME CountInv, submitted' = submitted, active' = active - 1,
           NEW a \in Tasks, NEW k1 \in Kinds, NEW x1 \in Threads, NEW i1 \in Nat,
           At(a, k1, x1, i1), Gone(a)
    PROVE  CountInv'
  <1>1. OnePlace'
    BY DEF CountInv, OnePlace, Gone
  <1>2. NoFutureTask'
    BY DEF CountInv, NoFutureTask, Gone
  <1>3. ASSUME NEW t \in Tasks
        PROVE  t \in Placed' <=> t \in Placed \ {a}
    <2>1. CASE t = a
      <3>1. \A k \in Kinds, x \in Threads, i \in Nat : ~At(t, k, x, i)'
        BY <2>1 DEF Gone
      <3> QED
        BY <2>1, <3>1 DEF Placed
    <2>2. CASE t # a
      <3>1. \A k \in Kinds, x \in Threads, i \in Nat :
                At(t, k, x, i)' <=> At(t, k, x, i)
        BY <2>2 DEF Gone
      <3> QED
        BY <2>2, <3>1 DEF Placed
    <2> QED
      BY <2>1, <2>2
  <1>4. Placed' = Placed \ {a}
    BY <1>3 DEF Placed
  <1>5. a \in Placed
    BY DEF Placed
  <1>6. Cardinality(Placed \ {a}) = Cardinality(Placed) - 1
    BY <1>5, PlacedIsFinite, FS_RemoveElement
  <1> QED
    BY <1>1, <1>2, <1>4, <1>6 DEF CountInv, ActiveInv

HasWorker(t, w) ==
    \/ t \in Range(local[w]) \/ t \in io[w] \/ t \in Range(cqes[w])
    \/ t = task[w] \/ \E e \in Range(mpsc[w]) : t = e.task

\* Live, written out place by place.
LEMMA InLive ==
    ASSUME NEW t
    PROVE  t \in Live <=> \/ \E w \in Workers : HasWorker(t, w)
                          \/ \E c \in Clients : t = ctask[c]
  <1> DEFINE S(w) == Range(local[w]) \cup io[w]
                        \cup {e.task : e \in Range(mpsc[w])}
                        \cup Range(cqes[w]) \cup {task[w]}
  <1>1. \A w \in Workers : t \in S(w) <=> HasWorker(t, w)
    BY Zenon DEF HasWorker
  <1>2. ASSUME t \in Live
        PROVE  (\E w \in Workers : t \in S(w)) \/ \E c \in Clients : t = ctask[c]
    BY <1>2, Zenon DEF Live
  <1>3. ASSUME NEW w \in Workers, t \in S(w)
        PROVE  t \in Live
    BY <1>3, Zenon DEF Live
  <1>4. ASSUME NEW c \in Clients, t = ctask[c]
        PROVE  t \in Live
    BY <1>4, Zenon DEF Live
  <1> HIDE DEF S
  <1> QED
    BY <1>1, <1>2, <1>3, <1>4, Zenon

\* The tasks that ActiveIsExact counts are the ones that have a place.
LEMMA LiveIsPlaced ==
    TypeOK /\ ControlInv /\ ClaimInv => Live \ {None} = Placed
  <1> SUFFICES ASSUME TypeOK, ControlInv, ClaimInv
               PROVE  Live \ {None} = Placed
    OBVIOUS
  <1> USE DEF TypeOK, QueueTypes, ThreadTypes
  <1>1. ASSUME NEW t \in Live, t # None
        PROVE  t \in Placed
    <2>0. ASSUME NEW k \in Kinds, NEW x \in Threads, NEW i \in Nat, t \in Tasks,
                 At(t, k, x, i)
          PROVE  t \in Placed
      BY <2>0 DEF Placed
    <2>1. ASSUME NEW w \in Workers, t \in Range(local[w])
          PROVE  t \in Placed
      <3>1. PICK i \in 1..Len(local[w]) : local[w][i] = t
        BY <2>1 DEF Range
      <3>2. At(t, "local", w, i) /\ i \in Nat /\ t \in Tasks
        BY <3>1 DEF At
      <3> QED
        BY <3>2, <2>0 DEF Kinds, Threads
    <2>2. ASSUME NEW w \in Workers, NEW e \in Range(mpsc[w]), t = e.task
          PROVE  t \in Placed
      <3>1. PICK i \in 1..Len(mpsc[w]) : mpsc[w][i] = e
        BY <2>2 DEF Range
      <3>2. e \in Entries
        BY <3>1
      <3>3. At(t, "mpsc", w, i) /\ i \in Nat /\ t \in Tasks
        BY <2>2, <3>1, <3>2 DEF At, Entries
      <3> QED
        BY <3>3, <2>0 DEF Kinds, Threads
    <2>3. ASSUME NEW w \in Workers, t \in Range(cqes[w])
          PROVE  t \in Placed
      <3>1. PICK i \in 1..Len(cqes[w]) : cqes[w][i] = t
        BY <2>3 DEF Range
      <3>2. At(t, "cqes", w, i) /\ i \in Nat /\ t \in Tasks
        BY <3>1 DEF At
      <3> QED
        BY <3>2, <2>0 DEF Kinds, Threads
    <2>4. ASSUME NEW w \in Workers, t \in io[w]
          PROVE  t \in Placed
      BY <2>4, <2>0 DEF Kinds, Threads, At
    <2>5. ASSUME NEW w \in Workers, t = task[w]
          PROVE  t \in Placed
      BY <1>1, <2>5, <2>0 DEF Kinds, Threads, At
    <2>6. ASSUME NEW c \in Clients, t = ctask[c]
          PROVE  t \in Placed
      <3>1. t \in Tasks
        BY <1>1, <2>6
      <3>2. CASE cpc[c] = "push"
        BY <2>6, <3>1, <3>2, <2>0 DEF Kinds, Threads, At
      <3>3. CASE cpc[c] = "publish"
        <4>1. PICK i \in Nat : ClaimedSlot(c, i)
          BY <3>3 DEF ClaimInv
        <4>2. target[c] \in Workers
          BY <3>3 DEF ControlInv
        <4>3. At(t, "mpsc", target[c], i)
          BY <2>6, <4>1, <4>2 DEF ClaimedSlot, At
        <4> QED
          BY <3>1, <4>2, <4>3, <2>0 DEF Kinds, Threads
      <3> QED
        BY <1>1, <2>6, <3>2, <3>3 DEF ControlInv
    <2> QED
      BY <1>1, InLive, <2>1, <2>2, <2>3, <2>4, <2>5, <2>6 DEF HasWorker
  <1>2. ASSUME NEW t \in Placed
        PROVE  t \in Live /\ t # None
    <2>1. PICK k \in Kinds, x \in Threads, i \in Nat : At(t, k, x, i)
      BY <1>2 DEF Placed
    <2>2. t \in Tasks /\ t # None
      BY <1>2 DEF Placed, Tasks, None
    <2>3. CASE k = "client"
      BY <2>1, <2>2, <2>3, InLive DEF At
    <2>4. CASE k # "client"
      <3>1. x \in Workers
        BY <2>1, <2>4 DEF At
      <3>2. HasWorker(t, x)
        BY <2>1, <2>4, <3>1 DEF At, Range, HasWorker
      <3> QED
        BY <2>2, <3>1, <3>2, InLive
    <2> QED
      BY <2>3, <2>4
  <1> QED
    BY <1>1, <1>2

-----------------------------------------------------------------------------
(* The steps that move a task.                                              *)

\* The task that a place holds is in no other.
LEMMA OnlyThere ==
    ASSUME OnePlace, NEW a \in Tasks, NEW k1 \in Kinds, NEW x1 \in Threads,
           NEW i1 \in Nat, At(a, k1, x1, i1)
    PROVE  \A k \in Kinds, x \in Threads, i \in Nat :
                At(a, k, x, i) => k = k1 /\ x = x1 /\ i = i1
  BY DEF OnePlace

\* Ends, lengths and elements of a queue and of what Front and Tail leave.
LEMMA QueueFacts ==
    ASSUME NEW S, NEW s \in Seq(S), s # <<>>
    PROVE  /\ Len(s) \in Nat /\ Len(s) >= 1
           /\ Last(s) = s[Len(s)] /\ Head(s) = s[1]
           /\ Len(Front(s)) = Len(s) - 1 /\ Len(Tail(s)) = Len(s) - 1
           /\ \A i \in 1..Len(s) - 1 : Front(s)[i] = s[i] /\ Tail(s)[i] = s[i + 1]
  <1>1. Len(s) \in Nat /\ Len(s) >= 1
    OBVIOUS
  <1>2. Len(Front(s)) = Len(s) - 1 /\ \A i \in 1..Len(s) - 1 : Front(s)[i] = s[i]
    <2>1. Front(s) = SubSeq(s, 1, Len(s) - 1)
      BY DEF Front
    <2>2. Len(SubSeq(s, 1, Len(s) - 1)) = Len(s) - 1
      BY <1>1
    <2>3. ASSUME NEW i \in 1..Len(s) - 1
          PROVE  SubSeq(s, 1, Len(s) - 1)[i] = s[i]
      BY <1>1
    <2> QED
      BY <2>1, <2>2, <2>3
  <1>3. Len(Tail(s)) = Len(s) - 1
    BY <1>1
  <1>4. ASSUME NEW i \in 1..Len(s) - 1
        PROVE  Tail(s)[i] = s[i + 1]
    BY <1>1, <1>3
  <1>5. Last(s) = s[Len(s)] /\ Head(s) = s[1]
    BY <1>1 DEF Last
  <1> QED
    BY <1>1, <1>2, <1>3, <1>4, <1>5

\* The owner takes the newest task of its local queue.
LEMMA PopLocalMoves ==
    ASSUME TypeOK, ControlInv, CountInv, NEW w \in Workers, NEW n, NEW h,
           wpc[w] # "run", PopLocal(w, n, h)
    PROVE  CountInv'
  <1> DEFINE q == local[w]
             m == Len(local[w])
             a == Last(local[w])
  <1>1. q \in Seq(Tasks) /\ q # <<>>
    BY DEF TypeOK, QueueTypes, PopLocal
  <1>2. m \in Nat /\ m >= 1 /\ a = q[m] /\ a \in Tasks
    BY <1>1, QueueFacts, SeqFacts
  <1>3. Len(Front(q)) = m - 1 /\ \A i \in 1..m - 1 : Front(q)[i] = q[i]
    BY <1>1, QueueFacts
  <1>4. local' = [local EXCEPT ![w] = Front(q)]
    BY DEF PopLocal
  <1>5. /\ Len(local'[w]) = m - 1 /\ \A i \in 1..m - 1 : local'[w][i] = q[i]
        /\ \A x \in Workers : x # w => local'[x] = local[x]
    BY <1>3, <1>4 DEF TypeOK, QueueTypes
  <1>6. At(a, "local", w, m)
    BY <1>2 DEF At
  <1>7. "local" \in Kinds /\ "task" \in Kinds /\ w \in Threads /\ 0 \in Nat
    BY DEF Kinds, Threads
  <1>8. \A k \in Kinds, x \in Threads, i \in Nat :
            At(a, k, x, i) => k = "local" /\ x = w /\ i = m
    BY <1>2, <1>6, <1>7, OnlyThere DEF CountInv
  <1>9. /\ mpsc' = mpsc /\ cqes' = cqes /\ io' = io /\ cpc' = cpc /\ ctask' = ctask
        /\ task'[w] = a /\ \A x \in Workers : x # w => task'[x] = task[x]
        /\ submitted' = submitted /\ active' = active
    BY DEF PopLocal, Run, ringVars, clientVars, countVars, TypeOK, ThreadTypes
  <1>10. task[w] = None
    BY DEF ControlInv
  <1> HIDE DEF q, m, a
  <1>11. MovedTo(a, "task", w, 0)
    <2> SUFFICES ASSUME NEW t \in Tasks, NEW k \in Kinds, NEW x \in Threads,
                        NEW i \in Nat
                 PROVE  At(t, k, x, i)' <=>
                            IF t = a THEN k = "task" /\ x = w /\ i = 0
                            ELSE At(t, k, x, i)
      BY DEF MovedTo
    <2>1. CASE k = "local" /\ x = w
      <3>1. At(t, k, x, i)' <=> i \in 1..m - 1 /\ q[i] = t
        BY <2>1, <1>5 DEF At
      <3>2. At(t, k, x, i) <=> i \in 1..m /\ q[i] = t
        BY <2>1 DEF At, q, m
      <3> QED
        BY <2>1, <3>1, <3>2, <1>2, <1>8
    <2>2. CASE k = "task" /\ x = w
      <3>1. At(t, k, x, i)' <=> i = 0 /\ t = a
        BY <2>2, <1>9 DEF At
      <3>2. ~At(t, k, x, i)
        BY <2>2, <1>10 DEF At, Tasks, None
      <3> QED
        BY <2>2, <3>1, <3>2
    <2>3. CASE ~(k = "local" /\ x = w) /\ ~(k = "task" /\ x = w)
      <3>1. At(t, k, x, i)' <=> At(t, k, x, i)
        BY <2>3, <1>5, <1>9 DEF At
      <3> QED
        BY <2>3, <3>1, <1>8
    <2> QED
      BY <2>1, <2>2, <2>3
  <1> QED
    BY <1>2, <1>6, <1>7, <1>9, <1>11, CountIfMoved

\* What try_steal_task() does when it gets a task.
Steal(w, v) ==
    /\ local[v] # <<>>
    /\ Run(w, Head(local[v]), "mpsc", TRUE)
    /\ local' = [local EXCEPT ![v] = Tail(@)]
    /\ UNCHANGED mpsc

\* A thief takes the oldest task of another local queue.
LEMMA StealMoves ==
    ASSUME TypeOK, ControlInv, CountInv, NEW w \in Workers, NEW v \in Workers,
           wpc[w] # "run", Steal(w, v)
    PROVE  CountInv'
  <1> DEFINE q == local[v]
             m == Len(local[v])
             a == Head(local[v])
  <1>1. q \in Seq(Tasks) /\ q # <<>>
    BY DEF TypeOK, QueueTypes, Steal
  <1>2. m \in Nat /\ m >= 1 /\ a = q[1] /\ a \in Tasks
    BY <1>1, QueueFacts, SeqFacts
  <1>3. Len(Tail(q)) = m - 1 /\ \A i \in 1..m - 1 : Tail(q)[i] = q[i + 1]
    BY <1>1, QueueFacts
  <1>4. local' = [local EXCEPT ![v] = Tail(q)]
    BY DEF Steal
  <1>5. /\ Len(local'[v]) = m - 1 /\ \A i \in 1..m - 1 : local'[v][i] = q[i + 1]
        /\ \A x \in Workers : x # v => local'[x] = local[x]
    BY <1>3, <1>4 DEF TypeOK, QueueTypes
  <1>6. /\ At(a, "local", v, 1) /\ \A t \in Tasks : ~At(t, "local", v, 0)
        /\ \A t \in Tasks : At(t, "local", v, 1) => t = a
    BY <1>2 DEF At
  <1>7. /\ "local" \in Kinds /\ "task" \in Kinds /\ w \in Threads
        /\ v \in Threads /\ 0 \in Nat /\ 1 \in Nat
    BY DEF Kinds, Threads
  <1>8. \A k \in Kinds, x \in Threads, i \in Nat :
            At(a, k, x, i) => k = "local" /\ x = v /\ i = 1
    BY <1>2, <1>6, <1>7, OnlyThere DEF CountInv
  <1>9. /\ mpsc' = mpsc /\ cqes' = cqes /\ io' = io /\ cpc' = cpc /\ ctask' = ctask
        /\ task'[w] = a /\ \A x \in Workers : x # w => task'[x] = task[x]
        /\ submitted' = submitted /\ active' = active
    BY DEF Steal, Run, ringVars, clientVars, countVars, TypeOK, ThreadTypes
  <1>10. task[w] = None
    BY DEF ControlInv
  <1> HIDE DEF q, m, a
  <1>11. HeadMovedTo(a, "local", v, "task", w, 0)
    <2> SUFFICES ASSUME NEW t \in Tasks, NEW k \in Kinds, NEW x \in Threads,
                        NEW i \in Nat
                 PROVE  At(t, k, x, i)' <=>
                            IF t = a THEN k = "task" /\ x = w /\ i = 0
                            ELSE IF k = "local" /\ x = v
                                 THEN i # 0 /\ At(t, k, x, i + 1)
                                 ELSE At(t, k, x, i)
      BY DEF HeadMovedTo
    <2>1. CASE k = "local" /\ x = v
      <3>1. At(t, k, x, i)' <=> i \in 1..m - 1 /\ q[i + 1] = t
        BY <2>1, <1>5 DEF At
      <3>2. At(t, k, x, i + 1) <=> i + 1 \in 1..m /\ q[i + 1] = t
        BY <2>1 DEF At, q, m
      <3>3. i # 0 /\ i + 1 \in 1..m <=> i \in 1..m - 1
        BY <1>2
      <3>4. t = a => ~(i # 0 /\ At(t, k, x, i + 1))
        BY <1>8, <2>1
      <3> QED
        BY <2>1, <3>1, <3>2, <3>3, <3>4
    <2>2. CASE k = "task" /\ x = w
      <3>1. At(t, k, x, i)' <=> i = 0 /\ t = a
        BY <2>2, <1>9 DEF At
      <3>2. ~At(t, k, x, i)
        BY <2>2, <1>10 DEF At, Tasks, None
      <3> QED
        BY <2>2, <3>1, <3>2
    <2>3. CASE ~(k = "local" /\ x = v) /\ ~(k = "task" /\ x = w)
      <3>1. At(t, k, x, i)' <=> At(t, k, x, i)
        BY <2>3, <1>5, <1>9 DEF At
      <3> QED
        BY <2>3, <3>1, <1>8
    <2> QED
      BY <2>1, <2>2, <2>3
  <1> QED
    BY <1>2, <1>6, <1>7, <1>9, <1>11, CountIfHeadMoved

\* A worker takes the head of its MPSC queue.
LEMMA PopMpscMoves ==
    ASSUME TypeOK, ControlInv, CountInv, NEW w \in Workers, NEW n,
           wpc[w] # "run", PopMpsc(w, n)
    PROVE  CountInv'
  <1> DEFINE q == mpsc[w]
             m == Len(mpsc[w])
             a == Head(mpsc[w]).task
  <1>1. q \in Seq(Entries) /\ q # <<>>
    BY DEF TypeOK, QueueTypes, PopMpsc, HeadReady
  <1>2. m \in Nat /\ m >= 1 /\ a = q[1].task /\ a \in Tasks
    <2>1. m \in Nat /\ m >= 1 /\ Head(q) = q[1] /\ Head(q) \in Entries
      BY <1>1, QueueFacts, SeqFacts
    <2> QED
      BY <2>1 DEF Entries
  <1>3. Len(Tail(q)) = m - 1 /\ \A i \in 1..m - 1 : Tail(q)[i] = q[i + 1]
    BY <1>1, QueueFacts
  <1>4. mpsc' = [mpsc EXCEPT ![w] = Tail(q)]
    BY DEF PopMpsc
  <1>5. /\ Len(mpsc'[w]) = m - 1 /\ \A i \in 1..m - 1 : mpsc'[w][i] = q[i + 1]
        /\ \A x \in Workers : x # w => mpsc'[x] = mpsc[x]
    BY <1>3, <1>4 DEF TypeOK, QueueTypes
  <1>6. /\ At(a, "mpsc", w, 1) /\ \A t \in Tasks : ~At(t, "mpsc", w, 0)
        /\ \A t \in Tasks : At(t, "mpsc", w, 1) => t = a
    BY <1>2 DEF At
  <1>7. /\ "mpsc" \in Kinds /\ "task" \in Kinds /\ w \in Threads
        /\ 0 \in Nat /\ 1 \in Nat
    BY DEF Kinds, Threads
  <1>8. \A k \in Kinds, x \in Threads, i \in Nat :
            At(a, k, x, i) => k = "mpsc" /\ x = w /\ i = 1
    BY <1>2, <1>6, <1>7, OnlyThere DEF CountInv
  <1>9. /\ local' = local /\ cqes' = cqes /\ io' = io /\ cpc' = cpc
        /\ ctask' = ctask
        /\ task'[w] = a /\ \A x \in Workers : x # w => task'[x] = task[x]
        /\ submitted' = submitted /\ active' = active
    BY DEF PopMpsc, Run, ringVars, clientVars, countVars, TypeOK, ThreadTypes
  <1>10. task[w] = None
    BY DEF ControlInv
  <1> HIDE DEF q, m, a
  <1>11. HeadMovedTo(a, "mpsc", w, "task", w, 0)
    <2> SUFFICES ASSUME NEW t \in Tasks, NEW k \in Kinds, NEW x \in Threads,
                        NEW i \in Nat
                 PROVE  At(t, k, x, i)' <=>
                            IF t = a THEN k = "task" /\ x = w /\ i = 0
                            ELSE IF k = "mpsc" /\ x = w
                                 THEN i # 0 /\ At(t, k, x, i + 1)
                                 ELSE At(t, k, x, i)
      BY DEF HeadMovedTo
    <2>1. CASE k = "mpsc" /\ x = w
      <3>1. At(t, k, x, i)' <=> i \in 1..m - 1 /\ q[i + 1].task = t
        BY <2>1, <1>5 DEF At
      <3>2. At(t, k, x, i + 1) <=> i + 1 \in 1..m /\ q[i + 1].task = t
        BY <2>1 DEF At, q, m
      <3>3. i # 0 /\ i + 1 \in 1..m <=> i \in 1..m - 1
        BY <1>2
      <3>4. t = a => ~(i # 0 /\ At(t, k, x, i + 1))
        BY <1>8, <2>1
      <3> QED
        BY <2>1, <3>1, <3>2, <3>3, <3>4
    <2>2. CASE k = "task" /\ x = w
      <3>1. At(t, k, x, i)' <=> i = 0 /\ t = a
        BY <2>2, <1>9 DEF At
      <3>2. ~At(t, k, x, i)
        BY <2>2, <1>10 DEF At, Tasks, None
      <3> QED
        BY <2>2, <3>1, <3>2
    <2>3. CASE ~(k = "mpsc" /\ x = w) /\ ~(k = "task" /\ x = w)
      <3>1. At(t, k, x, i)' <=> At(t, k, x, i)
        BY <2>3, <1>5, <1>9 DEF At
      <3> QED
        BY <2>3, <3>1, <1>8
    <2> QED
      BY <2>1, <2>2, <2>3
  <1> QED
    BY <1>2, <1>6, <1>7, <1>9, <1>11, CountIfHeadMoved

\* The claim puts the task of a client at the end of an MPSC queue.
LEMMA ClaimMoves ==
    ASSUME TypeOK, ControlInv, CountInv, NEW c \in Clients, PushClaim(c)
    PROVE  CountInv'
  <1> DEFINE a == ctask[c]
             e == [task |-> ctask[c], ready |-> FALSE]
  <1>1. PICK w \in Workers : mpsc' = [mpsc EXCEPT ![w] = Append(@, e)]
    BY DEF PushClaim
  <1> DEFINE q == mpsc[w]
             m == Len(mpsc[w])
  <1>2. a \in Tasks /\ cpc[c] = "push"
    BY DEF PushClaim, ControlInv, TypeOK, ThreadTypes
  <1>3. e \in Entries /\ q \in Seq(Entries) /\ m \in Nat /\ e.task = a
    <2>1. e \in Entries /\ e.task = a
      BY <1>2 DEF Entries
    <2>2. q \in Seq(Entries)
      BY DEF TypeOK, QueueTypes
    <2> QED
      BY <2>1, <2>2
  <1>4. Len(Append(q, e)) = m + 1
        /\ \A i \in 1..m + 1 : Append(q, e)[i] = IF i = m + 1 THEN e ELSE q[i]
    BY <1>3, AppendFacts
  <1> HIDE DEF e
  <1>5. /\ Len(mpsc'[w]) = m + 1
        /\ \A i \in 1..m + 1 : mpsc'[w][i] = IF i = m + 1 THEN e ELSE q[i]
        /\ \A x \in Workers : x # w => mpsc'[x] = mpsc[x]
    <2>1. mpsc'[w] = Append(q, e) /\ \A x \in Workers : x # w => mpsc'[x] = mpsc[x]
      BY <1>1 DEF TypeOK, QueueTypes
    <2> QED
      BY <1>4, <2>1
  <1>6. At(a, "client", c, 0)
    BY <1>2 DEF At
  <1>7. /\ "mpsc" \in Kinds /\ "client" \in Kinds /\ w \in Threads
        /\ c \in Threads /\ 0 \in Nat /\ m + 1 \in Nat
    BY <1>3 DEF Kinds, Threads
  <1>8. \A k \in Kinds, x \in Threads, i \in Nat :
            At(a, k, x, i) => k = "client" /\ x = c /\ i = 0
    BY <1>2, <1>6, <1>7, OnlyThere DEF CountInv
  <1>9. /\ local' = local /\ cqes' = cqes /\ io' = io /\ task' = task
        /\ ctask' = ctask
        /\ cpc'[c] = "publish" /\ \A x \in Clients : x # c => cpc'[x] = cpc[x]
        /\ submitted' = submitted /\ active' = active
    BY DEF PushClaim, ClientGoto, ringVars, workerVars, countVars, TypeOK,
           ThreadTypes
  <1> HIDE DEF q, m, a
  <1>11. MovedTo(a, "mpsc", w, m + 1)
    <2> SUFFICES ASSUME NEW t \in Tasks, NEW k \in Kinds, NEW x \in Threads,
                        NEW i \in Nat
                 PROVE  At(t, k, x, i)' <=>
                            IF t = a THEN k = "mpsc" /\ x = w /\ i = m + 1
                            ELSE At(t, k, x, i)
      BY DEF MovedTo
    <2>1. CASE k = "mpsc" /\ x = w
      <3>1. At(t, k, x, i)' <=> \/ i = m + 1 /\ t = a
                                \/ i \in 1..m /\ q[i].task = t
        BY <2>1, <1>3, <1>5 DEF At
      <3>2. At(t, k, x, i) <=> i \in 1..m /\ q[i].task = t
        BY <2>1 DEF At, q, m
      <3>3. t = a => ~At(t, k, x, i)
        BY <1>8, <2>1
      <3> QED
        BY <2>1, <3>1, <3>2, <3>3
    <2>2. CASE k = "client" /\ x = c
      <3>1. ~At(t, k, x, i)'
        BY <2>2, <1>9 DEF At
      <3>2. t # a => ~At(t, k, x, i)
        BY <2>2 DEF At, a
      <3> QED
        BY <2>2, <3>1, <3>2
    <2>3. CASE ~(k = "mpsc" /\ x = w) /\ ~(k = "client" /\ x = c)
      <3>1. At(t, k, x, i)' <=> At(t, k, x, i)
        BY <2>3, <1>5, <1>9 DEF At
      <3> QED
        BY <2>3, <3>1, <1>8
    <2> QED
      BY <2>1, <2>2, <2>3
  <1> QED
    BY <1>2, <1>6, <1>7, <1>9, <1>11, CountIfMoved

\* A step that leaves queues, running tasks and pushing clients moves nothing.
LEMMA SamePlaces ==
    ASSUME local' = local, mpsc' = mpsc, cqes' = cqes, io' = io, task' = task,
           \A c \in Clients : cpc'[c] = "push" <=> cpc[c] = "push",
           \A c \in Clients : cpc[c] = "push" => ctask'[c] = ctask[c]
    PROVE  Stays
  BY DEF Stays, At

\* Publishing leaves every task where it is.
LEMMA PublishStays ==
    ASSUME TypeOK, ControlInv, CountInv, NEW c \in Clients, PushPublish(c)
    PROVE  CountInv'
  <1> DEFINE w == target[c]
             q == mpsc[target[c]]
  <1>1. w \in Workers
    BY DEF PushPublish, ControlInv
  <1>2. q \in Seq(Entries)
    BY <1>1 DEF TypeOK, QueueTypes
  <1>3. DOMAIN q = 1..Len(q) /\ Len(q) \in Nat
    BY <1>2
  <1>4. mpsc'[w] = [i \in DOMAIN q |-> IF q[i].task = ctask[c]
                                       THEN [q[i] EXCEPT !.ready = TRUE] ELSE q[i]]
        /\ \A x \in Workers : x # w => mpsc'[x] = mpsc[x]
    BY <1>1 DEF PushPublish, TypeOK, QueueTypes
  <1>5. mpsc'[w] \in Seq(Entries)
    BY <1>1, <1>2, PublishType DEF PushPublish, TypeOK, QueueTypes
  <1>6. DOMAIN mpsc'[w] = 1..Len(q)
    BY <1>3, <1>4
  <1>7. Len(mpsc'[w]) = Len(q)
    BY <1>3, <1>5, <1>6
  <1>8. ASSUME NEW i \in 1..Len(q)
        PROVE  mpsc'[w][i].task = q[i].task
    <2>1. q[i] \in Entries
      BY <1>2, <1>8
    <2>2. [q[i] EXCEPT !.ready = TRUE].task = q[i].task
      BY <2>1 DEF Entries
    <2> QED
      BY <1>3, <1>4, <1>8, <2>2
  <1>9. /\ local' = local /\ cqes' = cqes /\ io' = io /\ task' = task
        /\ cpc[c] = "publish" /\ cpc'[c] = "wake"
        /\ \A x \in Clients : x # c => cpc'[x] = cpc[x] /\ ctask'[x] = ctask[x]
        /\ submitted' = submitted /\ active' = active
    BY DEF PushPublish, ClientGoto, ringVars, workerVars, countVars, TypeOK,
           ThreadTypes
  <1> HIDE DEF w, q
  <1>10. Stays
    <2> SUFFICES ASSUME NEW t \in Tasks, NEW k \in Kinds, NEW x \in Threads,
                        NEW i \in Nat
                 PROVE  At(t, k, x, i)' <=> At(t, k, x, i)
      BY DEF Stays
    <2>1. CASE k = "mpsc" /\ x = w
      <3>1. At(t, k, x, i)' <=> i \in 1..Len(q) /\ mpsc'[w][i].task = t
        BY <2>1, <1>1, <1>7 DEF At
      <3>2. At(t, k, x, i) <=> i \in 1..Len(q) /\ q[i].task = t
        BY <2>1, <1>1 DEF At, q, w
      <3> QED
        BY <3>1, <3>2, <1>8
    <2>2. CASE ~(k = "mpsc" /\ x = w)
      BY <2>2, <1>4, <1>9 DEF At
    <2> QED
      BY <2>1, <2>2
  <1> QED
    BY <1>9, <1>10, CountIfStays

\* The kernel completes the operation of a suspended coroutine.
LEMMA IoMoves ==
    ASSUME TypeOK, ControlInv, CountInv, NEW w \in Workers, IoCompletes(w)
    PROVE  CountInv'
  <1> DEFINE q == cqes[w]
             m == Len(cqes[w])
  <1>1. PICK a \in io[w] : /\ io' = [io EXCEPT ![w] = @ \ {a}]
                           /\ cqes' = [cqes EXCEPT ![w] = Append(@, a)]
    BY DEF IoCompletes
  <1>2. a \in Tasks /\ q \in Seq(Tasks)
    BY DEF TypeOK, QueueTypes
  <1>3. m \in Nat /\ Len(Append(q, a)) = m + 1
        /\ \A i \in 1..m + 1 : Append(q, a)[i] = IF i = m + 1 THEN a ELSE q[i]
    BY <1>2, AppendFacts
  <1>4. cqes'[w] = Append(q, a) /\ \A x \in Workers : x # w => cqes'[x] = cqes[x]
    BY <1>1 DEF TypeOK, QueueTypes
  <1>5. io'[w] = io[w] \ {a} /\ \A x \in Workers : x # w => io'[x] = io[x]
    BY <1>1 DEF TypeOK, QueueTypes
  <1>6. At(a, "io", w, 0)
    BY DEF At
  <1>7. /\ "io" \in Kinds /\ "cqes" \in Kinds /\ w \in Threads
        /\ 0 \in Nat /\ m + 1 \in Nat
    BY <1>3 DEF Kinds, Threads
  <1>8. \A k \in Kinds, x \in Threads, i \in Nat :
            At(a, k, x, i) => k = "io" /\ x = w /\ i = 0
    BY <1>2, <1>6, <1>7, OnlyThere DEF CountInv
  <1>9. /\ local' = local /\ mpsc' = mpsc /\ task' = task /\ ctask' = ctask
        /\ cpc' = cpc /\ submitted' = submitted /\ active' = active
    BY DEF IoCompletes, queueVars, workerVars, clientVars, countVars
  <1> HIDE DEF q, m
  <1>10. MovedTo(a, "cqes", w, m + 1)
    <2> SUFFICES ASSUME NEW t \in Tasks, NEW k \in Kinds, NEW x \in Threads,
                        NEW i \in Nat
                 PROVE  At(t, k, x, i)' <=>
                            IF t = a THEN k = "cqes" /\ x = w /\ i = m + 1
                            ELSE At(t, k, x, i)
      BY DEF MovedTo
    <2>1. CASE k = "cqes" /\ x = w
      <3>1. At(t, k, x, i)' <=> \/ i = m + 1 /\ t = a
                                \/ i \in 1..m /\ q[i] = t
        BY <2>1, <1>3, <1>4 DEF At
      <3>2. At(t, k, x, i) <=> i \in 1..m /\ q[i] = t
        BY <2>1 DEF At, q, m
      <3>3. t = a => ~At(t, k, x, i)
        BY <1>8, <2>1
      <3> QED
        BY <2>1, <3>1, <3>2, <3>3
    <2>2. CASE k = "io" /\ x = w
      <3>1. At(t, k, x, i)' <=> i = 0 /\ t \in io[w] /\ t # a
        BY <2>2, <1>5 DEF At
      <3>2. At(t, k, x, i) <=> i = 0 /\ t \in io[w]
        BY <2>2 DEF At
      <3> QED
        BY <2>2, <3>1, <3>2
    <2>3. CASE ~(k = "cqes" /\ x = w) /\ ~(k = "io" /\ x = w)
      <3>1. At(t, k, x, i)' <=> At(t, k, x, i)
        BY <2>3, <1>4, <1>5, <1>9 DEF At
      <3> QED
        BY <2>3, <3>1, <1>8
    <2> QED
      BY <2>1, <2>2, <2>3
  <1> QED
    BY <1>2, <1>6, <1>7, <1>9, <1>10, CountIfMoved

\* A running coroutine starts to wait for I/O.
LEMMA SuspendMoves ==
    ASSUME TypeOK, ControlInv, CountInv, NEW w \in Workers, Suspend(w)
    PROVE  CountInv'
  <1> DEFINE a == task[w]
  <1>1. a \in Tasks
    BY DEF Suspend, ControlInv, TypeOK, ThreadTypes
  <1>2. io'[w] = io[w] \cup {a} /\ \A x \in Workers : x # w => io'[x] = io[x]
    BY DEF Suspend, TypeOK, QueueTypes
  <1>3. task'[w] = None /\ \A x \in Workers : x # w => task'[x] = task[x]
    BY DEF Suspend, TypeOK, ThreadTypes
  <1>4. At(a, "task", w, 0)
    BY DEF At
  <1>5. "io" \in Kinds /\ "task" \in Kinds /\ w \in Threads /\ 0 \in Nat
    BY DEF Kinds, Threads
  <1>6. \A k \in Kinds, x \in Threads, i \in Nat :
            At(a, k, x, i) => k = "task" /\ x = w /\ i = 0
    BY <1>1, <1>4, <1>5, OnlyThere DEF CountInv
  <1>7. /\ local' = local /\ mpsc' = mpsc /\ cqes' = cqes /\ ctask' = ctask
        /\ cpc' = cpc /\ submitted' = submitted /\ active' = active
    BY DEF Suspend, queueVars, clientVars
  <1> HIDE DEF a
  <1>8. MovedTo(a, "io", w, 0)
    <2> SUFFICES ASSUME NEW t \in Tasks, NEW k \in Kinds, NEW x \in Threads,
                        NEW i \in Nat
                 PROVE  At(t, k, x, i)' <=>
                            IF t = a THEN k = "io" /\ x = w /\ i = 0
                            ELSE At(t, k, x, i)
      BY DEF MovedTo
    <2>1. CASE k = "io" /\ x = w
      <3>1. At(t, k, x, i)' <=> i = 0 /\ (t \in io[w] \/ t = a)
        BY <2>1, <1>2 DEF At
      <3>2. At(t, k, x, i) <=> i = 0 /\ t \in io[w]
        BY <2>1 DEF At
      <3>3. t = a => ~At(t, k, x, i)
        BY <1>6, <2>1
      <3> QED
        BY <2>1, <3>1, <3>2, <3>3
    <2>2. CASE k = "task" /\ x = w
      <3>1. ~At(t, k, x, i)'
        BY <2>2, <1>3 DEF At, Tasks, None
      <3>2. t # a => ~At(t, k, x, i)
        BY <2>2 DEF At, a
      <3> QED
        BY <2>2, <3>1, <3>2
    <2>3. CASE ~(k = "io" /\ x = w) /\ ~(k = "task" /\ x = w)
      <3>1. At(t, k, x, i)' <=> At(t, k, x, i)
        BY <2>3, <1>2, <1>3, <1>7 DEF At
      <3> QED
        BY <2>3, <3>1, <1>6
    <2> QED
      BY <2>1, <2>2, <2>3
  <1> QED
    BY <1>1, <1>4, <1>5, <1>7, <1>8, CountIfMoved

\* A completed task leaves the system: it was nowhere else.
LEMMA FinishRemoves ==
    ASSUME TypeOK, ControlInv, CountInv, NEW w \in Workers, Finish(w)
    PROVE  CountInv'
  <1> DEFINE a == task[w]
  <1>1. a \in Tasks
    BY DEF Finish, ControlInv, TypeOK, ThreadTypes
  <1>2. task'[w] = None /\ \A x \in Workers : x # w => task'[x] = task[x]
    BY DEF Finish, TypeOK, ThreadTypes
  <1>3. At(a, "task", w, 0)
    BY DEF At
  <1>4. "task" \in Kinds /\ w \in Threads /\ 0 \in Nat
    BY DEF Kinds, Threads
  <1>5. \A k \in Kinds, x \in Threads, i \in Nat :
            At(a, k, x, i) => k = "task" /\ x = w /\ i = 0
    BY <1>1, <1>3, <1>4, OnlyThere DEF CountInv
  <1>6. /\ local' = local /\ mpsc' = mpsc /\ cqes' = cqes /\ io' = io
        /\ ctask' = ctask /\ cpc' = cpc /\ submitted' = submitted
        /\ active' = active - 1
    BY DEF Finish, queueVars, ringVars, clientVars
  <1> HIDE DEF a
  <1>7. Gone(a)
    <2> SUFFICES ASSUME NEW t \in Tasks, NEW k \in Kinds, NEW x \in Threads,
                        NEW i \in Nat
                 PROVE  At(t, k, x, i)' <=> t # a /\ At(t, k, x, i)
      BY DEF Gone
    <2>1. CASE k = "task" /\ x = w
      <3>1. ~At(t, k, x, i)'
        BY <2>1, <1>2 DEF At, Tasks, None
      <3>2. t # a => ~At(t, k, x, i)
        BY <2>1 DEF At, a
      <3> QED
        BY <2>1, <3>1, <3>2
    <2>2. CASE ~(k = "task" /\ x = w)
      <3>1. At(t, k, x, i)' <=> At(t, k, x, i)
        BY <2>2, <1>2, <1>6 DEF At
      <3> QED
        BY <2>2, <3>1, <1>5
    <2> QED
      BY <2>1, <2>2
  <1> QED
    BY <1>1, <1>3, <1>4, <1>6, <1>7, CountIfGone

\* A client submits a new task.
LEMMA SubmitAdds ==
    ASSUME TypeOK, ControlInv, CountInv, NEW c \in Clients, Submit(c)
    PROVE  CountInv'
  <1> DEFINE a == submitted + 1
  <1>1. submitted \in Nat /\ a \in Tasks /\ ~(a <= submitted)
    BY PoolAssumption DEF Submit, TypeOK, ThreadTypes, Tasks
  <1>2. /\ cpc[c] = "idle" /\ cpc'[c] = "push" /\ ctask'[c] = a
        /\ \A x \in Clients : x # c => cpc'[x] = cpc[x] /\ ctask'[x] = ctask[x]
    BY DEF Submit, ClientGoto, TypeOK, ThreadTypes
  <1>3. /\ local' = local /\ mpsc' = mpsc /\ cqes' = cqes /\ io' = io
        /\ task' = task /\ submitted' = submitted + 1 /\ active' = active + 1
    BY DEF Submit, queueVars, ringVars, workerVars
  <1>4. "client" \in Kinds /\ c \in Threads /\ 0 \in Nat
    BY DEF Kinds, Threads
  <1>5. \A k \in Kinds, x \in Threads, i \in Nat : ~At(a, k, x, i)
    BY <1>1 DEF CountInv, NoFutureTask
  <1> HIDE DEF a
  <1>6. MovedTo(a, "client", c, 0)
    <2> SUFFICES ASSUME NEW t \in Tasks, NEW k \in Kinds, NEW x \in Threads,
                        NEW i \in Nat
                 PROVE  At(t, k, x, i)' <=>
                            IF t = a THEN k = "client" /\ x = c /\ i = 0
                            ELSE At(t, k, x, i)
      BY DEF MovedTo
    <2>1. CASE k = "client" /\ x = c
      BY <2>1, <1>2 DEF At
    <2>2. CASE ~(k = "client" /\ x = c)
      <3>1. At(t, k, x, i)' <=> At(t, k, x, i)
        BY <2>2, <1>2, <1>3 DEF At
      <3> QED
        BY <2>2, <3>1, <1>5
    <2> QED
      BY <2>1, <2>2
  <1> QED
    BY <1>1, <1>3, <1>4, <1>6, CountIfNew DEF a

\* A running task submits a new one to the local queue.
LEMMA SpawnAdds ==
    ASSUME TypeOK, ControlInv, CountInv, NEW w \in Workers, Spawn(w)
    PROVE  CountInv'
  <1> DEFINE a == submitted + 1
             q == local[w]
             m == Len(local[w])
  <1>1. submitted \in Nat /\ a \in Tasks /\ ~(a <= submitted)
    BY PoolAssumption DEF Spawn, TypeOK, ThreadTypes, Tasks
  <1>2. q \in Seq(Tasks)
    BY DEF TypeOK, QueueTypes
  <1>3. local'[w] = Append(q, a) /\ \A x \in Workers : x # w => local'[x] = local[x]
    BY DEF Spawn, TypeOK, QueueTypes
  <1>4. /\ mpsc' = mpsc /\ cqes' = cqes /\ io' = io /\ task' = task
        /\ cpc' = cpc /\ ctask' = ctask
        /\ submitted' = submitted + 1 /\ active' = active + 1
    BY DEF Spawn, ringVars, workerVars, clientVars
  <1>5. \A k \in Kinds, x \in Threads, i \in Nat : ~At(a, k, x, i)
    BY <1>1 DEF CountInv, NoFutureTask
  <1> HIDE DEF a
  <1>6. m \in Nat /\ Len(Append(q, a)) = m + 1
        /\ \A i \in 1..m + 1 : Append(q, a)[i] = IF i = m + 1 THEN a ELSE q[i]
    BY <1>1, <1>2, AppendFacts
  <1>7. "local" \in Kinds /\ w \in Threads /\ m + 1 \in Nat
    BY <1>6 DEF Kinds, Threads
  <1> HIDE DEF q, m
  <1>8. MovedTo(a, "local", w, m + 1)
    <2> SUFFICES ASSUME NEW t \in Tasks, NEW k \in Kinds, NEW x \in Threads,
                        NEW i \in Nat
                 PROVE  At(t, k, x, i)' <=>
                            IF t = a THEN k = "local" /\ x = w /\ i = m + 1
                            ELSE At(t, k, x, i)
      BY DEF MovedTo
    <2>1. CASE k = "local" /\ x = w
      <3>1. At(t, k, x, i)' <=> \/ i = m + 1 /\ t = a
                                \/ i \in 1..m /\ q[i] = t
        BY <2>1, <1>3, <1>6 DEF At
      <3>2. At(t, k, x, i) <=> i \in 1..m /\ q[i] = t
        BY <2>1 DEF At, q, m
      <3>3. t = a => ~At(t, k, x, i)
        BY <1>5, <2>1
      <3> QED
        BY <2>1, <3>1, <3>2, <3>3
    <2>2. CASE ~(k = "local" /\ x = w)
      <3>1. At(t, k, x, i)' <=> At(t, k, x, i)
        BY <2>2, <1>3, <1>4 DEF At
      <3> QED
        BY <2>2, <3>1, <1>5
    <2> QED
      BY <2>1, <2>2
  <1> QED
    BY <1>1, <1>4, <1>7, <1>8, CountIfNew DEF a

\* Length and elements of s \o u.
LEMMA ConcatFacts ==
    ASSUME NEW S, NEW s \in Seq(S), NEW u \in Seq(S)
    PROVE  /\ Len(s) \in Nat /\ Len(u) \in Nat /\ Len(s \o u) = Len(s) + Len(u)
           /\ \A i \in 1..Len(s) + Len(u) :
                (s \o u)[i] = IF i <= Len(s) THEN s[i] ELSE u[i - Len(s)]
  OBVIOUS

\* poll() puts the completed coroutines behind the local queue.
LEMMA PollMoves ==
    ASSUME TypeOK, ControlInv, CountInv, NEW w \in Workers, Poll(w)
    PROVE  CountInv'
  <1> DEFINE q == local[w]
             r == cqes[w]
             m == Len(local[w])
             n == Len(cqes[w])
  <1>1. q \in Seq(Tasks) /\ r \in Seq(Tasks)
    BY DEF TypeOK, QueueTypes
  <1>2. /\ m \in Nat /\ n \in Nat /\ Len(q \o r) = m + n
        /\ \A i \in 1..m + n : (q \o r)[i] = IF i <= m THEN q[i] ELSE r[i - m]
    BY <1>1, ConcatFacts
  <1>3. local'[w] = q \o r /\ \A x \in Workers : x # w => local'[x] = local[x]
    BY DEF Poll, Requeue, TypeOK, QueueTypes
  <1>4. cqes'[w] = <<>> /\ \A x \in Workers : x # w => cqes'[x] = cqes[x]
    BY DEF Poll, Requeue, TypeOK, QueueTypes
  <1>5. /\ mpsc' = mpsc /\ io' = io /\ task' = task /\ cpc' = cpc
        /\ ctask' = ctask /\ submitted' = submitted /\ active' = active
    BY DEF Poll, Requeue, countVars, clientVars
  <1>6. "local" \in Kinds /\ "cqes" \in Kinds /\ w \in Threads
    BY DEF Kinds, Threads
  <1>7. ASSUME NEW t \in Tasks, NEW i \in Nat
        PROVE  /\ At(t, "local", w, i) <=> i \in 1..m /\ q[i] = t
               /\ At(t, "cqes", w, i) <=> i \in 1..n /\ r[i] = t
    BY DEF At
  <1> HIDE DEF q, r, m, n
  <1>8. ASSUME NEW t \in Tasks, NEW i \in Nat
        PROVE  /\ At(t, "local", w, i)' <=>
                    \/ i \in 1..m /\ q[i] = t
                    \/ i \in m + 1..m + n /\ r[i - m] = t
               /\ ~At(t, "cqes", w, i)'
    <2>1. At(t, "local", w, i)' <=> i \in 1..m + n /\ (q \o r)[i] = t
      BY <1>2, <1>3 DEF At
    <2>2. ~At(t, "cqes", w, i)'
      BY <1>4 DEF At
    <2>3. CASE i \in 1..m
      BY <2>1, <2>2, <2>3, <1>2
    <2>4. CASE i \in m + 1..m + n
      BY <2>1, <2>2, <2>4, <1>2
    <2>5. CASE i \notin 1..m + n
      BY <2>1, <2>2, <2>5, <1>2
    <2> QED
      BY <2>3, <2>4, <2>5, <1>2
  <1>9. ASSUME NEW t \in Tasks, NEW k \in Kinds, NEW x \in Threads, NEW i \in Nat,
               ~(k = "local" /\ x = w), ~(k = "cqes" /\ x = w)
        PROVE  At(t, k, x, i)' <=> At(t, k, x, i)
    BY <1>3, <1>4, <1>5, <1>9 DEF At
  \* Where a task that is in a place now was before.
  <1> DEFINE K(k, x, i) == IF k = "local" /\ x = w /\ i > m THEN "cqes" ELSE k
             I(k, x, i) == IF k = "local" /\ x = w /\ i > m THEN i - m ELSE i
  <1>10. ASSUME NEW t \in Tasks, NEW k \in Kinds, NEW x \in Threads, NEW i \in Nat,
                At(t, k, x, i)'
         PROVE  /\ K(k, x, i) \in Kinds /\ I(k, x, i) \in Nat
                /\ At(t, K(k, x, i), x, I(k, x, i)) /\ ~(k = "cqes" /\ x = w)
    <2>1. CASE k = "local" /\ x = w /\ i > m
      <3>1. i \in m + 1..m + n /\ r[i - m] = t
        BY <1>2, <1>8, <1>10, <2>1
      <3>2. i - m \in Nat /\ i - m \in 1..n
        BY <1>2, <3>1
      <3>3. At(t, "cqes", w, i - m)
        BY <1>7, <3>1, <3>2
      <3> QED
        BY <1>6, <2>1, <3>2, <3>3
    <2>2. CASE k = "local" /\ x = w /\ ~(i > m)
      <3>1. \/ i \in 1..m /\ q[i] = t
            \/ i \in m + 1..m + n /\ r[i - m] = t
        BY <1>8, <1>10, <2>2
      <3>2. i \notin m + 1..m + n
        BY <1>2, <2>2
      <3>3. At(t, "local", w, i)
        BY <1>7, <3>1, <3>2
      <3> QED
        BY <2>2, <3>3
    <2>3. CASE ~(k = "local" /\ x = w)
      <3>1. ~(k = "cqes" /\ x = w)
        BY <1>8, <1>10
      <3>2. At(t, k, x, i)
        BY <1>9, <1>10, <2>3, <3>1
      <3> QED
        BY <2>3, <3>1, <3>2
    <2> QED
      BY <2>1, <2>2, <2>3
  <1>11. OnePlace'
    <2> SUFFICES ASSUME NEW t \in Tasks, NEW k \in Kinds, NEW l \in Kinds,
                        NEW x \in Threads, NEW y \in Threads,
                        NEW i \in Nat, NEW j \in Nat,
                        At(t, k, x, i)', At(t, l, y, j)'
                 PROVE  k = l /\ x = y /\ i = j
      BY DEF OnePlace
    <2>1. /\ K(k, x, i) \in Kinds /\ I(k, x, i) \in Nat
          /\ At(t, K(k, x, i), x, I(k, x, i)) /\ ~(k = "cqes" /\ x = w)
      BY <1>10
    <2>2. /\ K(l, y, j) \in Kinds /\ I(l, y, j) \in Nat
          /\ At(t, K(l, y, j), y, I(l, y, j)) /\ ~(l = "cqes" /\ y = w)
      BY <1>10
    <2> HIDE DEF K, I
    <2>3. K(k, x, i) = K(l, y, j) /\ x = y /\ I(k, x, i) = I(l, y, j)
      BY <2>1, <2>2 DEF CountInv, OnePlace
    <2> QED
      BY <2>1, <2>2, <2>3, <1>2 DEF K, I
  <1>12. NoFutureTask'
    <2> SUFFICES ASSUME NEW t \in Tasks, NEW k \in Kinds, NEW x \in Threads,
                        NEW i \in Nat, At(t, k, x, i)'
                 PROVE  t <= submitted
      BY <1>5 DEF NoFutureTask
    <2>1. /\ K(k, x, i) \in Kinds /\ I(k, x, i) \in Nat
          /\ At(t, K(k, x, i), x, I(k, x, i))
      BY <1>10
    <2> HIDE DEF K, I
    <2> QED
      BY <2>1 DEF CountInv, NoFutureTask
  <1>13. ASSUME NEW t \in Tasks
         PROVE  t \in Placed' <=> t \in Placed
    <2>1. ASSUME NEW k \in Kinds, NEW x \in Threads, NEW i \in Nat,
                 At(t, k, x, i)'
          PROVE  t \in Placed
      <3>1. /\ K(k, x, i) \in Kinds /\ I(k, x, i) \in Nat
            /\ At(t, K(k, x, i), x, I(k, x, i))
        BY <1>10, <2>1
      <3> HIDE DEF K, I
      <3> QED
        BY <3>1 DEF Placed
    <2>2. ASSUME NEW k \in Kinds, NEW x \in Threads, NEW i \in Nat,
                 At(t, k, x, i)
          PROVE  t \in Placed'
      <3>1. CASE k = "local" /\ x = w
        <4>1. At(t, "local", w, i)'
          BY <1>7, <1>8, <2>2, <3>1
        <4> QED
          BY <1>6, <4>1 DEF Placed
      <3>2. CASE k = "cqes" /\ x = w
        <4>1. i \in 1..n /\ r[i] = t
          BY <1>7, <2>2, <3>2
        <4>2. PICK j \in Nat : j = i + m
          BY <1>2
        <4>3. j \in m + 1..m + n /\ j - m = i
          BY <1>2, <4>1, <4>2
        <4>4. At(t, "local", w, j)'
          BY <1>8, <4>1, <4>3
        <4> QED
          BY <1>6, <4>4 DEF Placed
      <3>3. CASE ~(k = "local" /\ x = w) /\ ~(k = "cqes" /\ x = w)
        <4>1. At(t, k, x, i)'
          BY <1>9, <2>2, <3>3
        <4> QED
          BY <4>1 DEF Placed
      <3> QED
        BY <3>1, <3>2, <3>3
    <2> QED
      BY <2>1, <2>2 DEF Placed
  <1>14. Placed' = Placed
    BY <1>13 DEF Placed
  <1> QED
    BY <1>5, <1>11, <1>12, <1>14 DEF CountInv, ActiveInv

\* Every step keeps one place per task, and m_active_tasks their number.
LEMMA CountStep ==
    TypeOK /\ ControlInv /\ CountInv /\ [Next]_vars => CountInv'
  <1> SUFFICES ASSUME TypeOK, ControlInv, CountInv, [Next]_vars
               PROVE  CountInv'
    OBVIOUS
  <1> USE DEF queueVars, ringVars, countVars, workerVars, clientVars
  <1>1. ASSUME NEW w \in Workers, NEW n, NEW h, Skip(w, n, h)
        PROVE  CountInv'
    BY <1>1, SamePlaces, CountIfStays DEF Skip
  <1>2. ASSUME NEW w \in Workers, Start(w) \/ WaitCqe(w) \/ WaitTimeout(w)
        PROVE  CountInv'
    BY <1>2, SamePlaces, CountIfStays DEF Start, WaitCqe, WaitTimeout, LoopHead
  <1>3. ASSUME NEW w \in Workers, GetLocal(w) \/ DrainLocal(w)
        PROVE  CountInv'
    BY <1>1, <1>3, PopLocalMoves DEF GetLocal, DrainLocal
  <1>4. ASSUME NEW w \in Workers, StealTask(w)
        PROVE  CountInv'
    <2>1. wpc[w] # "run"
      BY <1>4 DEF StealTask
    <2>2. CASE Skip(w, "mpsc", hadWork[w])
      BY <1>1, <2>2
    <2>3. CASE \E v \in Workers \ {w} : Steal(w, v)
      BY <2>1, <2>3, StealMoves
    <2> QED
      BY <1>4, <2>2, <2>3 DEF StealTask, Steal
  <1>5. ASSUME NEW w \in Workers, GetMpsc(w) \/ DrainMpsc(w)
        PROVE  CountInv'
    BY <1>1, <1>5, PopMpscMoves DEF GetMpsc, DrainMpsc
  <1>6. ASSUME NEW w \in Workers, NotifyAll(w)
        PROVE  CountInv'
    <2>1. \A c \in Clients : cpc'[c] = "push" <=> cpc[c] = "push"
      BY <1>6 DEF NotifyAll
    <2> QED
      BY <1>6, <2>1, SamePlaces, CountIfStays DEF NotifyAll
  <1>7. ASSUME NEW w \in Workers, EventfdRead(w)
        PROVE  CountInv'
    BY <1>7, SamePlaces, CountIfStays DEF EventfdRead
  <1>8. ASSUME NEW c \in Clients, WaitAll(c) \/ PushWake(c)
        PROVE  CountInv'
    <2>1. \A d \in Clients : cpc'[d] = "push" <=> cpc[d] = "push"
      BY <1>8 DEF WaitAll, PushWake, ClientGoto, TypeOK, ThreadTypes
    <2> QED
      BY <1>8, <2>1, SamePlaces, CountIfStays DEF WaitAll, PushWake
  <1>9. CASE Stop \/ WakeAllWorkers \/ Join \/ UNCHANGED vars
    BY <1>9, SamePlaces, CountIfStays DEF Stop, WakeAllWorkers, Join, vars
  <1> QED
    BY <1>2, <1>3, <1>4, <1>5, <1>6, <1>7, <1>8, <1>9, ClaimMoves, PublishStays,
       IoMoves, SuspendMoves, FinishRemoves, SubmitAdds, SpawnAdds, PollMoves
       DEF Next, ClientStep, WorkerStep, OwnerStep

-----------------------------------------------------------------------------
(* Claimed slots.                                                           *)

\* Claimed slots stay as they are when no MPSC queue changes.
LEMMA ClaimFrame ==
    ASSUME ClaimInv, mpsc' = mpsc,
           \A c \in Clients : cpc'[c] = "publish" =>
                /\ cpc[c] = "publish" /\ target'[c] = target[c]
                /\ ctask'[c] = ctask[c]
    PROVE  ClaimInv'
  BY DEF ClaimInv, ClaimedSlot

\* A consumer pops what is ready, so no claimed slot.
LEMMA ClaimPop ==
    ASSUME TypeOK, ControlInv, ClaimInv, NEW w \in Workers, NEW n, PopMpsc(w, n)
    PROVE  ClaimInv'
  <1> DEFINE q == mpsc[w]
             m == Len(mpsc[w])
  <1>1. q \in Seq(Entries) /\ q # <<>> /\ Head(q).ready
    BY DEF TypeOK, QueueTypes, PopMpsc, HeadReady
  <1>2. /\ m \in Nat /\ m >= 1 /\ Head(q) = q[1] /\ Len(Tail(q)) = m - 1
        /\ \A i \in 1..m - 1 : Tail(q)[i] = q[i + 1]
    BY <1>1, QueueFacts
  <1>3. mpsc'[w] = Tail(q) /\ \A x \in Workers : x # w => mpsc'[x] = mpsc[x]
    BY DEF PopMpsc, TypeOK, QueueTypes
  <1>4. cpc' = cpc /\ ctask' = ctask /\ target' = target
    BY DEF PopMpsc, Run, clientVars
  <1>5. ASSUME NEW c \in Clients, cpc[c] = "publish"
        PROVE  \E i \in Nat : ClaimedSlot(c, i)'
    <2>1. target[c] \in Workers
      BY <1>5 DEF ControlInv
    <2>2. PICK i \in Nat : ClaimedSlot(c, i)
      BY <1>5 DEF ClaimInv
    <2>3. CASE target[c] # w
      <3>1. ClaimedSlot(c, i)'
        BY <1>3, <1>4, <2>1, <2>2, <2>3 DEF ClaimedSlot
      <3> QED
        BY <3>1
    <2>4. CASE target[c] = w
      <3>1. i \in 1..m /\ q[i] = [task |-> ctask[c], ready |-> FALSE]
        BY <2>2, <2>4 DEF ClaimedSlot
      <3>2. ~q[i].ready
        BY <3>1
      <3>3. i # 1
        BY <1>1, <1>2, <3>2
      <3>4. PICK j \in Nat : j = i - 1
        BY <3>1, <1>2
      <3>5. j \in 1..m - 1 /\ j + 1 = i
        BY <1>2, <3>1, <3>3, <3>4
      <3>6. Tail(q)[j] = [task |-> ctask[c], ready |-> FALSE]
        BY <1>2, <3>1, <3>5
      <3>7. ClaimedSlot(c, j)'
        BY <1>2, <1>3, <1>4, <2>4, <3>5, <3>6 DEF ClaimedSlot
      <3> QED
        BY <3>7
    <2> QED
      BY <2>3, <2>4
  <1> QED
    BY <1>4, <1>5 DEF ClaimInv

\* A new claim is behind the others, and of another task.
LEMMA ClaimClaim ==
    ASSUME TypeOK, ControlInv, CountInv, ClaimInv, NEW c \in Clients, PushClaim(c)
    PROVE  ClaimInv'
  <1> DEFINE e == [task |-> ctask[c], ready |-> FALSE]
  <1>1. PICK w \in Workers : /\ mpsc' = [mpsc EXCEPT ![w] = Append(@, e)]
                             /\ target' = [target EXCEPT ![c] = w]
    BY DEF PushClaim
  <1> DEFINE q == mpsc[w]
             m == Len(mpsc[w])
  <1>2. ctask[c] \in Tasks /\ cpc[c] = "push"
    BY DEF PushClaim, ControlInv, TypeOK, ThreadTypes
  <1>3. e \in Entries
    BY <1>2 DEF Entries
  <1>4. q \in Seq(Entries)
    BY DEF TypeOK, QueueTypes
  <1>5. m \in Nat /\ Len(Append(q, e)) = m + 1
        /\ \A i \in 1..m + 1 : Append(q, e)[i] = IF i = m + 1 THEN e ELSE q[i]
    BY <1>3, <1>4, AppendFacts
  <1>6. mpsc'[w] = Append(q, e) /\ \A x \in Workers : x # w => mpsc'[x] = mpsc[x]
    BY <1>1 DEF TypeOK, QueueTypes
  <1>7. /\ ctask' = ctask /\ target'[c] = w
        /\ \A d \in Clients : d # c => cpc'[d] = cpc[d] /\ target'[d] = target[d]
    BY <1>1 DEF PushClaim, ClientGoto, TypeOK, ThreadTypes
  <1>8. \E i \in Nat : ClaimedSlot(c, i)'
    <2>1. PICK j \in Nat : j = m + 1
      BY <1>5
    <2>2. j \in 1..Len(Append(q, e)) /\ Append(q, e)[j] = e
      BY <1>5, <2>1
    <2>3. ClaimedSlot(c, j)'
      BY <1>6, <1>7, <2>2 DEF ClaimedSlot
    <2> QED
      BY <2>3
  <1>9. ASSUME NEW d \in Clients, d # c, cpc[d] = "publish"
        PROVE  (\E i \in Nat : ClaimedSlot(d, i)') /\ ctask[d] # ctask[c]
    <2>1. target[d] \in Workers
      BY <1>9 DEF ControlInv
    <2>2. PICK i \in Nat : ClaimedSlot(d, i)
      BY <1>9 DEF ClaimInv
    <2>3. At(ctask[d], "mpsc", target[d], i)
      BY <2>1, <2>2 DEF At, ClaimedSlot
    <2>4. At(ctask[c], "client", c, 0)
      BY <1>2 DEF At
    <2>5. ctask[d] # ctask[c]
      BY <1>2, <2>1, <2>3, <2>4 DEF CountInv, OnePlace, Kinds, Threads
    <2> HIDE DEF e
    <2>6. ClaimedSlot(d, i)'
      <3>1. CASE target[d] # w
        BY <1>6, <1>7, <1>9, <2>1, <2>2, <3>1 DEF ClaimedSlot
      <3>2. CASE target[d] = w
        <4>1. i \in 1..m /\ q[i] = [task |-> ctask[d], ready |-> FALSE]
          BY <2>2, <3>2 DEF ClaimedSlot
        <4>2. i \in 1..m + 1 /\ i # m + 1
          BY <1>5, <4>1
        <4>3. Append(q, e)[i] = [task |-> ctask[d], ready |-> FALSE]
              /\ i \in 1..Len(Append(q, e))
          BY <1>5, <4>1, <4>2
        <4> QED
          BY <1>6, <1>7, <1>9, <3>2, <4>3 DEF ClaimedSlot
      <3> QED
        BY <3>1, <3>2
    <2> QED
      BY <2>5, <2>6
  <1> HIDE DEF e, q, m
  <1>10. \A d \in Clients : cpc'[d] = "publish" => \E i \in Nat : ClaimedSlot(d, i)'
    BY <1>7, <1>8, <1>9
  <1>11. ASSUME NEW x \in Clients, NEW y \in Clients, cpc'[x] = "publish",
                cpc'[y] = "publish", ctask[x] = ctask[y]
         PROVE  x = y
    BY <1>7, <1>9, <1>11 DEF ClaimInv
  <1> QED
    BY <1>7, <1>10, <1>11 DEF ClaimInv

\* Publishing one claimed slot leaves those of the other clients.
LEMMA ClaimPublish ==
    ASSUME TypeOK, ControlInv, ClaimInv, NEW c \in Clients, PushPublish(c)
    PROVE  ClaimInv'
  <1> DEFINE w == target[c]
             q == mpsc[target[c]]
  <1>1. w \in Workers /\ cpc[c] = "publish"
    BY DEF PushPublish, ControlInv
  <1>2. q \in Seq(Entries)
    BY <1>1 DEF TypeOK, QueueTypes
  <1>3. DOMAIN q = 1..Len(q) /\ Len(q) \in Nat
    BY <1>2
  <1>4. mpsc'[w] = [i \in DOMAIN q |-> IF q[i].task = ctask[c]
                                       THEN [q[i] EXCEPT !.ready = TRUE] ELSE q[i]]
        /\ \A x \in Workers : x # w => mpsc'[x] = mpsc[x]
    BY <1>1 DEF PushPublish, TypeOK, QueueTypes
  <1>5. mpsc'[w] \in Seq(Entries)
    BY <1>1, <1>2, PublishType DEF PushPublish, TypeOK, QueueTypes
  <1>6. DOMAIN mpsc'[w] = 1..Len(q)
    BY <1>3, <1>4
  <1>7. Len(mpsc'[w]) = Len(q)
    BY <1>3, <1>5, <1>6
  <1>8. ASSUME NEW i \in 1..Len(q), q[i].task # ctask[c]
        PROVE  mpsc'[w][i] = q[i]
    BY <1>3, <1>4, <1>8
  <1>9. /\ cpc'[c] = "wake" /\ target' = target
        /\ \A d \in Clients : d # c => cpc'[d] = cpc[d] /\ ctask'[d] = ctask[d]
    BY DEF PushPublish, ClientGoto, TypeOK, ThreadTypes
  <1>10. ASSUME NEW d \in Clients, d # c, cpc[d] = "publish"
         PROVE  \E i \in Nat : ClaimedSlot(d, i)'
    <2>1. target[d] \in Workers
      BY <1>10 DEF ControlInv
    <2>2. PICK i \in Nat : ClaimedSlot(d, i)
      BY <1>10 DEF ClaimInv
    <2>3. ctask[d] # ctask[c]
      BY <1>1, <1>10 DEF ClaimInv
    <2>4. CASE target[d] # w
      <3>1. mpsc'[target[d]] = mpsc[target[d]]
        BY <1>4, <2>1, <2>4
      <3>2. ClaimedSlot(d, i)'
        BY <1>9, <1>10, <2>2, <3>1 DEF ClaimedSlot
      <3> QED
        BY <3>2
    <2>5. CASE target[d] = w
      <3>1. i \in 1..Len(q) /\ q[i] = [task |-> ctask[d], ready |-> FALSE]
        BY <2>2, <2>5 DEF ClaimedSlot
      <3>2. q[i].task # ctask[c]
        BY <2>3, <3>1
      <3>3. mpsc'[w][i] = [task |-> ctask[d], ready |-> FALSE]
        BY <1>8, <3>1, <3>2
      <3>4. ClaimedSlot(d, i)'
        BY <1>7, <1>9, <1>10, <2>5, <3>1, <3>3 DEF ClaimedSlot
      <3> QED
        BY <3>4
    <2> QED
      BY <2>4, <2>5
  <1> HIDE DEF w, q
  <1> QED
    BY <1>9, <1>10 DEF ClaimInv

\* Every step keeps the claimed slots.
LEMMA ClaimStep ==
    TypeOK /\ ControlInv /\ CountInv /\ ClaimInv /\ [Next]_vars => ClaimInv'
  <1> SUFFICES ASSUME TypeOK, ControlInv, CountInv, ClaimInv, [Next]_vars
               PROVE  ClaimInv'
    OBVIOUS
  <1> USE DEF queueVars, clientVars
  <1>1. ASSUME mpsc' = mpsc, cpc' = cpc, ctask' = ctask, target' = target
        PROVE  ClaimInv'
    BY <1>1, ClaimFrame
  <1>2. ASSUME NEW w \in Workers,
               \/ Start(w) \/ WaitCqe(w) \/ WaitTimeout(w) \/ Poll(w) \/ GetLocal(w)
               \/ DrainLocal(w) \/ StealTask(w) \/ Suspend(w) \/ Finish(w)
               \/ Spawn(w) \/ EventfdRead(w) \/ IoCompletes(w)
        PROVE  ClaimInv'
    BY <1>1, <1>2 DEF Start, WaitCqe, WaitTimeout, LoopHead, Poll, Requeue,
        GetLocal, DrainLocal, PopLocal, StealTask, Run, Skip, Suspend, Finish, Spawn,
        EventfdRead, IoCompletes
  <1>3. ASSUME NEW w \in Workers, GetMpsc(w) \/ DrainMpsc(w)
        PROVE  ClaimInv'
    BY <1>1, <1>3, ClaimPop DEF GetMpsc, DrainMpsc, Skip
  <1>4. ASSUME NEW w \in Workers, NotifyAll(w)
        PROVE  ClaimInv'
    BY <1>4, ClaimFrame DEF NotifyAll
  <1>5. ASSUME NEW c \in Clients, Submit(c) \/ WaitAll(c) \/ PushWake(c)
        PROVE  ClaimInv'
    BY <1>5, ClaimFrame DEF Submit, WaitAll, PushWake, ClientGoto, TypeOK,
        ThreadTypes
  <1>6. CASE Stop \/ WakeAllWorkers \/ Join \/ UNCHANGED vars
    BY <1>1, <1>6 DEF Stop, WakeAllWorkers, Join, vars
  <1> QED
    BY <1>2, <1>3, <1>4, <1>5, <1>6, ClaimClaim, ClaimPublish
       DEF Next, ClientStep, WorkerStep, OwnerStep

-----------------------------------------------------------------------------
\* No task has been submitted and every worker is about to start.
LEMMA InitHolds == Init => IInv
  <1> SUFFICES ASSUME Init
               PROVE  IInv
    OBVIOUS
  <1> USE PoolAssumption
  <1>1. QueueTypes
    BY DEF Init, QueueTypes
  <1>2. ThreadTypes /\ ControlInv
    <2>1. armed \in [Workers -> BOOLEAN] /\ hadWork \in [Workers -> BOOLEAN]
          /\ stop \in BOOLEAN
      BY Zenon DEF Init
    <2>2. ThreadTypes
      BY <2>1 DEF Init, ThreadTypes, WorkerPcs, ClientPcs, Returns, None
    <2>3. ControlInv
      BY DEF Init, ControlInv, None
    <2> QED
      BY <2>2, <2>3
  <1>3. NoLostWakeup
    BY DEF Init, NoLostWakeup
  <1>4. \A t \in Tasks, k \in Kinds, x \in Threads, i \in Nat : ~At(t, k, x, i)
    BY DEF Init, At, Tasks, None
  <1>5. OnePlace /\ NoFutureTask /\ Placed = {}
    BY <1>4 DEF OnePlace, NoFutureTask, Placed
  <1>6. ActiveInv
    BY <1>5, FS_EmptySet DEF ActiveInv, Init
  <1>7. ClaimInv
    BY DEF ClaimInv, Init
  <1> QED
    BY <1>1, <1>2, <1>3, <1>5, <1>6, <1>7 DEF IInv, TypeOK, PlaceInv

\* The conjuncts together are inductive.
LEMMA StepHolds == IInv /\ [Next]_vars => IInv'
  BY QueuesStayTyped, ThreadsStayTyped, ControlStep, WakeStep, CountStep, ClaimStep
     DEF IInv, TypeOK, PlaceInv, CountInv

\* The pool keeps its inductive invariant: types, what a thread holds, wake-ups,
\* and one place per task that is submitted and not completed.
THEOREM InvariantHolds == Spec => []IInv
  BY InitHolds, StepHolds, PTL DEF Spec

\* A worker in wait_for_events() whose MPSC queue has a published task at its
\* head has a completion, a written eventfd or a client about to write it.
THEOREM WakeupsAreNotLost == Spec => []NoLostWakeup
  <1>1. IInv => NoLostWakeup
    BY DEF IInv
  <1> QED
    BY InvariantHolds, <1>1, PTL

\* m_active_tasks is the number of tasks submitted and not completed, wherever
\* they are: queued, claimed, stolen, suspended, completed by the kernel or run.
THEOREM ActiveTasksAreExact == Spec => []ActiveIsExact
  <1>1. IInv => ActiveIsExact
    BY LiveIsPlaced DEF IInv, PlaceInv, ActiveInv, ActiveIsExact
  <1> QED
    BY InvariantHolds, <1>1, PTL
=============================================================================
