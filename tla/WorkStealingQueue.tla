------------------------- MODULE WorkStealingQueue -------------------------
(***************************************************************************)
(* The local run queue of a pool thread (coroutine/queue.hpp): the owner   *)
(* pushes and pops at the bottom, other pool threads steal at the top.     *)
(* Every atomic access is one step, and so is moving a task out of or into *)
(* a slot.  Tasks are numbered in the order of their push.                 *)
(*                                                                         *)
(* A full buffer is replaced by one of twice the size; the old one is kept *)
(* because a thief may still hold a pointer to it, but its tasks have been *)
(* moved out.  A task is moved, never copied: a slot read twice yields an  *)
(* empty task, which runs as a no-op.                                      *)
(***************************************************************************)
EXTENDS Integers, Sequences, FiniteSets

CONSTANTS
    Thieves,
    InitialCapacity,    \* 1024 in the code, a power of two
    MaxTasks            \* bound: pushes

ASSUME QueueAssumption ==
    /\ InitialCapacity \in Nat \ {0, 1}
    /\ MaxTasks \in Nat

VARIABLES
    top, bottom,        \* m_top, m_bottom
    buffers,            \* all CircularBuffers so far, the last one is m_buffer
    pushed,             \* tasks pushed so far
    opc, ob, ot,        \* owner: pc and the locals b, t of push() and pop()
    tpc, tt, tb,        \* thief: pc, its local t, and which buffer it loaded
    ran,                \* how often each task was handed to a pool thread
    overrun             \* history: a thief's slot was reused or moved away

ownerVars == <<opc, ob, ot>>
thiefVars == <<tpc, tt, tb>>
vars == <<top, bottom, buffers, pushed, ownerVars, thiefVars, ran, overrun>>

Empty == 0
Tasks == 1..MaxTasks
Current == Len(buffers)
CapacityOf(b) == buffers[b].capacity
Slot(b, i) == i % CapacityOf(b)
NewBuffer(c) == [capacity |-> c, slots |-> [s \in 0..(c - 1) |-> Empty]]

Init ==
    /\ top = 0 /\ bottom = 0
    /\ buffers = <<NewBuffer(InitialCapacity)>>
    /\ pushed = 0
    /\ opc = "idle" /\ ob = 0 /\ ot = 0
    /\ tpc = [f \in Thieves |-> "idle"]
    /\ tt = [f \in Thieves |-> 0]
    /\ tb = [f \in Thieves |-> 1]
    /\ ran = [k \in Tasks |-> 0]
    /\ overrun = FALSE

\* get(i): whatever the slot holds is moved out and handed to the caller.
Take(b, i) ==
    LET task == buffers[b].slots[Slot(b, i)]
    IN  /\ buffers' = [buffers EXCEPT ![b].slots[Slot(b, i)] = Empty]
        /\ ran' = IF task = Empty THEN ran ELSE [ran EXCEPT ![task] = @ + 1]

-----------------------------------------------------------------------------
(* push(), by the owner                                                     *)

PushLoad ==
    /\ opc = "idle" /\ pushed < MaxTasks
    /\ ob' = bottom /\ ot' = top
    /\ opc' = IF bottom - top >= CapacityOf(Current) - 1 THEN "resize" ELSE "put"
    /\ UNCHANGED <<top, bottom, buffers, pushed, thiefVars, ran, overrun>>

\* The buffer buf after get(i) of every i in I ...
Without(buf, I) ==
    [capacity |-> buf.capacity,
     slots |-> [s \in DOMAIN buf.slots |->
                    IF \E i \in I : s = i % buf.capacity THEN Empty ELSE buf.slots[s]]]

\* ... and one of twice the capacity after put(i) of what they have returned.
Doubled(buf, I) ==
    LET c == 2 * buf.capacity
        From(s) == CHOOSE i \in I : s = i % c
    IN  [capacity |-> c,
         slots |-> [s \in 0..(c - 1) |-> IF \E i \in I : s = i % c
                                         THEN buf.slots[From(s) % buf.capacity]
                                         ELSE Empty]]

\* resize(): the tasks [t, b) move to a buffer of twice the capacity.
Resize ==
    /\ opc = "resize"
    /\ LET old == buffers[Current]
           moved == ot..(ob - 1)
       IN  buffers' = Append([buffers EXCEPT ![Current] = Without(old, moved)],
                             Doubled(old, moved))
    /\ overrun' = (overrun \/ \E f \in Thieves :
                    tpc[f] \in {"cas", "get"} /\ tt[f] >= ot)
    /\ opc' = "put"
    /\ UNCHANGED <<top, bottom, pushed, ob, ot, thiefVars, ran>>

PushPut ==
    /\ opc = "put"
    /\ pushed' = pushed + 1
    /\ buffers' = [buffers EXCEPT ![Current].slots[Slot(Current, ob)] = pushed']
    /\ overrun' = (overrun \/ \E f \in Thieves :
                    /\ tpc[f] = "get" /\ tb[f] = Current
                    /\ Slot(Current, tt[f]) = Slot(Current, ob))
    /\ opc' = "publish"
    /\ UNCHANGED <<top, bottom, ob, ot, thiefVars, ran>>

PushPublish ==
    /\ opc = "publish"
    /\ bottom' = ob + 1
    /\ opc' = "idle"
    /\ UNCHANGED <<top, buffers, pushed, ob, ot, thiefVars, ran, overrun>>

-----------------------------------------------------------------------------
(* pop(), by the owner                                                      *)

PopDecrement ==
    /\ opc = "idle"
    /\ ob' = bottom - 1
    /\ bottom' = bottom - 1
    /\ opc' = "popTop"
    /\ UNCHANGED <<top, buffers, pushed, ot, thiefVars, ran, overrun>>

\* Mutant of PopTop: the last task is taken without competing for it.
PopLastWithoutCas ==
    /\ opc = "popTop"
    /\ ot' = top
    /\ opc' = IF top <= ob THEN "take" ELSE "giveUp"
    /\ UNCHANGED <<top, bottom, buffers, pushed, ob, thiefVars, ran, overrun>>

PopTop ==
    /\ opc = "popTop"
    /\ ot' = top
    /\ opc' = CASE top < ob -> "take" [] top = ob -> "popCas"
                [] OTHER -> "giveUp"
    /\ UNCHANGED <<top, bottom, buffers, pushed, ob, thiefVars, ran, overrun>>

\* The last task: compete with the thieves for it.
PopCas ==
    /\ opc = "popCas"
    /\ IF top = ot THEN top' = ot + 1 /\ opc' = "restore"
                   ELSE top' = top /\ opc' = "giveUp"
    /\ UNCHANGED <<bottom, buffers, pushed, ob, ot, thiefVars, ran, overrun>>

PopRestore ==
    /\ opc = "restore"
    /\ bottom' = ob + 1
    /\ opc' = "take"
    /\ UNCHANGED <<top, buffers, pushed, ob, ot, thiefVars, ran, overrun>>

PopTake ==
    /\ opc = "take"
    /\ Take(Current, ob)
    /\ opc' = "idle"
    /\ UNCHANGED <<top, bottom, pushed, ob, ot, thiefVars, overrun>>

\* Empty, or lost against a thief.
PopGiveUp ==
    /\ opc = "giveUp"
    /\ bottom' = ob + 1
    /\ opc' = "idle"
    /\ UNCHANGED <<top, buffers, pushed, ob, ot, thiefVars, ran, overrun>>

-----------------------------------------------------------------------------
(* steal(), by any other pool thread                                        *)

Goto(f, label) == tpc' = [tpc EXCEPT ![f] = label]

StealTop(f) ==
    /\ tpc[f] = "idle"
    /\ tt' = [tt EXCEPT ![f] = top]
    /\ Goto(f, "bottom")
    /\ UNCHANGED <<top, bottom, buffers, pushed, ownerVars, tb, ran, overrun>>

StealBottom(f) ==
    /\ tpc[f] = "bottom"
    /\ Goto(f, IF tt[f] >= bottom THEN "idle" ELSE "buffer")
    /\ UNCHANGED <<top, bottom, buffers, pushed, ownerVars, tt, tb, ran,
                   overrun>>

StealBuffer(f) ==
    /\ tpc[f] = "buffer"
    /\ tb' = [tb EXCEPT ![f] = Current]
    /\ Goto(f, "cas")
    /\ UNCHANGED <<top, bottom, buffers, pushed, ownerVars, tt, ran, overrun>>

\* Mutant of StealCas: a store instead of the CAS.
StealWithoutCas(f) ==
    /\ tpc[f] = "cas"
    /\ top' = tt[f] + 1
    /\ Goto(f, "get")
    /\ UNCHANGED <<bottom, buffers, pushed, ownerVars, tt, tb, ran, overrun>>

StealCas(f) ==
    /\ tpc[f] = "cas"
    /\ IF top = tt[f] THEN top' = tt[f] + 1 /\ Goto(f, "get")
                      ELSE top' = top /\ Goto(f, "idle")
    /\ UNCHANGED <<bottom, buffers, pushed, ownerVars, tt, tb, ran, overrun>>

StealGet(f) ==
    /\ tpc[f] = "get"
    /\ Take(tb[f], tt[f])
    /\ Goto(f, "idle")
    /\ UNCHANGED <<top, bottom, pushed, ownerVars, tt, tb, overrun>>

-----------------------------------------------------------------------------
OwnerNext ==
    \/ PushLoad \/ Resize \/ PushPut \/ PushPublish
    \/ PopDecrement \/ PopTop \/ PopCas \/ PopRestore \/ PopTake \/ PopGiveUp

ThiefNext(f) ==
    \/ StealTop(f) \/ StealBottom(f) \/ StealBuffer(f) \/ StealCas(f)
    \/ StealGet(f)

Next == OwnerNext \/ \E f \in Thieves : ThiefNext(f)

Spec == Init /\ [][Next]_vars

-----------------------------------------------------------------------------
Buffer(c) == [capacity : {c}, slots : [0..(c - 1) -> Tasks \cup {Empty}]]

TypeOK ==
    /\ top \in Nat /\ bottom \in Nat \cup {-1}
    /\ pushed \in 0..MaxTasks
    /\ \A b \in DOMAIN buffers :
        /\ CapacityOf(b) \in Nat \ {0}
        /\ buffers[b] \in Buffer(CapacityOf(b))
    /\ opc \in {"idle", "resize", "put", "publish", "popTop", "popCas",
                "restore", "take", "giveUp"}
    /\ ob \in Nat \cup {-1} /\ ot \in Nat
    /\ tpc \in [Thieves -> {"idle", "bottom", "buffer", "cas", "get"}]
    /\ tt \in [Thieves -> Nat] /\ tb \in [Thieves -> DOMAIN buffers]
    /\ ran \in [Tasks -> Nat]
    /\ overrun \in BOOLEAN

NeverTwice == \A k \in Tasks : ran[k] <= 1

\* The owner and all thieves are outside the queue, and it is empty.
Drained ==
    /\ opc = "idle" /\ top >= bottom
    /\ \A f \in Thieves : tpc[f] \in {"idle", "bottom"}

\* Whatever the race between pop() and steal() for the last task, each pushed
\* task is handed out exactly once - as long as no thief is overtaken between
\* its load of the buffer and its move of the task.
ExactlyOnce ==
    ~overrun =>
        /\ NeverTwice
        /\ Drained => \A k \in 1..pushed : ran[k] = 1

\* The owner and the thieves never win the same index, thieves that were overtaken
\* included: winning the CAS on m_top is what gives the right to move.
MoversAreExclusive ==
    \A f \in Thieves : tpc[f] = "get" =>
        /\ opc \in {"take", "restore"} => tt[f] # ob
        /\ \A g \in Thieves \ {f} : tpc[g] = "get" => tt[g] # tt[f]
        /\ tt[f] < top

\* The comments in steal() and push(): the task is moved only after winning
\* top, and old buffers are kept for thieves still reading them - so a task is
\* never lost, whatever the schedule.
NoTaskLost == Drained => \A k \in 1..pushed : ran[k] = 1
=============================================================================
