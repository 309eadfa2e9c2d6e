----------------------- MODULE WorkStealingQueueProofs -----------------------
(***************************************************************************)
(* Proofs about WorkStealingQueue, for any number of thieves, any initial  *)
(* capacity and any number of pushes: winning m_top is what gives the      *)
(* right to a slot, and while no thief is overtaken every task is handed   *)
(* out exactly once.                                                       *)
(***************************************************************************)
EXTENDS WorkStealingQueue, TLAPS

Capacity == CapacityOf(Current)

AnyBuffer == UNION {Buffer(c) : c \in Nat \ {0}}
OwnerPC == {"idle", "resize", "put", "publish", "popTop", "popCas", "restore", "take",
            "giveUp"}
ThiefPC == {"idle", "bottom", "buffer", "cas", "get"}

\* TypeOK without the bounds that need OwnerInv, and with buffers as a sequence.
Types ==
    /\ top \in Nat /\ bottom \in Int /\ pushed \in 0..MaxTasks
    /\ buffers \in Seq(AnyBuffer) /\ Len(buffers) >= 1
    /\ opc \in OwnerPC /\ ob \in Int /\ ot \in Nat
    /\ tpc \in [Thieves -> ThiefPC]
    /\ tt \in [Thieves -> Nat]
    /\ tb \in [Thieves -> Nat] /\ \A f \in Thieves : tb[f] \in 1..Len(buffers)
    /\ ran \in [Tasks -> Nat]
    /\ overrun \in BOOLEAN

\* One past the last index with a task: the owner has counted m_bottom down
\* before it knows whether it gets the task, and up only after the put.
End == IF opc \in {"idle", "resize", "put"} THEN bottom ELSE ob + 1

\* Where push() and pop() are with respect to m_top and m_bottom.
OwnerInv ==
    /\ opc = "idle" => top <= bottom
    /\ opc \in {"resize", "put"} =>
          ob = bottom /\ ot <= top /\ top <= ob /\ pushed < MaxTasks
    /\ opc = "publish" => ob = bottom /\ top <= ob
    /\ opc = "popTop" => bottom = ob /\ top <= ob + 1
    /\ opc = "popCas" => bottom = ob /\ ot = ob /\ top \in {ob, ob + 1}
    /\ opc \in {"restore", "giveUp"} => bottom = ob /\ top = ob + 1
    /\ opc = "take" => \/ bottom = ob /\ top <= ob
                       \/ bottom = ob + 1 /\ top = ob + 1
    /\ opc \in {"restore", "take"} => ob >= 0
    /\ ob >= -1

\* A thief whose CAS would succeed is after a task that is there, at most one for
\* which the owner is about to compete.
ThiefInv == \A f \in Thieves :
    /\ tpc[f] # "idle" => tt[f] <= top
    /\ tpc[f] \in {"buffer", "cas"} /\ tt[f] = top =>
          tt[f] < bottom \/ (opc \in {"popTop", "popCas"} /\ tt[f] = ob)
    /\ tpc[f] = "get" => tt[f] < top

\* Nobody has won the same index twice.
WinnersInv == \A f \in Thieves : tpc[f] = "get" =>
    /\ opc \in {"take", "restore"} => tt[f] # ob
    /\ \A g \in Thieves \ {f} : tpc[g] = "get" => tt[g] # tt[f]

\* The tasks fit, with a slot to spare.
CapacityInv ==
    /\ End - top <= Capacity - 1
    /\ opc = "resize" => ob - ot <= Capacity - 1
    /\ opc = "put" => ob - ot <= Capacity - 2

\* The indices with a task that the owner has or may still get.
Window == (top..(End - 1)) \cup (IF opc \in {"restore", "take"} THEN {ob} ELSE {})
Getting == {f \in Thieves : tpc[f] = "get"}

\* Who has the right to what: a buffer and an index in it.
Claims == {<<Current, i>> : i \in Window} \cup {<<tb[f], tt[f]>> : f \in Getting}
At(c) == buffers[c[1]].slots[c[2] % buffers[c[1]].capacity]

\* A thief that has won a slot of m_buffer is not a whole round behind, and one
\* that can still win has loaded m_buffer.
PaceInv ==
    /\ \A f \in Getting : tb[f] = Current => End <= tt[f] + Capacity
    /\ \A f \in Thieves : tpc[f] = "cas" /\ tt[f] = top => tb[f] = Current

\* A claim is for a task that nobody has run, no two are for the same one, and
\* what has been pushed was run once or is claimed.
TasksInv ==
    /\ \A c \in Claims : At(c) \in 1..pushed /\ ran[At(c)] = 0
    /\ \A c, d \in Claims : c # d => At(c) # At(d)
    /\ \A k \in 1..pushed : ran[k] = 1 \/ (ran[k] = 0 /\ \E c \in Claims : At(c) = k)
    /\ \A k \in Tasks : k > pushed => ran[k] = 0

IndexInv == Types /\ OwnerInv /\ ThiefInv /\ WinnersInv /\ CapacityInv
StoreInv == ~overrun => PaceInv /\ TasksInv

-----------------------------------------------------------------------------
(* Slots of a ring.                                                         *)

\* Division by a capacity.
LEMMA Euclid ==
    ASSUME NEW c \in Nat \ {0}, NEW i \in Nat
    PROVE  /\ i % c \in 0..(c - 1)
           /\ \E q \in Int : c * q \in Int /\ i = c * q + (i % c)
  <1>1. c \in Int /\ c > 0 /\ i \in Int
    OBVIOUS
  <1>2. i % c \in 0..(c - 1) /\ i \div c \in Int
    BY <1>1
  <1>3. c * (i \div c) \in Int /\ i = c * (i \div c) + (i % c)
    BY <1>1, <1>2
  <1> QED
    BY <1>2, <1>3

\* Between two multiples.
LEMMA Multiple ==
    ASSUME NEW c \in Nat \ {0}, NEW q \in Int, c * q < c, 0 < c * q
    PROVE  FALSE
  <1>1. CASE q <= 0
    <2>1. c * q <= 0
      BY <1>1
    <2> QED
      BY <2>1
  <1>2. CASE q >= 1
    <2>1. c * q >= c
      BY <1>2
    <2> QED
      BY <2>1
  <1> QED
    BY <1>1, <1>2

\* Indices less than a round apart have different slots.
LEMMA SlotsDiffer ==
    ASSUME NEW c \in Nat \ {0}, NEW i \in Nat, NEW j \in Nat, i < j, j - i < c
    PROVE  i % c # j % c
  <1> SUFFICES ASSUME i % c = j % c PROVE FALSE
    OBVIOUS
  <1> DEFINE r == i % c
  <1>1. r \in Int
    BY Euclid
  <1>2. PICK p \in Int : c * p \in Int /\ i = c * p + r
    BY Euclid
  <1>3. PICK q \in Int : c * q \in Int /\ j = c * q + r
    BY Euclid
  <1> HIDE DEF r
  <1>4. q - p \in Int /\ c * (q - p) = c * q - c * p
    BY <1>2, <1>3
  <1>5. c * (q - p) = j - i
    BY <1>1, <1>2, <1>3, <1>4
  <1> QED
    BY <1>4, <1>5, Multiple

\* An index a round later has the same slot.
LEMMA SameSlot ==
    ASSUME NEW c \in Nat \ {0}, NEW i \in Nat
    PROVE  (i + c) % c = i % c
  <1> DEFINE r == i % c
             j == i + c
  <1>1. r \in Int /\ 0 <= r /\ r < c
    BY Euclid
  <1>2. PICK q \in Int : c * q \in Int /\ i = c * q + r
    BY Euclid
  <1>3. j = i + c /\ j \in Int
    OBVIOUS
  <1> HIDE DEF r, j
  <1>4. c * (q + 1) = c * q + c /\ q + 1 \in Int
    BY <1>2
  <1>5. j = c * (q + 1) + r
    BY <1>1, <1>2, <1>3, <1>4
  <1>6. j % c = r
    BY <1>1, <1>3, <1>4, <1>5
  <1> QED
    BY <1>6 DEF r, j

-----------------------------------------------------------------------------
(* The buffers.                                                             *)

\* What a buffer is made of.
LEMMA BufferIs ==
    ASSUME NEW buf \in AnyBuffer
    PROVE  /\ buf.capacity \in Nat \ {0}
           /\ buf.slots \in [0..(buf.capacity - 1) -> Tasks \cup {Empty}]
           /\ buf = [capacity |-> buf.capacity, slots |-> buf.slots]
  BY DEF AnyBuffer, Buffer

\* And conversely.
LEMMA IsBuffer ==
    ASSUME NEW c \in Nat \ {0}, NEW z \in [0..(c - 1) -> Tasks \cup {Empty}]
    PROVE  [capacity |-> c, slots |-> z] \in AnyBuffer
  BY DEF AnyBuffer, Buffer

\* An update of the slots.
LEMMA SetSlots ==
    ASSUME NEW c, NEW s, NEW z
    PROVE  [[capacity |-> c, slots |-> s] EXCEPT !.slots = z] = [capacity |-> c, slots |-> z]
  OBVIOUS

Assign(q, b, x, v) == [q EXCEPT ![b].slots[x] = v]

\* p is q but for slot x of buffer b, which holds v.
OneSlot(p, q, b, x, v) ==
    /\ p \in Seq(AnyBuffer) /\ Len(p) = Len(q)
    /\ \A a \in 1..Len(q) : p[a].capacity = q[a].capacity
    /\ \A a \in 1..Len(q) : a # b => p[a] = q[a]
    /\ \A y \in 0..(q[b].capacity - 1) :
          p[b].slots[y] = IF y = x THEN v ELSE q[b].slots[y]

\* An assignment to a slot of one buffer: put(i) or get(i).
LEMMA WriteSlot ==
    ASSUME NEW q \in Seq(AnyBuffer), NEW b \in 1..Len(q), NEW x,
           NEW v \in Tasks \cup {Empty}, NEW p, p = Assign(q, b, x, v)
    PROVE  OneSlot(p, q, b, x, v)
  <1> DEFINE z == [q[b].slots EXCEPT ![x] = v]
             new == [capacity |-> q[b].capacity, slots |-> z]
  <1>1. q[b] \in AnyBuffer
    OBVIOUS
  <1>2. /\ q[b].capacity \in Nat \ {0}
        /\ q[b].slots \in [0..(q[b].capacity - 1) -> Tasks \cup {Empty}]
        /\ q[b] = [capacity |-> q[b].capacity, slots |-> q[b].slots]
    BY <1>1, BufferIs
  <1>3. z \in [0..(q[b].capacity - 1) -> Tasks \cup {Empty}]
    BY <1>2
  <1>4. new \in AnyBuffer
    BY <1>2, <1>3, IsBuffer
  <1>5. [q[b] EXCEPT !.slots = z] = new
    <2>1. [[capacity |-> q[b].capacity, slots |-> q[b].slots] EXCEPT !.slots = z] = new
      BY SetSlots
    <2> HIDE DEF new, z
    <2> QED
      BY <1>2, <2>1, Zenon
  <1>6. p = [q EXCEPT ![b] = new]
    <2>1. p = [q EXCEPT ![b] = [q[b] EXCEPT !.slots = z]]
      BY DEF Assign
    <2> QED
      BY <1>5, <2>1, Zenon
  <1>7. \A y \in 0..(q[b].capacity - 1) : z[y] = IF y = x THEN v ELSE q[b].slots[y]
    BY <1>2
  <1>8. new.capacity = q[b].capacity /\ new.slots = z
    OBVIOUS
  <1> HIDE DEF new, z
  <1>9. p \in Seq(AnyBuffer) /\ Len(p) = Len(q)
    BY <1>4, <1>6
  <1>10. p[b] = new /\ \A a \in 1..Len(q) : a # b => p[a] = q[a]
    BY <1>6
  <1> QED
    BY <1>7, <1>8, <1>9, <1>10 DEF OneSlot

\* What get(i) of the indices of I leaves.
LEMMA WithoutIs ==
    ASSUME NEW buf \in AnyBuffer, NEW I
    PROVE  /\ Without(buf, I) \in AnyBuffer /\ Without(buf, I).capacity = buf.capacity
           /\ \A y \in 0..(buf.capacity - 1) :
                (\A i \in I : y # i % buf.capacity) =>
                    Without(buf, I).slots[y] = buf.slots[y]
  <1> DEFINE z == [y \in 0..(buf.capacity - 1) |->
                    IF \E i \in I : y = i % buf.capacity THEN Empty ELSE buf.slots[y]]
  <1>1. /\ buf.capacity \in Nat \ {0}
        /\ buf.slots \in [0..(buf.capacity - 1) -> Tasks \cup {Empty}]
        /\ buf = [capacity |-> buf.capacity, slots |-> buf.slots]
    BY BufferIs
  <1>2. DOMAIN buf.slots = 0..(buf.capacity - 1)
    BY <1>1
  <1>3. Without(buf, I) = [capacity |-> buf.capacity, slots |-> z]
    BY <1>1, <1>2 DEF Without
  <1>4. z \in [0..(buf.capacity - 1) -> Tasks \cup {Empty}]
    BY <1>1
  <1>5. \A y \in 0..(buf.capacity - 1) :
            (\A i \in I : y # i % buf.capacity) => z[y] = buf.slots[y]
    OBVIOUS
  <1> HIDE DEF z
  <1> QED
    BY <1>1, <1>3, <1>4, <1>5, IsBuffer

\* What put(i) of the indices of I, less than a round apart, makes.
LEMMA DoubledIs ==
    ASSUME NEW buf \in AnyBuffer, NEW I \in SUBSET Nat,
           \A i, j \in I : i < j => j - i < buf.capacity
    PROVE  /\ Doubled(buf, I) \in AnyBuffer
           /\ Doubled(buf, I).capacity = 2 * buf.capacity
           /\ \A i \in I : Doubled(buf, I).slots[i % (2 * buf.capacity)]
                              = buf.slots[i % buf.capacity]
  <1> DEFINE c == buf.capacity
             d == 2 * c
             From(y) == CHOOSE i \in I : y = i % d
             z == [y \in 0..(d - 1) |->
                    IF \E i \in I : y = i % d THEN buf.slots[From(y) % c] ELSE Empty]
  <1>1. /\ c \in Nat \ {0} /\ d \in Nat \ {0}
        /\ buf.slots \in [0..(c - 1) -> Tasks \cup {Empty}]
    BY BufferIs
  <1>2. Doubled(buf, I) = [capacity |-> d, slots |-> z]
    BY DEF Doubled
  <1> HIDE DEF c
  <1>3. ASSUME NEW y \in 0..(d - 1), \E i \in I : y = i % d
        PROVE  From(y) \in I /\ y = From(y) % d
    BY <1>3
  <1>4. z \in [0..(d - 1) -> Tasks \cup {Empty}]
    <2> SUFFICES ASSUME NEW y \in 0..(d - 1), \E i \in I : y = i % d
                 PROVE  buf.slots[From(y) % c] \in Tasks \cup {Empty}
      OBVIOUS
    <2>1. From(y) \in Nat
      BY <1>3
    <2> HIDE DEF From
    <2>2. From(y) % c \in 0..(c - 1)
      BY <1>1, <2>1, Euclid
    <2> QED
      BY <1>1, <2>2
  <1>5. ASSUME NEW i \in I PROVE z[i % d] = buf.slots[i % c]
    <2>1. i \in Nat /\ i % d \in 0..(d - 1)
      BY <1>1, Euclid
    <2>2. From(i % d) \in I /\ i % d = From(i % d) % d
      BY <1>3, <2>1
    <2>3. z[i % d] = buf.slots[From(i % d) % c]
      BY <2>1
    <2> DEFINE j == From(i % d)
    <2>4. j \in I /\ j \in Nat /\ i % d = j % d
      BY <2>2
    <2> HIDE DEF j
    <2>5. ~(i < j)
      <3>1. i < j => j - i < d
        BY <1>1, <2>1, <2>4 DEF c
      <3> QED
        BY <1>1, <2>1, <2>4, <3>1, SlotsDiffer
    <2>6. ~(j < i)
      <3>1. j < i => i - j < d
        BY <1>1, <2>1, <2>4 DEF c
      <3> QED
        BY <1>1, <2>1, <2>4, <3>1, SlotsDiffer
    <2>7. j = i
      BY <2>1, <2>4, <2>5, <2>6
    <2> QED
      BY <2>3, <2>7 DEF j
  <1> HIDE DEF z, From
  <1>6. Doubled(buf, I) \in AnyBuffer
    BY <1>1, <1>2, <1>4, IsBuffer
  <1> QED
    BY <1>2, <1>5, <1>6 DEF c

\* The buffers keep their number and their capacities.
SameRings ==
    /\ buffers' \in Seq(AnyBuffer) /\ Len(buffers') = Len(buffers)
    /\ \A a \in 1..Len(buffers) : buffers'[a].capacity = buffers[a].capacity

\* get() of a task by its winner.
LEMMA TakeIs ==
    ASSUME Types, NEW b \in 1..Len(buffers), NEW i, Take(b, i)
    PROVE  OneSlot(buffers', buffers, b, i % buffers[b].capacity, Empty)
  <1>1. buffers' = Assign(buffers, b, i % buffers[b].capacity, Empty)
    BY DEF Take, Slot, CapacityOf, Assign
  <1>2. buffers \in Seq(AnyBuffer) /\ Empty \in Tasks \cup {Empty}
    BY DEF Types
  <1> QED
    BY <1>1, <1>2, WriteSlot

\* put() of the pushed task.
LEMMA PutIs ==
    ASSUME Types, pushed < MaxTasks, PushPut
    PROVE  /\ OneSlot(buffers', buffers, Current, ob % Capacity, pushed + 1)
           /\ pushed' = pushed + 1 /\ pushed + 1 \in Tasks
  <1>1. pushed' = pushed + 1 /\ pushed + 1 \in Tasks
    BY QueueAssumption DEF PushPut, Types, Tasks
  <1>2. buffers' = Assign(buffers, Current, ob % Capacity, pushed + 1)
    BY <1>1 DEF PushPut, Slot, Capacity, Assign
  <1>3. /\ buffers \in Seq(AnyBuffer) /\ Current \in 1..Len(buffers)
        /\ pushed + 1 \in Tasks \cup {Empty}
    BY <1>1 DEF Types, Current
  <1> QED
    BY <1>1, <1>2, <1>3, WriteSlot

\* What resize() leaves: the old buffers as they were, m_buffer without the tasks of
\* [t, b), and those tasks in the slots that they have in a ring of twice its size.
Moved == ot..(ob - 1)
Resized ==
    /\ buffers' \in Seq(AnyBuffer) /\ Len(buffers') = Len(buffers) + 1
    /\ \A a \in 1..Len(buffers) : buffers'[a].capacity = buffers[a].capacity
    /\ \A a \in 1..Len(buffers) : a # Current => buffers'[a] = buffers[a]
    /\ \A y \in 0..(Capacity - 1) : (\A i \in Moved : y # i % Capacity) =>
          buffers'[Current].slots[y] = buffers[Current].slots[y]
    /\ buffers'[Current + 1].capacity = 2 * Capacity
    /\ \A i \in Moved : buffers'[Current + 1].slots[i % (2 * Capacity)]
                           = buffers[Current].slots[i % Capacity]

\* resize() does that: none of the tasks [t, b) is lost on the way.
LEMMA ResizeIs ==
    ASSUME Types, ob - ot <= Capacity - 1, Resize
    PROVE  Resized
  <1> DEFINE n == Len(buffers)
             old == buffers[n]
             out == Without(old, Moved)
             new == Doubled(old, Moved)
             mid == [buffers EXCEPT ![n] = out]
  <1>1. buffers \in Seq(AnyBuffer) /\ n \in 1..n /\ n \in Nat /\ old \in AnyBuffer
    BY DEF Types
  <1>2. Capacity = old.capacity /\ old.capacity \in Nat \ {0}
    BY <1>1, BufferIs DEF Capacity, CapacityOf, Current
  <1>3. buffers' = Append(mid, new)
    BY DEF Resize, Current, Moved
  <1>4. /\ out \in AnyBuffer /\ out.capacity = old.capacity
        /\ \A y \in 0..(old.capacity - 1) :
             (\A i \in Moved : y # i % old.capacity) => out.slots[y] = old.slots[y]
    BY <1>1, WithoutIs
  <1>5. Moved \in SUBSET Nat /\ \A i, j \in Moved : i < j => j - i < old.capacity
    BY <1>2 DEF Moved, Types
  <1>6. /\ new \in AnyBuffer /\ new.capacity = 2 * old.capacity
        /\ \A i \in Moved : new.slots[i % (2 * old.capacity)]
                               = old.slots[i % old.capacity]
    BY <1>1, <1>5, DoubledIs
  <1> HIDE DEF out, new
  <1>7. /\ mid \in Seq(AnyBuffer) /\ Len(mid) = n /\ mid[n] = out
        /\ \A a \in 1..n : a # n => mid[a] = buffers[a]
    BY <1>1, <1>4
  <1> HIDE DEF mid
  <1>8. /\ buffers' \in Seq(AnyBuffer) /\ Len(buffers') = n + 1
        /\ buffers'[n + 1] = new
        /\ \A a \in 1..n : buffers'[a] = mid[a]
    BY <1>3, <1>6, <1>7
  <1>9. buffers'[n] = out /\ \A a \in 1..n : a # n => buffers'[a] = buffers[a]
    BY <1>1, <1>7, <1>8
  <1>10. \A a \in 1..n : buffers'[a].capacity = buffers[a].capacity
    BY <1>4, <1>9
  <1> QED
    BY <1>2, <1>4, <1>6, <1>8, <1>9, <1>10 DEF Resized, Current

\* Every step but resize().
LEMMA RingsStay ==
    ASSUME Types, OwnerInv, [Next]_vars, ~Resize
    PROVE  SameRings
  <1>1. CASE UNCHANGED buffers
    BY <1>1 DEF SameRings, Types
  <1>2. CASE PushPut
    BY <1>2, PutIs DEF OneSlot, SameRings, OwnerInv, PushPut
  <1>3. CASE PopTake
    <2>1. Len(buffers) \in 1..Len(buffers) /\ ob \in Nat
      BY <1>3 DEF Types, OwnerInv, PopTake
    <2> QED
      BY <1>3, <2>1, TakeIs DEF OneSlot, SameRings, PopTake, Current
  <1>4. ASSUME NEW f \in Thieves, StealGet(f) PROVE SameRings
    <2>1. tb[f] \in 1..Len(buffers) /\ tt[f] \in Nat
      BY DEF Types
    <2> QED
      BY <1>4, <2>1, TakeIs DEF OneSlot, SameRings, StealGet
  <1>5. CASE PushLoad \/ PushPublish \/ PopDecrement \/ PopTop
    BY <1>1, <1>5 DEF PushLoad, PushPublish, PopDecrement, PopTop
  <1>6. CASE PopCas \/ PopRestore \/ PopGiveUp \/ UNCHANGED vars
    BY <1>1, <1>6 DEF PopCas, PopRestore, PopGiveUp, vars
  <1>7. ASSUME NEW f \in Thieves, StealTop(f) \/ StealBottom(f) \/ StealBuffer(f) \/ StealCas(f)
        PROVE  SameRings
    BY <1>1, <1>7 DEF StealTop, StealBottom, StealBuffer, StealCas
  <1> QED
    BY <1>2, <1>3, <1>4, <1>5, <1>6, <1>7 DEF Next, OwnerNext, ThiefNext

-----------------------------------------------------------------------------
(* The indices.                                                             *)

\* The types are preserved.
LEMMA TypesStep ==
    ASSUME Types, OwnerInv, CapacityInv, [Next]_vars
    PROVE  Types'
  <1> USE DEF ownerVars, thiefVars
  <1>1. /\ top \in Nat /\ bottom \in Int /\ pushed \in 0..MaxTasks
        /\ opc \in OwnerPC /\ ob \in Int /\ ot \in Nat
        /\ tpc \in [Thieves -> ThiefPC] /\ tt \in [Thieves -> Nat]
        /\ tb \in [Thieves -> Nat] /\ \A f \in Thieves : tb[f] \in 1..Len(buffers)
        /\ ran \in [Tasks -> Nat] /\ overrun \in BOOLEAN
        /\ Len(buffers) \in Nat /\ Len(buffers) >= 1
    BY DEF Types
  <1>2. /\ buffers' \in Seq(AnyBuffer) /\ Len(buffers') \in Nat
        /\ Len(buffers') >= Len(buffers)
    <2>1. CASE Resize
      <3>1. Resized
        BY <2>1, ResizeIs DEF CapacityInv, Resize
      <3> QED
        BY <1>1, <3>1 DEF Resized
    <2>2. CASE ~Resize
      BY <1>1, <2>2, RingsStay DEF SameRings
    <2> QED
      BY <2>1, <2>2
  <1>3. \A f \in Thieves : tb[f] \in 1..Len(buffers')
    BY <1>1, <1>2
  <1>4. ASSUME NEW b, NEW i, Take(b, i) PROVE ran' \in [Tasks -> Nat]
    <2>1. PICK k : k = buffers[b].slots[Slot(b, i)]
      OBVIOUS
    <2>2. ran' = IF k = Empty THEN ran ELSE [ran EXCEPT ![k] = ran[k] + 1]
      BY <1>4, <2>1 DEF Take
    <2>3. CASE k = Empty
      BY <1>1, <2>2, <2>3
    <2>4. CASE k # Empty
      <3>1. ran' = [ran EXCEPT ![k] = ran[k] + 1]
        BY <2>2, <2>4
      <3>2. CASE k \in Tasks
        <4>1. ran[k] + 1 \in Nat
          BY <1>1, <3>2
        <4> QED
          BY <1>1, <3>1, <4>1
      <3>3. CASE k \notin Tasks
        BY <1>1, <3>1, <3>3
      <3> QED
        BY <3>2, <3>3
    <2> QED
      BY <2>3, <2>4
  <1>5. CASE PushLoad
    BY <1>1, <1>2, <1>3, <1>5 DEF PushLoad, Types, OwnerPC
  <1>6. CASE Resize
    BY <1>1, <1>2, <1>3, <1>6 DEF Resize, Types, OwnerPC
  <1>7. CASE PushPut
    <2>1. pushed' \in 0..MaxTasks
      BY <1>1, <1>7, QueueAssumption DEF PushPut, OwnerInv
    <2> QED
      BY <1>1, <1>2, <1>3, <1>7, <2>1 DEF PushPut, Types, OwnerPC
  <1>8. CASE PushPublish \/ PopRestore \/ PopGiveUp
    BY <1>1, <1>2, <1>3, <1>8 DEF PushPublish, PopRestore, PopGiveUp, Types, OwnerPC
  <1>9. CASE PopDecrement
    BY <1>1, <1>2, <1>3, <1>9 DEF PopDecrement, Types, OwnerPC
  <1>10. CASE PopTop
    BY <1>1, <1>2, <1>3, <1>10 DEF PopTop, Types, OwnerPC
  <1>11. CASE PopCas
    BY <1>1, <1>2, <1>3, <1>11 DEF PopCas, Types, OwnerPC
  <1>12. CASE PopTake
    BY <1>1, <1>2, <1>3, <1>4, <1>12 DEF PopTake, Types, OwnerPC
  <1>13. ASSUME NEW f \in Thieves, StealTop(f) PROVE Types'
    BY <1>1, <1>2, <1>3, <1>13 DEF StealTop, Goto, Types, ThiefPC
  <1>14. ASSUME NEW f \in Thieves, StealBottom(f) PROVE Types'
    BY <1>1, <1>2, <1>3, <1>14 DEF StealBottom, Goto, Types, ThiefPC
  <1>15. ASSUME NEW f \in Thieves, StealBuffer(f) PROVE Types'
    BY <1>1, <1>2, <1>3, <1>15 DEF StealBuffer, Goto, Types, ThiefPC, Current
  <1>16. ASSUME NEW f \in Thieves, StealCas(f) PROVE Types'
    <2>1. top' \in Nat
      BY <1>1, <1>16 DEF StealCas
    <2>2. tpc' \in [Thieves -> ThiefPC]
      BY <1>1, <1>16 DEF StealCas, Goto, ThiefPC
    <2> QED
      BY <1>1, <1>2, <1>3, <1>16, <2>1, <2>2 DEF StealCas, Types
  <1>17. ASSUME NEW f \in Thieves, StealGet(f) PROVE Types'
    BY <1>1, <1>2, <1>3, <1>4, <1>17 DEF StealGet, Goto, Types, ThiefPC
  <1>18. CASE UNCHANGED vars
    BY <1>1, <1>2, <1>3, <1>18 DEF vars, Types
  <1> QED
    BY <1>5, <1>6, <1>7, <1>8, <1>9, <1>10, <1>11, <1>12, <1>13, <1>14, <1>15, <1>16,
       <1>17, <1>18 DEF Next, OwnerNext, ThiefNext

\* The owner's locals stay in step with m_top and m_bottom: a thief that moves
\* m_top does so for an index below m_bottom, or for the one being popped.
LEMMA OwnerStep ==
    ASSUME Types, OwnerInv, ThiefInv, [Next]_vars
    PROVE  OwnerInv'
  <1> USE DEF ownerVars, thiefVars
  <1>1. /\ top \in Nat /\ bottom \in Int /\ opc \in OwnerPC /\ ob \in Int /\ ot \in Nat
        /\ tt \in [Thieves -> Nat] /\ pushed \in Int /\ MaxTasks \in Int
    BY QueueAssumption DEF Types
  <1>2. CASE PushLoad
    BY <1>1, <1>2 DEF PushLoad, OwnerInv
  <1>3. CASE Resize \/ PushPut \/ PushPublish
    BY <1>1, <1>3 DEF Resize, PushPut, PushPublish, OwnerInv
  <1>4. CASE PopDecrement
    BY <1>1, <1>4 DEF PopDecrement, OwnerInv
  <1>5. CASE PopTop
    BY <1>1, <1>5 DEF PopTop, OwnerInv
  <1>6. CASE PopCas
    BY <1>1, <1>6 DEF PopCas, OwnerInv
  <1>7. CASE PopRestore \/ PopTake \/ PopGiveUp
    BY <1>1, <1>7 DEF PopRestore, PopTake, PopGiveUp, OwnerInv
  <1>8. ASSUME NEW f \in Thieves, StealCas(f), top' # top PROVE OwnerInv'
    <2>1. top = tt[f] /\ top' = top + 1
      BY <1>1, <1>8 DEF StealCas
    <2>2. top < bottom \/ (opc \in {"popTop", "popCas"} /\ top = ob)
      BY <1>8, <2>1 DEF StealCas, ThiefInv
    <2> QED
      BY <1>1, <1>8, <2>1, <2>2 DEF StealCas, OwnerInv
  <1>9. CASE UNCHANGED <<top, bottom, pushed, opc, ob, ot>>
    BY <1>9 DEF OwnerInv
  <1>10. ASSUME NEW f \in Thieves, ThiefNext(f) PROVE OwnerInv'
    BY <1>8, <1>9, <1>10
       DEF ThiefNext, StealTop, StealBottom, StealBuffer, StealCas, StealGet
  <1>11. CASE UNCHANGED vars
    BY <1>9, <1>11 DEF vars
  <1> QED
    BY <1>2, <1>3, <1>4, <1>5, <1>6, <1>7, <1>10, <1>11 DEF Next, OwnerNext

\* A thief that can still win is after a task that is there.
LEMMA ThiefStep ==
    ASSUME Types, OwnerInv, ThiefInv, [Next]_vars
    PROVE  ThiefInv'
  <1> USE DEF ownerVars, thiefVars
  <1>1. /\ top \in Nat /\ bottom \in Int /\ opc \in OwnerPC /\ ob \in Int /\ ot \in Nat
        /\ tt \in [Thieves -> Nat] /\ tpc \in [Thieves -> ThiefPC]
    BY DEF Types
  <1>2. CASE PushLoad \/ Resize \/ PushPut
    BY <1>1, <1>2 DEF PushLoad, Resize, PushPut, ThiefInv
  <1>3. CASE PushPublish
    BY <1>1, <1>3 DEF PushPublish, OwnerInv, ThiefInv
  <1>4. CASE PopDecrement
    BY <1>1, <1>4 DEF PopDecrement, OwnerInv, ThiefInv
  <1>5. CASE PopTop
    BY <1>1, <1>5 DEF PopTop, OwnerInv, ThiefInv
  <1>6. CASE PopCas
    BY <1>1, <1>6 DEF PopCas, OwnerInv, ThiefInv
  <1>7. CASE PopRestore \/ PopGiveUp
    BY <1>1, <1>7 DEF PopRestore, PopGiveUp, OwnerInv, ThiefInv
  <1>8. CASE PopTake
    BY <1>1, <1>8 DEF PopTake, OwnerInv, ThiefInv
  <1>9. ASSUME NEW f \in Thieves, StealTop(f) PROVE ThiefInv'
    BY <1>1, <1>9 DEF StealTop, Goto, ThiefInv
  <1>10. ASSUME NEW f \in Thieves, StealBottom(f) PROVE ThiefInv'
    BY <1>1, <1>10 DEF StealBottom, Goto, ThiefInv
  <1>11. ASSUME NEW f \in Thieves, StealBuffer(f) PROVE ThiefInv'
    BY <1>1, <1>11 DEF StealBuffer, Goto, ThiefInv
  <1>12. ASSUME NEW f \in Thieves, StealCas(f) PROVE ThiefInv'
    BY <1>1, <1>12 DEF StealCas, Goto, ThiefInv
  <1>13. ASSUME NEW f \in Thieves, StealGet(f) PROVE ThiefInv'
    BY <1>1, <1>13 DEF StealGet, Goto, ThiefInv
  <1>14. CASE UNCHANGED vars
    BY <1>14 DEF vars, ThiefInv
  <1> QED
    BY <1>2, <1>3, <1>4, <1>5, <1>6, <1>7, <1>8, <1>9, <1>10, <1>11, <1>12, <1>13, <1>14
       DEF Next, OwnerNext, ThiefNext

\* Whoever wins an index is the first to do so.
LEMMA WinnersStep ==
    ASSUME Types, OwnerInv, ThiefInv, WinnersInv, [Next]_vars
    PROVE  WinnersInv'
  <1> USE DEF ownerVars, thiefVars
  <1>1. /\ top \in Nat /\ bottom \in Int /\ opc \in OwnerPC /\ ob \in Int /\ ot \in Nat
        /\ tt \in [Thieves -> Nat] /\ tpc \in [Thieves -> ThiefPC]
    BY DEF Types
  <1>2. CASE PushLoad \/ Resize \/ PushPut \/ PushPublish
    BY <1>1, <1>2 DEF PushLoad, Resize, PushPut, PushPublish, WinnersInv
  <1>3. CASE PopDecrement \/ PopRestore \/ PopTake \/ PopGiveUp
    BY <1>1, <1>3 DEF PopDecrement, PopRestore, PopTake, PopGiveUp, WinnersInv
  <1>4. CASE PopTop
    BY <1>1, <1>4 DEF PopTop, ThiefInv, WinnersInv
  <1>5. CASE PopCas
    BY <1>1, <1>5 DEF PopCas, OwnerInv, ThiefInv, WinnersInv
  <1>6. ASSUME NEW f \in Thieves, StealTop(f) PROVE WinnersInv'
    BY <1>1, <1>6 DEF StealTop, Goto, WinnersInv
  <1>7. ASSUME NEW f \in Thieves, StealBottom(f) \/ StealBuffer(f) PROVE WinnersInv'
    BY <1>1, <1>7 DEF StealBottom, StealBuffer, Goto, WinnersInv
  <1>8. ASSUME NEW f \in Thieves, StealCas(f) PROVE WinnersInv'
    <2>1. CASE top # tt[f]
      BY <1>1, <1>8, <2>1 DEF StealCas, Goto, WinnersInv
    <2>2. CASE top = tt[f]
      <3>1. /\ tpc' = [tpc EXCEPT ![f] = "get"] /\ tt' = tt /\ opc' = opc /\ ob' = ob
            /\ tpc[f] = "cas"
        BY <1>8, <2>2 DEF StealCas, Goto
      <3>2. \A g \in Thieves \ {f} : tpc[g] = "get" => tt[g] < top
        BY DEF ThiefInv
      <3>3. opc \in {"take", "restore"} => top # ob
        BY <1>1, <2>2, <3>1 DEF ThiefInv, OwnerInv
      <3> QED
        BY <1>1, <2>2, <3>1, <3>2, <3>3 DEF WinnersInv
    <2> QED
      BY <2>1, <2>2
  <1>9. ASSUME NEW f \in Thieves, StealGet(f) PROVE WinnersInv'
    BY <1>1, <1>9 DEF StealGet, Goto, WinnersInv
  <1>10. CASE UNCHANGED vars
    BY <1>10 DEF vars, WinnersInv
  <1> QED
    BY <1>2, <1>3, <1>4, <1>5, <1>6, <1>7, <1>8, <1>9, <1>10
       DEF Next, OwnerNext, ThiefNext

\* The capacity of m_buffer.
LEMMA CapacityIs == Types => Capacity \in Nat \ {0} /\ Current \in 1..Len(buffers)
  <1> SUFFICES ASSUME Types PROVE Capacity \in Nat \ {0} /\ Current \in 1..Len(buffers)
    OBVIOUS
  <1>1. Current \in 1..Len(buffers) /\ buffers[Current] \in AnyBuffer
    BY DEF Types, Current
  <1> QED
    BY <1>1, BufferIs DEF Capacity, CapacityOf

\* Every step but resize() keeps it.
LEMMA CapacityStays ==
    ASSUME Types, OwnerInv, [Next]_vars, ~Resize
    PROVE  Capacity' = Capacity /\ Current' = Current
  <1>1. SameRings
    BY RingsStay
  <1>2. Current \in 1..Len(buffers)
    BY CapacityIs
  <1> QED
    BY <1>1, <1>2 DEF SameRings, Capacity, CapacityOf, Current

\* resize() doubles it.
LEMMA CapacityGrows ==
    ASSUME Types, CapacityInv, Resize
    PROVE  Resized /\ Capacity' = 2 * Capacity /\ Current' = Current + 1
  <1>1. Resized
    BY ResizeIs DEF CapacityInv, Resize
  <1>2. Current' = Current + 1
    BY <1>1 DEF Resized, Current
  <1> QED
    BY <1>1, <1>2 DEF Resized, Capacity, CapacityOf

\* There is room for what is put.
LEMMA CapacityStep ==
    ASSUME Types, OwnerInv, ThiefInv, CapacityInv, [Next]_vars
    PROVE  CapacityInv'
  <1> USE DEF ownerVars, thiefVars
  <1>1. /\ top \in Nat /\ bottom \in Int /\ opc \in OwnerPC /\ ob \in Int /\ ot \in Nat
        /\ tt \in [Thieves -> Nat] /\ tpc \in [Thieves -> ThiefPC]
    BY DEF Types
  <1>2. Capacity \in Nat \ {0}
    BY CapacityIs
  <1>3. CASE Resize
    <2>1. Capacity' = 2 * Capacity
      BY <1>3, CapacityGrows
    <2>2. /\ opc = "resize" /\ opc' = "put" /\ ob - ot <= Capacity - 1
          /\ End - top <= Capacity - 1
          /\ UNCHANGED <<top, bottom, ob, ot>>
      BY <1>3 DEF Resize, CapacityInv
    <2>3. End' = End
      BY <2>2 DEF End
    <2>4. End \in Int
      BY <1>1 DEF End
    <2> QED
      BY <1>1, <1>2, <2>1, <2>2, <2>3, <2>4 DEF CapacityInv
  <1> SUFFICES ASSUME ~Resize PROVE CapacityInv'
    BY <1>3
  <1>4. Capacity' = Capacity
    BY CapacityStays
  <1>5. CASE PushLoad
    <2>1. /\ opc = "idle" /\ opc' \in {"resize", "put"} /\ bottom' = bottom /\ top' = top
          /\ ob' = bottom /\ ot' = top
          /\ opc' = "put" => bottom - top < Capacity - 1
      BY <1>1, <1>2, <1>5 DEF PushLoad, Capacity
    <2>2. End = bottom /\ End' = bottom
      BY <2>1 DEF End
    <2> QED
      BY <1>1, <1>2, <1>4, <2>1, <2>2 DEF CapacityInv
  <1>6. CASE PushPut
    <2>1. /\ opc = "put" /\ opc' = "publish" /\ UNCHANGED <<top, bottom, ob, ot>>
          /\ ob - ot <= Capacity - 2 /\ ot <= top
      BY <1>6 DEF PushPut, CapacityInv, OwnerInv
    <2>2. End' = ob + 1
      BY <2>1 DEF End
    <2> QED
      BY <1>1, <1>2, <1>4, <2>1, <2>2 DEF CapacityInv
  <1>7. CASE PushPublish \/ PopRestore \/ PopGiveUp
    BY <1>1, <1>2, <1>4, <1>7 DEF PushPublish, PopRestore, PopGiveUp, CapacityInv, End, OwnerInv
  <1>8. CASE PopDecrement
    BY <1>1, <1>2, <1>4, <1>8 DEF PopDecrement, CapacityInv, End
  <1>9. CASE PopTop
    BY <1>1, <1>2, <1>4, <1>9 DEF PopTop, CapacityInv, End
  <1>10. CASE PopCas
    BY <1>1, <1>2, <1>4, <1>10 DEF PopCas, CapacityInv, End
  <1>11. CASE PopTake
    BY <1>1, <1>2, <1>4, <1>11 DEF PopTake, CapacityInv, End, OwnerInv
  <1>12. ASSUME NEW f \in Thieves, ThiefNext(f) PROVE CapacityInv'
    <2>1. UNCHANGED <<bottom, opc, ob, ot>> /\ top' \in {top, top + 1}
      BY <1>1, <1>12
         DEF ThiefNext, StealTop, StealBottom, StealBuffer, StealCas, StealGet
    <2>2. End' = End /\ End \in Int
      BY <1>1, <2>1 DEF End
    <2>3. End - top' <= Capacity - 1
      <3>1. End - top <= Capacity - 1
        BY DEF CapacityInv
      <3>2. CASE top' = top
        BY <3>1, <3>2
      <3>3. CASE top' = top + 1
        BY <1>1, <1>2, <2>2, <3>1, <3>3
      <3> QED
        BY <2>1, <3>2, <3>3
    <2> QED
      BY <1>4, <2>1, <2>2, <2>3 DEF CapacityInv
  <1>13. CASE UNCHANGED vars
    BY <1>4, <1>13 DEF vars, CapacityInv, End
  <1> QED
    BY <1>5, <1>6, <1>7, <1>8, <1>9, <1>10, <1>11, <1>12, <1>13 DEF Next, OwnerNext

\* The queue starts empty.
LEMMA InitIndex == Init => IndexInv
  <1> SUFFICES ASSUME Init PROVE IndexInv
    OBVIOUS
  <1> DEFINE z == [s \in 0..(InitialCapacity - 1) |-> Empty]
             new == [capacity |-> InitialCapacity, slots |-> z]
  <1>1. InitialCapacity \in Nat \ {0} /\ InitialCapacity >= 2 /\ MaxTasks \in Nat
    BY QueueAssumption
  <1>2. z \in [0..(InitialCapacity - 1) -> Tasks \cup {Empty}]
    OBVIOUS
  <1>3. new \in AnyBuffer
    BY <1>1, <1>2, IsBuffer
  <1>4. buffers = <<new>>
    BY DEF Init, NewBuffer
  <1>5. new.capacity = InitialCapacity
    OBVIOUS
  <1> HIDE DEF new, z
  <1>6. buffers \in Seq(AnyBuffer) /\ Len(buffers) = 1 /\ buffers[1] = new
    BY <1>3, <1>4
  <1>7. Types
    <2>1. /\ tpc \in [Thieves -> ThiefPC] /\ tt \in [Thieves -> Nat]
          /\ tb \in [Thieves -> Nat] /\ \A f \in Thieves : tb[f] = 1
      BY DEF Init, ThiefPC
    <2>2. ran \in [Tasks -> Nat] /\ overrun \in BOOLEAN /\ opc \in OwnerPC
      BY DEF Init, OwnerPC
    <2>3. top \in Nat /\ bottom \in Int /\ pushed \in 0..MaxTasks /\ ob \in Int /\ ot \in Nat
      BY <1>1 DEF Init
    <2> QED
      BY <1>6, <2>1, <2>2, <2>3 DEF Types
  <1>8. Capacity = InitialCapacity
    BY <1>5, <1>6 DEF Capacity, CapacityOf, Current
  <1>9. CapacityInv
    BY <1>1, <1>8 DEF Init, CapacityInv, End
  <1>10. OwnerInv /\ ThiefInv /\ WinnersInv
    BY DEF Init, OwnerInv, ThiefInv, WinnersInv
  <1> QED
    BY <1>7, <1>9, <1>10 DEF IndexInv

\* The invariant about the indices is inductive.
LEMMA StepIndex == IndexInv /\ [Next]_vars => IndexInv'
  BY TypesStep, OwnerStep, ThiefStep, WinnersStep, CapacityStep DEF IndexInv

\* Owner and thieves agree on who may have which index.
THEOREM IndicesAgree == Spec => []IndexInv
  BY InitIndex, StepIndex, PTL DEF Spec

\* The owner and the thieves never win the same index, whoever was overtaken: each is
\* moved by one of them.
THEOREM WinnersAreExclusive == Spec => []MoversAreExclusive
  <1>1. IndexInv => MoversAreExclusive
    BY DEF IndexInv, WinnersInv, ThiefInv, MoversAreExclusive
  <1> QED
    BY IndicesAgree, <1>1, PTL

\* The queue's variables stay in their types; pop() counts m_bottom down to -1 at
\* most, and only while it is running.
THEOREM TypeCorrect == Spec => []TypeOK
  <1>1. IndexInv => TypeOK
    <2> SUFFICES ASSUME Types, OwnerInv PROVE TypeOK
      BY DEF IndexInv
    <2>1. /\ top \in Nat /\ pushed \in 0..MaxTasks
          /\ opc \in OwnerPC /\ ot \in Nat
          /\ tpc \in [Thieves -> ThiefPC] /\ tt \in [Thieves -> Nat]
          /\ ran \in [Tasks -> Nat] /\ overrun \in BOOLEAN
      BY DEF Types
    <2>2. bottom \in Nat \cup {-1} /\ ob \in Nat \cup {-1}
      BY <2>1 DEF Types, OwnerInv, OwnerPC
    <2>3. DOMAIN buffers = 1..Len(buffers)
      BY DEF Types
    <2>4. ASSUME NEW b \in DOMAIN buffers
          PROVE  CapacityOf(b) \in Nat \ {0} /\ buffers[b] \in Buffer(CapacityOf(b))
      <3>1. buffers[b] \in AnyBuffer
        BY <2>3 DEF Types
      <3> QED
        BY <3>1, BufferIs DEF CapacityOf, Buffer
    <2>5. tb \in [Thieves -> DOMAIN buffers]
      BY <2>3 DEF Types
    <2> QED
      BY <2>1, <2>2, <2>4, <2>5 DEF TypeOK, OwnerPC, ThiefPC
  <1> QED
    BY IndicesAgree, <1>1, PTL

-----------------------------------------------------------------------------
(* A thief is not overtaken.                                                *)

\* Only a put moves the end up.
LEMMA EndStep ==
    ASSUME Types, OwnerInv, [Next]_vars
    PROVE  /\ End \in Int /\ End' \in Int
           /\ ~PushPut => End' <= End
           /\ PushPut => End = ob /\ End' = ob + 1
  <1> USE DEF ownerVars, thiefVars
  <1>1. /\ top \in Nat /\ bottom \in Int /\ opc \in OwnerPC /\ ob \in Int /\ ot \in Nat
    BY DEF Types
  <1>2. End \in Int
    BY <1>1 DEF End
  <1>3. CASE PushLoad
    BY <1>1, <1>3 DEF PushLoad, PushPut, End
  <1>4. CASE Resize
    BY <1>1, <1>4 DEF Resize, PushPut, End
  <1>5. CASE PushPut
    BY <1>1, <1>5 DEF PushPut, End, OwnerInv
  <1>6. CASE PushPublish
    BY <1>1, <1>6 DEF PushPublish, PushPut, End
  <1>7. CASE PopDecrement
    BY <1>1, <1>7 DEF PopDecrement, PushPut, End
  <1>8. CASE PopTop
    BY <1>1, <1>8 DEF PopTop, PushPut, End
  <1>9. CASE PopCas
    BY <1>1, <1>9 DEF PopCas, PushPut, End
  <1>10. CASE PopRestore \/ PopGiveUp
    BY <1>1, <1>10 DEF PopRestore, PopGiveUp, PushPut, End
  <1>11. CASE PopTake
    BY <1>1, <1>11 DEF PopTake, PushPut, End, OwnerInv
  <1>12. CASE UNCHANGED <<opc, ob, bottom>>
    <2>1. End' = End
      BY <1>12 DEF End
    <2>2. ~PushPut
      BY <1>12 DEF PushPut
    <2> QED
      BY <1>2, <2>1, <2>2
  <1>13. ASSUME NEW f \in Thieves, ThiefNext(f) PROVE UNCHANGED <<opc, ob, bottom>>
    BY <1>13 DEF ThiefNext, StealTop, StealBottom, StealBuffer, StealCas, StealGet
  <1>14. CASE UNCHANGED vars
    BY <1>12, <1>14 DEF vars
  <1> QED
    BY <1>3, <1>4, <1>5, <1>6, <1>7, <1>8, <1>9, <1>10, <1>11, <1>12, <1>13, <1>14
       DEF Next, OwnerNext

\* While overrun stays false, a winner of m_buffer is less than a round behind and
\* a thief that can win has loaded m_buffer.
LEMMA PaceStep ==
    ASSUME IndexInv, PaceInv, [Next]_vars, ~overrun'
    PROVE  PaceInv'
  <1> USE DEF ownerVars, thiefVars
  <1>1. Types /\ OwnerInv /\ ThiefInv /\ CapacityInv
    BY DEF IndexInv
  <1>2. /\ top \in Nat /\ bottom \in Int /\ opc \in OwnerPC /\ ob \in Int /\ ot \in Nat
        /\ tt \in [Thieves -> Nat] /\ tpc \in [Thieves -> ThiefPC]
        /\ tb \in [Thieves -> Nat] /\ \A f \in Thieves : tb[f] \in 1..Len(buffers)
        /\ Current \in Nat
    BY <1>1 DEF Types, Current
  <1>3. Capacity \in Nat \ {0} /\ End \in Int /\ End' \in Int
    BY <1>1, CapacityIs, EndStep
  <1>4. CASE Resize
    <2>1. Current' = Current + 1 /\ tb' = tb /\ tpc' = tpc /\ tt' = tt /\ top' = top
      BY <1>1, <1>4, CapacityGrows DEF Resize
    <2>2. \A f \in Thieves : tb[f] # Current + 1
      BY <1>2 DEF Current
    <2>3. \A f \in Thieves : tpc[f] = "cas" => tt[f] # top
      <3> SUFFICES ASSUME NEW f \in Thieves, tpc[f] = "cas", tt[f] = top PROVE FALSE
        OBVIOUS
      <3>1. ot <= top
        BY <1>1, <1>4 DEF Resize, OwnerInv
      <3> QED
        BY <1>2, <1>4, <3>1 DEF Resize
    <2> QED
      BY <2>1, <2>2, <2>3 DEF PaceInv, Getting
  <1> SUFFICES ASSUME ~Resize PROVE PaceInv'
    BY <1>4
  <1>5. Capacity' = Capacity /\ Current' = Current
    BY <1>1, CapacityStays
  <1>6. CASE PushPut
    <2>1. End = ob /\ End' = ob + 1 /\ UNCHANGED <<top, tpc, tt, tb>>
      BY <1>1, <1>6, EndStep DEF PushPut
    <2>2. ASSUME NEW f \in Getting, tb[f] = Current PROVE ob + 1 <= tt[f] + Capacity
      <3>1. ob <= tt[f] + Capacity /\ f \in Thieves /\ tt[f] \in Nat
        BY <1>2, <2>1, <2>2 DEF PaceInv, Getting
      <3>2. Slot(Current, tt[f]) # Slot(Current, ob)
        BY <1>6, <2>2, <3>1 DEF PushPut, Getting
      <3>3. ob # tt[f] + Capacity
        <4>1. (tt[f] + Capacity) % Capacity = tt[f] % Capacity
          BY <1>3, <3>1, SameSlot
        <4> QED
          BY <3>2, <4>1 DEF Slot, Capacity
      <3> QED
        BY <1>2, <1>3, <3>1, <3>3
    <2> QED
      BY <1>5, <2>1, <2>2 DEF PaceInv, Getting
  <1>7. ASSUME UNCHANGED <<tpc, tt, tb>>, ~PushPut, top' = top PROVE PaceInv'
    <2>1. End' <= End
      BY <1>1, <1>7, EndStep
    <2> QED
      BY <1>2, <1>3, <1>5, <1>7, <2>1 DEF PaceInv, Getting
  <1>8. CASE PopCas
    <2>1. End' <= End
      BY <1>1, <1>8, EndStep DEF PopCas, PushPut
    <2>2. top' = top \/ top' = top + 1
      BY <1>2, <1>8 DEF PopCas
    <2>3. \A f \in Thieves : tpc[f] = "cas" => tt[f] # top + 1
      BY <1>1, <1>2 DEF ThiefInv
    <2> QED
      BY <1>2, <1>3, <1>5, <1>8, <2>1, <2>2, <2>3 DEF PopCas, PaceInv, Getting
  <1>9. CASE PushLoad \/ PushPublish \/ PopDecrement \/ PopTop
    BY <1>7, <1>9 DEF PushLoad, PushPublish, PopDecrement, PopTop, PushPut
  <1>10. CASE PopRestore \/ PopGiveUp \/ PopTake
    BY <1>7, <1>10 DEF PopRestore, PopGiveUp, PopTake, PushPut
  <1>11. ASSUME NEW f \in Thieves, ThiefNext(f) PROVE End' = End
    BY <1>11 DEF ThiefNext, StealTop, StealBottom, StealBuffer, StealCas, StealGet, End
  <1>12. ASSUME NEW f \in Thieves, StealTop(f) PROVE PaceInv'
    <2>1. End' = End
      BY <1>11, <1>12 DEF ThiefNext
    <2> QED
      BY <1>2, <1>5, <1>12, <2>1 DEF StealTop, Goto, PaceInv, Getting
  <1>13. ASSUME NEW f \in Thieves, StealBottom(f) PROVE PaceInv'
    <2>1. End' = End
      BY <1>11, <1>13 DEF ThiefNext
    <2> QED
      BY <1>2, <1>5, <1>13, <2>1 DEF StealBottom, Goto, PaceInv, Getting
  <1>14. ASSUME NEW f \in Thieves, StealBuffer(f) PROVE PaceInv'
    <2>1. End' = End
      BY <1>11, <1>14 DEF ThiefNext
    <2> QED
      BY <1>2, <1>5, <1>14, <2>1 DEF StealBuffer, Goto, PaceInv, Getting
  <1>15. ASSUME NEW f \in Thieves, StealCas(f) PROVE PaceInv'
    <2>1. End' = End
      BY <1>11, <1>15 DEF ThiefNext
    <2>2. CASE top # tt[f]
      BY <1>2, <1>5, <1>15, <2>1, <2>2 DEF StealCas, Goto, PaceInv, Getting
    <2>3. CASE top = tt[f]
      <3>1. tb[f] = Current /\ End <= tt[f] + Capacity
        BY <1>1, <1>2, <1>3, <1>15, <2>3 DEF StealCas, PaceInv, CapacityInv
      <3>2. \A g \in Thieves : tpc[g] = "cas" => tt[g] # top + 1
        BY <1>1, <1>2 DEF ThiefInv
      <3>3. /\ tpc' = [tpc EXCEPT ![f] = "get"] /\ top' = top + 1 /\ tt' = tt /\ tb' = tb
        BY <1>15, <2>3 DEF StealCas, Goto
      <3> QED
        BY <1>2, <1>3, <1>5, <2>1, <3>1, <3>2, <3>3 DEF PaceInv, Getting
    <2> QED
      BY <2>2, <2>3
  <1>16. ASSUME NEW f \in Thieves, StealGet(f) PROVE PaceInv'
    <2>1. End' = End
      BY <1>11, <1>16 DEF ThiefNext
    <2> QED
      BY <1>2, <1>5, <1>16, <2>1 DEF StealGet, Goto, PaceInv, Getting
  <1>17. CASE UNCHANGED vars
    BY <1>7, <1>17 DEF vars, PushPut
  <1> QED
    BY <1>6, <1>8, <1>9, <1>10, <1>12, <1>13, <1>14, <1>15, <1>16, <1>17
       DEF Next, OwnerNext, ThiefNext

-----------------------------------------------------------------------------
(* Every task is claimed by one, until it has run.                          *)

\* A claim is a buffer and an index, not below zero.
LEMMA ClaimsAre ==
    ASSUME IndexInv
    PROVE  /\ Window \subseteq Nat
           /\ \A c \in Claims : /\ c[1] \in 1..Len(buffers) /\ c[2] \in Nat
                                /\ c = <<c[1], c[2]>>
  <1>1. Types /\ OwnerInv
    BY DEF IndexInv
  <1>2. Window \subseteq Nat
    BY <1>1 DEF Types, OwnerInv, Window, End
  <1>3. Current \in 1..Len(buffers)
    BY <1>1, CapacityIs
  <1>4. \A f \in Getting : tb[f] \in 1..Len(buffers) /\ tt[f] \in Nat
    BY <1>1 DEF Getting, Types
  <1> QED
    BY <1>2, <1>3, <1>4 DEF Claims

\* The indices of the window.
LEMMA InWindow ==
    ASSUME IndexInv
    PROVE  \A i : i \in Window <=>
               /\ i \in Int
               /\ (top <= i /\ i < End) \/ (opc \in {"restore", "take"} /\ i = ob)
  <1>1. top \in Int /\ bottom \in Int /\ ob \in Int
    BY DEF IndexInv, Types
  <1>2. End \in Int
    BY <1>1 DEF End
  <1> QED
    BY <1>1, <1>2 DEF Window

\* What the winners have is outside the window.
LEMMA WonAre ==
    ASSUME IndexInv, NEW f \in Getting
    PROVE  /\ f \in Thieves /\ tt[f] \in Nat /\ tt[f] \notin Window
           /\ \A g \in Getting : g # f => tt[g] # tt[f]
  <1>1. f \in Thieves /\ tpc[f] = "get" /\ tt[f] \in Nat /\ top \in Nat
    BY DEF Getting, IndexInv, Types
  <1>2. tt[f] < top
    BY <1>1 DEF IndexInv, ThiefInv
  <1>3. opc \in {"restore", "take"} => tt[f] # ob
    BY <1>1 DEF IndexInv, WinnersInv
  <1>4. \A g \in Getting : g # f => tt[g] # tt[f]
    BY <1>1 DEF IndexInv, WinnersInv, Getting
  <1> QED
    BY <1>1, <1>2, <1>3, <1>4, InWindow

\* A step that moves no task and no claim.
LEMMA TasksSame ==
    ASSUME TasksInv, Claims' = Claims, buffers' = buffers, ran' = ran, pushed' = pushed
    PROVE  TasksInv'
  BY DEF TasksInv, At

\* get() of a claim: its task runs, for the first time, and no other is touched.
LEMMA TasksTake ==
    ASSUME IndexInv, TasksInv, NEW c \in Claims, Take(c[1], c[2]),
           Claims' = Claims \ {c}, pushed' = pushed
    PROVE  TasksInv'
  <1> DEFINE k == At(c)
  <1>1. /\ c[1] \in 1..Len(buffers) /\ c[2] \in Nat
        /\ ran \in [Tasks -> Nat] /\ pushed \in 0..MaxTasks /\ Types
    BY ClaimsAre DEF IndexInv, Types
  <1>2. k \in 1..pushed /\ ran[k] = 0
    BY DEF TasksInv
  <1>3. k \in Tasks /\ k # Empty
    BY <1>1, <1>2, QueueAssumption DEF Tasks, Empty
  <1>4. ran' = [ran EXCEPT ![k] = ran[k] + 1]
    BY <1>3 DEF Take, At, Slot, CapacityOf
  <1>5. OneSlot(buffers', buffers, c[1], c[2] % buffers[c[1]].capacity, Empty)
    BY <1>1, TakeIs
  <1>6. ASSUME NEW d \in Claims, d # c PROVE At(d)' = At(d)
    <2>1. d[1] \in 1..Len(buffers) /\ d[2] \in Nat
      BY ClaimsAre
    <2>2. buffers'[d[1]].capacity = buffers[d[1]].capacity
      BY <1>5, <2>1 DEF OneSlot
    <2>3. CASE d[1] # c[1]
      BY <1>5, <2>1, <2>3 DEF OneSlot, At
    <2>4. CASE d[1] = c[1]
      <3>1. At(d) # At(c)
        BY <1>6 DEF TasksInv
      <3>2. d[2] % buffers[d[1]].capacity # c[2] % buffers[c[1]].capacity
        BY <2>4, <3>1 DEF At
      <3>3. d[2] % buffers[d[1]].capacity \in 0..(buffers[d[1]].capacity - 1)
        <4>1. buffers[d[1]] \in AnyBuffer
          BY <1>1, <2>1 DEF Types
        <4>2. buffers[d[1]].capacity \in Nat \ {0}
          BY <4>1, BufferIs
        <4> QED
          BY <2>1, <4>2, Euclid
      <3> QED
        BY <1>5, <2>2, <2>4, <3>2, <3>3 DEF OneSlot, At
    <2> QED
      BY <2>3, <2>4
  <1> HIDE DEF k
  <1>7. ran'[k] = 1 /\ \A j \in Tasks : j # k => ran'[j] = ran[j]
    BY <1>1, <1>2, <1>3, <1>4
  <1>8. \A d \in Claims' : d \in Claims /\ d # c /\ At(d)' = At(d) /\ At(d) # k
    BY <1>6 DEF TasksInv, k
  <1>9. 1..pushed \subseteq Tasks
    BY <1>1, QueueAssumption DEF Tasks
  <1>10. \A d \in Claims' : At(d)' \in 1..pushed /\ ran'[At(d)'] = 0
    BY <1>7, <1>8, <1>9 DEF TasksInv
  <1>11. \A d, g \in Claims' : d # g => At(d)' # At(g)'
    BY <1>8 DEF TasksInv
  <1>12. ASSUME NEW j \in 1..pushed
         PROVE  ran'[j] = 1 \/ (ran'[j] = 0 /\ \E d \in Claims' : At(d)' = j)
    <2>1. CASE j = k
      BY <1>7, <2>1
    <2>2. CASE j # k
      <3>1. ran'[j] = ran[j]
        BY <1>7, <1>9, <2>2
      <3>2. CASE ran[j] = 1
        BY <3>1, <3>2
      <3>3. CASE ran[j] # 1
        <4>1. PICK d \in Claims : At(d) = j
          BY <3>3 DEF TasksInv
        <4>2. d # c
          BY <2>2, <4>1 DEF k
        <4>3. d \in Claims' /\ At(d)' = j
          BY <1>6, <4>1, <4>2
        <4>4. ran[j] = 0
          BY <3>3 DEF TasksInv
        <4> QED
          BY <3>1, <4>3, <4>4
      <3> QED
        BY <3>2, <3>3
    <2> QED
      BY <2>1, <2>2
  <1>13. \A j \in Tasks : j > pushed => ran'[j] = 0
    BY <1>1, <1>2, <1>7 DEF TasksInv
  <1> QED
    BY <1>10, <1>11, <1>12, <1>13 DEF TasksInv

\* put() takes a slot that nobody has a claim on, and makes a claim.
LEMMA TasksPut ==
    ASSUME IndexInv, PaceInv, TasksInv, PushPut, ~overrun'
    PROVE  TasksInv'
  <1> USE DEF ownerVars, thiefVars
  <1> DEFINE new == <<Current, ob>>
  <1>1. Types /\ OwnerInv /\ CapacityInv
    BY DEF IndexInv
  <1>2. /\ opc = "put" /\ opc' = "publish" /\ ob = bottom /\ ot <= top /\ top <= ob
        /\ pushed < MaxTasks /\ UNCHANGED <<top, bottom, ob, ot, tpc, tt, tb, ran>>
        /\ ob - ot <= Capacity - 2 /\ End = ob
    BY <1>1 DEF PushPut, OwnerInv, CapacityInv, End
  <1>3. /\ OneSlot(buffers', buffers, Current, ob % Capacity, pushed + 1)
        /\ pushed' = pushed + 1 /\ pushed + 1 \in Tasks
    BY <1>1, <1>2, PutIs
  <1>4. /\ Capacity \in Nat \ {0} /\ Current \in 1..Len(buffers) /\ Current' = Current
        /\ ob \in Nat /\ top \in Nat /\ ot \in Nat /\ pushed \in Nat
        /\ ran \in [Tasks -> Nat]
    <2>1. Capacity \in Nat \ {0} /\ Current \in 1..Len(buffers)
      BY <1>1, CapacityIs
    <2>2. Current' = Current
      BY <1>3 DEF OneSlot, Current
    <2> QED
      BY <1>1, <1>2, <2>1, <2>2 DEF Types
  <1>5. Claims' = Claims \cup {new}
    <2>1. Getting' = Getting
      BY <1>2 DEF Getting
    <2>2. Window = top..(ob - 1) /\ Window' = top..ob
      BY <1>2, <1>4 DEF Window, End
    <2>3. Window' = Window \cup {ob}
      BY <1>2, <1>4, <2>2
    <2> QED
      BY <1>2, <1>4, <2>1, <2>3 DEF Claims
  <1>6. ASSUME NEW d \in Claims, d[1] = Current PROVE d[2] % Capacity # ob % Capacity
    <2>1. d[2] \in Nat /\ d = <<d[1], d[2]>>
      BY ClaimsAre
    <2>2. CASE d[2] \in Window
      <3>1. top <= d[2] /\ d[2] < ob
        BY <1>2, <2>2, InWindow
      <3>2. ob - d[2] < Capacity
        BY <1>2, <1>4, <2>1, <3>1
      <3> QED
        BY <1>4, <2>1, <3>1, <3>2, SlotsDiffer
    <2>3. ASSUME NEW f \in Getting, d = <<tb[f], tt[f]>>
          PROVE  d[2] % Capacity # ob % Capacity
      <3>1. tb[f] = Current /\ d[2] = tt[f]
        BY <1>6, <2>3
      <3>2. Slot(Current, tt[f]) # Slot(Current, ob)
        BY <3>1 DEF PushPut, Getting
      <3> QED
        BY <3>1, <3>2 DEF Slot, Capacity
    <2> QED
      BY <2>1, <2>2, <2>3 DEF Claims
  <1>7. ASSUME NEW d \in Claims PROVE At(d)' = At(d)
    <2>1. d[1] \in 1..Len(buffers) /\ d[2] \in Nat
      BY ClaimsAre
    <2>2. CASE d[1] # Current
      BY <1>3, <2>1, <2>2 DEF OneSlot, At
    <2>3. CASE d[1] = Current
      <3>1. d[2] % Capacity \in 0..(Capacity - 1)
        BY <1>4, <2>1, Euclid
      <3>2. Capacity = buffers[Current].capacity
        BY DEF Capacity, CapacityOf
      <3>3. buffers'[Current].capacity = Capacity
        BY <1>3, <1>4, <3>2 DEF OneSlot
      <3>4. buffers'[Current].slots[d[2] % Capacity] = buffers[Current].slots[d[2] % Capacity]
        BY <1>3, <1>6, <2>3, <3>1, <3>2 DEF OneSlot
      <3> QED
        BY <2>3, <3>2, <3>3, <3>4 DEF At
    <2> QED
      BY <2>2, <2>3
  <1>8. At(new)' = pushed + 1
    <2>1. ob % Capacity \in 0..(Capacity - 1)
      BY <1>4, Euclid
    <2>2. Capacity = buffers[Current].capacity
      BY DEF Capacity, CapacityOf
    <2>3. buffers'[Current].capacity = Capacity
      BY <1>3, <1>4, <2>2 DEF OneSlot
    <2>4. buffers'[Current].slots[ob % Capacity] = pushed + 1
      BY <1>3, <2>1, <2>2 DEF OneSlot
    <2>5. new[1]' = Current /\ new[2]' = ob
      BY <1>2, <1>4
    <2> QED
      BY <2>3, <2>4, <2>5 DEF At
  <1>9. PICK n : n = new
    OBVIOUS
  <1>10. n' = n /\ At(n)' = pushed + 1 /\ Claims' = Claims \cup {n}
    <2>1. new' = new
      BY <1>2, <1>4
    <2> QED
      BY <1>5, <1>8, <1>9, <2>1 DEF At
  <1> HIDE DEF new
  <1>11. \A d \in Claims : At(d) \in 1..pushed /\ ran[At(d)] = 0
    BY DEF TasksInv
  <1>12. ran[pushed + 1] = 0
    BY <1>3, <1>4 DEF TasksInv
  <1>13. \A d \in Claims' : At(d)' \in 1..(pushed + 1) /\ ran[At(d)'] = 0
    BY <1>4, <1>7, <1>10, <1>11, <1>12
  <1>14. \A d, g \in Claims' : d # g => At(d)' # At(g)'
    <2> SUFFICES ASSUME NEW d \in Claims', NEW g \in Claims', d # g
                 PROVE  At(d)' # At(g)'
      OBVIOUS
    <2>1. CASE d \in Claims /\ g \in Claims
      BY <1>7, <2>1 DEF TasksInv
    <2>2. CASE d \in Claims /\ g = n
      BY <1>4, <1>7, <1>10, <1>11, <2>2
    <2>3. CASE d = n /\ g \in Claims
      BY <1>4, <1>7, <1>10, <1>11, <2>3
    <2> QED
      BY <1>10, <2>1, <2>2, <2>3
  <1>15. ASSUME NEW j \in 1..(pushed + 1)
         PROVE  ran[j] = 1 \/ (ran[j] = 0 /\ \E d \in Claims' : At(d)' = j)
    <2>1. CASE j = pushed + 1
      BY <1>10, <1>12, <2>1
    <2>2. CASE j # pushed + 1
      <3>1. j \in 1..pushed
        BY <1>4, <2>2
      <3>2. CASE ran[j] = 1
        BY <3>2
      <3>3. CASE ran[j] # 1
        <4>1. ran[j] = 0 /\ \E d \in Claims : At(d) = j
          BY <3>1, <3>3 DEF TasksInv
        <4>2. PICK d \in Claims : At(d) = j
          BY <4>1
        <4> QED
          BY <1>7, <1>10, <4>1, <4>2
      <3> QED
        BY <3>2, <3>3
    <2> QED
      BY <2>1, <2>2
  <1>16. \A j \in Tasks : j > pushed + 1 => ran[j] = 0
    BY <1>4 DEF TasksInv, Tasks
  <1> QED
    BY <1>2, <1>3, <1>13, <1>14, <1>15, <1>16 DEF TasksInv

\* resize() takes the owner's claims to the new buffer with their tasks, and
\* leaves what a winner has in the old one.
LEMMA TasksResize ==
    ASSUME IndexInv, PaceInv, TasksInv, Resize, ~overrun'
    PROVE  TasksInv'
  <1> USE DEF ownerVars, thiefVars
  <1>1. Types /\ OwnerInv /\ CapacityInv /\ ThiefInv
    BY DEF IndexInv
  <1>2. /\ opc = "resize" /\ opc' = "put" /\ ob = bottom /\ ot <= top /\ top <= ob
        /\ UNCHANGED <<top, bottom, ob, ot, tpc, tt, tb, ran, pushed>>
        /\ ob - ot <= Capacity - 1 /\ End = ob
    BY <1>1 DEF Resize, OwnerInv, CapacityInv, End
  <1>3. Resized /\ Capacity' = 2 * Capacity /\ Current' = Current + 1
    BY <1>1, CapacityGrows
  <1>4. /\ Capacity \in Nat \ {0} /\ Current \in 1..Len(buffers) /\ Current \in Nat
        /\ ob \in Nat /\ top \in Nat /\ ot \in Nat /\ Len(buffers) = Current
    <2>1. Capacity \in Nat \ {0} /\ Current \in 1..Len(buffers)
      BY <1>1, CapacityIs
    <2> QED
      BY <1>1, <1>2, <2>1 DEF Types, Current
  <1>5. PICK n \in Nat : n = Current
    BY <1>4
  <1>6. Getting' = Getting /\ Window' = Window /\ Window = top..(ob - 1)
    BY <1>2 DEF Getting, Window, End
  <1>7. /\ Claims = {<<n, i>> : i \in Window} \cup {<<tb[f], tt[f]>> : f \in Getting}
        /\ Claims' = {<<n + 1, i>> : i \in Window} \cup {<<tb[f], tt[f]>> : f \in Getting}
    BY <1>2, <1>3, <1>5, <1>6 DEF Claims
  <1>8. buffers[n].capacity = Capacity
    BY <1>5 DEF Capacity, CapacityOf
  <1>9. ASSUME NEW i \in Window PROVE At(<<n + 1, i>>)' = At(<<n, i>>)
    <2>1. i \in Moved
      BY <1>2, <1>4, <1>6 DEF Moved
    <2>2. /\ buffers'[n + 1].capacity = 2 * Capacity
          /\ buffers'[n + 1].slots[i % (2 * Capacity)] = buffers[n].slots[i % Capacity]
      BY <1>3, <1>5, <2>1 DEF Resized
    <2> QED
      BY <1>8, <2>2 DEF At
  <1>10. ASSUME NEW f \in Getting
         PROVE  \A c : c = <<tb[f], tt[f]>> => c[1] # n + 1 /\ At(c)' = At(c)
    <2>1. f \in Thieves /\ tt[f] \in Nat /\ tb[f] \in 1..Len(buffers)
      BY <1>1 DEF Getting, Types
    <2>2. tb[f] # n + 1 /\ buffers'[tb[f]].capacity = buffers[tb[f]].capacity
      BY <1>3, <1>4, <1>5, <2>1 DEF Resized
    <2> DEFINE y == tt[f] % buffers[tb[f]].capacity
    <2>3. buffers'[tb[f]].slots[y] = buffers[tb[f]].slots[y]
      <3>1. CASE tb[f] # n
        <4>1. buffers'[tb[f]] = buffers[tb[f]]
          BY <1>3, <1>5, <2>1, <3>1 DEF Resized
        <4> QED
          BY <4>1
      <3>2. CASE tb[f] = n
        <4>1. y = tt[f] % Capacity /\ y \in 0..(Capacity - 1)
          BY <1>4, <1>8, <2>1, <3>2, Euclid
        <4>2. tt[f] < ot
          <5>1. tpc[f] = "get"
            BY DEF Getting
          <5>2. ~(tpc[f] \in {"cas", "get"} /\ tt[f] >= ot)
            BY <2>1 DEF Resize
          <5>3. ~(tt[f] >= ot)
            BY <5>1, <5>2
          <5> QED
            BY <1>4, <2>1, <5>3
        <4>3. ob <= tt[f] + Capacity
          BY <1>2, <1>5, <3>2 DEF PaceInv
        <4>4. ASSUME NEW j \in Moved PROVE y # j % Capacity
          <5>1. j \in Nat /\ tt[f] < j /\ j - tt[f] < Capacity
            BY <1>4, <2>1, <4>2, <4>3 DEF Moved
          <5> QED
            BY <1>4, <2>1, <4>1, <5>1, SlotsDiffer
        <4> HIDE DEF y
        <4> QED
          BY <1>3, <1>5, <3>2, <4>1, <4>4 DEF Resized
      <3> QED
        BY <3>1, <3>2
    <2> QED
      BY <2>2, <2>3 DEF At
  <1> DEFINE Old(c) == IF c[1] = n + 1 THEN <<n, c[2]>> ELSE c
  <1>11. ASSUME NEW c \in Claims' PROVE Old(c) \in Claims /\ At(c)' = At(Old(c))
    <2>1. ASSUME NEW i \in Window, c = <<n + 1, i>>
          PROVE  Old(c) \in Claims /\ At(c)' = At(Old(c))
      <3>1. Old(c) = <<n, i>>
        BY <2>1
      <3> QED
        BY <1>7, <1>9, <2>1, <3>1
    <2>2. ASSUME NEW f \in Getting, c = <<tb[f], tt[f]>>
          PROVE  Old(c) \in Claims /\ At(c)' = At(Old(c))
      <3>1. Old(c) = c /\ At(c)' = At(c)
        BY <1>10, <2>2
      <3>2. c \in Claims
        BY <1>7, <2>2
      <3> QED
        BY <3>1, <3>2
    <2> QED
      BY <1>7, <2>1, <2>2
  <1>12. ASSUME NEW c \in Claims', NEW d \in Claims', c # d PROVE Old(c) # Old(d)
    <2>1. \A i \in Window : Old(<<n + 1, i>>) = <<n, i>>
      OBVIOUS
    <2>2. \A f \in Getting : Old(<<tb[f], tt[f]>>) = <<tb[f], tt[f]>> /\ tt[f] \notin Window
      BY <1>10, WonAre
    <2> HIDE DEF Old
    <2> QED
      BY <1>7, <1>12, <2>1, <2>2
  <1>13. ASSUME NEW c \in Claims PROVE \E d \in Claims' : Old(d) = c
    <2>1. ASSUME NEW i \in Window, c = <<n, i>> PROVE \E d \in Claims' : Old(d) = c
      <3>1. <<n + 1, i>> \in Claims' /\ Old(<<n + 1, i>>) = c
        BY <1>7, <2>1
      <3> QED
        BY <3>1
    <2>2. ASSUME NEW f \in Getting, c = <<tb[f], tt[f]>>
          PROVE  \E d \in Claims' : Old(d) = c
      <3>1. c \in Claims' /\ Old(c) = c
        BY <1>7, <1>10, <2>2
      <3> QED
        BY <3>1
    <2> QED
      BY <1>7, <2>1, <2>2
  <1> HIDE DEF Old
  <1>14. \A c \in Claims' : At(c)' \in 1..pushed /\ ran[At(c)'] = 0
    BY <1>11 DEF TasksInv
  <1>15. \A c, d \in Claims' : c # d => At(c)' # At(d)'
    BY <1>11, <1>12 DEF TasksInv
  <1>16. ASSUME NEW k \in 1..pushed
         PROVE  ran[k] = 1 \/ (ran[k] = 0 /\ \E d \in Claims' : At(d)' = k)
    <2>1. CASE ran[k] = 1
      BY <2>1
    <2>2. CASE ran[k] # 1
      <3>1. ran[k] = 0 /\ \E c \in Claims : At(c) = k
        BY <2>2 DEF TasksInv
      <3>2. PICK c \in Claims : At(c) = k
        BY <3>1
      <3>3. PICK d \in Claims' : Old(d) = c
        BY <1>13
      <3> QED
        BY <1>11, <3>1, <3>2, <3>3
    <2> QED
      BY <2>1, <2>2
  <1>17. \A k \in Tasks : k > pushed => ran[k] = 0
    BY DEF TasksInv
  <1> QED
    BY <1>2, <1>14, <1>15, <1>16, <1>17 DEF TasksInv

\* Until it moves a task the owner keeps the indices it has or may get: counting
\* m_bottom down and up again and winning the last task change none of them.
LEMMA WindowStays ==
    ASSUME IndexInv,
           PushLoad \/ PushPublish \/ PopDecrement \/ PopTop \/ PopCas \/ PopRestore
             \/ PopGiveUp
    PROVE  Window' = Window
  <1>1. top \in Nat /\ bottom \in Int /\ ob \in Int /\ ot \in Nat /\ opc \in OwnerPC
    BY DEF IndexInv, Types
  <1>2. OwnerInv
    BY DEF IndexInv
  <1>3. CASE PushLoad
    BY <1>1, <1>3 DEF PushLoad, Window, End
  <1>4. CASE PushPublish
    BY <1>1, <1>4 DEF PushPublish, Window, End
  <1>5. CASE PopDecrement
    BY <1>1, <1>5 DEF PopDecrement, Window, End
  <1>6. CASE PopTop
    BY <1>1, <1>6 DEF PopTop, Window, End
  <1>7. CASE PopCas
    <2>1. opc = "popCas" /\ ot = ob /\ ob' = ob /\ Window = top..ob
      BY <1>1, <1>2, <1>7 DEF PopCas, OwnerInv, Window, End
    <2>2. CASE top = ot
      <3>1. Window' = ((ob + 1)..ob) \cup {ob}
        BY <1>1, <1>7, <2>1, <2>2 DEF PopCas, Window, End
      <3> QED
        BY <1>1, <2>1, <2>2, <3>1
    <2>3. CASE top # ot
      BY <1>1, <1>7, <2>1, <2>3 DEF PopCas, Window, End
    <2> QED
      BY <2>2, <2>3
  <1>8. CASE PopRestore
    BY <1>1, <1>8 DEF PopRestore, Window, End
  <1>9. CASE PopGiveUp
    BY <1>1, <1>9 DEF PopGiveUp, Window, End
  <1> QED
    BY <1>3, <1>4, <1>5, <1>6, <1>7, <1>8, <1>9

\* pop() gives up the index it has, and only that one.
LEMMA WindowPopped ==
    ASSUME IndexInv, PopTake
    PROVE  ob \in Window /\ Window' = Window \ {ob}
  <1>1. top \in Nat /\ bottom \in Int /\ ob \in Int
    BY DEF IndexInv, Types
  <1>2. opc = "take" /\ opc' = "idle" /\ UNCHANGED <<top, bottom, ob>>
    BY DEF PopTake
  <1>3. Window = (top..ob) \cup {ob} /\ Window' = top..(bottom - 1)
    BY <1>1, <1>2 DEF Window, End
  <1>4. CASE bottom = ob /\ top <= ob
    BY <1>1, <1>3, <1>4
  <1>5. CASE bottom = ob + 1 /\ top = ob + 1
    BY <1>1, <1>3, <1>5
  <1> QED
    BY <1>2, <1>4, <1>5 DEF IndexInv, OwnerInv

\* The owner's moves, task by task.
LEMMA OwnerTasks ==
    ASSUME IndexInv, PaceInv, TasksInv, OwnerNext, ~overrun'
    PROVE  TasksInv'
  <1> USE DEF ownerVars, thiefVars
  <1>1. Types /\ OwnerInv
    BY DEF IndexInv
  <1>2. CASE Resize
    BY <1>2, TasksResize
  <1>3. CASE PushPut
    BY <1>3, TasksPut
  <1>4. CASE PopTake
    <2>1. Current' = Current
      <3>1. ~Resize
        BY <1>4 DEF PopTake, Resize
      <3> QED
        BY <1>1, <3>1, CapacityStays DEF Next
    <2>2. PICK n : n = Current
      OBVIOUS
    <2>3. PICK c : c = <<n, ob>>
      OBVIOUS
    <2>4. UNCHANGED <<tpc, tt, tb, pushed>> /\ Take(n, ob) /\ Getting' = Getting
      BY <1>4, <2>2 DEF PopTake, Getting
    <2>5. /\ Claims = {<<n, i>> : i \in Window} \cup {<<tb[f], tt[f]>> : f \in Getting}
          /\ Claims' = {<<n, i>> : i \in Window'} \cup {<<tb[f], tt[f]>> : f \in Getting}
      BY <2>1, <2>2, <2>4 DEF Claims
    <2>6. ob \in Window /\ Window' = Window \ {ob}
      BY <1>4, WindowPopped
    <2>7. \A f \in Getting : tt[f] # ob
      BY <2>6, WonAre
    <2>8. c \in Claims /\ Claims' = Claims \ {c}
      BY <2>3, <2>5, <2>6, <2>7
    <2>9. Take(c[1], c[2])
      BY <2>3, <2>4
    <2> QED
      BY <2>4, <2>8, <2>9, TasksTake
  <1>5. ASSUME PushLoad \/ PushPublish \/ PopDecrement \/ PopTop \/ PopCas \/ PopRestore
                 \/ PopGiveUp
        PROVE  TasksInv'
    <2>1. UNCHANGED <<buffers, ran, pushed, tpc, tt, tb>>
      BY <1>5 DEF PushLoad, PushPublish, PopDecrement, PopTop, PopCas, PopRestore, PopGiveUp
    <2>2. Window' = Window
      BY <1>5, WindowStays
    <2>3. Claims' = Claims
      BY <2>1, <2>2 DEF Claims, Getting, Current
    <2> QED
      BY <2>1, <2>3, TasksSame
  <1> QED
    BY <1>2, <1>3, <1>4, <1>5 DEF OwnerNext

\* A thief that wins m_top takes the claim over from the owner, for the buffer it
\* has loaded; get() uses it up.
LEMMA ThiefTasks ==
    ASSUME IndexInv, PaceInv, TasksInv, NEW f \in Thieves, ThiefNext(f)
    PROVE  TasksInv'
  <1> USE DEF ownerVars, thiefVars
  <1>1. Types /\ OwnerInv /\ ThiefInv
    BY DEF IndexInv
  <1>2. /\ top \in Nat /\ bottom \in Int /\ ob \in Int /\ opc \in OwnerPC /\ End \in Int
        /\ tt \in [Thieves -> Nat] /\ tpc \in [Thieves -> ThiefPC]
        /\ tb \in [Thieves -> Nat]
    BY <1>1 DEF Types, End
  <1>3. UNCHANGED <<bottom, opc, ob, pushed>> /\ End' = End
    BY DEF ThiefNext, StealTop, StealBottom, StealBuffer, StealCas, StealGet, End
  <1>4. ASSUME UNCHANGED <<top, buffers, ran>>, Getting' = Getting,
               \A g \in Getting : tt'[g] = tt[g] /\ tb'[g] = tb[g]
        PROVE  TasksInv'
    <2>1. Window' = Window /\ Current' = Current
      BY <1>3, <1>4 DEF Window, Current
    <2>2. Claims' = Claims
      BY <1>4, <2>1 DEF Claims
    <2> QED
      BY <1>3, <1>4, <2>2, TasksSame
  <1>5. CASE StealTop(f)
    <2>1. tpc[f] = "idle" /\ tpc' = [tpc EXCEPT ![f] = "bottom"]
      BY <1>5 DEF StealTop, Goto
    <2>2. Getting' = Getting /\ f \notin Getting
      BY <1>2, <2>1 DEF Getting
    <2> QED
      BY <1>2, <1>4, <1>5, <2>2 DEF StealTop, Getting
  <1>6. CASE StealBottom(f)
    <2>1. tpc[f] = "bottom" /\ tpc' = [tpc EXCEPT ![f] = tpc'[f]] /\ tpc'[f] # "get"
      BY <1>2, <1>6 DEF StealBottom, Goto
    <2>2. Getting' = Getting
      BY <1>2, <2>1 DEF Getting
    <2> QED
      BY <1>2, <1>4, <1>6, <2>2 DEF StealBottom
  <1>7. CASE StealBuffer(f)
    <2>1. tpc[f] = "buffer" /\ tpc' = [tpc EXCEPT ![f] = "cas"]
      BY <1>7 DEF StealBuffer, Goto
    <2>2. Getting' = Getting /\ f \notin Getting
      BY <1>2, <2>1 DEF Getting
    <2> QED
      BY <1>2, <1>4, <1>7, <2>2 DEF StealBuffer, Getting
  <1>8. CASE StealCas(f)
    <2>1. CASE top # tt[f]
      <3>1. tpc[f] = "cas" /\ tpc' = [tpc EXCEPT ![f] = "idle"] /\ top' = top
        BY <1>8, <2>1 DEF StealCas, Goto
      <3>2. Getting' = Getting
        BY <1>2, <3>1 DEF Getting
      <3> QED
        BY <1>4, <1>8, <3>1, <3>2 DEF StealCas
    <2>2. CASE top = tt[f]
      <3>1. /\ tpc[f] = "cas" /\ tpc' = [tpc EXCEPT ![f] = "get"] /\ top' = top + 1
            /\ UNCHANGED <<buffers, ran, tt, tb>>
        BY <1>8, <2>2 DEF StealCas, Goto
      <3>2. Getting' = Getting \cup {f}
        BY <1>2, <3>1 DEF Getting
      <3>3. top < bottom \/ (opc \in {"popTop", "popCas"} /\ top = ob)
        BY <1>1, <2>2, <3>1 DEF ThiefInv
      <3>4. top < End /\ ~(opc \in {"restore", "take"} /\ top = ob)
        BY <1>1, <1>2, <3>3 DEF OwnerInv, OwnerPC, End
      <3>5. Window = Window' \cup {top}
        BY <1>2, <1>3, <3>1, <3>4 DEF Window
      <3>6. tb[f] = Current /\ Current' = Current
        BY <2>2, <3>1 DEF PaceInv, Current
      <3>7. PICK n : n = Current
        OBVIOUS
      <3>8. /\ Claims = {<<n, i>> : i \in Window} \cup {<<tb[g], tt[g]>> : g \in Getting}
            /\ Claims' = {<<n, i>> : i \in Window'} \cup {<<tb[g], tt[g]>> : g \in Getting'}
        BY <3>1, <3>6, <3>7 DEF Claims
      <3>9. Claims' = Claims
        BY <2>2, <3>2, <3>5, <3>6, <3>7, <3>8
      <3> QED
        BY <1>3, <3>1, <3>9, TasksSame
    <2> QED
      BY <2>1, <2>2
  <1>9. CASE StealGet(f)
    <2>1. /\ tpc[f] = "get" /\ tpc' = [tpc EXCEPT ![f] = "idle"] /\ Take(tb[f], tt[f])
          /\ UNCHANGED <<top, tt, tb>>
      BY <1>9 DEF StealGet, Goto
    <2>2. f \in Getting /\ Getting' = Getting \ {f}
      BY <1>2, <2>1 DEF Getting
    <2>3. Window' = Window
      BY <1>3, <2>1 DEF Window
    <2>4. Current' = Current
      <3>1. ~Resize
        BY <1>2, <2>1 DEF Resize
      <3> QED
        BY <1>1, <3>1, CapacityStays DEF Next
    <2>5. PICK n : n = Current
      OBVIOUS
    <2>6. PICK c : c = <<tb[f], tt[f]>>
      OBVIOUS
    <2>7. /\ Claims = {<<n, i>> : i \in Window} \cup {<<tb[g], tt[g]>> : g \in Getting}
          /\ Claims' = {<<n, i>> : i \in Window} \cup {<<tb[g], tt[g]>> : g \in Getting'}
      BY <2>1, <2>3, <2>4, <2>5 DEF Claims
    <2>8. tt[f] \notin Window /\ \A g \in Getting : g # f => tt[g] # tt[f]
      BY <2>2, WonAre
    <2>9. c \in Claims /\ Claims' = Claims \ {c}
      BY <2>2, <2>6, <2>7, <2>8
    <2>10. Take(c[1], c[2])
      BY <2>1, <2>6
    <2> QED
      BY <1>3, <2>9, <2>10, TasksTake
  <1> QED
    BY <1>5, <1>6, <1>7, <1>8, <1>9 DEF ThiefNext

\* Initially nothing has been pushed and nobody has a claim.
LEMMA InitStore == Init => StoreInv
  <1> SUFFICES ASSUME Init PROVE PaceInv /\ TasksInv
    BY DEF StoreInv
  <1>1. End = 0 /\ Window = {} /\ Getting = {}
    BY DEF Init, End, Window, Getting
  <1>2. Claims = {}
    BY <1>1 DEF Claims
  <1>3. PaceInv
    BY <1>1 DEF Init, PaceInv
  <1>4. TasksInv
    BY <1>2 DEF Init, TasksInv
  <1> QED
    BY <1>3, <1>4

\* A history: once set, overrun stays.
LEMMA OverrunStays ==
    ASSUME [Next]_vars, ~overrun'
    PROVE  ~overrun
  BY DEF Next, OwnerNext, ThiefNext, PushLoad, Resize, PushPut, PushPublish, PopDecrement,
         PopTop, PopCas, PopRestore, PopTake, PopGiveUp, StealTop, StealBottom,
         StealBuffer, StealCas, StealGet, vars

\* Every step keeps what the claims say of the tasks.
LEMMA StepStore == IndexInv /\ StoreInv /\ [Next]_vars => StoreInv'
  <1> SUFFICES ASSUME IndexInv, StoreInv, [Next]_vars, ~overrun' PROVE PaceInv' /\ TasksInv'
    BY DEF StoreInv
  <1>1. PaceInv /\ TasksInv
    BY OverrunStays DEF StoreInv
  <1>2. PaceInv'
    BY <1>1, PaceStep
  <1>3. CASE OwnerNext
    BY <1>1, <1>2, <1>3, OwnerTasks
  <1>4. ASSUME NEW f \in Thieves, ThiefNext(f) PROVE TasksInv'
    BY <1>1, <1>4, ThiefTasks
  <1>5. CASE UNCHANGED vars
    <2>1. Claims' = Claims
      BY <1>5 DEF vars, ownerVars, thiefVars, Claims, Window, End, Getting, Current
    <2> QED
      BY <1>1, <1>2, <1>5, <2>1, TasksSame DEF vars
  <1> QED
    BY <1>2, <1>3, <1>4, <1>5 DEF Next

\* While no thief has been overtaken, every claim on a slot is for one task that
\* was pushed and has not run, and every pushed task has run once or is claimed.
THEOREM ClaimsAreTasks == Spec => []StoreInv
  BY IndicesAgree, InitStore, StepStore, PTL DEF Spec

\* Each pushed task is handed to a pool thread at most once, and has been handed
\* out by the time the queue is empty with everybody outside, as long as no thief
\* is overtaken between its load of m_buffer and its move of the task.
THEOREM TasksRunOnce == Spec => []ExactlyOnce
  <1>1. IndexInv /\ StoreInv => ExactlyOnce
    <2> SUFFICES ASSUME IndexInv, TasksInv
                 PROVE  NeverTwice /\ (Drained => \A k \in 1..pushed : ran[k] = 1)
      BY DEF StoreInv, ExactlyOnce
    <2>1. top \in Nat /\ bottom \in Int /\ pushed \in Nat
      BY DEF IndexInv, Types
    <2>2. ASSUME NEW k \in Tasks PROVE ran[k] <= 1
      <3>1. k \in 1..pushed \/ k > pushed
        BY <2>1, QueueAssumption DEF Tasks
      <3>2. ran[k] = 0 \/ ran[k] = 1
        BY <3>1 DEF TasksInv
      <3> QED
        BY <3>2
    <2>3. ASSUME Drained PROVE Claims = {}
      <3>1. Getting = {}
        BY <2>3 DEF Drained, Getting
      <3>2. Window = {}
        BY <2>1, <2>3 DEF Drained, Window, End
      <3> QED
        BY <3>1, <3>2 DEF Claims
    <2>4. ASSUME Drained, NEW k \in 1..pushed PROVE ran[k] = 1
      BY <2>3, <2>4 DEF TasksInv
    <2> QED
      BY <2>2, <2>4 DEF NeverTwice
  <1> QED
    BY IndicesAgree, ClaimsAreTasks, <1>1, PTL
=============================================================================
