--------------------------- MODULE HttpProxyProofs ---------------------------
(***************************************************************************)
(* Proofs about HttpProxy, for any number of sessions and any limits: the  *)
(* counters of the proxy and of its pool are exact, and as long as every   *)
(* response is taken whole nobody gets the response of somebody else.      *)
(***************************************************************************)
EXTENDS HttpProxy, FiniteSetTheorems, SequenceTheorems, TLAPS

PC == IoStates \cup {"none", "acquire", "create", "connect", "wait", "forward",
                     "linked", "failed", "close"}

\* The program counters of a session inside acquire().
Acquiring == {"acquire", "create", "connect", "wait"}

\* What TypeOK says of everything but the counters.
Types ==
    /\ shutdown \in BOOLEAN /\ serving \in BOOLEAN
    /\ idle \in Seq(Conn) /\ waiters \in Seq(Sessions)
    /\ pc \in [Sessions -> PC]
    /\ attempt \in [Sessions -> 1..2]
    /\ held \in [Sessions -> Seq(Conn)]
    /\ invalid \in [Sessions -> BOOLEAN]
    /\ bit \in [Sessions -> BOOLEAN]
    /\ response \in [Sessions -> Requests \cup {NoResponse}]
    /\ keepalive \in [Sessions -> BOOLEAN]
    /\ buf \in [Sessions -> Conn]
    /\ short \in 0..MaxShort
    /\ backing \in [Sessions -> BOOLEAN]

\* A session holds a connection from its first acquire() to its reply, and a
\* second one only from the acquire() of its retry to the next assignment.
HandsInv == \A s \in Sessions :
    /\ pc[s] \in {"none", "read"} => Len(held[s]) = 0
    /\ pc[s] \in Acquiring => Len(held[s]) = attempt[s] - 1
    /\ pc[s] = "forward" => Len(held[s]) = attempt[s]
    /\ pc[s] \in {"write", "linked", "reply", "relay", "failed"} => Len(held[s]) = 1
    /\ pc[s] = "close" => Len(held[s]) \in {0, 1}

\* The suspended readers of m_idle are sessions in acquire(), each there once.
WaitersInv ==
    /\ \A i \in DOMAIN waiters : pc[waiters[i]] = "wait"
    /\ \A i, j \in DOMAIN waiters : waiters[i] = waiters[j] => i = j

IInv == Types /\ HandsInv /\ WaitersInv /\ CountersAreExact

Connecting == {s \in Sessions : pc[s] = "connect"}
BackingOff == {s \in Sessions : backing[s]}
Present == {s \in Sessions : pc[s] # "none"}

-----------------------------------------------------------------------------
(* Facts about sequences, sets and functions.                               *)

\* Append, Head and Tail.
LEMMA SeqFacts ==
    ASSUME NEW S, NEW q \in Seq(S), NEW e \in S
    PROVE  /\ Len(q) \in Nat
           /\ Append(q, e) \in Seq(S) /\ Len(Append(q, e)) = Len(q) + 1
           /\ Append(q, e)[Len(q) + 1] = e
           /\ \A i \in 1..Len(q) : Append(q, e)[i] = q[i]
           /\ q # << >> => /\ Head(q) \in S /\ Head(q) = q[1] /\ Len(q) >= 1
                           /\ Tail(q) \in Seq(S) /\ Len(Tail(q)) = Len(q) - 1
                           /\ \A i \in 1..(Len(q) - 1) : Tail(q)[i] = q[i + 1]
  OBVIOUS

\* The empty sequence is the one of length 0.
LEMMA Emptiness == ASSUME NEW S, NEW q \in Seq(S) PROVE q = << >> <=> Len(q) = 0
  BY EmptySeq

\* Writing the only element of a sequence, and reading it.
LEMMA Singleton == ASSUME NEW e PROVE Append(<< >>, e) = <<e>> /\ Tail(<<e>>) = << >>
  <1>1. << >> \in Seq({e}) /\ <<e>> \in Seq({e}) /\ e \in {e}
    OBVIOUS
  <1>2. Len(<< >>) = 0 /\ Len(<<e>>) = 1
    OBVIOUS
  <1>3. Append(<< >>, e) = <<e>>
    BY <1>1, <1>2
  <1>4. Tail(<<e>>) \in Seq({e}) /\ Len(Tail(<<e>>)) = 0
    BY <1>1, <1>2
  <1> QED
    BY <1>3, <1>4, Emptiness

\* What a backend answers is a sequence of at most one response.
LEMMA AnswersAre ==
    ASSUME NEW s, NEW S, Request(s) \in S, NEW a \in Answers(s)
    PROVE  a \in Seq(S)
  <1>1. CASE a = << >>
    BY <1>1
  <1>2. CASE a = <<Request(s)>>
    BY <1>2
  <1> QED
    BY <1>1, <1>2 DEF Answers

\* Setting a flag of one session.
LEMMA SetFlag ==
    ASSUME NEW S, NEW f \in [S -> BOOLEAN], NEW x \in S, NEW b \in BOOLEAN
    PROVE  [f EXCEPT ![x] = b] \in [S -> BOOLEAN]
  OBVIOUS

\* One element more.
LEMMA OneMore ==
    ASSUME NEW S, NEW T, NEW x, IsFiniteSet(S), x \notin S, T = S \cup {x}
    PROVE  IsFiniteSet(T) /\ Cardinality(T) = Cardinality(S) + 1
  BY FS_AddElement

\* One element less.
LEMMA OneLess ==
    ASSUME NEW S, NEW T, NEW x \in S, IsFiniteSet(S), T = S \ {x}
    PROVE  IsFiniteSet(T) /\ Cardinality(T) = Cardinality(S) - 1
  BY FS_RemoveElement

\* Sets of sessions are finite.
LEMMA SessionSets ==
    ASSUME NEW S \in SUBSET Sessions
    PROVE  IsFiniteSet(S) /\ Cardinality(S) \in 0..Cardinality(Sessions)
  BY ProxyAssumption, FS_Subset, FS_CardinalityType

-----------------------------------------------------------------------------
(* The borrowed connections, counted.                                       *)

Hands == [Sessions -> Seq(Conn)]

\* Borrowed, for given hands.
Places(h) == UNION {{s} \X DOMAIN h[s] : s \in Sessions}

\* The members of Places.
LEMMA InPlaces ==
    ASSUME NEW h \in Hands
    PROVE  \A p : p \in Places(h) <=>
               \E s \in Sessions : \E i \in 1..Len(h[s]) : p = <<s, i>>
  <1>1. \A s \in Sessions : DOMAIN h[s] = 1..Len(h[s])
    BY DEF Hands
  <1> QED
    BY <1>1 DEF Places

\* The hands of a session hold two connections at most: there are finitely many.
LEMMA PlacesFinite ==
    ASSUME NEW h \in Hands, \A s \in Sessions : Len(h[s]) <= 2
    PROVE  IsFiniteSet(Places(h)) /\ Cardinality(Places(h)) \in Nat
  <1>1. IsFiniteSet(1..2)
    <2>1. 1 \in Int /\ 2 \in Int
      OBVIOUS
    <2> QED
      BY <2>1, FS_Interval, Zenon
  <1>2. IsFiniteSet(Sessions \X (1..2))
    BY <1>1, ProxyAssumption, FS_Product
  <1>3. Places(h) \subseteq Sessions \X (1..2)
    <2> SUFFICES ASSUME NEW p \in Places(h) PROVE p \in Sessions \X (1..2)
      OBVIOUS
    <2>1. PICK s \in Sessions : \E i \in 1..Len(h[s]) : p = <<s, i>>
      BY InPlaces
    <2>2. PICK i \in 1..Len(h[s]) : p = <<s, i>>
      BY <2>1
    <2>3. i \in 1..2
      BY <2>2 DEF Hands
    <2> QED
      BY <2>2, <2>3
  <1> QED
    BY <1>2, <1>3, FS_Subset, FS_CardinalityType

\* Hands of the same lengths hold as many.
LEMMA PlacesSame ==
    ASSUME NEW h \in Hands, NEW g \in Hands,
           \A s \in Sessions : Len(g[s]) = Len(h[s])
    PROVE  Places(g) = Places(h)
  <1>1. \A s \in Sessions : DOMAIN h[s] = 1..Len(h[s]) /\ DOMAIN g[s] = 1..Len(g[s])
    BY DEF Hands
  <1> QED
    BY <1>1 DEF Places

\* One session with one connection more.
LEMMA PlacesMore ==
    ASSUME NEW h \in Hands, NEW g \in Hands, NEW s \in Sessions,
           Len(g[s]) = Len(h[s]) + 1,
           \A t \in Sessions : t # s => Len(g[t]) = Len(h[t]),
           IsFiniteSet(Places(h))
    PROVE  /\ IsFiniteSet(Places(g))
           /\ Cardinality(Places(g)) = Cardinality(Places(h)) + 1
  <1> DEFINE new == <<s, Len(h[s]) + 1>>
  <1>1. \A t \in Sessions : Len(h[t]) \in Nat /\ Len(g[t]) \in Nat
    BY DEF Hands
  <1>2. new \notin Places(h)
    BY <1>1, InPlaces
  <1>3. new \in Places(g)
    <2>1. Len(h[s]) + 1 \in 1..Len(g[s])
      BY <1>1
    <2> QED
      BY <2>1, InPlaces
  <1>4. Places(h) \subseteq Places(g)
    <2> SUFFICES ASSUME NEW p \in Places(h) PROVE p \in Places(g)
      OBVIOUS
    <2>1. PICK t \in Sessions : \E i \in 1..Len(h[t]) : p = <<t, i>>
      BY InPlaces
    <2>2. PICK i \in 1..Len(h[t]) : p = <<t, i>>
      BY <2>1
    <2>3. i \in 1..Len(g[t])
      BY <1>1, <2>2
    <2> QED
      BY <2>2, <2>3, InPlaces
  <1>5. Places(g) \subseteq Places(h) \cup {new}
    <2> SUFFICES ASSUME NEW p \in Places(g), p # new PROVE p \in Places(h)
      OBVIOUS
    <2>1. PICK t \in Sessions : \E i \in 1..Len(g[t]) : p = <<t, i>>
      BY InPlaces
    <2>2. PICK i \in 1..Len(g[t]) : p = <<t, i>>
      BY <2>1
    <2>3. i \in 1..Len(h[t])
      <3>1. CASE t # s
        BY <1>1, <2>2, <3>1
      <3>2. CASE t = s
        <4>1. i # Len(h[s]) + 1
          BY <2>2, <3>2
        <4> QED
          BY <1>1, <2>2, <3>2, <4>1
      <3> QED
        BY <3>1, <3>2
    <2> QED
      BY <2>2, <2>3, InPlaces
  <1>6. Places(g) = Places(h) \cup {new}
    BY <1>3, <1>4, <1>5
  <1> QED
    BY <1>2, <1>6, OneMore

\* One session with one connection less.
LEMMA PlacesLess ==
    ASSUME NEW h \in Hands, NEW g \in Hands, NEW s \in Sessions,
           Len(g[s]) = Len(h[s]) - 1,
           \A t \in Sessions : t # s => Len(g[t]) = Len(h[t]),
           IsFiniteSet(Places(h))
    PROVE  /\ IsFiniteSet(Places(g))
           /\ Cardinality(Places(g)) = Cardinality(Places(h)) - 1
  <1>1. \A t \in Sessions : Len(h[t]) \in Nat /\ Len(g[t]) \in Nat
    BY DEF Hands
  <1>2. Places(g) \subseteq Places(h)
    <2> SUFFICES ASSUME NEW p \in Places(g) PROVE p \in Places(h)
      OBVIOUS
    <2>1. PICK t \in Sessions : \E i \in 1..Len(g[t]) : p = <<t, i>>
      BY InPlaces
    <2>2. PICK i \in 1..Len(g[t]) : p = <<t, i>>
      BY <2>1
    <2>3. i \in 1..Len(h[t])
      <3>1. CASE t # s
        BY <1>1, <2>2, <3>1
      <3>2. CASE t = s
        BY <1>1, <2>2, <3>2
      <3> QED
        BY <3>1, <3>2
    <2> QED
      BY <2>2, <2>3, InPlaces
  <1>3. IsFiniteSet(Places(g)) /\ Cardinality(Places(g)) \in Nat
    BY <1>2, FS_Subset, FS_CardinalityType
  <1>4. Len(h[s]) = Len(g[s]) + 1 /\ \A t \in Sessions : t # s => Len(h[t]) = Len(g[t])
    BY <1>1
  <1>5. Cardinality(Places(h)) = Cardinality(Places(g)) + 1
    BY <1>3, <1>4, PlacesMore
  <1> QED
    BY <1>3, <1>5

-----------------------------------------------------------------------------
(* Giving a connection back, in its four cases.                             *)

Moves(s, l) == pc' = [pc EXCEPT ![s] = l]
LosesFirst(s) == held' = [held EXCEPT ![s] = Tail(@)]

NothingBack(s, l) ==
    /\ held[s] = << >> /\ held' = held
    /\ Moves(s, l)
    /\ total' = total /\ idle' = idle /\ waiters' = waiters

CountedOut(s, l) ==
    /\ held[s] # << >> /\ LosesFirst(s)
    /\ Moves(s, l)
    /\ total' = total - 1 /\ idle' = idle /\ waiters' = waiters

PutBack(s, l) ==
    /\ held[s] # << >> /\ LosesFirst(s)
    /\ Moves(s, l)
    /\ total' = total /\ idle' = Append(idle, Head(held[s])) /\ waiters' = waiters

HandedOver(s, w, l) ==
    /\ held[s] # << >> /\ w # s
    /\ waiters # << >> /\ w = Head(waiters) /\ waiters' = Tail(waiters)
    /\ held' = [held EXCEPT ![s] = Tail(@), ![w] = Append(@, Head(held[s]))]
    /\ pc' = [pc EXCEPT ![s] = l, ![w] = "forward"]
    /\ total' = total /\ idle' = idle

\* ~PooledConnection(): nothing in hand, or counted out, or put into m_idle, or
\* handed to the first waiting reader.
LEMMA GiveBackCases ==
    ASSUME Types, WaitersInv, NEW s \in Sessions, NEW inv \in BOOLEAN, NEW l \in PC,
           pc[s] # "wait", GiveBack(s, inv, l)
    PROVE  \/ NothingBack(s, l)
           \/ CountedOut(s, l)
           \/ ~inv /\ PutBack(s, l)
           \/ ~inv /\ \E w \in Sessions : HandedOver(s, w, l)
  <1>1. pc \in [Sessions -> PC] /\ held \in [Sessions -> Seq(Conn)]
        /\ waiters \in Seq(Sessions)
    BY DEF Types
  <1>2. CASE held[s] = << >>
    <2>1. held' = held
      BY <1>1, <1>2 DEF GiveBack
    <2>2. Moves(s, l)
      BY <1>1, <1>2 DEF GiveBack, Moves
    <2> QED
      BY <1>2, <2>1, <2>2 DEF GiveBack, NothingBack
  <1>3. CASE held[s] # << >> /\ inv
    <2>1. LosesFirst(s)
      BY <1>1, <1>3 DEF GiveBack, LosesFirst
    <2>2. Moves(s, l)
      BY <1>1, <1>3 DEF GiveBack, Moves
    <2> QED
      BY <1>3, <2>1, <2>2 DEF GiveBack, CountedOut
  <1>4. CASE held[s] # << >> /\ ~inv /\ waiters = << >>
    <2>1. LosesFirst(s)
      BY <1>1, <1>4 DEF GiveBack, LosesFirst
    <2>2. Moves(s, l)
      BY <1>1, <1>4 DEF GiveBack, Moves
    <2>3. CASE Len(idle) < IdleCap
      BY <1>4, <2>1, <2>2, <2>3 DEF GiveBack, PutBack
    <2>4. CASE ~(Len(idle) < IdleCap)
      BY <1>4, <2>1, <2>2, <2>4 DEF GiveBack, CountedOut
    <2> QED
      BY <2>3, <2>4
  <1>5. CASE held[s] # << >> /\ ~inv /\ waiters # << >>
    <2>1. PICK w \in Sessions : w = Head(waiters)
      BY <1>1, <1>5
    <2>2. pc[w] = "wait" /\ w # s
      BY <1>1, <1>5, <2>1 DEF WaitersInv
    <2>3. held' = [held EXCEPT ![s] = Tail(@), ![w] = Append(@, Head(held[s]))]
      BY <1>1, <1>5, <2>1, <2>2 DEF GiveBack
    <2>4. pc' = [pc EXCEPT ![s] = l, ![w] = "forward"]
      BY <1>1, <1>5, <2>1, <2>2 DEF GiveBack
    <2> QED
      BY <1>5, <2>1, <2>2, <2>3, <2>4 DEF GiveBack, HandedOver
  <1> QED
    BY <1>2, <1>3, <1>4, <1>5

-----------------------------------------------------------------------------
(* Types.                                                                   *)

\* The proxy starts with an idle connection for each that pre_warm() could make.
LEMMA InitTypes == Init => Types
  <1> SUFFICES ASSUME Init PROVE Types
    OBVIOUS
  <1>1. idle \in Seq(Conn)
    <2>1. PICK n \in 0..Warm : idle = [i \in 1..n |-> << >>]
      BY DEF Init
    <2>2. n \in Nat /\ << >> \in Conn
      BY ProxyAssumption DEF Conn
    <2> QED
      BY <2>1, <2>2
  <1>2. waiters \in Seq(Sessions) /\ << >> \in Seq(Conn)
    BY DEF Init
  <1>3. /\ invalid \in [Sessions -> BOOLEAN] /\ bit \in [Sessions -> BOOLEAN]
        /\ keepalive \in [Sessions -> BOOLEAN] /\ backing \in [Sessions -> BOOLEAN]
        /\ shutdown \in BOOLEAN /\ serving \in BOOLEAN
    BY Zenon DEF Init
  <1>4. /\ pc \in [Sessions -> PC] /\ attempt \in [Sessions -> 1..2]
        /\ held \in [Sessions -> Seq(Conn)]
        /\ response \in [Sessions -> Requests \cup {NoResponse}]
    BY <1>2 DEF Init, PC
  <1>5. buf \in [Sessions -> Conn] /\ short \in 0..MaxShort
    BY ProxyAssumption DEF Init, Conn
  <1> QED
    BY <1>1, <1>2, <1>3, <1>4, <1>5 DEF Types

\* The variables of the pool and of the hands keep their types when a connection
\* is given back.
LEMMA GiveBackTypes ==
    ASSUME Types, WaitersInv, NEW s \in Sessions, NEW inv \in BOOLEAN, NEW l \in PC,
           pc[s] # "wait", GiveBack(s, inv, l)
    PROVE  /\ idle' \in Seq(Conn) /\ waiters' \in Seq(Sessions)
           /\ pc' \in [Sessions -> PC] /\ held' \in [Sessions -> Seq(Conn)]
           /\ invalid' \in [Sessions -> BOOLEAN]
  <1>1. /\ pc \in [Sessions -> PC] /\ held \in [Sessions -> Seq(Conn)]
        /\ waiters \in Seq(Sessions) /\ idle \in Seq(Conn)
        /\ invalid \in [Sessions -> BOOLEAN]
    BY DEF Types
  <1>2. invalid' \in [Sessions -> BOOLEAN]
    BY <1>1, SetFlag DEF GiveBack
  <1>3. held[s] \in Seq(Conn)
    BY <1>1
  <1>4. held[s] # << >> => Head(held[s]) \in Conn /\ Tail(held[s]) \in Seq(Conn)
    BY <1>3
  <1>5. CASE NothingBack(s, l)
    BY <1>1, <1>2, <1>5 DEF NothingBack, Moves
  <1>6. CASE CountedOut(s, l)
    BY <1>1, <1>2, <1>4, <1>6 DEF CountedOut, Moves, LosesFirst
  <1>7. CASE PutBack(s, l)
    BY <1>1, <1>2, <1>4, <1>7 DEF PutBack, Moves, LosesFirst
  <1>8. ASSUME NEW w \in Sessions, HandedOver(s, w, l)
        PROVE  /\ idle' \in Seq(Conn) /\ waiters' \in Seq(Sessions)
               /\ pc' \in [Sessions -> PC] /\ held' \in [Sessions -> Seq(Conn)]
    <2>1. Append(held[w], Head(held[s])) \in Seq(Conn)
      BY <1>1, <1>4, <1>8 DEF HandedOver
    <2>2. waiters' \in Seq(Sessions) /\ idle' \in Seq(Conn)
      BY <1>1, <1>8 DEF HandedOver
    <2>3. "forward" \in PC
      BY DEF PC
    <2> QED
      BY <1>1, <1>4, <1>8, <2>1, <2>2, <2>3 DEF HandedOver
  <1> QED
    BY <1>2, <1>5, <1>6, <1>7, <1>8, GiveBackCases

\* Unregister() keeps the type of the flags.
LEMMA UnregisterTypes ==
    ASSUME Types, NEW s \in Sessions, Unregister(s)
    PROVE  backing' \in [Sessions -> BOOLEAN]
  BY SetFlag DEF Unregister, Types

\* A connection taken keeps the types of the hands and the program counters.
LEMMA TakesTypes ==
    ASSUME Types, NEW s \in Sessions, NEW c \in Conn, Takes(s, c)
    PROVE  pc' \in [Sessions -> PC] /\ held' \in [Sessions -> Seq(Conn)]
  <1>1. Append(held[s], c) \in Seq(Conn)
    BY DEF Types
  <1> QED
    BY <1>1 DEF Types, Takes, PC

\* Types are preserved.
LEMMA TypesStep == Types /\ WaitersInv /\ HandsInv /\ [Next]_vars => Types'
  <1> SUFFICES ASSUME Types, WaitersInv, HandsInv, [Next]_vars PROVE Types'
    OBVIOUS
  <1> USE DEF serverVars, poolVars, connVars, requestVars, bufferVars
  <1>1. ASSUME NEW s \in Sessions, AcceptClient(s) PROVE Types'
    BY <1>1 DEF AcceptClient, Types, PC, IoStates
  <1>2. ASSUME NEW s \in Sessions, TryIdle(s) PROVE Types'
    <2>1. CASE idle = << >>
      BY <1>2, <2>1 DEF TryIdle, Types, PC
    <2>2. CASE idle # << >>
      <3>1. Head(idle) \in Conn /\ Tail(idle) \in Seq(Conn)
        BY <2>2 DEF Types
      <3>2. pc' \in [Sessions -> PC] /\ held' \in [Sessions -> Seq(Conn)]
        BY <1>2, <2>2, <3>1, TakesTypes DEF TryIdle
      <3> QED
        BY <1>2, <2>2, <3>1, <3>2 DEF TryIdle, Types
    <2> QED
      BY <2>1, <2>2
  <1>3. ASSUME NEW s \in Sessions, CreateOrWait(s) PROVE Types'
    <2>1. CASE total < MaxPool /\ UNCHANGED <<idle, waiters, held>>
               /\ pc' = [pc EXCEPT ![s] = "connect"]
      BY <1>3, <2>1 DEF CreateOrWait, Types, PC
    <2>2. CASE idle # << >> /\ idle' = Tail(idle) /\ Takes(s, Head(idle))
               /\ UNCHANGED <<total, waiters>>
      <3>1. Head(idle) \in Conn /\ Tail(idle) \in Seq(Conn)
        BY <2>2 DEF Types
      <3>2. pc' \in [Sessions -> PC] /\ held' \in [Sessions -> Seq(Conn)]
        BY <2>2, <3>1, TakesTypes
      <3> QED
        BY <1>3, <2>2, <3>1, <3>2 DEF CreateOrWait, Types
    <2>3. CASE waiters' = Append(waiters, s) /\ pc' = [pc EXCEPT ![s] = "wait"]
               /\ UNCHANGED <<total, idle, held>>
      <3>1. waiters' \in Seq(Sessions)
        BY <2>3 DEF Types
      <3> QED
        BY <1>3, <2>3, <3>1 DEF CreateOrWait, Types, PC
    <2> QED
      BY <1>3, <2>1, <2>2, <2>3 DEF CreateOrWait
  <1>4. ASSUME NEW s \in Sessions, Connected(s) PROVE Types'
    <2>1. << >> \in Conn
      BY DEF Conn
    <2>2. pc' \in [Sessions -> PC] /\ held' \in [Sessions -> Seq(Conn)]
      BY <1>4, <2>1, TakesTypes DEF Connected
    <2> QED
      BY <1>4, <2>2 DEF Connected, Types
  <1>5. ASSUME NEW s \in Sessions, ConnectFails(s) PROVE Types'
    BY <1>5 DEF ConnectFails, Types, PC
  <1>6. ASSUME NEW s \in Sessions, BeginForward(s) PROVE Types'
    <2>1. CASE GiveBack(s, invalid[s], "write")
      <3>1. invalid[s] \in BOOLEAN /\ "write" \in PC /\ pc[s] # "wait"
        BY <1>6 DEF Types, PC, IoStates, BeginForward
      <3>2. /\ idle' \in Seq(Conn) /\ waiters' \in Seq(Sessions)
            /\ pc' \in [Sessions -> PC] /\ held' \in [Sessions -> Seq(Conn)]
            /\ invalid' \in [Sessions -> BOOLEAN]
        BY <2>1, <3>1, GiveBackTypes
      <3> QED
        BY <1>6, <3>2 DEF BeginForward, Types
    <2>2. CASE pc' = [pc EXCEPT ![s] = "write"] /\ UNCHANGED <<poolVars, connVars>>
      BY <1>6, <2>2 DEF BeginForward, Types, PC, IoStates
    <2> QED
      BY <1>6, <2>1, <2>2 DEF BeginForward
  <1>7. ASSUME NEW s \in Sessions, ReadRequest(s) PROVE Types'
    <2>1. backing' \in [Sessions -> BOOLEAN]
      BY <1>7, UnregisterTypes DEF ReadRequest
    <2>2. (~bit[s]) \in BOOLEAN /\ bit' = [bit EXCEPT ![s] = ~bit[s]]
      BY <1>7 DEF ReadRequest
    <2>3. bit' \in [Sessions -> BOOLEAN]
      BY <2>2, SetFlag DEF Types
    <2> QED
      BY <1>7, <2>1, <2>3 DEF ReadRequest, Types, PC
  <1>8. ASSUME NEW s \in Sessions, ReadEnds(s) PROVE Types'
    <2>1. backing' \in [Sessions -> BOOLEAN]
      BY <1>8, UnregisterTypes DEF ReadEnds
    <2> QED
      BY <1>8, <2>1 DEF ReadEnds, Types, PC
  <1>9. ASSUME NEW s \in Sessions, WriteRequest(s) PROVE Types'
    <2>1. backing' \in [Sessions -> BOOLEAN]
      BY <1>9, UnregisterTypes DEF WriteRequest
    <2>2. held[s] \in Seq(Conn) /\ Len(held[s]) = 1
      BY <1>9 DEF WriteRequest, Types, HandsInv
    <2>3. Head(held[s]) \in Seq(Requests)
      BY <2>2 DEF Conn
    <2>4. Request(s) \in Requests
      BY DEF Request, Requests, Types
    <2>5. PICK a \in Answers(s) : held' = [held EXCEPT ![s] = <<Head(held[s]) \o a>>]
      BY <1>9 DEF WriteRequest
    <2>6. a \in Seq(Requests)
      BY <2>4, <2>5, AnswersAre
    <2>7. Head(held[s]) \o a \in Conn
      BY <2>3, <2>6 DEF Conn
    <2>8. held' \in [Sessions -> Seq(Conn)]
      BY <2>5, <2>7 DEF Types
    <2>9. pc' \in [Sessions -> PC]
      BY <1>9 DEF WriteRequest, Types, PC, IoStates
    <2> QED
      BY <1>9, <2>1, <2>8, <2>9 DEF WriteRequest, Types
  <1>9a. ASSUME NEW s \in Sessions, LinkedRecv(s) PROVE Types'
    BY <1>9a DEF LinkedRecv, Types, PC, IoStates
  <1>10. ASSUME NEW s \in Sessions, ReadResponse(s) PROVE Types'
    <2>1. backing' \in [Sessions -> BOOLEAN]
      BY <1>10, UnregisterTypes DEF ReadResponse
    <2>2. held[s] \in Seq(Conn) /\ Len(held[s]) = 1
      BY <1>10 DEF ReadResponse, Types, HandsInv
    <2> DEFINE received == buf[s] \o Head(held[s])
    <2>3. received \in Seq(Requests) /\ received # << >>
      <3>1. Head(held[s]) \in Seq(Requests) /\ buf[s] \in Seq(Requests)
        <4>1. Head(held[s]) \in Conn
          BY <2>2
        <4>2. buf[s] \in Conn
          BY DEF Types
        <4> QED
          BY <4>1, <4>2 DEF Conn
      <3> QED
        BY <1>10, <3>1 DEF ReadResponse
    <2>4. PICK left \in Parse(received) : \E n \in 0..Len(left) :
            /\ short' = IF left = received THEN short + 1 ELSE short
            /\ buf' = [buf EXCEPT ![s] = SubSeq(left, 1, n)]
            /\ held' = [held EXCEPT ![s] = <<SubSeq(left, n + 1, Len(left))>>]
      BY <1>10 DEF ReadResponse
    <2>4a. PICK n \in 0..Len(left) :
            /\ buf' = [buf EXCEPT ![s] = SubSeq(left, 1, n)]
            /\ held' = [held EXCEPT ![s] = <<SubSeq(left, n + 1, Len(left))>>]
      BY <2>4
    <2>5. response' = [response EXCEPT ![s] = Head(received)] /\ short' <= MaxShort
      BY <1>10 DEF ReadResponse
    <2> HIDE DEF received
    <2>6. left \in Seq(Requests)
      BY <2>3, <2>4 DEF Parse
    <2>7. SubSeq(left, 1, n) \in Conn /\ SubSeq(left, n + 1, Len(left)) \in Conn
      BY <2>4a, <2>6 DEF Conn
    <2>8. held' \in [Sessions -> Seq(Conn)] /\ buf' \in [Sessions -> Conn]
      BY <2>4a, <2>7 DEF Types
    <2>9. short' \in 0..MaxShort
      BY <2>4, <2>5, ProxyAssumption DEF Types
    <2>10. keepalive' \in [Sessions -> BOOLEAN]
      BY <1>10, SetFlag DEF ReadResponse, Types
    <2>11. Head(received) \in Requests
      BY <2>3
    <2>12. response' \in [Sessions -> Requests \cup {NoResponse}]
      BY <2>5, <2>11 DEF Types
    <2>13. pc' \in [Sessions -> PC]
      BY <1>10 DEF ReadResponse, Types, PC, IoStates
    <2> QED
      BY <1>10, <2>1, <2>8, <2>9, <2>10, <2>12, <2>13 DEF ReadResponse, Types
  <1>11. ASSUME NEW s \in Sessions, BackendFails(s) PROVE Types'
    <2>1. backing' \in [Sessions -> BOOLEAN]
      BY <1>11, UnregisterTypes DEF BackendFails
    <2>2. invalid' \in [Sessions -> BOOLEAN]
      BY <1>11, SetFlag DEF BackendFails, Types
    <2> QED
      BY <1>11, <2>1, <2>2 DEF BackendFails, Types, PC
  <1>12. ASSUME NEW s \in Sessions, ClientFails(s) PROVE Types'
    <2>1. backing' \in [Sessions -> BOOLEAN]
      BY <1>12, UnregisterTypes DEF ClientFails
    <2> QED
      BY <1>12, <2>1 DEF ClientFails, Types, PC
  <1>13. ASSUME NEW s \in Sessions, Retry(s) PROVE Types'
    <2>1. response' \in [Sessions -> Requests \cup {NoResponse}]
      BY <1>13 DEF Retry, ResetBuffer, Types
    <2>2. attempt' \in [Sessions -> 1..2]
      BY <1>13 DEF Retry, Types
    <2>3. buf' \in [Sessions -> Conn] /\ short' = short
      BY <1>13 DEF Retry, ResetBuffer, Types, Conn
    <2> QED
      BY <1>13, <2>1, <2>2, <2>3 DEF Retry, Types, PC
  <1>14. ASSUME NEW s \in Sessions, RelayResponse(s) PROVE Types'
    <2>1. PICK l \in AfterReply : GiveBack(s, invalid[s] \/ ~keepalive[s], l)
      BY <1>14 DEF RelayResponse
    <2>2. (invalid[s] \/ ~keepalive[s]) \in BOOLEAN /\ pc[s] # "wait"
      BY <1>14 DEF RelayResponse
    <2>3. l \in PC
      BY <2>1 DEF AfterReply, PC, IoStates
    <2>4. /\ idle' \in Seq(Conn) /\ waiters' \in Seq(Sessions)
          /\ pc' \in [Sessions -> PC] /\ held' \in [Sessions -> Seq(Conn)]
          /\ invalid' \in [Sessions -> BOOLEAN]
      BY <2>1, <2>2, <2>3, GiveBackTypes
    <2>5. backing' \in [Sessions -> BOOLEAN]
      BY <1>14, UnregisterTypes DEF RelayResponse
    <2>6. response' \in [Sessions -> Requests \cup {NoResponse}]
      BY <1>14 DEF RelayResponse, Types
    <2> QED
      BY <1>14, <2>4, <2>5, <2>6 DEF RelayResponse, Types
  <1>15. ASSUME NEW s \in Sessions, Close(s) PROVE Types'
    <2>1. invalid[s] \in BOOLEAN /\ "none" \in PC /\ pc[s] # "wait"
      BY <1>15 DEF Types, PC, Close
    <2>2. /\ idle' \in Seq(Conn) /\ waiters' \in Seq(Sessions)
          /\ pc' \in [Sessions -> PC] /\ held' \in [Sessions -> Seq(Conn)]
          /\ invalid' \in [Sessions -> BOOLEAN]
      BY <1>15, <2>1, GiveBackTypes DEF Close
    <2>3. /\ response' \in [Sessions -> Requests \cup {NoResponse}]
          /\ buf' \in [Sessions -> Conn] /\ short' = short
      BY <1>15 DEF Close, ResetBuffer, Types, Conn
    <2> QED
      BY <1>15, <2>2, <2>3 DEF Close, Types
  <1>16. ASSUME NEW s \in Sessions, BackOff(s) PROVE Types'
    <2>1. backing' \in [Sessions -> BOOLEAN]
      BY <1>16, SetFlag DEF BackOff, Types
    <2> QED
      BY <1>16, <2>1 DEF BackOff, Types
  <1>17. ASSUME NEW s \in Sessions, ReaderStartsOver(s) PROVE Types'
    <2>1. backing' \in [Sessions -> BOOLEAN]
      BY <1>17, UnregisterTypes DEF ReaderStartsOver
    <2> QED
      BY <1>17, <2>1 DEF ReaderStartsOver, Types
  <1>18. CASE Signal
    BY <1>18 DEF Signal, Types
  <1>19. CASE ServerReturns
    BY <1>19 DEF ServerReturns, Types
  <1>20. CASE UNCHANGED vars
    BY <1>20 DEF vars, Types
  <1> QED
    BY <1>1, <1>2, <1>3, <1>4, <1>5, <1>6, <1>7, <1>8, <1>9, <1>9a, <1>10, <1>11,
       <1>12, <1>13, <1>14, <1>15, <1>16, <1>17, <1>18, <1>19, <1>20 DEF Next, Step

-----------------------------------------------------------------------------
(* Hands and waiting readers.                                               *)

\* A step of a session that does not wait leaves the waiting readers waiting.
LEMMA WaitersStay ==
    ASSUME Types, WaitersInv, NEW s \in Sessions, NEW l \in PC,
           pc[s] # "wait", Moves(s, l), waiters' = waiters
    PROVE  WaitersInv'
  <1>1. \A i \in DOMAIN waiters : waiters[i] \in Sessions
    BY DEF Types
  <1>2. \A i \in DOMAIN waiters : waiters[i] # s
    BY DEF WaitersInv
  <1> QED
    BY <1>1, <1>2 DEF WaitersInv, Moves, Types

\* What giving a connection back does to the hands: those of s lose one, those
\* of at most one other session, which was waiting, get one.
LEMMA GiveBackHands ==
    ASSUME Types, WaitersInv, NEW s \in Sessions, NEW inv \in BOOLEAN, NEW l \in PC,
           pc[s] # "wait", GiveBack(s, inv, l)
    PROVE  /\ pc'[s] = l
           /\ Len(held[s]) = 0 => Len(held'[s]) = 0
           /\ Len(held[s]) > 0 => Len(held'[s]) = Len(held[s]) - 1
           /\ \A t \in Sessions : t # s =>
                \/ pc'[t] = pc[t] /\ held'[t] = held[t]
                \/ pc[t] = "wait" /\ pc'[t] = "forward" /\ Len(held'[t]) = Len(held[t]) + 1
           /\ WaitersInv'
  <1>1. /\ pc \in [Sessions -> PC] /\ held \in [Sessions -> Seq(Conn)]
        /\ waiters \in Seq(Sessions)
    BY DEF Types
  <1>2. held[s] \in Seq(Conn) /\ Len(held[s]) \in Nat
    BY <1>1
  <1>3. held[s] # << >> => /\ Len(held[s]) > 0
                           /\ Len(Tail(held[s])) = Len(held[s]) - 1
                           /\ Head(held[s]) \in Conn
    BY <1>2
  <1>4. CASE NothingBack(s, l)
    <2>1. WaitersInv'
      BY <1>4, WaitersStay DEF NothingBack
    <2>2. Len(held[s]) = 0
      BY <1>4 DEF NothingBack
    <2> QED
      BY <1>1, <1>4, <2>1, <2>2 DEF NothingBack, Moves
  <1>5. CASE CountedOut(s, l)
    <2>1. WaitersInv'
      BY <1>5, WaitersStay DEF CountedOut
    <2> QED
      BY <1>1, <1>2, <1>3, <1>5, <2>1 DEF CountedOut, Moves, LosesFirst
  <1>6. CASE PutBack(s, l)
    <2>1. WaitersInv'
      BY <1>6, WaitersStay DEF PutBack
    <2> QED
      BY <1>1, <1>2, <1>3, <1>6, <2>1 DEF PutBack, Moves, LosesFirst
  <1>7. CASE \E w \in Sessions : HandedOver(s, w, l)
    <2>1. PICK w \in Sessions : HandedOver(s, w, l)
      BY <1>7
    <2>2. /\ Len(waiters) \in Nat /\ Len(waiters) > 0 /\ w = waiters[1]
          /\ DOMAIN waiters' = 1..(Len(waiters) - 1)
          /\ \A i \in 1..(Len(waiters) - 1) : waiters'[i] = waiters[i + 1]
      BY <1>1, <2>1 DEF HandedOver
    <2>3. pc[w] = "wait"
      BY <2>2, <1>1 DEF WaitersInv
    <2>4. Len(held'[w]) = Len(held[w]) + 1
      <3>1. held[w] \in Seq(Conn) /\ held'[w] = Append(held[w], Head(held[s]))
        BY <1>1, <2>1 DEF HandedOver
      <3> QED
        BY <1>3, <2>1, <3>1 DEF HandedOver
    <2>5. WaitersInv'
      <3>1. \A i \in 1..(Len(waiters) - 1) :
              i + 1 \in DOMAIN waiters /\ 1 \in DOMAIN waiters /\ i + 1 # 1
        BY <1>1, <2>2
      <3>2. \A i \in 1..(Len(waiters) - 1) : waiters[i + 1] # w /\ waiters[i + 1] # s
        BY <2>2, <3>1 DEF WaitersInv
      <3>3. \A i \in 1..(Len(waiters) - 1) : pc'[waiters[i + 1]] = "wait"
        BY <1>1, <2>1, <3>1, <3>2 DEF HandedOver, WaitersInv
      <3>4. \A i, j \in 1..(Len(waiters) - 1) :
              waiters[i + 1] = waiters[j + 1] => i = j
        BY <3>1 DEF WaitersInv
      <3> QED
        BY <2>2, <3>3, <3>4 DEF WaitersInv
    <2> QED
      BY <1>1, <1>2, <1>3, <2>1, <2>3, <2>4, <2>5 DEF HandedOver
  <1> QED
    BY <1>4, <1>5, <1>6, <1>7, GiveBackCases

\* The hands of one session.
HandOK(p, n, a) ==
    /\ p \in {"none", "read"} => n = 0
    /\ p \in Acquiring => n = a - 1
    /\ p = "forward" => n = a
    /\ p \in {"write", "linked", "reply", "relay", "failed"} => n = 1
    /\ p = "close" => n \in {0, 1}

\* HandsInv in those terms.
LEMMA HandsAre ==
    HandsInv <=> \A s \in Sessions : HandOK(pc[s], Len(held[s]), attempt[s])
  BY DEF HandsInv, HandOK

\* A step of s alone that leaves its hands as they should be.
LEMMA OneHand ==
    ASSUME Types, HandsInv, NEW s \in Sessions, NEW l \in PC, Moves(s, l),
           \A t \in Sessions : t # s => held'[t] = held[t] /\ attempt'[t] = attempt[t],
           HandOK(l, Len(held'[s]), attempt'[s])
    PROVE  HandsInv'
  <1>1. \A t \in Sessions : HandOK(pc[t], Len(held[t]), attempt[t])
    BY HandsAre
  <1>2. \A t \in Sessions : (HandOK(pc[t], Len(held[t]), attempt[t]))'
    <2> SUFFICES ASSUME NEW t \in Sessions
                 PROVE  HandOK(pc'[t], Len(held'[t]), attempt'[t])
      BY DEF HandOK
    <2>1. CASE t = s
      <3>1. pc'[s] = l
        BY DEF Moves, Types
      <3> QED
        BY <2>1, <3>1
    <2>2. CASE t # s
      <3>1. pc'[t] = pc[t] /\ held'[t] = held[t] /\ attempt'[t] = attempt[t]
        BY <2>2 DEF Moves, Types
      <3> QED
        BY <1>1, <3>1
    <2> QED
      BY <2>1, <2>2
  <1> QED
    BY <1>2 DEF HandsInv, HandOK

\* A step that gives a connection back and leaves the hands of s as they should be.
LEMMA BackHand ==
    ASSUME Types, WaitersInv, HandsInv, NEW s \in Sessions, NEW inv \in BOOLEAN,
           NEW l \in PC, pc[s] # "wait", GiveBack(s, inv, l), attempt' = attempt,
           HandOK(l, IF Len(held[s]) = 0 THEN 0 ELSE Len(held[s]) - 1, attempt[s])
    PROVE  HandsInv' /\ WaitersInv'
  <1>1. /\ pc'[s] = l
        /\ Len(held[s]) = 0 => Len(held'[s]) = 0
        /\ Len(held[s]) > 0 => Len(held'[s]) = Len(held[s]) - 1
        /\ \A t \in Sessions : t # s =>
             \/ pc'[t] = pc[t] /\ held'[t] = held[t]
             \/ pc[t] = "wait" /\ pc'[t] = "forward" /\ Len(held'[t]) = Len(held[t]) + 1
        /\ WaitersInv'
    BY GiveBackHands
  <1>2. Len(held[s]) \in Nat
    BY DEF Types
  <1>3. HandOK(pc'[s], Len(held'[s]), attempt'[s])
    <2>1. CASE Len(held[s]) = 0
      BY <1>1, <2>1
    <2>2. CASE Len(held[s]) > 0
      <3>1. (IF Len(held[s]) = 0 THEN 0 ELSE Len(held[s]) - 1) = Len(held'[s])
        BY <1>1, <1>2, <2>2
      <3> QED
        BY <1>1, <3>1
    <2> QED
      BY <1>2, <2>1, <2>2
  <1>4. ASSUME NEW t \in Sessions, t # s PROVE HandOK(pc'[t], Len(held'[t]), attempt'[t])
    <2>1. HandOK(pc[t], Len(held[t]), attempt[t])
      BY HandsAre
    <2>2. CASE pc'[t] = pc[t] /\ held'[t] = held[t]
      BY <2>1, <2>2
    <2>3. CASE pc[t] = "wait" /\ pc'[t] = "forward" /\ Len(held'[t]) = Len(held[t]) + 1
      <3>1. Len(held[t]) = attempt[t] - 1 /\ attempt[t] \in 1..2
        BY <2>1, <2>3 DEF HandOK, Acquiring, Types
      <3> QED
        BY <2>3, <3>1 DEF HandOK, Acquiring
    <2> QED
      BY <1>1, <1>4, <2>2, <2>3
  <1> QED
    BY <1>1, <1>3, <1>4 DEF HandsInv, HandOK

\* Taking a connection ends acquire().
LEMMA TakesHand ==
    ASSUME Types, WaitersInv, HandsInv, NEW s \in Sessions, NEW c \in Conn,
           pc[s] \in Acquiring \ {"wait"}, Takes(s, c), attempt' = attempt,
           waiters' = waiters
    PROVE  HandsInv' /\ WaitersInv'
  <1>1. "forward" \in PC /\ Moves(s, "forward")
    BY DEF Takes, Moves, PC
  <1>2. Len(held[s]) = attempt[s] - 1 /\ attempt[s] \in 1..2
    BY DEF HandsInv, Types
  <1>3. Len(held'[s]) = Len(held[s]) + 1
    <2>1. held[s] \in Seq(Conn) /\ held'[s] = Append(held[s], c)
      BY DEF Takes, Types
    <2> QED
      BY <2>1
  <1>4. HandOK("forward", Len(held'[s]), attempt'[s])
    BY <1>2, <1>3 DEF HandOK, Acquiring
  <1>5. \A t \in Sessions : t # s => held'[t] = held[t] /\ attempt'[t] = attempt[t]
    BY DEF Takes, Types
  <1> QED
    BY <1>1, <1>4, <1>5, OneHand, WaitersStay DEF Acquiring

\* A step that changes no program counter, no hands and no queue.
LEMMA HandsStay ==
    ASSUME HandsInv, WaitersInv, UNCHANGED <<pc, held, attempt, waiters>>
    PROVE  HandsInv' /\ WaitersInv'
  BY DEF HandsInv, WaitersInv

\* Every step leaves the hands and the waiting readers as they should be.
LEMMA HandsStep ==
    Types /\ WaitersInv /\ HandsInv /\ [Next]_vars => HandsInv' /\ WaitersInv'
  <1> SUFFICES ASSUME Types, WaitersInv, HandsInv, [Next]_vars
               PROVE  HandsInv' /\ WaitersInv'
    OBVIOUS
  <1> USE DEF serverVars, poolVars, connVars, requestVars, bufferVars
  <1>1. ASSUME NEW s \in Sessions, AcceptClient(s) PROVE HandsInv' /\ WaitersInv'
    <2> DEFINE l == IF shutdown THEN "close" ELSE "read"
    <2>1. l \in PC /\ Moves(s, l) /\ pc[s] # "wait" /\ waiters' = waiters
      BY <1>1 DEF AcceptClient, Moves, PC, IoStates
    <2>2. \A t \in Sessions : t # s => held'[t] = held[t] /\ attempt'[t] = attempt[t]
      BY <1>1 DEF AcceptClient, Types
    <2>3. HandOK(l, Len(held'[s]), attempt'[s])
      BY <1>1 DEF AcceptClient, Types, HandsInv, HandOK, Acquiring
    <2> HIDE DEF l
    <2> QED
      BY <2>1, <2>2, <2>3, OneHand, WaitersStay
  <1>2. ASSUME NEW s \in Sessions, TryIdle(s) PROVE HandsInv' /\ WaitersInv'
    <2>1. CASE idle = << >>
      <3>1. "create" \in PC /\ Moves(s, "create") /\ pc[s] # "wait" /\ waiters' = waiters
        BY <1>2, <2>1 DEF TryIdle, Moves, PC
      <3>2. \A t \in Sessions : t # s => held'[t] = held[t] /\ attempt'[t] = attempt[t]
        BY <1>2, <2>1 DEF TryIdle
      <3>3. HandOK("create", Len(held'[s]), attempt'[s])
        BY <1>2, <2>1 DEF TryIdle, HandsInv, HandOK, Acquiring
      <3> QED
        BY <3>1, <3>2, <3>3, OneHand, WaitersStay
    <2>2. CASE idle # << >>
      <3>1. Head(idle) \in Conn
        BY <2>2 DEF Types
      <3> QED
        BY <1>2, <2>2, <3>1, TakesHand DEF TryIdle, Acquiring
    <2> QED
      BY <2>1, <2>2
  <1>3. ASSUME NEW s \in Sessions, CreateOrWait(s) PROVE HandsInv' /\ WaitersInv'
    <2>1. CASE pc' = [pc EXCEPT ![s] = "connect"] /\ UNCHANGED <<idle, waiters, held>>
      <3>1. "connect" \in PC /\ Moves(s, "connect") /\ pc[s] # "wait"
        BY <1>3, <2>1 DEF CreateOrWait, Moves, PC
      <3>2. \A t \in Sessions : t # s => held'[t] = held[t] /\ attempt'[t] = attempt[t]
        BY <1>3, <2>1 DEF CreateOrWait
      <3>3. HandOK("connect", Len(held'[s]), attempt'[s])
        BY <1>3, <2>1 DEF CreateOrWait, HandsInv, HandOK, Acquiring
      <3> QED
        BY <2>1, <3>1, <3>2, <3>3, OneHand, WaitersStay
    <2>2. CASE idle # << >> /\ idle' = Tail(idle) /\ Takes(s, Head(idle))
               /\ UNCHANGED <<total, waiters>>
      <3>1. Head(idle) \in Conn
        BY <2>2 DEF Types
      <3> QED
        BY <1>3, <2>2, <3>1, TakesHand DEF CreateOrWait, Acquiring
    <2>3. CASE waiters' = Append(waiters, s) /\ pc' = [pc EXCEPT ![s] = "wait"]
               /\ UNCHANGED <<total, idle, held>>
      <3>1. "wait" \in PC /\ Moves(s, "wait") /\ pc[s] # "wait"
        BY <1>3, <2>3 DEF CreateOrWait, Moves, PC
      <3>2. \A t \in Sessions : t # s => held'[t] = held[t] /\ attempt'[t] = attempt[t]
        BY <1>3, <2>3 DEF CreateOrWait
      <3>3. HandOK("wait", Len(held'[s]), attempt'[s])
        BY <1>3, <2>3 DEF CreateOrWait, HandsInv, HandOK, Acquiring
      <3>4. HandsInv'
        BY <3>1, <3>2, <3>3, OneHand
      <3>5. /\ Len(waiters) \in Nat /\ DOMAIN waiters' = 1..(Len(waiters) + 1)
            /\ waiters'[Len(waiters) + 1] = s
            /\ DOMAIN waiters = 1..Len(waiters)
            /\ \A i \in 1..Len(waiters) : waiters'[i] = waiters[i] /\ waiters[i] \in Sessions
        BY <2>3 DEF Types
      <3>6. \A i \in 1..Len(waiters) : waiters[i] # s /\ pc'[waiters[i]] = "wait"
        BY <2>3, <3>1, <3>5 DEF WaitersInv, Types
      <3>7. pc'[s] = "wait"
        BY <2>3 DEF Types
      <3>8. ASSUME NEW i \in DOMAIN waiters' PROVE pc'[waiters'[i]] = "wait"
        <4>1. CASE i = Len(waiters) + 1
          BY <3>5, <3>7, <4>1
        <4>2. CASE i # Len(waiters) + 1
          <5>1. i \in 1..Len(waiters)
            BY <3>5, <4>2
          <5> QED
            BY <3>5, <3>6, <5>1
        <4> QED
          BY <4>1, <4>2
      <3>9. ASSUME NEW i \in DOMAIN waiters', NEW j \in DOMAIN waiters',
                   waiters'[i] = waiters'[j]
            PROVE  i = j
        <4>1. CASE i \in 1..Len(waiters) /\ j \in 1..Len(waiters)
          BY <3>5, <3>9, <4>1 DEF WaitersInv
        <4>2. CASE i \notin 1..Len(waiters) /\ j \in 1..Len(waiters)
          <5>1. i = Len(waiters) + 1
            BY <3>5, <4>2
          <5> QED
            BY <3>5, <3>6, <3>9, <4>2, <5>1
        <4>3. CASE i \in 1..Len(waiters) /\ j \notin 1..Len(waiters)
          <5>1. j = Len(waiters) + 1
            BY <3>5, <4>3
          <5> QED
            BY <3>5, <3>6, <3>9, <4>3, <5>1
        <4>4. CASE i \notin 1..Len(waiters) /\ j \notin 1..Len(waiters)
          BY <3>5, <4>4
        <4> QED
          BY <4>1, <4>2, <4>3, <4>4
      <3> QED
        BY <3>4, <3>8, <3>9 DEF WaitersInv
    <2> QED
      BY <1>3, <2>1, <2>2, <2>3 DEF CreateOrWait
  <1>4. ASSUME NEW s \in Sessions, Connected(s) PROVE HandsInv' /\ WaitersInv'
    <2>1. << >> \in Conn
      BY DEF Conn
    <2> QED
      BY <1>4, <2>1, TakesHand DEF Connected, Acquiring
  <1>5. ASSUME NEW s \in Sessions, ConnectFails(s) PROVE HandsInv' /\ WaitersInv'
    <2>1. "close" \in PC /\ Moves(s, "close") /\ pc[s] # "wait" /\ waiters' = waiters
      BY <1>5 DEF ConnectFails, Moves, PC, IoStates
    <2>2. \A t \in Sessions : t # s => held'[t] = held[t] /\ attempt'[t] = attempt[t]
      BY <1>5 DEF ConnectFails, Types
    <2>3. HandOK("close", Len(held'[s]), attempt'[s])
      <3>1. Len(held'[s]) = attempt[s] - 1 /\ attempt[s] \in 1..2
        BY <1>5 DEF ConnectFails, Types, HandsInv, Acquiring
      <3>2. attempt[s] - 1 \in {0, 1}
        BY <3>1
      <3> QED
        BY <3>1, <3>2 DEF HandOK, Acquiring
    <2> QED
      BY <2>1, <2>2, <2>3, OneHand, WaitersStay
  <1>6. ASSUME NEW s \in Sessions, BeginForward(s) PROVE HandsInv' /\ WaitersInv'
    <2>1. CASE Len(held[s]) = 2 /\ GiveBack(s, invalid[s], "write")
      <3>1. invalid[s] \in BOOLEAN /\ "write" \in PC /\ pc[s] # "wait" /\ attempt' = attempt
        BY <1>6 DEF Types, PC, IoStates, BeginForward
      <3>2. (IF Len(held[s]) = 0 THEN 0 ELSE Len(held[s]) - 1) = 1
        BY <2>1
      <3>3. HandOK("write", 1, attempt[s])
        BY DEF HandOK, Acquiring
      <3> QED
        BY <2>1, <3>1, <3>2, <3>3, BackHand
    <2>2. CASE /\ Len(held[s]) = 1 /\ pc' = [pc EXCEPT ![s] = "write"]
               /\ UNCHANGED <<poolVars, connVars>>
      <3>1. "write" \in PC /\ Moves(s, "write") /\ pc[s] # "wait" /\ waiters' = waiters
        BY <1>6, <2>2 DEF BeginForward, Moves, PC, IoStates
      <3>2. \A t \in Sessions : t # s => held'[t] = held[t] /\ attempt'[t] = attempt[t]
        BY <1>6, <2>2 DEF BeginForward
      <3>3. HandOK("write", Len(held'[s]), attempt'[s])
        BY <2>2 DEF HandOK, Acquiring
      <3> QED
        BY <3>1, <3>2, <3>3, OneHand, WaitersStay
    <2> QED
      BY <1>6, <2>1, <2>2 DEF BeginForward
  <1>7. ASSUME NEW s \in Sessions, ReadRequest(s) PROVE HandsInv' /\ WaitersInv'
    <2>1. "acquire" \in PC /\ Moves(s, "acquire") /\ pc[s] # "wait" /\ waiters' = waiters
      BY <1>7 DEF ReadRequest, Moves, PC, IoStates
    <2>2. \A t \in Sessions : t # s => held'[t] = held[t] /\ attempt'[t] = attempt[t]
      BY <1>7 DEF ReadRequest, Types
    <2>3. HandOK("acquire", Len(held'[s]), attempt'[s])
      BY <1>7 DEF ReadRequest, Types, HandsInv, HandOK, Acquiring
    <2> QED
      BY <2>1, <2>2, <2>3, OneHand, WaitersStay
  <1>8. ASSUME NEW s \in Sessions, ReadEnds(s) PROVE HandsInv' /\ WaitersInv'
    <2>1. "close" \in PC /\ Moves(s, "close") /\ pc[s] # "wait" /\ waiters' = waiters
      BY <1>8 DEF ReadEnds, Moves, PC, IoStates
    <2>2. \A t \in Sessions : t # s => held'[t] = held[t] /\ attempt'[t] = attempt[t]
      BY <1>8 DEF ReadEnds, Types
    <2>3. HandOK("close", Len(held'[s]), attempt'[s])
      BY <1>8 DEF ReadEnds, Types, HandsInv, HandOK, Acquiring
    <2> QED
      BY <2>1, <2>2, <2>3, OneHand, WaitersStay
  <1>9. ASSUME NEW s \in Sessions, WriteRequest(s) PROVE HandsInv' /\ WaitersInv'
    <2>1. PICK l \in {"linked", "reply"} : Moves(s, l)
      BY <1>9 DEF WriteRequest, Moves
    <2>2. l \in PC /\ pc[s] # "wait" /\ waiters' = waiters
      BY <1>9, <2>1 DEF WriteRequest, PC, IoStates
    <2>3. \A t \in Sessions : t # s => held'[t] = held[t] /\ attempt'[t] = attempt[t]
      BY <1>9 DEF WriteRequest, Types
    <2>4. Len(held'[s]) = 1
      BY <1>9 DEF WriteRequest, Types
    <2>5. HandOK(l, Len(held'[s]), attempt'[s])
      BY <2>1, <2>4 DEF HandOK, Acquiring
    <2> QED
      BY <2>1, <2>2, <2>3, <2>5, OneHand, WaitersStay
  <1>9a. ASSUME NEW s \in Sessions, LinkedRecv(s) PROVE HandsInv' /\ WaitersInv'
    <2>1. "reply" \in PC /\ Moves(s, "reply") /\ pc[s] # "wait" /\ waiters' = waiters
      BY <1>9a DEF LinkedRecv, Moves, PC, IoStates
    <2>2. \A t \in Sessions : t # s => held'[t] = held[t] /\ attempt'[t] = attempt[t]
      BY <1>9a DEF LinkedRecv
    <2>3. HandOK("reply", Len(held'[s]), attempt'[s])
      BY <1>9a DEF LinkedRecv, HandsInv, HandOK, Acquiring
    <2> QED
      BY <2>1, <2>2, <2>3, OneHand, WaitersStay
  <1>10. ASSUME NEW s \in Sessions, ReadResponse(s) PROVE HandsInv' /\ WaitersInv'
    <2>1. "relay" \in PC /\ Moves(s, "relay") /\ pc[s] # "wait" /\ waiters' = waiters
      BY <1>10 DEF ReadResponse, Moves, PC, IoStates
    <2>2. \A t \in Sessions : t # s => held'[t] = held[t] /\ attempt'[t] = attempt[t]
      BY <1>10 DEF ReadResponse, Types
    <2>3. HandOK("relay", Len(held'[s]), attempt'[s])
      BY <1>10 DEF ReadResponse, Types, HandsInv, HandOK, Acquiring
    <2> QED
      BY <2>1, <2>2, <2>3, OneHand, WaitersStay
  <1>11. ASSUME NEW s \in Sessions, BackendFails(s) PROVE HandsInv' /\ WaitersInv'
    <2>1. "failed" \in PC /\ Moves(s, "failed") /\ pc[s] # "wait" /\ waiters' = waiters
      BY <1>11 DEF BackendFails, Moves, PC, IoStates
    <2>2. \A t \in Sessions : t # s => held'[t] = held[t] /\ attempt'[t] = attempt[t]
      BY <1>11 DEF BackendFails, Types
    <2>3. HandOK("failed", Len(held'[s]), attempt'[s])
      BY <1>11 DEF BackendFails, Types, HandsInv, HandOK, Acquiring
    <2> QED
      BY <2>1, <2>2, <2>3, OneHand, WaitersStay
  <1>12. ASSUME NEW s \in Sessions, ClientFails(s) PROVE HandsInv' /\ WaitersInv'
    <2>1. "failed" \in PC /\ Moves(s, "failed") /\ pc[s] # "wait" /\ waiters' = waiters
      BY <1>12 DEF ClientFails, Moves, PC, IoStates
    <2>2. \A t \in Sessions : t # s => held'[t] = held[t] /\ attempt'[t] = attempt[t]
      BY <1>12 DEF ClientFails, Types
    <2>3. HandOK("failed", Len(held'[s]), attempt'[s])
      BY <1>12 DEF ClientFails, Types, HandsInv, HandOK, Acquiring
    <2> QED
      BY <2>1, <2>2, <2>3, OneHand, WaitersStay
  <1>13. ASSUME NEW s \in Sessions, Retry(s) PROVE HandsInv' /\ WaitersInv'
    <2> DEFINE l == IF attempt[s] = 1 THEN "acquire" ELSE "close"
    <2>1. l \in PC /\ Moves(s, l) /\ pc[s] # "wait" /\ waiters' = waiters
      BY <1>13 DEF Retry, Moves, PC
    <2>2. \A t \in Sessions : t # s => held'[t] = held[t] /\ attempt'[t] = attempt[t]
      BY <1>13 DEF Retry, Types
    <2>3. attempt'[s] = 2 /\ Len(held'[s]) = 1
      BY <1>13 DEF Retry, Types, HandsInv
    <2>4. HandOK(l, Len(held'[s]), attempt'[s])
      BY <2>3 DEF HandOK, Acquiring
    <2> HIDE DEF l
    <2> QED
      BY <2>1, <2>2, <2>4, OneHand, WaitersStay
  <1>14. ASSUME NEW s \in Sessions, RelayResponse(s) PROVE HandsInv' /\ WaitersInv'
    <2>1. PICK l \in AfterReply : GiveBack(s, invalid[s] \/ ~keepalive[s], l)
      BY <1>14 DEF RelayResponse
    <2>2. (invalid[s] \/ ~keepalive[s]) \in BOOLEAN /\ pc[s] # "wait" /\ attempt' = attempt
      BY <1>14 DEF RelayResponse
    <2>3. l \in PC
      BY <2>1 DEF AfterReply, PC, IoStates
    <2>4. (IF Len(held[s]) = 0 THEN 0 ELSE Len(held[s]) - 1) = 0
      BY <1>14 DEF RelayResponse, HandsInv
    <2>5. HandOK(l, 0, attempt[s])
      BY <2>1 DEF HandOK, Acquiring, AfterReply
    <2> QED
      BY <2>1, <2>2, <2>3, <2>4, <2>5, BackHand
  <1>15. ASSUME NEW s \in Sessions, Close(s) PROVE HandsInv' /\ WaitersInv'
    <2>1. /\ invalid[s] \in BOOLEAN /\ "none" \in PC /\ pc[s] # "wait"
          /\ attempt' = attempt /\ GiveBack(s, invalid[s], "none")
      BY <1>15 DEF Types, PC, Close
    <2>2. Len(held[s]) \in {0, 1}
      BY <1>15 DEF HandsInv, Close
    <2>3. (IF Len(held[s]) = 0 THEN 0 ELSE Len(held[s]) - 1) = 0
      BY <2>2
    <2>4. HandOK("none", 0, attempt[s])
      BY DEF HandOK, Acquiring
    <2> QED
      BY <2>1, <2>3, <2>4, BackHand
  <1>16. ASSUME NEW s \in Sessions, BackOff(s) PROVE HandsInv' /\ WaitersInv'
    BY <1>16, HandsStay DEF BackOff
  <1>17. ASSUME NEW s \in Sessions, ReaderStartsOver(s) PROVE HandsInv' /\ WaitersInv'
    BY <1>17, HandsStay DEF ReaderStartsOver
  <1>18. CASE Signal
    BY <1>18, HandsStay DEF Signal
  <1>19. CASE ServerReturns
    BY <1>19, HandsStay DEF ServerReturns
  <1>20. CASE UNCHANGED vars
    BY <1>20, HandsStay DEF vars
  <1> QED
    BY <1>1, <1>2, <1>3, <1>4, <1>5, <1>6, <1>7, <1>8, <1>9, <1>9a, <1>10, <1>11,
       <1>12, <1>13, <1>14, <1>15, <1>16, <1>17, <1>18, <1>19, <1>20 DEF Next, Step

-----------------------------------------------------------------------------
(* The pool's counter.                                                      *)

PoolCount ==
    /\ total = Len(idle) + Cardinality(Borrowed) + Cardinality(Connecting)
    /\ total <= MaxPool

\* What is counted is finite.
Countable ==
    /\ Len(idle) \in Nat
    /\ held \in Hands /\ Borrowed = Places(held)
    /\ IsFiniteSet(Places(held)) /\ Cardinality(Places(held)) \in Nat
    /\ IsFiniteSet(Connecting) /\ Cardinality(Connecting) \in Nat

\* So it is ...
LEMMA PoolFinite == Types /\ HandsInv => Countable
  <1> SUFFICES ASSUME Types, HandsInv PROVE Countable
    OBVIOUS
  <1>1. Len(idle) \in Nat /\ held \in Hands
    BY DEF Types, Hands
  <1>2. ASSUME NEW s \in Sessions PROVE Len(held[s]) <= 2
    <2>1. attempt[s] \in 1..2 /\ pc[s] \in PC
      BY DEF Types
    <2>2. CASE pc[s] \in Acquiring
      <3>1. Len(held[s]) = attempt[s] - 1
        BY <2>2 DEF HandsInv
      <3> QED
        BY <2>1, <3>1
    <2>3. CASE pc[s] = "forward"
      <3>1. Len(held[s]) = attempt[s]
        BY <2>3 DEF HandsInv
      <3> QED
        BY <2>1, <3>1
    <2>4. CASE pc[s] \in {"none", "read"}
      <3>1. Len(held[s]) = 0
        BY <2>4 DEF HandsInv
      <3> QED
        BY <3>1
    <2>5. CASE pc[s] \in {"write", "linked", "reply", "relay", "failed"}
      <3>1. Len(held[s]) = 1
        BY <2>5 DEF HandsInv
      <3> QED
        BY <3>1
    <2>6. CASE pc[s] = "close"
      <3>1. Len(held[s]) = 0 \/ Len(held[s]) = 1
        BY <2>6 DEF HandsInv
      <3>2. CASE Len(held[s]) = 0
        BY <3>2
      <3>3. CASE Len(held[s]) = 1
        BY <3>3
      <3> QED
        BY <3>1, <3>2, <3>3
    <2> QED
      BY <2>1, <2>2, <2>3, <2>4, <2>5, <2>6 DEF Acquiring, PC, IoStates
  <1>3. Connecting \subseteq Sessions
    BY DEF Connecting
  <1>4. IsFiniteSet(Connecting) /\ Cardinality(Connecting) \in Nat
    BY <1>3, SessionSets
  <1>5. IsFiniteSet(Places(held)) /\ Cardinality(Places(held)) \in Nat
    BY <1>1, <1>2, PlacesFinite
  <1> QED
    BY <1>1, <1>4, <1>5 DEF Borrowed, Places, Countable

\* ... and stays.
LEMMA PoolFiniteNext == Types' /\ HandsInv' => Countable'
  BY PoolFinite, PTL

\* A step that moves no connection.
LEMMA PoolSame ==
    ASSUME Types, HandsInv, Types', PoolCount, total' = total, idle' = idle,
           \A t \in Sessions : Len(held'[t]) = Len(held[t]),
           \A t \in Sessions : pc'[t] = "connect" <=> pc[t] = "connect"
    PROVE  PoolCount'
  <1>1. held \in Hands /\ held' \in Hands
    BY DEF Types, Hands
  <1>2. Borrowed' = Borrowed
    BY <1>1, PlacesSame DEF Borrowed, Places
  <1>3. Connecting' = Connecting
    BY DEF Connecting
  <1> QED
    BY <1>2, <1>3 DEF PoolCount

\* s takes an idle connection.
LEMMA PoolTakes ==
    ASSUME Types, HandsInv, Types', HandsInv', PoolCount, NEW s \in Sessions,
           idle # << >>, idle' = Tail(idle), Takes(s, Head(idle)), total' = total,
           pc[s] # "connect"
    PROVE  PoolCount'
  <1>1. Countable /\ Countable'
    BY PoolFinite, PoolFiniteNext
  <1>2. Len(idle') = Len(idle) - 1 /\ Head(idle) \in Conn
    BY DEF Types
  <1>3. Len(held'[s]) = Len(held[s]) + 1
    <2>1. held[s] \in Seq(Conn) /\ held'[s] = Append(held[s], Head(idle))
      BY DEF Takes, Types
    <2> QED
      BY <1>2, <2>1
  <1>4. \A t \in Sessions : t # s => Len(held'[t]) = Len(held[t])
    BY DEF Takes, Types
  <1>5. Cardinality(Places(held')) = Cardinality(Places(held)) + 1
    BY <1>1, <1>3, <1>4, PlacesMore DEF Countable
  <1>6. Connecting' = Connecting
    BY DEF Connecting, Takes, Types
  <1> QED
    BY <1>1, <1>2, <1>5, <1>6 DEF PoolCount, Countable

\* A connection that goes back is put away, handed over or counted out.
LEMMA PoolBack ==
    ASSUME Types, HandsInv, WaitersInv, Types', HandsInv', PoolCount,
           NEW s \in Sessions, NEW inv \in BOOLEAN,
           NEW l \in PC \ {"connect"}, pc[s] \notin {"wait", "connect"},
           GiveBack(s, inv, l)
    PROVE  PoolCount'
  <1>1. Countable /\ Countable'
    BY PoolFinite, PoolFiniteNext
  <1>2. held[s] \in Seq(Conn) /\ Len(held[s]) \in Nat
    BY DEF Types
  <1>3. held[s] # << >> => /\ Len(Tail(held[s])) = Len(held[s]) - 1
                           /\ Head(held[s]) \in Conn
    BY <1>2
  <1>4. MaxPool \in Nat
    BY ProxyAssumption
  <1>5. \A t \in Sessions : t # s =>
             \/ pc'[t] = pc[t] /\ held'[t] = held[t]
             \/ pc[t] = "wait" /\ pc'[t] = "forward"
    BY GiveBackHands
  <1>6. pc'[s] = l
    BY GiveBackHands
  <1>7. Connecting' = Connecting
    BY <1>5, <1>6 DEF Connecting
  <1>8. CASE NothingBack(s, l)
    <2>1. Borrowed' = Borrowed
      BY <1>8 DEF NothingBack, Borrowed
    <2> QED
      BY <1>7, <1>8, <2>1 DEF NothingBack, PoolCount
  <1>9. ASSUME held[s] # << >>, LosesFirst(s)
        PROVE  Cardinality(Places(held')) = Cardinality(Places(held)) - 1
    <2>1. Len(held'[s]) = Len(held[s]) - 1
      BY <1>3, <1>9 DEF LosesFirst, Types
    <2>2. \A t \in Sessions : t # s => Len(held'[t]) = Len(held[t])
      BY <1>9 DEF LosesFirst, Types
    <2> QED
      BY <1>1, <2>1, <2>2, PlacesLess DEF Countable
  <1>10. CASE CountedOut(s, l)
    BY <1>1, <1>4, <1>7, <1>9, <1>10 DEF CountedOut, PoolCount, Countable
  <1>11. CASE PutBack(s, l)
    <2>1. Len(idle') = Len(idle) + 1
      BY <1>3, <1>11 DEF PutBack, Types
    <2> QED
      BY <1>1, <1>7, <1>9, <1>11, <2>1 DEF PutBack, PoolCount, Countable
  <1>12. CASE \E w \in Sessions : HandedOver(s, w, l)
    <2>1. PICK w \in Sessions : HandedOver(s, w, l)
      BY <1>12
    <2>2. PICK g \in Hands : g = [held EXCEPT ![s] = Tail(@)]
      <3>1. Tail(held[s]) \in Seq(Conn)
        BY <1>2, <2>1 DEF HandedOver
      <3> QED
        BY <3>1 DEF Types, Hands
    <2>3. Len(g[s]) = Len(held[s]) - 1
      BY <1>3, <2>1, <2>2 DEF HandedOver, Types
    <2>4. \A t \in Sessions : t # s => Len(g[t]) = Len(held[t])
      BY <2>2 DEF Types
    <2>5. /\ IsFiniteSet(Places(g))
          /\ Cardinality(Places(g)) = Cardinality(Places(held)) - 1
      BY <1>1, <2>3, <2>4, PlacesLess DEF Countable
    <2>6. Len(held'[w]) = Len(g[w]) + 1
      <3>1. held[w] \in Seq(Conn) /\ held'[w] = Append(held[w], Head(held[s]))
            /\ g[w] = held[w]
        BY <2>1, <2>2 DEF HandedOver, Types
      <3> QED
        BY <1>3, <2>1, <3>1 DEF HandedOver
    <2>7. \A t \in Sessions : t # w => Len(held'[t]) = Len(g[t])
      BY <2>1, <2>2 DEF HandedOver, Types
    <2>8. Cardinality(Places(held')) = Cardinality(Places(g)) + 1
      BY <1>1, <2>5, <2>6, <2>7, PlacesMore DEF Countable
    <2>9. Cardinality(Places(held')) = Cardinality(Places(held))
      BY <1>1, <2>5, <2>8 DEF Countable
    <2> QED
      BY <1>1, <1>7, <2>1, <2>9 DEF HandedOver, PoolCount, Countable
  <1> QED
    BY <1>8, <1>10, <1>11, <1>12, GiveBackCases

\* m_total_connections stays exact.
LEMMA PoolStep ==
    Types /\ WaitersInv /\ HandsInv /\ PoolCount /\ [Next]_vars => PoolCount'
  <1> SUFFICES ASSUME Types, WaitersInv, HandsInv, PoolCount, [Next]_vars
               PROVE  PoolCount'
    OBVIOUS
  <1>0. Types' /\ HandsInv' /\ Countable /\ Countable'
    BY TypesStep, HandsStep, PoolFinite, PoolFiniteNext
  <1> USE <1>0 DEF serverVars, poolVars, connVars, requestVars, bufferVars
  <1>1. ASSUME NEW s \in Sessions, AcceptClient(s) PROVE PoolCount'
    <2>1. total' = total /\ idle' = idle
      BY <1>1 DEF AcceptClient
    <2>2. \A t \in Sessions : Len(held'[t]) = Len(held[t])
      BY <1>1 DEF AcceptClient, Types
    <2>3. \A t \in Sessions : pc'[t] = "connect" <=> pc[t] = "connect"
      BY <1>1 DEF AcceptClient, Types
    <2> QED
      BY <2>1, <2>2, <2>3, PoolSame
  <1>2. ASSUME NEW s \in Sessions, TryIdle(s) PROVE PoolCount'
    <2>1. CASE idle = << >>
      <3>1. /\ total' = total /\ idle' = idle /\ held' = held
            /\ pc' = [pc EXCEPT ![s] = "create"] /\ pc[s] = "acquire"
        BY <1>2, <2>1 DEF TryIdle
      <3>2. \A t \in Sessions : pc'[t] = "connect" <=> pc[t] = "connect"
        BY <3>1 DEF Types
      <3> QED
        BY <3>1, <3>2, PoolSame
    <2>2. CASE idle # << >>
      BY <1>2, <2>2, PoolTakes DEF TryIdle
    <2> QED
      BY <2>1, <2>2
  <1>3. ASSUME NEW s \in Sessions, CreateOrWait(s) PROVE PoolCount'
    <2>0. pc[s] = "create"
      BY <1>3 DEF CreateOrWait
    <2>1. CASE /\ total < MaxPool /\ total' = total + 1
               /\ pc' = [pc EXCEPT ![s] = "connect"] /\ UNCHANGED <<idle, waiters, held>>
      <3>1. s \notin Connecting /\ Connecting' = Connecting \cup {s}
        BY <2>0, <2>1 DEF Connecting, Types
      <3>2. Cardinality(Connecting') = Cardinality(Connecting) + 1
        BY <3>1, OneMore DEF Countable
      <3>3. Borrowed' = Borrowed
        BY <2>1 DEF Borrowed
      <3> QED
        BY <2>1, <3>2, <3>3, ProxyAssumption DEF PoolCount, Countable
    <2>2. CASE idle # << >> /\ idle' = Tail(idle) /\ Takes(s, Head(idle))
               /\ UNCHANGED <<total, waiters>>
      BY <2>0, <2>2, PoolTakes
    <2>3. CASE waiters' = Append(waiters, s) /\ pc' = [pc EXCEPT ![s] = "wait"]
               /\ UNCHANGED <<total, idle, held>>
      <3>1. \A t \in Sessions : pc'[t] = "connect" <=> pc[t] = "connect"
        BY <2>0, <2>3 DEF Types
      <3> QED
        BY <2>3, <3>1, PoolSame
    <2> QED
      BY <1>3, <2>1, <2>2, <2>3 DEF CreateOrWait
  <1>4. ASSUME NEW s \in Sessions, Connected(s) PROVE PoolCount'
    <2>1. Len(held'[s]) = Len(held[s]) + 1
      <3>1. held[s] \in Seq(Conn) /\ << >> \in Conn /\ held'[s] = Append(held[s], << >>)
        BY <1>4 DEF Connected, Takes, Types, Conn
      <3> QED
        BY <3>1
    <2>2. \A t \in Sessions : t # s => Len(held'[t]) = Len(held[t])
      BY <1>4 DEF Connected, Takes, Types
    <2>3. Cardinality(Places(held')) = Cardinality(Places(held)) + 1
      BY <2>1, <2>2, PlacesMore DEF Countable
    <2>4. s \in Connecting /\ Connecting' = Connecting \ {s}
      BY <1>4 DEF Connected, Takes, Connecting, Types
    <2>5. Cardinality(Connecting') = Cardinality(Connecting) - 1
      BY <2>4, OneLess DEF Countable
    <2> QED
      BY <1>4, <2>3, <2>5 DEF Connected, PoolCount, Countable
  <1>5. ASSUME NEW s \in Sessions, ConnectFails(s) PROVE PoolCount'
    <2>1. s \in Connecting /\ Connecting' = Connecting \ {s}
      BY <1>5 DEF ConnectFails, Connecting, Types
    <2>2. Cardinality(Connecting') = Cardinality(Connecting) - 1
      BY <2>1, OneLess DEF Countable
    <2>3. Borrowed' = Borrowed
      BY <1>5 DEF ConnectFails, Borrowed
    <2> QED
      BY <1>5, <2>2, <2>3, ProxyAssumption DEF ConnectFails, PoolCount, Countable
  <1>6. ASSUME NEW s \in Sessions, BeginForward(s) PROVE PoolCount'
    <2>0. pc[s] = "forward"
      BY <1>6 DEF BeginForward
    <2>1. CASE GiveBack(s, invalid[s], "write")
      <3>1. invalid[s] \in BOOLEAN /\ "write" \in PC \ {"connect"}
        BY DEF Types, PC, IoStates
      <3> QED
        BY <2>0, <2>1, <3>1, PoolBack
    <2>2. CASE pc' = [pc EXCEPT ![s] = "write"] /\ UNCHANGED <<poolVars, connVars>>
      <3>1. \A t \in Sessions : pc'[t] = "connect" <=> pc[t] = "connect"
        BY <2>0, <2>2 DEF Types
      <3> QED
        BY <2>2, <3>1, PoolSame
    <2> QED
      BY <1>6, <2>1, <2>2 DEF BeginForward
  <1>7. ASSUME NEW s \in Sessions, ReadRequest(s) PROVE PoolCount'
    <2>1. total' = total /\ idle' = idle
      BY <1>7 DEF ReadRequest
    <2>2. \A t \in Sessions : Len(held'[t]) = Len(held[t])
      BY <1>7 DEF ReadRequest, Types
    <2>3. \A t \in Sessions : pc'[t] = "connect" <=> pc[t] = "connect"
      BY <1>7 DEF ReadRequest, Types
    <2> QED
      BY <2>1, <2>2, <2>3, PoolSame
  <1>8. ASSUME NEW s \in Sessions, ReadEnds(s) PROVE PoolCount'
    <2>1. total' = total /\ idle' = idle
      BY <1>8 DEF ReadEnds
    <2>2. \A t \in Sessions : Len(held'[t]) = Len(held[t])
      BY <1>8 DEF ReadEnds, Types
    <2>3. \A t \in Sessions : pc'[t] = "connect" <=> pc[t] = "connect"
      BY <1>8 DEF ReadEnds, Types
    <2> QED
      BY <2>1, <2>2, <2>3, PoolSame
  <1>9. ASSUME NEW s \in Sessions, WriteRequest(s) PROVE PoolCount'
    <2>1. total' = total /\ idle' = idle
      BY <1>9 DEF WriteRequest
    <2>2. \A t \in Sessions : t # s => held'[t] = held[t]
      BY <1>9 DEF WriteRequest, Types
    <2>3. Len(held[s]) = 1 /\ Len(held'[s]) = 1
      BY <1>9 DEF WriteRequest, Types, HandsInv
    <2>4. \A t \in Sessions : Len(held'[t]) = Len(held[t])
      BY <2>2, <2>3
    <2>5. \A t \in Sessions : pc'[t] = "connect" <=> pc[t] = "connect"
      BY <1>9 DEF WriteRequest, Types
    <2> QED
      BY <2>1, <2>4, <2>5, PoolSame
  <1>9a. ASSUME NEW s \in Sessions, LinkedRecv(s) PROVE PoolCount'
    <2>1. total' = total /\ idle' = idle
      BY <1>9a DEF LinkedRecv
    <2>2. \A t \in Sessions : Len(held'[t]) = Len(held[t])
      BY <1>9a DEF LinkedRecv
    <2>3. \A t \in Sessions : pc'[t] = "connect" <=> pc[t] = "connect"
      BY <1>9a DEF LinkedRecv, Types
    <2> QED
      BY <2>1, <2>2, <2>3, PoolSame
  <1>10. ASSUME NEW s \in Sessions, ReadResponse(s) PROVE PoolCount'
    <2>1. total' = total /\ idle' = idle
      BY <1>10 DEF ReadResponse
    <2>2. \A t \in Sessions : t # s => held'[t] = held[t]
      BY <1>10 DEF ReadResponse, Types
    <2>3. Len(held[s]) = 1 /\ Len(held'[s]) = 1
      BY <1>10 DEF ReadResponse, Types, HandsInv
    <2>4. \A t \in Sessions : Len(held'[t]) = Len(held[t])
      BY <2>2, <2>3
    <2>5. \A t \in Sessions : pc'[t] = "connect" <=> pc[t] = "connect"
      BY <1>10 DEF ReadResponse, Types
    <2> QED
      BY <2>1, <2>4, <2>5, PoolSame
  <1>11. ASSUME NEW s \in Sessions, BackendFails(s) PROVE PoolCount'
    <2>1. total' = total /\ idle' = idle
      BY <1>11 DEF BackendFails
    <2>2. \A t \in Sessions : Len(held'[t]) = Len(held[t])
      BY <1>11 DEF BackendFails, Types
    <2>3. \A t \in Sessions : pc'[t] = "connect" <=> pc[t] = "connect"
      BY <1>11 DEF BackendFails, Types
    <2> QED
      BY <2>1, <2>2, <2>3, PoolSame
  <1>12. ASSUME NEW s \in Sessions, ClientFails(s) PROVE PoolCount'
    <2>1. total' = total /\ idle' = idle
      BY <1>12 DEF ClientFails
    <2>2. \A t \in Sessions : Len(held'[t]) = Len(held[t])
      BY <1>12 DEF ClientFails, Types
    <2>3. \A t \in Sessions : pc'[t] = "connect" <=> pc[t] = "connect"
      BY <1>12 DEF ClientFails, Types
    <2> QED
      BY <2>1, <2>2, <2>3, PoolSame
  <1>13. ASSUME NEW s \in Sessions, Retry(s) PROVE PoolCount'
    <2>1. total' = total /\ idle' = idle
      BY <1>13 DEF Retry
    <2>2. \A t \in Sessions : Len(held'[t]) = Len(held[t])
      BY <1>13 DEF Retry, Types
    <2>3. \A t \in Sessions : pc'[t] = "connect" <=> pc[t] = "connect"
      BY <1>13 DEF Retry, Types
    <2> QED
      BY <2>1, <2>2, <2>3, PoolSame
  <1>14. ASSUME NEW s \in Sessions, RelayResponse(s) PROVE PoolCount'
    <2>1. PICK l \in AfterReply : GiveBack(s, invalid[s] \/ ~keepalive[s], l)
      BY <1>14 DEF RelayResponse
    <2>2. (invalid[s] \/ ~keepalive[s]) \in BOOLEAN /\ pc[s] = "relay"
      BY <1>14 DEF RelayResponse
    <2>3. l \in PC \ {"connect"}
      BY <2>1 DEF AfterReply, PC, IoStates
    <2> QED
      BY <2>1, <2>2, <2>3, PoolBack
  <1>15. ASSUME NEW s \in Sessions, Close(s) PROVE PoolCount'
    <2>1. /\ invalid[s] \in BOOLEAN /\ "none" \in PC \ {"connect"} /\ pc[s] = "close"
          /\ GiveBack(s, invalid[s], "none")
      BY <1>15 DEF Types, PC, Close
    <2> QED
      BY <2>1, PoolBack
  <1>16. ASSUME NEW s \in Sessions, BackOff(s) PROVE PoolCount'
    <2>1. total' = total /\ idle' = idle
      BY <1>16 DEF BackOff
    <2>2. \A t \in Sessions : Len(held'[t]) = Len(held[t])
      BY <1>16 DEF BackOff, Types
    <2>3. \A t \in Sessions : pc'[t] = "connect" <=> pc[t] = "connect"
      BY <1>16 DEF BackOff, Types
    <2> QED
      BY <2>1, <2>2, <2>3, PoolSame
  <1>17. ASSUME NEW s \in Sessions, ReaderStartsOver(s) PROVE PoolCount'
    <2>1. total' = total /\ idle' = idle
      BY <1>17 DEF ReaderStartsOver
    <2>2. \A t \in Sessions : Len(held'[t]) = Len(held[t])
      BY <1>17 DEF ReaderStartsOver, Types
    <2>3. \A t \in Sessions : pc'[t] = "connect" <=> pc[t] = "connect"
      BY <1>17 DEF ReaderStartsOver, Types
    <2> QED
      BY <2>1, <2>2, <2>3, PoolSame
  <1>18. CASE Signal
    BY <1>18, PoolSame DEF Signal
  <1>19. CASE ServerReturns
    BY <1>19, PoolSame DEF ServerReturns
  <1>20. CASE UNCHANGED vars
    BY <1>20, PoolSame DEF vars
  <1> QED
    BY <1>1, <1>2, <1>3, <1>4, <1>5, <1>6, <1>7, <1>8, <1>9, <1>9a, <1>10, <1>11,
       <1>12, <1>13, <1>14, <1>15, <1>16, <1>17, <1>18, <1>19, <1>20 DEF Next, Step

-----------------------------------------------------------------------------
(* The counters of the gate and of the accept loop.                         *)

SessionStep(s) == AcceptClient(s) \/ Step(s) \/ BackOff(s) \/ ReaderStartsOver(s)

\* A step of s moves s, and at most a session that waits for a connection.
LEMMA OthersStay ==
    ASSUME Types, WaitersInv, NEW s \in Sessions, SessionStep(s)
    PROVE  \A t \in Sessions : t # s =>
               pc'[t] = pc[t] \/ (pc[t] = "wait" /\ pc'[t] = "forward")
  <1> SUFFICES ASSUME NEW t \in Sessions, t # s
               PROVE  pc'[t] = pc[t] \/ (pc[t] = "wait" /\ pc'[t] = "forward")
    OBVIOUS
  <1>1. ASSUME NEW l, Moves(s, l) PROVE pc'[t] = pc[t]
    BY <1>1 DEF Moves, Types
  <1>2. ASSUME NEW inv \in BOOLEAN, NEW l \in PC, GiveBack(s, inv, l), pc[s] # "wait"
        PROVE  pc'[t] = pc[t] \/ (pc[t] = "wait" /\ pc'[t] = "forward")
    BY <1>2, GiveBackHands
  <1>3. CASE AcceptClient(s)
    BY <1>3 DEF AcceptClient, Types
  <1>4. CASE TryIdle(s) \/ CreateOrWait(s)
    BY <1>4 DEF TryIdle, CreateOrWait, Takes, Types
  <1>5. CASE Connected(s) \/ ConnectFails(s)
    BY <1>5 DEF Connected, ConnectFails, Takes, Types
  <1>6. CASE BeginForward(s)
    <2>1. invalid[s] \in BOOLEAN /\ "write" \in PC /\ pc[s] # "wait"
      BY <1>6 DEF Types, PC, IoStates, BeginForward
    <2>2. CASE GiveBack(s, invalid[s], "write")
      BY <1>2, <2>1, <2>2
    <2>3. CASE pc' = [pc EXCEPT ![s] = "write"]
      BY <2>3 DEF Types
    <2> QED
      BY <1>6, <2>2, <2>3 DEF BeginForward
  <1>7. CASE ReadRequest(s) \/ ReadEnds(s)
    BY <1>7 DEF ReadRequest, ReadEnds, Types
  <1>8. CASE WriteRequest(s) \/ LinkedRecv(s) \/ ReadResponse(s)
    BY <1>8 DEF WriteRequest, LinkedRecv, ReadResponse, Types
  <1>9. CASE BackendFails(s) \/ ClientFails(s)
    BY <1>9 DEF BackendFails, ClientFails, Types
  <1>10. CASE Retry(s)
    <2>1. Moves(s, IF attempt[s] = 1 THEN "acquire" ELSE "close")
      BY <1>10 DEF Retry, Moves
    <2> QED
      BY <1>1, <2>1
  <1>11. CASE RelayResponse(s)
    <2>1. PICK l \in AfterReply : GiveBack(s, invalid[s] \/ ~keepalive[s], l)
      BY <1>11 DEF RelayResponse
    <2>2. (invalid[s] \/ ~keepalive[s]) \in BOOLEAN /\ pc[s] # "wait"
      BY <1>11 DEF RelayResponse
    <2>3. l \in PC
      BY <2>1 DEF AfterReply, PC, IoStates
    <2> QED
      BY <1>2, <2>1, <2>2, <2>3
  <1>12. CASE Close(s)
    <2>1. invalid[s] \in BOOLEAN /\ "none" \in PC /\ pc[s] # "wait"
      BY <1>12 DEF Types, PC, Close
    <2>2. GiveBack(s, invalid[s], "none")
      BY <1>12 DEF Close
    <2> QED
      BY <1>2, <2>1, <2>2
  <1>13. CASE BackOff(s) \/ ReaderStartsOver(s)
    BY <1>13 DEF BackOff, ReaderStartsOver
  <1> QED
    BY <1>3, <1>4, <1>5, <1>6, <1>7, <1>8, <1>9, <1>10, <1>11, <1>12, <1>13
       DEF SessionStep, Step

GateCount ==
    /\ retries = Cardinality(BackingOff)
    /\ \A s \in Sessions : backing[s] => pc[s] \in IoStates

ActiveCount == active = Cardinality(Present)

\* BackingOff and Present are sets of sessions.
LEMMA CountersFinite ==
    /\ IsFiniteSet(BackingOff) /\ Cardinality(BackingOff) \in Nat
    /\ IsFiniteSet(Present) /\ Cardinality(Present) \in Nat
  BY SessionSets DEF BackingOff, Present

\* BackoffGate::retry_count stays exact.
LEMMA GateStep ==
    ASSUME Types, WaitersInv, GateCount, NEW s \in Sessions, SessionStep(s)
    PROVE  GateCount'
  <1> USE DEF serverVars, poolVars, connVars, requestVars, bufferVars
  <1>1. \A t \in Sessions : t # s =>
            pc'[t] = pc[t] \/ (pc[t] = "wait" /\ pc'[t] = "forward")
    BY OthersStay
  <1>2. \A t \in Sessions : backing[t] => pc[t] # "wait"
    BY DEF GateCount, IoStates
  <1>3. CASE Unregister(s)
    <2>1. backing' = [backing EXCEPT ![s] = FALSE]
      BY <1>3 DEF Unregister
    <2>2. \A t \in Sessions : backing'[t] => t # s /\ backing[t]
      BY <2>1 DEF Types
    <2>3. \A t \in Sessions : backing'[t] => pc'[t] \in IoStates
      BY <1>1, <1>2, <2>2 DEF GateCount
    <2>4. CASE backing[s]
      <3>1. s \in BackingOff /\ BackingOff' = BackingOff \ {s}
        BY <2>1, <2>4 DEF BackingOff, Types
      <3>2. Cardinality(BackingOff') = Cardinality(BackingOff) - 1
        BY <3>1, CountersFinite, OneLess
      <3>3. retries' = retries - 1
        BY <1>3, <2>4 DEF Unregister
      <3> QED
        BY <2>3, <3>2, <3>3 DEF GateCount
    <2>5. CASE ~backing[s]
      <3>1. BackingOff' = BackingOff
        BY <2>1, <2>5 DEF BackingOff, Types
      <3>2. retries' = retries
        BY <1>3, <2>5 DEF Unregister
      <3> QED
        BY <2>3, <3>1, <3>2 DEF GateCount
    <2> QED
      BY <2>4, <2>5
  <1>4. CASE BackOff(s)
    <2>1. /\ backing' = [backing EXCEPT ![s] = TRUE] /\ ~backing[s] /\ pc' = pc
          /\ retries' = retries + 1 /\ pc[s] \in IoStates
      BY <1>4 DEF BackOff
    <2>2. s \notin BackingOff /\ BackingOff' = BackingOff \cup {s}
      BY <2>1 DEF BackingOff, Types
    <2>3. Cardinality(BackingOff') = Cardinality(BackingOff) + 1
      BY <2>2, CountersFinite, OneMore
    <2>4. \A t \in Sessions : backing'[t] => pc'[t] \in IoStates
      BY <2>1 DEF GateCount, Types
    <2> QED
      BY <2>1, <2>3, <2>4 DEF GateCount
  <1>5. CASE backing' = backing /\ retries' = retries /\ pc[s] \notin IoStates
    <2>1. BackingOff' = BackingOff
      BY <1>5 DEF BackingOff
    <2>2. ~backing[s]
      BY <1>5 DEF GateCount
    <2>3. \A t \in Sessions : backing'[t] => pc'[t] \in IoStates
      BY <1>1, <1>2, <1>5, <2>2 DEF GateCount
    <2> QED
      BY <1>5, <2>1, <2>3 DEF GateCount
  <1> HIDE DEF GateCount
  <1>6. CASE ReaderStartsOver(s) \/ ReadRequest(s) \/ ReadEnds(s) \/ WriteRequest(s)
    BY <1>3, <1>6 DEF ReaderStartsOver, ReadRequest, ReadEnds, WriteRequest
  <1>7. CASE ReadResponse(s) \/ BackendFails(s) \/ ClientFails(s) \/ RelayResponse(s)
    BY <1>3, <1>7 DEF ReadResponse, BackendFails, ClientFails, RelayResponse
  <1>8. CASE AcceptClient(s) \/ TryIdle(s) \/ CreateOrWait(s) \/ Connected(s)
    BY <1>5, <1>8 DEF AcceptClient, TryIdle, CreateOrWait, Connected, IoStates
  <1>9. CASE ConnectFails(s) \/ BeginForward(s) \/ LinkedRecv(s) \/ Retry(s) \/ Close(s)
    BY <1>5, <1>9 DEF ConnectFails, BeginForward, LinkedRecv, Retry, Close, IoStates
  <1> QED
    BY <1>4, <1>6, <1>7, <1>8, <1>9 DEF SessionStep, Step

\* active_conns stays exact.
LEMMA ActiveStep ==
    ASSUME Types, WaitersInv, ActiveCount, NEW s \in Sessions, SessionStep(s)
    PROVE  ActiveCount'
  <1> USE DEF serverVars, poolVars, connVars, requestVars, bufferVars
  <1>1. \A t \in Sessions : t # s => (pc'[t] = "none" <=> pc[t] = "none")
    BY OthersStay
  <1>2. CASE AcceptClient(s)
    <2>1. pc[s] = "none" /\ pc'[s] # "none" /\ active' = active + 1
      BY <1>2 DEF AcceptClient, Types
    <2>2. s \notin Present /\ Present' = Present \cup {s}
      BY <1>1, <2>1 DEF Present
    <2> QED
      BY <2>1, <2>2, CountersFinite, OneMore DEF ActiveCount
  <1>3. CASE Close(s)
    <2>1. invalid[s] \in BOOLEAN /\ "none" \in PC /\ pc[s] = "close"
      BY <1>3 DEF Types, PC, Close
    <2>2. pc'[s] = "none" /\ active' = active - 1
      BY <1>3, <2>1, GiveBackHands DEF Close
    <2>3. s \in Present /\ Present' = Present \ {s}
      BY <1>1, <2>1, <2>2 DEF Present
    <2> QED
      BY <2>2, <2>3, CountersFinite, OneLess DEF ActiveCount
  <1>4. CASE active' = active /\ pc[s] # "none" /\ pc'[s] # "none"
    <2>1. Present' = Present
      BY <1>1, <1>4 DEF Present
    <2> QED
      BY <1>4, <2>1 DEF ActiveCount
  <1> HIDE DEF ActiveCount
  <1>5. CASE TryIdle(s) \/ CreateOrWait(s)
    BY <1>4, <1>5 DEF TryIdle, CreateOrWait, Takes, Types
  <1>6. CASE Connected(s) \/ ConnectFails(s)
    BY <1>4, <1>6 DEF Connected, ConnectFails, Takes, Types
  <1>7. CASE BeginForward(s)
    <2>1. invalid[s] \in BOOLEAN /\ "write" \in PC /\ pc[s] = "forward"
      BY <1>7 DEF Types, PC, IoStates, BeginForward
    <2>2. CASE GiveBack(s, invalid[s], "write")
      <3>1. pc'[s] = "write"
        BY <2>1, <2>2, GiveBackHands
      <3> QED
        BY <1>4, <1>7, <2>1, <3>1 DEF BeginForward
    <2>3. CASE pc' = [pc EXCEPT ![s] = "write"]
      BY <1>4, <1>7, <2>1, <2>3 DEF BeginForward, Types
    <2> QED
      BY <1>7, <2>2, <2>3 DEF BeginForward
  <1>8. CASE ReadRequest(s) \/ ReadEnds(s) \/ WriteRequest(s)
    BY <1>4, <1>8 DEF ReadRequest, ReadEnds, WriteRequest, Types
  <1>9. CASE LinkedRecv(s) \/ ReadResponse(s) \/ BackendFails(s) \/ ClientFails(s)
    BY <1>4, <1>9 DEF LinkedRecv, ReadResponse, BackendFails, ClientFails, Types
  <1>10. CASE Retry(s)
    BY <1>4, <1>10 DEF Retry, Types
  <1>11. CASE RelayResponse(s)
    <2>1. PICK l \in AfterReply : GiveBack(s, invalid[s] \/ ~keepalive[s], l)
      BY <1>11 DEF RelayResponse
    <2>2. (invalid[s] \/ ~keepalive[s]) \in BOOLEAN /\ pc[s] = "relay"
      BY <1>11 DEF RelayResponse
    <2>3. l \in PC /\ l # "none"
      BY <2>1 DEF AfterReply, PC, IoStates
    <2>4. pc'[s] = l
      BY <2>1, <2>2, <2>3, GiveBackHands
    <2> QED
      BY <1>4, <1>11, <2>2, <2>3, <2>4 DEF RelayResponse
  <1>12. CASE BackOff(s) \/ ReaderStartsOver(s)
    BY <1>4, <1>12 DEF BackOff, ReaderStartsOver, IoStates
  <1> QED
    BY <1>2, <1>3, <1>5, <1>6, <1>7, <1>8, <1>9, <1>10, <1>11, <1>12
       DEF SessionStep, Step

-----------------------------------------------------------------------------
(* The theorems about the counters.                                         *)

\* CountersAreExact in those terms.
LEMMA CountersAre == CountersAreExact <=> PoolCount /\ GateCount /\ ActiveCount
  BY DEF CountersAreExact, PoolCount, GateCount, ActiveCount, Connecting,
     BackingOff, Present

\* Nothing is borrowed when the proxy starts.
LEMMA InitIInv == Init => IInv
  <1> SUFFICES ASSUME Init PROVE IInv
    OBVIOUS
  <1>1. Types
    BY InitTypes
  <1>2. HandsInv
    BY DEF Init, HandsInv, Acquiring
  <1>3. WaitersInv
    BY DEF Init, WaitersInv
  <1>4. BackingOff = {} /\ Present = {} /\ Connecting = {}
    BY DEF Init, BackingOff, Present, Connecting
  <1>5. Borrowed = {}
    <2>1. \A s \in Sessions : {s} \X DOMAIN held[s] = {}
      <3> SUFFICES ASSUME NEW s \in Sessions PROVE DOMAIN held[s] = {}
        OBVIOUS
      <3>1. held[s] = << >>
        BY DEF Init
      <3> QED
        BY <3>1
    <2> QED
      BY <2>1 DEF Borrowed
  <1>6. Cardinality({}) = 0
    BY FS_EmptySet
  <1>7. PoolCount
    <2>1. PICK n \in 0..Warm : total = n /\ idle = [i \in 1..n |-> << >>]
      BY DEF Init
    <2>2. n \in Nat /\ n <= MaxPool
      BY ProxyAssumption
    <2>3. Len(idle) = n
      BY <2>1, <2>2
    <2> QED
      BY <1>4, <1>5, <1>6, <2>1, <2>2, <2>3 DEF PoolCount
  <1>8. GateCount /\ ActiveCount
    BY <1>4, <1>6 DEF Init, GateCount, ActiveCount
  <1> QED
    BY <1>1, <1>2, <1>3, <1>7, <1>8, CountersAre DEF IInv

\* The invariant is inductive.
LEMMA StepIInv == IInv /\ [Next]_vars => IInv'
  <1> SUFFICES ASSUME IInv, [Next]_vars PROVE IInv'
    OBVIOUS
  <1>1. Types /\ WaitersInv /\ HandsInv /\ PoolCount /\ GateCount /\ ActiveCount
    BY CountersAre DEF IInv
  <1>2. Types' /\ HandsInv' /\ WaitersInv' /\ PoolCount'
    BY <1>1, TypesStep, HandsStep, PoolStep
  <1>3. GateCount' /\ ActiveCount'
    <2>1. ASSUME NEW s \in Sessions, SessionStep(s) PROVE GateCount' /\ ActiveCount'
      BY <1>1, <2>1, GateStep, ActiveStep
    <2>2. CASE UNCHANGED <<retries, backing, pc, active>>
      BY <1>1, <2>2 DEF GateCount, ActiveCount, BackingOff, Present
    <2>3. CASE Signal \/ ServerReturns \/ UNCHANGED vars
      BY <2>2, <2>3 DEF Signal, ServerReturns, vars, serverVars
    <2> QED
      BY <2>1, <2>3 DEF Next, SessionStep
  <1>4. CountersAreExact'
    BY <1>2, <1>3, CountersAre, PTL
  <1> QED
    BY <1>2, <1>4 DEF IInv

\* Hands, waiting readers and counters support each other.
THEOREM InvariantHolds == Spec => []IInv
  BY InitIInv, StepIInv, PTL DEF Spec

\* The pool neither leaks a connection nor exceeds max_connections, whatever
\* fails, retries or ends; the gate and the accept loop count exactly.
THEOREM CountersStayExact == Spec => []CountersAreExact
  <1>1. IInv => CountersAreExact
    BY DEF IInv
  <1> QED
    BY InvariantHolds, <1>1, PTL

\* The proxy's variables stay in their types: no counter goes below zero or above
\* the number of sessions, and the pool never above max_connections.
THEOREM TypeCorrect == Spec => []TypeOK
  <1>1. IInv => TypeOK
    <2> SUFFICES ASSUME IInv PROVE TypeOK
      OBVIOUS
    <2>1. Types /\ PoolCount /\ GateCount /\ ActiveCount /\ HandsInv
      BY CountersAre DEF IInv
    <2>2. active \in 0..Cardinality(Sessions) /\ retries \in 0..Cardinality(Sessions)
      <3>1. BackingOff \in SUBSET Sessions /\ Present \in SUBSET Sessions
        BY DEF BackingOff, Present
      <3> QED
        BY <2>1, <3>1, SessionSets DEF GateCount, ActiveCount
    <2>3. total \in 0..MaxPool
      <3>1. Cardinality(Borrowed) \in Nat /\ Cardinality(Connecting) \in Nat
        BY <2>1, PoolFinite DEF Countable, Borrowed, Places
      <3>2. Len(idle) \in Nat
        BY <2>1 DEF Types
      <3>3. total \in Nat /\ total <= MaxPool
        BY <2>1, <3>1, <3>2 DEF PoolCount
      <3> QED
        BY <3>3, ProxyAssumption
    <2> QED
      BY <2>1, <2>2, <2>3 DEF TypeOK, Types, PC
  <1> QED
    BY InvariantHolds, <1>1, PTL

-----------------------------------------------------------------------------
(* Who gets which response.                                                 *)

\* What a session knows of its connections: unless it has invalidated it, the
\* first one has no response to be read but the one it is reading, the second one
\* has none; nothing is left in its buffer, and what it has read answers its request.
CleanHands(s) ==
    /\ pc[s] \in {"none", "read", "write", "linked", "reply", "relay"} => ~invalid[s]
    /\ pc[s] \in Acquiring \cup {"forward"} /\ attempt[s] = 1 => ~invalid[s]
    /\ pc[s] \in {"linked", "reply"} => held[s][1] \in {<< >>, <<Request(s)>>}
    /\ pc[s] \notin {"linked", "reply"} /\ Len(held[s]) >= 1 =>
           invalid[s] \/ held[s][1] = << >>
    /\ Len(held[s]) = 2 => held[s][2] = << >>
    /\ buf[s] = << >>
    /\ response[s] # NoResponse => /\ pc[s] \in {"relay", "failed"}
                                   /\ response[s] = Request(s)

IdleClean == \A i \in DOMAIN idle : idle[i] = << >>

CleanInv == IdleClean /\ \A s \in Sessions : CleanHands(s)

\* Nothing of session t has changed.
Same(t) ==
    /\ pc'[t] = pc[t] /\ invalid'[t] = invalid[t] /\ attempt'[t] = attempt[t]
    /\ held'[t] = held[t] /\ response'[t] = response[t] /\ bit'[t] = bit[t]
    /\ buf'[t] = buf[t]

\* A session to which nothing happens stays clean.
LEMMA CleanSame ==
    ASSUME NEW t \in Sessions, CleanHands(t), Same(t)
    PROVE  CleanHands(t)'
  BY DEF CleanHands, Same, Request

\* A step that touches one session and leaves the idle connections alone.
LEMMA CleanOne ==
    ASSUME CleanInv, NEW s \in Sessions, IdleClean', CleanHands(s)',
           \A t \in Sessions : t # s => Same(t)
    PROVE  CleanInv'
  BY CleanSame DEF CleanInv

\* A session that gets a clean connection has it as its first or its second.
LEMMA CleanTaken ==
    ASSUME Types, HandsInv, NEW t \in Sessions, CleanHands(t), pc[t] \in Acquiring,
           pc'[t] = "forward", held'[t] = Append(held[t], << >>),
           invalid'[t] = invalid[t], attempt'[t] = attempt[t],
           response'[t] = response[t], bit'[t] = bit[t], buf'[t] = buf[t]
    PROVE  CleanHands(t)'
  <1>1. held[t] \in Seq(Conn) /\ << >> \in Conn /\ attempt[t] \in 1..2
    BY DEF Types, Conn
  <1>2. Len(held[t]) = attempt[t] - 1
    BY DEF HandsInv, Acquiring
  <1>3. response'[t] = NoResponse /\ buf'[t] = << >>
    BY DEF CleanHands, Acquiring
  <1>4. attempt'[t] = 1 => ~invalid'[t]
    BY DEF CleanHands, Acquiring
  <1>5. CASE Len(held[t]) = 0
    <2>1. Len(held'[t]) = 1 /\ held'[t][1] = << >>
      BY <1>1, <1>5, SeqFacts
    <2> QED
      BY <1>3, <1>4, <2>1 DEF CleanHands
  <1>6. CASE Len(held[t]) = 1
    <2>1. Len(held'[t]) = 2 /\ held'[t][1] = held[t][1] /\ held'[t][2] = << >>
      BY <1>1, <1>6, SeqFacts
    <2>2. invalid'[t] \/ held'[t][1] = << >>
      BY <1>6, <2>1 DEF CleanHands, Acquiring
    <2> QED
      BY <1>3, <1>4, <2>1, <2>2 DEF CleanHands
  <1> QED
    BY <1>1, <1>2, <1>5, <1>6

\* ~PooledConnection() with a connection that is clean or invalid: nothing but
\* clean connections go to m_idle and to its readers.  The session itself is left
\* with a clean connection if it had a second one, with none otherwise.
LEMMA GiveBackClean ==
    ASSUME Types, HandsInv, WaitersInv, CleanInv,
           NEW s \in Sessions, NEW inv \in BOOLEAN, NEW l \in PC,
           pc[s] \notin {"wait", "linked", "reply"}, invalid[s] => inv,
           GiveBack(s, inv, l), attempt' = attempt, bit' = bit,
           \A t \in Sessions : t # s => response'[t] = response[t] /\ buf'[t] = buf[t]
    PROVE  /\ IdleClean'
           /\ \A t \in Sessions : t # s => CleanHands(t)'
           /\ ~invalid'[s] /\ pc'[s] = l
           /\ Len(held'[s]) >= 1 => held'[s][1] = << >>
           /\ Len(held'[s]) # 2
  <1>1. /\ pc \in [Sessions -> PC] /\ held \in [Sessions -> Seq(Conn)]
        /\ invalid \in [Sessions -> BOOLEAN] /\ idle \in Seq(Conn)
        /\ attempt \in [Sessions -> 1..2]
    BY DEF Types
  <1>2. held[s] \in Seq(Conn) /\ Len(held[s]) \in Nat
    BY <1>1
  <1>3. invalid' = [invalid EXCEPT ![s] = FALSE]
    BY DEF GiveBack
  <1>4. ~invalid'[s] /\ \A t \in Sessions : t # s => invalid'[t] = invalid[t]
    BY <1>1, <1>3
  <1>5. held[s] # << >> => inv \/ Head(held[s]) = << >>
    <2> SUFFICES ASSUME held[s] # << >>, ~inv PROVE Head(held[s]) = << >>
      OBVIOUS
    <2>1. Len(held[s]) >= 1 /\ Head(held[s]) = held[s][1]
      BY <1>2, SeqFacts
    <2> QED
      BY <2>1 DEF CleanInv, CleanHands
  <1>6. Len(held[s]) \in {0, 1, 2}
    <2>1. attempt[s] \in 1..2 /\ pc[s] \in PC
      BY <1>1
    <2>2. CASE pc[s] \in Acquiring
      <3>1. Len(held[s]) = attempt[s] - 1
        BY <2>2 DEF HandsInv
      <3> QED
        BY <2>1, <3>1
    <2>3. CASE pc[s] = "forward"
      <3>1. Len(held[s]) = attempt[s]
        BY <2>3 DEF HandsInv
      <3> QED
        BY <2>1, <3>1
    <2>4. CASE pc[s] \notin Acquiring \cup {"forward"}
      BY <2>1, <2>4 DEF HandsInv, PC, IoStates, Acquiring
    <2> QED
      BY <2>2, <2>3, <2>4
  <1>7. CleanHands(s) /\ \A t \in Sessions : CleanHands(t)
    BY DEF CleanInv
  <1>8. ASSUME held[s] # << >>, held'[s] = Tail(held[s])
        PROVE  /\ Len(held'[s]) >= 1 => held'[s][1] = << >>
               /\ Len(held'[s]) # 2
    <2>1. Len(held[s]) \in {1, 2}
      BY <1>2, <1>6, <1>8, Emptiness
    <2>2. CASE Len(held[s]) = 1
      <3>1. Len(held'[s]) = 0
        BY <1>2, <1>8, <2>2, SeqFacts
      <3> QED
        BY <3>1
    <2>3. CASE Len(held[s]) = 2
      <3>1. Len(held'[s]) = 1 /\ held'[s][1] = held[s][2]
        BY <1>2, <1>8, <2>3, SeqFacts
      <3>2. held[s][2] = << >>
        BY <1>7, <2>3 DEF CleanHands
      <3> QED
        BY <3>1, <3>2
    <2> QED
      BY <2>1, <2>2, <2>3
  <1>9. ASSUME NEW t \in Sessions, t # s, pc'[t] = pc[t], held'[t] = held[t]
        PROVE  CleanHands(t)'
    <2>1. Same(t)
      BY <1>4, <1>9 DEF Same
    <2> QED
      BY <1>7, <2>1, CleanSame
  <1>10. CASE NothingBack(s, l)
    <2>1. pc' = [pc EXCEPT ![s] = l] /\ held' = held /\ idle' = idle
      BY <1>10 DEF NothingBack, Moves
    <2>2. pc'[s] = l /\ \A t \in Sessions : t # s => pc'[t] = pc[t] /\ held'[t] = held[t]
      BY <1>1, <2>1
    <2>3. Len(held'[s]) = 0
      BY <1>10 DEF NothingBack
    <2>4. IdleClean'
      BY <2>1 DEF IdleClean, CleanInv
    <2> QED
      BY <1>4, <1>9, <2>2, <2>3, <2>4
  <1>11. CASE CountedOut(s, l)
    <2>1. /\ pc' = [pc EXCEPT ![s] = l] /\ held' = [held EXCEPT ![s] = Tail(held[s])]
          /\ idle' = idle /\ held[s] # << >>
      BY <1>11 DEF CountedOut, Moves, LosesFirst
    <2>2. pc'[s] = l /\ \A t \in Sessions : t # s => pc'[t] = pc[t] /\ held'[t] = held[t]
      BY <1>1, <2>1
    <2>3. held'[s] = Tail(held[s])
      BY <1>1, <2>1
    <2>4. IdleClean'
      BY <2>1 DEF IdleClean, CleanInv
    <2> QED
      BY <1>4, <1>8, <1>9, <2>1, <2>2, <2>3, <2>4
  <1>12. CASE ~inv /\ PutBack(s, l)
    <2>1. /\ pc' = [pc EXCEPT ![s] = l] /\ held' = [held EXCEPT ![s] = Tail(held[s])]
          /\ idle' = Append(idle, Head(held[s])) /\ held[s] # << >>
      BY <1>12 DEF PutBack, Moves, LosesFirst
    <2>2. pc'[s] = l /\ \A t \in Sessions : t # s => pc'[t] = pc[t] /\ held'[t] = held[t]
      BY <1>1, <2>1
    <2>3. held'[s] = Tail(held[s])
      BY <1>1, <2>1
    <2>4. IdleClean'
      <3>1. idle' = Append(idle, << >>) /\ << >> \in Conn
        BY <1>5, <1>12, <2>1 DEF Conn
      <3>2. DOMAIN idle = 1..Len(idle)
        BY <1>1
      <3>3. \A i \in 1..Len(idle) : idle[i] = << >>
        BY <3>2 DEF CleanInv, IdleClean
      <3>4. \A i \in 1..(Len(idle) + 1) : Append(idle, << >>)[i] = << >>
        BY <1>1, <3>1, <3>3, SeqFacts
      <3>5. DOMAIN Append(idle, << >>) = 1..(Len(idle) + 1)
        BY <1>1, <3>1
      <3> QED
        BY <3>1, <3>4, <3>5 DEF IdleClean
    <2> QED
      BY <1>4, <1>8, <1>9, <2>1, <2>2, <2>3, <2>4
  <1>13. ASSUME ~inv, NEW w \in Sessions, HandedOver(s, w, l)
         PROVE  /\ IdleClean'
                /\ \A t \in Sessions : t # s => CleanHands(t)'
                /\ ~invalid'[s] /\ pc'[s] = l
                /\ Len(held'[s]) >= 1 => held'[s][1] = << >>
                /\ Len(held'[s]) # 2
    <2>1. /\ pc' = [pc EXCEPT ![s] = l, ![w] = "forward"] /\ w # s
          /\ held' = [held EXCEPT ![s] = Tail(held[s]), ![w] = Append(held[w], Head(held[s]))]
          /\ idle' = idle /\ held[s] # << >>
      BY <1>1, <1>13 DEF HandedOver
    <2>2. pc'[s] = l /\ held'[s] = Tail(held[s])
      BY <1>1, <2>1
    <2>3. \A t \in Sessions : t # s /\ t # w => pc'[t] = pc[t] /\ held'[t] = held[t]
      BY <1>1, <2>1
    <2>4. pc'[w] = "forward" /\ held'[w] = Append(held[w], << >>)
      BY <1>1, <1>5, <1>13, <2>1
    <2>5. pc[w] = "wait"
      <3>1. waiters \in Seq(Sessions) /\ waiters # << >> /\ w = Head(waiters)
        BY <1>13 DEF HandedOver, Types
      <3>2. 1 \in DOMAIN waiters /\ waiters[1] = w
        BY <3>1
      <3> QED
        BY <3>2 DEF WaitersInv
    <2>6. CleanHands(w)'
      BY <1>4, <1>7, <2>1, <2>4, <2>5, CleanTaken DEF Acquiring
    <2>7. IdleClean'
      BY <2>1 DEF IdleClean, CleanInv
    <2> QED
      BY <1>4, <1>8, <1>9, <2>1, <2>2, <2>3, <2>6, <2>7
  <1> QED
    BY <1>10, <1>11, <1>12, <1>13, GiveBackCases

\* No step makes a connection with an unread response available to another, while
\* every response is taken whole.
LEMMA CleanStep ==
    ASSUME Types, HandsInv, WaitersInv, CleanInv, short = 0, short' = 0, [Next]_vars
    PROVE  CleanInv'
  <1> USE DEF serverVars, poolVars, connVars, requestVars, bufferVars
  <1>1. /\ pc \in [Sessions -> PC] /\ held \in [Sessions -> Seq(Conn)]
        /\ invalid \in [Sessions -> BOOLEAN] /\ idle \in Seq(Conn)
        /\ attempt \in [Sessions -> 1..2] /\ bit \in [Sessions -> BOOLEAN]
        /\ response \in [Sessions -> Requests \cup {NoResponse}]
        /\ buf \in [Sessions -> Conn]
    BY DEF Types
  <1>2. IdleClean /\ \A s \in Sessions : CleanHands(s)
    BY DEF CleanInv
  <1>3. idle' = idle => IdleClean'
    BY <1>2 DEF IdleClean
  <1>4. UNCHANGED <<pc, held, invalid, attempt, bit, response, buf, idle>> => CleanInv'
    BY <1>2, <1>3, CleanSame DEF CleanInv, Same
  <1>5. ASSUME NEW s \in Sessions, AcceptClient(s) PROVE CleanInv'
    <2>1. \A t \in Sessions : t # s => Same(t)
      BY <1>1, <1>5 DEF AcceptClient, Same
    <2>2. CleanHands(s)'
      BY <1>1, <1>2, <1>5 DEF AcceptClient, CleanHands, Request, Acquiring
    <2> QED
      BY <1>3, <1>5, <2>1, <2>2, CleanOne DEF AcceptClient
  <1>6. ASSUME NEW s \in Sessions, ReadRequest(s) PROVE CleanInv'
    <2>1. \A t \in Sessions : t # s => Same(t)
      BY <1>1, <1>6 DEF ReadRequest, Same
    <2>2. /\ pc'[s] = "acquire" /\ held'[s] = held[s] /\ invalid'[s] = invalid[s]
          /\ response'[s] = response[s] /\ buf'[s] = buf[s] /\ pc[s] = "read"
      BY <1>1, <1>6 DEF ReadRequest
    <2>3. CleanHands(s)'
      BY <1>2, <2>2 DEF CleanHands
    <2> QED
      BY <1>3, <1>6, <2>1, <2>3, CleanOne DEF ReadRequest
  <1>7. ASSUME NEW s \in Sessions, ReadEnds(s) PROVE CleanInv'
    <2>1. \A t \in Sessions : t # s => Same(t)
      BY <1>1, <1>7 DEF ReadEnds, Same
    <2>2. /\ pc'[s] = "close" /\ held'[s] = held[s] /\ invalid'[s] = invalid[s]
          /\ response'[s] = response[s] /\ buf'[s] = buf[s] /\ pc[s] = "read"
      BY <1>1, <1>7 DEF ReadEnds
    <2>3. CleanHands(s)'
      BY <1>2, <2>2 DEF CleanHands, Acquiring
    <2> QED
      BY <1>3, <1>7, <2>1, <2>3, CleanOne DEF ReadEnds
  <1>8. ASSUME NEW s \in Sessions, WriteRequest(s) PROVE CleanInv'
    <2>1. \A t \in Sessions : t # s => Same(t)
      BY <1>1, <1>8 DEF WriteRequest, Same
    <2>2. PICK a \in Answers(s) : held'[s] = <<Head(held[s]) \o a>>
      BY <1>1, <1>8 DEF WriteRequest
    <2>3. /\ pc'[s] \in {"linked", "reply"} /\ invalid'[s] = invalid[s]
          /\ bit'[s] = bit[s] /\ response'[s] = response[s] /\ buf'[s] = buf[s]
          /\ pc[s] = "write"
      BY <1>1, <1>8 DEF WriteRequest
    <2>4. Len(held[s]) = 1 /\ held[s] \in Seq(Conn)
      BY <1>1, <2>3 DEF HandsInv
    <2>5. Head(held[s]) = << >>
      BY <1>2, <2>3, <2>4 DEF CleanHands
    <2>6. << >> \o a = a
      <3>1. a \in Seq({Request(s)})
        BY <2>2, AnswersAre
      <3> QED
        BY <3>1
    <2>7. held'[s] = <<a>>
      BY <2>2, <2>5, <2>6
    <2>8. held'[s][1] \in {<< >>, <<Request(s)>>} /\ Len(held'[s]) = 1
      <3>1. held'[s][1] = a /\ Len(held'[s]) = 1
        BY <2>7
      <3> QED
        BY <2>2, <3>1 DEF Answers
    <2>9. Request(s)' = Request(s)
      BY <2>3 DEF Request
    <2>10. CleanHands(s)'
      BY <1>2, <2>3, <2>8, <2>9 DEF CleanHands, Acquiring
    <2> QED
      BY <1>3, <1>8, <2>1, <2>10, CleanOne DEF WriteRequest
  <1>8a. ASSUME NEW s \in Sessions, LinkedRecv(s) PROVE CleanInv'
    <2>1. \A t \in Sessions : t # s => Same(t)
      BY <1>1, <1>8a DEF LinkedRecv, Same
    <2>2. /\ pc'[s] = "reply" /\ held'[s] = held[s] /\ invalid'[s] = invalid[s]
          /\ response'[s] = response[s] /\ buf'[s] = buf[s] /\ bit'[s] = bit[s]
          /\ pc[s] = "linked"
      BY <1>1, <1>8a DEF LinkedRecv
    <2>3. Request(s)' = Request(s)
      BY <2>2 DEF Request
    <2>4. CleanHands(s)'
      BY <1>2, <2>2, <2>3 DEF CleanHands, Acquiring
    <2> QED
      BY <1>3, <1>8a, <2>1, <2>4, CleanOne DEF LinkedRecv
  <1>9. ASSUME NEW s \in Sessions, ReadResponse(s) PROVE CleanInv'
    <2>1. \A t \in Sessions : t # s => Same(t)
      BY <1>1, <1>9 DEF ReadResponse, Same
    <2>2. pc'[s] = "relay" /\ invalid'[s] = invalid[s] /\ bit'[s] = bit[s] /\ pc[s] = "reply"
      BY <1>1, <1>9 DEF ReadResponse
    <2>3. Len(held[s]) = 1 /\ held[s] \in Seq(Conn)
      BY <1>1, <2>2 DEF HandsInv
    <2>4. Head(held[s]) \in {<< >>, <<Request(s)>>} /\ buf[s] = << >>
      BY <1>2, <2>2, <2>3 DEF CleanHands
    <2> DEFINE received == buf[s] \o Head(held[s])
    <2>5. received = <<Request(s)>>
      <3>1. << >> \o << >> = << >> /\ << >> \o <<Request(s)>> = <<Request(s)>>
        OBVIOUS
      <3>2. received # << >>
        BY <1>9 DEF ReadResponse
      <3> QED
        BY <2>4, <3>1, <3>2
    <2>6. PICK left \in Parse(received) : \E n \in 0..Len(left) :
            /\ short' = IF left = received THEN short + 1 ELSE short
            /\ buf'[s] = SubSeq(left, 1, n)
            /\ held'[s] = <<SubSeq(left, n + 1, Len(left))>>
      BY <1>1, <1>9 DEF ReadResponse
    <2>7. response'[s] = Head(received)
      BY <1>1, <1>9 DEF ReadResponse
    <2> HIDE DEF received
    <2>8. left = << >>
      <3>1. left # received
        BY <2>6
      <3>2. left = Tail(<<Request(s)>>)
        BY <2>5, <2>6, <3>1 DEF Parse
      <3> QED
        BY <3>2, Singleton
    <2>9. PICK n \in 0..Len(left) : /\ buf'[s] = SubSeq(left, 1, n)
                                    /\ held'[s] = <<SubSeq(left, n + 1, Len(left))>>
      BY <2>6
    <2>10. n = 0 /\ Len(left) = 0 /\ SubSeq(<< >>, 1, 0) = << >>
      BY <2>8, <2>9
    <2>11. buf'[s] = << >> /\ held'[s] = << << >> >>
      BY <2>8, <2>9, <2>10
    <2>12. response'[s] = Request(s)
      BY <2>5, <2>7
    <2>13. held'[s][1] = << >> /\ Len(held'[s]) = 1
      BY <2>11
    <2>14. Request(s)' = Request(s)
      BY <2>2 DEF Request
    <2>15. CleanHands(s)'
      BY <1>2, <2>2, <2>11, <2>12, <2>13, <2>14 DEF CleanHands, Acquiring
    <2> QED
      BY <1>3, <1>9, <2>1, <2>15, CleanOne DEF ReadResponse
  <1>10. ASSUME NEW s \in Sessions, BackendFails(s) PROVE CleanInv'
    <2>1. \A t \in Sessions : t # s => Same(t)
      BY <1>1, <1>10 DEF BackendFails, Same
    <2>2. /\ pc'[s] = "failed" /\ invalid'[s] = TRUE /\ held'[s] = held[s]
          /\ response'[s] = response[s] /\ buf'[s] = buf[s]
          /\ pc[s] \in {"write", "linked", "reply"}
      BY <1>1, <1>10 DEF BackendFails
    <2>3. Len(held'[s]) = 1
      BY <2>2 DEF HandsInv
    <2>4. CleanHands(s)'
      BY <1>2, <2>2, <2>3 DEF CleanHands, Acquiring
    <2> QED
      BY <1>3, <1>10, <2>1, <2>4, CleanOne DEF BackendFails
  <1>11. ASSUME NEW s \in Sessions, ClientFails(s) PROVE CleanInv'
    <2>1. \A t \in Sessions : t # s => Same(t)
      BY <1>1, <1>11 DEF ClientFails, Same
    <2>2. /\ pc'[s] = "failed" /\ invalid'[s] = invalid[s] /\ held'[s] = held[s]
          /\ response'[s] = response[s] /\ bit'[s] = bit[s] /\ pc[s] = "relay"
          /\ buf'[s] = buf[s]
      BY <1>1, <1>11 DEF ClientFails
    <2>3. Request(s)' = Request(s)
      BY <2>2 DEF Request
    <2>4. CleanHands(s)'
      BY <1>2, <2>2, <2>3 DEF CleanHands, Acquiring
    <2> QED
      BY <1>3, <1>11, <2>1, <2>4, CleanOne DEF ClientFails
  <1>12. ASSUME NEW s \in Sessions, Retry(s) PROVE CleanInv'
    <2>1. \A t \in Sessions : t # s => Same(t)
      BY <1>1, <1>12 DEF Retry, ResetBuffer, Same
    <2>2. /\ pc'[s] \in {"acquire", "close"} /\ invalid'[s] = invalid[s]
          /\ held'[s] = held[s] /\ attempt'[s] = 2 /\ response'[s] = NoResponse
          /\ buf'[s] = << >>
          /\ pc[s] = "failed"
      BY <1>1, <1>12 DEF Retry, ResetBuffer
    <2>3. CleanHands(s)'
      BY <1>2, <2>2 DEF CleanHands
    <2> QED
      BY <1>3, <1>12, <2>1, <2>3, CleanOne DEF Retry
  <1>13. ASSUME NEW s \in Sessions, NEW c, c = << >>, pc[s] \in Acquiring, Takes(s, c),
                IdleClean', UNCHANGED <<invalid, attempt, bit, response, buf>>
         PROVE  CleanInv'
    <2>1. held' = [held EXCEPT ![s] = Append(held[s], << >>)]
      BY <1>1, <1>13 DEF Takes
    <2>2. pc' = [pc EXCEPT ![s] = "forward"]
      BY <1>13 DEF Takes
    <2>3. \A t \in Sessions : t # s => Same(t)
      BY <1>1, <1>13, <2>1, <2>2 DEF Same
    <2>4. held'[s] = Append(held[s], << >>) /\ pc'[s] = "forward"
      BY <1>1, <2>1, <2>2
    <2>5. CleanHands(s)'
      BY <1>2, <1>13, <2>4, CleanTaken
    <2> QED
      BY <1>13, <2>3, <2>5, CleanOne
  <1>14. ASSUME idle # << >>, idle' = Tail(idle) PROVE Head(idle) = << >> /\ IdleClean'
    <2>1. Len(idle) \in Nat /\ Len(idle) >= 1 /\ Head(idle) = idle[1]
      BY <1>1, <1>14, SeqFacts
    <2>2. \A i \in 1..Len(idle) : idle[i] = << >>
      BY <1>1, <1>2 DEF IdleClean
    <2>3. DOMAIN Tail(idle) = 1..(Len(idle) - 1)
      BY <1>1, <1>14, SeqFacts
    <2>4. \A i \in 1..(Len(idle) - 1) : Tail(idle)[i] = idle[i + 1] /\ i + 1 \in 1..Len(idle)
      BY <1>1, <1>14, <2>1, SeqFacts
    <2>5. \A i \in DOMAIN Tail(idle) : Tail(idle)[i] = << >>
      BY <2>2, <2>3, <2>4
    <2> QED
      BY <1>14, <2>1, <2>2, <2>5 DEF IdleClean
  <1>15. ASSUME NEW s \in Sessions, NEW l, l \in {"create", "connect", "wait"},
                pc[s] \in {"acquire", "create"}, pc' = [pc EXCEPT ![s] = l],
                UNCHANGED <<held, invalid, attempt, bit, response, buf, idle>>
         PROVE  CleanInv'
    <2>1. \A t \in Sessions : t # s => Same(t)
      BY <1>1, <1>15 DEF Same
    <2>2. pc'[s] = l
      BY <1>1, <1>15
    <2>3. CleanHands(s)'
      BY <1>2, <1>15, <2>2 DEF CleanHands, Acquiring, Request
    <2> QED
      BY <1>3, <1>15, <2>1, <2>3, CleanOne
  <1>16. ASSUME NEW s \in Sessions, TryIdle(s) \/ CreateOrWait(s) PROVE CleanInv'
    <2>1. UNCHANGED <<invalid, attempt, bit, response, buf>> /\ pc[s] \in {"acquire", "create"}
      BY <1>16 DEF TryIdle, CreateOrWait
    <2>2. CASE idle # << >> /\ idle' = Tail(idle) /\ Takes(s, Head(idle))
      <3>1. Head(idle) = << >> /\ IdleClean'
        BY <1>14, <2>2
      <3>2. Takes(s, << >>) /\ pc[s] \in Acquiring
        BY <2>1, <2>2, <3>1 DEF Acquiring
      <3> QED
        BY <1>13, <2>1, <3>1, <3>2
    <2>3. CASE pc' = [pc EXCEPT ![s] = "create"] /\ UNCHANGED <<held, idle>>
      BY <1>15, <2>1, <2>3
    <2>4. CASE pc' = [pc EXCEPT ![s] = "connect"] /\ UNCHANGED <<held, idle>>
      BY <1>15, <2>1, <2>4
    <2>5. CASE pc' = [pc EXCEPT ![s] = "wait"] /\ UNCHANGED <<held, idle>>
      BY <1>15, <2>1, <2>5
    <2> QED
      BY <1>16, <2>2, <2>3, <2>4, <2>5 DEF TryIdle, CreateOrWait
  <1>17. ASSUME NEW s \in Sessions, Connected(s) PROVE CleanInv'
    <2>1. /\ UNCHANGED <<invalid, attempt, bit, response, buf>> /\ idle' = idle
          /\ Takes(s, << >>) /\ pc[s] = "connect"
      BY <1>17 DEF Connected
    <2>2. IdleClean' /\ pc[s] \in Acquiring
      BY <1>3, <2>1 DEF Acquiring
    <2> QED
      BY <1>13, <2>1, <2>2
  <1>18. ASSUME NEW s \in Sessions, ConnectFails(s) PROVE CleanInv'
    <2>1. \A t \in Sessions : t # s => Same(t)
      BY <1>1, <1>18 DEF ConnectFails, Same
    <2>2. /\ pc'[s] = "close" /\ held'[s] = held[s] /\ invalid'[s] = invalid[s]
          /\ response'[s] = response[s] /\ buf'[s] = buf[s] /\ pc[s] = "connect"
      BY <1>1, <1>18 DEF ConnectFails
    <2>3. CleanHands(s)'
      BY <1>2, <2>2 DEF CleanHands, Acquiring
    <2> QED
      BY <1>3, <1>18, <2>1, <2>3, CleanOne DEF ConnectFails
  <1>19. ASSUME NEW s \in Sessions, BeginForward(s) PROVE CleanInv'
    <2>1. /\ invalid[s] \in BOOLEAN /\ "write" \in PC /\ pc[s] = "forward"
          /\ UNCHANGED <<attempt, bit, response, buf>>
      BY <1>1, <1>19 DEF PC, IoStates, BeginForward
    <2>2. CASE GiveBack(s, invalid[s], "write")
      <3>1. /\ IdleClean' /\ \A t \in Sessions : t # s => CleanHands(t)'
            /\ ~invalid'[s] /\ pc'[s] = "write"
            /\ Len(held'[s]) >= 1 => held'[s][1] = << >>
            /\ Len(held'[s]) # 2
        BY <2>1, <2>2, GiveBackClean
      <3>2. response'[s] = NoResponse /\ buf'[s] = << >>
        BY <1>2, <2>1 DEF CleanHands
      <3>3. CleanHands(s)'
        BY <3>1, <3>2 DEF CleanHands
      <3> QED
        BY <3>1, <3>3 DEF CleanInv
    <2>3. CASE /\ Len(held[s]) = 1 /\ pc' = [pc EXCEPT ![s] = "write"]
               /\ UNCHANGED <<idle, held, invalid>>
      <3>1. \A t \in Sessions : t # s => Same(t)
        BY <1>1, <2>1, <2>3 DEF Same
      <3>2. ~invalid[s]
        <4>1. attempt[s] = 1
          BY <2>1, <2>3 DEF HandsInv
        <4> QED
          BY <1>2, <2>1, <4>1 DEF CleanHands
      <3>3. /\ pc'[s] = "write" /\ held'[s] = held[s] /\ ~invalid'[s]
            /\ response'[s] = response[s] /\ buf'[s] = buf[s]
        BY <1>1, <2>1, <2>3, <3>2
      <3>4. CleanHands(s)'
        BY <1>2, <2>1, <2>3, <3>2, <3>3 DEF CleanHands
      <3> QED
        BY <1>3, <2>3, <3>1, <3>4, CleanOne
    <2> QED
      BY <1>19, <2>2, <2>3 DEF BeginForward
  <1>20. ASSUME NEW s \in Sessions, RelayResponse(s) PROVE CleanInv'
    <2>1. PICK l \in AfterReply : GiveBack(s, invalid[s] \/ ~keepalive[s], l)
      BY <1>20 DEF RelayResponse
    <2> DEFINE inv == invalid[s] \/ ~keepalive[s]
    <2>2. inv \in BOOLEAN /\ (invalid[s] => inv) /\ GiveBack(s, inv, l)
      BY <2>1
    <2> HIDE DEF inv
    <2>3. pc[s] = "relay" /\ UNCHANGED <<attempt, bit>>
      BY <1>20 DEF RelayResponse
    <2>4. \A t \in Sessions : t # s => response'[t] = response[t] /\ buf'[t] = buf[t]
      BY <1>1, <1>20 DEF RelayResponse
    <2>5. response'[s] = NoResponse /\ buf'[s] = << >>
      BY <1>1, <1>2, <1>20 DEF RelayResponse, CleanHands
    <2>6. l \in {"read", "close"} /\ l \in PC
      BY <2>1 DEF AfterReply, PC, IoStates
    <2>7. /\ IdleClean' /\ \A t \in Sessions : t # s => CleanHands(t)'
          /\ ~invalid'[s] /\ pc'[s] = l
          /\ Len(held'[s]) >= 1 => held'[s][1] = << >>
          /\ Len(held'[s]) # 2
      BY <2>2, <2>3, <2>4, <2>6, GiveBackClean
    <2>8. CleanHands(s)'
      BY <2>5, <2>6, <2>7 DEF CleanHands
    <2> QED
      BY <2>7, <2>8 DEF CleanInv
  <1>21. ASSUME NEW s \in Sessions, Close(s) PROVE CleanInv'
    <2>1. /\ invalid[s] \in BOOLEAN /\ "none" \in PC /\ pc[s] = "close"
          /\ UNCHANGED <<attempt, bit>> /\ GiveBack(s, invalid[s], "none")
          /\ \A t \in Sessions : t # s => response'[t] = response[t] /\ buf'[t] = buf[t]
          /\ response'[s] = NoResponse /\ buf'[s] = << >>
      BY <1>1, <1>21 DEF PC, Close, ResetBuffer
    <2>2. /\ IdleClean' /\ \A t \in Sessions : t # s => CleanHands(t)'
          /\ ~invalid'[s] /\ pc'[s] = "none"
          /\ Len(held'[s]) >= 1 => held'[s][1] = << >>
          /\ Len(held'[s]) # 2
      BY <2>1, GiveBackClean
    <2>3. CleanHands(s)'
      BY <2>1, <2>2 DEF CleanHands
    <2> QED
      BY <2>2, <2>3 DEF CleanInv
  <1>22. ASSUME NEW s \in Sessions, BackOff(s) \/ ReaderStartsOver(s) PROVE CleanInv'
    BY <1>4, <1>22 DEF BackOff, ReaderStartsOver
  <1>23. CASE Signal \/ ServerReturns \/ UNCHANGED vars
    BY <1>4, <1>23 DEF Signal, ServerReturns, vars
  <1> QED
    BY <1>5, <1>6, <1>7, <1>8, <1>8a, <1>9, <1>10, <1>11, <1>12, <1>16, <1>17, <1>18,
       <1>19, <1>20, <1>21, <1>22, <1>23 DEF Next, Step

\* The history of responses taken in part only grows.
LEMMA ShortGrows == ASSUME Types, [Next]_vars, short' = 0 PROVE short = 0
  <1> USE DEF serverVars, poolVars, connVars, requestVars, bufferVars
  <1>1. short \in Nat
    BY DEF Types
  <1>2. CASE short' = short
    BY <1>2
  <1>3. ASSUME NEW s \in Sessions, ReadResponse(s) PROVE short = 0
    <2>1. short' = short \/ short' = short + 1
      BY <1>3 DEF ReadResponse
    <2> QED
      BY <1>1, <2>1
  <1>4. ASSUME NEW s \in Sessions, AcceptClient(s) \/ BackOff(s) \/ ReaderStartsOver(s)
        PROVE  short' = short
    BY <1>4 DEF AcceptClient, BackOff, ReaderStartsOver
  <1>5. ASSUME NEW s \in Sessions, \/ TryIdle(s) \/ CreateOrWait(s) \/ Connected(s)
                                   \/ ConnectFails(s) \/ BeginForward(s)
        PROVE  short' = short
    BY <1>5 DEF TryIdle, CreateOrWait, Connected, ConnectFails, BeginForward
  <1>6. ASSUME NEW s \in Sessions, \/ ReadRequest(s) \/ ReadEnds(s) \/ WriteRequest(s)
                                   \/ LinkedRecv(s) \/ BackendFails(s) \/ ClientFails(s)
        PROVE  short' = short
    BY <1>6 DEF ReadRequest, ReadEnds, WriteRequest, LinkedRecv, BackendFails, ClientFails
  <1>7. ASSUME NEW s \in Sessions, Retry(s) \/ RelayResponse(s) \/ Close(s)
        PROVE  short' = short
    BY <1>7 DEF Retry, RelayResponse, Close, ResetBuffer
  <1>8. CASE Signal \/ ServerReturns \/ UNCHANGED vars
    BY <1>8 DEF Signal, ServerReturns, vars
  <1> QED
    BY <1>2, <1>3, <1>4, <1>5, <1>6, <1>7, <1>8 DEF Next, Step

\* As long as parse() has taken every response whole, a client gets the response to
\* its own request and to no other, whatever fails and whoever retries.
THEOREM ResponsesAreRight == Spec => []RightResponse
  <1> DEFINE Clean == short = 0 => CleanInv
  <1>1. Init => Clean
    <2> SUFFICES ASSUME Init PROVE CleanInv
      OBVIOUS
    <2>1. PICK n \in 0..Warm : idle = [i \in 1..n |-> << >>]
      BY DEF Init
    <2>2. IdleClean
      BY <2>1 DEF IdleClean
    <2>3. ASSUME NEW s \in Sessions PROVE CleanHands(s)
      <3>1. /\ pc[s] = "none" /\ held[s] = << >> /\ ~invalid[s]
            /\ response[s] = NoResponse /\ buf[s] = << >>
        BY DEF Init
      <3>2. Len(held[s]) = 0
        BY <3>1
      <3> QED
        BY <3>1, <3>2 DEF CleanHands
    <2> QED
      BY <2>2, <2>3 DEF CleanInv
  <1>2. IInv /\ Clean /\ [Next]_vars => Clean'
    <2> SUFFICES ASSUME IInv, Clean, [Next]_vars, short' = 0 PROVE CleanInv'
      OBVIOUS
    <2>1. short = 0
      BY ShortGrows DEF IInv
    <2> QED
      BY <2>1, CleanStep DEF IInv
  <1>3. Clean => RightResponse
    BY DEF CleanInv, CleanHands, RightResponse
  <1> QED
    BY InvariantHolds, <1>1, <1>2, <1>3, PTL DEF Spec
=============================================================================
