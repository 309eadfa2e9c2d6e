----------------------------- MODULE HttpProxy ------------------------------
(***************************************************************************)
(* The HTTP reverse proxy (app/http-proxy/main.cc) on its connection pool  *)
(* (connection_pool.hpp): the accept loop, client sessions that borrow a   *)
(* backend connection per request and retry once on a second one, the gate *)
(* that counts the sessions backing off from a full io_uring, shutdown.    *)
(*                                                                         *)
(* A request is the session and one bit; a connection is the sequence of   *)
(* requests whose responses, or what is left of them, are still to be read *)
(* from it.  The channel of idle connections is the FIFO that module       *)
(* Channel implements: an element goes to the first waiting reader.        *)
(***************************************************************************)
EXTENDS Naturals, FiniteSets, Sequences

CONSTANTS Sessions,  \* clients that may be connected at the same time
          MaxPool,   \* max_connections of the pool
          MaxConns,  \* ULTRANET_PROXY_MAX_CONNS
          Warm,      \* min_connections: pre_warm() has tried to create them
          IdleCap,   \* the capacity of the channel of idle connections
          MaxShort   \* bound: responses that parse() ends too early

ASSUME ProxyAssumption == /\ IsFiniteSet(Sessions)
                          /\ MaxPool \in Nat \ {0}
                          /\ MaxConns \in Nat
                          /\ IdleCap \in Nat \ {0}
                          /\ Warm \in 0..MaxPool /\ Warm <= IdleCap
                          /\ MaxShort \in Nat

VARIABLES
    shutdown,    \* ShutdownCoordinator
    serving,     \* proxy_server() has not returned
    active,      \* active_conns
    retries,     \* BackoffGate::retry_count
    total,       \* m_total_connections
    idle,        \* m_idle: connections
    waiters,     \* m_idle: suspended readers
    pc,          \* [Sessions -> program counter of proxy_session()]
    attempt,     \* which forward_one() of the request
    held,        \* PooledConnection conn: a sequence of at most one connection
    invalid,     \* PooledConnection::m_invalid
    bit,         \* tells a session's successive requests apart
    response,    \* the request whose response is in backend_buf
    keepalive,   \* the response said keep-alive
    buf,         \* what is in backend_buf behind the response
    short,       \* history: how many responses parse() has ended too early
    backing      \* the session is in an ENOBUFS retry loop

poolVars == <<total, idle, waiters>>
serverVars == <<shutdown, serving, active>>
connVars == <<held, invalid>>
bufferVars == <<response, buf, short>>
requestVars == <<attempt, bit, keepalive, bufferVars>>
vars == <<serverVars, retries, poolVars, pc, connVars, requestVars, backing>>

\* The request of s that is being served.
Request(s) == <<s, bit[s]>>
Requests == Sessions \X BOOLEAN
Conn == Seq(Requests)
NoResponse == << >>

\* Where a session is in a loop that tries again after ENOBUFS.
IoStates == {"read", "write", "reply", "relay"}

\* Where a session awaits an operation that has no timeout: the write to the
\* backend, the recv linked to it (nor is that one submitted again after EINTR
\* or EAGAIN) and the write to the client.
Untimed == {"write", "linked", "relay"}

TypeOK ==
    /\ shutdown \in BOOLEAN /\ serving \in BOOLEAN
    /\ active \in 0..Cardinality(Sessions)
    /\ retries \in 0..Cardinality(Sessions)
    /\ total \in 0..MaxPool
    /\ idle \in Seq(Conn)
    /\ waiters \in Seq(Sessions)
    /\ pc \in [Sessions -> IoStates \cup {"none", "acquire", "create", "connect",
                                          "wait", "forward", "linked", "failed",
                                          "close"}]
    /\ attempt \in [Sessions -> 1..2]
    /\ held \in [Sessions -> Seq(Conn)]
    /\ invalid \in [Sessions -> BOOLEAN]
    /\ bit \in [Sessions -> BOOLEAN]
    /\ response \in [Sessions -> Requests \cup {NoResponse}]
    /\ keepalive \in [Sessions -> BOOLEAN]
    /\ buf \in [Sessions -> Conn]
    /\ short \in 0..MaxShort
    /\ backing \in [Sessions -> BOOLEAN]

Init ==
    /\ shutdown = FALSE /\ serving = TRUE /\ active = 0
    /\ retries = 0
    /\ \E n \in 0..Warm : total = n /\ idle = [i \in 1..n |-> << >>]
    /\ waiters = << >>
    /\ pc = [s \in Sessions |-> "none"]
    /\ attempt = [s \in Sessions |-> 1]
    /\ held = [s \in Sessions |-> << >>]
    /\ invalid = [s \in Sessions |-> FALSE]
    /\ bit = [s \in Sessions |-> FALSE]
    /\ response = [s \in Sessions |-> NoResponse]
    /\ keepalive = [s \in Sessions |-> FALSE]
    /\ buf = [s \in Sessions |-> << >>]
    /\ short = 0
    /\ backing = [s \in Sessions |-> FALSE]

-----------------------------------------------------------------------------
(* The accept loop. *)

\* Below max_conns: accept, count, submit a session.  An Accept under way at the
\* signal may still bring a client, whose session then ends at once.
AcceptClient(s) ==
    /\ serving /\ active < MaxConns
    /\ pc[s] = "none"
    /\ pc' = [pc EXCEPT ![s] = IF shutdown THEN "close" ELSE "read"]
    /\ active' = active + 1
    /\ UNCHANGED <<shutdown, serving, retries, poolVars, connVars, requestVars,
                   backing>>

\* SIGINT or SIGTERM
Signal ==
    /\ ~shutdown /\ shutdown' = TRUE
    /\ UNCHANGED <<serving, active, retries, poolVars, pc, connVars, requestVars,
                   backing>>

\* proxy_server() leaves its loop, on shutdown or an error of accept(), and returns,
\* with the pool, the gate and the counter in its frame.  What a session does to
\* them afterwards is undefined: the behaviours of the model end here.
ServerReturns ==
    /\ serving /\ serving' = FALSE
    /\ UNCHANGED <<shutdown, active, retries, poolVars, pc, connVars, requestVars,
                   backing>>

-----------------------------------------------------------------------------
(* The pool. *)

\* Mutant of GiveBack: release() does not hand the connection to a waiting reader.
WakeNobody(s, inv, l) ==
    LET any == held[s] # << >> IN
    /\ total' = IF any /\ inv THEN total - 1 ELSE total
    /\ idle' = IF any /\ ~inv THEN Append(idle, Head(held[s])) ELSE idle
    /\ pc' = [pc EXCEPT ![s] = l]
    /\ held' = [held EXCEPT ![s] = IF any THEN Tail(@) ELSE @]
    /\ invalid' = [invalid EXCEPT ![s] = FALSE]
    /\ UNCHANGED waiters

\* ~PooledConnection() or its assignment operator gives back the connection that
\* s acquired first: release() puts it where the first waiting reader gets it;
\* invalidate(), and release() when the channel is full, only count it out.
\* s goes on at l.
GiveBack(s, inv, l) ==
    LET any == held[s] # << >>
        woken == IF any /\ ~inv /\ waiters # << >> THEN {Head(waiters)} ELSE {}
        kept == any /\ ~inv /\ woken = {} /\ Len(idle) < IdleCap IN
    /\ total' = IF any /\ ~kept /\ woken = {} THEN total - 1 ELSE total
    /\ waiters' = IF woken # {} THEN Tail(waiters) ELSE waiters
    /\ idle' = IF kept THEN Append(idle, Head(held[s])) ELSE idle
    /\ pc' = [t \in Sessions |-> IF t = s THEN l
                                 ELSE IF t \in woken THEN "forward" ELSE pc[t]]
    /\ held' = [t \in Sessions |-> IF t = s /\ any THEN Tail(held[s])
                                   ELSE IF t \in woken THEN Append(held[t], Head(held[s]))
                                   ELSE held[t]]
    /\ invalid' = [invalid EXCEPT ![s] = FALSE]

\* A session that has its connection c goes on with it.
Takes(s, c) ==
    /\ pc' = [pc EXCEPT ![s] = "forward"]
    /\ held' = [held EXCEPT ![s] = Append(@, c)]

\* acquire(): an idle connection, if there is one ...
TryIdle(s) ==
    /\ serving /\ pc[s] = "acquire"
    /\ \/ /\ idle # << >>
          /\ idle' = Tail(idle)
          /\ Takes(s, Head(idle))
       \/ /\ idle = << >>
          /\ pc' = [pc EXCEPT ![s] = "create"]
          /\ UNCHANGED <<idle, held>>
    /\ UNCHANGED <<serverVars, retries, total, waiters, invalid, requestVars,
                   backing>>

\* ... a new one below max_connections, or read() of the channel.
CreateOrWait(s) ==
    /\ serving /\ pc[s] = "create"
    /\ \/ /\ total < MaxPool
          /\ total' = total + 1
          /\ pc' = [pc EXCEPT ![s] = "connect"]
          /\ UNCHANGED <<idle, waiters, held>>
       \/ /\ total >= MaxPool /\ idle # << >>
          /\ idle' = Tail(idle)
          /\ Takes(s, Head(idle))
          /\ UNCHANGED <<total, waiters>>
       \/ /\ total >= MaxPool /\ idle = << >>
          /\ waiters' = Append(waiters, s)
          /\ pc' = [pc EXCEPT ![s] = "wait"]
          /\ UNCHANGED <<total, idle, held>>
    /\ UNCHANGED <<serverVars, retries, invalid, requestVars, backing>>

Connected(s) ==
    /\ serving /\ pc[s] = "connect"
    /\ Takes(s, << >>)
    /\ UNCHANGED <<serverVars, retries, poolVars, invalid, requestVars, backing>>

\* Mutant of ConnectFails: the connection stays counted.
LeakOnConnectFailure(s) ==
    /\ serving /\ pc[s] = "connect"
    /\ pc' = [pc EXCEPT ![s] = "close"]
    /\ UNCHANGED <<serverVars, retries, poolVars, connVars, requestVars, backing>>

\* The connect fails, acquire() throws: the session ends.
ConnectFails(s) ==
    /\ serving /\ pc[s] = "connect"
    /\ total' = total - 1
    /\ pc' = [pc EXCEPT ![s] = "close"]
    /\ UNCHANGED <<serverVars, retries, idle, waiters, connVars, requestVars,
                   backing>>

\* The retry's connection replaces the first one, which goes back only now.
BeginForward(s) ==
    /\ serving /\ pc[s] = "forward"
    /\ \/ Len(held[s]) = 2 /\ GiveBack(s, invalid[s], "write")
       \/ /\ Len(held[s]) = 1
          /\ pc' = [pc EXCEPT ![s] = "write"]
          /\ UNCHANGED <<poolVars, connVars>>
    /\ UNCHANGED <<serverVars, retries, requestVars, backing>>

-----------------------------------------------------------------------------
(* ENOBUFS: register with the gate, sleep, try again. *)

BackOff(s) ==
    /\ serving /\ pc[s] \in IoStates /\ ~backing[s]
    /\ backing' = [backing EXCEPT ![s] = TRUE]
    /\ retries' = retries + 1
    /\ UNCHANGED <<serverVars, poolVars, pc, connVars, requestVars>>

\* RetryGuard: unregister on every way out of the retry loop.
Unregister(s) ==
    /\ backing' = [backing EXCEPT ![s] = FALSE]
    /\ retries' = IF backing[s] THEN retries - 1 ELSE retries

\* After MAX_ENOBUFS_RETRIES a reader starts over; a writer gives up below.
ReaderStartsOver(s) ==
    /\ serving /\ pc[s] \in {"read", "reply"} /\ backing[s]
    /\ Unregister(s)
    /\ UNCHANGED <<serverVars, poolVars, pc, connVars, requestVars>>

-----------------------------------------------------------------------------
(* proxy_session() *)

\* HttpRequest::parse() has found a request, and its body is there.
ReadRequest(s) ==
    /\ serving /\ pc[s] = "read"
    /\ pc' = [pc EXCEPT ![s] = "acquire"]
    /\ attempt' = [attempt EXCEPT ![s] = 1]
    /\ bit' = [bit EXCEPT ![s] = ~@]
    /\ Unregister(s)
    /\ UNCHANGED <<serverVars, poolVars, connVars, keepalive, bufferVars>>

\* End of file, a timeout, an error or too many bytes, or shutdown.
ReadEnds(s) ==
    /\ serving /\ pc[s] = "read"
    /\ pc' = [pc EXCEPT ![s] = "close"]
    /\ Unregister(s)
    /\ UNCHANGED <<serverVars, poolVars, connVars, requestVars>>

\* What the backend will send for the request: its response, or nothing.  Without
\* a failure it sends nothing when HttpRequest::parse() took the request to end at
\* a header line, and the backend waits for the rest of it.
Answers(s) == {<<Request(s)>>, << >>}

\* forward_one(): the request is written to the backend, by itself or linked with
\* the recv of the first bytes of the response ...
WriteRequest(s) ==
    /\ serving /\ pc[s] = "write"
    /\ \E a \in Answers(s) : held' = [held EXCEPT ![s] = <<Head(@) \o a>>]
    /\ \E l \in {"linked", "reply"} : pc' = [pc EXCEPT ![s] = l]
    /\ Unregister(s)
    /\ UNCHANGED <<serverVars, poolVars, invalid, requestVars>>

\* ... which completes with some of what the connection holds ...
LinkedRecv(s) ==
    /\ serving /\ pc[s] = "linked"
    /\ Head(held[s]) # << >>
    /\ pc' = [pc EXCEPT ![s] = "reply"]
    /\ UNCHANGED <<serverVars, retries, poolVars, connVars, requestVars, backing>>

\* What HttpResponse::parse() can leave of what is received.  It takes the first
\* response whole; or only a part of it, when the bytes so far end at a header line
\* before Content-Length, or there is no Content-Length.
Parse(received) == {Tail(received), received}

\* ... the response is read, and with it whether the connection may be kept.  Of
\* what is behind it the first n are in backend_buf, the others yet to be received.
ReadResponse(s) ==
    LET conn == Head(held[s])
        received == buf[s] \o conn IN
    /\ serving /\ pc[s] = "reply"
    /\ received # << >>
    /\ response' = [response EXCEPT ![s] = Head(received)]
    /\ \E left \in Parse(received) :
          /\ short' = IF left = received THEN short + 1 ELSE short
          /\ \E n \in 0..Len(left) :
                /\ n + Len(conn) >= Len(left)
                /\ buf' = [buf EXCEPT ![s] = SubSeq(left, 1, n)]
                /\ held' = [held EXCEPT ![s] = <<SubSeq(left, n + 1, Len(left))>>]
    /\ short' <= MaxShort
    /\ \E k \in BOOLEAN : keepalive' = [keepalive EXCEPT ![s] = k]
    /\ pc' = [pc EXCEPT ![s] = "relay"]
    /\ Unregister(s)
    /\ UNCHANGED <<serverVars, poolVars, invalid, attempt, bit>>

\* Mutant of BackendFails: the connection is not invalidated.
ReuseAfterFailure(s) ==
    /\ serving /\ pc[s] \in {"write", "linked", "reply"}
    /\ pc' = [pc EXCEPT ![s] = "failed"]
    /\ Unregister(s)
    /\ UNCHANGED <<serverVars, poolVars, connVars, requestVars>>

\* The backend fails or closes, the ring stays full for a write, the response is
\* too long, or (in "reply" only) the backend is too slow.  (A read of 0 bytes
\* looks at error() of a result that has none: whatever it finds there leads here,
\* at once or after another try.)
BackendFails(s) ==
    /\ serving /\ pc[s] \in {"write", "linked", "reply"}
    /\ invalid' = [invalid EXCEPT ![s] = TRUE]
    /\ pc' = [pc EXCEPT ![s] = "failed"]
    /\ Unregister(s)
    /\ UNCHANGED <<serverVars, poolVars, held, requestVars>>

\* The response cannot be written to the client: also a failed attempt.
ClientFails(s) ==
    /\ serving /\ pc[s] = "relay"
    /\ pc' = [pc EXCEPT ![s] = "failed"]
    /\ Unregister(s)
    /\ UNCHANGED <<serverVars, poolVars, connVars, requestVars>>

\* SlidingBuffer::reset() of backend_buf
ResetBuffer(s) ==
    /\ response' = [response EXCEPT ![s] = NoResponse]
    /\ buf' = [buf EXCEPT ![s] = << >>]
    /\ UNCHANGED short

\* Retry once: drop what was read, acquire a second connection while the first
\* is still held.  After the second attempt the session ends.
Retry(s) ==
    /\ serving /\ pc[s] = "failed"
    /\ ResetBuffer(s)
    /\ pc' = [pc EXCEPT ![s] = IF attempt[s] = 1 THEN "acquire" ELSE "close"]
    /\ attempt' = [attempt EXCEPT ![s] = 2]
    /\ UNCHANGED <<serverVars, retries, poolVars, connVars, bit, keepalive, backing>>

\* request_keepalive() and the loop's condition: another request is read, unless
\* the request said otherwise or the proxy is shutting down.
AfterReply == IF shutdown THEN {"close"} ELSE {"read", "close"}

\* The response is written to the client; a connection the backend will close is
\* not kept.  SlidingBuffer::consume() leaves what is behind the response.
RelayResponse(s) ==
    /\ serving /\ pc[s] = "relay"
    /\ \E l \in AfterReply : GiveBack(s, invalid[s] \/ ~keepalive[s], l)
    /\ response' = [response EXCEPT ![s] = NoResponse]
    /\ Unregister(s)
    /\ UNCHANGED <<serverVars, attempt, bit, keepalive, buf, short>>

\* safe_close(), ~PooledConnection(), ~ConnTracker(), and the buffers go.
Close(s) ==
    /\ serving /\ pc[s] = "close"
    /\ GiveBack(s, invalid[s], "none")
    /\ active' = active - 1
    /\ ResetBuffer(s)
    /\ UNCHANGED <<shutdown, serving, retries, attempt, bit, keepalive, backing>>

-----------------------------------------------------------------------------
Step(s) ==
    \/ TryIdle(s) \/ CreateOrWait(s) \/ Connected(s) \/ ConnectFails(s)
    \/ BeginForward(s) \/ ReadRequest(s) \/ ReadEnds(s) \/ WriteRequest(s)
    \/ LinkedRecv(s) \/ ReadResponse(s) \/ BackendFails(s) \/ ClientFails(s) \/ Retry(s)
    \/ RelayResponse(s) \/ Close(s)

Next == \/ \E s \in Sessions : AcceptClient(s) \/ Step(s) \/ BackOff(s)
                               \/ ReaderStartsOver(s)
        \/ Signal \/ ServerReturns

\* A coroutine that can run is run, a read from the client, a read of the rest of
\* a response and a connect complete or time out, and the ring does not stay full
\* for ever.  Nothing is assumed of the operations without a timeout.
Fairness == \A s \in Sessions : WF_vars(pc[s] \notin Untimed /\ Step(s))

Spec == Init /\ [][Next]_vars /\ Fairness

-----------------------------------------------------------------------------
(* Properties. *)

\* The connections in the hands of the sessions: who has one, and its place there.
Borrowed == UNION {{s} \X DOMAIN held[s] : s \in Sessions}

\* m_total_connections counts exactly the connections that are idle, borrowed or
\* being made, through retries, failed connects and sessions that end anywhere, so
\* the pool neither leaks its capacity nor exceeds it; and the counters of the
\* gate and of the accept loop are exact on every way out: a session that has left
\* its I/O operation is no longer registered.
CountersAreExact ==
    /\ total = Len(idle) + Cardinality(Borrowed)
               + Cardinality({s \in Sessions : pc[s] = "connect"})
    /\ total <= MaxPool
    /\ retries = Cardinality({s \in Sessions : backing[s]})
    /\ \A s \in Sessions : backing[s] => pc[s] \in IoStates
    /\ active = Cardinality({s \in Sessions : pc[s] # "none"})

\* A client gets the response to its own request: as long as parse() has taken
\* every response whole, no connection comes back to the pool with one still to be
\* read, whatever fails and whoever retries.
RightResponse ==
    short = 0 =>
        \A s \in Sessions : response[s] # NoResponse => response[s] = Request(s)

\* What the proxy is for: a client gets the response to its own request.
OwnResponse ==
    \A s \in Sessions : response[s] # NoResponse => response[s] = Request(s)

\* s waits for a connection, none is idle and nobody is left who could return one.
Starved(s) ==
    /\ pc[s] = "wait" /\ idle = << >>
    /\ \A t \in Sessions : held[t] # << >> \/ pc[t] = "connect" => pc[t] = "wait"

\* The backend and the clients let every operation without a timeout end.
PeersAnswer == \A t \in Sessions : []<>(pc[t] \notin Untimed)

\* A session that waits for a connection gets one, unless it is Starved.
WaiterGetsOne ==
    \A s \in Sessions : pc[s] = "wait" ~> (pc[s] # "wait" \/ Starved(s) \/ ~serving)

\* With a backend and clients that do not stay silent, a session that waits for a
\* connection gets one, unless it is Starved: release() hands the connection to it,
\* and no other session gets past the waiters for ever.
WaiterIsServed == PeersAnswer => WaiterGetsOne

\* What the proxy's header says: "on backend failure, invalidate and retry once".
FailureIsRetried ==
    \A s \in Sessions : pc[s] = "failed" ~> (pc[s] \in {"forward", "none"} \/ ~serving)
=============================================================================
