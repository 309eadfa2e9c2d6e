------------------------------ MODULE NodeLink ------------------------------
(***************************************************************************)
(* The sending side of remote delivery (actor_system.h, remote_proxy.h,    *)
(* outbound_conn of transport.h): one proxy for actors of one peer node,   *)
(* the table of unacknowledged frames, the pooled connection to the peer,  *)
(* the report of a dead link, the coroutine that recovers the link, the    *)
(* gossip loop that also connects, and the ack timeout.                    *)
(*                                                                         *)
(* Every lock section is a step.  The peer handles what it reads and acks  *)
(* on the same connection; RemoteReceiver models it in full.  Sets stand   *)
(* for the queues of a connection: a copy of a frame that is still queued  *)
(* adds nothing that the same copy posted a step later would not.          *)
(***************************************************************************)
EXTENDS Naturals, FiniteSets

CONSTANTS Msgs,         \* frames to send, each a msg_id
          Conns,        \* connection objects; one is reused once it is dead
          None,         \* no connection
          MaxBuffered,  \* k_max_buffered
          MaxFaults     \* bound: broken connections and peers that seem gone

ASSUME LinkAssumption == /\ None \notin Conns
                         /\ MaxBuffered \in Nat
                         /\ MaxFaults \in Nat

Procs == {"recover", "gossip"}   \* the two callers of connect_to_node()

VARIABLES
    unacked,    \* [Msgs -> none | sent | resend]: m_unacked and needs_resend
    spc, sconn, \* a sender per frame, and the connection it read
    buffered,   \* m_buffered of the proxy
    proxyConn,  \* m_conn of the proxy
    pool,       \* m_connections[peer]
    valid,      \* the connections that are up: m_valid
    frames,     \* [Conns -> SUBSET Msgs]: m_frames and what is on the wire
    dpc,        \* [Conns -> program counter of notify_dead()/on_link_dead()]
    haveAddr,   \* [Conns -> BOOLEAN]: local of on_link_dead()
    recovering, again,        \* m_recovering, m_recover_again
    kpc, kconn, pend, todo, cur, ret, \* connect_to_node() and resend_unacked()
    handled,    \* frames the peer has handled
    faults      \* how often a connection broke or the peer seemed gone

senderVars == <<spc, sconn>>
proxyVars == <<buffered, proxyConn>>
connVars == <<valid, frames>>
deathVars == <<dpc, haveAddr>>
flagVars == <<recovering, again>>
procVars == <<kpc, kconn, pend, todo, cur, ret>>
envVars == <<handled, faults>>
vars == <<unacked, senderVars, proxyVars, pool, connVars, deathVars, flagVars,
          procVars, envVars>>

TypeOK ==
    /\ unacked \in [Msgs -> {"none", "sent", "resend"}]
    /\ spc \in [Msgs -> {"idle", "route", "post", "retry", "accepted"}]
    /\ sconn \in [Msgs -> Conns \cup {None}]
    /\ buffered \subseteq Msgs
    /\ proxyConn \in Conns \cup {None}
    /\ pool \in Conns \cup {None}
    /\ valid \subseteq Conns
    /\ frames \in [Conns -> SUBSET Msgs]
    /\ dpc \in [Conns -> {"none", "erase", "mark", "drop", "flags"}]
    /\ haveAddr \in [Conns -> BOOLEAN]
    /\ recovering \in BOOLEAN /\ again \in BOOLEAN
    /\ kpc \in [Procs -> {"off", "sleep", "flush", "flushing", "resend", "look", "decide"}]
    /\ kconn \in [Procs -> Conns \cup {None}]
    /\ pend \in [Procs -> SUBSET Msgs]
    /\ todo \in [Procs -> SUBSET Msgs]
    /\ cur \in [Procs -> SUBSET Msgs]
    /\ ret \in [Procs -> {"off", "look", "decide"}]
    /\ handled \subseteq Msgs
    /\ faults \in 0..MaxFaults

\* Nothing is connected.  A proxy made when there is a pooled connection starts with it:
\* the state after a gossip connect that nothing was sent before.
Init ==
    /\ unacked = [m \in Msgs |-> "none"]
    /\ spc = [m \in Msgs |-> "idle"]
    /\ sconn = [m \in Msgs |-> None]
    /\ buffered = {} /\ proxyConn = None
    /\ pool = None
    /\ valid = {}
    /\ frames = [c \in Conns |-> {}]
    /\ dpc = [c \in Conns |-> "none"]
    /\ haveAddr = [c \in Conns |-> FALSE]
    /\ recovering = FALSE /\ again = FALSE
    /\ kpc = [p \in Procs |-> "off"]
    /\ kconn = [p \in Procs |-> None]
    /\ pend = [p \in Procs |-> {}]
    /\ todo = [p \in Procs |-> {}]
    /\ cur = [p \in Procs |-> {}]
    /\ ret = [p \in Procs |-> "off"]
    /\ handled = {}
    /\ faults = 0

-----------------------------------------------------------------------------
(* Connections. *)

\* read_frame() of either end fails: what was queued or on its way is lost.
LoseFrames(c) == frames' = [frames EXCEPT ![c] = {}]

\* is_valid()
Valid(c) == c \in valid

PoolValid == Valid(pool)

\* An object for a new connection.
Fresh(c) == ~Valid(c) /\ dpc[c] = "none" /\ pool # c

\* outbound_conn::post_frame(): queue the frames ms on c if it is valid.
PostFrames(c, ms) ==
    frames' = IF Valid(c) THEN [frames EXCEPT ![c] = @ \cup ms] ELSE frames

\* write_loop() writes a frame, the peer reads and handles it.
PeerHandles(c) ==
    \E m \in frames[c] :
        /\ frames' = [frames EXCEPT ![c] = @ \ {m}]
        /\ handled' = handled \cup {m}
        /\ UNCHANGED <<unacked, senderVars, proxyVars, pool, valid, deathVars,
                       flagVars, procVars, faults>>

\* note_ack()
Forgotten(m) == [unacked EXCEPT ![m] = "none"]

\* read_pooled_outbound() reads an ack.  An ack may come at any time
\* after the frame was handled, more than once, or never.
NoteAck(m) ==
    /\ m \in handled /\ unacked[m] # "none"
    /\ unacked' = Forgotten(m)
    /\ UNCHANGED <<senderVars, proxyVars, pool, connVars, deathVars, flagVars,
                   procVars, envVars>>

-----------------------------------------------------------------------------
(* Senders: remote_accept() and remote_proxy::try_deliver(). *)

\* track_unacked(), before the frame goes anywhere.  A refused sender tries again
\* until remote_accept_timeout_ms is over; then it stays at "retry" for good.
Track(m) ==
    /\ spc[m] \in {"idle", "retry"}
    /\ unacked' = [unacked EXCEPT ![m] = "sent"]
    /\ spc' = [spc EXCEPT ![m] = "route"]
    /\ UNCHANGED <<sconn, proxyVars, pool, connVars, deathVars, flagVars,
                   procVars, envVars>>

\* Under the proxy's lock: buffer without a connection, refuse when full.
Route(m) ==
    /\ spc[m] = "route"
    /\ \/ /\ Valid(proxyConn)
          /\ sconn' = [sconn EXCEPT ![m] = proxyConn]
          /\ spc' = [spc EXCEPT ![m] = "post"]
          /\ UNCHANGED buffered
       \/ /\ ~Valid(proxyConn)
          /\ Cardinality(buffered) < MaxBuffered
          /\ buffered' = buffered \cup {m}
          /\ spc' = [spc EXCEPT ![m] = "accepted"]
          /\ UNCHANGED sconn
       \/ /\ ~Valid(proxyConn)
          /\ Cardinality(buffered) >= MaxBuffered
          /\ spc' = [spc EXCEPT ![m] = "retry"]
          /\ UNCHANGED <<buffered, sconn>>
    /\ UNCHANGED <<unacked, proxyConn, pool, connVars, deathVars,
                   flagVars, procVars, envVars>>

\* note_send_failed()
Failed(m) == [unacked EXCEPT ![m] = IF @ = "none" THEN @ ELSE "resend"]

\* post_frame() on the connection read before, or note_send_failed().
Post(m) ==
    /\ spc[m] = "post"
    /\ PostFrames(sconn[m], {m})
    /\ spc' = [spc EXCEPT ![m] = IF Valid(sconn[m]) THEN "accepted" ELSE "retry"]
    /\ unacked' = IF Valid(sconn[m]) THEN unacked ELSE Failed(m)
    /\ sconn' = [sconn EXCEPT ![m] = None]
    /\ UNCHANGED <<proxyVars, pool, valid, deathVars, flagVars,
                   procVars, envVars>>

-----------------------------------------------------------------------------
(* connect_to_node() and resend_unacked(), for either caller. *)

Goto(p, l) == kpc' = [kpc EXCEPT ![p] = l]

\* Where the caller continues: gossip_loop() is done, recover_node() looks.
AfterConnect(p) == IF p = "gossip" THEN "off" ELSE "look"

\* connect() has succeeded and, under m_conn_mutex, no valid connection is
\* pooled.  A connection dialled while another one was valid is dropped, which
\* changes nothing.
PoolNew(p) ==
    /\ ~PoolValid
    /\ \E c \in Conns : Fresh(c)
    /\ LET c == CHOOSE c \in Conns : Fresh(c) IN
        /\ pool' = c
        /\ valid' = valid \cup {c}
        /\ kconn' = [kconn EXCEPT ![p] = c]
    /\ Goto(p, "flush")
    /\ UNCHANGED <<unacked, senderVars, proxyVars, frames, deathVars,
                   flagVars, pend, todo, cur, ret, envVars>>

\* connect_and_flush(): give the proxy the connection, take its buffer.
TakeBuffer(p) ==
    /\ kpc[p] = "flush"
    /\ Goto(p, "flushing")
    /\ proxyConn' = kconn[p]
    /\ pend' = [pend EXCEPT ![p] = buffered]
    /\ buffered' = {}
    /\ UNCHANGED <<unacked, senderVars, pool, connVars, deathVars, flagVars,
                   kconn, todo, cur, ret, envVars>>

\* connect_and_flush(): track and post one buffered frame.
FlushOne(p) ==
    \E m \in pend[p] :
        /\ kpc[p] = "flushing"
        /\ PostFrames(kconn[p], {m})
        /\ unacked' = [unacked EXCEPT ![m] = IF Valid(kconn[p]) THEN "sent" ELSE "resend"]
        /\ pend' = [pend EXCEPT ![p] = @ \ {m}]
        /\ UNCHANGED <<senderVars, proxyVars, pool, valid, deathVars,
                       flagVars, kpc, kconn, todo, cur, ret, envVars>>

\* resend_unacked(): collect what is marked, to continue at l afterwards.
Collect(p, l) ==
    /\ todo' = [todo EXCEPT ![p] = {m \in Msgs : unacked[m] = "resend"}]
    /\ ret' = [ret EXCEPT ![p] = l]
    /\ Goto(p, "resend")

CollectAfterFlush(p) ==
    /\ kpc[p] = "flushing" /\ pend[p] = {}
    /\ Collect(p, AfterConnect(p))
    /\ UNCHANGED <<unacked, senderVars, proxyVars, pool, connVars, deathVars,
                   flagVars, kconn, pend, cur, envVars>>

\* resend_unacked(): post a frame; a dead connection leaves it marked ...
ResendOne(p) ==
    \E m \in todo[p] :
        /\ kpc[p] = "resend" /\ cur[p] = {}
        /\ PostFrames(kconn[p], {m})
        /\ todo' = [todo EXCEPT ![p] = @ \ {m}]
        /\ cur' = [cur EXCEPT ![p] = IF Valid(kconn[p]) THEN {m} ELSE {}]
        /\ UNCHANGED <<unacked, senderVars, proxyVars, pool, valid,
                       deathVars, flagVars, kpc, kconn, pend, ret, envVars>>

\* ... and in a second lock section clear the mark of what was posted.
ClearMark(p) ==
    /\ kpc[p] = "resend" /\ cur[p] # {}
    /\ unacked' = [m \in Msgs |-> IF m \in cur[p] /\ unacked[m] # "none"
                                  THEN "sent" ELSE unacked[m]]
    /\ cur' = [cur EXCEPT ![p] = {}]
    /\ UNCHANGED <<senderVars, proxyVars, pool, connVars, deathVars, flagVars,
                   kpc, kconn, pend, todo, ret, envVars>>

ResendDone(p) ==
    /\ kpc[p] = "resend" /\ todo[p] = {} /\ cur[p] = {}
    /\ Goto(p, ret[p])
    /\ kconn' = [kconn EXCEPT ![p] = IF ret[p] = "decide" THEN @ ELSE None]
    /\ ret' = [ret EXCEPT ![p] = "off"]
    /\ UNCHANGED <<unacked, senderVars, proxyVars, pool, connVars, deathVars,
                   flagVars, pend, todo, cur, envVars>>

\* gossip_loop(): dial a live peer, send gossip, offer the connection.
\* dial_logged_destination() offers its connection in the same way.
GossipConnect ==
    /\ kpc["gossip"] = "off"
    /\ PoolNew("gossip")

-----------------------------------------------------------------------------
(* recover_node(). *)

\* Mutant of RecoverStops: m_recovering is left set.
StopStillRecovering ==
    /\ kpc["recover"] = "sleep"
    /\ faults < MaxFaults
    /\ faults' = faults + 1
    /\ Goto("recover", "off")
    /\ again' = FALSE
    /\ UNCHANGED <<unacked, senderVars, proxyVars, pool, connVars, deathVars,
                   recovering, kconn, pend, todo, cur, ret, handled>>

\* After the sleep: a peer that is not in live_nodes() just now ends the recovery.
RecoverStops ==
    /\ kpc["recover"] = "sleep"
    /\ faults < MaxFaults
    /\ faults' = faults + 1
    /\ Goto("recover", "off")
    /\ recovering' = FALSE /\ again' = FALSE
    /\ UNCHANGED <<unacked, senderVars, proxyVars, pool, connVars, deathVars,
                   kconn, pend, todo, cur, ret, handled>>

RecoverConnect == kpc["recover"] = "sleep" /\ PoolNew("recover")

\* connect_to_node() returns early, because a valid connection is pooled, or
\* fails, which recover_node() swallows.
RecoverNoConnect ==
    /\ kpc["recover"] = "sleep"
    /\ Goto("recover", "look")
    /\ UNCHANGED <<unacked, senderVars, proxyVars, pool, connVars, deathVars,
                   flagVars, kconn, pend, todo, cur, ret, envVars>>

\* Fetch the pooled connection and resend over it.
RecoverLook ==
    /\ kpc["recover"] = "look"
    /\ kconn' = [kconn EXCEPT !["recover"] = IF PoolValid THEN pool ELSE None]
    /\ IF PoolValid THEN Collect("recover", "decide")
       ELSE Goto("recover", "decide") /\ UNCHANGED <<todo, ret>>
    /\ UNCHANGED <<unacked, senderVars, proxyVars, pool, connVars, deathVars,
                   flagVars, pend, cur, envVars>>

\* Go round again, unless nobody asked for it, nothing is left to resend and the
\* connection is good.  The code reads the three in this order, and m_recover_again
\* once more at the end; a death in between counts as one before or after.
RecoverDecide ==
    /\ kpc["recover"] = "decide"
    /\ LET round == \/ again
                    \/ \E m \in Msgs : unacked[m] = "resend"
                    \/ ~Valid(kconn["recover"]) IN
       /\ Goto("recover", IF round THEN "sleep" ELSE "off")
       /\ recovering' = round
    /\ again' = FALSE
    /\ kconn' = [kconn EXCEPT !["recover"] = None]
    /\ UNCHANGED <<unacked, senderVars, proxyVars, pool, connVars, deathVars,
                   pend, todo, cur, ret, envVars>>

-----------------------------------------------------------------------------
(* notify_dead() and on_link_dead(), four lock sections. *)

\* The connection is lost with all it carries, and its reader or writer calls
\* notify_dead().  Nobody can tell a broken connection before that, nor an invalid
\* one from none after it, except where m_connections is concerned.
NotifyDead(c) ==
    /\ faults < MaxFaults
    /\ Valid(c)
    /\ valid' = valid \ {c}
    /\ LoseFrames(c)
    /\ proxyConn' = IF proxyConn = c THEN None ELSE proxyConn
    /\ sconn' = [m \in Msgs |-> IF sconn[m] = c THEN None ELSE sconn[m]]
    /\ kconn' = [p \in Procs |-> IF kconn[p] = c THEN None ELSE kconn[p]]
    /\ dpc' = [dpc EXCEPT ![c] = "erase"]
    /\ faults' = faults + 1
    /\ UNCHANGED <<unacked, spc, buffered, pool, haveAddr, flagVars, kpc, pend,
                   todo, cur, ret, handled>>

\* The entry is found by node, whichever connection it holds by now.
ErasePooled(c) ==
    /\ dpc[c] = "erase"
    /\ haveAddr' = [haveAddr EXCEPT ![c] = pool # None]
    /\ pool' = None
    /\ dpc' = [dpc EXCEPT ![c] = "mark"]
    /\ UNCHANGED <<unacked, senderVars, proxyVars, connVars, flagVars, procVars,
                   envVars>>

\* Mutant of MarkResend: the frames of a dead link are forgotten.
ForgetUnacked(c) ==
    /\ dpc[c] = "mark"
    /\ unacked' = [m \in Msgs |-> "none"]
    /\ dpc' = [dpc EXCEPT ![c] = "drop"]
    /\ UNCHANGED <<senderVars, proxyVars, pool, connVars, haveAddr, flagVars,
                   procVars, envVars>>

MarkResend(c) ==
    /\ dpc[c] = "mark"
    /\ unacked' = [m \in Msgs |-> IF unacked[m] = "none" THEN "none" ELSE "resend"]
    /\ dpc' = [dpc EXCEPT ![c] = "drop"]
    /\ UNCHANGED <<senderVars, proxyVars, pool, connVars, haveAddr, flagVars,
                   procVars, envVars>>

DropProxyConn(c) ==
    /\ dpc[c] = "drop"
    /\ proxyConn' = None
    /\ dpc' = [dpc EXCEPT ![c] = "flags"]
    /\ UNCHANGED <<unacked, senderVars, buffered, pool, connVars, haveAddr,
                   flagVars, procVars, envVars>>

\* Ask the running recovery for another round, or start one.
RequestRecovery(c) ==
    /\ dpc[c] = "flags"
    /\ dpc' = [dpc EXCEPT ![c] = "none"]
    /\ haveAddr' = [haveAddr EXCEPT ![c] = FALSE]
    /\ IF recovering
       THEN again' = TRUE /\ UNCHANGED <<recovering, kpc>>
       ELSE IF haveAddr[c]
            THEN recovering' = TRUE /\ again' = FALSE /\ Goto("recover", "sleep")
            ELSE UNCHANGED <<recovering, again, kpc>>
    /\ UNCHANGED <<unacked, senderVars, proxyVars, pool, connVars, kconn, pend,
                   todo, cur, ret, envVars>>

-----------------------------------------------------------------------------
(* ack_timeout_loop(). *)

\* Frames marked for resending are left to the recovery.
AckTimeout(m) ==
    /\ unacked[m] = "sent" /\ PoolValid
    /\ PostFrames(pool, {m})
    /\ UNCHANGED <<unacked, senderVars, proxyVars, pool, valid, deathVars,
                   flagVars, procVars, envVars>>

-----------------------------------------------------------------------------
Sender(m) == Track(m) \/ Route(m) \/ Post(m)

LinkDeath(c) == \/ ErasePooled(c) \/ MarkResend(c)
                \/ DropProxyConn(c) \/ RequestRecovery(c)

ConnectAndResend(p) == \/ TakeBuffer(p) \/ FlushOne(p)
                       \/ CollectAfterFlush(p) \/ ResendOne(p) \/ ClearMark(p)
                       \/ ResendDone(p)

Recover == RecoverNoConnect \/ RecoverLook \/ RecoverDecide

Next == \/ \E m \in Msgs : Sender(m) \/ NoteAck(m) \/ AckTimeout(m)
        \/ \E c \in Conns : \/ PeerHandles(c) \/ NotifyDead(c) \/ LinkDeath(c)
        \/ \E p \in Procs : ConnectAndResend(p)
        \/ GossipConnect \/ Recover \/ RecoverStops \/ RecoverConnect

\* Threads and coroutines run, the kernel moves data, both processes live: so
\* a peer is seen again and a dial, tried for ever, succeeds in the end.
Fairness ==
    /\ \A m \in Msgs : WF_vars(Route(m) \/ Post(m)) /\ SF_vars(AckTimeout(m))
    /\ \A c \in Conns : /\ SF_vars(PeerHandles(c)) /\ WF_vars(LinkDeath(c))
    /\ \A p \in Procs : WF_vars(ConnectAndResend(p))
    /\ SF_vars(GossipConnect) /\ WF_vars(Recover) /\ SF_vars(RecoverConnect)

Spec == Init /\ [][Next]_vars /\ Fairness

-----------------------------------------------------------------------------
(* Properties. *)

\* recover_node() runs if and only if m_recovering is set: a second recovery
\* is never started, and a request is never left with a coroutine that ended.
OneRecovery == recovering <=> kpc["recover"] # "off"

\* Frame m waits for a recovery that nobody runs, although the peer is
\* connected; the ack timeout skips it.
Unowned(m) ==
    /\ unacked[m] = "resend"
    /\ PoolValid
    /\ kpc = [p \in Procs |-> "off"]
    /\ \A c \in Conns : dpc[c] = "none"

\* A frame send() accepted is handled by the peer, through broken connections,
\* lost acks and a peer that seems to leave, unless it becomes Unowned.
DeliveredUnlessUnowned ==
    \A m \in Msgs : spc[m] = "accepted" ~> (m \in handled \/ Unowned(m))

\* What the guide promises while both processes live: every accepted frame is
\* handled at least once.
AtLeastOnce == \A m \in Msgs : spc[m] = "accepted" ~> m \in handled
=============================================================================
