-------------------------------- MODULE Ask --------------------------------
(***************************************************************************)
(* actor_ref::ask() and its table of open questions (actor_system.h).      *)
(*                                                                         *)
(* An asking thread registers a slot under a fresh message id, hands the   *)
(* message over, looks its slot up again and waits on it with a timeout.   *)
(* A reply, from a handler on a pool thread or from the reader of a        *)
(* connection, takes the slot out of the table and then fills it.  Each    *)
(* ask is identified with its id; a resent message or a handler that       *)
(* replies twice produces several replies to one ask.  m_ask_mu protects   *)
(* the table and the slot's own mutex the slot: a critical section is one  *)
(* step.                                                                   *)
(***************************************************************************)
EXTENDS Naturals, FiniteSets

CONSTANTS
    Asks,           \* calls of ask(), each with its own id
    MaxReplies      \* bound: replies to one ask

ASSUME AskAssumption == MaxReplies \in Nat

VARIABLES
    asks,       \* the keys of m_asks
    payload,    \* slot->payload per ask; NoReply while slot->done is false
    sent,       \* the message reached its target, which may reply
    pc,         \* the asking thread
    answer,     \* what ask() returned; NoReply is std::nullopt
    rpc         \* the replies

askVars == <<asks, payload, sent, pc, answer, rpc>>

NoReply == 0
Replies == Asks \X (1..MaxReplies)

AskInit ==
    /\ asks = {}
    /\ payload = [a \in Asks |-> NoReply]
    /\ sent = [a \in Asks |-> FALSE]
    /\ pc = [a \in Asks |-> "idle"]
    /\ answer = [a \in Asks |-> NoReply]
    /\ rpc = [r \in Replies |-> "none"]

Goto(a, label) == pc' = [pc EXCEPT ![a] = label]

-----------------------------------------------------------------------------
(* The asking thread.                                                       *)

\* prepare_ask() = begin_ask() under a fresh id.
PrepareAsk(a) ==
    /\ pc[a] = "idle"
    /\ asks' = asks \cup {a}
    /\ Goto(a, "deliver")
    /\ UNCHANGED <<payload, sent, answer, rpc>>

\* push_envelope() or try_deliver() returns true.
Accepted(a) ==
    /\ pc[a] = "deliver"
    /\ sent' = [sent EXCEPT ![a] = TRUE]
    /\ Goto(a, "lookup")
    /\ UNCHANGED <<asks, payload, answer, rpc>>

\* It returns false.  A remote try_deliver() can give up on a message that is
\* already tracked for resending, so a reply may still come.
Refused(a) ==
    /\ pc[a] = "deliver"
    /\ \E reached \in BOOLEAN : sent' = [sent EXCEPT ![a] = reached]
    /\ Goto(a, "cancel")
    /\ UNCHANGED <<asks, payload, answer, rpc>>

\* take_ask_payload(): without an entry the call returns nullopt at once.
TakeLookup(a) ==
    /\ pc[a] = "lookup"
    /\ Goto(a, IF a \in asks THEN "wait" ELSE "missed")
    /\ UNCHANGED <<asks, payload, sent, answer, rpc>>

\* wait_for() sees slot->done.
WaitDone(a) ==
    /\ pc[a] = "wait" /\ payload[a] # NoReply
    /\ answer' = [answer EXCEPT ![a] = payload[a]]
    /\ Goto(a, "answered")
    /\ UNCHANGED <<asks, payload, sent, rpc>>

\* Mutant of WaitTimeout: wait() instead of wait_for().
WaitForever(a) == FALSE /\ UNCHANGED askVars

WaitTimeout(a) ==
    /\ pc[a] = "wait" /\ payload[a] = NoReply
    /\ Goto(a, "cancel")
    /\ UNCHANGED <<asks, payload, sent, answer, rpc>>

\* Mutant of CancelAsk: the entry stays in the table.
ForgetToCancel(a) ==
    /\ pc[a] = "cancel"
    /\ Goto(a, "gaveUp")
    /\ UNCHANGED <<asks, payload, sent, answer, rpc>>

\* cancel_ask(), after a refusal and after a timeout.
CancelAsk(a) ==
    /\ pc[a] = "cancel"
    /\ asks' = asks \ {a}
    /\ Goto(a, "gaveUp")
    /\ UNCHANGED <<payload, sent, answer, rpc>>

-----------------------------------------------------------------------------
(* finish_ask(), for a reply r = <<ask, number>>.                           *)

\* Mutant of FinishLookup: the entry is left for the asking thread to erase.
FinishWithoutErase(r) ==
    /\ rpc[r] = "none" /\ sent[r[1]]
    /\ rpc' = [rpc EXCEPT ![r] = IF r[1] \in asks THEN "found" ELSE "refused"]
    /\ UNCHANGED <<asks, payload, sent, pc, answer>>

FinishLookup(r) ==
    /\ rpc[r] = "none" /\ sent[r[1]]
    /\ rpc' = [rpc EXCEPT ![r] = IF r[1] \in asks THEN "found" ELSE "refused"]
    /\ asks' = asks \ {r[1]}
    /\ UNCHANGED <<payload, sent, pc, answer>>

\* Fills the slot and notifies.
FinishFill(r) ==
    /\ rpc[r] = "found"
    /\ payload' = [payload EXCEPT ![r[1]] = r[2]]
    /\ rpc' = [rpc EXCEPT ![r] = "filled"]
    /\ UNCHANGED <<asks, sent, pc, answer>>

-----------------------------------------------------------------------------
AskStep(a) ==
    \/ Accepted(a) \/ Refused(a) \/ TakeLookup(a)
    \/ WaitDone(a) \/ WaitTimeout(a) \/ CancelAsk(a)

AskNext ==
    \/ \E a \in Asks : PrepareAsk(a) \/ AskStep(a)
    \/ \E r \in Replies : FinishLookup(r) \/ FinishFill(r)

AskSpec == AskInit /\ [][AskNext]_askVars

\* The asking thread keeps running and its timer fires.  Nobody has to reply, and
\* the delivery need not return: push_envelope() waits for room in a full mailbox,
\* for ever when the target was closed.
FairAskSpec ==
    AskSpec /\ \A a \in Asks : WF_askVars(pc[a] # "deliver" /\ AskStep(a))

-----------------------------------------------------------------------------
Returned == {"missed", "answered", "gaveUp"}

\* No call leaves its entry in m_asks behind: not when the reply loses the race
\* against the timeout, and not when the message was refused.
NoAskLeaks == \A a \in Asks : pc[a] \in Returned => a \notin asks

\* Of several replies to one ask, and of a reply and a timeout, one wins: the
\* slot is filled at most once, never while the asking thread moves it out.
OneReplyWins ==
    \A a \in Asks :
        Cardinality({n \in 1..MaxReplies : rpc[<<a, n>>] \in {"found", "filled"}}) <= 1

\* An ask() whose delivery has returned, with true or false, returns, whether or
\* not anybody replies and however the replies race with the timeout.
AskReturns ==
    \A a \in Asks : pc[a] \notin {"idle", "deliver"} ~> pc[a] \in Returned

\* What the distribution test and the guide's example expect: an ask whose
\* reply was accepted comes back empty-handed only after its timeout.
AnsweredAskReturns ==
    \A a \in Asks : pc[a] = "missed" =>
        \A n \in 1..MaxReplies : rpc[<<a, n>>] \notin {"found", "filled"}
=============================================================================
