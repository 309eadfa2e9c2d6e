--------------------------- MODULE MCActorMailbox ---------------------------
(* Small instances of ActorMailbox for TLC.                                 *)
EXTENDS ActorMailbox

MCMsgs == Senders \X (1..MaxCalls)
=============================================================================
