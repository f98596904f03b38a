----------------------------- MODULE MCMsgEcho -----------------------------
(* As many clients as the queue can hold messages.                         *)
EXTENDS MsgEcho

CONSTANTS c1, c2, c3

MCClients == {c1, c2, c3}
=============================================================================
