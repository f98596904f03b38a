----------------------------- MODULE MCTcpEcho -----------------------------
(* All seven pairs of programs with two clients.                           *)
EXTENDS TcpEcho

CONSTANTS c1, c2

MCVersions == {"tcp1", "tcp2", "tcp3", "tcp4", "tcp7", "tcp8", "tcp9"}
MCClients  == {c1, c2}
=============================================================================
