--------------------------- MODULE MCThreadServer ---------------------------
(* Two clients and a server with room for two connections, one of them on  *)
(* descriptor 0.                                                           *)
EXTENDS ThreadServer

CONSTANTS k1, k2, j1, j2

MCClients == {k1, k2}
MCJunk    == {j1, j2}
=============================================================================
