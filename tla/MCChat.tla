------------------------------- MODULE MCChat -------------------------------
(* All five pairs of programs.                                             *)
EXTENDS Chat

MCVersions == {"tcp5", "tcp6", "tcp7", "tcp8", "tcp9"}
=============================================================================
