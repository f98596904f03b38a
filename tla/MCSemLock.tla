----------------------------- MODULE MCSemLock -----------------------------
(* One execution of mulfork with its three workers.                        *)
EXTENDS SemLock

CONSTANTS s1, w1, w2, w3

MCOneStarter   == {s1}
MCThreeWorkers == {w1, w2, w3}
MCOwnerOne     == [w \in MCThreeWorkers |-> s1]
=============================================================================
