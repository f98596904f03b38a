---------------------------- MODULE MCForkServer ----------------------------
(* Small instances of the forking server.                                  *)
EXTENDS ForkServer

CONSTANTS c1, c2, f1

MCTwoConns   == {c1, c2}
MCOneFailure == {f1}
MCRequests   == [c \in {c1, c2} |-> IF c = c1 THEN 2 ELSE 1]
=============================================================================
