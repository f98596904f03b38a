--------------------------- MODULE MCEventServer ---------------------------
(* All four servers with two connections.                                  *)
EXTENDS EventServer

CONSTANTS c1, c2

MCTwoConns == {c1, c2}

\* A pool that holds both connections, and one of poll that does not.
MCServers ==
    { [kind |-> "select", slots |-> 2], [kind |-> "poll", slots |-> 3],
      [kind |-> "poll", slots |-> 2], [kind |-> "epoll", slots |-> 1],
      [kind |-> "kqueue", slots |-> 1] }
=============================================================================
