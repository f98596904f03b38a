------------------------------ MODULE TcpEcho ------------------------------
(***************************************************************************)
(* The echo programs of socket/tcp1 to tcp4 (server.c, client.c) and tcp7  *)
(* to tcp9 (echo_server.c, echo_client.c).                                 *)
(*                                                                         *)
(* tcp1, tcp2, tcp7 and tcp8 accept one connection and end with it; tcp3   *)
(* and tcp9 fork a child for each; tcp4 opens its socket anew for each of  *)
(* ten exchanges.  A line is two units, the halves into which TCP may cut  *)
(* it: the raw programs answer whatever one read returns, those of tcp7    *)
(* and tcp8 (packets, lines) put a line together first.                    *)
(***************************************************************************)
EXTENDS Integers, Sequences, SequencesExt

CONSTANTS Versions,     \* which programs are considered
          Clients,
          MaxLines,     \* bound on the lines each client sends
          Rounds,       \* the exchanges of tcp4: ten in the code
          MaxRestarts   \* how often somebody starts the server again

ASSUME TcpEchoAssumption ==
    /\ Versions \subseteq {"tcp1", "tcp2", "tcp3", "tcp4", "tcp7", "tcp8", "tcp9"}
    /\ MaxLines \in Nat \ {0}
    /\ Rounds \in Nat \ {0}
    /\ MaxRestarts \in Nat

-----------------------------------------------------------------------------
(* What distinguishes the programs: whether SO_REUSEADDR is set before     *)
(* bind, how connections are served, and whether lines are put together.   *)

Program(reuse, serves, whole) == [reuse |-> reuse, serves |-> serves, whole |-> whole]

Tcp1 == Program(FALSE, "one", FALSE)
Tcp2 == Program(TRUE, "one", FALSE)
Tcp3 == Program(TRUE, "forks", FALSE)
Tcp4 == Program(TRUE, "rounds", FALSE)
Tcp7 == Program(TRUE, "one", TRUE)
Tcp8 == Program(TRUE, "one", TRUE)
Tcp9 == Program(TRUE, "forks", FALSE)

Programs == [tcp1 |-> Tcp1, tcp2 |-> Tcp2, tcp3 |-> Tcp3, tcp4 |-> Tcp4,
             tcp7 |-> Tcp7, tcp8 |-> Tcp8, tcp9 |-> Tcp9]

VARIABLES version,   \* the programs at hand
          server,    \* the (parent) server process
          round,     \* tcp4: i
          restarts,  \* how often it has been started again
          waits,     \* the port has a connection in TIME_WAIT
          refused,   \* bind has failed
          backlog,   \* connections that have not been accepted
          copies,    \* children that still hold the listening socket
          kept,      \* the connection a parent has forked for and not yet closed
          serves,    \* who serves each connection, and what it is doing
          hand,      \* units a server has read and not written back
          toServer,  \* units in the server's receive buffer
          toClient,  \* and in the client's
          client,    \* what each client is doing
          sent,      \* lines each client has sent
          got,       \* units it has read
          cltFin,    \* the client has closed
          srvFin,    \* the server has closed
          rst,       \* the connection is reset
          doomed     \* data went to an end that had closed

started == <<server, round, restarts, waits, refused>>
held    == <<backlog, copies, kept>>
conns   == <<held, serves, hand>>
bytes   == <<toServer, toClient>>
user    == <<client, sent, got>>
tcp     == <<cltFin, srvFin, rst, doomed>>
vars    == <<version, started, conns, bytes, user, tcp>>

Prog  == Programs[version]
Units == 1..(2 * MaxLines)
Other == 0      \* a unit that no client sent: the text of tcp4

\* The units of a client's lines, in order.
Line(n)  == <<2 * n - 1, 2 * n>>
Lines(n) == [u \in 1..(2 * n) |-> u]

Service == {"none", "accepted", "forked", "reading", "writing", "left", "closed"}

TypeOK ==
    /\ version \in Versions
    /\ server \in {"boot", "accept", "serving", "gone"}
    /\ round \in 0..Rounds
    /\ restarts \in 0..MaxRestarts
    /\ waits \in BOOLEAN /\ refused \in BOOLEAN
    /\ backlog \in SUBSET Clients /\ copies \in SUBSET Clients /\ kept \in SUBSET Clients
    /\ serves \in [Clients -> Service]
    /\ hand \in [Clients -> Seq(Units \cup {Other})] /\ \A c \in Clients : Len(hand[c]) <= 2
    /\ toServer \in [Clients -> Seq(Units)]
    /\ toClient \in [Clients -> Seq(Units \cup {Other})]
    /\ client \in [Clients -> {"idle", "typing", "reading", "gone"}]
    /\ sent \in [Clients -> 0..MaxLines]
    /\ got \in [Clients -> Seq(Units \cup {Other})]
    /\ cltFin \in [Clients -> BOOLEAN] /\ srvFin \in [Clients -> BOOLEAN]
    /\ rst \in [Clients -> BOOLEAN] /\ doomed \in [Clients -> BOOLEAN]

Init ==
    /\ version \in Versions
    /\ server = "boot" /\ round = 0 /\ restarts = 0
    /\ waits = FALSE /\ refused = FALSE
    /\ backlog = {} /\ copies = {} /\ kept = {}
    /\ serves = [c \in Clients |-> "none"]
    /\ hand = [c \in Clients |-> <<>>]
    /\ toServer = [c \in Clients |-> <<>>] /\ toClient = [c \in Clients |-> <<>>]
    /\ client = [c \in Clients |-> "idle"]
    /\ sent = [c \in Clients |-> 0]
    /\ got = [c \in Clients |-> <<>>]
    /\ cltFin = [c \in Clients |-> FALSE] /\ srvFin = [c \in Clients |-> FALSE]
    /\ rst = [c \in Clients |-> FALSE] /\ doomed = [c \in Clients |-> FALSE]

-----------------------------------------------------------------------------
(* The server's sockets *)

\* The server's side of the connections S is closed: with a FIN, which leaves
\* the port in TIME_WAIT if the client has not closed before, or with a reset
\* if data lies unread.
Closes(S) ==
    LET open  == {c \in S : ~rst[c]}
        clean == {c \in open : toServer[c] = <<>> /\ serves[c] # "none"}
    IN /\ srvFin' = [c \in Clients |-> srvFin[c] \/ c \in clean]
       /\ rst' = [c \in Clients |-> rst[c] \/ c \in open \ clean]
       /\ waits' = (waits \/ \E c \in clean : ~cltFin[c])

\* The connections held by the process that runs main().
OfMain == {c \in Clients : \/ serves[c] = "accepted"
                           \/ Prog.serves # "forks" /\ serves[c] \in {"reading", "writing", "left"}}

\* What waits to be accepted is reset when the listening socket is closed for
\* good; a child that was forked and has not closed its copy keeps it alive.
Lost == IF copies = {} THEN backlog ELSE {}

\* The connections S and the listening socket are closed.
Stops(S) ==
    /\ Closes(S \cup Lost)
    /\ backlog' = backlog \ Lost
    /\ serves' = [c \in Clients |-> IF c \in S \cup Lost THEN "closed" ELSE serves[c]]
    /\ UNCHANGED <<copies, kept, hand>>

\* The server process exits: all its descriptors are closed.
Exits == server' = "gone" /\ Stops(OfMain)

\* bind fails while a socket listens at the port, and, without SO_REUSEADDR,
\* while a connection of the port is in TIME_WAIT.
PortTaken == copies # {} \/ (~Prog.reuse /\ waits)

\* socket, setsockopt, bind, listen.
Bind ==
    /\ server = "boot"
    /\ IF PortTaken THEN server' = "gone" /\ refused' = TRUE
                    ELSE server' = "accept" /\ UNCHANGED refused
    /\ UNCHANGED <<version, round, restarts, waits, conns, bytes, user, tcp>>

Accept(c) ==
    /\ server = "accept" /\ c \in backlog
    /\ backlog' = backlog \ {c}
    /\ \/ Prog.serves = "forks" /\ server' = server
       \/ Prog.serves # "forks" /\ server' = "serving"
    /\ kept = {} /\ \A d \in Clients : serves[d] # "accepted"
    /\ serves' = [serves EXCEPT ![c] = IF Prog.serves = "forks" THEN "accepted" ELSE "reading"]
    /\ UNCHANGED <<version, round, restarts, waits, refused, copies, kept, hand, bytes, user,
                   tcp>>

\* Parent and child hold both sockets after the fork.
Fork(c) ==
    /\ serves[c] = "accepted"
    /\ serves' = [serves EXCEPT ![c] = "forked"]
    /\ copies' = copies \cup {c}
    /\ kept' = {c}
    /\ UNCHANGED <<version, started, backlog, hand, bytes, user, tcp>>

\* Mutant: the child forgets close(sockfd).
ChildKeepsSockfd(c) ==
    /\ serves[c] = "forked"
    /\ serves' = [serves EXCEPT ![c] = "reading"]
    /\ UNCHANGED <<version, started, held, hand, bytes, user, tcp>>

\* The child's close(sockfd); if the parent has exited and no other child holds
\* a copy, this is the end of the listening socket.
ChildCloses(c) ==
    /\ serves[c] = "forked"
    /\ copies' = copies \ {c}
    /\ LET dropped == IF server \in {"boot", "gone"} /\ copies' = {} THEN backlog ELSE {}
       IN /\ Closes(dropped)
          /\ backlog' = backlog \ dropped
          /\ serves' = [d \in Clients |-> IF d = c THEN "reading"
                                          ELSE IF d \in dropped THEN "closed"
                                          ELSE serves[d]]
    /\ UNCHANGED <<version, server, round, restarts, refused, kept, hand, bytes, user, cltFin,
                   doomed>>

\* The parent's close(conn), which closes the connection if the child has ended.
ParentCloses(c) ==
    /\ c \in kept
    /\ kept' = kept \ {c}
    /\ Closes({d \in {c} : serves[d] = "closed"})
    /\ UNCHANGED <<version, server, round, restarts, refused, backlog, copies, serves, hand,
                   bytes, user, cltFin, doomed>>

ForkFails(c) ==
    /\ serves[c] = "accepted"
    /\ Exits
    /\ UNCHANGED <<version, round, restarts, refused, bytes, user, cltFin, doomed>>

Restart ==
    /\ server = "gone" /\ restarts < MaxRestarts
    /\ server' = "boot" /\ round' = 0 /\ restarts' = restarts + 1
    /\ UNCHANGED <<version, waits, refused, conns, bytes, user, tcp>>

TimeWaitEnds ==
    /\ waits /\ waits' = FALSE
    /\ UNCHANGED <<version, server, round, restarts, refused, conns, bytes, user, tcp>>

-----------------------------------------------------------------------------
(* Serving a connection *)

\* One read of the raw servers returns what has arrived, at most a buffer.
ReadRaw(c) ==
    /\ serves[c] = "reading" /\ ~Prog.whole
    /\ \E n \in 1..2 :
         /\ n <= Len(toServer[c])
         /\ hand' = [hand EXCEPT ![c] = SubSeq(toServer[c], 1, n)]
         /\ toServer' = [toServer EXCEPT ![c] = SubSeq(@, n + 1, Len(@))]
    /\ serves' = [serves EXCEPT ![c] = "writing"]
    /\ UNCHANGED <<version, started, held, toClient, user, tcp>>

\* Mutant: the length of the packet is counted one too long.
ReadWholeOneMore(c) ==
    /\ serves[c] = "reading" /\ Prog.whole /\ Len(toServer[c]) >= 3
    /\ hand' = [hand EXCEPT ![c] = SubSeq(toServer[c], 1, 3)]
    /\ toServer' = [toServer EXCEPT ![c] = SubSeq(@, 4, Len(@))]
    /\ serves' = [serves EXCEPT ![c] = "writing"]
    /\ UNCHANGED <<version, started, held, toClient, user, tcp>>

\* readn of header and payload, or readline: both halves.
ReadWhole(c) ==
    /\ serves[c] = "reading" /\ Prog.whole /\ Len(toServer[c]) >= 2
    /\ hand' = [hand EXCEPT ![c] = SubSeq(toServer[c], 1, 2)]
    /\ toServer' = [toServer EXCEPT ![c] = SubSeq(@, 3, Len(@))]
    /\ serves' = [serves EXCEPT ![c] = "writing"]
    /\ UNCHANGED <<version, started, held, toClient, user, tcp>>

\* Nothing more can be read: the client has closed, or the connection is reset.
Drained(c) == serves[c] = "reading" /\ Len(toServer[c]) < (IF Prog.whole THEN 2 ELSE 1)

\* 0, or less than a packet.  tcp4 leaves its loop and ends.
ReadEnd(c) ==
    /\ Drained(c) /\ cltFin[c]
    /\ serves' = [serves EXCEPT ![c] = "left"]
    /\ UNCHANGED <<version, started, held, hand, bytes, user, tcp>>

\* The process that serves c ends: a child, or the server.
Quits(c) ==
    IF Prog.serves = "forks"
    THEN /\ Closes({c} \ kept)
         /\ serves' = [serves EXCEPT ![c] = "closed"]
         /\ UNCHANGED <<server, held, hand>>
    ELSE Exits

\* read returns -1: ERROR_EXIT.
ReadError(c) ==
    /\ Drained(c) /\ rst[c] /\ ~cltFin[c]
    /\ Quits(c)
    /\ UNCHANGED <<version, round, restarts, refused, bytes, user, cltFin, doomed>>

\* Mutant: a write that takes only a part is taken for the whole.
WriteBackShort(c) ==
    /\ serves[c] = "writing" /\ ~rst[c]
    /\ IF cltFin[c]
       THEN doomed' = [doomed EXCEPT ![c] = TRUE] /\ UNCHANGED toClient
       ELSE toClient' = [toClient EXCEPT ![c] = Append(@, Head(hand[c]))] /\ UNCHANGED doomed
    /\ hand' = [hand EXCEPT ![c] = <<>>]
    /\ serves' = [serves EXCEPT ![c] = IF Prog.serves = "rounds" THEN "left" ELSE "reading"]
    /\ UNCHANGED <<version, started, held, toServer, user, cltFin, srvFin, rst>>

\* The units that were read go back, or, in tcp4, as many of another text.
WriteBack(c) ==
    /\ serves[c] = "writing" /\ ~rst[c]
    /\ LET text == IF Prog.serves = "rounds" THEN [u \in 1..Len(hand[c]) |-> Other]
                                             ELSE hand[c]
       IN IF cltFin[c]
          THEN doomed' = [doomed EXCEPT ![c] = TRUE] /\ UNCHANGED toClient
          ELSE toClient' = [toClient EXCEPT ![c] = @ \o text] /\ UNCHANGED doomed
    /\ hand' = [hand EXCEPT ![c] = <<>>]
    /\ serves' = [serves EXCEPT ![c] = IF Prog.serves = "rounds" THEN "left" ELSE "reading"]
    /\ UNCHANGED <<version, started, held, toServer, user, cltFin, srvFin, rst>>

\* SIGPIPE, the -1 of write, or in tcp7 and tcp8 the read that follows a writen
\* whose result is ignored: the process ends.
WritePipe(c) ==
    /\ serves[c] = "writing" /\ rst[c]
    /\ Quits(c)
    /\ UNCHANGED <<version, round, restarts, refused, bytes, user, cltFin, doomed>>

\* A child of tcp3 or tcp9 goes back to accept on the socket it has closed and
\* fails there; the others close both sockets and return.
Leave(c) ==
    /\ serves[c] = "left" /\ Prog.serves # "rounds"
    /\ Quits(c)
    /\ UNCHANGED <<version, round, restarts, refused, bytes, user, cltFin, doomed>>

\* tcp4 closes both sockets after each exchange and opens new ones; it ends
\* after the last, or when its client closed without a line.
NextRound(c) ==
    /\ serves[c] = "left" /\ Prog.serves = "rounds"
    /\ Stops({c})
    /\ round' = round + 1
    /\ server' = IF (cltFin[c] /\ sent[c] = 0) \/ round' = Rounds THEN "gone" ELSE "boot"
    /\ UNCHANGED <<version, restarts, refused, bytes, user, cltFin, doomed>>

-----------------------------------------------------------------------------
(* The clients *)

Connect(c) ==
    /\ client[c] = "idle"
    /\ IF server \in {"accept", "serving"} \/ copies # {}
       THEN client' = [client EXCEPT ![c] = "typing"] /\ backlog' = backlog \cup {c}
       ELSE client' = [client EXCEPT ![c] = "gone"] /\ UNCHANGED backlog
    /\ UNCHANGED <<version, started, copies, kept, serves, hand, bytes, sent, got, tcp>>

\* fgets and write.  After a reset the client ends: by SIGPIPE, by the -1 it
\* looks at, or, in tcp7 and tcp8, by the 0 that the next read returns.
SendLine(c) ==
    /\ client[c] = "typing" /\ sent[c] < MaxLines
    /\ IF rst[c]
       THEN client' = [client EXCEPT ![c] = "gone"] /\ UNCHANGED <<sent, toServer, doomed>>
       ELSE /\ client' = [client EXCEPT ![c] = "reading"]
            /\ sent' = [sent EXCEPT ![c] = @ + 1]
            /\ IF srvFin[c]
               THEN doomed' = [doomed EXCEPT ![c] = TRUE] /\ UNCHANGED toServer
               ELSE toServer' = [toServer EXCEPT ![c] = @ \o Line(sent[c] + 1)]
                    /\ UNCHANGED doomed
    /\ UNCHANGED <<version, started, conns, toClient, got, cltFin, srvFin, rst>>

\* The client closes, or exits: a FIN, or a reset if an answer lies unread.
CloseClient(c) ==
    /\ client' = [client EXCEPT ![c] = "gone"]
    /\ cltFin' = [cltFin EXCEPT ![c] = @ \/ (toClient[c] = <<>> /\ ~rst[c])]
    /\ rst' = [rst EXCEPT ![c] = @ \/ toClient[c] # <<>>]

InputEnds(c) ==
    /\ client[c] = "typing"
    /\ CloseClient(c)
    /\ UNCHANGED <<version, started, conns, bytes, sent, got, srvFin, doomed>>

\* One read of the raw clients.
AnswerRaw(c) ==
    /\ client[c] = "reading" /\ ~Prog.whole
    /\ \E n \in 1..2 :
         /\ n <= Len(toClient[c])
         /\ got' = [got EXCEPT ![c] = @ \o SubSeq(toClient[c], 1, n)]
         /\ toClient' = [toClient EXCEPT ![c] = SubSeq(@, n + 1, Len(@))]
    /\ client' = [client EXCEPT ![c] = "typing"]
    /\ UNCHANGED <<version, started, conns, toServer, sent, tcp>>

\* Mutant: read in the place of readn.
AnswerWholePart(c) ==
    /\ client[c] = "reading" /\ Prog.whole
    /\ \E n \in 1..2 :
         /\ n <= Len(toClient[c])
         /\ got' = [got EXCEPT ![c] = @ \o SubSeq(toClient[c], 1, n)]
         /\ toClient' = [toClient EXCEPT ![c] = SubSeq(@, n + 1, Len(@))]
    /\ client' = [client EXCEPT ![c] = "typing"]
    /\ UNCHANGED <<version, started, conns, toServer, sent, tcp>>

\* readn of header and payload, or readline.
AnswerWhole(c) ==
    /\ client[c] = "reading" /\ Prog.whole /\ Len(toClient[c]) >= 2
    /\ got' = [got EXCEPT ![c] = @ \o SubSeq(toClient[c], 1, 2)]
    /\ toClient' = [toClient EXCEPT ![c] = SubSeq(@, 3, Len(@))]
    /\ client' = [client EXCEPT ![c] = "typing"]
    /\ UNCHANGED <<version, started, conns, toServer, sent, tcp>>

\* 0: the raw clients print nothing and go on typing, the others leave; -1
\* ends all of them.
AnswerEnd(c) ==
    /\ client[c] = "reading" /\ Len(toClient[c]) < (IF Prog.whole THEN 2 ELSE 1)
    /\ srvFin[c] \/ rst[c]
    /\ IF srvFin[c] /\ ~Prog.whole
       THEN client' = [client EXCEPT ![c] = "typing"] /\ UNCHANGED <<cltFin, rst>>
       ELSE CloseClient(c)
    /\ UNCHANGED <<version, started, conns, bytes, sent, got, srvFin, doomed>>

\* The reset that answers data sent to a closed end.
ResetArrives(c) ==
    /\ doomed[c] /\ ~rst[c]
    /\ rst' = [rst EXCEPT ![c] = TRUE]
    /\ doomed' = [doomed EXCEPT ![c] = FALSE]
    /\ UNCHANGED <<version, started, conns, bytes, user, cltFin, srvFin>>

-----------------------------------------------------------------------------
Serve(c) ==
    \/ Fork(c) \/ ChildCloses(c) \/ ReadRaw(c) \/ ReadWhole(c) \/ ReadEnd(c) \/ ReadError(c)
    \/ WriteBack(c) \/ WritePipe(c) \/ Leave(c) \/ NextRound(c)

Answered(c) == AnswerRaw(c) \/ AnswerWhole(c) \/ AnswerEnd(c)

Next ==
    \/ Bind \/ Restart \/ TimeWaitEnds
    \/ \E c \in Clients :
         \/ Accept(c) \/ ForkFails(c) \/ ParentCloses(c) \/ Serve(c)
         \/ Connect(c) \/ SendLine(c) \/ InputEnds(c) \/ Answered(c) \/ ResetArrives(c)

Spec == Init /\ [][Next]_vars

\* Processes run and segments arrive; users type and start programs at will.
Fairness ==
    /\ WF_vars(Bind)
    /\ \A c \in Clients : /\ WF_vars(Accept(c)) /\ WF_vars(ParentCloses(c)) /\ WF_vars(Serve(c))
                          /\ WF_vars(Answered(c)) /\ WF_vars(ResetArrives(c))

FairSpec == Spec /\ Fairness

-----------------------------------------------------------------------------
(* Properties *)

\* What comes back to a client is what it sent, in order and without a gap or
\* an addition, however reads cut it; but for tcp4, which answers with a text
\* of its own.
EchoesItsLines ==
    \A c \in Clients :
        Prog.serves # "rounds" => IsPrefix(got[c] \o toClient[c], Lines(sent[c]))

\* A client that puts lines together has the answer to its last line before it
\* takes the next one; a raw client can fall behind by up to one unit for each
\* line it has sent, and then takes the rest of an old answer for a new one.
InStep ==
    \A c \in Clients :
        client[c] = "typing" /\ ~srvFin[c] /\ ~rst[c] =>
            Len(got[c]) >= (IF Prog.whole THEN 2 ELSE 1) * sent[c]

\* With SO_REUSEADDR a start is refused its port only in the moment between a
\* fork and the child's close(sockfd), when the parent has failed to fork again
\* and is gone; children that serve, connections in TIME_WAIT and the rounds of
\* tcp4 never stand in the way.
BindsAgain ==
    [][refused' /\ ~refused => version = "tcp1" \/ \E c \in Clients : serves[c] = "forked"]_vars

\* A client that waits for an answer gets one, or is told that there will be
\* none, if its connection was accepted, or the server forks, or has ended:
\* also after a failed fork, and in the backlog of a socket that is closed.
NobodyForgotten ==
    \A c \in Clients :
        /\ client[c] = "reading"
        /\ serves[c] # "none" \/ Prog.serves = "forks" \/ server = "gone"
        ~> client[c] # "reading"
=============================================================================
