---------------------------- MODULE ThreadServer ----------------------------
(***************************************************************************)
(* socket/multpthreadframe: a server that starts a thread for each         *)
(* connection (server.c, sockSrv.c), and its clients, processes that each  *)
(* send one request through an interface with time limits (client.c,       *)
(* sockClt.c).                                                             *)
(*                                                                         *)
(* All threads share one table of descriptors, in which the kernel gives   *)
(* away the lowest free one, and one semaphore, which outlives the         *)
(* process.  The server may crash and be started again, or a second time   *)
(* while it runs.  A frame is one message here: FrameReader is about how   *)
(* readn puts it together.  The counter that the semaphore guards is the   *)
(* subject of SemLock.                                                     *)
(***************************************************************************)
EXTENDS Integers, Sequences, FiniteSets

CONSTANTS Clients,
          Junk,       \* threads that an accept without a connection may create
          MaxFd,      \* the descriptors that may be open: 0 is standard input
          Permits,    \* the value initSrv gives the semaphore: two
          MaxStarts,  \* bound on crashes and further starts
          Crowded     \* whether a send may find no room for all of its time

ASSUME ThreadServerAssumption ==
    /\ MaxFd \in Nat /\ Permits \in Nat \ {0} /\ MaxStarts \in Nat
    /\ Crowded \in BOOLEAN
    /\ IsFiniteSet(Clients) /\ IsFiniteSet(Junk)
    /\ Junk \cap (Clients \X {1, 2}) = {}

-----------------------------------------------------------------------------
Conns   == Clients \X {1, 2}     \* the first of a client and that after a reconnect
Threads == Conns \cup Junk       \* a thread has the name of its connection
Fds     == 0..MaxFd

VARIABLES server,    \* "up" or "down"
          starts,    \* crashes and second starts
          again,     \* a second server has been started since this one was
          sem,       \* the value of the semaphore
          table,     \* the server's descriptors
          backlog,   \* connections waiting to be accepted
          thread,    \* what each thread is doing
          fd,        \* its connfd
          file,      \* what the read it is blocked in reads from
          request,   \* whose request is in its recvbuf
          client,    \* what each client is doing
          try,       \* the connection it is using, 1 or 2; 0 before
          got,       \* whose answer it has received
          toServer, toClient,   \* frames on their way, by who asked
          cltFin, srvFin,       \* the end has been closed
          rst,                  \* the connection is reset
          doomed,               \* data has gone to an end that had closed
          performed             \* how often each client's request was performed

process   == <<server, starts, again>>
kernel    == <<table, backlog>>
threads   == <<thread, fd, file, request>>
clients   == <<client, try, got>>
frames    == <<toServer, toClient>>
tcp       == <<cltFin, srvFin, rst, doomed>>
vars      == <<process, sem, kernel, threads, clients, frames, tcp, performed>>

Conn(k) == <<k, try[k]>>

None  == <<>>            \* no client, no file
Stdin == <<"stdin">>     \* the file of descriptor 0 at first

TypeOK ==
    /\ server \in {"up", "down"} /\ starts \in 0..MaxStarts /\ again \in BOOLEAN
    /\ sem \in Nat
    /\ table \in [Fds -> {None, Stdin} \cup Conns]
    /\ backlog \in SUBSET Conns
    /\ thread \in [Threads -> {"none", "recv", "reading", "p", "inside", "send",
                               "close", "gone"}]
    /\ fd \in [Threads -> Fds]
    /\ file \in [Threads -> {None, Stdin} \cup Conns]
    /\ request \in [Threads -> {None} \cup Clients]
    /\ client \in [Clients -> {"connect", "send", "resend", "reconnect", "recv", "done", "failed"}]
    /\ try \in [Clients -> 0..2]
    /\ got \in [Clients -> {None} \cup Clients]
    /\ toServer \in [Conns -> Seq(Clients)] /\ toClient \in [Conns -> Seq(Clients)]
    /\ cltFin \in [Conns -> BOOLEAN] /\ srvFin \in [Conns -> BOOLEAN]
    /\ rst \in [Conns -> BOOLEAN] /\ doomed \in [Conns -> BOOLEAN]
    /\ performed \in [Clients -> Nat]

NewTable == [n \in Fds |-> IF n = 0 THEN Stdin ELSE None]

Init ==
    /\ server = "down" /\ starts = 0 /\ again = FALSE
    /\ sem = 0
    /\ table = NewTable /\ backlog = {}
    /\ thread = [t \in Threads |-> "none"] /\ fd = [t \in Threads |-> 0]
    /\ file = [t \in Threads |-> None] /\ request = [t \in Threads |-> None]
    /\ client = [k \in Clients |-> "connect"] /\ try = [k \in Clients |-> 0]
    /\ got = [k \in Clients |-> None]
    /\ toServer = [c \in Conns |-> <<>>] /\ toClient = [c \in Conns |-> <<>>]
    /\ cltFin = [c \in Conns |-> FALSE] /\ srvFin = [c \in Conns |-> FALSE]
    /\ rst = [c \in Conns |-> FALSE] /\ doomed = [c \in Conns |-> FALSE]
    /\ performed = [k \in Clients |-> 0]

-----------------------------------------------------------------------------
(* The server process *)

Inside == {t \in Threads : thread[t] = "inside"}

\* The semaphore is created, or the one that exists is opened; its value is
\* set in either case.
InitSrv == sem' = Permits

\* Mutant: the value of the semaphore is left as it is, as sem.c does.
StartWithoutValue ==
    /\ server = "down"
    /\ server' = "up" /\ again' = FALSE
    /\ table' = NewTable
    /\ UNCHANGED <<starts, sem, backlog, threads, clients, frames, tcp, performed>>

\* SO_REUSEADDR lets sockSrvInit bind whatever a crash has left behind.
Start ==
    /\ server = "down"
    /\ server' = "up" /\ again' = FALSE
    /\ InitSrv
    /\ table' = NewTable
    /\ UNCHANGED <<starts, backlog, threads, clients, frames, tcp, performed>>

\* A second server has set the value, too, when its bind fails.
SecondStart ==
    /\ server = "up" /\ starts < MaxStarts
    /\ starts' = starts + 1 /\ again' = TRUE
    /\ InitSrv
    /\ UNCHANGED <<server, kernel, threads, clients, frames, tcp, performed>>

\* The connections S lose their last descriptor: a FIN, or a reset if a
\* request lies unread in inbox.
CloseConns(S, inbox) ==
    /\ srvFin' = [c \in Conns |-> srvFin[c] \/ (c \in S /\ ~rst[c] /\ inbox[c] = <<>>)]
    /\ rst' = [c \in Conns |-> rst[c] \/ (c \in S /\ inbox[c] # <<>>)]

\* What a table of descriptors and reads in progress keep open.
Open(tab, reads) == Conns \cap ({tab[n] : n \in Fds} \cup {reads[t] : t \in Threads})

\* The kernel closes every descriptor and resets what waits to be accepted.
\* What SEM_UNDO gives back no longer matters: Start sets the value.
Crash ==
    /\ server = "up" /\ starts < MaxStarts
    /\ server' = "down" /\ starts' = starts + 1
    /\ thread' = [t \in Threads |-> IF thread[t] = "none" THEN "none" ELSE "gone"]
    /\ file' = [t \in Threads |-> None]
    /\ table' = NewTable /\ backlog' = {}
    /\ LET closed == Open(table, file)
       IN /\ srvFin' = [c \in Conns |-> srvFin[c] \/ (c \in closed /\ ~rst[c] /\ toServer[c] = <<>>)]
          /\ rst' = [c \in Conns |-> \/ rst[c] \/ c \in backlog
                                     \/ c \in closed /\ toServer[c] # <<>>]
    /\ UNCHANGED <<again, sem, fd, request, clients, frames, cltFin, doomed, performed>>

\* The kernel's choice of a descriptor, if there is one.
Free      == {n \in Fds : table[n] = None}
LowestFree == CHOOSE n \in Free : \A m \in Free : n <= m

\* Mutant: the loop closes connfd after it has started the thread, as the forking
\* server does.
AcceptCloses(c) ==
    /\ server = "up" /\ c \in backlog /\ Free # {}
    /\ backlog' = backlog \ {c}
    /\ thread' = [thread EXCEPT ![c] = "recv"]
    /\ fd' = [fd EXCEPT ![c] = LowestFree]
    /\ CloseConns({c}, toServer)
    /\ UNCHANGED <<process, sem, table, file, request, clients, frames, cltFin, doomed, performed>>

\* A thread is created for the descriptor that accept returns.  If that is 0,
\* sockSrvAccept reports an error and connfd keeps its 0: the same one.
Accept(c) ==
    /\ server = "up" /\ c \in backlog /\ Free # {}
    /\ backlog' = backlog \ {c}
    /\ table' = [table EXCEPT ![LowestFree] = c]
    /\ thread' = [thread EXCEPT ![c] = "recv"]
    /\ fd' = [fd EXCEPT ![c] = LowestFree]
    /\ UNCHANGED <<process, sem, file, request, clients, frames, tcp, performed>>

\* Nobody looks at what pthread_create returns.
CreateFails(c) ==
    /\ server = "up" /\ c \in backlog /\ Free # {}
    /\ backlog' = backlog \ {c}
    /\ table' = [table EXCEPT ![LowestFree] = c]
    /\ UNCHANGED <<process, sem, threads, clients, frames, tcp, performed>>

\* accept fails, with no free descriptor (EMFILE) or one (ENOMEM, ENFILE).  The
\* loop tests for a timeout only, and starts a thread on connfd = 0.
AcceptFails(j) ==
    /\ server = "up" /\ backlog # {}
    /\ thread[j] = "none"
    /\ thread' = [thread EXCEPT ![j] = "recv"]
    /\ UNCHANGED <<process, sem, kernel, fd, file, request, clients, frames, tcp, performed>>

-----------------------------------------------------------------------------
(* A thread *)

\* read_timeout always returns 0; the read looks its descriptor up once, and
\* stays with that file whoever closes the descriptor.
BeginRead(t) ==
    /\ thread[t] = "recv"
    /\ IF table[fd[t]] = None
       THEN thread' = [thread EXCEPT ![t] = "close"] /\ UNCHANGED file
       ELSE /\ thread' = [thread EXCEPT ![t] = "reading"]
            /\ file' = [file EXCEPT ![t] = table[fd[t]]]
    /\ UNCHANGED <<process, sem, kernel, fd, request, clients, frames, tcp, performed>>

\* The read of t returns, and with it the last reference to a connection
\* that was closed in the meantime may be gone.
EndRead(t, inbox) ==
    /\ file' = [file EXCEPT ![t] = None]
    /\ CloseConns(Open(table, file) \ Open(table, [file EXCEPT ![t] = None]), inbox)

ReadRequest(t) ==
    /\ thread[t] = "reading" /\ file[t] \in Conns /\ toServer[file[t]] # <<>>
    /\ request' = [request EXCEPT ![t] = Head(toServer[file[t]])]
    /\ toServer' = [toServer EXCEPT ![file[t]] = Tail(@)]
    /\ EndRead(t, toServer')
    /\ thread' = [thread EXCEPT ![t] = "p"]
    /\ UNCHANGED <<process, sem, kernel, fd, clients, toClient, cltFin, doomed, performed>>

\* readn returns less than it was asked for, or -1.
ReadEnds(t) ==
    /\ thread[t] = "reading"
    /\ file[t] \in Conns => /\ toServer[file[t]] = <<>>
                            /\ cltFin[file[t]] \/ rst[file[t]]
    /\ EndRead(t, toServer)
    /\ thread' = [thread EXCEPT ![t] = "close"]
    /\ UNCHANGED <<process, sem, kernel, fd, request, clients, frames, cltFin, doomed, performed>>

P(t) ==
    /\ thread[t] = "p" /\ sem > 0
    /\ sem' = sem - 1
    /\ thread' = [thread EXCEPT ![t] = "inside"]
    /\ performed' = [performed EXCEPT ![request[t]] = @ + 1]
    /\ UNCHANGED <<process, kernel, fd, file, request, clients, frames, tcp>>

\* Mutant: the permit is not given back.
VForgotten(t) ==
    /\ thread[t] = "inside"
    /\ thread' = [thread EXCEPT ![t] = "send"]
    /\ UNCHANGED <<process, sem, kernel, fd, file, request, clients, frames, tcp, performed>>

V(t) ==
    /\ thread[t] = "inside"
    /\ sem' = sem + 1
    /\ thread' = [thread EXCEPT ![t] = "send"]
    /\ UNCHANGED <<process, kernel, fd, file, request, clients, frames, tcp, performed>>

\* The answer goes wherever connfd leads now.
SendAnswer(t) ==
    /\ thread[t] = "send"
    /\ LET c == table[fd[t]]
           fails == c \notin Conns \/ (c \in Conns /\ rst[c])
       IN /\ thread' = [thread EXCEPT ![t] = IF fails THEN "close" ELSE "recv"]
          /\ toClient' = IF fails \/ cltFin[c] THEN toClient
                         ELSE [toClient EXCEPT ![c] = Append(@, request[t])]
          /\ doomed' = IF fails \/ ~cltFin[c] THEN doomed ELSE [doomed EXCEPT ![c] = TRUE]
    /\ UNCHANGED <<process, sem, kernel, fd, file, request, clients, toServer,
                   cltFin, srvFin, rst, performed>>

\* close(connfd), whoever has it by now.
Close(t) ==
    /\ thread[t] = "close"
    /\ thread' = [thread EXCEPT ![t] = "gone"]
    /\ table' = [table EXCEPT ![fd[t]] = None]
    /\ CloseConns(Open(table, file) \ Open(table', file), toServer)
    /\ UNCHANGED <<process, sem, backlog, fd, file, request, clients, frames,
                   cltFin, doomed, performed>>

-----------------------------------------------------------------------------
(* A client *)

\* connect_timeout succeeds: the kernel completes the handshake on its own.
Connect(k) ==
    /\ client[k] \in {"connect", "reconnect"} /\ server = "up"
    /\ try' = [try EXCEPT ![k] = @ + 1]
    /\ backlog' = backlog \cup {<<k, try[k] + 1>>}
    /\ client' = [client EXCEPT ![k] = IF @ = "connect" THEN "send" ELSE "recv"]
    /\ UNCHANGED <<process, sem, table, threads, got, frames, tcp, performed>>

\* The process of k ends with the given result: its connections are closed.
Exit(k, result) ==
    /\ client' = [client EXCEPT ![k] = result]
    /\ cltFin' = [c \in Conns |-> cltFin[c] \/ (c[1] = k /\ c[2] \in 1..try[k])]

\* Refused, or the time is over.
ConnectFails(k) ==
    /\ client[k] \in {"connect", "reconnect"}
    /\ Exit(k, "failed")
    /\ UNCHANGED <<process, sem, kernel, threads, try, got, frames, srvFin, rst, doomed, performed>>

\* The request goes out.
WriteRequest(k) ==
    /\ ~rst[Conn(k)]
    /\ IF srvFin[Conn(k)]
       THEN doomed' = [doomed EXCEPT ![Conn(k)] = TRUE] /\ UNCHANGED toServer
       ELSE toServer' = [toServer EXCEPT ![Conn(k)] = Append(@, k)] /\ UNCHANGED doomed
    /\ client' = [client EXCEPT ![k] = "recv"]

Send(k) ==
    /\ client[k] = "send"
    /\ WriteRequest(k)
    /\ UNCHANGED <<process, sem, kernel, threads, try, got, toClient, cltFin, srvFin, rst, performed>>

\* Mutant: the limit is looked at after the write.
SendTimesOutLate(k) ==
    /\ Crowded /\ client[k] = "send" /\ ~rst[Conn(k)]
    /\ toServer' = [toServer EXCEPT ![Conn(k)] = Append(@, k)]
    /\ client' = [client EXCEPT ![k] = "resend"]
    /\ UNCHANGED <<process, sem, kernel, threads, try, got, toClient, tcp, performed>>

\* write_timeout reports, before anything is written, that there was no room
\* for the time allowed.  A new connection has room for the small request here;
\* the interface is modelled for a crowded one as well.
SendTimesOut(k) ==
    /\ Crowded /\ client[k] = "send"
    /\ client' = [client EXCEPT ![k] = "resend"]
    /\ UNCHANGED <<process, sem, kernel, threads, try, got, frames, tcp, performed>>

\* writen returns -1: the client connects anew.
SendFails(k) ==
    /\ client[k] = "send" /\ rst[Conn(k)]
    /\ client' = [client EXCEPT ![k] = "reconnect"]
    /\ UNCHANGED <<process, sem, kernel, threads, try, got, frames, tcp, performed>>

\* The second attempt, of which nobody asks whether it succeeded.
Resend(k) ==
    /\ client[k] = "resend"
    /\ \/ WriteRequest(k)
       \/ /\ Crowded \/ rst[Conn(k)]
          /\ client' = [client EXCEPT ![k] = "recv"] /\ UNCHANGED <<toServer, doomed>>
    /\ UNCHANGED <<process, sem, kernel, threads, try, got, toClient, cltFin, srvFin, rst, performed>>

\* The answer arrives; the process prints it and ends.
Receive(k) ==
    /\ client[k] = "recv" /\ toClient[Conn(k)] # <<>>
    /\ got' = [got EXCEPT ![k] = Head(toClient[Conn(k)])]
    /\ toClient' = [toClient EXCEPT ![Conn(k)] = Tail(@)]
    /\ Exit(k, "done")
    /\ UNCHANGED <<process, sem, kernel, threads, try, toServer, srvFin, rst, doomed, performed>>

\* The server has closed the connection, or it is reset.
ReceiveFails(k) ==
    /\ client[k] = "recv" /\ toClient[Conn(k)] = <<>>
    /\ srvFin[Conn(k)] \/ rst[Conn(k)]
    /\ Exit(k, "failed")
    /\ UNCHANGED <<process, sem, kernel, threads, try, got, frames, srvFin, rst, doomed, performed>>

\* The reset that answers data sent to a closed end.
ResetArrives(c) ==
    /\ doomed[c] /\ ~rst[c]
    /\ rst' = [rst EXCEPT ![c] = TRUE]
    /\ doomed' = [doomed EXCEPT ![c] = FALSE]
    /\ UNCHANGED <<process, sem, kernel, threads, clients, frames, cltFin, srvFin, performed>>

-----------------------------------------------------------------------------
Work(t) == BeginRead(t) \/ ReadRequest(t) \/ ReadEnds(t) \/ P(t) \/ V(t) \/ SendAnswer(t) \/ Close(t)

Call(k) ==
    \/ Connect(k) \/ ConnectFails(k)
    \/ Send(k) \/ SendTimesOut(k) \/ SendFails(k) \/ Resend(k)
    \/ Receive(k) \/ ReceiveFails(k)

Next ==
    \/ Start \/ SecondStart \/ Crash
    \/ \E c \in Conns : Accept(c) \/ CreateFails(c) \/ ResetArrives(c)
    \/ \E j \in Junk : AcceptFails(j)
    \/ \E t \in Threads : Work(t)
    \/ \E k \in Clients : Call(k)

Spec == Init /\ [][Next]_vars

\* Processes and threads run, except that a read from the terminal need never
\* return, and segments arrive; starts and crashes happen or not.
Fairness ==
    /\ \A c \in Conns : WF_vars(Accept(c)) /\ WF_vars(ResetArrives(c))
    /\ \A c \in Conns : WF_vars(Work(c))
    /\ \A j \in Junk : WF_vars(Work(j) /\ file[j] # Stdin)
    /\ \A k \in Clients : WF_vars(Call(k))

FairSpec == Spec /\ Fairness

-----------------------------------------------------------------------------
(* Properties *)

\* Two threads may share descriptor 0 once two accepts have failed.
Shared == Cardinality({j \in Junk : thread[j] # "none"}) > 1

\* A thread uses and closes its own connection and no other, and a client
\* receives the answer to its own request: descriptors are given away again
\* only after their thread is done with them.  Descriptor 0, which failed
\* accepts hand out too, is the exception once there have been two of these.
OwnConnection ==
    /\ \A c \in Conns :
         /\ thread[c] \notin {"none", "gone"}
         /\ fd[c] = 0 => ~Shared
         => table[fd[c]] = c
    /\ \A k \in Clients : got[k] \in {None, k} \/ Shared

\* No request is performed twice: an answer that does not come, a time limit,
\* a lost connection or a crash never makes the client send what the server
\* has performed once more.
PerformedOnce == \A k \in Clients : performed[k] <= 1

\* No permit of the semaphore is lost, whatever ends a thread or the server;
\* one is gained only when a second server has been started.
PermitsKept ==
    server = "up" => /\ sem + Cardinality(Inside) >= Permits
                     /\ ~again => sem + Cardinality(Inside) = Permits

\* A client that waits for the answer to a request on a connection that has a
\* thread, or had one before a crash, receives it or is told that the
\* connection has ended, unless threads share a descriptor.
AnsweredOrTold ==
    \A c \in Conns :
        LET k == c[1]
            Waits == client[k] = "recv" /\ Conn(k) = c
        IN (Waits /\ toServer[c] # <<>> /\ thread[c] # "none") ~> (~Waits \/ Shared)

\* The limit on every receive: no client waits for an answer for ever.
ReceiveEnds == \A k \in Clients : (client[k] = "recv") ~> (client[k] # "recv")
=============================================================================
