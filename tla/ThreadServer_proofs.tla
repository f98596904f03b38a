------------------------- MODULE ThreadServer_proofs -------------------------
(***************************************************************************)
(* The thread-per-connection server and its clients, for any number of     *)
(* both, any number of descriptors and of failed accepts, crashes and      *)
(* starts.  The invariant is built in four layers, each on the one before: *)
(* types, permits, requests, and who has which descriptor.                 *)
(***************************************************************************)
EXTENDS ThreadServer, FiniteSetTheorems, WellFoundedInduction, SequenceTheorems, TLAPS

-----------------------------------------------------------------------------
(* Types *)

\* The number of connections a client has made at each place.
Tries ==
    \A k \in Clients :
        /\ client[k] = "connect" => try[k] = 0
        /\ client[k] \in {"send", "resend", "reconnect"} => try[k] = 1
        /\ client[k] = "recv" => try[k] \in 1..2

\* A thread that has passed its receive has a request.
Requests == \A t \in Threads : thread[t] \in {"p", "inside", "send"} => request[t] \in Clients

Types == TypeOK /\ Tries /\ Requests

\* The kernel finds the lowest free descriptor.
LEMMA LowestFreeType ==
  ASSUME Free # {}
  PROVE  /\ LowestFree \in Free
         /\ \A m \in Free : LowestFree <= m
<1>1. Free \subseteq Nat  BY ThreadServerAssumption DEF Free, Fds
<1> DEFINE Below == {0..n : n \in Free}
           R     == StrictSubsetOrdering(Nat)
<1>2. Below \subseteq FiniteSubsetsOf(Nat) /\ Below # {}
  <2>1. ASSUME NEW n \in Free PROVE 0..n \in FiniteSubsetsOf(Nat)
    <3>1. IsFiniteSet(0..n)  BY <1>1, FS_Interval
    <3>2. 0..n \subseteq Nat  BY <1>1
    <3> QED BY <3>1, <3>2 DEF FiniteSubsetsOf
  <2> QED BY <2>1
<1>3. IsWellFoundedOn(R, FiniteSubsetsOf(Nat))
  BY FS_StrictSubsetOrderingWellFounded
<1>4. PICK x \in Below : \A y \in Below : <<y, x>> \notin R
  <2> HIDE DEF Below, R
  <2> QED BY <1>2, <1>3, WFMin
<1>5. PICK n \in Free : x = 0..n  BY DEF Below
<1>6. ASSUME NEW m \in Free PROVE n <= m
  <2>1. <<0..m, 0..n>> \notin R  BY <1>4, <1>5, <1>6 DEF Below
  <2>2. m < n => 0..m \subseteq 0..n /\ 0..m # 0..n
    <3>1. n \in 0..n /\ (m < n => n \notin 0..m)  BY <1>1
    <3> QED BY <1>1, <3>1
  <2>3. 0..m \in SUBSET Nat /\ 0..n \in SUBSET Nat  BY <1>1
  <2> QED BY <1>1, <2>1, <2>2, <2>3 DEF StrictSubsetOrdering
<1> QED BY <1>6 DEF LowestFree

\* The types hold at first.
LEMMA InitTypes == Init => Types
<1> SUFFICES ASSUME Init PROVE Types
  OBVIOUS
<1> USE ThreadServerAssumption DEF Init
<1>1. TypeOK
  <2>1. 0 \in Fds /\ 0 \in 0..MaxStarts /\ 0 \in 0..2  BY DEF Fds
  <2>2. table \in [Fds -> {None, Stdin} \cup Conns]  BY DEF NewTable
  <2>3. <<>> \in Seq(Clients)  OBVIOUS
  <2> QED BY <2>1, <2>2, <2>3 DEF TypeOK
<1>2. Tries     BY DEF Tries
<1>3. Requests  BY DEF Requests
<1> QED BY <1>1, <1>2, <1>3 DEF Types

\* A step of the server process keeps the types.
LEMMA ServerTypes ==
  ASSUME Types, \/ Start \/ SecondStart \/ Crash
                \/ \E c \in Conns : Accept(c) \/ CreateFails(c)
                \/ \E j \in Junk : AcceptFails(j)
  PROVE  Types'
<1> USE ThreadServerAssumption
<1> USE DEF Types, TypeOK, process, kernel, threads, clients, frames, tcp
<1>0. NewTable \in [Fds -> {None, Stdin} \cup Conns]  BY DEF NewTable
<1>1. CASE Start
  <2>1. TypeOK'  BY <1>0, <1>1 DEF Start, InitSrv
  <2> QED BY <1>1, <2>1 DEF Start, InitSrv, Tries, Requests
<1>2. CASE SecondStart
  <2>1. starts' \in 0..MaxStarts  BY <1>2 DEF SecondStart
  <2>2. TypeOK'  BY <1>2, <2>1 DEF SecondStart, InitSrv
  <2> QED BY <1>2, <2>2 DEF SecondStart, InitSrv, Tries, Requests
<1>3. CASE Crash
  <2>1. starts' \in 0..MaxStarts  BY <1>3 DEF Crash
  <2>2. srvFin' \in [Conns -> BOOLEAN] /\ rst' \in [Conns -> BOOLEAN]  BY <1>3 DEF Crash
  <2>3. thread' \in [Threads -> {"none", "gone"}]  BY <1>3 DEF Crash
  <2>4. TypeOK'  BY <1>0, <1>3, <2>1, <2>2, <2>3 DEF Crash
  <2> QED BY <1>3, <2>3, <2>4 DEF Crash, Tries, Requests
<1>4. ASSUME NEW c \in Conns, Accept(c) PROVE Types'
  <2>1. LowestFree \in Fds  BY <1>4, LowestFreeType DEF Accept, Free
  <2>2. TypeOK'  BY <1>4, <2>1 DEF Accept
  <2> QED BY <1>4, <2>2 DEF Accept, Tries, Requests, Threads
<1>5. ASSUME NEW c \in Conns, CreateFails(c) PROVE Types'
  <2>1. TypeOK'  BY <1>5 DEF CreateFails
  <2> QED BY <1>5, <2>1 DEF CreateFails, Tries, Requests
<1>6. ASSUME NEW j \in Junk, AcceptFails(j) PROVE Types'
  <2>1. TypeOK'  BY <1>6 DEF AcceptFails
  <2> QED BY <1>6, <2>1 DEF AcceptFails, Tries, Requests, Threads
<1> QED BY <1>1, <1>2, <1>3, <1>4, <1>5, <1>6

\* What the end of a read or a close does to connections.
LEMMA CloseConnsType ==
  ASSUME Types, NEW S, NEW inbox, CloseConns(S, inbox)
  PROVE  srvFin' \in [Conns -> BOOLEAN] /\ rst' \in [Conns -> BOOLEAN]
BY DEF Types, TypeOK, CloseConns

\* A step of a thread keeps the types.
LEMMA ThreadTypes ==
  ASSUME Types, NEW t \in Threads, Work(t)
  PROVE  Types'
<1> USE ThreadServerAssumption
<1> USE DEF Types, TypeOK, process, kernel, threads, clients, frames, tcp
<1>1. CASE BeginRead(t)
  <2>1. TypeOK'  BY <1>1, ZenonT(30) DEF BeginRead
  <2> QED BY <1>1, <2>1 DEF BeginRead, Tries, Requests
<1>2. CASE ReadRequest(t)
  <2>1. /\ Head(toServer[file[t]]) \in Clients
        /\ Tail(toServer[file[t]]) \in Seq(Clients)
    BY <1>2, HeadTailProperties DEF ReadRequest
  <2>2. srvFin' \in [Conns -> BOOLEAN] /\ rst' \in [Conns -> BOOLEAN]
    BY <1>2, CloseConnsType DEF ReadRequest, EndRead
  <2>3. TypeOK'  BY <1>2, <2>1, <2>2 DEF ReadRequest, EndRead
  <2> QED BY <1>2, <2>1, <2>3 DEF ReadRequest, Tries, Requests
<1>3. CASE ReadEnds(t)
  <2>1. srvFin' \in [Conns -> BOOLEAN] /\ rst' \in [Conns -> BOOLEAN]
    BY <1>3, CloseConnsType DEF ReadEnds, EndRead
  <2>2. TypeOK'  BY <1>3, <2>1 DEF ReadEnds, EndRead
  <2> QED BY <1>3, <2>2 DEF ReadEnds, Tries, Requests
<1>4. CASE P(t)
  <2>1. performed' \in [Clients -> Nat]
    <3>1. performed' = [performed EXCEPT ![request[t]] = @ + 1]  BY <1>4 DEF P
    <3>2. performed \in [Clients -> Nat]  OBVIOUS
    <3>3. request[t] \in Clients  BY <1>4 DEF P, Requests
    <3>4. performed[request[t]] + 1 \in Nat  BY <3>2, <3>3
    <3> QED BY <3>1, <3>2, <3>4
  <2>2. TypeOK'  BY <1>4, <2>1 DEF P
  <2> QED BY <1>4, <2>2 DEF P, Tries, Requests
<1>5. CASE V(t)
  <2>1. TypeOK'  BY <1>5 DEF V
  <2> QED BY <1>5, <2>1 DEF V, Tries, Requests
<1>6. CASE SendAnswer(t)
  <2>1. request[t] \in Clients  BY <1>6 DEF SendAnswer, Requests
  <2>2. toClient' \in [Conns -> Seq(Clients)]
    <3>1. \A c \in Conns : Append(toClient[c], request[t]) \in Seq(Clients)
      BY <2>1, AppendProperties
    <3> QED BY <1>6, <3>1 DEF SendAnswer
  <2>3. TypeOK'  BY <1>6, <2>2 DEF SendAnswer
  <2> QED BY <1>6, <2>3 DEF SendAnswer, Tries, Requests
<1>7. CASE Close(t)
  <2>1. srvFin' \in [Conns -> BOOLEAN] /\ rst' \in [Conns -> BOOLEAN]
    BY <1>7, CloseConnsType DEF Close
  <2>2. TypeOK'  BY <1>7, <2>1 DEF Close
  <2> QED BY <1>7, <2>2 DEF Close, Tries, Requests
<1> QED BY <1>1, <1>2, <1>3, <1>4, <1>5, <1>6, <1>7 DEF Work

\* A request that is written goes to the first connection of its client.
LEMMA WriteRequestType ==
  ASSUME Types, NEW k \in Clients, client[k] \in {"send", "resend"}, WriteRequest(k),
         UNCHANGED try
  PROVE  /\ Conn(k) = <<k, 1>> /\ Conn(k) \in Conns
         /\ toServer' \in [Conns -> Seq(Clients)]
         /\ doomed' \in [Conns -> BOOLEAN]
<1> USE DEF Types, TypeOK
<1>1. Conn(k) = <<k, 1>> /\ Conn(k) \in Conns  BY DEF Conn, Conns, Tries
<1>2. Append(toServer[Conn(k)], k) \in Seq(Clients)  BY <1>1, AppendProperties
<1> QED BY <1>1, <1>2, ZenonT(30) DEF WriteRequest

\* A step of a client keeps the types.
LEMMA ClientTypes ==
  ASSUME Types, NEW k \in Clients, Call(k)
  PROVE  Types'
<1> USE ThreadServerAssumption
<1> USE DEF Types, TypeOK, process, kernel, threads, clients, frames, tcp
<1>1. CASE Connect(k)
  <2>1. try[k] \in 0..1  BY <1>1 DEF Connect, Tries
  <2>2. try[k] + 1 \in 1..2 /\ <<k, try[k] + 1>> \in Conns  BY <2>1 DEF Conns
  <2>3. try' \in [Clients -> 0..2]  BY <1>1, <2>2 DEF Connect
  <2>4. TypeOK'  BY <1>1, <2>2, <2>3 DEF Connect
  <2>5. Tries'
    <3>1. client[k] = "connect" => try'[k] = 1  BY <1>1 DEF Connect, Tries
    <3> QED BY <1>1, <2>2, <3>1 DEF Connect, Tries
  <2> QED BY <1>1, <2>4, <2>5 DEF Connect, Requests
<1>2. CASE ConnectFails(k) \/ ReceiveFails(k)
  <2>1. cltFin' \in [Conns -> BOOLEAN]  BY <1>2 DEF ConnectFails, ReceiveFails, Exit
  <2>2. TypeOK'  BY <1>2, <2>1 DEF ConnectFails, ReceiveFails, Exit
  <2> QED BY <1>2, <2>2 DEF ConnectFails, ReceiveFails, Exit, Tries, Requests
<1>3. CASE Send(k)
  <2>1. toServer' \in [Conns -> Seq(Clients)] /\ doomed' \in [Conns -> BOOLEAN]
    BY <1>3, WriteRequestType DEF Send
  <2>2. TypeOK'  BY <1>3, <2>1 DEF Send, WriteRequest
  <2> QED BY <1>3, <2>2 DEF Send, WriteRequest, Tries, Requests
<1>4. CASE SendTimesOut(k) \/ SendFails(k)
  <2>1. TypeOK'  BY <1>4 DEF SendTimesOut, SendFails
  <2> QED BY <1>4, <2>1 DEF SendTimesOut, SendFails, Tries, Requests
<1>5. CASE Resend(k)
  <2>1. toServer' \in [Conns -> Seq(Clients)] /\ doomed' \in [Conns -> BOOLEAN]
    BY <1>5, WriteRequestType DEF Resend
  <2>2. client' = [client EXCEPT ![k] = "recv"]  BY <1>5 DEF Resend, WriteRequest
  <2>3. TypeOK'  BY <1>5, <2>1, <2>2 DEF Resend
  <2> QED BY <1>5, <2>2, <2>3 DEF Resend, Tries, Requests
<1>6. CASE Receive(k)
  <2>1. Conn(k) \in Conns  BY <1>6 DEF Receive, Conn, Conns, Tries
  <2>2. /\ Head(toClient[Conn(k)]) \in Clients
        /\ Tail(toClient[Conn(k)]) \in Seq(Clients)
    BY <1>6, <2>1, HeadTailProperties DEF Receive
  <2>3. cltFin' \in [Conns -> BOOLEAN]  BY <1>6 DEF Receive, Exit
  <2>4. TypeOK'  BY <1>6, <2>1, <2>2, <2>3 DEF Receive, Exit
  <2> QED BY <1>6, <2>4, SMTT(20) DEF Receive, Exit, Tries, Requests
<1> QED BY <1>1, <1>2, <1>3, <1>4, <1>5, <1>6 DEF Call

\* The types are inductive.
LEMMA NextTypes == Types /\ [Next]_vars => Types'
<1> SUFFICES ASSUME Types, [Next]_vars PROVE Types'
  OBVIOUS
<1> USE DEF Types, TypeOK, process, kernel, threads, clients, frames, tcp
<1>1. ASSUME NEW c \in Conns, ResetArrives(c) PROVE Types'
  <2>1. TypeOK'  BY <1>1 DEF ResetArrives
  <2> QED BY <1>1, <2>1 DEF ResetArrives, Tries, Requests
<1>2. CASE UNCHANGED vars
  <2>1. TypeOK'  BY <1>2 DEF vars
  <2> QED BY <1>2, <2>1 DEF vars, Tries, Requests
<1> QED BY <1>1, <1>2, ServerTypes, ThreadTypes, ClientTypes DEF Next

\* The types hold always.
LEMMA SpecTypes == Spec => []Types
  BY InitTypes, NextTypes, PTL DEF Spec

\* The server, its threads and its clients keep their types, for any number of
\* clients, descriptors, failed accepts and crashes.
THEOREM TypeOKHolds == Spec => []TypeOK
<1>1. Types => TypeOK  BY DEF Types
<1> QED BY <1>1, SpecTypes, PTL

-----------------------------------------------------------------------------
(* Permits *)

\* A thread has the name of a connection that its client has made, and starts
\* when that connection leaves the backlog.
Fresh ==
    \A c \in Conns :
        /\ c \in backlog => thread[c] = "none"
        /\ c \in backlog \/ thread[c] # "none" => c[2] <= try[c[1]]

\* Only Connect adds to the backlog, and what it adds is new.
LEMMA NextFresh ==
  ASSUME Types, Fresh, [Next]_vars
  PROVE  Fresh'
<1>0. /\ try \in [Clients -> 0..2] /\ backlog \subseteq Conns
      /\ thread \in [Threads -> {"none", "recv", "reading", "p", "inside", "send", "close", "gone"}]
      /\ \A c \in Conns : c[1] \in Clients /\ c[2] \in {1, 2} /\ c \in Threads /\ c \notin Junk
  BY ThreadServerAssumption DEF Types, TypeOK, Conns, Threads
<1>1. CASE Start \/ SecondStart
  BY <1>1 DEF Start, SecondStart, Fresh, kernel, threads, clients
<1>2. CASE Crash
  <2>1. backlog' = {} /\ try' = try
        /\ thread' = [t \in Threads |-> IF thread[t] = "none" THEN "none" ELSE "gone"]
    BY <1>2 DEF Crash, clients
  <2> QED BY <1>0, <2>1 DEF Fresh
<1>3. ASSUME NEW c \in Conns, Accept(c) \/ CreateFails(c) PROVE Fresh'
  <2>1. /\ c \in backlog /\ backlog' = backlog \ {c} /\ try' = try
        /\ thread' = [thread EXCEPT ![c] = "recv"] \/ thread' = thread
    BY <1>3 DEF Accept, CreateFails, clients, threads
  <2> QED BY <1>0, <2>1 DEF Fresh
<1>4. ASSUME NEW j \in Junk, AcceptFails(j) PROVE Fresh'
  <2>1. backlog' = backlog /\ try' = try /\ thread' = [thread EXCEPT ![j] = "recv"]
    BY <1>4 DEF AcceptFails, clients, kernel
  <2> QED BY <1>0, <2>1 DEF Fresh
<1>5. ASSUME NEW t \in Threads, Work(t) PROVE Fresh'
  <2>1. backlog' = backlog /\ try' = try /\ thread[t] # "none"
        /\ \E s \in {"recv", "reading", "p", "inside", "send", "close", "gone"} :
             thread' = [thread EXCEPT ![t] = s]
    BY <1>5 DEF Work, BeginRead, ReadRequest, ReadEnds, P, V, SendAnswer, Close,
                clients, kernel
  <2> QED BY <1>0, <2>1 DEF Fresh
<1>6. ASSUME NEW k \in Clients, Connect(k) PROVE Fresh'
  <2>1. /\ backlog' = backlog \cup {<<k, try[k] + 1>>} /\ thread' = thread
        /\ try' = [try EXCEPT ![k] = @ + 1]
    BY <1>6 DEF Connect, threads
  <2>2. \A c \in Conns : c[1] = k => (c = <<k, try[k] + 1>> <=> c[2] = try[k] + 1)
    BY DEF Conns
  <2> QED BY <1>0, <2>1, <2>2 DEF Fresh
<1>7. ASSUME NEW k \in Clients, Call(k), ~Connect(k) PROVE Fresh'
  <2>1. UNCHANGED <<backlog, try, thread>>
    BY <1>7 DEF Call, ConnectFails, Send, SendTimesOut, SendFails, Resend,
                Receive, ReceiveFails, kernel, threads
  <2> QED BY <2>1 DEF Fresh
<1>8. ASSUME NEW c \in Conns, ResetArrives(c) PROVE Fresh'
  BY <1>8 DEF ResetArrives, Fresh, kernel, threads, clients
<1>9. CASE UNCHANGED vars
  BY <1>9 DEF vars, Fresh, kernel, threads, clients
<1> QED BY <1>1, <1>2, <1>3, <1>4, <1>5, <1>6, <1>7, <1>8, <1>9 DEF Next

\* A server that is down has no threads that do anything.
DownIsDown == server = "down" => \A t \in Threads : thread[t] \in {"none", "gone"}

Permitted == Types /\ Fresh /\ DownIsDown /\ PermitsKept

\* Threads can be counted.
LEMMA ThreadsFinite == IsFiniteSet(Threads) /\ IsFiniteSet(Inside)
<1>1. IsFiniteSet({1, 2})
  <2>1. IsFiniteSet({1}) /\ {1, 2} = {1} \cup {2}  BY FS_Singleton
  <2> QED BY <2>1, FS_AddElement
<1>2. IsFiniteSet(Conns)  BY <1>1, FS_Product, ThreadServerAssumption DEF Conns
<1>3. IsFiniteSet(Threads)  BY <1>2, FS_Union, ThreadServerAssumption DEF Threads
<1>4. Inside \subseteq Threads  BY DEF Inside
<1> QED BY <1>3, <1>4, FS_Subset

\* Where nobody enters or leaves, and the server is not started, nothing changes.
LEMMA StaysPermitted ==
  ASSUME Permitted, Types', Fresh', UNCHANGED <<server, again, sem>>,
         \A t \in Threads : \/ thread'[t] = thread[t]
                            \/ /\ server = "up"
                               /\ thread[t] # "inside" /\ thread'[t] # "inside"
  PROVE  Permitted'
<1>1. Inside' = Inside  BY DEF Inside
<1>2. PermitsKept'  BY <1>1 DEF Permitted, PermitsKept
<1>3. DownIsDown'  BY DEF Permitted, DownIsDown
<1> QED BY <1>2, <1>3 DEF Permitted

\* A start and a second start set the value; a crash leaves nobody inside.
LEMMA StartPermits ==
  ASSUME Permitted, Types', Fresh', Start \/ SecondStart \/ Crash
  PROVE  Permitted'
<1> USE DEF Permitted
<1>0. Cardinality(Inside) \in Nat  BY ThreadsFinite, FS_CardinalityType
<1>1. CASE Start
  <2>1. Inside = {}  BY <1>1 DEF Start, Inside, DownIsDown
  <2>2. Inside' = Inside /\ sem' = Permits  BY <1>1 DEF Start, InitSrv, Inside, threads
  <2>3. Cardinality(Inside') = 0  BY <2>1, <2>2, FS_EmptySet
  <2>4. PermitsKept'  BY <2>2, <2>3, ThreadServerAssumption DEF PermitsKept
  <2> QED BY <1>1, <2>4 DEF Start, DownIsDown
<1>2. CASE SecondStart
  <2>1. Inside' = Inside /\ sem' = Permits  BY <1>2 DEF SecondStart, InitSrv, Inside, threads
  <2>2. PermitsKept'  BY <1>0, <1>2, <2>1, ThreadServerAssumption DEF PermitsKept, SecondStart
  <2> QED BY <1>2, <2>2 DEF SecondStart, DownIsDown
<1>3. CASE Crash
  <2>1. server' = "down" /\ \A t \in Threads : thread'[t] \in {"none", "gone"}
    BY <1>3 DEF Crash
  <2> QED BY <2>1 DEF DownIsDown, PermitsKept
<1> QED BY <1>1, <1>2, <1>3

\* P and V move one permit between the semaphore and a thread.
LEMMA SemaphorePermits ==
  ASSUME Permitted, Types', Fresh', NEW t \in Threads, P(t) \/ V(t)
  PROVE  Permitted'
<1> USE DEF Permitted
<1>0. IsFiniteSet(Inside) /\ Cardinality(Inside) \in Nat
  BY ThreadsFinite, FS_CardinalityType
<1>1. server = "up" /\ server' = server /\ again' = again
  BY DEF P, V, DownIsDown, Types, TypeOK, process
<1>2. thread \in [Threads -> {"none", "recv", "reading", "p", "inside", "send", "close", "gone"}]
      /\ sem \in Nat
  BY DEF Types, TypeOK
<1>3. CASE P(t)
  <2>1. Inside' = Inside \cup {t} /\ t \notin Inside  BY <1>2, <1>3 DEF P, Inside
  <2>2. Cardinality(Inside') = Cardinality(Inside) + 1  BY <1>0, <2>1, FS_AddElement
  <2>3. sem' = sem - 1  BY <1>3 DEF P
  <2>4. PermitsKept'
    BY <1>0, <1>1, <1>2, <2>2, <2>3, ThreadServerAssumption DEF PermitsKept
  <2> QED BY <1>1, <2>4 DEF DownIsDown
<1>4. CASE V(t)
  <2>1. Inside' = Inside \ {t} /\ t \in Inside  BY <1>2, <1>4 DEF V, Inside
  <2>2. Cardinality(Inside') = Cardinality(Inside) - 1  BY <1>0, <2>1, FS_RemoveElement
  <2>3. sem' = sem + 1  BY <1>4 DEF V
  <2>4. PermitsKept'
    BY <1>0, <1>1, <1>2, <2>2, <2>3, ThreadServerAssumption DEF PermitsKept
  <2> QED BY <1>1, <2>4 DEF DownIsDown
<1> QED BY <1>3, <1>4

\* Every step keeps the permits.
LEMMA NextPermits == Permitted /\ [Next]_vars => Permitted'
<1> SUFFICES ASSUME Permitted, [Next]_vars PROVE Permitted'
  OBVIOUS
<1>0. Types' /\ Fresh'  BY NextTypes, NextFresh DEF Permitted
<1>1. thread \in [Threads -> {"none", "recv", "reading", "p", "inside", "send", "close", "gone"}]
      /\ server \in {"up", "down"}
  BY DEF Permitted, Types, TypeOK
<1>2. CASE Start \/ SecondStart \/ Crash
  BY <1>0, <1>2, StartPermits
<1>3. ASSUME NEW c \in Conns, Accept(c) PROVE Permitted'
  <2>1. c \in backlog /\ server = "up" /\ UNCHANGED <<server, again, sem>>
        /\ thread' = [thread EXCEPT ![c] = "recv"]
    BY <1>3 DEF Accept, process
  <2>2. thread[c] = "none"  BY <2>1 DEF Permitted, Fresh
  <2> QED BY <1>0, <1>1, <2>1, <2>2, StaysPermitted
<1>4. ASSUME NEW c \in Conns, CreateFails(c) \/ ResetArrives(c) PROVE Permitted'
  BY <1>0, <1>4, StaysPermitted DEF CreateFails, ResetArrives, process, threads
<1>5. ASSUME NEW j \in Junk, AcceptFails(j) PROVE Permitted'
  <2>1. server = "up" /\ UNCHANGED <<server, again, sem>> /\ thread[j] = "none"
        /\ thread' = [thread EXCEPT ![j] = "recv"]
    BY <1>5 DEF AcceptFails, process
  <2> QED BY <1>0, <1>1, <2>1, StaysPermitted
<1>6. ASSUME NEW t \in Threads, P(t) \/ V(t) PROVE Permitted'
  BY <1>0, <1>6, SemaphorePermits
<1>7. ASSUME NEW t \in Threads,
             BeginRead(t) \/ ReadRequest(t) \/ ReadEnds(t) \/ SendAnswer(t) \/ Close(t)
      PROVE  Permitted'
  <2>1. thread[t] \in {"recv", "reading", "send", "close"}
    BY <1>7 DEF BeginRead, ReadRequest, ReadEnds, SendAnswer, Close
  <2>2. server = "up"  BY <1>1, <2>1 DEF Permitted, DownIsDown
  <2>3. UNCHANGED <<server, again, sem>>
    BY <1>7 DEF BeginRead, ReadRequest, ReadEnds, SendAnswer, Close, process
  <2>4. \E s \in {"recv", "reading", "p", "close", "gone"} : thread' = [thread EXCEPT ![t] = s]
    BY <1>7 DEF BeginRead, ReadRequest, ReadEnds, SendAnswer, Close
  <2> QED BY <1>0, <1>1, <2>1, <2>2, <2>3, <2>4, StaysPermitted
<1>8. ASSUME NEW k \in Clients, Call(k) PROVE Permitted'
  <2>1. UNCHANGED <<server, again, sem, thread>>
    BY <1>8 DEF Call, Connect, ConnectFails, Send, SendTimesOut, SendFails, Resend,
                Receive, ReceiveFails, process, threads
  <2> QED BY <1>0, <2>1, StaysPermitted
<1>9. CASE UNCHANGED vars
  BY <1>0, <1>9, StaysPermitted DEF vars, process, threads
<1> QED BY <1>2, <1>3, <1>4, <1>5, <1>6, <1>7, <1>8, <1>9 DEF Next, Work

\* The permits are right always.
LEMMA SpecPermits == Spec => []Permitted
<1>1. Init => Permitted
  BY InitTypes DEF Init, Permitted, Fresh, DownIsDown, PermitsKept, Conns, Threads
<1> QED BY <1>1, NextPermits, PTL DEF Spec

\* No permit of the semaphore is lost, and none is gained without a second
\* start, for any number of threads, crashes and starts.
THEOREM PermitsKeptHolds == Spec => []PermitsKept
<1>1. Permitted => PermitsKept  BY DEF Permitted
<1> QED BY <1>1, SpecPermits, PTL

-----------------------------------------------------------------------------
(* Requests: each is in one place *)

First(k)    == <<k, 1>>
Holds(t, k) == thread[t] = "p" /\ request[t] = k

\* A request is with its client, on the first connection, with one thread that
\* has not performed it, or performed; nothing is sent on a second connection.
Placed(k) ==
    /\ toServer[<<k, 2>>] = <<>>
    /\ toServer[First(k)] \in {<<>>, <<k>>}
    /\ performed[k] \in 0..1
    /\ client[k] \in {"connect", "send", "resend", "reconnect"} =>
         /\ toServer[First(k)] = <<>> /\ performed[k] = 0
         /\ \A t \in Threads : ~Holds(t, k)
    /\ toServer[First(k)] # <<>> => performed[k] = 0 /\ \A t \in Threads : ~Holds(t, k)
    /\ \A t \in Threads : Holds(t, k) =>
         performed[k] = 0 /\ \A u \in Threads : Holds(u, k) => u = t

OncePlaced == \A k \in Clients : Placed(k)

\* Whatever leaves requests, their performance and the threads at p alone, and
\* makes no client one that has not sent, keeps every request in its place.
LEMMA StaysPlaced ==
  ASSUME OncePlaced, UNCHANGED <<toServer, performed>>,
         \A k \in Clients :
             client'[k] \in {"connect", "send", "resend", "reconnect"} =>
                 client[k] \in {"connect", "send", "resend", "reconnect"},
         \A t \in Threads : thread'[t] = "p" => thread[t] = "p" /\ request'[t] = request[t]
  PROVE  OncePlaced'
<1> SUFFICES ASSUME NEW k \in Clients PROVE Placed(k)'
  BY DEF OncePlaced
<1>1. Placed(k)  BY DEF OncePlaced
<1>2. \A t \in Threads : Holds(t, k)' => Holds(t, k)  BY DEF Holds
<1> QED BY <1>1, <1>2 DEF Placed, First

\* A request is taken from the connection it was sent on.
LEMMA ReadPlaced ==
  ASSUME Types, OncePlaced, NEW t \in Threads, ReadRequest(t)
  PROVE  OncePlaced'
<1>1. PICK k \in Clients : file[t] = First(k) /\ toServer[file[t]] = <<k>>
  <2>1. file[t] \in Conns /\ toServer[file[t]] # <<>>  BY DEF ReadRequest
  <2>2. PICK k \in Clients : file[t] = <<k, 1>> \/ file[t] = <<k, 2>>  BY <2>1 DEF Conns
  <2> QED BY <2>1, <2>2 DEF OncePlaced, Placed, First
<1>2. Head(<<k>>) = k /\ Tail(<<k>>) = <<>>  OBVIOUS
<1>3. /\ toServer' = [toServer EXCEPT ![First(k)] = <<>>]
      /\ request' = [request EXCEPT ![t] = k] /\ thread' = [thread EXCEPT ![t] = "p"]
      /\ UNCHANGED <<performed, client>> /\ thread[t] = "reading"
  BY <1>1, <1>2 DEF ReadRequest, clients
<1>4. /\ toServer \in [Conns -> Seq(Clients)] /\ First(k) \in Conns
      /\ request \in [Threads -> {None} \cup Clients]
      /\ thread \in [Threads -> {"none", "recv", "reading", "p", "inside", "send", "close", "gone"}]
  BY DEF Types, TypeOK, First, Conns
<1>5. performed[k] = 0 /\ (\A u \in Threads : ~Holds(u, k))
      /\ client[k] \notin {"connect", "send", "resend", "reconnect"}
  <2>1. Placed(k) /\ toServer[First(k)] # <<>>  BY <1>1 DEF OncePlaced
  <2> QED BY <2>1 DEF Placed
<1>6. \A u \in Threads : Holds(u, k)' <=> u = t  BY <1>3, <1>4, <1>5 DEF Holds
<1>7. \A j \in Clients : j # k => /\ toServer'[First(j)] = toServer[First(j)]
                                  /\ \A u \in Threads : Holds(u, j)' <=> Holds(u, j)
  BY <1>3, <1>4 DEF Holds, First, Conns
<1>8. \A j \in Clients : toServer'[<<j, 2>>] = toServer[<<j, 2>>]
  BY <1>3, <1>4 DEF First, Conns
<1>9. toServer'[First(k)] = <<>>  BY <1>3, <1>4
<1>10. ASSUME NEW j \in Clients PROVE Placed(j)'
  <2>1. Placed(j)  BY DEF OncePlaced
  <2>2. CASE j = k  BY <1>3, <1>5, <1>6, <1>8, <1>9, <2>1, <2>2 DEF Placed
  <2>3. CASE j # k  BY <1>3, <1>7, <1>8, <2>1, <2>3 DEF Placed
  <2> QED BY <2>2, <2>3
<1> QED BY <1>10 DEF OncePlaced

\* A thread that enters performs its request for the first time.
LEMMA EnterPlaced ==
  ASSUME Types, OncePlaced, NEW t \in Threads, P(t)
  PROVE  OncePlaced'
<1>0. PICK k \in Clients : k = request[t]  BY DEF P, Types, Requests
<1>1. Holds(t, k)  BY <1>0 DEF P, Holds
<1>2. /\ performed' = [performed EXCEPT ![k] = @ + 1] /\ thread' = [thread EXCEPT ![t] = "inside"]
      /\ UNCHANGED <<toServer, request, client>>
  BY <1>0 DEF P, frames, clients
<1>3. /\ performed \in [Clients -> Nat]
      /\ thread \in [Threads -> {"none", "recv", "reading", "p", "inside", "send", "close", "gone"}]
  BY DEF Types, TypeOK
<1>4. performed[k] = 0 /\ toServer[First(k)] = <<>>
      /\ client[k] \notin {"connect", "send", "resend", "reconnect"}
      /\ \A u \in Threads : Holds(u, k) => u = t
  <2>1. Placed(k)  BY <1>1 DEF OncePlaced
  <2> QED BY <1>1, <2>1 DEF Placed
<1>5. performed'[k] = 1 /\ \A u \in Threads : ~Holds(u, k)'
  <2>1. performed'[k] = 1  BY <1>1, <1>2, <1>3, <1>4
  <2>2. ASSUME NEW u \in Threads, Holds(u, k)' PROVE FALSE
    <3>1. u # t /\ thread[u] = "p" /\ request[u] = k  BY <1>2, <1>3, <2>2 DEF Holds
    <3> QED BY <1>4, <3>1 DEF Holds
  <2> QED BY <2>1, <2>2
<1>6. \A j \in Clients : j # k => /\ performed'[j] = performed[j]
                                  /\ \A u \in Threads : Holds(u, j)' => Holds(u, j)
  BY <1>2, <1>3 DEF Holds
<1>7. ASSUME NEW j \in Clients PROVE Placed(j)'
  <2>1. Placed(j)  BY DEF OncePlaced
  <2>2. CASE j = k  BY <1>2, <1>4, <1>5, <2>1, <2>2 DEF Placed, First
  <2>3. CASE j # k  BY <1>2, <1>6, <2>1, <2>3 DEF Placed, First
  <2> QED BY <2>2, <2>3
<1> QED BY <1>7 DEF OncePlaced

\* A client that sends has not sent before.
LEMMA SendPlaced ==
  ASSUME Types, OncePlaced, NEW k \in Clients, Send(k) \/ Resend(k)
  PROVE  OncePlaced'
<1>1. client[k] \in {"send", "resend"} /\ client' = [client EXCEPT ![k] = "recv"]
      /\ UNCHANGED <<performed, thread, request, try>>
  BY DEF Send, Resend, WriteRequest, threads
<1>2. client \in [Clients -> {"connect", "send", "resend", "reconnect", "recv", "done", "failed"}]
      /\ toServer \in [Conns -> Seq(Clients)] /\ First(k) \in Conns
  BY DEF Types, TypeOK, First, Conns
<1>3. \A j \in Clients : client'[j] \in {"connect", "send", "resend", "reconnect"} =>
                             client[j] \in {"connect", "send", "resend", "reconnect"} /\ j # k
  BY <1>1, <1>2
<1>4. CASE UNCHANGED toServer
  BY <1>1, <1>3, <1>4, StaysPlaced
<1>5. CASE toServer' = [toServer EXCEPT ![First(k)] = Append(@, k)]
  <2>1. toServer[First(k)] = <<>> /\ performed[k] = 0 /\ \A t \in Threads : ~Holds(t, k)
    BY <1>1 DEF OncePlaced, Placed
  <2>2. toServer'[First(k)] = <<k>>  BY <1>2, <1>5, <2>1
  <2>3. \A j \in Clients : /\ j # k => toServer'[First(j)] = toServer[First(j)]
                           /\ toServer'[<<j, 2>>] = toServer[<<j, 2>>]
    BY <1>2, <1>5 DEF First, Conns
  <2>4. \A j \in Clients, t \in Threads : Holds(t, j)' <=> Holds(t, j)
    BY <1>1 DEF Holds
  <2>5. ASSUME NEW j \in Clients PROVE Placed(j)'
    <3>1. Placed(j)  BY DEF OncePlaced
    <3>2. CASE j = k  BY <1>1, <1>3, <2>1, <2>2, <2>3, <2>4, <3>1, <3>2 DEF Placed
    <3>3. CASE j # k  BY <1>1, <1>3, <2>3, <2>4, <3>1, <3>3 DEF Placed
    <3> QED BY <3>2, <3>3
  <2> QED BY <2>5 DEF OncePlaced
<1>6. Conn(k) = First(k)  BY <1>1 DEF Types, Tries, Conn, First
<1> QED BY <1>4, <1>5, <1>6 DEF Send, Resend, WriteRequest

\* Every step keeps each request in one place.
LEMMA NextPlaced ==
  ASSUME Types, OncePlaced, [Next]_vars
  PROVE  OncePlaced'
<1>0. thread \in [Threads -> {"none", "recv", "reading", "p", "inside", "send", "close", "gone"}]
      /\ client \in [Clients -> {"connect", "send", "resend", "reconnect", "recv", "done", "failed"}]
  BY DEF Types, TypeOK
<1>1. CASE Start \/ SecondStart \/ Crash
  BY <1>1, StaysPlaced DEF Start, SecondStart, Crash, frames, clients, threads
<1>2. ASSUME NEW c \in Conns, Accept(c) \/ CreateFails(c) \/ ResetArrives(c) PROVE OncePlaced'
  BY <1>0, <1>2, StaysPlaced DEF Accept, CreateFails, ResetArrives, frames, clients, threads
<1>3. ASSUME NEW j \in Junk, AcceptFails(j) PROVE OncePlaced'
  BY <1>0, <1>3, StaysPlaced DEF AcceptFails, frames, clients
<1>4. ASSUME NEW t \in Threads,
             BeginRead(t) \/ ReadEnds(t) \/ V(t) \/ SendAnswer(t) \/ Close(t)
      PROVE  OncePlaced'
  <2>1. UNCHANGED <<toServer, performed, client, request>>
    BY <1>4 DEF BeginRead, ReadEnds, V, SendAnswer, Close, frames, clients
  <2>2. \E s \in {"recv", "reading", "send", "close", "gone"} : thread' = [thread EXCEPT ![t] = s]
    BY <1>4 DEF BeginRead, ReadEnds, V, SendAnswer, Close
  <2> QED BY <1>0, <2>1, <2>2, StaysPlaced
<1>5. ASSUME NEW t \in Threads, ReadRequest(t) PROVE OncePlaced'
  BY <1>5, ReadPlaced
<1>6. ASSUME NEW t \in Threads, P(t) PROVE OncePlaced'
  BY <1>6, EnterPlaced
<1>7. ASSUME NEW k \in Clients, Send(k) \/ Resend(k) PROVE OncePlaced'
  BY <1>7, SendPlaced
<1>8. ASSUME NEW k \in Clients, Call(k), ~Send(k), ~Resend(k) PROVE OncePlaced'
  <2>1. UNCHANGED <<toServer, performed, thread, request>>
    BY <1>8 DEF Call, Connect, ConnectFails, SendTimesOut, SendFails, Receive, ReceiveFails,
                frames, threads
  <2>2. \/ client[k] \in {"connect", "send", "reconnect"}
        \/ \E r \in {"recv", "done", "failed"} : client' = [client EXCEPT ![k] = r]
    BY <1>8 DEF Call, Connect, ConnectFails, SendTimesOut, SendFails, Receive, ReceiveFails, Exit
  <2>3. \E r \in {"send", "resend", "reconnect", "recv", "done", "failed"} :
          client' = [client EXCEPT ![k] = r]
    BY <1>8 DEF Call, Connect, ConnectFails, SendTimesOut, SendFails, Receive, ReceiveFails, Exit
  <2> QED BY <1>0, <2>1, <2>2, <2>3, StaysPlaced
<1>9. CASE UNCHANGED vars
  BY <1>9, StaysPlaced DEF vars, frames, clients, threads
<1> QED BY <1>1, <1>2, <1>3, <1>4, <1>5, <1>6, <1>7, <1>8, <1>9 DEF Next, Work

\* Each request is in one place always.
LEMMA SpecPlaced == Spec => []OncePlaced
<1>1. Init => OncePlaced
  BY DEF Init, OncePlaced, Placed, First, Holds, Conns
<1> QED BY <1>1, NextPlaced, SpecTypes, PTL DEF Spec

\* No request is performed twice, however sends time out, connections are lost
\* and servers crash, for any number of clients.
THEOREM PerformedOnceHolds == Spec => []PerformedOnce
<1>1. OncePlaced => PerformedOnce
  <2>1. \A n \in 0..1 : n <= 1  OBVIOUS
  <2> QED BY <2>1 DEF OncePlaced, Placed, PerformedOnce
<1> QED BY <1>1, SpecPlaced, PTL

-----------------------------------------------------------------------------
(* Descriptors: each thread has its own *)

Live(t) == thread[t] \notin {"none", "gone"}

\* Descriptor 0 is the standard input until the thread of a failed accept has
\* closed it; the rest of a thread's state follows from what it may read.
Sole(c) == Live(c) /\ (fd[c] = 0 => ~Shared) => table[fd[c]] = c

AtZero ==
    /\ \A j \in Junk : fd[j] = 0
    /\ (\A j \in Junk : thread[j] = "none") => table[0] = Stdin
    /\ \A j \in Junk : Live(j) /\ ~Shared => table[0] = Stdin

OwnFrames ==
    /\ \A c \in Conns :
         /\ thread[c] = "reading" => file[c] = c
         /\ thread[c] \in {"p", "inside", "send"} => request[c] = c[1]
         /\ toClient[c] \in Seq({c[1]})
    /\ \A k \in Clients : got[k] \in {None, k}

Own == (\A c \in Conns : Sole(c)) /\ AtZero /\ (Shared \/ OwnFrames)

Known == Permitted /\ OncePlaced

\* Two failed accepts are more than one.
LEMMA TwoShare ==
  ASSUME NEW F \in SUBSET Junk, NEW i \in F, NEW j \in F, i # j
  PROVE  Cardinality(F) > 1
<1>1. IsFiniteSet(F)  BY FS_Subset, ThreadServerAssumption
<1>2. IsFiniteSet({i}) /\ Cardinality({i}) = 1 /\ j \notin {i}  BY FS_Singleton
<1>3. Cardinality({i} \cup {j}) = Cardinality({i}) + 1
  BY <1>2, FS_AddElement
<1>4. Cardinality({i} \cup {j}) <= Cardinality(F)
  <2>1. {i} \cup {j} \in SUBSET F  OBVIOUS
  <2> QED BY <1>1, <2>1, FS_Subset
<1>5. Cardinality(F) \in Nat  BY <1>1, FS_CardinalityType
<1> QED BY <1>2, <1>3, <1>4, <1>5

\* When two threads share descriptor 0.
LEMMA SharedFacts ==
  /\ Shared => \E j \in Junk : thread[j] # "none"
  /\ \A i, j \in Junk : thread[i] # "none" /\ thread[j] # "none" /\ i # j => Shared
<1>1. ASSUME Shared PROVE \E j \in Junk : thread[j] # "none"
  <2>1. SUFFICES ASSUME {j \in Junk : thread[j] # "none"} = {} PROVE FALSE
    OBVIOUS
  <2>2. Cardinality({j \in Junk : thread[j] # "none"}) = 0  BY <2>1, FS_EmptySet
  <2> QED BY <1>1, <2>2 DEF Shared
<1>2. ASSUME NEW i \in Junk, NEW j \in Junk, thread[i] # "none", thread[j] # "none", i # j
      PROVE  Shared
  BY <1>2, TwoShare DEF Shared
<1> QED BY <1>1, <1>2

\* The same of the next state.
LEMMA SharedFactsNext ==
  ASSUME NEW i \in Junk, NEW j \in Junk, thread'[i] # "none", thread'[j] # "none", i # j
  PROVE  Shared'
BY TwoShare DEF Shared

\* Threads that have been created are not forgotten.
LEMMA SharedStays ==
  ASSUME Shared, \A j \in Junk : thread[j] # "none" => thread'[j] # "none"
  PROVE  Shared'
<1> DEFINE F == {j \in Junk : thread[j] # "none"}
           G == {j \in Junk : thread'[j] # "none"}
<1>1. IsFiniteSet(G)  BY FS_Subset, ThreadServerAssumption
<1>2. F \in SUBSET G  OBVIOUS
<1>3. Cardinality(F) <= Cardinality(G)  /\ IsFiniteSet(F)
  <2> HIDE DEF F, G
  <2> QED BY <1>1, <1>2, FS_Subset
<1>4. Cardinality(F) \in Nat /\ Cardinality(G) \in Nat  BY <1>1, <1>3, FS_CardinalityType
<1>5. Cardinality(F) > 1  BY DEF Shared
<1>6. Cardinality(G) > 1
  <2> HIDE DEF F, G
  <2> QED BY <1>3, <1>4, <1>5
<1> QED BY <1>6 DEF Shared

\* Without a new thread of a failed accept nothing more is shared.
LEMMA SharedSame ==
  ASSUME \A j \in Junk : thread[j] # "none" <=> thread'[j] # "none"
  PROVE  Shared' <=> Shared
<1>1. {j \in Junk : thread[j] # "none"} = {j \in Junk : thread'[j] # "none"}  OBVIOUS
<1> QED BY <1>1 DEF Shared

\* A step that leaves the descriptors, and what the threads do with them, keeps Sole
\* and AtZero.
LEMMA DescriptorsStay ==
  ASSUME Own, UNCHANGED <<table, fd>>,
         \A t \in Threads : (thread[t] # "none" <=> thread'[t] # "none") /\ (Live(t)' => Live(t))
  PROVE  (\A c \in Conns : Sole(c)') /\ AtZero' /\ (Shared' <=> Shared)
<1>1. Shared' <=> Shared  BY SharedSame DEF Threads
<1>2. ASSUME NEW c \in Conns PROVE Sole(c)'
  BY <1>1 DEF Own, Sole, Threads
<1>3. AtZero'
  <2>1. \A j \in Junk : fd'[j] = 0  BY DEF Own, AtZero
  <2>2. (\A j \in Junk : thread'[j] = "none") => table'[0] = Stdin  BY DEF Own, AtZero, Threads
  <2>3. \A j \in Junk : Live(j)' /\ ~Shared' => table'[0] = Stdin
    BY <1>1 DEF Own, AtZero, Threads
  <2> QED BY <2>1, <2>2, <2>3 DEF AtZero
<1> QED BY <1>1, <1>2, <1>3

\* A step that lets no thread read or receive a request keeps OwnFrames.
LEMMA FramesStay ==
  ASSUME OwnFrames, UNCHANGED <<toClient, got>>,
         \A t \in Conns :
            /\ thread'[t] = "reading" => thread[t] = "reading" /\ file'[t] = file[t]
            /\ thread'[t] \in {"p", "inside", "send"} =>
                 thread[t] \in {"p", "inside", "send"} /\ request'[t] = request[t]
  PROVE  OwnFrames'
BY DEF OwnFrames

\* The server process.
LEMMA ServerOwn ==
  ASSUME Known, Own, Start \/ SecondStart \/ Crash
  PROVE  Own'
<1>0. Conns \subseteq Threads /\ Junk \subseteq Threads /\ NewTable[0] = Stdin
  BY ThreadServerAssumption DEF Threads, NewTable, Fds
<1>1. CASE Start
  <2>1. /\ \A t \in Threads : thread[t] \in {"none", "gone"}
        /\ UNCHANGED <<thread, fd, file, request, toClient, got>> /\ table' = NewTable
    BY <1>1 DEF Start, Known, Permitted, DownIsDown, threads, frames, clients
  <2>2. Shared' <=> Shared  BY <2>1, SharedSame
  <2>3. (\A c \in Conns : Sole(c)') /\ AtZero'
    BY <1>0, <2>1 DEF Own, Sole, Live, AtZero
  <2>4. OwnFrames => OwnFrames'  BY <2>1, FramesStay
  <2> QED BY <2>2, <2>3, <2>4 DEF Own
<1>2. CASE SecondStart
  <2>1. UNCHANGED <<table, thread, fd, file, request, toClient, got>>
    BY <1>2 DEF SecondStart, kernel, threads, frames, clients
  <2>2. (\A c \in Conns : Sole(c)') /\ AtZero' /\ (Shared' <=> Shared)
    BY <2>1, DescriptorsStay DEF Live
  <2>3. OwnFrames => OwnFrames'  BY <2>1, FramesStay
  <2> QED BY <2>2, <2>3 DEF Own
<1>3. CASE Crash
  <2>1. /\ thread' = [t \in Threads |-> IF thread[t] = "none" THEN "none" ELSE "gone"]
        /\ UNCHANGED <<fd, request, toClient, got>> /\ table' = NewTable
    BY <1>3 DEF Crash, frames, clients
  <2>2. \A t \in Threads : /\ thread'[t] \in {"none", "gone"}
                           /\ thread[t] # "none" <=> thread'[t] # "none"
    BY <2>1
  <2>3. Shared' <=> Shared  BY <1>0, <2>2, SharedSame
  <2>4. (\A c \in Conns : Sole(c)') /\ AtZero'
    BY <1>0, <2>1, <2>2 DEF Own, Sole, Live, AtZero
  <2>5. OwnFrames => OwnFrames'
    <3>1. \A c \in Conns : thread'[c] \notin {"reading", "p", "inside", "send"}
      BY <1>0, <2>2
    <3> QED BY <2>1, <3>1, FramesStay
  <2> QED BY <2>3, <2>4, <2>5 DEF Own
<1> QED BY <1>1, <1>2, <1>3

\* A new connection gets a descriptor that no thread has.
LEMMA AcceptOwn ==
  ASSUME Known, Own, NEW c \in Conns, Accept(c) \/ CreateFails(c)
  PROVE  Own'
<1> DEFINE n == LowestFree
<1>1. /\ n \in Fds /\ table[n] = None /\ thread[c] = "none"
      /\ table' = [table EXCEPT ![n] = c]
  <2>1. Free # {} /\ c \in backlog /\ table' = [table EXCEPT ![n] = c]
    BY DEF Accept, CreateFails
  <2>2. n \in Free  BY <2>1, LowestFreeType
  <2> QED BY <2>1, <2>2 DEF Free, Known, Permitted, Fresh
<1>2. \/ thread' = [thread EXCEPT ![c] = "recv"] /\ fd' = [fd EXCEPT ![c] = n]
      \/ thread' = thread /\ fd' = fd
  BY DEF Accept, CreateFails, threads
<1>3. UNCHANGED <<file, request, toClient, got>>
  BY DEF Accept, CreateFails, threads, frames, clients
<1>4. /\ table \in [Fds -> {None, Stdin} \cup Conns] /\ fd \in [Threads -> Fds]
      /\ thread \in [Threads -> {"none", "recv", "reading", "p", "inside", "send", "close", "gone"}]
  BY DEF Known, Permitted, Types, TypeOK
<1>5. /\ Conns \subseteq Threads /\ Junk \subseteq Threads /\ c \notin Junk /\ 0 \in Fds
      /\ None \notin Conns /\ Stdin # None
  BY ThreadServerAssumption DEF Threads, Conns, None, Stdin, Fds
<1> HIDE DEF n
<1>6. Shared' <=> Shared  BY <1>2, <1>4, <1>5, SharedSame
<1>7. ASSUME NEW d \in Conns PROVE Sole(d)'
  <2>1. CASE thread'[d] = thread[d] /\ fd'[d] = fd[d]
    <3>1. SUFFICES ASSUME Live(d), fd[d] = 0 => ~Shared PROVE table'[fd[d]] = d
      BY <1>6, <2>1 DEF Sole, Live
    <3>2. table[fd[d]] = d  BY <3>1 DEF Own, Sole
    <3> QED BY <1>1, <1>4, <1>5, <3>2
  <2>2. CASE d = c /\ fd'[d] = n
    BY <1>1, <1>4, <2>2 DEF Sole
  <2> QED BY <1>2, <1>4, <1>5, <2>1, <2>2
<1>8. AtZero'
  <2>1. table[0] = Stdin => table'[0] = Stdin  BY <1>1, <1>4, <1>5
  <2>2. \A j \in Junk : thread'[j] = thread[j] /\ fd'[j] = fd[j]
    BY <1>2, <1>4, <1>5
  <2> QED BY <1>6, <2>1, <2>2 DEF Own, AtZero, Live
<1>9. OwnFrames => OwnFrames'
  <2>1. \A t \in Conns : thread'[t] = thread[t] \/ thread'[t] = "recv"
    BY <1>2, <1>4, <1>5
  <2> QED BY <1>3, <2>1, FramesStay
<1> QED BY <1>6, <1>7, <1>8, <1>9 DEF Own

\* A failed accept gives descriptor 0 to a thread, to a second one at most
\* from now on.
LEMMA AcceptFailsOwn ==
  ASSUME Known, Own, NEW j \in Junk, AcceptFails(j)
  PROVE  Own'
<1>1. /\ thread[j] = "none" /\ thread' = [thread EXCEPT ![j] = "recv"]
      /\ UNCHANGED <<table, fd, file, request, toClient, got>>
  BY DEF AcceptFails, kernel, frames, clients
<1>2. /\ thread \in [Threads -> {"none", "recv", "reading", "p", "inside", "send", "close", "gone"}]
      /\ Junk \subseteq Threads /\ j \notin Conns
  BY ThreadServerAssumption DEF Known, Permitted, Types, TypeOK, Threads, Conns
<1>3. Shared => Shared'  BY <1>1, <1>2, SharedStays
<1>4. ASSUME NEW c \in Conns PROVE Sole(c)'
  BY <1>1, <1>2, <1>3 DEF Own, Sole, Live
<1>5. AtZero'
  <2>1. thread'[j] # "none"  BY <1>1, <1>2
  <2>2. ASSUME ~Shared' PROVE table'[0] = Stdin
    <3>1. \A i \in Junk : thread'[i] # "none" => i = j
      BY <2>1, <2>2, SharedFactsNext
    <3>2. \A i \in Junk : thread[i] = "none"  BY <1>1, <1>2, <3>1
    <3> QED BY <1>1, <3>2 DEF Own, AtZero
  <2> QED BY <1>1, <2>1, <2>2 DEF Own, AtZero
<1>6. OwnFrames => OwnFrames'
  <2>1. \A t \in Conns : thread'[t] = thread[t]  BY <1>1, <1>2
  <2> QED BY <1>1, <2>1, FramesStay
<1> QED BY <1>3, <1>4, <1>5, <1>6 DEF Own

\* A thread reads its own connection, takes its own request and answers on its own
\* connection, as long as no two threads share descriptor 0.
LEMMA WorkOwn ==
  ASSUME Known, Own, NEW t \in Threads, Work(t), ~Close(t)
  PROVE  Own'
<1>1. /\ table \in [Fds -> {None, Stdin} \cup Conns] /\ fd \in [Threads -> Fds]
      /\ thread \in [Threads -> {"none", "recv", "reading", "p", "inside", "send", "close", "gone"}]
      /\ file \in [Threads -> {None, Stdin} \cup Conns]
      /\ request \in [Threads -> {None} \cup Clients]
      /\ toClient \in [Conns -> Seq(Clients)]
      /\ Conns \subseteq Threads /\ Threads = Conns \cup Junk
      /\ None \notin Conns /\ Stdin \notin Conns
  <2>1. None \notin Conns /\ Stdin \notin Conns  BY DEF Conns, None, Stdin
  <2>2. Conns \subseteq Threads /\ Threads = Conns \cup Junk  BY DEF Threads
  <2> QED BY <2>1, <2>2 DEF Known, Permitted, Types, TypeOK
<1>2. /\ thread[t] \in {"recv", "reading", "p", "inside", "send"}
      /\ \E s \in {"recv", "reading", "p", "inside", "send", "close"} :
            thread' = [thread EXCEPT ![t] = s]
      /\ UNCHANGED <<table, fd, got>>
  BY DEF Work, BeginRead, ReadRequest, ReadEnds, P, V, SendAnswer, kernel, clients
<1>3. /\ (\A c \in Conns : Sole(c)') /\ AtZero' /\ (Shared' <=> Shared)
  <2>1. \A u \in Threads : (thread[u] # "none" <=> thread'[u] # "none") /\ (Live(u)' => Live(u))
    BY <1>1, <1>2 DEF Live
  <2> QED BY <1>2, <2>1, DescriptorsStay
<1>4. ASSUME ~Shared PROVE OwnFrames'
  <2>1. OwnFrames  BY <1>4 DEF Own
  <2>2. t \in Conns => table[fd[t]] = t
    BY <1>2, <1>4 DEF Own, Sole, Live
  <2>3. CASE BeginRead(t)
    <3>1. /\ UNCHANGED <<request, toClient, got>>
          /\ \/ thread' = [thread EXCEPT ![t] = "close"] /\ file' = file
             \/ /\ thread' = [thread EXCEPT ![t] = "reading"]
                /\ file' = [file EXCEPT ![t] = table[fd[t]]]
      BY <2>3 DEF BeginRead, frames, clients
    <3> QED BY <1>1, <2>1, <2>2, <3>1 DEF OwnFrames
  <2>4. CASE ReadRequest(t)
    <3>1. /\ thread[t] = "reading" /\ thread' = [thread EXCEPT ![t] = "p"]
          /\ request' = [request EXCEPT ![t] = Head(toServer[file[t]])]
          /\ file' = [file EXCEPT ![t] = None]
          /\ toServer[file[t]] # <<>> /\ UNCHANGED <<toClient, got>>
      BY <2>4 DEF ReadRequest, EndRead, clients
    <3>2. ASSUME t \in Conns PROVE Head(toServer[file[t]]) = t[1]
      <4>1. file[t] = t  BY <2>1, <3>1, <3>2 DEF OwnFrames
      <4>2. PICK k \in Clients : t = <<k, 1>> \/ t = <<k, 2>>  BY <3>2 DEF Conns
      <4>3. Placed(k)  BY DEF Known, OncePlaced
      <4>4. toServer[t] = <<k>>  BY <3>1, <4>1, <4>2, <4>3 DEF Placed, First
      <4>5. Head(<<k>>) = k /\ t[1] = k  BY <4>2
      <4> QED BY <4>1, <4>4, <4>5
    <3> QED BY <1>1, <2>1, <3>1, <3>2 DEF OwnFrames
  <2>5. CASE ReadEnds(t) \/ P(t) \/ V(t)
    <3>1. UNCHANGED <<request, toClient, got>>
      BY <2>5 DEF ReadEnds, P, V, frames, clients
    <3>2. \A u \in Threads : u # t => file'[u] = file[u]
      BY <1>1, <2>5 DEF ReadEnds, EndRead, P, V
    <3>3. \/ thread' = [thread EXCEPT ![t] = "close"]
          \/ /\ thread[t] \in {"p", "inside"}
             /\ \E s \in {"inside", "send"} : thread' = [thread EXCEPT ![t] = s]
      BY <2>5 DEF ReadEnds, P, V
    <3> QED BY <1>1, <2>1, <3>1, <3>2, <3>3, FramesStay
  <2>6. CASE SendAnswer(t)
    <3>1. /\ thread[t] = "send" /\ UNCHANGED <<file, request, got>>
          /\ \E s \in {"recv", "close"} : thread' = [thread EXCEPT ![t] = s]
      BY <2>6 DEF SendAnswer, clients
    <3>2. CASE toClient' = toClient
      <4>1. \A u \in Conns : thread'[u] = thread[u] \/ thread'[u] \in {"recv", "close"}
        BY <1>1, <3>1
      <4> QED BY <2>1, <3>1, <3>2, <4>1, FramesStay
    <3>3. CASE toClient' # toClient
      <4>1. table[fd[t]] \in Conns
            /\ toClient' = [toClient EXCEPT ![table[fd[t]]] = Append(@, request[t])]
        BY <2>6, <3>3 DEF SendAnswer
      <4>2. t \in Conns
        <5>1. ASSUME t \in Junk PROVE FALSE
          <6>1. fd[t] = 0 /\ table[0] = Stdin  BY <1>4, <3>1, <5>1 DEF Own, AtZero, Live
          <6> QED BY <1>1, <4>1, <6>1
        <5> QED BY <1>1, <5>1
      <4>3. request[t] = t[1] /\ toClient[t] \in Seq({t[1]})  BY <2>1, <3>1, <4>2 DEF OwnFrames
      <4>4. Append(toClient[t], request[t]) \in Seq({t[1]})  BY <4>3, AppendProperties
      <4>5. \A c \in Conns : toClient'[c] \in Seq({c[1]})
        BY <1>1, <2>1, <2>2, <4>1, <4>2, <4>4 DEF OwnFrames
      <4> QED BY <1>1, <2>1, <3>1, <4>5 DEF OwnFrames
    <3> QED BY <3>2, <3>3
  <2> QED BY <2>3, <2>4, <2>5, <2>6 DEF Work
<1> QED BY <1>3, <1>4 DEF Own

\* A thread that closes its descriptor has it for itself, but for descriptor 0.
LEMMA CloseOwn ==
  ASSUME Known, Own, NEW t \in Threads, Close(t)
  PROVE  Own'
<1>1. /\ thread[t] = "close" /\ thread' = [thread EXCEPT ![t] = "gone"]
      /\ table' = [table EXCEPT ![fd[t]] = None]
      /\ UNCHANGED <<fd, file, request, toClient, got>>
  BY DEF Close, frames, clients
<1>2. /\ table \in [Fds -> {None, Stdin} \cup Conns] /\ fd \in [Threads -> Fds]
      /\ thread \in [Threads -> {"none", "recv", "reading", "p", "inside", "send", "close", "gone"}]
      /\ Conns \subseteq Threads /\ Threads = Conns \cup Junk /\ 0 \in Fds
      /\ Stdin \notin Conns
  <2>1. Stdin \notin Conns /\ 0 \in Fds  BY ThreadServerAssumption DEF Conns, Stdin, Fds
  <2>2. Conns \subseteq Threads /\ Threads = Conns \cup Junk  BY DEF Threads
  <2> QED BY <2>1, <2>2 DEF Known, Permitted, Types, TypeOK
<1>3. Shared' <=> Shared  BY <1>1, <1>2, SharedSame
<1>4. ASSUME NEW c \in Conns PROVE Sole(c)'
  <2>1. SUFFICES ASSUME c # t, Live(c), fd[c] = 0 => ~Shared PROVE table'[fd[c]] = c
    BY <1>1, <1>2, <1>3 DEF Sole, Live
  <2>2. table[fd[c]] = c  BY <2>1 DEF Own, Sole
  <2>3. ASSUME fd[c] = fd[t] PROVE FALSE
    <3>1. CASE t \in Conns
      <4>1. table[fd[t]] = t  BY <1>1, <2>1, <2>3, <3>1 DEF Own, Sole, Live
      <4> QED BY <2>1, <2>2, <2>3, <4>1
    <3>2. CASE t \in Junk
      <4>1. fd[t] = 0 /\ ~Shared /\ Live(t)  BY <1>1, <2>1, <2>3, <3>2 DEF Own, AtZero, Live
      <4>2. table[0] = Stdin  BY <3>2, <4>1 DEF Own, AtZero
      <4> QED BY <1>2, <2>2, <2>3, <4>1, <4>2
    <3> QED BY <1>2, <3>1, <3>2
  <2> QED BY <1>1, <1>2, <2>2, <2>3
<1>5. AtZero'
  <2>1. \A j \in Junk : fd'[j] = 0  BY <1>1 DEF Own, AtZero
  <2>2. CASE t \in Junk
    <3>1. thread'[t] = "gone"  BY <1>1, <1>2
    <3>2. ASSUME NEW j \in Junk, Live(j)', ~Shared' PROVE FALSE
      <4>1. thread'[j] # "none" /\ thread'[t] # "none" /\ j # t  BY <3>1, <3>2 DEF Live
      <4> QED BY <2>2, <3>2, <4>1, SharedFactsNext
    <3> QED BY <2>1, <2>2, <3>1, <3>2 DEF AtZero
  <2>3. CASE t \in Conns /\ t \notin Junk
    <3>1. \A j \in Junk : thread'[j] = thread[j]  BY <1>1, <1>2, <2>3
    <3>2. ASSUME table[0] = Stdin, ~Shared PROVE table'[0] = Stdin
      <4>1. table[fd[t]] = t  BY <1>1, <2>3, <3>2 DEF Own, Sole, Live
      <4>2. fd[t] # 0  BY <1>2, <2>3, <3>2, <4>1
      <4> QED BY <1>1, <1>2, <3>2, <4>2
    <3>3. (\A j \in Junk : thread[j] = "none") => ~Shared  BY SharedFacts
    <3> QED BY <1>3, <2>1, <3>1, <3>2, <3>3 DEF Own, AtZero, Live
  <2> QED BY <1>2, <2>2, <2>3
<1>6. OwnFrames => OwnFrames'
  <2>1. \A u \in Conns : thread'[u] = thread[u] \/ thread'[u] = "gone"  BY <1>1, <1>2
  <2> QED BY <1>1, <2>1, FramesStay
<1> QED BY <1>3, <1>4, <1>5, <1>6 DEF Own

\* A client receives what is on its own connection.
LEMMA CallOwn ==
  ASSUME Known, Own, NEW k \in Clients, Call(k)
  PROVE  Own'
<1>1. UNCHANGED <<table, thread, fd, file, request>>
  BY DEF Call, Connect, ConnectFails, Send, SendTimesOut, SendFails, Resend,
         Receive, ReceiveFails, kernel, threads
<1>2. (\A c \in Conns : Sole(c)') /\ AtZero' /\ (Shared' <=> Shared)
  BY <1>1, DescriptorsStay DEF Live
<1>3. CASE Receive(k)
  <2>1. /\ client[k] = "recv" /\ toClient[Conn(k)] # <<>>
        /\ got' = [got EXCEPT ![k] = Head(toClient[Conn(k)])]
        /\ toClient' = [toClient EXCEPT ![Conn(k)] = Tail(@)]
    BY <1>3 DEF Receive
  <2>2. /\ Conn(k) \in Conns /\ Conn(k)[1] = k
        /\ toClient \in [Conns -> Seq(Clients)] /\ got \in [Clients -> {None} \cup Clients]
    BY <2>1 DEF Known, Permitted, Types, TypeOK, Tries, Conn, Conns
  <2>3. ASSUME OwnFrames PROVE OwnFrames'
    <3>1. toClient[Conn(k)] \in Seq({k})  BY <2>2, <2>3 DEF OwnFrames
    <3>2. Head(toClient[Conn(k)]) = k /\ Tail(toClient[Conn(k)]) \in Seq({k})
      BY <2>1, <3>1, HeadTailProperties
    <3>3. \A c \in Conns : toClient'[c] \in Seq({c[1]})
      BY <2>1, <2>2, <2>3, <3>2 DEF OwnFrames
    <3>4. \A j \in Clients : got'[j] \in {None, j}
      BY <2>1, <2>2, <2>3, <3>2 DEF OwnFrames
    <3> QED BY <1>1, <2>3, <3>3, <3>4 DEF OwnFrames
  <2> QED BY <1>2, <2>3 DEF Own
<1>4. CASE ~Receive(k)
  <2>1. UNCHANGED <<toClient, got>>
    BY <1>4 DEF Call, Connect, ConnectFails, Send, SendTimesOut, SendFails, Resend,
                ReceiveFails, frames
  <2>2. OwnFrames => OwnFrames'  BY <1>1, <2>1, FramesStay
  <2> QED BY <1>2, <2>2 DEF Own
<1> QED BY <1>3, <1>4

\* Every step keeps descriptors and frames with their threads.
LEMMA NextOwn ==
  ASSUME Known, Own, [Next]_vars
  PROVE  Own'
<1>1. CASE \/ UNCHANGED vars
           \/ \E c \in Conns : ResetArrives(c)
  <2>1. UNCHANGED <<table, thread, fd, file, request, toClient, got>>
    BY <1>1 DEF vars, ResetArrives, kernel, threads, frames, clients
  <2>2. (\A c \in Conns : Sole(c)') /\ AtZero' /\ (Shared' <=> Shared)
    BY <2>1, DescriptorsStay DEF Live
  <2>3. OwnFrames => OwnFrames'  BY <2>1, FramesStay
  <2> QED BY <2>2, <2>3 DEF Own
<1> QED BY <1>1, ServerOwn, AcceptOwn, AcceptFailsOwn, WorkOwn, CloseOwn, CallOwn DEF Next

\* Descriptors and frames are with their threads always.
LEMMA SpecOwn == Spec => []Own
<1>1. Init => Own
  <2>1. SUFFICES ASSUME Init PROVE Own
    OBVIOUS
  <2>2. \A t \in Threads : thread[t] = "none" /\ fd[t] = 0  BY <2>1 DEF Init
  <2>3. table[0] = Stdin
    BY <2>1, ThreadServerAssumption DEF Init, NewTable, Fds
  <2>4. \A c \in Conns : Sole(c)  BY <2>2 DEF Sole, Live, Threads
  <2>5. AtZero  BY <2>2, <2>3 DEF AtZero, Threads
  <2>6. OwnFrames
    <3>1. \A c \in Conns : toClient[c] = <<>> /\ <<>> \in Seq({c[1]})  BY <2>1 DEF Init
    <3>2. \A k \in Clients : got[k] = None  BY <2>1 DEF Init
    <3> QED BY <2>2, <3>1, <3>2 DEF OwnFrames, Threads
  <2> QED BY <2>4, <2>5, <2>6 DEF Own
<1>2. Known /\ Own /\ [Next]_vars => Own'  BY NextOwn
<1>3. Permitted /\ OncePlaced => Known  BY DEF Known
<1> QED BY <1>1, <1>2, <1>3, SpecPermits, SpecPlaced, PTL DEF Spec

\* A thread uses and closes its own connection only, and a client receives its
\* own answer, for any number of threads, descriptors, crashes and starts, until
\* a second accept has failed.
THEOREM OwnConnectionHolds == Spec => []OwnConnection
<1>1. Own => OwnConnection
  BY DEF Own, Sole, Live, OwnFrames, OwnConnection
<1> QED BY <1>1, SpecOwn, PTL
=============================================================================
