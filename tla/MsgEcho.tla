------------------------------ MODULE MsgEcho ------------------------------
(***************************************************************************)
(* The echo service on one System V message queue (fork/msg/echo).         *)
(*                                                                         *)
(* Clients and the server share a single queue in both directions.  A      *)
(* request has type 1 and begins with the pid of its client; an answer has *)
(* that pid as its type.  msgrcv takes the oldest message of the type it   *)
(* asks for, and stores the type of what it got in the buffer: a client    *)
(* uses the same buffer for its next request.  msgsnd sleeps while the     *)
(* queue is full.  The queue outlives the processes.                       *)
(*                                                                         *)
(* Assumed is that the kernel does not give the pid of a client that is    *)
(* gone to a new one while messages for it are left in the queue: nothing  *)
(* in the code would keep the new client from printing them.               *)
(***************************************************************************)
EXTENDS Integers, FiniteSets, SequencesExt

CONSTANTS Clients,     \* client processes; a client is its pid
          Request,     \* message type 1
          NoMessage,   \* the server's buffer after its memset
          Capacity,    \* messages that fit the queue
          MaxLines,    \* bound on the lines typed at a client
          MaxCrashes   \* bound on the times the server is killed

ASSUME MsgEchoAssumption ==
    /\ IsFiniteSet(Clients)
    /\ Request \notin Clients
    /\ Capacity \in Nat \ {0}
    /\ MaxLines \in Nat
    /\ MaxCrashes \in Nat

VARIABLES queue,    \* the message queue
          exists,   \* msgget has created it
          client,   \* where each client is
          mtype,    \* the type in each client's buffer
          typed,    \* lines typed at each client: the last one is its number
          shown,    \* what each client printed last: whose line, and which
          server,   \* where the server is
          hand,     \* the message in the server's buffer
          crashes   \* times the server was killed

clients == <<client, mtype, typed, shown>>
srv     == <<server, hand, crashes>>
meVars  == <<queue, exists, clients, srv>>

Types    == Clients \cup {Request}
Messages == [mtype : Types, from : Clients, line : Nat]

\* A record outside of Messages, so that the two kinds are told apart.
ASSUME NoMessageAssumption == NoMessage \notin Messages

METypeOK ==
    /\ queue \in Seq(Messages) /\ Len(queue) <= Capacity
    /\ exists \in BOOLEAN
    /\ client \in [Clients -> {"unborn", "idle", "send", "wait", "gone"}]
    /\ mtype \in [Clients -> Types]
    /\ typed \in [Clients -> Nat]
    /\ shown \in [Clients -> Clients \X Nat]
    /\ server \in {"down", "recv", "send"}
    /\ hand \in Messages \cup {NoMessage}
    /\ crashes \in Nat

MEInit ==
    /\ queue = <<>>
    /\ exists = FALSE
    /\ client = [c \in Clients |-> "unborn"]
    /\ mtype = [c \in Clients |-> Request]
    /\ typed = [c \in Clients |-> 0]
    /\ shown = [c \in Clients |-> <<c, 0>>]
    /\ server = "down"
    /\ hand = NoMessage
    /\ crashes = 0

-----------------------------------------------------------------------------
(* The queue *)

Room == Len(queue) < Capacity

\* The oldest message of a type.
Oldest(t, i) ==
    /\ i \in 1..Len(queue)
    /\ queue[i].mtype = t
    /\ \A j \in 1..(i - 1) : queue[j].mtype # t

-----------------------------------------------------------------------------
(* A client *)

\* msgget(key, 0) fails while nobody has created the queue.
ClientStart(c) ==
    /\ client[c] = "unborn"
    /\ client' = [client EXCEPT ![c] = IF exists THEN "idle" ELSE "gone"]
    /\ UNCHANGED <<queue, exists, mtype, typed, shown, srv>>

\* fgets
ClientTypes(c) ==
    /\ client[c] = "idle" /\ typed[c] < MaxLines
    /\ typed' = [typed EXCEPT ![c] = @ + 1]
    /\ client' = [client EXCEPT ![c] = "send"]
    /\ UNCHANGED <<queue, exists, mtype, shown, srv>>

\* Mutant: the client does not wait for the answer to its request.
ClientSendsAhead(c) ==
    /\ client[c] = "send" /\ Room
    /\ queue' = Append(queue, [mtype |-> mtype[c], from |-> c, line |-> typed[c]])
    /\ client' = [client EXCEPT ![c] = "idle"]
    /\ UNCHANGED <<exists, mtype, typed, shown, srv>>

ClientSend(c) ==
    /\ client[c] = "send" /\ Room
    /\ queue' = Append(queue, [mtype |-> mtype[c], from |-> c, line |-> typed[c]])
    /\ client' = [client EXCEPT ![c] = "wait"]
    /\ UNCHANGED <<exists, mtype, typed, shown, srv>>

\* Mutant: msgrcv is asked for the first message, whatever its type.
ClientRecvAny(c) ==
    /\ client[c] = "wait" /\ queue # <<>>
    /\ queue' = Tail(queue)
    /\ mtype' = [mtype EXCEPT ![c] = queue[1].mtype]
    /\ shown' = [shown EXCEPT ![c] = <<queue[1].from, queue[1].line>>]
    /\ client' = [client EXCEPT ![c] = "idle"]
    /\ UNCHANGED <<exists, typed, srv>>

\* msgrcv(msgid, &msg, MAX_SIZE, pid, 0) also overwrites msg.mtype.
ClientRecv(c) ==
    /\ client[c] = "wait"
    /\ \E i \in 1..Len(queue) :
          /\ Oldest(c, i)
          /\ queue' = RemoveAt(queue, i)
          /\ mtype' = [mtype EXCEPT ![c] = queue[i].mtype]
          /\ shown' = [shown EXCEPT ![c] = <<queue[i].from, queue[i].line>>]
    /\ client' = [client EXCEPT ![c] = "idle"]
    /\ UNCHANGED <<exists, typed, srv>>

\* End of the input, or a signal, anywhere.
ClientGone(c) ==
    /\ client[c] \in {"idle", "send", "wait"}
    /\ client' = [client EXCEPT ![c] = "gone"]
    /\ UNCHANGED <<queue, exists, mtype, typed, shown, srv>>

-----------------------------------------------------------------------------
(* The server *)

\* msgget(key, IPC_CREAT): a restarted server finds the old queue.
ServerStart ==
    /\ server = "down"
    /\ exists' = TRUE
    /\ server' = "recv"
    /\ UNCHANGED <<queue, clients, hand, crashes>>

ServerRecv ==
    /\ server = "recv"
    /\ \E i \in 1..Len(queue) :
          /\ Oldest(Request, i)
          /\ queue' = RemoveAt(queue, i)
          /\ hand' = queue[i]
    /\ server' = "send"
    /\ UNCHANGED <<exists, clients, crashes>>

\* Mutant: the answer keeps the type of the request.
ServerSendsRequest ==
    /\ server = "send" /\ Room
    /\ queue' = Append(queue, hand)
    /\ hand' = NoMessage
    /\ server' = "recv"
    /\ UNCHANGED <<exists, clients, crashes>>

\* msg.mtype = pid; the rest of the message goes back as it came.
ServerSend ==
    /\ server = "send" /\ Room
    /\ queue' = Append(queue, [hand EXCEPT !.mtype = hand.from])
    /\ hand' = NoMessage
    /\ server' = "recv"
    /\ UNCHANGED <<exists, clients, crashes>>

\* A request in the server's hands is lost with it.
ServerKilled ==
    /\ server # "down" /\ crashes < MaxCrashes
    /\ server' = "down"
    /\ hand' = NoMessage
    /\ crashes' = crashes + 1
    /\ UNCHANGED <<queue, exists, clients>>

-----------------------------------------------------------------------------
ClientNext(c) ==
    \/ ClientStart(c) \/ ClientTypes(c) \/ ClientSend(c)
    \/ ClientRecv(c) \/ ClientGone(c)

ServerNext == ServerStart \/ ServerRecv \/ ServerSend \/ ServerKilled

MENext == ServerNext \/ \E c \in Clients : ClientNext(c)

MESpec == MEInit /\ [][MENext]_meVars

\* Processes that can run do; the kernel wakes the sleepers of a queue in
\* turn, so that one that could go on again and again does.  Nothing is
\* assumed of who types, who is killed, or of a server that is down.
MEFairness ==
    /\ WF_meVars(ServerRecv) /\ SF_meVars(ServerSend)
    /\ \A c \in Clients : SF_meVars(ClientSend(c)) /\ WF_meVars(ClientRecv(c))

MEFairSpec == MESpec /\ MEFairness

-----------------------------------------------------------------------------
(* Properties *)

\* What a client prints after a round is the line it typed in that round:
\* answers are never mixed up, not even after crashes, when requests and
\* answers of the dead are still in the queue.
AnswerIsOwn ==
    \A c \in Clients : client[c] = "idle" => shown[c] = <<c, typed[c]>>

\* With no more clients than messages that fit, the server always finds room
\* for an answer.  (With more, requests fill the queue while the server holds
\* one: everybody sleeps for ever.)
NeverFullForAnswer ==
    Cardinality(Clients) <= Capacity => (server = "send" => Room)

\* Every client gets its answer, unless it leaves or the server is killed.
Answered ==
    \A c \in Clients :
        (client[c] = "send" /\ server # "down" /\ crashes = 0)
            ~> (client[c] \in {"idle", "gone"} \/ crashes > 0)

\* What a client sends is addressed to the server, says its comment.  Only the
\* first line is.
SentToServer ==
    [][\A c \in Clients :
          client[c] = "send" /\ client'[c] = "wait"
              => queue'[Len(queue')].mtype = Request]_meVars
=============================================================================
