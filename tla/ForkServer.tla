----------------------------- MODULE ForkServer -----------------------------
(***************************************************************************)
(* The process-per-connection echo server (socket/multforkframe/server.c). *)
(*                                                                         *)
(* The parent accepts, forks one child per accepted connection and closes  *)
(* its own copy of the descriptor; the child closes the listening socket   *)
(* and echoes frames until the peer closes.  A SIGCHLD handler collects    *)
(* dead children.  Pending SIGCHLDs coalesce into one, and the handler     *)
(* interrupts the parent between any two of its steps.                     *)
(*                                                                         *)
(* A session is one turn of the accept loop: a connection that was         *)
(* accepted, or a failed accept, after which the code goes on with         *)
(* connfd = 0, the descriptor of the standard input.  A frame is one unit  *)
(* here; its assembly from partial reads is FrameReader's subject.         *)
(***************************************************************************)
EXTENDS Naturals, FiniteSets

CONSTANTS Conns,        \* the connections clients make
          Failures,     \* the accept calls that fail for another reason than time
          Parent,       \* the accepting process
          Listen,       \* the listening socket
          Stdin,        \* what descriptor 0 is open on
          NoSession,    \* the parent is between two sessions
          MaxRequests,  \* bound on the frames each client sends
          Window        \* replies the socket buffers hold for a client

Sessions == Conns \cup Failures
Procs    == Sessions \cup {Parent}
Files    == Conns \cup {Listen, Stdin}

ASSUME ForkServerAssumption ==
    /\ Conns \cap Failures = {}
    /\ Sessions \cap {Parent, Listen, Stdin, NoSession} = {}
    /\ Listen # Stdin
    /\ MaxRequests \in [Conns -> Nat]
    /\ Window \in Nat \ {0}

VARIABLES client,    \* what each client has done with its connection
          sent,      \* frames each client has sent so far
          requests,  \* frames waiting to be received by the server
          replies,   \* frames waiting to be read by the client
          backlog,   \* established connections the server has not accepted
          main,      \* where the parent's loop is
          current,   \* the session in the parent's hands
          child,     \* where the child of each session is
          fds,       \* what each process has open
          chld,      \* a SIGCHLD is pending for the parent
          handling   \* the parent is inside sigHandler

net    == <<client, sent, requests, replies>>
parent == <<backlog, main, current>>
sigs   == <<chld, handling>>
vars   == <<net, parent, child, fds, sigs>>

ChildStates == {"none", "start", "recv", "send", "exit", "zombie", "reaped"}
Alive(s)    == child[s] \in {"start", "recv", "send", "exit"}

\* The file that the connfd of a session names: descriptor 0 after a failure.
File(s) == IF s \in Conns THEN s ELSE Stdin

TypeOK ==
    /\ client \in [Conns -> {"idle", "open", "closed"}]
    /\ sent \in [Conns -> Nat]
    /\ requests \in [Conns -> Nat]
    /\ replies \in [Conns -> Nat]
    /\ backlog \in SUBSET Conns
    /\ main \in {"accept", "fork", "close", "exited"}
    /\ current \in Sessions \cup {NoSession}
    /\ child \in [Sessions -> ChildStates]
    /\ fds \in [Procs -> SUBSET Files]
    /\ chld \in BOOLEAN
    /\ handling \in BOOLEAN

Init ==
    /\ client = [c \in Conns |-> "idle"]
    /\ sent = [c \in Conns |-> 0]
    /\ requests = [c \in Conns |-> 0]
    /\ replies = [c \in Conns |-> 0]
    /\ backlog = {}
    /\ main = "accept"
    /\ current = NoSession
    /\ child = [s \in Sessions |-> "none"]
    /\ fds = [p \in Procs |-> IF p = Parent THEN {Listen, Stdin} ELSE {}]
    /\ chld = FALSE
    /\ handling = FALSE

-----------------------------------------------------------------------------
(* The clients *)

Listening == \E p \in Procs : Listen \in fds[p]

ClientConnect(c) ==
    /\ client[c] = "idle"
    /\ Listening
    /\ client' = [client EXCEPT ![c] = "open"]
    /\ backlog' = backlog \cup {c}
    /\ UNCHANGED <<sent, requests, replies, main, current, child, fds, sigs>>

ClientSend(c) ==
    /\ client[c] = "open"
    /\ sent[c] < MaxRequests[c]
    /\ sent' = [sent EXCEPT ![c] = @ + 1]
    /\ requests' = [requests EXCEPT ![c] = @ + 1]
    /\ UNCHANGED <<client, replies, parent, child, fds, sigs>>

ClientRead(c) ==
    /\ client[c] = "open"
    /\ replies[c] > 0
    /\ replies' = [replies EXCEPT ![c] = @ - 1]
    /\ UNCHANGED <<client, sent, requests, parent, child, fds, sigs>>

ClientClose(c) ==
    /\ client[c] = "open"
    /\ client' = [client EXCEPT ![c] = "closed"]
    /\ UNCHANGED <<sent, requests, replies, parent, child, fds, sigs>>

-----------------------------------------------------------------------------
(* The parent's loop; it does not advance while the handler runs *)

AtMain(l) == main = l /\ ~handling

Accept ==
    /\ AtMain("accept")
    /\ \E c \in backlog :
          /\ backlog' = backlog \ {c}
          /\ current' = c
          /\ fds' = [fds EXCEPT ![Parent] = @ \cup {c}]
    /\ main' = "fork"
    /\ UNCHANGED <<net, child, sigs>>

\* sockSrvAccept returns an errno; the loop tests SOCK_ERROR_TIMEOUT only and
\* goes on with the connfd it initialised to 0.
AcceptFails ==
    /\ AtMain("accept")
    /\ \E f \in Failures :
          /\ child[f] = "none"
          /\ current' = f
    /\ main' = "fork"
    /\ UNCHANGED <<net, backlog, child, fds, sigs>>

Fork ==
    /\ AtMain("fork")
    /\ child' = [child EXCEPT ![current] = "start"]
    /\ fds' = [fds EXCEPT ![current] = fds[Parent]]
    /\ main' = "close"
    /\ UNCHANGED <<net, backlog, current, sigs>>

\* fork error: both descriptors are closed and the server exits.
ForkFails ==
    /\ AtMain("fork")
    /\ fds' = [fds EXCEPT ![Parent] = {}]
    /\ main' = "exited"
    /\ current' = NoSession
    /\ child' = [s \in Sessions |->
                    IF child[s] = "zombie" THEN "reaped" ELSE child[s]]
    /\ chld' = FALSE
    /\ UNCHANGED <<net, backlog, handling>>

\* Mutant: the parent keeps its copy of the accepted connection.
ParentKeeps ==
    /\ AtMain("close")
    /\ current' = NoSession
    /\ main' = "accept"
    /\ UNCHANGED <<net, backlog, child, fds, sigs>>

ParentClose ==
    /\ AtMain("close")
    /\ fds' = [fds EXCEPT ![Parent] = @ \ {File(current)}]
    /\ current' = NoSession
    /\ main' = "accept"
    /\ UNCHANGED <<net, backlog, child, sigs>>

-----------------------------------------------------------------------------
(* The children *)

\* Mutant: the child keeps the listening socket.
ChildKeepsListen(s) ==
    /\ child[s] = "start"
    /\ child' = [child EXCEPT ![s] = "recv"]
    /\ UNCHANGED <<net, parent, fds, sigs>>

ChildStart(s) ==
    /\ child[s] = "start"
    /\ fds' = [fds EXCEPT ![s] = @ \ {Listen}]
    /\ child' = [child EXCEPT ![s] = "recv"]
    /\ UNCHANGED <<net, parent, sigs>>

ChildRecv(s) ==
    /\ child[s] = "recv"
    /\ s \in Conns
    /\ requests[s] > 0
    /\ requests' = [requests EXCEPT ![s] = @ - 1]
    /\ child' = [child EXCEPT ![s] = "send"]
    /\ UNCHANGED <<client, sent, replies, parent, fds, sigs>>

\* The loop ends: sockSrvRecv reports that the peer closed (a reset may
\* overtake frames that wait); on descriptor 0, an end of file or an error.
ChildRecvFails(s) ==
    /\ child[s] = "recv"
    /\ s \in Conns => client[s] = "closed"
    /\ fds' = [fds EXCEPT ![s] = @ \ {File(s)}]
    /\ child' = [child EXCEPT ![s] = "exit"]
    /\ UNCHANGED <<net, parent, sigs>>

ChildSend(s) ==
    /\ child[s] = "send"
    /\ replies[s] < Window
    /\ replies' = [replies EXCEPT ![s] = @ + 1]
    /\ child' = [child EXCEPT ![s] = "recv"]
    /\ UNCHANGED <<client, sent, requests, parent, fds, sigs>>

\* Mutant: no write_timeout, the child blocks on a client that does not read.
ChildSendBlocks(s) ==
    /\ child[s] = "send"
    /\ client[s] = "closed"
    /\ fds' = [fds EXCEPT ![s] = @ \ {File(s)}]
    /\ child' = [child EXCEPT ![s] = "exit"]
    /\ UNCHANGED <<net, parent, sigs>>

\* SIGPIPE is ignored, so a write to a closed peer only fails; a peer that
\* does not read makes write_timeout expire.
ChildSendFails(s) ==
    /\ child[s] = "send"
    /\ client[s] = "closed" \/ replies[s] >= Window
    /\ fds' = [fds EXCEPT ![s] = @ \ {File(s)}]
    /\ child' = [child EXCEPT ![s] = "exit"]
    /\ UNCHANGED <<net, parent, sigs>>

\* What the kernel does with a child that ends: a zombie and a SIGCHLD for a
\* parent that lives, otherwise init collects it at once.
Ends(s) ==
    /\ child' = [child EXCEPT ![s] = IF main = "exited" THEN "reaped" ELSE "zombie"]
    /\ chld' = (main # "exited")
    /\ fds' = [fds EXCEPT ![s] = {}]
    /\ UNCHANGED <<net, parent, handling>>

ChildExit(s) == child[s] = "exit" /\ Ends(s)

\* A signal kills the child wherever it is.
ChildKilled(s) == Alive(s) /\ Ends(s)

-----------------------------------------------------------------------------
(* sigHandler(); signal() blocks SIGCHLD while the handler runs *)

Zombies == {s \in Sessions : child[s] = "zombie"}

HandlerEnter ==
    /\ main # "exited" /\ ~handling
    /\ chld
    /\ chld' = FALSE
    /\ handling' = TRUE
    /\ UNCHANGED <<net, parent, child, fds>>

\* Mutant: an if in place of the while, one child is collected per signal.
HandlerReapOne ==
    /\ handling
    /\ \E s \in Zombies : child' = [child EXCEPT ![s] = "reaped"]
    /\ handling' = FALSE
    /\ UNCHANGED <<net, parent, fds, chld>>

\* waitpid(-1, NULL, WNOHANG) > 0
HandlerReap ==
    /\ handling
    /\ \E s \in Zombies : child' = [child EXCEPT ![s] = "reaped"]
    /\ UNCHANGED <<net, parent, fds, sigs>>

\* waitpid returns 0, or -1 when there is no child at all.
HandlerLeave ==
    /\ handling
    /\ Zombies = {}
    /\ handling' = FALSE
    /\ UNCHANGED <<net, parent, child, fds, chld>>

-----------------------------------------------------------------------------
ClientNext(c) == ClientConnect(c) \/ ClientSend(c) \/ ClientRead(c) \/ ClientClose(c)

ParentNext == Accept \/ AcceptFails \/ Fork \/ ForkFails \/ ParentClose

ChildNext(s) ==
    \/ ChildStart(s) \/ ChildRecv(s) \/ ChildRecvFails(s) \/ ChildSend(s)
    \/ ChildSendFails(s) \/ ChildExit(s) \/ ChildKilled(s)

HandlerNext == HandlerEnter \/ HandlerReap \/ HandlerLeave

Next ==
    \/ \E c \in Conns : ClientNext(c)
    \/ ParentNext
    \/ \E s \in Sessions : ChildNext(s)
    \/ HandlerNext

Spec == Init /\ [][Next]_vars

\* The kernel schedules every process that can run and delivers a pending
\* signal.  Nothing is assumed of the clients, of failures or of kills.
Fairness ==
    /\ WF_vars(Accept) /\ WF_vars(Fork \/ ForkFails) /\ WF_vars(ParentClose)
    /\ WF_vars(HandlerNext)
    /\ \A s \in Conns :
          WF_vars(\/ ChildStart(s) \/ ChildRecv(s) \/ ChildRecvFails(s)
                  \/ ChildSend(s) \/ ChildSendFails(s) \/ ChildExit(s))

FairSpec == Spec /\ Fairness

-----------------------------------------------------------------------------
(* Properties *)

\* A connection is open in its own child, and in the parent only between
\* accept and close: no other child inherits it, so that the last close sends
\* the FIN when the child of that connection ends.
NoStrayDescriptor ==
    \A c \in Conns, p \in Procs :
        c \in fds[p] => p = c \/ (p = Parent /\ current = c)

\* However SIGCHLDs coalesce, a zombie is never overlooked: while the server
\* runs, a signal is pending or the handler is still in its loop.
ZombieNoticed ==
    main # "exited" /\ Zombies # {} => chld \/ handling

\* Once the server has exited, its port is free as soon as no child is
\* between fork and close(listenfd): a child at work does not hold it.
PortFreed ==
    Listening => main # "exited" \/ \E s \in Sessions : child[s] = "start"

\* A child never echoes more than it was sent: what the client has been sent
\* back, what waits and what the child holds add up to at most what was sent.
NothingInvented ==
    \A c \in Conns :
        requests[c] + replies[c] + (IF child[c] = "send" THEN 1 ELSE 0) <= sent[c]

\* A child is forked only for a socket that accept returned, as the comment of
\* accept_timeout has it.  The code does not keep to that: AcceptFails, Fork.
ServesAcceptedOnly == \A f \in Failures : ~Alive(f)

\* After a client closes, its connection is eventually closed on the server
\* side too, whatever the other clients and children do.
ClosedIsReleased ==
    \A c \in Conns :
        client[c] = "closed" ~> (c \in backlog \/ \A p \in Procs : c \notin fds[p])

\* A child does not wait for ever with a reply in its hands: a client that
\* does not read holds up nobody, not even its own child.
ReplyGivenUp == \A c \in Conns : child[c] = "send" ~> child[c] # "send"
=============================================================================
