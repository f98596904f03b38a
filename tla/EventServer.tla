---------------------------- MODULE EventServer ----------------------------
(***************************************************************************)
(* The single-process echo servers on select, poll, epoll and kqueue       *)
(* (socket/select, poll, epoll, kqueue: server.c) with their clients.      *)
(*                                                                         *)
(* All four wait until the kernel reports descriptors that can be read,    *)
(* accept new connections, read one line from each reported connection and *)
(* send it back.  select and poll keep a pool of connections that they     *)
(* scan, epoll and kqueue get a list of events.  Lines are units; a        *)
(* connection may also hold the beginning of one, at which the readline of *)
(* sockUtil.h runs over the end of its buffer (PeekLine).                  *)
(***************************************************************************)
EXTENDS Integers, FiniteSets

CONSTANTS Conns,     \* the connections clients make
          Listen,    \* sockfd, listenfd
          NoConn,    \* -1 in the pool
          Servers,   \* which of the four servers, with which size of the pool
          MaxLines,  \* bound on the lines each client sends
          Window     \* replies the socket buffers hold for a client

ASSUME EventServerAssumption ==
    /\ Listen \notin Conns /\ NoConn \notin Conns /\ Listen # NoConn
    /\ IsFiniteSet(Conns)
    /\ Servers \subseteq [kind  : {"select", "poll", "epoll", "kqueue"},
                          slots : Nat \ {0}]
    /\ MaxLines \in Nat
    /\ Window \in Nat \ {0}

VARIABLES server,   \* the server at hand
          client,   \* what each client has done with its connection
          sent,     \* lines each client has sent completely
          got,      \* replies it has read
          inbox,    \* lines in the server's receive buffer of a connection
          part,     \* the beginning of another line is there as well
          replies,  \* replies the client has not read yet
          link,     \* up; reset: an error is pending; down: none (any more)
          backlog,  \* established connections the server has not accepted
          edge,     \* epoll: descriptors with news since they were reported
          fds,      \* connections the server has open
          table,    \* select, poll: the pool client[]
          maxi,     \* its largest index in use so far
          allset,   \* select: the descriptors to watch
          ready,    \* rset, revents, or the events not looked at yet
          bad,      \* epoll: those reported with EPOLLERR or EPOLLHUP
          num,      \* kqueue: connections to accept
          nready,   \* select, poll: reported descriptors not yet handled
          i,        \* select, poll: the index of the scan
          conn,     \* the server's variable conn (kqueue: fd)
          pc

lines == <<sent, got, inbox, part, replies>>
net   == <<client, lines, link, backlog>>
pool  == <<fds, table, maxi, allset>>
loop  == <<ready, bad, num, nready, i, conn, pc>>
vars  == <<server, net, edge, pool, loop>>

kind  == server.kind
Slots == 0..(server.slots - 1)      \* FD_SETSIZE, CLT_SIZE

\* How the server ends: the pool is full, accept fails, readline or epoll
\* reports an error, SIGPIPE, or readline leaves its buffer.
Endings == {"full", "noaccept", "failed", "killed", "overrun"}
Ended   == pc \in Endings
Pooled  == kind \in {"select", "poll"}

TypeOK ==
    /\ server \in Servers
    /\ client \in [Conns -> {"idle", "open", "closed"}]
    /\ sent \in [Conns -> 0..MaxLines]
    /\ got \in [Conns -> 0..MaxLines]
    /\ inbox \in [Conns -> 0..MaxLines]
    /\ part \in [Conns -> BOOLEAN]
    /\ replies \in [Conns -> 0..Window]
    /\ link \in [Conns -> {"up", "reset", "down"}]
    /\ backlog \in SUBSET Conns
    /\ edge \in SUBSET (Conns \cup {Listen})
    /\ fds \in SUBSET Conns
    /\ table \in [Slots -> Conns \cup {Listen, NoConn}]
    /\ maxi \in Slots
    /\ allset \in SUBSET (Conns \cup {Listen})
    /\ ready \in SUBSET (Conns \cup {Listen})
    /\ bad \in SUBSET ready
    /\ num \in Nat
    /\ nready \in Nat
    /\ i \in 0..server.slots
    /\ conn \in Conns \cup {Listen, NoConn}
    /\ pc \in {"wait", "dispatch", "scan", "read", "write"} \cup Endings

Init ==
    /\ server \in Servers
    /\ client = [c \in Conns |-> "idle"]
    /\ sent = [c \in Conns |-> 0]
    /\ got = [c \in Conns |-> 0]
    /\ inbox = [c \in Conns |-> 0]
    /\ part = [c \in Conns |-> FALSE]
    /\ replies = [c \in Conns |-> 0]
    /\ link = [c \in Conns |-> "up"]
    /\ backlog = {}
    /\ edge = {}
    /\ fds = {}
    /\ table = [s \in Slots |-> IF kind = "poll" /\ s = 0 THEN Listen ELSE NoConn]
    /\ maxi = 0
    /\ allset = IF kind = "select" THEN {Listen} ELSE {}
    /\ ready = {} /\ bad = {} /\ num = 0 /\ nready = 0 /\ i = 0
    /\ conn = NoConn
    /\ pc = "wait"

-----------------------------------------------------------------------------
(* The clients and the network *)

\* An edge-triggered descriptor is queued whenever something arrives.
Notify(f) == edge' = IF kind = "epoll" THEN edge \cup {f} ELSE edge

Connect(c) ==
    /\ client[c] = "idle" /\ ~Ended
    /\ client' = [client EXCEPT ![c] = "open"]
    /\ backlog' = backlog \cup {c}
    /\ Notify(Listen)
    /\ UNCHANGED <<server, lines, link, pool, loop>>

SendLine(c) ==
    /\ client[c] = "open" /\ sent[c] < MaxLines
    /\ sent' = [sent EXCEPT ![c] = @ + 1]
    /\ inbox' = [inbox EXCEPT ![c] = @ + 1]
    /\ part' = [part EXCEPT ![c] = FALSE]
    /\ Notify(c)
    /\ UNCHANGED <<server, client, got, replies, link, backlog, pool, loop>>

\* The first segment of a line; SendLine brings the rest.
SendPart(c) ==
    /\ client[c] = "open" /\ sent[c] < MaxLines /\ ~part[c]
    /\ part' = [part EXCEPT ![c] = TRUE]
    /\ Notify(c)
    /\ UNCHANGED <<server, client, sent, got, inbox, replies, link, backlog, pool, loop>>

ReadReply(c) ==
    /\ client[c] = "open" /\ replies[c] > 0
    /\ replies' = [replies EXCEPT ![c] = @ - 1]
    /\ got' = [got EXCEPT ![c] = @ + 1]
    /\ UNCHANGED <<server, client, sent, inbox, part, link, backlog, edge, pool, loop>>

\* A client that has received replies it does not read closes with a reset at
\* once, the others with a FIN.
Close(c) ==
    /\ client[c] = "open"
    /\ client' = [client EXCEPT ![c] = "closed"]
    /\ \/ UNCHANGED link
       \/ replies[c] > 0 /\ link' = [link EXCEPT ![c] = "reset"]
    /\ Notify(c)
    /\ UNCHANGED <<server, lines, backlog, pool, loop>>

\* A reply that comes after the close is answered by a reset.  Linux lets the
\* FIN before it end recv, as if nothing had happened; kqueue's systems report
\* the error.
Reset(c) ==
    /\ client[c] = "closed" /\ replies[c] > 0 /\ link[c] = "up"
    /\ link' = [link EXCEPT ![c] = IF kind = "kqueue" THEN "reset" ELSE "down"]
    /\ Notify(c)
    /\ UNCHANGED <<server, client, lines, backlog, pool, loop>>

-----------------------------------------------------------------------------
(* Waiting for descriptors that can be read *)

Readable(f) ==
    IF f = Listen THEN backlog # {}
    ELSE inbox[f] > 0 \/ part[f] \/ client[f] = "closed" \/ link[f] # "up"

\* The kernel reports the descriptors of r.
Report(r) ==
    /\ pc = "wait" /\ r # {}
    /\ ready' = r
    /\ nready' = Cardinality(r)
    /\ i' = 0
    /\ pc' = IF Pooled /\ Listen \notin r THEN "scan" ELSE "dispatch"
    /\ UNCHANGED <<server, net, pool, conn>>

SelectWait ==
    /\ kind = "select"
    /\ Report({f \in allset : Readable(f)})
    /\ UNCHANGED <<edge, bad, num>>

PollWait ==
    /\ kind = "poll"
    /\ Report({f \in {table[s] : s \in 0..maxi} \ {NoConn} : Readable(f)})
    /\ UNCHANGED <<edge, bad, num>>

\* Only what has had news is looked at, and only once.
EpollWait ==
    /\ kind = "epoll"
    /\ Report({f \in edge \cap (fds \cup {Listen}) : Readable(f)})
    /\ bad' = {c \in ready' \ {Listen} : link[c] # "up"}
    /\ edge' = {}
    /\ UNCHANGED num

KqueueWait ==
    /\ kind = "kqueue"
    /\ Report({f \in fds \cup {Listen} : Readable(f)})
    /\ num' = IF Listen \in ready' THEN Cardinality(backlog) ELSE 0
    /\ UNCHANGED <<edge, bad>>

-----------------------------------------------------------------------------
(* The pool of select and poll *)

FreeSlots == {s \in Slots : table[s] = NoConn}

\* Mutant: the largest index in use is not kept.
AddToPoolKeepsMaxi(c) ==
    \E s \in FreeSlots :
        /\ \A t \in FreeSlots : s <= t
        /\ table' = [table EXCEPT ![s] = c]
        /\ maxi' = maxi

AddToPool(c) ==
    \E s \in FreeSlots :
        /\ \A t \in FreeSlots : s <= t
        /\ table' = [table EXCEPT ![s] = c]
        /\ maxi' = IF s > maxi THEN s ELSE maxi

Accept(c) ==
    /\ backlog' = backlog \ {c}
    /\ fds' = fds \cup {c}
    /\ conn' = c

\* if (--nready <= 0) continue;
PoolAccept ==
    /\ pc = "dispatch"
    /\ \E c \in backlog : Accept(c) /\ AddToPool(c)
    /\ nready' = nready - 1
    /\ pc' = IF nready' <= 0 THEN "wait" ELSE "scan"
    /\ UNCHANGED <<server, client, lines, link, edge, ready, bad, num, i>>

SelectAccept ==
    /\ kind = "select"
    /\ PoolAccept
    /\ allset' = allset \cup {conn'}

PollAccept ==
    /\ kind = "poll"
    /\ PoolAccept
    /\ UNCHANGED allset

\* "too many clients": the server exits.
PoolFull ==
    /\ Pooled /\ pc = "dispatch"
    /\ FreeSlots = {}
    /\ pc' = "full"
    /\ UNCHANGED <<server, net, edge, pool, ready, bad, num, nready, i, conn>>

\* Slots from i on whose connection was reported.
Flagged == {s \in i..maxi : table[s] \in ready}

\* Mutant: FD_ISSET is not tested.
ScanUntested ==
    /\ Pooled /\ pc = "scan"
    /\ \E s \in i..maxi :
          /\ table[s] \in Conns
          /\ i' = s
          /\ conn' = table[s]
    /\ pc' = "read"
    /\ UNCHANGED <<server, net, edge, pool, ready, bad, num, nready>>

Scan ==
    /\ Pooled /\ pc = "scan"
    /\ IF Flagged = {}
       THEN pc' = "wait" /\ UNCHANGED <<i, conn>>
       ELSE /\ \E s \in Flagged :
                  /\ \A t \in Flagged : s <= t
                  /\ i' = s
                  /\ conn' = table[s]
            /\ pc' = "read"
    /\ UNCHANGED <<server, net, edge, pool, ready, bad, num, nready>>

-----------------------------------------------------------------------------
(* The events of epoll and kqueue, in the order of the kernel *)

NextEvent(r) == IF r = {} THEN "wait" ELSE "dispatch"

EpollError ==
    /\ kind = "epoll" /\ pc = "dispatch"
    /\ bad # {}
    /\ pc' = "failed"
    /\ UNCHANGED <<server, net, edge, pool, ready, bad, num, nready, i, conn>>

\* One connection per event.  The kernel looks at once whether the added
\* descriptor has something to report.
EpollAccept ==
    /\ kind = "epoll" /\ pc = "dispatch"
    /\ Listen \in ready
    /\ \E c \in backlog :
          /\ Accept(c)
          /\ edge' = edge \cup {c}
    /\ ready' = ready \ {Listen}
    /\ pc' = NextEvent(ready')
    /\ UNCHANGED <<server, client, lines, link, table, maxi, allset, bad, num, nready, i>>

\* The event of f makes the server read from conn.
EpollEvent ==
    /\ kind = "epoll" /\ pc = "dispatch"
    /\ \E f \in ready \ ({Listen} \cup bad) : ready' = ready \ {f}
    /\ pc' = "read"
    /\ UNCHANGED <<server, net, edge, pool, bad, num, nready, i, conn>>

\* num calls of accept, of which those for cs succeed.
AcceptAll(cs) ==
    /\ kind = "kqueue" /\ pc = "dispatch"
    /\ Listen \in ready
    /\ backlog' = backlog \ cs
    /\ fds' = fds \cup cs
    /\ ready' = ready \ {Listen}
    /\ pc' = NextEvent(ready')
    /\ UNCHANGED <<server, client, lines, link, edge, table, maxi, allset,
                   bad, num, nready, i, conn>>

KqueueAccept ==
    \E cs \in SUBSET backlog : Cardinality(cs) = num /\ AcceptAll(cs)

KqueueEvent ==
    /\ kind = "kqueue" /\ pc = "dispatch"
    /\ \E f \in ready \ {Listen} :
          /\ conn' = f
          /\ ready' = ready \ {f}
    /\ pc' = "read"
    /\ UNCHANGED <<server, net, edge, pool, bad, num, nready, i>>

\* kqueue does not notice that an accept has failed.
KqueueAcceptFails ==
    \E cs \in SUBSET backlog : Cardinality(cs) < num /\ AcceptAll(cs)

AcceptFails ==
    /\ kind # "kqueue" /\ pc = "dispatch" /\ Listen \in ready
    /\ pc' = "noaccept"
    /\ UNCHANGED <<server, net, edge, pool, ready, bad, num, nready, i, conn>>

-----------------------------------------------------------------------------
(* readline(conn), the echo, and what follows *)

\* Mutant: a descriptor whose connection ended is not counted.
HandledUncounted ==
    IF Pooled
    THEN /\ nready' = IF pc = "read" THEN nready ELSE nready - 1
         /\ i' = i + 1
         /\ pc' = IF nready' <= 0 THEN "wait" ELSE "scan"
    ELSE /\ pc' = NextEvent(ready)
         /\ UNCHANGED <<nready, i>>

\* Back to the scan, unless everything that was reported has been handled; or
\* to the next event.
Handled ==
    IF Pooled
    THEN /\ nready' = nready - 1
         /\ i' = i + 1
         /\ pc' = IF nready' <= 0 THEN "wait" ELSE "scan"
    ELSE /\ pc' = NextEvent(ready)
         /\ UNCHANGED <<nready, i>>

ReadLine ==
    /\ pc = "read"
    /\ conn \in fds /\ inbox[conn] > 0
    /\ inbox' = [inbox EXCEPT ![conn] = @ - 1]
    /\ pc' = "write"
    /\ UNCHANGED <<server, client, sent, got, part, replies, link, backlog, edge,
                   pool, ready, bad, num, nready, i, conn>>

\* The beginning of a line is peeked at again and again.
ReadOverruns ==
    /\ pc = "read"
    /\ conn \in fds /\ inbox[conn] = 0 /\ part[conn]
    /\ pc' = "overrun"
    /\ UNCHANGED <<server, net, edge, pool, ready, bad, num, nready, i, conn>>

AtEnd(c) ==
    /\ inbox[c] = 0 /\ ~part[c]
    /\ link[c] = "down" \/ (link[c] = "up" /\ client[c] = "closed")

\* Mutant: the slot of a connection that ended is not cleared.
ReadEndKeepsSlot ==
    /\ pc = "read"
    /\ conn \in fds /\ AtEnd(conn)
    /\ fds' = fds \ {conn}
    /\ allset' = allset \ {conn}
    /\ Handled
    /\ UNCHANGED <<server, net, edge, table, maxi, ready, bad, num, conn>>

\* Mutant: 0 is taken for an error.
ReadEndExits ==
    /\ pc = "read"
    /\ conn \in fds /\ AtEnd(conn)
    /\ pc' = "failed"
    /\ UNCHANGED <<server, net, edge, pool, ready, bad, num, nready, i, conn>>

\* readline returns 0: the connection is closed and leaves the pool; the
\* empty buffer is "sent back" without a system call.
ReadEnd ==
    /\ pc = "read"
    /\ conn \in fds /\ AtEnd(conn)
    /\ fds' = fds \ {conn}
    /\ allset' = allset \ {conn}
    /\ table' = IF Pooled THEN [table EXCEPT ![i] = NoConn] ELSE table
    /\ Handled
    /\ UNCHANGED <<server, net, edge, maxi, ready, bad, num, conn>>

\* readline returns -1: on a reset, on a descriptor that is closed, on the
\* listening socket.
ReadFails ==
    /\ kind # "kqueue" /\ pc = "read"
    /\ conn \in fds => link[conn] = "reset"
    /\ pc' = "failed"
    /\ UNCHANGED <<server, net, edge, pool, ready, bad, num, nready, i, conn>>

\* kqueue leaves the list of events; they are reported again.  The socket
\* reports its error only once.
KqueueReadFails ==
    /\ kind = "kqueue" /\ pc = "read"
    /\ link[conn] = "reset"
    /\ link' = [link EXCEPT ![conn] = "down"]
    /\ ready' = {}
    /\ pc' = "wait"
    /\ UNCHANGED <<server, client, lines, backlog, edge, pool, bad, num, nready, i, conn>>

\* writen blocks while there is no room.
Write ==
    /\ pc = "write"
    /\ link[conn] = "up" /\ replies[conn] < Window
    /\ replies' = [replies EXCEPT ![conn] = @ + 1]
    /\ Handled
    /\ UNCHANGED <<server, client, sent, got, inbox, part, link, backlog, edge,
                   pool, ready, bad, num, conn>>

\* On Linux the first send after a reset returns the pending error, at which
\* none of the servers looks.
WriteFails ==
    /\ kind # "kqueue" /\ pc = "write"
    /\ link[conn] = "reset"
    /\ link' = [link EXCEPT ![conn] = "down"]
    /\ Handled
    /\ UNCHANGED <<server, client, lines, backlog, edge, pool, ready, bad, num, conn>>

\* Else there is SIGPIPE, which none of the servers ignores.
WriteKilled ==
    /\ pc = "write"
    /\ \/ link[conn] = "down"
       \/ kind = "kqueue" /\ link[conn] = "reset"
    /\ pc' = "killed"
    /\ UNCHANGED <<server, net, edge, pool, ready, bad, num, nready, i, conn>>

-----------------------------------------------------------------------------
ClientNext(c) ==
    \/ Connect(c) \/ SendLine(c) \/ SendPart(c) \/ ReadReply(c)
    \/ Close(c) \/ Reset(c)

ServerNext ==
    \/ SelectWait \/ PollWait \/ EpollWait \/ KqueueWait
    \/ SelectAccept \/ PollAccept \/ PoolFull \/ Scan
    \/ EpollError \/ EpollAccept \/ EpollEvent \/ KqueueAccept \/ KqueueEvent
    \/ ReadLine \/ ReadOverruns \/ ReadEnd \/ ReadFails \/ KqueueReadFails
    \/ Write \/ WriteFails \/ WriteKilled

Next ==
    \/ ServerNext \/ AcceptFails \/ KqueueAcceptFails
    \/ \E c \in Conns : ClientNext(c)

Spec == Init /\ [][Next]_vars

\* The server is scheduled, a client (select/client.c) reads whatever is sent
\* to it, and the kernel resets a connection whose client is gone.  Nothing is
\* assumed of what clients send or when they close.
\* kqueue tries again when accept has failed, and not for ever in vain.
Fairness ==
    /\ WF_vars(ServerNext) /\ SF_vars(KqueueAccept)
    /\ \A c \in Conns : WF_vars(ReadReply(c)) /\ WF_vars(Reset(c))
FairSpec == Spec /\ Fairness

-----------------------------------------------------------------------------
(* Properties *)

\* The pool agrees with the open connections: each has one slot, within the
\* part that is scanned, no slot is left to a closed one, and select watches
\* the same connections.
PoolSound ==
    /\ kind = "select" => allset = fds \cup {Listen}
    /\ Pooled => /\ \A c \in fds : \E s \in 0..maxi : table[s] = c
                 /\ \A s, t \in Slots : table[s] = table[t] /\ s # t => table[s] = NoConn
                 /\ \A s \in Slots : table[s] \in fds \cup {Listen, NoConn}

\* Counting down nready ends the scan exactly when every reported descriptor
\* has been handled, although connections come and go during the scan.
NreadyExact ==
    kind = "select" /\ pc \in {"scan", "read", "write"} => nready = Cardinality(Flagged)

\* The server never waits in readline for one connection while others want to
\* be served: what it reads from has something to read.
NeverWaitsForOne ==
    pc = "read" /\ kind # "epoll" => conn = Listen \/ Readable(conn)

\* A client that reads its replies before it closes cannot bring the server
\* down: readline and writen fail only when there has been a reset.
FailsOnResetOnly ==
    kind \in {"select", "kqueue"} /\ pc \in {"failed", "killed"}
        => \E c \in Conns : link[c] # "up"

\* Every line a client has sent is answered, unless it closes or the server
\* ends.
Answered ==
    \A c \in Conns, n \in 1..MaxLines :
        (kind # "epoll" /\ sent[c] >= n) ~> (got[c] >= n \/ client[c] = "closed" \/ Ended)
=============================================================================
