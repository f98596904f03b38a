------------------------- MODULE EventServer_proofs -------------------------
(***************************************************************************)
(* The pool, the countdown of nready and the safety of reading, for any    *)
(* number of connections and any size of the pool.                         *)
(***************************************************************************)
EXTENDS EventServer, FiniteSetTheorems, TLAPS

\* Lines are somewhere between the client's keyboard and its screen, or lost.
Bounds ==
    \A c \in Conns :
        inbox[c] + replies[c] + got[c] + (IF pc = "write" /\ conn = c THEN 1 ELSE 0)
            <= sent[c]

\* A connection is accepted once.
OnceAccepted ==
    /\ backlog \cap fds = {}
    /\ \A c \in Conns : client[c] = "idle" => c \notin backlog \cup fds

Busy == pc \in {"dispatch", "scan", "read", "write"}

\* What the loop knows at each place about its variables.
AtPlace ==
    /\ Pooled /\ Busy => nready >= 1
    /\ Pooled /\ pc = "dispatch" => /\ i = 0
                                    /\ Listen \in ready
                                    /\ ready \subseteq fds \cup {Listen}
    /\ Pooled /\ pc \in {"read", "write"} =>
          i \in Slots /\ i <= maxi /\ conn = table[i] /\ conn \in ready
    /\ kind = "select" => \A s \in Slots : table[s] # Listen
    /\ kind = "kqueue" /\ pc = "read" => conn \in fds \ ready /\ Readable(conn)
    /\ pc = "write" => conn \in fds
    /\ kind = "kqueue" /\ Busy => ready \subseteq fds \cup {Listen}
    /\ Listen \notin bad /\ (kind # "epoll" => bad = {})

\* The slots that the scan has still to look at.
Ahead == {s \in Slots : (IF pc = "write" THEN i + 1 ELSE i) <= s /\ s <= maxi}

\* A connection that was reported can be read until its turn comes.
StillReadable ==
    /\ Pooled /\ Busy => \A s \in Ahead : table[s] \in ready \ {Listen} => Readable(table[s])
    /\ kind = "kqueue" /\ Busy => \A f \in ready \ {Listen} : Readable(f)

Count ==
    kind = "select" =>
        /\ pc = "dispatch" => nready = Cardinality(Flagged) + 1
        /\ pc \in {"scan", "read", "write"} => nready = Cardinality(Flagged)

IInv ==
    /\ TypeOK /\ PoolSound /\ Bounds /\ OnceAccepted
    /\ AtPlace /\ StillReadable /\ Count /\ FailsOnResetOnly

\* One of four servers, whose pool has a first slot.
LEMMA ServerFacts ==
  ASSUME server \in Servers
  PROVE  /\ kind \in {"select", "poll", "epoll", "kqueue"}
         /\ server.slots \in Nat \ {0}
         /\ 0 \in Slots
  BY EventServerAssumption DEF kind, Slots

\* Initially only the listening socket is in the pool of poll.
LEMMA InitIInv == Init => IInv
<1> SUFFICES ASSUME Init PROVE IInv
  OBVIOUS
<1> USE EventServerAssumption, ServerFacts DEF Init
<1>1. TypeOK
  <2>1. table \in [Slots -> Conns \cup {Listen, NoConn}]  OBVIOUS
  <2>2. 0 \in 0..MaxLines /\ 0 \in 0..Window /\ 0 \in 0..server.slots  OBVIOUS
  <2> QED BY <2>1, <2>2 DEF TypeOK
<1>2. PoolSound          BY DEF PoolSound, Pooled, Slots
<1>3. Bounds             BY DEF Bounds
<1>4. OnceAccepted       BY DEF OnceAccepted
<1>5. AtPlace            BY DEF AtPlace, Busy
<1>6. StillReadable      BY DEF StillReadable, Busy
<1>7. Count              BY DEF Count
<1>8. FailsOnResetOnly   BY DEF FailsOnResetOnly
<1> QED BY <1>1, <1>2, <1>3, <1>4, <1>5, <1>6, <1>7, <1>8 DEF IInv

\* A step of a client changes nothing that the server knows, and what could be
\* read can still be read.
LEMMA ClientStep ==
  ASSUME IInv, NEW c \in Conns, ClientNext(c)
  PROVE  IInv'
<1> USE EventServerAssumption, ServerFacts DEF IInv
<1> DEFINE Step == Connect(c) \/ SendLine(c) \/ SendPart(c) \/ ReadReply(c)
                     \/ Close(c) \/ Reset(c)
<1>1. UNCHANGED <<server, pool, loop>>
  BY DEF ClientNext, Connect, SendLine, SendPart, ReadReply, Close, Reset
<1>2. TypeOK'
  <2>1. CASE Connect(c)  BY <2>1 DEF TypeOK, Connect, Notify, lines, pool, loop, Slots
  <2>2. CASE SendLine(c)
    <3>1. sent[c] + 1 \in 0..MaxLines /\ inbox[c] + 1 \in 0..MaxLines
      BY <2>2 DEF SendLine, TypeOK, Bounds
    <3> QED BY <2>2, <3>1 DEF TypeOK, SendLine, Notify, pool, loop, Slots
  <2>3. CASE SendPart(c)  BY <2>3 DEF TypeOK, SendPart, Notify, pool, loop, Slots
  <2>4. CASE ReadReply(c)
    <3>1. replies[c] - 1 \in 0..Window /\ got[c] + 1 \in 0..MaxLines
      BY <2>4 DEF ReadReply, TypeOK, Bounds
    <3> QED BY <2>4, <3>1 DEF TypeOK, ReadReply, pool, loop, Slots
  <2>5. CASE Close(c)
    <3>1. /\ client' \in [Conns -> {"idle", "open", "closed"}]
          /\ link' \in [Conns -> {"up", "reset", "down"}]
      BY <2>5 DEF Close, TypeOK
    <3>2. edge' \in SUBSET (Conns \cup {Listen})
      BY <2>5 DEF Close, Notify, TypeOK
    <3>3. UNCHANGED <<server, lines, backlog, pool, loop>>  BY <2>5 DEF Close
    <3> QED BY <3>1, <3>2, <3>3 DEF TypeOK, lines, pool, loop, Slots
  <2>6. CASE Reset(c)  BY <2>6 DEF TypeOK, Reset, Notify, lines, pool, loop, Slots
  <2> QED BY <2>1, <2>2, <2>3, <2>4, <2>5, <2>6 DEF ClientNext
<1>3. PoolSound'  BY <1>1 DEF PoolSound, Pooled, kind, Slots, pool, loop
<1>4. Bounds'
  BY <1>1 DEF Bounds, TypeOK, ClientNext, Connect, SendLine, SendPart, ReadReply,
              Close, Reset, lines, loop
<1>5. OnceAccepted'
  BY <1>1 DEF OnceAccepted, TypeOK, ClientNext, Connect, SendLine, SendPart,
              ReadReply, Close, Reset, pool
<1>6. \A f \in Conns : Readable(f) => Readable(f)'
  BY DEF Readable, TypeOK, ClientNext, Connect, SendLine, SendPart, ReadReply,
         Close, Reset, lines
<1>7. AtPlace'
  BY <1>1, <1>6 DEF AtPlace, Busy, Pooled, kind, Slots, pool, loop, TypeOK
<1>8. StillReadable'
  BY <1>1, <1>6 DEF StillReadable, Ahead, Busy, Pooled, kind, Slots, pool, loop, TypeOK
<1>9. Count'  BY <1>1 DEF Count, Flagged, kind, pool, loop
<1>10. FailsOnResetOnly'
  BY <1>1 DEF FailsOnResetOnly, kind, loop, TypeOK, ClientNext, Connect, SendLine,
              SendPart, ReadReply, Close, Reset
<1> QED BY <1>2, <1>3, <1>4, <1>5, <1>7, <1>8, <1>9, <1>10

-----------------------------------------------------------------------------
(* The server's steps *)

\* Steps that only move the server to one of its ends.
LEMMA EndStep ==
  ASSUME IInv,
         PoolFull \/ EpollError \/ AcceptFails \/ ReadOverruns \/ ReadFails \/ WriteKilled
  PROVE  IInv'
<1> USE EventServerAssumption, ServerFacts DEF IInv
<1> DEFINE Rest == <<server, net, edge, pool, ready, bad, num, nready, i, conn>>
<1>1. UNCHANGED Rest
  BY DEF PoolFull, EpollError, AcceptFails, ReadOverruns, ReadFails, WriteKilled
<1>2. pc' \in Endings
  BY DEF PoolFull, EpollError, AcceptFails, ReadOverruns, ReadFails, WriteKilled, Endings
<1> HIDE DEF Rest
<1>3. pc' \notin {"wait", "dispatch", "scan", "read", "write"}  BY <1>2 DEF Endings
<1> USE <1>1, <1>2, <1>3 DEF Rest, net, lines, pool
<1>4. TypeOK'         BY DEF TypeOK, Slots
<1>5. PoolSound'      BY DEF PoolSound, Pooled, kind, Slots
<1>6. Bounds'         BY DEF Bounds, TypeOK
<1>7. OnceAccepted'   BY DEF OnceAccepted
<1>8. AtPlace'        BY DEF AtPlace, Busy, Pooled, kind, Slots
<1>9. StillReadable'  BY DEF StillReadable, Busy
<1>10. Count'         BY DEF Count
<1>11. FailsOnResetOnly'
  <2>1. CASE PoolFull \/ EpollError \/ AcceptFails \/ ReadOverruns
    BY <2>1 DEF PoolFull, EpollError, AcceptFails, ReadOverruns, FailsOnResetOnly, kind
  <2>2. CASE ReadFails
    <3>1. SUFFICES ASSUME kind = "select" PROVE link[conn] # "up" /\ conn \in Conns
      BY <2>2 DEF ReadFails, FailsOnResetOnly, kind
    <3>2. conn \in fds
      BY <2>2, <3>1 DEF ReadFails, AtPlace, PoolSound, Pooled, TypeOK
    <3> QED BY <2>2, <3>2 DEF ReadFails, TypeOK
  <2>3. CASE WriteKilled
    BY <2>3 DEF WriteKilled, FailsOnResetOnly, AtPlace, TypeOK
  <2> QED BY <2>1, <2>2, <2>3
<1> QED BY <1>4, <1>5, <1>6, <1>7, <1>8, <1>9, <1>10, <1>11

\* Sets of descriptors are finite, so that select can count them.
LEMMA DescriptorsFinite ==
  ASSUME NEW r \in SUBSET (Conns \cup {Listen})
  PROVE  IsFiniteSet(r) /\ Cardinality(r) \in Nat /\ (r # {} => Cardinality(r) >= 1)
<1>1. IsFiniteSet(Conns \cup {Listen})
  BY EventServerAssumption, FS_AddElement
<1>2. IsFiniteSet(r)  BY <1>1, FS_Subset
<1> QED BY <1>2, FS_CardinalityType, FS_EmptySet

\* A connection that select reports has one slot in the part that is scanned,
\* so that as many slots are flagged as connections are reported.
LEMMA FlaggedCount ==
  ASSUME TypeOK, PoolSound, kind = "select",
         NEW r \in SUBSET fds
  PROVE  Cardinality({s \in 0..maxi : table[s] \in r}) = Cardinality(r)
<1> USE EventServerAssumption, ServerFacts DEF TypeOK
<1> DEFINE F == {s \in 0..maxi : table[s] \in r}
           f == [s \in F |-> table[s]]
<1>1. F \subseteq Slots  BY DEF Slots
<1>2. f \in Bijection(F, r)
  <2>1. f \in [F -> r]  OBVIOUS
  <2>2. \A a, b \in F : f[a] = f[b] => a = b
    BY <1>1 DEF PoolSound, Pooled
  <2>3. \A t \in r : \E s \in F : f[s] = t
    BY DEF PoolSound, Pooled
  <2> QED BY <2>1, <2>2, <2>3 DEF Bijection, Injection, Surjection, IsInjective
<1>3. IsFiniteSet(F)
  <2>1. IsFiniteSet(0..maxi)  BY FS_Interval DEF Slots
  <2> QED BY <2>1, FS_Subset
<1>4. ExistsBijection(F, r)  BY <1>2 DEF ExistsBijection
<1> QED BY <1>3, <1>4, FS_Bijection

\* What is reported can be read and is open, and select and poll know how much
\* of it there is.
LEMMA WaitStep ==
  ASSUME IInv, SelectWait \/ PollWait \/ EpollWait \/ KqueueWait
  PROVE  IInv'
<1> USE EventServerAssumption, ServerFacts DEF IInv
<1>1. /\ UNCHANGED <<server, net, pool, conn>>
      /\ pc = "wait" /\ ready' # {} /\ nready' = Cardinality(ready') /\ i' = 0
      /\ pc' = IF Pooled /\ Listen \notin ready' THEN "scan" ELSE "dispatch"
  BY DEF SelectWait, PollWait, EpollWait, KqueueWait, Report
<1>2. /\ ready' \subseteq fds \cup {Listen}
      /\ \A f \in ready' : Readable(f)
  <2>1. CASE SelectWait
    BY <2>1 DEF SelectWait, Report, PoolSound
  <2>2. CASE PollWait
    <3>1. \A s \in 0..maxi : table[s] \in fds \cup {Listen, NoConn}
      BY <2>2 DEF PollWait, PoolSound, Pooled, Slots, TypeOK
    <3> QED BY <2>2, <3>1 DEF PollWait, Report
  <2>3. CASE EpollWait   BY <2>3 DEF EpollWait, Report
  <2>4. CASE KqueueWait  BY <2>4 DEF KqueueWait, Report
  <2> QED BY <2>1, <2>2, <2>3, <2>4
<1>3. /\ bad' \in SUBSET ready' /\ Listen \notin bad'
      /\ kind # "epoll" => bad' = {}
  BY DEF SelectWait, PollWait, EpollWait, KqueueWait, AtPlace
<1>4. num' \in Nat
  <2>1. Cardinality(backlog) \in Nat
    BY DescriptorsFinite DEF TypeOK
  <2> QED BY <2>1 DEF SelectWait, PollWait, EpollWait, KqueueWait, TypeOK
<1>5. ready' \in SUBSET (Conns \cup {Listen})  BY <1>2 DEF TypeOK
<1>6. nready' \in Nat /\ nready' >= 1  BY <1>1, <1>5, DescriptorsFinite
<1>7. edge' \in SUBSET (Conns \cup {Listen})
  BY DEF SelectWait, PollWait, EpollWait, KqueueWait, TypeOK
<1> USE <1>1 DEF net, lines, pool
<1>8. TypeOK'
  <2>1. i' \in 0..server.slots /\ pc' \in {"scan", "dispatch"}  BY DEF TypeOK
  <2> QED BY <1>3, <1>4, <1>5, <1>6, <1>7, <2>1 DEF TypeOK, Slots
<1>9. PoolSound'   BY DEF PoolSound, Pooled, kind, Slots
<1>10. Bounds'     BY DEF Bounds, TypeOK
<1>11. OnceAccepted'  BY DEF OnceAccepted
<1>12. AtPlace'
  BY <1>2, <1>3, <1>6 DEF AtPlace, Busy, Pooled, kind, Slots
<1>13. StillReadable'
  BY <1>2 DEF StillReadable, Readable, Busy, Pooled, kind, Ahead, Slots
<1>14. Count'
  <2> DEFINE F == {s \in 0..maxi : table[s] \in ready'}
  <2> DEFINE q == ready' \ {Listen}
  <2> SUFFICES ASSUME kind = "select"
      PROVE  Cardinality(F) = IF Listen \in ready' THEN nready' - 1 ELSE nready'
    <3>1. Flagged' = F  BY DEF Flagged
    <3>2. kind' = kind  BY DEF kind
    <3> QED BY <1>1, <1>6, <3>1, <3>2 DEF Count, Pooled
  <2>1. \A s \in 0..maxi : table[s] # Listen
    BY DEF AtPlace, TypeOK, Slots
  <2>2. F = {s \in 0..maxi : table[s] \in q}
    BY <2>1
  <2>3. q \in SUBSET fds  BY <1>2
  <2>4. Cardinality({s \in 0..maxi : table[s] \in q}) = Cardinality(q)
    BY <2>3, FlaggedCount
  <2>5. IsFiniteSet(ready') /\ Cardinality(ready') \in Nat
    BY <1>5, DescriptorsFinite
  <2>6. Cardinality(q) = IF Listen \in ready' THEN Cardinality(ready') - 1
                                              ELSE Cardinality(ready')
    BY <2>5, FS_RemoveElement
  <2>7. Cardinality(F) = Cardinality(q)  BY <2>2, <2>4
  <2> QED BY <1>1, <2>6, <2>7
<1>15. FailsOnResetOnly'  BY DEF FailsOnResetOnly
<1> QED BY <1>8, <1>9, <1>10, <1>11, <1>12, <1>13, <1>14, <1>15

\* The new connection gets the first free slot; it was not reported.
LEMMA PoolAcceptStep ==
  ASSUME IInv, SelectAccept \/ PollAccept
  PROVE  IInv'
<1> USE EventServerAssumption, ServerFacts DEF IInv
<1>1. /\ PoolAccept /\ Pooled /\ pc = "dispatch"
      /\ allset' = IF kind = "select" THEN allset \cup {conn'} ELSE allset
  BY DEF SelectAccept, PollAccept, PoolAccept, Pooled
<1>2. PICK c \in backlog : Accept(c) /\ AddToPool(c)
  BY <1>1 DEF PoolAccept
<1>3. PICK s \in FreeSlots : /\ table' = [table EXCEPT ![s] = c]
                             /\ maxi' = IF s > maxi THEN s ELSE maxi
  BY <1>2 DEF AddToPool
<1>4. /\ UNCHANGED <<server, client, lines, link, edge, ready, bad, num, i>>
      /\ backlog' = backlog \ {c} /\ fds' = fds \cup {c} /\ conn' = c
      /\ nready' = nready - 1
      /\ pc' = IF nready' <= 0 THEN "wait" ELSE "scan"
  BY <1>1, <1>2 DEF PoolAccept, Accept
<1>5. c \in Conns /\ c \notin fds  BY DEF TypeOK, OnceAccepted
<1>6. s \in Slots /\ table[s] = NoConn  BY DEF FreeSlots
<1>7. maxi' \in Slots /\ s <= maxi' /\ maxi <= maxi'
  BY <1>3, <1>6 DEF TypeOK, Slots
<1>8. \A t \in Slots : table'[t] = IF t = s THEN c ELSE table[t]
  BY <1>3, <1>6 DEF TypeOK
<1>9. nready >= 1 /\ i = 0 /\ ready \subseteq fds \cup {Listen}
  BY <1>1 DEF AtPlace, Busy
<1>10. Slots' = Slots /\ kind' = kind /\ Pooled' = Pooled
  BY <1>4 DEF Slots, kind, Pooled
\* Behind maxi there is nothing that was reported.
<1>11. \A t \in Slots : table'[t] \in ready \ {Listen} => t <= maxi /\ table'[t] = table[t]
  <2> SUFFICES ASSUME NEW t \in Slots, table'[t] \in ready \ {Listen}
      PROVE  t <= maxi /\ table'[t] = table[t]
    OBVIOUS
  <2>1. table'[t] = table[t] /\ table[t] \in fds  BY <1>5, <1>8, <1>9
  <2>2. PICK u \in 0..maxi : table[u] = table[t]
    BY <1>1, <2>1 DEF PoolSound
  <2>3. u = t
    BY <1>1, <2>1, <2>2 DEF PoolSound, TypeOK, Slots
  <2> QED BY <2>1, <2>2, <2>3 DEF TypeOK, Slots
<1>13. TypeOK'
  <2>1. table' \in [Slots -> Conns \cup {Listen, NoConn}]
    BY <1>3, <1>5, <1>6 DEF TypeOK
  <2>2. nready' \in Nat  BY <1>4, <1>9 DEF TypeOK
  <2>3. allset' \in SUBSET (Conns \cup {Listen})  BY <1>1, <1>4, <1>5 DEF TypeOK
  <2> QED BY <1>4, <1>5, <1>7, <1>10, <2>1, <2>2, <2>3 DEF TypeOK, lines
<1>14. PoolSound'
  <2>1. kind = "select" => allset' = fds' \cup {Listen}
    BY <1>1, <1>4 DEF PoolSound
  <2>2. ASSUME NEW d \in fds' PROVE \E t \in 0..maxi' : table'[t] = d
    <3>1. CASE d = c  BY <1>6, <1>7, <1>8, <3>1 DEF Slots
    <3>2. CASE d # c
      <4>1. PICK t \in 0..maxi : table[t] = d
        BY <1>1, <1>4, <2>2, <3>2 DEF PoolSound
      <4>2. t \in Slots /\ t \in 0..maxi'
        BY <1>7, <4>1 DEF TypeOK, Slots
      <4>3. t # s
        BY <1>4, <1>6, <2>2, <3>2, <4>1 DEF TypeOK
      <4> QED BY <1>8, <4>1, <4>2, <4>3
    <3> QED BY <3>1, <3>2
  <2>3. ASSUME NEW t \in Slots, NEW u \in Slots, table'[t] = table'[u], t # u
        PROVE  table'[t] = NoConn
    <3>1. table[t] # c /\ table[u] # c
      BY <1>1, <1>5 DEF PoolSound
    <3> QED BY <1>1, <1>8, <2>3, <3>1 DEF PoolSound
  <2>4. \A t \in Slots : table'[t] \in fds' \cup {Listen, NoConn}
    BY <1>1, <1>4, <1>8 DEF PoolSound
  <2> QED BY <1>10, <2>1, <2>2, <2>3, <2>4 DEF PoolSound
<1>15. Bounds'        BY <1>1, <1>4 DEF Bounds, lines
<1>16. OnceAccepted'  BY <1>4, <1>5 DEF OnceAccepted
<1>17. AtPlace'
  <2>1. nready' >= 1 \/ pc' = "wait"  BY <1>4, <1>9 DEF TypeOK
  <2>2. \A t \in Slots : kind = "select" => table'[t] # Listen
    BY <1>5, <1>8 DEF AtPlace
  <2> QED BY <1>1, <1>4, <1>10, <2>1, <2>2 DEF AtPlace, Busy, Pooled
<1>18. StillReadable'
  <2>1. ASSUME NEW t \in Slots, table'[t] \in ready \ {Listen}
        PROVE  Readable(table'[t])
    BY <1>1, <1>9, <1>11, <2>1 DEF StillReadable, Busy, Ahead, Slots
  <2> QED BY <1>1, <1>4, <1>10, <2>1 DEF StillReadable, Readable, Ahead, Pooled, lines
<1>19. Count'
  <2> SUFFICES ASSUME kind = "select", pc' = "scan"
      PROVE  nready' = Cardinality(Flagged')
    BY <1>4, <1>10 DEF Count
  <2>1. \A t \in Slots : table'[t] # Listen /\ table[t] # Listen
    BY <1>5, <1>8 DEF AtPlace
  <2>2. Flagged' = Flagged
    <3>1. Flagged' = {t \in 0..maxi' : table'[t] \in ready}
      BY <1>4, <1>9 DEF Flagged
    <3>2. Flagged = {t \in 0..maxi : table[t] \in ready}
      BY <1>9 DEF Flagged
    <3>3. \A t \in 0..maxi' : table'[t] \in ready => t \in 0..maxi /\ table[t] \in ready
      <4>1. 0..maxi' \subseteq Slots  BY <1>7 DEF Slots, TypeOK
      <4>2. \A t \in 0..maxi' : t <= maxi => t \in 0..maxi  BY DEF Slots, TypeOK
      <4> QED BY <1>11, <2>1, <4>1, <4>2
    <3>4. \A t \in 0..maxi : t \in 0..maxi' /\ (table[t] \in ready => table'[t] \in ready)
      <4>1. 0..maxi \subseteq Slots /\ 0..maxi \subseteq 0..maxi'
        BY <1>7, SMTT(20) DEF Slots, TypeOK
      <4>2. NoConn \notin ready  BY <1>9 DEF TypeOK
      <4> QED BY <1>6, <1>8, <4>1, <4>2
    <3> QED BY <3>1, <3>2, <3>3, <3>4
  <2>3. nready = Cardinality(Flagged) + 1
    BY <1>1 DEF Count
  <2>4. IsFiniteSet(Flagged) /\ Cardinality(Flagged) \in Nat
    <3>1. IsFiniteSet(i..maxi)  BY FS_Interval DEF TypeOK, Slots
    <3> QED BY <3>1, FS_Subset, FS_CardinalityType DEF Flagged
  <2> QED BY <1>4, <2>2, <2>3, <2>4
<1>20. FailsOnResetOnly'  BY <1>4 DEF FailsOnResetOnly
<1> QED BY <1>13, <1>14, <1>15, <1>16, <1>17, <1>18, <1>19, <1>20

\* The scan goes to the first flagged slot: it passes none that is flagged.
LEMMA ScanStep ==
  ASSUME IInv, Scan
  PROVE  IInv'
<1> USE EventServerAssumption, ServerFacts DEF IInv
<1>1. /\ Pooled /\ pc = "scan"
      /\ UNCHANGED <<server, net, edge, pool, ready, bad, num, nready>>
  BY DEF Scan
<1>2. Slots' = Slots /\ kind' = kind /\ Pooled' = Pooled
  BY <1>1 DEF Slots, kind, Pooled
<1>3. \/ pc' = "wait" /\ i' = i /\ conn' = conn
      \/ /\ pc' = "read" /\ i' \in Flagged /\ conn' = table[i']
         /\ \A t \in Flagged : i' <= t
  BY DEF Scan
<1>4. CASE pc' = "wait" /\ i' = i /\ conn' = conn
  <2> USE <1>1, <1>2, <1>4 DEF net, lines, pool
  <2>1. TypeOK'         BY DEF TypeOK
  <2>2. PoolSound'      BY DEF PoolSound
  <2>3. Bounds'         BY DEF Bounds
  <2>4. OnceAccepted'   BY DEF OnceAccepted
  <2>5. AtPlace'        BY DEF AtPlace, Busy
  <2>6. StillReadable'  BY DEF StillReadable, Busy
  <2>7. Count'          BY DEF Count
  <2>8. FailsOnResetOnly'  BY DEF FailsOnResetOnly
  <2> QED BY <2>1, <2>2, <2>3, <2>4, <2>5, <2>6, <2>7, <2>8
<1>5. CASE /\ pc' = "read" /\ i' \in Flagged /\ conn' = table[i']
           /\ \A t \in Flagged : i' <= t
  <2> USE <1>1, <1>2 DEF net, lines, pool
  <2>1. /\ i' \in Slots /\ i' <= maxi /\ i <= i' /\ table[i'] \in ready
        /\ i' \in 0..server.slots
    BY <1>5 DEF Flagged, TypeOK, Slots
  <2>2. TypeOK'         BY <1>5, <2>1 DEF TypeOK
  <2>3. PoolSound'      BY DEF PoolSound
  <2>4. Bounds'         BY <1>5 DEF Bounds
  <2>5. OnceAccepted'   BY DEF OnceAccepted
  <2>6. AtPlace'        BY <1>5, <2>1 DEF AtPlace, Busy, Pooled
  <2>7. StillReadable'
    <3>1. \A t \in Slots : i' <= t => i <= t  BY <2>1 DEF TypeOK, Slots
    <3> QED BY <1>5, <3>1 DEF StillReadable, Readable, Ahead, Busy, Pooled
  <2>8. Count'
    <3>1. Flagged' = {t \in i'..maxi : table[t] \in ready}  BY DEF Flagged
    <3>2. \A t \in i'..maxi : t \in i..maxi  BY <2>1 DEF TypeOK, Slots
    <3>3. \A t \in Flagged : t \in i'..maxi /\ table[t] \in ready
      BY <1>5, <2>1 DEF Flagged, TypeOK, Slots
    <3>4. Flagged' = Flagged  BY <3>1, <3>2, <3>3 DEF Flagged
    <3> QED BY <1>5, <3>4 DEF Count
  <2>9. FailsOnResetOnly'  BY <1>5 DEF FailsOnResetOnly
  <2> QED BY <2>2, <2>3, <2>4, <2>5, <2>6, <2>7, <2>8, <2>9
<1> QED BY <1>3, <1>4, <1>5

\* The steps of epoll and kqueue on their lists of events.
LEMMA EventStep ==
  ASSUME IInv,
         EpollAccept \/ EpollEvent \/ KqueueAccept \/ KqueueAcceptFails \/ KqueueEvent
  PROVE  IInv'
<1> USE EventServerAssumption, ServerFacts DEF IInv
<1>1. /\ ~Pooled /\ pc = "dispatch"
      /\ UNCHANGED <<server, client, lines, link, table, maxi, allset, bad, num, nready, i>>
  BY DEF EpollAccept, EpollEvent, KqueueAccept, KqueueAcceptFails, KqueueEvent,
         AcceptAll, Pooled, net, pool
<1>2. Slots' = Slots /\ kind' = kind /\ Pooled' = Pooled /\ kind # "select"
  BY <1>1 DEF Slots, kind, Pooled
<1>3. PICK cs \in SUBSET backlog : backlog' = backlog \ cs /\ fds' = fds \cup cs
  <2>1. CASE EpollAccept
    <3>1. PICK c \in backlog : Accept(c)  BY <2>1 DEF EpollAccept
    <3>2. backlog' = backlog \ {c} /\ fds' = fds \cup {c}  BY <3>1 DEF Accept
    <3> QED BY <3>2
  <2>2. CASE EpollEvent \/ KqueueEvent
    <3>1. backlog' = backlog \ {} /\ fds' = fds \cup {}
      BY <2>2 DEF EpollEvent, KqueueEvent, net, pool
    <3> QED BY <3>1
  <2>3. CASE KqueueAccept \/ KqueueAcceptFails
    BY <2>3 DEF KqueueAccept, KqueueAcceptFails, AcceptAll
  <2> QED BY <2>1, <2>2, <2>3
<1>4. /\ ready' \in SUBSET ready /\ bad \in SUBSET ready'
      /\ edge' \in SUBSET (Conns \cup {Listen})
      /\ conn' \in Conns \cup {Listen, NoConn}
      /\ pc' \in {"wait", "dispatch", "read"}
  BY DEF EpollAccept, EpollEvent, KqueueAccept, KqueueAcceptFails, KqueueEvent,
         AcceptAll, NextEvent, Accept, AtPlace, TypeOK
<1>5. kind = "kqueue" /\ pc' = "read" =>
          conn' \in fds \ ready' /\ Readable(conn')
  BY <1>1 DEF EpollAccept, EpollEvent, KqueueAccept, KqueueAcceptFails, KqueueEvent,
              AcceptAll, NextEvent, AtPlace, StillReadable, Busy
<1> USE <1>1, <1>2 DEF lines
<1>6. TypeOK'         BY <1>3, <1>4 DEF TypeOK
<1>7. PoolSound'      BY DEF PoolSound
<1>8. Bounds'         BY <1>4 DEF Bounds
<1>9. OnceAccepted'   BY <1>3 DEF OnceAccepted
<1>10. AtPlace'
  <2>1. kind = "kqueue" /\ pc' = "read" => conn' \in Conns
    BY <1>5 DEF TypeOK
  <2>2. kind = "kqueue" /\ pc' = "read" => Readable(conn)'
    BY <1>5, <2>1 DEF Readable
  <2> QED BY <1>3, <1>4, <1>5, <2>2 DEF AtPlace, Busy
<1>11. StillReadable'
  BY <1>4 DEF StillReadable, Readable, Busy
<1>12. Count'         BY DEF Count
<1>13. FailsOnResetOnly'  BY <1>4 DEF FailsOnResetOnly
<1> QED BY <1>6, <1>7, <1>8, <1>9, <1>10, <1>11, <1>12, <1>13

\* What the scan has still to look at does not hold the connection at hand, and
\* one flagged slot fewer is left.
LEMMA HandledFacts ==
  ASSUME IInv, pc \in {"read", "write"}, conn \in fds, Handled
  PROVE  /\ i' \in 0..server.slots /\ nready' \in Nat
         /\ pc' \in {"wait", "dispatch", "scan"}
         /\ Pooled => /\ pc' # "dispatch" /\ (pc' = "scan" => nready' >= 1)
                      /\ i' = i + 1
                      /\ \A t \in Slots : i + 1 <= t => table[t] # conn
         /\ ~Pooled => pc' # "scan"
         /\ kind = "select" =>
              nready' = Cardinality({t \in (i + 1)..maxi : table[t] \in ready})
<1> USE EventServerAssumption, ServerFacts DEF IInv
<1>1. CASE Pooled
  <2>1. nready >= 1 /\ i \in Slots /\ i <= maxi /\ conn = table[i] /\ conn \in ready
    BY <1>1 DEF AtPlace, Busy
  <2>2. nready' = nready - 1 /\ i' = i + 1
        /\ pc' = IF nready' <= 0 THEN "wait" ELSE "scan"
    BY <1>1 DEF Handled
  <2>3. nready' \in Nat /\ i' \in 0..server.slots
    BY <2>1, <2>2 DEF TypeOK, Slots
  <2>4. ASSUME NEW t \in Slots, i + 1 <= t PROVE table[t] # conn
    <3>1. t # i  BY <2>1, <2>4 DEF Slots
    <3>2. conn # NoConn  BY DEF TypeOK
    <3> QED BY <1>1, <2>1, <3>1, <3>2 DEF PoolSound
  <2>5. ASSUME kind = "select"
        PROVE  nready' = Cardinality({t \in (i + 1)..maxi : table[t] \in ready})
    <3> DEFINE F == {t \in (i + 1)..maxi : table[t] \in ready}
    <3>1. nready = Cardinality(Flagged)  BY <2>5 DEF Count
    <3>2. F = Flagged \ {i} /\ i \in Flagged
      BY <2>1 DEF Flagged, TypeOK, Slots
    <3>3. IsFiniteSet(Flagged)
      <4>1. IsFiniteSet(i..maxi)  BY FS_Interval DEF TypeOK, Slots
      <4> QED BY <4>1, FS_Subset DEF Flagged
    <3>4. Cardinality(F) = Cardinality(Flagged) - 1
      BY <3>2, <3>3, FS_RemoveElement
    <3> QED BY <2>2, <3>1, <3>4
  <2> QED BY <1>1, <2>2, <2>3, <2>4, <2>5
<1>2. CASE ~Pooled
  <2>1. kind # "select"  BY <1>2 DEF Pooled
  <2> QED BY <1>2, <2>1 DEF Handled, NextEvent, TypeOK
<1> QED BY <1>1, <1>2

\* A line is taken from the connection at hand and from no other.
LEMMA ReadLineStep ==
  ASSUME IInv, ReadLine
  PROVE  IInv'
<1> USE EventServerAssumption, ServerFacts DEF IInv
<1>1. /\ pc = "read" /\ pc' = "write" /\ conn \in fds /\ inbox[conn] > 0
      /\ inbox' = [inbox EXCEPT ![conn] = @ - 1]
      /\ UNCHANGED <<server, client, sent, got, part, replies, link, backlog, edge,
                     pool, ready, bad, num, nready, i, conn>>
  BY DEF ReadLine
<1>2. Slots' = Slots /\ kind' = kind /\ Pooled' = Pooled
  BY <1>1 DEF Slots, kind, Pooled
<1>3. conn \in Conns  BY <1>1 DEF TypeOK
<1>4. \A f \in Conns : f # conn => inbox'[f] = inbox[f]  BY <1>1, <1>3 DEF TypeOK
<1> USE <1>1, <1>2, <1>3 DEF pool
<1>5. TypeOK'
  <2>1. inbox[conn] - 1 \in 0..MaxLines  BY DEF TypeOK
  <2> QED BY <2>1 DEF TypeOK
<1>6. PoolSound'      BY DEF PoolSound
<1>7. Bounds'         BY DEF Bounds, TypeOK
<1>8. OnceAccepted'   BY DEF OnceAccepted
<1>9. AtPlace'        BY DEF AtPlace, Busy
<1>10. StillReadable'
  <2>1. ASSUME NEW t \in Slots, Pooled, i + 1 <= t, t <= maxi,
               table[t] \in ready \ {Listen}
        PROVE  table[t] # conn /\ Readable(table[t]) /\ table[t] \in Conns
    <3>1. i \in Slots /\ conn = table[i]  BY <2>1 DEF AtPlace
    <3>2. i <= t /\ t # i  BY <2>1, <3>1 DEF Slots
    <3>3. conn # NoConn  BY DEF TypeOK
    <3>4. table[t] # conn  BY <2>1, <3>1, <3>2, <3>3 DEF PoolSound
    <3> QED BY <2>1, <3>2, <3>4 DEF StillReadable, Ahead, Busy, TypeOK
  <2>2. ASSUME kind = "kqueue", NEW f \in ready \ {Listen}
        PROVE  f # conn /\ Readable(f) /\ f \in Conns
    BY <2>2 DEF AtPlace, StillReadable, Busy, TypeOK
  <2> QED BY <1>4, <2>1, <2>2 DEF StillReadable, Readable, Ahead, Busy
<1>11. Count'         BY DEF Count, Flagged
<1>12. FailsOnResetOnly'  BY DEF FailsOnResetOnly
<1> QED BY <1>5, <1>6, <1>7, <1>8, <1>9, <1>10, <1>11, <1>12

\* The connection that has ended leaves every set it was in.
LEMMA ReadEndStep ==
  ASSUME IInv, ReadEnd
  PROVE  IInv'
<1> USE EventServerAssumption, ServerFacts DEF IInv
<1>1. /\ pc = "read" /\ conn \in fds /\ Handled
      /\ fds' = fds \ {conn} /\ allset' = allset \ {conn}
      /\ table' = IF Pooled THEN [table EXCEPT ![i] = NoConn] ELSE table
      /\ UNCHANGED <<server, net, edge, maxi, ready, bad, num, conn>>
  BY DEF ReadEnd
<1>2. Slots' = Slots /\ kind' = kind /\ Pooled' = Pooled
  BY <1>1 DEF Slots, kind, Pooled
<1>3. conn \in Conns /\ conn # Listen /\ conn # NoConn  BY <1>1 DEF TypeOK
<1>4. /\ i' \in 0..server.slots /\ nready' \in Nat
      /\ pc' \in {"wait", "dispatch", "scan"}
      /\ Pooled => /\ pc' # "dispatch" /\ (pc' = "scan" => nready' >= 1)
                   /\ i' = i + 1
                   /\ \A t \in Slots : i + 1 <= t => table[t] # conn
      /\ ~Pooled => pc' # "scan"
      /\ kind = "select" =>
           nready' = Cardinality({t \in (i + 1)..maxi : table[t] \in ready})
  BY <1>1, HandledFacts
<1>5. i \in Nat  BY DEF TypeOK
\* No other slot holds the connection.
<1>6. ASSUME Pooled, NEW t \in Slots
      PROVE  table'[t] = IF table[t] = conn THEN NoConn ELSE table[t]
  <2>1. i \in Slots /\ conn = table[i]  BY <1>1, <1>6 DEF AtPlace
  <2>2. CASE t = i  BY <1>1, <1>6, <2>1, <2>2 DEF TypeOK
  <2>3. CASE t # i
    <3>1. table[t] # conn  BY <1>3, <1>6, <2>1, <2>3 DEF PoolSound
    <3> QED BY <1>1, <1>6, <2>3, <3>1 DEF TypeOK
  <2> QED BY <2>2, <2>3
<1>7. table' \in [Slots -> Conns \cup {Listen, NoConn}]  BY <1>1 DEF TypeOK
<1>8. UNCHANGED <<server, net, edge, maxi, ready, bad, num, conn>>
      /\ pc = "read" /\ conn \in fds
      /\ fds' = fds \ {conn} /\ allset' = allset \ {conn}
  BY <1>1
<1> USE <1>2, <1>3, <1>4, <1>6, <1>8 DEF net, lines
<1>9. TypeOK'          BY <1>7 DEF TypeOK
<1>10. PoolSound'
  <2>1. kind = "select" => allset' = fds' \cup {Listen}  BY DEF PoolSound
  <2>2. ASSUME Pooled, NEW d \in fds' PROVE \E t \in 0..maxi' : table'[t] = d
    <3>1. PICK t \in 0..maxi : table[t] = d  BY <2>2 DEF PoolSound
    <3>2. t \in Slots /\ t \in 0..maxi'  BY <3>1, SMTT(20) DEF TypeOK, Slots
    <3>3. table[t] # conn  BY <2>2, <3>1
    <3>4. table'[t] = d  BY <1>6, <2>2, <3>1, <3>2, <3>3
    <3> QED BY <3>2, <3>4
  <2>3. ASSUME Pooled, NEW t \in Slots, NEW u \in Slots, table'[t] = table'[u], t # u
        PROVE  table'[t] = NoConn
    BY <2>3 DEF PoolSound
  <2>4. Pooled => \A t \in Slots : table'[t] \in fds' \cup {Listen, NoConn}
    BY DEF PoolSound
  <2> QED BY <2>1, <2>2, <2>3, <2>4 DEF PoolSound
<1>11. Bounds'         BY DEF Bounds
<1>12. OnceAccepted'   BY DEF OnceAccepted
<1>13. AtPlace'
  <2>1. kind = "select" => \A t \in Slots : table'[t] # Listen  BY DEF AtPlace, Pooled
  <2>2. kind = "kqueue" => ready \subseteq fds' \cup {Listen}
    BY DEF AtPlace, Busy
  <2> QED BY <2>1, <2>2 DEF AtPlace, Busy, Pooled
<1>14. StillReadable'
  <2>1. ASSUME NEW t \in Slots, Pooled, i' <= t, t <= maxi,
               table'[t] \in ready \ {Listen}
        PROVE  table'[t] = table[t] /\ Readable(table[t])
    <3>1. i <= t /\ table[t] # conn  BY <1>5, <2>1 DEF Slots
    <3> QED BY <2>1, <3>1 DEF StillReadable, Ahead, Busy
  <2>2. ASSUME kind = "kqueue", NEW f \in ready \ {Listen} PROVE Readable(f)
    BY <2>2 DEF StillReadable, Busy
  <2> QED BY <2>1, <2>2 DEF StillReadable, Readable, Ahead, Busy
<1>15. Count'
  <2>1. ASSUME kind = "select"
        PROVE  Flagged' = {t \in (i + 1)..maxi : table[t] \in ready}
    <3>1. kind = "select" => Pooled  BY DEF Pooled
    <3>2. \A t \in (i + 1)..maxi : t \in Slots /\ table'[t] = table[t]
      <4>1. \A t \in (i + 1)..maxi : t \in Slots /\ i + 1 <= t  BY <1>5 DEF TypeOK, Slots
      <4> QED BY <2>1, <3>1, <4>1
    <3> QED BY <2>1, <3>1, <3>2 DEF Flagged
  <2> QED BY <2>1 DEF Count, Pooled
<1>16. FailsOnResetOnly'  BY DEF FailsOnResetOnly
<1> QED BY <1>9, <1>10, <1>11, <1>12, <1>13, <1>14, <1>15, <1>16

\* The line is in the socket buffers.
LEMMA WriteStep ==
  ASSUME IInv, Write
  PROVE  IInv'
<1> USE EventServerAssumption, ServerFacts DEF IInv
<1>1. /\ pc = "write" /\ Handled /\ replies[conn] < Window
      /\ replies' = [replies EXCEPT ![conn] = @ + 1]
      /\ UNCHANGED <<server, client, sent, got, inbox, part, link, backlog, edge,
                     pool, ready, bad, num, conn>>
  BY DEF Write
<1>2. Slots' = Slots /\ kind' = kind /\ Pooled' = Pooled
  BY <1>1 DEF Slots, kind, Pooled
<1>3. conn \in fds /\ conn \in Conns  BY <1>1 DEF AtPlace, TypeOK
<1>4. /\ i' \in 0..server.slots /\ nready' \in Nat
      /\ pc' \in {"wait", "dispatch", "scan"}
      /\ Pooled => /\ pc' # "dispatch" /\ (pc' = "scan" => nready' >= 1)
                   /\ i' = i + 1
                   /\ \A t \in Slots : i + 1 <= t => table[t] # conn
      /\ ~Pooled => pc' # "scan"
      /\ kind = "select" =>
           nready' = Cardinality({t \in (i + 1)..maxi : table[t] \in ready})
  BY <1>1, <1>3, HandledFacts
<1> USE <1>1, <1>2, <1>3, <1>4 DEF pool
<1>5. TypeOK'
  <2>1. replies[conn] + 1 \in 0..Window  BY DEF TypeOK
  <2> QED BY <2>1 DEF TypeOK
<1>6. PoolSound'      BY DEF PoolSound
<1>7. Bounds'         BY DEF Bounds, TypeOK
<1>8. OnceAccepted'   BY DEF OnceAccepted
<1>9. AtPlace'        BY DEF AtPlace, Busy, Pooled
<1>10. StillReadable'
  BY DEF StillReadable, Readable, Ahead, Busy
<1>11. Count'         BY DEF Count, Flagged, Pooled
<1>12. FailsOnResetOnly'  BY DEF FailsOnResetOnly
<1> QED BY <1>5, <1>6, <1>7, <1>8, <1>9, <1>10, <1>11, <1>12

\* Linux forgets the error of the reset; the server goes on.
LEMMA WriteFailsStep ==
  ASSUME IInv, WriteFails
  PROVE  IInv'
<1> USE EventServerAssumption, ServerFacts DEF IInv
<1>1. /\ pc = "write" /\ Handled /\ link[conn] = "reset"
      /\ link' = [link EXCEPT ![conn] = "down"]
      /\ UNCHANGED <<server, client, lines, backlog, edge, pool, ready, bad, num, conn>>
  BY DEF WriteFails
<1>2. Slots' = Slots /\ kind' = kind /\ Pooled' = Pooled
  BY <1>1 DEF Slots, kind, Pooled
<1>3. conn \in fds /\ conn \in Conns  BY <1>1 DEF AtPlace, TypeOK
<1>4. /\ i' \in 0..server.slots /\ nready' \in Nat
      /\ pc' \in {"wait", "dispatch", "scan"}
      /\ Pooled => /\ pc' # "dispatch" /\ (pc' = "scan" => nready' >= 1)
                   /\ i' = i + 1
                   /\ \A t \in Slots : i + 1 <= t => table[t] # conn
      /\ ~Pooled => pc' # "scan"
      /\ kind = "select" =>
           nready' = Cardinality({t \in (i + 1)..maxi : table[t] \in ready})
  BY <1>1, <1>3, HandledFacts
<1> USE <1>1, <1>2, <1>3, <1>4 DEF pool, lines
<1>5. TypeOK'         BY DEF TypeOK
<1>6. PoolSound'      BY DEF PoolSound
<1>7. Bounds'         BY DEF Bounds, TypeOK
<1>8. OnceAccepted'   BY DEF OnceAccepted
<1>9. AtPlace'        BY DEF AtPlace, Busy, Pooled
<1>10. StillReadable'
  BY DEF StillReadable, Readable, Ahead, Busy
<1>11. Count'         BY DEF Count, Flagged, Pooled
<1>12. FailsOnResetOnly'  BY DEF FailsOnResetOnly
<1> QED BY <1>5, <1>6, <1>7, <1>8, <1>9, <1>10, <1>11, <1>12

\* kqueue gives up the events it has not looked at.
LEMMA KqueueReadFailsStep ==
  ASSUME IInv, KqueueReadFails
  PROVE  IInv'
<1> USE EventServerAssumption, ServerFacts DEF IInv
<1>1. /\ kind = "kqueue" /\ pc = "read" /\ pc' = "wait" /\ ready' = {}
      /\ link' = [link EXCEPT ![conn] = "down"]
      /\ UNCHANGED <<server, client, lines, backlog, edge, pool, bad, num, nready, i, conn>>
  BY DEF KqueueReadFails
<1>2. Slots' = Slots /\ kind' = kind /\ ~Pooled /\ ~Pooled'
  BY <1>1 DEF Slots, kind, Pooled
<1> USE <1>1, <1>2 DEF lines, pool
<1>3. TypeOK'         BY DEF TypeOK, AtPlace
<1>4. PoolSound'      BY DEF PoolSound
<1>5. Bounds'         BY DEF Bounds
<1>6. OnceAccepted'   BY DEF OnceAccepted
<1>7. AtPlace'        BY DEF AtPlace, Busy
<1>8. StillReadable'  BY DEF StillReadable, Busy
<1>9. Count'          BY DEF Count
<1>10. FailsOnResetOnly'  BY DEF FailsOnResetOnly
<1> QED BY <1>3, <1>4, <1>5, <1>6, <1>7, <1>8, <1>9, <1>10

-----------------------------------------------------------------------------
\* Every step, and stuttering, preserves the invariant.
LEMMA NextIInv == IInv /\ [Next]_vars => IInv'
<1> SUFFICES ASSUME IInv, [Next]_vars PROVE IInv'
  OBVIOUS
<1>1. CASE UNCHANGED vars
  BY <1>1, SMTT(20) DEF vars, net, lines, pool, loop, IInv, TypeOK, PoolSound, Bounds,
     OnceAccepted, AtPlace, StillReadable, Count, FailsOnResetOnly, Flagged, Ahead,
     Busy, Readable, Pooled, kind, Slots
<1>2. ASSUME NEW c \in Conns, ClientNext(c) PROVE IInv'  BY <1>2, ClientStep
<1>3. CASE SelectWait \/ PollWait \/ EpollWait \/ KqueueWait  BY <1>3, WaitStep
<1>4. CASE SelectAccept \/ PollAccept  BY <1>4, PoolAcceptStep
<1>5. CASE Scan  BY <1>5, ScanStep
<1>6. CASE EpollAccept \/ EpollEvent \/ KqueueAccept \/ KqueueAcceptFails \/ KqueueEvent
  BY <1>6, EventStep
<1>7. CASE PoolFull \/ EpollError \/ AcceptFails \/ ReadOverruns \/ ReadFails \/ WriteKilled
  BY <1>7, EndStep
<1>8. CASE ReadLine  BY <1>8, ReadLineStep
<1>9. CASE ReadEnd  BY <1>9, ReadEndStep
<1>10. CASE Write  BY <1>10, WriteStep
<1>11. CASE KqueueReadFails  BY <1>11, KqueueReadFailsStep
<1>12. CASE WriteFails  BY <1>12, WriteFailsStep
<1> QED
  BY <1>1, <1>2, <1>3, <1>4, <1>5, <1>6, <1>7, <1>8, <1>9, <1>10, <1>11, <1>12
  DEF Next, ServerNext

LEMMA SpecIInv == Spec => []IInv
BY InitIInv, NextIInv, PTL DEF Spec

-----------------------------------------------------------------------------
\* The variables of the server keep to the ranges the code gives them; above
\* all, no index leaves the pool (select/server.c:91-99, 119).
THEOREM TypeOKHolds == Spec => []TypeOK
<1>1. IInv => TypeOK  BY DEF IInv
<1> QED BY <1>1, SpecIInv, PTL

\* However connections come and go, the pool and the watched descriptors are
\* those of the open connections (select/server.c:91-116, 131-136).
THEOREM PoolSoundHolds == Spec => []PoolSound
<1>1. IInv => PoolSound  BY DEF IInv
<1> QED BY <1>1, SpecIInv, PTL

\* select leaves its scan exactly when all that was reported has been handled
\* (select/server.c:114, 140).
THEOREM NreadyExactHolds == Spec => []NreadyExact
<1>1. IInv => NreadyExact  BY DEF IInv, Count, NreadyExact
<1> QED BY <1>1, SpecIInv, PTL

\* select, poll and kqueue read from a connection only when there is something
\* to read (select/server.c:121, poll/server.c:123, kqueue/server.c:52).
THEOREM NeverWaitsForOneHolds == Spec => []NeverWaitsForOne
<1>1. IInv => NeverWaitsForOne
  <2> SUFFICES ASSUME IInv, pc = "read", kind # "epoll", conn # Listen
      PROVE  Readable(conn)
    BY DEF NeverWaitsForOne
  <2>1. CASE Pooled
    <3>1. i \in Slots /\ i <= maxi /\ conn = table[i] /\ conn \in ready
      BY <2>1 DEF IInv, AtPlace
    <3>2. i \in Ahead  BY <3>1 DEF Ahead, Slots
    <3> QED BY <2>1, <3>1, <3>2 DEF IInv, StillReadable, Busy
  <2>2. CASE ~Pooled
    <3>1. kind = "kqueue"  BY <2>2, ServerFacts DEF IInv, TypeOK, Pooled
    <3> QED BY <3>1 DEF IInv, AtPlace
  <2> QED BY <2>1, <2>2
<1> QED BY <1>1, SpecIInv, PTL

\* select and kqueue end on an error of readline or writen only when some
\* connection has been reset (select/server.c:128-130, 139; kqueue/server.c:53).
THEOREM FailsOnResetOnlyHolds == Spec => []FailsOnResetOnly
<1>1. IInv => FailsOnResetOnly  BY DEF IInv
<1> QED BY <1>1, SpecIInv, PTL
=============================================================================
