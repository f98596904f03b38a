--------------------------- MODULE TcpEcho_proofs ---------------------------
(***************************************************************************)
(* The safety properties of TcpEcho for any number of clients, lines,      *)
(* rounds and restarts.  The inductive invariant follows every unit of a   *)
(* client's lines: from the server's receive buffer to the hand of the     *)
(* server, to the client's receive buffer, to what the client has read.    *)
(***************************************************************************)
EXTENDS TcpEcho, SequenceTheorems, TLAPS

-----------------------------------------------------------------------------
(* Runs of units *)

\* s holds the units that follow unit k.
Run(s, k) == \A i \in 1..Len(s) : s[i] = k + i

\* A run that goes on where another one ends.
LEMMA RunConcat ==
  ASSUME NEW S, NEW s \in Seq(S), NEW t \in Seq(S), NEW k \in Int, NEW j, j = k + Len(s)
  PROVE  /\ s \o t \in Seq(S)
         /\ Len(s \o t) = Len(s) + Len(t)
         /\ Run(s, k) /\ Run(t, j) => Run(s \o t, k)
<1>1. Len(s) \in Nat /\ Len(t) \in Nat
  BY LenProperties
<1>2. /\ s \o t \in Seq(S)
      /\ Len(s \o t) = Len(s) + Len(t)
      /\ \A i \in 1..(Len(s) + Len(t)) :
            (s \o t)[i] = IF i <= Len(s) THEN s[i] ELSE t[i - Len(s)]
  BY ConcatProperties
<1>3. ASSUME Run(s, k), Run(t, j), NEW i \in 1..Len(s \o t)
      PROVE  (s \o t)[i] = k + i
  <2>1. CASE i <= Len(s)
    <3>1. i \in 1..Len(s)  BY <1>1, <1>2, <2>1
    <3> QED BY <1>2, <1>3, <2>1, <3>1 DEF Run
  <2>2. CASE ~(i <= Len(s))
    <3>1. i - Len(s) \in 1..Len(t)  BY <1>1, <1>2, <2>2
    <3>2. t[i - Len(s)] = (k + Len(s)) + (i - Len(s))  BY <1>3, <3>1 DEF Run
    <3> QED BY <1>1, <1>2, <2>2, <3>2
  <2> QED BY <2>1, <2>2
<1> QED BY <1>2, <1>3 DEF Run

\* Cutting a run in two.
LEMMA RunCut ==
  ASSUME NEW S, NEW s \in Seq(S), NEW k \in Int, NEW n \in 0..Len(s)
  PROVE  /\ SubSeq(s, 1, n) \in Seq(S) /\ Len(SubSeq(s, 1, n)) = n
         /\ SubSeq(s, n + 1, Len(s)) \in Seq(S)
         /\ Len(SubSeq(s, n + 1, Len(s))) = Len(s) - n
         /\ Run(s, k) => Run(SubSeq(s, 1, n), k) /\ Run(SubSeq(s, n + 1, Len(s)), k + n)
<1>1. Len(s) \in Nat /\ \A i \in 1..Len(s) : s[i] \in S
  BY LenProperties, ElementOfSeq
<1>2. /\ SubSeq(s, 1, n) \in Seq(S)
      /\ Len(SubSeq(s, 1, n)) = IF 1 <= n THEN n - 1 + 1 ELSE 0
      /\ \A i \in 1..(n - 1 + 1) : SubSeq(s, 1, n)[i] = s[1 + i - 1]
  <2>1. \A i \in 1..n : s[i] \in S  BY <1>1
  <2>2. n \in Int  BY <1>1
  <2> QED BY <2>1, <2>2, SubSeqProperties
<1>3. /\ SubSeq(s, n + 1, Len(s)) \in Seq(S)
      /\ Len(SubSeq(s, n + 1, Len(s))) =
            IF n + 1 <= Len(s) THEN Len(s) - (n + 1) + 1 ELSE 0
      /\ \A i \in 1..(Len(s) - (n + 1) + 1) :
            SubSeq(s, n + 1, Len(s))[i] = s[(n + 1) + i - 1]
  <2>1. \A i \in (n + 1)..Len(s) : s[i] \in S  BY <1>1
  <2>2. n + 1 \in Int /\ Len(s) \in Int  BY <1>1
  <2> QED BY <2>1, <2>2, SubSeqProperties
<1>4. Len(SubSeq(s, 1, n)) = n /\ Len(SubSeq(s, n + 1, Len(s))) = Len(s) - n
  BY <1>1, <1>2, <1>3
<1>5. ASSUME Run(s, k) PROVE Run(SubSeq(s, 1, n), k)
  <2>1. SUFFICES ASSUME NEW i \in 1..n PROVE SubSeq(s, 1, n)[i] = k + i
    BY <1>4 DEF Run
  <2>2. SubSeq(s, 1, n)[i] = s[i]  BY <1>1, <1>2
  <2>3. i \in 1..Len(s)  BY <1>1
  <2> QED BY <1>5, <2>2, <2>3 DEF Run
<1>6. ASSUME Run(s, k) PROVE Run(SubSeq(s, n + 1, Len(s)), k + n)
  <2>1. SUFFICES ASSUME NEW i \in 1..(Len(s) - n)
                 PROVE  SubSeq(s, n + 1, Len(s))[i] = (k + n) + i
    BY <1>4 DEF Run
  <2>2. SubSeq(s, n + 1, Len(s))[i] = s[n + i]
    <3>1. i \in 1..(Len(s) - (n + 1) + 1) /\ (n + 1) + i - 1 = n + i  BY <1>1
    <3> QED BY <1>3, <3>1
  <2>3. n + i \in 1..Len(s)  BY <1>1
  <2>4. s[n + i] = k + (n + i)  BY <1>6, <2>3 DEF Run
  <2> QED BY <1>1, <2>2, <2>4
<1> QED BY <1>2, <1>3, <1>4, <1>5, <1>6

\* A run is a prefix of the units of n lines if it begins with the first one
\* and does not go past the last.
LEMMA RunIsPrefix ==
  ASSUME NEW S, NEW s \in Seq(S), NEW n \in Nat, Run(s, 0), Len(s) <= 2 * n
  PROVE  IsPrefix(s, Lines(n))
<1>1. Len(s) \in Nat /\ \A i \in 1..Len(s) : s[i] \in S
  BY LenProperties, ElementOfSeq
<1>2. Lines(n) \in Seq(Int) /\ Len(Lines(n)) = 2 * n
  BY DEF Lines
<1>3. s \in Seq(Int)
  <2>1. \A i \in 1..Len(s) : s[i] \in Int  BY <1>1 DEF Run
  <2>2. s \in [1..Len(s) -> S]  BY LenProperties
  <2>3. s \in [1..Len(s) -> Int]  BY <2>1, <2>2
  <2> QED BY <1>1, <2>3
<1>4. SubSeq(s, 1, Len(s)) = s
  BY SubSeqFull
<1>5. /\ SubSeq(Lines(n), 1, Len(s)) \in Seq(Int)
      /\ Len(SubSeq(Lines(n), 1, Len(s))) = Len(s)
      /\ Run(SubSeq(Lines(n), 1, Len(s)), 0)
  <2>1. Run(Lines(n), 0)  BY <1>2 DEF Run, Lines
  <2>2. Len(s) \in 0..Len(Lines(n))  BY <1>1, <1>2
  <2> QED BY <1>2, <2>1, <2>2, RunCut
<1>6. SubSeq(Lines(n), 1, Len(s)) = s
  <2>1. \A i \in 1..Len(s) : SubSeq(Lines(n), 1, Len(s))[i] = s[i]
    BY <1>5 DEF Run
  <2> QED BY <1>3, <1>5, <2>1, SeqEqual
<1> QED BY <1>1, <1>2, <1>4, <1>6 DEF IsPrefix

-----------------------------------------------------------------------------
(* The invariant *)

\* The connections a server that does not fork is busy with.
Busy == {c \in Clients : serves[c] \in {"reading", "writing", "left"}}

\* Such a server serves one connection at a time, and tcp4 is not past its
\* last round while it runs.
OneByOne ==
    /\ Prog.serves # "forks" =>
         /\ \A c \in Clients : serves[c] \notin {"accepted", "forked"}
         /\ \A c \in Busy : server = "serving"
         /\ \A c, d \in Busy : c = d
    /\ server # "gone" => round < Rounds

\* The units of a client that has sent n lines are in four places one after the
\* other: what it has read, its receive buffer, the hand of the server and the
\* server's receive buffer; and all of them are, while nobody has closed.
Order(g, t, h, s, n, away, shut) ==
    /\ Run(g, 0)
    /\ Run(t, Len(g))
    /\ Len(g) + Len(t) <= 2 * n
    /\ ~away =>
         /\ Run(h, Len(g) + Len(t))
         /\ Run(s, Len(g) + Len(t) + Len(h))
         /\ Len(g) + Len(t) + Len(h) + Len(s) <= 2 * n
         /\ ~shut => Len(g) + Len(t) + Len(h) + Len(s) = 2 * n

InOrder(c) == Order(got[c], toClient[c], hand[c], toServer[c], sent[c],
                    cltFin[c], srvFin[c] \/ rst[c])

\* A server that reads has nothing in hand.
HandFree(c) == hand[c] # <<>> => serves[c] \in {"writing", "closed"}

\* How much of the answers a client has: all of it when it types, all but that
\* to its last line while it waits.
Owed(c) ==
    ~srvFin[c] /\ ~rst[c] =>
        /\ client[c] = "typing" =>
             /\ Len(got[c]) >= sent[c]
             /\ Prog.whole => Len(got[c]) >= 2 * sent[c]
        /\ client[c] = "reading" =>
             /\ Len(got[c]) + 1 >= sent[c]
             /\ Prog.whole => Len(got[c]) + 2 >= 2 * sent[c]

\* A client starts with nothing sent, and has closed only if it is gone.
Started(c) ==
    /\ client[c] = "idle" => sent[c] = 0
    /\ cltFin[c] => client[c] = "gone"

\* A connection that waits in the backlog is not served, and an idle client
\* has none.
Queued(c) ==
    /\ c \in backlog => serves[c] = "none" /\ client[c] # "idle"
    /\ client[c] = "idle" => serves[c] = "none"

Placed(c) ==
    /\ HandFree(c) /\ Owed(c) /\ Started(c) /\ Queued(c)
    /\ Prog.serves # "rounds" => InOrder(c)

\* A child holds a copy of the listening socket until its close(sockfd), the
\* first thing it does.
CopyHeld == \A c \in copies : serves[c] = "forked"

IInv == TypeOK /\ OneByOne /\ (\A c \in Clients : Placed(c)) /\ CopyHeld

USE DEF Service

-----------------------------------------------------------------------------
(* Moving units from one place to the next *)

\* The server reads k units into its empty hand.
LEMMA OrderTakes ==
  ASSUME NEW S, NEW R, NEW g \in Seq(S), NEW t \in Seq(S), NEW s \in Seq(R), NEW n \in Nat,
         NEW away, NEW shut, NEW k \in 0..Len(s), Order(g, t, <<>>, s, n, away, shut)
  PROVE  Order(g, t, SubSeq(s, 1, k), SubSeq(s, k + 1, Len(s)), n, away, shut)
<1>1. Len(g) \in Nat /\ Len(t) \in Nat /\ Len(s) \in Nat /\ Len(<<>>) = 0
  BY LenProperties
<1> DEFINE j == Len(g) + Len(t)
           head == SubSeq(s, 1, k)
           tail == SubSeq(s, k + 1, Len(s))
<1>a. j \in Int  BY <1>1
<1> HIDE DEF j
<1>2. /\ Len(head) = k /\ Len(tail) = Len(s) - k
      /\ Run(s, j) => Run(head, j) /\ Run(tail, j + k)
  BY <1>a, RunCut, ZenonT(30)
<1> HIDE DEF head, tail
<1>3. ~away => Run(s, j)
  <2>1. Len(g) + Len(t) + Len(<<>>) = j  BY <1>1 DEF j
  <2> QED BY <2>1 DEF Order
<1>4. Order(g, t, head, tail, n, away, shut)
  <2>1. /\ Len(g) + Len(t) = j
        /\ j + Len(head) = j + k /\ j + Len(head) + Len(tail) = j + Len(<<>>) + Len(s)
    BY <1>1, <1>2, <1>a DEF j
  <2>2. ~away => Run(head, j) /\ Run(tail, j + k)  BY <1>2, <1>3
  <2> QED BY <2>1, <2>2 DEF Order
<1> QED BY <1>4 DEF head, tail

\* The server writes back what it has in hand.
LEMMA OrderGives ==
  ASSUME NEW S, NEW R, NEW g \in Seq(S), NEW t \in Seq(S), NEW h \in Seq(S),
         NEW s \in Seq(R), NEW n \in Nat, NEW away, NEW shut,
         Order(g, t, h, s, n, away, shut)
  PROVE  /\ away => Order(g, t, <<>>, s, n, away, shut)
         /\ ~away => Order(g, t \o h, <<>>, s, n, away, shut)
<1>1. /\ Len(g) \in Nat /\ Len(t) \in Nat /\ Len(h) \in Nat /\ Len(s) \in Nat
      /\ Len(<<>>) = 0 /\ \A k : Run(<<>>, k)
  BY LenProperties DEF Run
<1>2. Len(t \o h) = Len(t) + Len(h)
      /\ (Run(t, Len(g)) /\ Run(h, Len(g) + Len(t)) => Run(t \o h, Len(g)))
  BY <1>1, RunConcat
<1>3. Len(g) + (Len(t) + Len(h)) + Len(<<>>) = Len(g) + Len(t) + Len(h)
  BY <1>1
<1>4. ASSUME ~away PROVE Order(g, t \o h, <<>>, s, n, away, shut)
  BY <1>1, <1>2, <1>3, <1>4 DEF Order
<1> QED BY <1>1, <1>4 DEF Order

\* The client sends its next line.
LEMMA OrderSends ==
  ASSUME NEW S, NEW g \in Seq(S), NEW t \in Seq(S), NEW h \in Seq(S),
         NEW s \in Seq(Int), NEW n \in Nat, NEW shut \in BOOLEAN,
         Order(g, t, h, s, n, FALSE, shut)
  PROVE  /\ shut => Order(g, t, h, s, n + 1, FALSE, shut)
         /\ ~shut => Order(g, t, h, s \o Line(n + 1), n + 1, FALSE, shut)
<1>1. Len(g) \in Nat /\ Len(t) \in Nat /\ Len(h) \in Nat /\ Len(s) \in Nat
  BY LenProperties
<1>2. Line(n + 1) \in Seq(Int) /\ Len(Line(n + 1)) = 2 /\ Run(Line(n + 1), 2 * n)
  <2>1. Line(n + 1) = <<2 * n + 1, 2 * n + 2>>  BY DEF Line
  <2>2. 2 * n + 1 \in Int /\ 2 * n + 2 \in Int  OBVIOUS
  <2> DEFINE x == 2 * n + 1
             y == 2 * n + 2
  <2> HIDE DEF x, y
  <2>3. /\ <<x, y>> \in Seq(Int) /\ Len(<<x, y>>) = 2
        /\ <<x, y>>[1] = x /\ <<x, y>>[2] = y
    BY <2>2 DEF x, y
  <2>4. Line(n + 1) = <<x, y>>  BY <2>1 DEF x, y
  <2>5. ASSUME NEW i \in 1..2 PROVE <<x, y>>[i] = 2 * n + i
    <3>1. i = 1 \/ i = 2  OBVIOUS
    <3> QED BY <2>3, <3>1 DEF x, y
  <2> QED BY <2>3, <2>4, <2>5 DEF Run
<1>3. DEFINE k == Len(g) + Len(t) + Len(h)
<1>4. k \in Int  BY <1>1
<1> HIDE DEF k
<1>5. Len(s \o Line(n + 1)) = Len(s) + 2
      /\ (Run(s, k) /\ Run(Line(n + 1), k + Len(s)) => Run(s \o Line(n + 1), k))
  BY <1>2, <1>4, RunConcat, ZenonT(30)
<1>6. ASSUME ~shut PROVE Order(g, t, h, s \o Line(n + 1), n + 1, FALSE, shut)
  <2>1. Run(s, k) /\ k + Len(s) = 2 * n  BY <1>6 DEF Order, k
  <2>2. Run(s \o Line(n + 1), k)  BY <1>2, <1>5, <2>1
  <2>a. k + Len(s \o Line(n + 1)) = 2 * (n + 1)  BY <1>1, <1>4, <1>5, <2>1
  <2>b. Len(g) + Len(t) <= 2 * n  BY DEF Order
  <2>3. /\ k + Len(s \o Line(n + 1)) = 2 * (n + 1)
        /\ Len(g) + Len(t) <= 2 * (n + 1)
    BY <1>1, <2>a, <2>b
  <2>4. Run(g, 0) /\ Run(t, Len(g)) /\ Run(h, Len(g) + Len(t))  BY DEF Order
  <2>5. k + Len(s \o Line(n + 1)) <= 2 * (n + 1)  BY <2>3
  <2> HIDE DEF Order
  <2> QED BY <2>2, <2>3, <2>4, <2>5 DEF Order, k
<1>7. ASSUME shut PROVE Order(g, t, h, s, n + 1, FALSE, shut)
  BY <1>1, <1>7 DEF Order
<1> QED BY <1>6, <1>7

\* The client reads k units of the answers.
LEMMA OrderAnswers ==
  ASSUME NEW S, NEW R, NEW g \in Seq(S), NEW t \in Seq(S), NEW h \in Seq(S),
         NEW s \in Seq(R), NEW n \in Nat, NEW away, NEW shut, NEW k \in 0..Len(t),
         Order(g, t, h, s, n, away, shut)
  PROVE  Order(g \o SubSeq(t, 1, k), SubSeq(t, k + 1, Len(t)), h, s, n, away, shut)
<1>1. Len(g) \in Nat /\ Len(t) \in Nat /\ Len(h) \in Nat /\ Len(s) \in Nat
  BY LenProperties
<1> DEFINE head == SubSeq(t, 1, k)
           tail == SubSeq(t, k + 1, Len(t))
           j == Len(g)
<1>a. j \in Int  BY <1>1
<1> HIDE DEF j
<1>2. /\ head \in Seq(S) /\ Len(head) = k /\ Len(tail) = Len(t) - k
      /\ Run(t, j) => Run(head, j) /\ Run(tail, j + k)
  BY <1>a, RunCut
<1> HIDE DEF head, tail
<1>3. Run(g, 0) /\ Run(t, j) /\ 0 + Len(g) = j  BY <1>1 DEF Order, j
<1>4. Len(g \o head) = j + k /\ Run(g \o head, 0)
  <2>1. /\ Len(g \o head) = Len(g) + Len(head)
        /\ Run(g, 0) /\ Run(head, j) => Run(g \o head, 0)
    BY <1>2, <1>3, RunConcat
  <2> QED BY <1>2, <1>3, <2>1 DEF j
<1>5. Len(g \o head) + Len(tail) = Len(g) + Len(t)
  BY <1>1, <1>2, <1>4 DEF j
<1>6. Order(g \o head, tail, h, s, n, away, shut)
  BY <1>2, <1>3, <1>4, <1>5 DEF Order
<1> QED BY <1>6 DEF head, tail

-----------------------------------------------------------------------------
(* Lemmas about a step *)

\* What depends on the units of d stays as it is if the step touches none of
\* them, whoever closes.
LEMMA OrderStays ==
  ASSUME NEW d \in Clients, InOrder(d),
         got'[d] = got[d], toClient'[d] = toClient[d], hand'[d] = hand[d],
         toServer'[d] = toServer[d], sent'[d] = sent[d],
         cltFin[d] => cltFin'[d], srvFin[d] => srvFin'[d], rst[d] => rst'[d]
  PROVE  InOrder(d)'
BY DEF InOrder, Order

\* A client another client's step, or the server's end, does not concern.
LEMMA Untouched ==
  ASSUME NEW d \in Clients, Placed(d), version' = version,
         got'[d] = got[d], toClient'[d] = toClient[d], hand'[d] = hand[d],
         toServer'[d] = toServer[d], sent'[d] = sent[d], client'[d] = client[d],
         cltFin'[d] = cltFin[d], srvFin[d] => srvFin'[d], rst[d] => rst'[d],
         serves'[d] \in {serves[d], "closed"},
         client[d] = "idle" => serves'[d] = serves[d],
         d \in backlog' => d \in backlog /\ serves'[d] = serves[d]
  PROVE  Placed(d)'
<1>1. HandFree(d)'  BY DEF Placed, HandFree
<1>2. Owed(d)'      BY DEF Placed, Owed, Prog
<1>3. Started(d)' /\ Queued(d)'  BY DEF Placed, Started, Queued
<1>4. Prog.serves # "rounds" => InOrder(d)'
  BY OrderStays DEF Placed
<1>5. Prog' = Prog  BY DEF Prog
<1> QED BY <1>1, <1>2, <1>3, <1>4, <1>5 DEF Placed

\* Only tcp1 does not set SO_REUSEADDR.
LEMMA ProgramFacts ==
  ASSUME version \in Versions
  PROVE  /\ Prog.reuse \in BOOLEAN /\ Prog.whole \in BOOLEAN
         /\ Prog.serves \in {"one", "forks", "rounds"}
         /\ ~Prog.reuse => version = "tcp1"
<1>1. version \in {"tcp1", "tcp2", "tcp3", "tcp4", "tcp7", "tcp8", "tcp9"}
  BY TcpEchoAssumption
<1>2. /\ Programs["tcp1"] = Tcp1 /\ Programs["tcp2"] = Tcp2 /\ Programs["tcp3"] = Tcp3
      /\ Programs["tcp4"] = Tcp4 /\ Programs["tcp7"] = Tcp7 /\ Programs["tcp8"] = Tcp8
      /\ Programs["tcp9"] = Tcp9
  BY DEF Programs
<1>3. Prog \in {Tcp1, Tcp2, Tcp3, Tcp4, Tcp7, Tcp8, Tcp9} /\ (version # "tcp1" => Prog # Tcp1)
  <2>1. Tcp1.reuse = FALSE /\ Tcp2.reuse /\ Tcp3.reuse /\ Tcp4.reuse
    BY DEF Tcp1, Tcp2, Tcp3, Tcp4, Program
  <2>2. Tcp7.reuse /\ Tcp8.reuse /\ Tcp9.reuse  BY DEF Tcp7, Tcp8, Tcp9, Program
  <2> QED BY <1>1, <1>2, <2>1, <2>2 DEF Prog
<1>4. DEFINE Sound(p) == /\ p.reuse \in BOOLEAN /\ p.whole \in BOOLEAN
                         /\ p.serves \in {"one", "forks", "rounds"}
<1>5. Sound(Tcp1) /\ Sound(Tcp2) /\ Sound(Tcp3) /\ Sound(Tcp4)
  BY DEF Program, Tcp1, Tcp2, Tcp3, Tcp4
<1>6. Sound(Tcp7) /\ Sound(Tcp8) /\ Sound(Tcp9)
  BY DEF Program, Tcp7, Tcp8, Tcp9
<1>7. Tcp2.reuse /\ Tcp3.reuse /\ Tcp4.reuse /\ Tcp7.reuse /\ Tcp8.reuse /\ Tcp9.reuse
  BY DEF Program, Tcp2, Tcp3, Tcp4, Tcp7, Tcp8, Tcp9
<1> HIDE DEF Sound
<1>8. Sound(Prog)  BY <1>3, <1>5, <1>6
<1>9. ~Prog.reuse => version = "tcp1"  BY <1>3, <1>7
<1> QED BY <1>8, <1>9 DEF Sound

\* Initially nothing has been sent and nobody is connected.
LEMMA InitIInv == Init => IInv
<1> SUFFICES ASSUME Init PROVE IInv
  OBVIOUS
<1> USE TcpEchoAssumption DEF Init
<1>1. TypeOK
  <2>1. <<>> \in Seq(Units) /\ <<>> \in Seq(Units \cup {Other})  BY EmptySeq
  <2>2. /\ hand \in [Clients -> Seq(Units \cup {Other})] /\ \A c \in Clients : Len(hand[c]) <= 2
        /\ toServer \in [Clients -> Seq(Units)]
        /\ toClient \in [Clients -> Seq(Units \cup {Other})]
        /\ got \in [Clients -> Seq(Units \cup {Other})]
    BY <2>1
  <2>3. 0 \in 0..Rounds /\ 0 \in 0..MaxRestarts /\ 0 \in 0..MaxLines  OBVIOUS
  <2> QED BY <2>2, <2>3 DEF TypeOK
<1>2. OneByOne  BY DEF OneByOne, Busy
<1>3. ASSUME NEW c \in Clients PROVE Placed(c)
  <2>1. HandFree(c) /\ Owed(c) /\ Started(c) /\ Queued(c)
    BY <1>3 DEF HandFree, Owed, Started, Queued
  <2>2. InOrder(c)  BY <1>3 DEF InOrder, Order, Run
  <2> QED BY <2>1, <2>2 DEF Placed
<1>4. CopyHeld  BY DEF CopyHeld
<1> QED BY <1>1, <1>2, <1>3, <1>4 DEF IInv

\* Closing only adds to what is closed and reset.
LEMMA ClosesBits ==
  ASSUME TypeOK, NEW S \in SUBSET Clients, Closes(S)
  PROVE  /\ srvFin' \in [Clients -> BOOLEAN] /\ rst' \in [Clients -> BOOLEAN]
         /\ waits' \in BOOLEAN
         /\ \A d \in Clients : (srvFin[d] => srvFin'[d]) /\ (rst[d] => rst'[d])
BY DEF TypeOK, Closes

\* Closing touches no units, and nothing but the connections of T.
LEMMA ClosesKeeps ==
  ASSUME IInv, NEW S \in SUBSET Clients, Closes(S),
         UNCHANGED <<version, hand, bytes, user, cltFin, doomed>>,
         NEW T \in SUBSET Clients,
         serves' = [c \in Clients |-> IF c \in T THEN "closed" ELSE serves[c]],
         backlog' \subseteq backlog \ T, \A c \in T : client[c] # "idle"
  PROVE  /\ serves' \in [Clients -> Service]
         /\ \A d \in Clients : Placed(d)'
<1> USE DEF IInv, TypeOK, bytes, user
<1>1. serves' \in [Clients -> Service]
  OBVIOUS
<1>2. \A d \in Clients : (srvFin[d] => srvFin'[d]) /\ (rst[d] => rst'[d])
  BY ClosesBits
<1>3. ASSUME NEW d \in Clients PROVE Placed(d)'
  BY <1>2, Untouched
<1> QED BY <1>1, <1>3

\* The server ends with everything it holds, and so does a round of tcp4.
LEMMA StopsKeeps ==
  ASSUME IInv, NEW S \in SUBSET Clients, Stops(S),
         UNCHANGED <<version, restarts, refused, bytes, user, cltFin, doomed>>,
         server' \in {"boot", "accept", "serving", "gone"}, round' \in 0..Rounds,
         server' # "gone" => round' < Rounds,
         \A c \in S : serves[c] \notin {"none", "forked"},
         Prog.serves # "forks" => Busy \subseteq S
  PROVE  IInv'
<1> DEFINE T == S \cup Lost
<1>1. /\ T \in SUBSET Clients /\ Lost \subseteq backlog
      /\ \A c \in T : client[c] # "idle" /\ c \notin copies
  BY DEF IInv, TypeOK, Placed, Queued, CopyHeld, Lost
<1>2. /\ Closes(T) /\ backlog' = backlog \ Lost /\ UNCHANGED <<copies, kept, hand>>
      /\ serves' = [c \in Clients |-> IF c \in T THEN "closed" ELSE serves[c]]
  BY DEF Stops
<1>a. backlog' \subseteq backlog \ T
  BY <1>2 DEF IInv, Placed, Queued, TypeOK
<1> HIDE DEF T
<1>3. serves' \in [Clients -> Service] /\ \A d \in Clients : Placed(d)'
  BY <1>1, <1>2, <1>a, ClosesKeeps
<1>b. srvFin' \in [Clients -> BOOLEAN] /\ rst' \in [Clients -> BOOLEAN] /\ waits' \in BOOLEAN
  BY <1>1, <1>2, ClosesBits DEF IInv
<1>4. TypeOK'  BY <1>2, <1>3, <1>b DEF IInv, TypeOK, bytes, user
<1>5. OneByOne'
  <2>1. Prog' = Prog  BY DEF Prog
  <2>2. ASSUME Prog.serves # "forks" PROVE Busy' = {}
    BY <1>2, <2>2 DEF Busy, T, IInv, TypeOK
  <2>3. Prog.serves # "forks" => \A c \in Clients : serves'[c] \notin {"accepted", "forked"}
    BY <1>2 DEF IInv, OneByOne
  <2> QED BY <2>1, <2>2, <2>3 DEF OneByOne
<1>6. CopyHeld'  BY <1>1, <1>2 DEF IInv, TypeOK, CopyHeld
<1> QED BY <1>3, <1>4, <1>5, <1>6 DEF IInv

\* The end of the server leaves nothing behind that only it was busy with.
LEMMA ExitsKeeps ==
  ASSUME IInv, Exits,
         UNCHANGED <<version, round, restarts, refused, bytes, user, cltFin, doomed>>
  PROVE  IInv'
<1>1. Stops(OfMain) /\ server' = "gone" /\ round' \in 0..Rounds
  BY DEF Exits, IInv, TypeOK
<1>2. /\ OfMain \in SUBSET Clients /\ \A c \in OfMain : serves[c] \notin {"none", "forked"}
      /\ Prog.serves # "forks" => Busy \subseteq OfMain
  BY DEF OfMain, Busy
<1> QED BY <1>1, <1>2, StopsKeeps

\* The end of the process that serves c.
LEMMA QuitsKeeps ==
  ASSUME IInv, NEW c \in Clients, Quits(c),
         serves[c] \notin {"none", "accepted", "forked"},
         UNCHANGED <<version, round, restarts, refused, bytes, user, cltFin, doomed>>
  PROVE  IInv'
<1>1. CASE Prog.serves = "forks"
  <2>1. /\ Closes({c} \ kept) /\ UNCHANGED <<server, held, hand>>
        /\ serves' = [serves EXCEPT ![c] = "closed"] /\ {c} \ kept \in SUBSET Clients
    BY <1>1 DEF Quits
  <2>2. serves' = [d \in Clients |-> IF d \in {c} THEN "closed" ELSE serves[d]]
    BY <2>1 DEF IInv, TypeOK
  <2>a. backlog' \subseteq backlog \ {c} /\ client[c] # "idle"
    BY <2>1 DEF IInv, Placed, Queued, held
  <2>3. serves' \in [Clients -> Service] /\ \A d \in Clients : Placed(d)'
    BY <2>1, <2>2, <2>a, ClosesKeeps
  <2>b. srvFin' \in [Clients -> BOOLEAN] /\ rst' \in [Clients -> BOOLEAN] /\ waits' \in BOOLEAN
    BY <2>1, ClosesBits DEF IInv
  <2>4. TypeOK'  BY <2>1, <2>3, <2>b DEF IInv, TypeOK, bytes, user, held
  <2>5. OneByOne'  BY <1>1, <2>1 DEF IInv, OneByOne, Prog
  <2>6. CopyHeld'  BY <2>1 DEF IInv, TypeOK, CopyHeld, held
  <2> QED BY <2>3, <2>4, <2>5, <2>6 DEF IInv
<1>2. CASE Prog.serves # "forks"
  BY <1>2, ExitsKeeps DEF Quits
<1> QED BY <1>1, <1>2

\* Starting, accepting and forking.
LEMMA ServerStarts ==
  ASSUME IInv, \/ Bind \/ Restart \/ TimeWaitEnds
               \/ \E c \in Clients : Accept(c) \/ Fork(c)
  PROVE  IInv'
<1> USE DEF IInv, TypeOK, started, conns, held, bytes, user, tcp
<1> USE TcpEchoAssumption
<1>0. Prog' = Prog
  BY DEF Bind, Restart, TimeWaitEnds, Accept, Fork, Prog
<1>1. CASE Bind
  <2>1. TypeOK'  BY <1>1 DEF Bind
  <2>2. OneByOne'
    <3>1. server = "boot" /\ server' \in {"gone", "accept"} /\ round' = round /\ serves' = serves
      BY <1>1 DEF Bind
    <3>2. Prog.serves # "forks" => Busy = {}  BY <3>1 DEF OneByOne
    <3>3. Busy' = Busy  BY <3>1 DEF Busy
    <3> QED BY <1>0, <3>1, <3>2, <3>3 DEF OneByOne
  <2>3. \A d \in Clients : Placed(d)'  BY <1>1, Untouched DEF Bind
  <2>4. CopyHeld'
    BY <1>1 DEF Bind, CopyHeld
  <2> QED BY <2>1, <2>2, <2>3, <2>4
<1>2. CASE Restart
  <2>1. TypeOK'  BY <1>2 DEF Restart
  <2>2. OneByOne'
    <3>1. /\ server = "gone" /\ server' = "boot" /\ round' = 0 /\ serves' = serves
      BY <1>2 DEF Restart
    <3>2. Prog.serves # "forks" => Busy = {}  BY <3>1 DEF OneByOne
    <3>3. Busy' = Busy  BY <3>1 DEF Busy
    <3> QED BY <1>0, <3>1, <3>2, <3>3 DEF OneByOne
  <2>3. \A d \in Clients : Placed(d)'  BY <1>2, Untouched DEF Restart
  <2>4. CopyHeld'  BY <1>2 DEF Restart, CopyHeld
  <2> QED BY <2>1, <2>2, <2>3, <2>4
<1>3. CASE TimeWaitEnds
  <2>1. TypeOK'  BY <1>3 DEF TimeWaitEnds
  <2>2. OneByOne'  BY <1>0, <1>3 DEF TimeWaitEnds, OneByOne, Busy
  <2>3. \A d \in Clients : Placed(d)'  BY <1>3, Untouched DEF TimeWaitEnds
  <2>4. CopyHeld'  BY <1>3 DEF TimeWaitEnds, CopyHeld
  <2> QED BY <2>1, <2>2, <2>3, <2>4
<1>4. ASSUME NEW c \in Clients, Accept(c) PROVE IInv'
  <2>1. TypeOK'  BY <1>4 DEF Accept
  <2>2. OneByOne'
    <3>1. CASE Prog.serves = "forks"  BY <1>0, <1>4, <3>1 DEF Accept, OneByOne
    <3>2. CASE Prog.serves # "forks"
      <4>1. server = "accept" /\ server' = "serving" /\ serves' = [serves EXCEPT ![c] = "reading"]
        BY <1>4, <3>2 DEF Accept
      <4>2. Busy = {}  BY <3>2, <4>1 DEF OneByOne
      <4>3. Busy' = {c}  BY <4>1, <4>2 DEF Busy
      <4>4. \A d \in Clients : serves'[d] \notin {"accepted", "forked"}
        BY <3>2, <4>1 DEF OneByOne
      <4> QED BY <1>0, <1>4, <4>1, <4>3, <4>4 DEF OneByOne, Accept
    <3> QED BY <3>1, <3>2
  <2>3. ASSUME NEW d \in Clients PROVE Placed(d)'
    <3>1. CASE d # c  BY <1>4, <3>1, Untouched DEF Accept
    <3>2. CASE d = c
      <4>0. c \in backlog /\ serves[c] = "none" /\ client[c] # "idle"
        BY <1>4 DEF Accept, Placed, Queued
      <4>1. hand'[c] = <<>>  BY <1>4, <4>0 DEF Accept, Placed, HandFree
      <4>2. HandFree(c)'  BY <4>1 DEF HandFree
      <4>3. Owed(c)' /\ Started(c)' /\ Queued(c)'
        BY <1>0, <1>4, <4>0 DEF Accept, Placed, Owed, Started, Queued
      <4>4. Prog.serves # "rounds" => InOrder(c)'  BY <1>4, OrderStays DEF Accept, Placed
      <4> QED BY <1>0, <3>2, <4>2, <4>3, <4>4 DEF Placed
    <3> QED BY <1>4, <3>1, <3>2
  <2>4. CopyHeld'
    <3>1. serves[c] = "none"  BY <1>4 DEF Accept, Placed, Queued
    <3> QED BY <1>4, <3>1 DEF Accept, CopyHeld
  <2> QED BY <2>1, <2>2, <2>3, <2>4
<1>5. ASSUME NEW c \in Clients, Fork(c) PROVE IInv'
  <2>0. serves[c] = "accepted" /\ serves' = [serves EXCEPT ![c] = "forked"]  BY <1>5 DEF Fork
  <2>1. TypeOK'  BY <1>5 DEF Fork
  <2>2. OneByOne'  BY <1>0, <1>5 DEF Fork, OneByOne
  <2>3. ASSUME NEW d \in Clients PROVE Placed(d)'
    <3>1. CASE d # c  BY <1>5, <3>1, Untouched DEF Fork
    <3>2. CASE d = c
      <4>1. hand'[c] = <<>>  BY <1>5 DEF Fork, Placed, HandFree
      <4>2. HandFree(c)'  BY <4>1 DEF HandFree
      <4>3. Owed(c)' /\ Started(c)' /\ Queued(c)'
        BY <1>0, <1>5 DEF Fork, Placed, Owed, Started, Queued
      <4>4. Prog.serves # "rounds" => InOrder(c)'  BY <1>5, OrderStays DEF Fork, Placed
      <4> QED BY <1>0, <3>2, <4>2, <4>3, <4>4 DEF Placed
    <3> QED BY <3>1, <3>2
  <2>4. CopyHeld'  BY <1>5 DEF Fork, CopyHeld
  <2> QED BY <2>1, <2>2, <2>3, <2>4
<1> QED BY <1>1, <1>2, <1>3, <1>4, <1>5

\* A child closes its copy of the listening socket, and with the last copy of a
\* server that is gone what waits to be accepted is reset.
LEMMA ChildClosesKeeps ==
  ASSUME IInv, NEW c \in Clients, ChildCloses(c)
  PROVE  IInv'
<1>0. PICK dropped \in SUBSET backlog :
        /\ Closes(dropped) /\ backlog' = backlog \ dropped
        /\ serves' = [d \in Clients |-> IF d = c THEN "reading"
                                        ELSE IF d \in dropped THEN "closed" ELSE serves[d]]
  BY DEF ChildCloses
<1>1. /\ serves[c] = "forked" /\ copies' = copies \ {c} /\ Prog' = Prog
      /\ UNCHANGED <<version, server, round, restarts, refused, kept, hand, bytes, user,
                     cltFin, doomed>>
  BY DEF ChildCloses, Prog
<1>2. /\ dropped \in SUBSET Clients /\ c \notin backlog
      /\ \A d \in dropped : serves[d] = "none" /\ client[d] # "idle"
  BY <1>1 DEF IInv, TypeOK, Placed, Queued
<1>3. /\ srvFin' \in [Clients -> BOOLEAN] /\ rst' \in [Clients -> BOOLEAN] /\ waits' \in BOOLEAN
      /\ \A d \in Clients : (srvFin[d] => srvFin'[d]) /\ (rst[d] => rst'[d])
  BY <1>0, <1>2, ClosesBits DEF IInv
<1>4. TypeOK'  BY <1>0, <1>1, <1>3 DEF IInv, TypeOK, bytes, user
<1>5. OneByOne'
  <2>1. Prog.serves = "forks"  BY <1>1 DEF IInv, OneByOne
  <2> QED BY <1>1, <2>1 DEF IInv, OneByOne
<1>6. CopyHeld'  BY <1>0, <1>1, <1>2 DEF IInv, TypeOK, CopyHeld
<1>7. ASSUME NEW d \in Clients, d # c PROVE Placed(d)'
  BY <1>0, <1>1, <1>2, <1>3, <1>7, Untouched DEF IInv, TypeOK, bytes, user
<1>8. Placed(c)'
  <2> USE <1>0, <1>1, <1>2, <1>3 DEF IInv, TypeOK, bytes, user
  <2>1. HandFree(c)'  BY DEF Placed, HandFree
  <2>2. Owed(c)' /\ Started(c)' /\ Queued(c)'  BY DEF Placed, Owed, Started, Queued
  <2>3. Prog.serves # "rounds" => InOrder(c)'  BY OrderStays DEF Placed
  <2> QED BY <2>1, <2>2, <2>3 DEF Placed
<1> QED BY <1>4, <1>5, <1>6, <1>7, <1>8 DEF IInv

\* A parent closes the connection it has forked for.
LEMMA ParentClosesKeeps ==
  ASSUME IInv, NEW c \in Clients, ParentCloses(c)
  PROVE  IInv'
<1>1. /\ kept' = kept \ {c} /\ Prog' = Prog
      /\ UNCHANGED <<version, server, round, restarts, refused, backlog, copies, serves, hand,
                     bytes, user, cltFin, doomed>>
  BY DEF ParentCloses, Prog
<1>2. /\ srvFin' \in [Clients -> BOOLEAN] /\ rst' \in [Clients -> BOOLEAN] /\ waits' \in BOOLEAN
      /\ \A d \in Clients : (srvFin[d] => srvFin'[d]) /\ (rst[d] => rst'[d])
  <2>1. {d \in {c} : serves[d] = "closed"} \in SUBSET Clients  OBVIOUS
  <2> QED BY <2>1, ClosesBits DEF IInv, ParentCloses
<1>3. TypeOK'  BY <1>1, <1>2 DEF IInv, TypeOK, bytes, user
<1>4. OneByOne' /\ CopyHeld'  BY <1>1 DEF IInv, OneByOne, Busy, CopyHeld
<1>5. ASSUME NEW d \in Clients PROVE Placed(d)'
  BY <1>1, <1>2, Untouched DEF IInv, bytes, user
<1> QED BY <1>3, <1>4, <1>5 DEF IInv

\* The server takes n units out of its receive buffer into its hand.
LEMMA TakesKeeps ==
  ASSUME IInv, NEW c \in Clients, NEW n \in 1..2, n <= Len(toServer[c]),
         serves[c] = "reading",
         hand' = [hand EXCEPT ![c] = SubSeq(toServer[c], 1, n)],
         toServer' = [toServer EXCEPT ![c] = SubSeq(toServer[c], n + 1, Len(toServer[c]))],
         serves' = [serves EXCEPT ![c] = "writing"],
         UNCHANGED <<version, started, held, toClient, user, tcp>>
  PROVE  IInv'
<1> USE DEF IInv, TypeOK, started, held, user, tcp
<1>0. Prog' = Prog  BY DEF Prog
<1>1. toServer[c] \in Seq(Units) /\ hand[c] \in Seq(Units \cup {Other})
      /\ toClient[c] \in Seq(Units \cup {Other}) /\ got[c] \in Seq(Units \cup {Other})
  OBVIOUS
<1>2. /\ Len(toServer[c]) \in Nat /\ Len(hand[c]) \in Nat
      /\ Len(toClient[c]) \in Nat /\ Len(got[c]) \in Nat
  BY <1>1, LenProperties
<1>3. n \in 0..Len(toServer[c])
  BY <1>2
<1>4. /\ hand'[c] = SubSeq(toServer[c], 1, n)
      /\ toServer'[c] = SubSeq(toServer[c], n + 1, Len(toServer[c]))
  OBVIOUS
<1>a. /\ SubSeq(toServer[c], 1, n) \in Seq(Units) /\ Len(SubSeq(toServer[c], 1, n)) = n
      /\ SubSeq(toServer[c], n + 1, Len(toServer[c])) \in Seq(Units)
  BY <1>1, <1>3, RunCut
<1>5. hand[c] = <<>>  BY DEF Placed, HandFree
<1>6. TypeOK'
  <2>1. hand'[c] \in Seq(Units \cup {Other})  BY <1>4, <1>a, SeqMonotonic
  <2>2. hand' \in [Clients -> Seq(Units \cup {Other})]  BY <2>1
  <2>3. \A d \in Clients : Len(hand'[d]) <= 2  BY <1>4, <1>a
  <2>4. toServer' \in [Clients -> Seq(Units)]  BY <1>4, <1>a
  <2>5. serves' \in [Clients -> Service]
    OBVIOUS
  <2> QED BY <2>2, <2>3, <2>4, <2>5
<1>7. OneByOne'
  <2>1. Busy' = Busy  BY DEF Busy
  <2> QED BY <1>0, <2>1 DEF OneByOne
<1>8. ASSUME NEW d \in Clients PROVE Placed(d)'
  <2>1. CASE d # c  BY <2>1, Untouched
  <2>2. CASE d = c
    <3>1. HandFree(c)'  BY DEF HandFree
    <3>2. Owed(c)' /\ Started(c)' /\ Queued(c)'
      BY <1>0 DEF Placed, Owed, Started, Queued
    <3>3. ASSUME Prog.serves # "rounds" PROVE InOrder(c)'
      <4>1. Order(got[c], toClient[c], <<>>, toServer[c], sent[c],
                  cltFin[c], srvFin[c] \/ rst[c])
        BY <1>5, <3>3 DEF Placed, InOrder
      <4>2. Order(got[c], toClient[c], SubSeq(toServer[c], 1, n),
                  SubSeq(toServer[c], n + 1, Len(toServer[c])), sent[c],
                  cltFin[c], srvFin[c] \/ rst[c])
        <5>1. sent[c] \in Nat  OBVIOUS
        <5> QED BY <1>1, <1>3, <4>1, <5>1, OrderTakes
      <4> QED BY <1>4, <4>2 DEF InOrder
    <3> QED BY <1>0, <2>2, <3>1, <3>2, <3>3 DEF Placed
  <2> QED BY <2>1, <2>2
<1>9. CopyHeld'  BY DEF CopyHeld
<1> QED BY <1>6, <1>7, <1>8, <1>9

\* Reading.
LEMMA ServerReads ==
  ASSUME IInv, NEW c \in Clients, ReadRaw(c) \/ ReadWhole(c) \/ ReadEnd(c)
  PROVE  IInv'
<1>0. Len(toServer[c]) \in Nat  BY LenProperties DEF IInv, TypeOK
<1>1. CASE ReadRaw(c)
  <2>1. PICK n \in 1..2 :
          /\ n <= Len(toServer[c])
          /\ hand' = [hand EXCEPT ![c] = SubSeq(toServer[c], 1, n)]
          /\ toServer' = [toServer EXCEPT ![c] = SubSeq(@, n + 1, Len(@))]
    BY <1>1 DEF ReadRaw
  <2> QED BY <1>1, <2>1, TakesKeeps DEF ReadRaw
<1>2. CASE ReadWhole(c)
  <2>1. /\ 2 <= Len(toServer[c])
        /\ hand' = [hand EXCEPT ![c] = SubSeq(toServer[c], 1, 2)]
        /\ toServer' = [toServer EXCEPT ![c] = SubSeq(toServer[c], 2 + 1, Len(toServer[c]))]
    BY <1>0, <1>2 DEF ReadWhole
  <2>2. 2 \in 1..2  OBVIOUS
  <2> QED BY <1>2, <2>1, <2>2, TakesKeeps DEF ReadWhole
<1>3. CASE ReadEnd(c)
  <2> USE <1>3 DEF IInv, TypeOK, ReadEnd, Drained, started, held, user, tcp, bytes
  <2>0. Prog' = Prog  BY DEF Prog
  <2>1. TypeOK'  OBVIOUS
  <2>2. OneByOne'
    <3>1. Busy' = Busy  BY DEF Busy
    <3> QED BY <2>0, <3>1 DEF OneByOne
  <2>3. ASSUME NEW d \in Clients PROVE Placed(d)'
    <3>1. CASE d # c  BY <3>1, Untouched
    <3>2. CASE d = c
      <4>1. HandFree(c)'  BY DEF Placed, HandFree
      <4>2. Owed(c)' /\ Started(c)' /\ Queued(c)'
        BY <2>0 DEF Placed, Owed, Started, Queued
      <4>3. Prog.serves # "rounds" => InOrder(c)'  BY OrderStays DEF Placed
      <4> QED BY <2>0, <3>2, <4>1, <4>2, <4>3 DEF Placed
    <3> QED BY <3>1, <3>2
  <2>4. CopyHeld'  BY DEF CopyHeld
  <2> QED BY <2>1, <2>2, <2>3, <2>4
<1> QED BY <1>1, <1>2, <1>3

\* Writing back.
LEMMA ServerWrites ==
  ASSUME IInv, NEW c \in Clients, WriteBack(c)
  PROVE  IInv'
<1> DEFINE text == IF Prog.serves = "rounds" THEN [u \in 1..Len(hand[c]) |-> Other]
                                             ELSE hand[c]
<1> USE DEF IInv, TypeOK, started, held, user
<1>0. /\ Prog' = Prog /\ serves[c] = "writing"
      /\ hand' = [hand EXCEPT ![c] = <<>>]
      /\ serves' = [serves EXCEPT ![c] = IF Prog.serves = "rounds" THEN "left" ELSE "reading"]
      /\ UNCHANGED <<version, started, held, toServer, user, cltFin, srvFin, rst>>
  BY DEF WriteBack, Prog
<1>1. toServer[c] \in Seq(Units) /\ hand[c] \in Seq(Units \cup {Other})
      /\ toClient[c] \in Seq(Units \cup {Other}) /\ got[c] \in Seq(Units \cup {Other})
  OBVIOUS
<1>2. /\ Len(toServer[c]) \in Nat /\ Len(hand[c]) \in Nat
      /\ Len(toClient[c]) \in Nat /\ Len(got[c]) \in Nat
  BY <1>1, LenProperties
<1>3. text \in Seq(Units \cup {Other}) /\ Len(text) = Len(hand[c])
  <2>1. [u \in 1..Len(hand[c]) |-> Other] \in Seq(Units \cup {Other})
        /\ Len([u \in 1..Len(hand[c]) |-> Other]) = Len(hand[c])
    BY <1>2
  <2> QED BY <1>1, <2>1
<1>4. /\ cltFin[c] => toClient' = toClient
      /\ ~cltFin[c] => toClient' = [toClient EXCEPT ![c] = toClient[c] \o text]
      /\ doomed' \in [Clients -> BOOLEAN]
  BY DEF WriteBack
<1> HIDE DEF text
<1>5. toClient[c] \o text \in Seq(Units \cup {Other})
  BY <1>1, <1>3, ConcatProperties
<1>6. TypeOK'
  <2>1. <<>> \in Seq(Units \cup {Other}) /\ Len(<<>>) = 0  BY EmptySeq
  <2>2. hand' \in [Clients -> Seq(Units \cup {Other})] /\ \A d \in Clients : Len(hand'[d]) <= 2
    BY <1>0, <2>1, SMTT(20)
  <2>3. toClient' \in [Clients -> Seq(Units \cup {Other})]  BY <1>4, <1>5
  <2>4. serves' \in [Clients -> Service]
    BY <1>0
  <2> QED BY <1>0, <1>4, <2>2, <2>3, <2>4
<1>7. OneByOne'
  <2>1. Busy' = Busy  BY <1>0 DEF Busy
  <2>2. \A d \in Clients : serves'[d] \in {"accepted", "forked"} => serves'[d] = serves[d]
    BY <1>0
  <2> QED BY <1>0, <2>1, <2>2 DEF OneByOne
<1>8. ASSUME NEW d \in Clients PROVE Placed(d)'
  <2>1. CASE d # c
    <3>1. toClient'[d] = toClient[d] /\ hand'[d] = hand[d] /\ serves'[d] = serves[d]
      BY <1>0, <1>4, <2>1
    <3> QED BY <1>0, <3>1, Untouched
  <2>2. CASE d = c
    <3>1. HandFree(c)'  BY <1>0 DEF HandFree
    <3>2. Owed(c)' /\ Started(c)' /\ Queued(c)'
      BY <1>0 DEF Placed, Owed, Started, Queued
    <3>3. ASSUME Prog.serves # "rounds" PROVE InOrder(c)'
      <4>1. InOrder(c) /\ text = hand[c]  BY <3>3 DEF Placed, text
      <4>2. hand'[c] = <<>> /\ sent[c] \in Nat
        BY <1>0
      <4>3. /\ cltFin[c] => toClient'[c] = toClient[c]
            /\ ~cltFin[c] => toClient'[c] = toClient[c] \o hand[c]
        BY <1>4, <4>1
      <4>4. /\ cltFin[c] => Order(got[c], toClient[c], <<>>, toServer[c], sent[c],
                                  cltFin[c], srvFin[c] \/ rst[c])
            /\ ~cltFin[c] => Order(got[c], toClient[c] \o hand[c], <<>>, toServer[c], sent[c],
                                   cltFin[c], srvFin[c] \/ rst[c])
        <5>1. Order(got[c], toClient[c], hand[c], toServer[c], sent[c],
                    cltFin[c], srvFin[c] \/ rst[c])
          BY <4>1 DEF InOrder
        <5> QED BY <1>1, <4>2, <5>1, OrderGives, SMTT(20)
      <4> QED BY <1>0, <4>2, <4>3, <4>4 DEF InOrder
    <3> QED BY <1>0, <2>2, <3>1, <3>2, <3>3 DEF Placed
  <2> QED BY <2>1, <2>2
<1>9. CopyHeld'  BY <1>0 DEF CopyHeld
<1> QED BY <1>6, <1>7, <1>8, <1>9

\* Ending, in all the ways a server's process does.
LEMMA ServerEnds ==
  ASSUME IInv, NEW c \in Clients,
         ForkFails(c) \/ ReadError(c) \/ WritePipe(c) \/ Leave(c) \/ NextRound(c)
  PROVE  IInv'
<1>1. CASE ForkFails(c)  BY <1>1, ExitsKeeps DEF ForkFails
<1>2. CASE ReadError(c)  BY <1>2, QuitsKeeps DEF ReadError, Drained
<1>3. CASE WritePipe(c)  BY <1>3, QuitsKeeps DEF WritePipe
<1>4. CASE Leave(c)      BY <1>4, QuitsKeeps DEF Leave
<1>5. CASE NextRound(c)
  <2>1. serves[c] = "left" /\ Prog.serves = "rounds" /\ Stops({c})  BY <1>5 DEF NextRound
  <2>2. Busy = {c} /\ server = "serving"  BY <2>1 DEF IInv, OneByOne, Busy
  <2>3. round \in 0..Rounds /\ round < Rounds /\ Rounds \in Nat
    BY <2>2, TcpEchoAssumption DEF IInv, TypeOK, OneByOne
  <2>4. /\ round' = round + 1 /\ server' \in {"gone", "boot"}
        /\ server' # "gone" => round' # Rounds
        /\ UNCHANGED <<version, restarts, refused, bytes, user, cltFin, doomed>>
    BY <1>5 DEF NextRound
  <2>5. round' \in 0..Rounds /\ (server' # "gone" => round' < Rounds)  BY <2>3, <2>4
  <2> QED BY <2>1, <2>2, <2>4, <2>5, StopsKeeps
<1> QED BY <1>1, <1>2, <1>3, <1>4, <1>5

\* A step of one client concerns the others in nothing.
LEMMA OneClient ==
  ASSUME IInv, NEW c \in Clients, TypeOK', Placed(c)',
         UNCHANGED <<version, started, serves, copies, hand>>,
         \A d \in Clients : d # c =>
            /\ got'[d] = got[d] /\ toClient'[d] = toClient[d] /\ toServer'[d] = toServer[d]
            /\ sent'[d] = sent[d] /\ client'[d] = client[d]
            /\ cltFin'[d] = cltFin[d] /\ srvFin'[d] = srvFin[d]
            /\ (rst[d] => rst'[d]) /\ (d \in backlog' => d \in backlog)
  PROVE  IInv'
<1>1. OneByOne'
  <2>1. Prog' = Prog /\ Busy' = Busy  BY DEF Prog, Busy
  <2> QED BY <2>1 DEF IInv, OneByOne, started
<1>2. ASSUME NEW d \in Clients, d # c PROVE Placed(d)'
  BY <1>2, Untouched DEF IInv
<1>3. CopyHeld'  BY DEF IInv, CopyHeld, started
<1> QED BY <1>1, <1>2, <1>3 DEF IInv

\* Connecting, the end of the input, a reset: no unit moves.
LEMMA ClientComesAndGoes ==
  ASSUME IInv, NEW c \in Clients,
         Connect(c) \/ InputEnds(c) \/ AnswerEnd(c) \/ ResetArrives(c)
  PROVE  IInv'
<1> USE DEF IInv, TypeOK, started, conns, held, bytes, user, tcp
<1>0. Prog' = Prog
  BY DEF Connect, InputEnds, AnswerEnd, ResetArrives, Prog
<1>1. Len(got[c]) \in Nat
  BY LenProperties
<1>2. CASE Connect(c)
  <2> USE <1>2 DEF Connect
  <2>1. TypeOK'  BY ZenonT(30)
  <2>2. Placed(c)'
    <3>1. HandFree(c)'  BY DEF Placed, HandFree
    <3>2. sent[c] = 0 /\ ~cltFin[c] /\ serves[c] = "none" /\ c \notin backlog
          /\ client'[c] \in {"typing", "gone"}
      BY DEF Placed, Started, Queued
    <3>3. Owed(c)'  BY <1>1, <3>2 DEF Owed
    <3>4. Started(c)' /\ Queued(c)'  BY <3>2 DEF Started, Queued
    <3>5. Prog.serves # "rounds" => InOrder(c)'  BY OrderStays DEF Placed
    <3> QED BY <1>0, <3>1, <3>3, <3>4, <3>5 DEF Placed
  <2> QED BY <2>1, <2>2, OneClient
<1>3. ASSUME client[c] \in {"typing", "reading"}, CloseClient(c),
             UNCHANGED <<version, started, conns, bytes, sent, got, srvFin, doomed>>
      PROVE  IInv'
  <2> USE <1>3 DEF CloseClient
  <2>1. TypeOK'
    <3>1. /\ client' \in [Clients -> {"idle", "typing", "reading", "gone"}]
          /\ cltFin' \in [Clients -> BOOLEAN] /\ rst' \in [Clients -> BOOLEAN]
      OBVIOUS
    <3> QED BY <3>1
  <2>2. Placed(c)'
    <3>1. HandFree(c)'  BY DEF Placed, HandFree
    <3>2. client'[c] = "gone" /\ (cltFin[c] => cltFin'[c]) /\ (rst[c] => rst'[c])
      OBVIOUS
    <3>3. Owed(c)' /\ Started(c)' /\ Queued(c)'  BY <3>2 DEF Placed, Owed, Started, Queued
    <3>4. Prog.serves # "rounds" => InOrder(c)'  BY <3>2, OrderStays DEF Placed
    <3> QED BY <1>0, <3>1, <3>3, <3>4 DEF Placed
  <2> QED BY <2>1, <2>2, OneClient
<1>4. CASE InputEnds(c)  BY <1>3, <1>4 DEF InputEnds
<1>5. CASE AnswerEnd(c)
  <2>1. CASE ~(srvFin[c] /\ ~Prog.whole)  BY <1>3, <1>5, <2>1 DEF AnswerEnd
  <2>2. CASE srvFin[c] /\ ~Prog.whole
    <3> USE <1>5, <2>2 DEF AnswerEnd
    <3>1. TypeOK'  OBVIOUS
    <3>2. Placed(c)'
      <4>1. HandFree(c)'  BY DEF Placed, HandFree
      <4>2. Owed(c)'  BY DEF Owed
      <4>3. Started(c)' /\ Queued(c)'  BY DEF Placed, Started, Queued
      <4>4. Prog.serves # "rounds" => InOrder(c)'  BY OrderStays DEF Placed
      <4> QED BY <1>0, <4>1, <4>2, <4>3, <4>4 DEF Placed
    <3> QED BY <3>1, <3>2, OneClient
  <2> QED BY <2>1, <2>2
<1>6. CASE ResetArrives(c)
  <2> USE <1>6 DEF ResetArrives
  <2>1. TypeOK'  OBVIOUS
  <2>2. Placed(c)'
    <3>1. HandFree(c)'  BY DEF Placed, HandFree
    <3>2. Owed(c)'  BY DEF Owed
    <3>3. Started(c)' /\ Queued(c)'  BY DEF Placed, Started, Queued
    <3>4. Prog.serves # "rounds" => InOrder(c)'  BY OrderStays DEF Placed
    <3> QED BY <1>0, <3>1, <3>2, <3>3, <3>4 DEF Placed
  <2> QED BY <2>1, <2>2, OneClient
<1> QED BY <1>2, <1>4, <1>5, <1>6

\* A line is sent: appended to what waits for the server, or lost on an end
\* that is closed.
LEMMA ClientSends ==
  ASSUME IInv, NEW c \in Clients, SendLine(c)
  PROVE  IInv'
<1> USE DEF IInv, TypeOK, started, conns, held
<1>0. /\ Prog' = Prog /\ client[c] = "typing" /\ sent[c] < MaxLines
      /\ UNCHANGED <<version, started, conns, toClient, got, cltFin, srvFin, rst>>
  BY DEF SendLine, Prog
<1>1. /\ got[c] \in Seq(Units \cup {Other}) /\ toClient[c] \in Seq(Units \cup {Other})
      /\ hand[c] \in Seq(Units \cup {Other}) /\ toServer[c] \in Seq(Units)
      /\ Len(got[c]) \in Nat /\ sent[c] \in Nat /\ MaxLines \in Nat
  BY LenProperties, TcpEchoAssumption
<1>2. CASE rst[c]
  <2>0. client' = [client EXCEPT ![c] = "gone"] /\ UNCHANGED <<sent, toServer, doomed>>
    BY <1>2 DEF SendLine
  <2>1. TypeOK'  BY <1>0, <2>0
  <2>2. Placed(c)'
    <3>1. HandFree(c)'  BY <1>0 DEF Placed, HandFree
    <3>2. Owed(c)' /\ Started(c)' /\ Queued(c)'
      BY <1>0, <2>0 DEF Placed, Owed, Started, Queued
    <3>3. Prog.serves # "rounds" => InOrder(c)'  BY <1>0, <2>0, OrderStays DEF Placed
    <3> QED BY <1>0, <3>1, <3>2, <3>3 DEF Placed
  <2> QED BY <1>0, <2>0, <2>1, <2>2, OneClient
<1>3. CASE ~rst[c]
  <2>0. /\ client' = [client EXCEPT ![c] = "reading"] /\ sent' = [sent EXCEPT ![c] = @ + 1]
        /\ srvFin[c] => /\ toServer' = toServer
                        /\ doomed' = [doomed EXCEPT ![c] = TRUE]
        /\ ~srvFin[c] => /\ toServer' = [toServer EXCEPT ![c] = toServer[c] \o Line(sent[c] + 1)]
                         /\ doomed' = doomed
    BY <1>3 DEF SendLine
  <2>1. TypeOK'
    <3>1. Line(sent[c] + 1) \in Seq(Units)
      <4>1. 2 * (sent[c] + 1) - 1 \in Units /\ 2 * (sent[c] + 1) \in Units
        BY <1>0, <1>1, SMTT(20) DEF Units
      <4> QED BY <4>1 DEF Line
    <3>2. toServer[c] \o Line(sent[c] + 1) \in Seq(Units)  BY <1>1, <3>1, ConcatProperties
    <3>3. toServer' \in [Clients -> Seq(Units)] /\ doomed' \in [Clients -> BOOLEAN]
      BY <2>0, <3>2, ZenonT(30)
    <3>4. sent' \in [Clients -> 0..MaxLines]
      <4>1. sent[c] + 1 \in 0..MaxLines  BY <1>0, <1>1
      <4> QED BY <2>0, <4>1
    <3>5. client' \in [Clients -> {"idle", "typing", "reading", "gone"}]  BY <2>0
    <3> QED BY <1>0, <3>3, <3>4, <3>5
  <2>2. Placed(c)'
    <3>1. HandFree(c)'  BY <1>0 DEF Placed, HandFree
    <3>2. Started(c)' /\ Queued(c)'  BY <1>0, <2>0 DEF Placed, Started, Queued
    <3>3. Owed(c)'
      <4>1. client'[c] = "reading" /\ sent'[c] = sent[c] + 1 /\ got'[c] = got[c]
        BY <1>0, <2>0
      <4>2. Owed(c)  BY DEF Placed
      <4>3. ~srvFin[c] => /\ Len(got[c]) >= sent[c]
                          /\ Prog.whole => Len(got[c]) >= 2 * sent[c]
        BY <1>0, <1>3, <4>2 DEF Owed
      <4>4. 2 * (sent[c] + 1) = 2 * sent[c] + 2  BY <1>1
      <4> QED BY <1>0, <1>1, <4>1, <4>3, <4>4 DEF Owed
    <3>4. ASSUME Prog.serves # "rounds" PROVE InOrder(c)'
      <4>1. /\ got'[c] = got[c] /\ toClient'[c] = toClient[c] /\ hand'[c] = hand[c]
            /\ sent'[c] = sent[c] + 1 /\ cltFin'[c] = FALSE /\ cltFin[c] = FALSE
            /\ rst'[c] = FALSE /\ rst[c] = FALSE /\ srvFin'[c] = srvFin[c]
            /\ srvFin[c] => toServer'[c] = toServer[c]
            /\ ~srvFin[c] => toServer'[c] = toServer[c] \o Line(sent[c] + 1)
            /\ srvFin[c] \in BOOLEAN
        BY <1>0, <1>3, <2>0 DEF Placed, Started
      <4>2. (srvFin[c] \/ FALSE) = srvFin[c]  BY <4>1
      <4>3. Order(got[c], toClient[c], hand[c], toServer[c], sent[c], FALSE, srvFin[c])
        BY <3>4, <4>1, <4>2 DEF Placed, InOrder
      <4>4. toServer[c] \in Seq(Int)
        <5>1. \A u \in Units : u \in Int  BY DEF Units
        <5> QED BY <1>1, <5>1, SeqMonotonic
      <4>5. /\ srvFin[c] => Order(got[c], toClient[c], hand[c], toServer[c], sent[c] + 1,
                                  FALSE, srvFin[c])
            /\ ~srvFin[c] => Order(got[c], toClient[c], hand[c],
                                   toServer[c] \o Line(sent[c] + 1), sent[c] + 1,
                                   FALSE, srvFin[c])
        BY <1>1, <4>1, <4>3, <4>4, OrderSends, ZenonT(30)
      <4>6. Order(got'[c], toClient'[c], hand'[c], toServer'[c], sent'[c], FALSE, srvFin[c])
        BY <4>1, <4>5
      <4> QED BY <4>1, <4>2, <4>6 DEF InOrder
    <3> QED BY <1>0, <3>1, <3>2, <3>3, <3>4 DEF Placed
  <2> QED BY <1>0, <2>0, <2>1, <2>2, OneClient
<1> QED BY <1>2, <1>3

\* The client reads n units: one is an answer of the raw programs, two are one
\* of the others.
LEMMA AnswersKeeps ==
  ASSUME IInv, NEW c \in Clients, NEW n \in 1..2, n <= Len(toClient[c]),
         Prog.whole => n = 2, client[c] = "reading",
         got' = [got EXCEPT ![c] = got[c] \o SubSeq(toClient[c], 1, n)],
         toClient' = [toClient EXCEPT ![c] = SubSeq(toClient[c], n + 1, Len(toClient[c]))],
         client' = [client EXCEPT ![c] = "typing"],
         UNCHANGED <<version, started, conns, toServer, sent, tcp>>
  PROVE  IInv'
<1> USE DEF IInv, TypeOK, started, conns, held, tcp
<1>0. Prog' = Prog  BY DEF Prog
<1>1. /\ got[c] \in Seq(Units \cup {Other}) /\ toClient[c] \in Seq(Units \cup {Other})
      /\ hand[c] \in Seq(Units \cup {Other}) /\ toServer[c] \in Seq(Units)
      /\ Len(got[c]) \in Nat /\ Len(toClient[c]) \in Nat /\ sent[c] \in Nat
  BY LenProperties
<1>2. n \in 0..Len(toClient[c])  BY <1>1
<1>3. /\ got'[c] = got[c] \o SubSeq(toClient[c], 1, n)
      /\ toClient'[c] = SubSeq(toClient[c], n + 1, Len(toClient[c]))
  OBVIOUS
<1>4. /\ SubSeq(toClient[c], 1, n) \in Seq(Units \cup {Other})
      /\ Len(SubSeq(toClient[c], 1, n)) = n
      /\ SubSeq(toClient[c], n + 1, Len(toClient[c])) \in Seq(Units \cup {Other})
  BY <1>1, <1>2, RunCut
<1>5. /\ got'[c] \in Seq(Units \cup {Other}) /\ Len(got'[c]) = Len(got[c]) + n
      /\ toClient'[c] \in Seq(Units \cup {Other})
  BY <1>1, <1>3, <1>4, ConcatProperties
<1>6. TypeOK'
  <2>1. /\ got' \in [Clients -> Seq(Units \cup {Other})]
        /\ toClient' \in [Clients -> Seq(Units \cup {Other})]
        /\ client' \in [Clients -> {"idle", "typing", "reading", "gone"}]
    BY <1>3, <1>5
  <2> QED BY <2>1
<1>7. Placed(c)'
  <2>1. HandFree(c)'  BY DEF Placed, HandFree
  <2>2. Started(c)' /\ Queued(c)'  BY DEF Placed, Started, Queued
  <2>3. Owed(c)'
    <3>1. Owed(c)  BY DEF Placed
    <3>2. ~srvFin[c] /\ ~rst[c] => /\ Len(got[c]) + 1 >= sent[c]
                                   /\ Prog.whole => Len(got[c]) + 2 >= 2 * sent[c]
      BY <3>1 DEF Owed
    <3>3. client'[c] = "typing" /\ sent'[c] = sent[c]  OBVIOUS
    <3>4. ~srvFin[c] /\ ~rst[c] => /\ Len(got'[c]) >= sent[c]
                                   /\ Prog.whole => Len(got'[c]) >= 2 * sent[c]
      BY <1>1, <1>5, <3>2
    <3> QED BY <1>0, <3>3, <3>4 DEF Owed
  <2>4. ASSUME Prog.serves # "rounds" PROVE InOrder(c)'
    <3>1. Order(got[c], toClient[c], hand[c], toServer[c], sent[c],
                cltFin[c], srvFin[c] \/ rst[c])
      BY <2>4 DEF Placed, InOrder
    <3>2. Order(got[c] \o SubSeq(toClient[c], 1, n),
                SubSeq(toClient[c], n + 1, Len(toClient[c])), hand[c], toServer[c], sent[c],
                cltFin[c], srvFin[c] \/ rst[c])
      BY <1>1, <1>2, <3>1, OrderAnswers
    <3> QED BY <1>3, <3>2 DEF InOrder
  <2> QED BY <1>0, <2>1, <2>2, <2>3, <2>4 DEF Placed
<1> QED BY <1>6, <1>7, OneClient

\* Every step keeps the invariant.
LEMMA NextIInv == IInv /\ [Next]_vars => IInv'
<1> SUFFICES ASSUME IInv, [Next]_vars PROVE IInv'
  OBVIOUS
<1>1. CASE Bind \/ Restart \/ TimeWaitEnds  BY <1>1, ServerStarts
<1>2. ASSUME NEW c \in Clients, Accept(c) \/ ForkFails(c) \/ ParentCloses(c) \/ Serve(c)
      PROVE  IInv'
  BY <1>2, ServerStarts, ChildClosesKeeps, ParentClosesKeeps, ServerReads, ServerWrites,
     ServerEnds DEF Serve
<1>3. ASSUME NEW c \in Clients, Connect(c) \/ SendLine(c) \/ InputEnds(c) \/ ResetArrives(c)
      PROVE  IInv'
  BY <1>3, ClientComesAndGoes, ClientSends
<1>4. ASSUME NEW c \in Clients, Answered(c) PROVE IInv'
  <2>0. Len(toClient[c]) \in Nat  BY LenProperties DEF IInv, TypeOK
  <2>1. CASE AnswerRaw(c)
    <3>1. PICK n \in 1..2 :
            /\ n <= Len(toClient[c])
            /\ got' = [got EXCEPT ![c] = @ \o SubSeq(toClient[c], 1, n)]
            /\ toClient' = [toClient EXCEPT ![c] = SubSeq(@, n + 1, Len(@))]
      BY <2>1 DEF AnswerRaw
    <3> QED BY <2>1, <3>1, AnswersKeeps DEF AnswerRaw
  <2>2. CASE AnswerWhole(c)
    <3>1. /\ 2 <= Len(toClient[c]) /\ 2 \in 1..2
          /\ got' = [got EXCEPT ![c] = got[c] \o SubSeq(toClient[c], 1, 2)]
          /\ toClient' = [toClient EXCEPT ![c] = SubSeq(toClient[c], 2 + 1, Len(toClient[c]))]
      BY <2>0, <2>2 DEF AnswerWhole
    <3> QED BY <2>2, <3>1, AnswersKeeps DEF AnswerWhole
  <2>3. CASE AnswerEnd(c)  BY <2>3, ClientComesAndGoes
  <2> QED BY <1>4, <2>1, <2>2, <2>3 DEF Answered
<1>5. CASE UNCHANGED vars
  <2> USE <1>5 DEF vars, IInv, TypeOK, started, conns, held, bytes, user, tcp
  <2>1. TypeOK'  OBVIOUS
  <2>2. OneByOne' /\ CopyHeld'  BY DEF OneByOne, Busy, Prog, CopyHeld
  <2>3. \A d \in Clients : Placed(d)'  BY Untouched
  <2> QED BY <2>1, <2>2, <2>3
<1> QED BY <1>1, <1>2, <1>3, <1>4, <1>5 DEF Next

\* IInv holds in every state of every behaviour.
LEMMA SpecIInv == Spec => []IInv
BY InitIInv, NextIInv, PTL DEF Spec

-----------------------------------------------------------------------------
(* The theorems *)

\* The variables hold what they are meant to, and no server has more than one
\* line in hand.
THEOREM TypeOKHolds == Spec => []TypeOK
<1>1. IInv => TypeOK  BY DEF IInv
<1> QED BY <1>1, SpecIInv, PTL

\* What comes back to a client is a prefix of what it has sent, for every
\* program but tcp4, whatever the server's reads and the client's cut lines
\* into and whoever closes, restarts or is reset.
THEOREM EchoesItsLinesHolds == Spec => []EchoesItsLines
<1>1. ASSUME IInv, NEW c \in Clients, Prog.serves # "rounds"
      PROVE  IsPrefix(got[c] \o toClient[c], Lines(sent[c]))
  <2>1. Order(got[c], toClient[c], hand[c], toServer[c], sent[c],
              cltFin[c], srvFin[c] \/ rst[c])
    BY <1>1 DEF IInv, Placed, InOrder
  <2>2. /\ got[c] \in Seq(Units \cup {Other}) /\ toClient[c] \in Seq(Units \cup {Other})
        /\ sent[c] \in Nat /\ Len(got[c]) \in Nat
    BY <1>1, LenProperties DEF IInv, TypeOK
  <2>3. 0 \in Int /\ Len(got[c]) = 0 + Len(got[c])  BY <2>2
  <2>4. Run(got[c], 0) /\ Run(toClient[c], Len(got[c]))
        /\ Len(got[c]) + Len(toClient[c]) <= 2 * sent[c]
    BY <2>1 DEF Order
  <2>5. /\ got[c] \o toClient[c] \in Seq(Units \cup {Other})
        /\ Len(got[c] \o toClient[c]) = Len(got[c]) + Len(toClient[c])
        /\ Run(got[c] \o toClient[c], 0)
    BY <2>2, <2>3, <2>4, RunConcat
  <2> QED BY <2>2, <2>4, <2>5, RunIsPrefix
<1>2. IInv => EchoesItsLines  BY <1>1 DEF EchoesItsLines
<1> QED BY <1>2, SpecIInv, PTL

\* A client that types has all its answers if it puts lines together, and half
\* of each at least if it does not: what the loop of one read per line of the
\* raw programs makes of an answer that comes in two parts.
THEOREM InStepHolds == Spec => []InStep
<1>1. ASSUME IInv PROVE InStep
  <2>1. SUFFICES ASSUME NEW c \in Clients, client[c] = "typing", ~srvFin[c], ~rst[c]
                 PROVE  Len(got[c]) >= (IF Prog.whole THEN 2 ELSE 1) * sent[c]
    BY DEF InStep
  <2>2. Owed(c) /\ sent[c] \in Nat  BY <1>1 DEF IInv, Placed, TypeOK
  <2>3. CASE Prog.whole  BY <2>1, <2>2, <2>3 DEF Owed
  <2>4. CASE ~Prog.whole
    <3>1. 1 * sent[c] = sent[c]  BY <2>2
    <3> QED BY <2>1, <2>2, <2>4, <3>1 DEF Owed
  <2> QED BY <2>3, <2>4
<1> QED BY <1>1, SpecIInv, PTL

\* For any number of clients, rounds and restarts: a server that sets
\* SO_REUSEADDR is refused its port only while a child that was forked by one
\* that is gone still has to close the listening socket.
THEOREM BindsAgainHolds == Spec => BindsAgain
<1> DEFINE Step == refused' /\ ~refused =>
                     version = "tcp1" \/ \E c \in Clients : serves[c] = "forked"
<1>1. IInv /\ [Next]_vars => [Step]_vars
  <2> SUFFICES ASSUME IInv, Next PROVE Step
    OBVIOUS
  <2>1. CASE Bind
    <3>1. refused' /\ ~refused => PortTaken  BY <2>1 DEF Bind
    <3>2. version \in Versions /\ copies \in SUBSET Clients  BY DEF IInv, TypeOK
    <3>3. copies # {} => \E c \in Clients : serves[c] = "forked"
      BY <3>2 DEF IInv, CopyHeld
    <3> QED BY <3>1, <3>2, <3>3, ProgramFacts DEF PortTaken
  <2>2. CASE ~Bind
    <3>1. CASE Restart \/ TimeWaitEnds  BY <3>1 DEF Restart, TimeWaitEnds
    <3>2. ASSUME NEW c \in Clients,
                 Accept(c) \/ ForkFails(c) \/ ParentCloses(c) \/ Serve(c)
          PROVE  UNCHANGED refused
      BY <3>2 DEF Accept, ForkFails, ParentCloses, Serve, Fork, ChildCloses, ReadRaw, ReadWhole,
                  ReadEnd, ReadError, WriteBack, WritePipe, Leave, NextRound, started
    <3>3. ASSUME NEW c \in Clients,
                 \/ Connect(c) \/ SendLine(c) \/ InputEnds(c)
                 \/ Answered(c) \/ ResetArrives(c)
          PROVE  UNCHANGED refused
      BY <3>3 DEF Connect, SendLine, InputEnds, Answered, AnswerRaw, AnswerWhole, AnswerEnd,
                  ResetArrives, started
    <3> QED BY <2>2, <3>1, <3>2, <3>3 DEF Next
  <2> QED BY <2>1, <2>2
<1> QED BY <1>1, SpecIInv, PTL DEF Spec, BindsAgain

\* A server that does not fork serves one connection at a time, and tcp4 never
\* runs past its last round.
THEOREM OneByOneHolds == Spec => []OneByOne
<1>1. IInv => OneByOne  BY DEF IInv
<1> QED BY <1>1, SpecIInv, PTL
=============================================================================
