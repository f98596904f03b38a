---------------------------- MODULE Chat_proofs ----------------------------
(***************************************************************************)
(* The safety properties of Chat for any number of lines and of processes  *)
(* that are killed.  The inductive invariant says what each end may know   *)
(* of the other one, and where the lines are that its peer has written.    *)
(***************************************************************************)
EXTENDS Chat, TLAPS

-----------------------------------------------------------------------------
(* Ends and processes *)

\* The two ends and their four processes.
LEMMA EndFacts ==
  /\ \A e \in Ends : /\ Peer(e) \in Ends /\ Peer(e) # e /\ Peer(Peer(e)) = e
                     /\ Reader(e) \in Procs /\ Writer(e) \in Procs
                     /\ Parent(e) \in Procs /\ Child(e) \in Procs
                     /\ Parent(e) \in {Reader(e), Writer(e)}
                     /\ Child(e) \in {Reader(e), Writer(e)}
                     /\ Parent(e) # Child(e)
  /\ \A d, e \in Ends : /\ d = e \/ d = Peer(e)
                        /\ Reader(d) # Writer(e)
                        /\ Reader(d) = Reader(e) => d = e
                        /\ Writer(d) = Writer(e) => d = e
                        /\ Parent(d) # Child(e)
                        /\ Parent(d) = Parent(e) => d = e
                        /\ Child(d) = Child(e) => d = e
  /\ \A p \in Procs : \E e \in Ends : p[1] = e /\ (p = Parent(e) \/ p = Child(e))
<1> USE DEF Ends, Peer, Procs, Roles, Reader, Writer, Parent, Child
<1>1. \A e \in Ends : /\ Peer(e) \in Ends /\ Peer(e) # e /\ Peer(Peer(e)) = e
                      /\ Reader(e) \in Procs /\ Writer(e) \in Procs
  OBVIOUS
<1>2. \A e \in Ends : /\ Parent(e) \in Procs /\ Child(e) \in Procs
                      /\ Parent(e) \in {Reader(e), Writer(e)}
                      /\ Child(e) \in {Reader(e), Writer(e)}
                      /\ Parent(e) # Child(e)
  OBVIOUS
<1>3. \A d, e \in Ends : /\ d = e \/ d = Peer(e)
                         /\ Reader(d) # Writer(e)
                         /\ Reader(d) = Reader(e) => d = e
                         /\ Writer(d) = Writer(e) => d = e
  OBVIOUS
<1>4. \A d, e \in Ends : /\ Parent(d) # Child(e)
                         /\ Parent(d) = Parent(e) => d = e
                         /\ Child(d) = Child(e) => d = e
  OBVIOUS
<1>5. ASSUME NEW p \in Procs
      PROVE  \E e \in Ends : p[1] = e /\ (p = Parent(e) \/ p = Child(e))
  <2>1. PICK e \in Ends, r \in Roles : p = <<e, r>>  OBVIOUS
  <2> QED BY <2>1
<1> QED BY <1>1, <1>2, <1>3, <1>4, <1>5

\* Who forks at which end.
LEMMA ParentFacts ==
  /\ "server" \in Ends /\ "client" \in Ends
  /\ \A e \in Ends : e = "server" \/ e = "client"
  /\ Parent("server") = Reader("server") /\ Child("server") = Writer("server")
  /\ Parent("client") = Writer("client") /\ Child("client") = Reader("client")
BY DEF Ends, Parent, Child

\* An end is open while one of its two processes holds the connection, or while
\* the server has not yet accepted it.
LEMMA OpenFacts ==
  ASSUME NEW x, NEW e \in Ends
  PROVE  OpenIn(x, e) <=> \/ x[Reader(e)] \in Holding \/ x[Writer(e)] \in Holding
                          \/ e = "server" /\ linked /\ x[Reader(e)] = "listening"
BY DEF OpenIn, Roles, Reader, Writer

\* What distinguishes the versions.
LEMMA ProgramFacts ==
  ASSUME version \in Versions, NEW e \in Ends
  PROVE  /\ version \in {"tcp5", "tcp6"} => Prog(e).minus = "exit"
         /\ version # "tcp9" => "SIGPIPE" \notin Prog(e).signals
<1>1. version \in {"tcp5", "tcp6", "tcp7", "tcp8", "tcp9"}
  BY ChatAssumption
<1>2. e = "server" \/ e = "client"
  BY DEF Ends
<1> DEFINE Sound(v, p) == /\ v \in {"tcp5", "tcp6"} => p.minus = "exit"
                          /\ v # "tcp9" => "SIGPIPE" \notin p.signals
<1>3. CASE version = "tcp5"
  <2>1. Programs["tcp5"] = [server |-> Tcp5Server, client |-> Tcp5Client]  BY DEF Programs
  <2>2. Prog(e) \in {Tcp5Server, Tcp5Client}  BY <1>2, <1>3, <2>1 DEF Prog
  <2>3. Sound("tcp5", Tcp5Server) /\ Sound("tcp5", Tcp5Client)
    BY DEF Program, Tcp5Server, Tcp5Client
  <2> QED BY <1>3, <2>2, <2>3
<1>4. CASE version = "tcp6"
  <2>1. Programs["tcp6"] = [server |-> Tcp6Server, client |-> Tcp6Client]  BY DEF Programs
  <2>2. Prog(e) \in {Tcp6Server, Tcp6Client}  BY <1>2, <1>4, <2>1 DEF Prog
  <2>3. Sound("tcp6", Tcp6Server) /\ Sound("tcp6", Tcp6Client)
    BY DEF Program, Tcp6Server, Tcp6Client
  <2> QED BY <1>4, <2>2, <2>3
<1>5. CASE version = "tcp7"
  <2>1. Programs["tcp7"] = [server |-> Tcp7Server, client |-> Tcp7Client]  BY DEF Programs
  <2>2. Prog(e) \in {Tcp7Server, Tcp7Client}  BY <1>2, <1>5, <2>1 DEF Prog
  <2>3. Sound("tcp7", Tcp7Server) /\ Sound("tcp7", Tcp7Client)
    BY DEF Program, Tcp7Server, Tcp7Client
  <2> QED BY <1>5, <2>2, <2>3
<1>6. CASE version = "tcp8"
  <2>1. Programs["tcp8"] = [server |-> Tcp8Server, client |-> Tcp8Client]  BY DEF Programs
  <2>2. Prog(e) \in {Tcp8Server, Tcp8Client}  BY <1>2, <1>6, <2>1 DEF Prog
  <2>3. Sound("tcp8", Tcp8Server) /\ Sound("tcp8", Tcp8Client)
    BY DEF Program, Tcp8Server, Tcp8Client
  <2> QED BY <1>6, <2>2, <2>3
<1>7. CASE version = "tcp9"
  <2>1. Programs["tcp9"] = [server |-> Tcp9Server, client |-> Tcp9Client]  BY DEF Programs
  <2>2. Prog(e) \in {Tcp9Server, Tcp9Client}  BY <1>2, <1>7, <2>1 DEF Prog
  <2>3. Sound("tcp9", Tcp9Server) /\ Sound("tcp9", Tcp9Client)
    BY DEF Program, Tcp9Server, Tcp9Client
  <2> QED BY <1>7, <2>2, <2>3
<1> QED BY <1>1, <1>3, <1>4, <1>5, <1>6, <1>7

-----------------------------------------------------------------------------
(* The invariant *)

\* Nothing has happened to an end before the connection is made.
Blank(e) ==
    /\ inbox[e] = 0 /\ seen[e] = 0 /\ wrote[e] = 0 /\ futile[e] = 0
    /\ heard[e] = "lines"
    /\ ~fin[e] /\ ~rst[e] /\ ~err[e] /\ ~doomed[e]

Begun ==
    /\ linked => pc[Reader("server")] # "boot" /\ pc[Writer("client")] # "boot"
    /\ ~linked => /\ \A p \in Procs : pc[p] \notin Holding
                  /\ \A e \in Ends : Blank(e)

\* An end hears of the end of the connection, or has a reset on its way, only
\* when nobody holds the other side any more.
PeerClosed(e) == fin[e] \/ rst[e] \/ err[e] \/ doomed[e] => ~Open(Peer(e))

\* The other side closed with a FIN or with a reset that is still to be told.
OneEnding(e) == ~(fin[e] /\ err[e])

\* A parent is there from the start, alone until it forks, and a child that
\* ends is a zombie until its parent has ended.
Young == {"boot", "listening", "accepted", "connected"}

Family(parent, child) ==
    /\ parent \notin {"unborn", "zombie"}
    /\ parent \in Young => child = "unborn"
    /\ child = "gone" => parent = "gone"

Parents(e) == Family(pc[Parent(e)], pc[Child(e)])

\* Every line that was typed is written once at most.
Counted(e) ==
    wrote[e] + futile[e] + (IF pc[Writer(e)] = "writing" THEN 1 ELSE 0) <= typed[e]

\* The lines written by the peer of an open end have been read, or lie there,
\* unless there was a reset whose error is still to be told, or went to one of
\* the two processes.
Accounted(e) ==
    /\ seen[e] + inbox[e] <= wrote[Peer(e)]
    /\ Open(e) => \/ seen[e] + inbox[e] = wrote[Peer(e)]
                  \/ err[e] \/ stolen[e] \/ heard[e] = "error"

\* A reader told of an error ends; one told 0 has nothing more to read.
Heard(e) ==
    /\ heard[e] = "error" => pc[Reader(e)] \in Over
    /\ heard[e] = "zero" => inbox[e] = 0 /\ ~Open(Peer(e))

\* The error of a reset, and with it the one line written in vain, comes once.
Once(e) ==
    /\ version \in {"tcp5", "tcp6"} => futile[e] = 0
    /\ version \in {"tcp7", "tcp8"} =>
         /\ futile[e] + (IF err[e] THEN 1 ELSE 0) <= 1
         /\ Open(Peer(e)) => futile[e] = 0

Told(e) == heard[e] = "zero" /\ ~stolen[e] => seen[e] = wrote[Peer(e)]
Home(e) == strayed[e] => e = "client" /\ ~Alive(Writer(e))

Sane(e) ==
    /\ PeerClosed(e) /\ OneEnding(e) /\ Parents(e) /\ Counted(e) /\ Accounted(e)
    /\ Heard(e) /\ Once(e) /\ Told(e) /\ Home(e)

IInv == TypeOK /\ Begun /\ \A e \in Ends : Sane(e)

-----------------------------------------------------------------------------
(* What a step may do to the processes *)

\* In the state x of the processes nobody has taken up anything new.
Quieter(x) ==
    /\ x \in [Procs -> States]
    /\ \A p \in Procs : /\ x[p] \in Holding => pc[p] \in Holding
                        /\ x[p] = "listening" => pc[p] = "listening"
                        /\ x[p] = "boot" => pc[p] = "boot"
                        /\ x[p] = "writing" => pc[p] = "writing"
                        /\ pc[p] \in Over => x[p] \in Over
    /\ \A e \in Ends : Family(x[Parent(e)], x[Child(e)])

\* What the invariant needs to know of a step of the processes.
Calm ==
    /\ pc' \in [Procs -> States] /\ linked' = linked
    /\ \A e \in Ends : Open(e)' => Open(e)
    /\ linked => pc'[Reader("server")] # "boot" /\ pc'[Writer("client")] # "boot"
    /\ ~linked => \A p \in Procs : pc'[p] \notin Holding
    /\ \A e \in Ends : Parents(e)'
    /\ \A p \in Procs : pc[p] \in Over => pc'[p] \in Over
    /\ \A e \in Ends : pc'[Writer(e)] = "writing" => pc[Writer(e)] = "writing"

\* Growing quieter is calm.
LEMMA QuieterIsCalm ==
  ASSUME IInv, linked' = linked, Quieter(pc')
  PROVE  Calm
<1>1. \A e \in Ends : Open(e)' => Open(e)
  <2>1. \A e \in Ends : Open(e) <=> \/ pc[Reader(e)] \in Holding \/ pc[Writer(e)] \in Holding
                                    \/ e = "server" /\ linked /\ pc[Reader(e)] = "listening"
    BY OpenFacts DEF Open
  <2>2. \A e \in Ends : Open(e)' <=> \/ pc'[Reader(e)] \in Holding \/ pc'[Writer(e)] \in Holding
                                     \/ e = "server" /\ linked' /\ pc'[Reader(e)] = "listening"
    BY DEF Open, OpenIn, Roles, Reader, Writer
  <2> QED BY <2>1, <2>2, EndFacts DEF Quieter
<1> QED BY <1>1, EndFacts, ParentFacts DEF Quieter, Calm, Parents, IInv, Begun

\* The end of processes, with what becomes of their zombies.
LEMMA EndingIsQuieter ==
  ASSUME TypeOK, \A e \in Ends : Parents(e), NEW S \in SUBSET Procs,
         \A p \in S : pc[p] # "unborn"
  PROVE  Quieter(Ending(S))
<1> DEFINE x == Ending(S)
<1>1. ASSUME NEW p \in Procs
      PROVE  /\ x[p] = pc[p] \/ (x[p] \in Over /\ (p \in S \/ pc[p] = "zombie"))
             /\ pc[p] \in Over => x[p] \in Over
  BY DEF Ending, Over
<1>2. ASSUME NEW e \in Ends
      PROVE  /\ x[Parent(e)] \in {pc[Parent(e)], "gone"}
             /\ pc[Parent(e)] = "gone" \/ Parent(e) \in S => x[Parent(e)] = "gone"
  <2>1. Parent(e)[1] = e /\ Parent(e) \in Procs /\ Parent(e) # Child(e)
    BY EndFacts DEF Parent, Reader, Writer
  <2>2. pc[Parent(e)] # "zombie"  BY DEF Parents, Family
  <2> QED BY <2>1, <2>2 DEF Ending
<1>3. ASSUME NEW e \in Ends, x[Child(e)] = "gone"
      PROVE  x[Parent(e)] = "gone"
  <2>1. Child(e)[1] = e /\ Child(e) \in Procs
    BY EndFacts DEF Child, Reader, Writer
  <2>2. pc[Child(e)] = "gone" \/ Parent(e) \in S \/ pc[Parent(e)] = "gone"
    BY <1>3, <2>1 DEF Ending
  <2> QED BY <1>2, <2>2 DEF Parents, Family
<1>4. x \in [Procs -> States]
  <2>1. \A p \in Procs : x[p] \in States  BY <1>1 DEF TypeOK, States
  <2>2. x = [p \in Procs |-> x[p]]  BY DEF Ending
  <2> HIDE DEF x
  <2> QED BY <2>1, <2>2
<1> HIDE DEF x
<1>5. ASSUME NEW e \in Ends PROVE Family(x[Parent(e)], x[Child(e)])
  <2>1. x[Parent(e)] \notin {"unborn", "zombie"}  BY <1>2 DEF Parents, Family
  <2>2. ASSUME x[Parent(e)] \in Young PROVE x[Child(e)] = "unborn"
    <3>1. x[Parent(e)] = pc[Parent(e)]  BY <1>2, <2>2 DEF Young
    <3>2. pc[Child(e)] = "unborn" /\ Child(e) \in Procs
      BY <2>2, <3>1, EndFacts DEF Parents, Family
    <3> QED BY <1>1, <3>2
  <2> QED BY <1>3, <2>1, <2>2 DEF Family
<1>6. \A p \in Procs : /\ x[p] \in Holding => pc[p] \in Holding
                       /\ x[p] = "listening" => pc[p] = "listening"
                       /\ x[p] = "boot" => pc[p] = "boot"
                       /\ x[p] = "writing" => pc[p] = "writing"
                       /\ pc[p] \in Over => x[p] \in Over
  BY <1>1 DEF Over, Holding
<1>7. Quieter(x)  BY <1>4, <1>5, <1>6 DEF Quieter
<1> QED BY <1>7 DEF x

\* One process that serves a connection goes on, without writing another line.
LEMMA GoingIsQuieter ==
  ASSUME TypeOK, \A e \in Ends : Parents(e), NEW p \in Procs,
         NEW s \in {"reading", "ended", "signal", "typing"},
         pc[p] \in {"reading", "ended", "typing", "writing"}
  PROVE  Quieter([pc EXCEPT ![p] = s])
<1> DEFINE x == [pc EXCEPT ![p] = s]
<1>1. x \in [Procs -> States] /\ \A q \in Procs : x[q] = IF q = p THEN s ELSE pc[q]
  BY DEF TypeOK, States, Holding
<1> HIDE DEF x
<1>2. pc[p] \in Holding /\ pc[p] \notin Over /\ s \notin {"listening", "boot", "writing"}
  BY DEF Holding, Over
<1>3. ASSUME NEW e \in Ends PROVE Family(x[Parent(e)], x[Child(e)])
  <2>1. Family(pc[Parent(e)], pc[Child(e)]) /\ Parent(e) \in Procs /\ Child(e) \in Procs
        /\ Parent(e) # Child(e)
    BY EndFacts DEF Parents
  <2> QED BY <1>1, <2>1 DEF Family, Young
<1>4. Quieter(x)  BY <1>1, <1>2, <1>3 DEF Quieter
<1> QED BY <1>4 DEF x

-----------------------------------------------------------------------------
(* What a step may do to an end *)

\* Nothing has changed at d but its processes.
Same(d) ==
    /\ inbox'[d] = inbox[d] /\ fin'[d] = fin[d] /\ rst'[d] = rst[d] /\ err'[d] = err[d]
    /\ doomed'[d] = doomed[d] /\ typed'[d] = typed[d] /\ wrote'[d] = wrote[d]
    /\ seen'[d] = seen[d] /\ heard'[d] = heard[d] /\ stolen'[d] = stolen[d]
    /\ futile'[d] = futile[d] /\ strayed'[d] = strayed[d]

\* A process that is over does not come back.
LEMMA HomeStays ==
  ASSUME IInv, Calm, NEW d \in Ends, strayed'[d] => strayed[d]
  PROVE  Home(d)'
<1>1. ASSUME strayed'[d]
      PROVE  d = "client" /\ ~Alive(Writer(d))'
  <2>1. d = "client" /\ pc[Writer(d)] \in Over \cup {"unborn"}
    BY <1>1 DEF IInv, Sane, Home, Alive
  <2>2. pc[Writer(d)] \in Over
    BY <2>1, ParentFacts DEF IInv, Sane, Parents, Family
  <2>3. pc'[Writer(d)] \in Over  BY <2>2, EndFacts DEF Calm
  <2> QED BY <2>1, <2>3 DEF Alive
<1> QED BY <1>1 DEF Home

\* The invariant of an end survives what happens to the processes alone.
LEMMA SameKeeps ==
  ASSUME IInv, Calm, NEW d \in Ends, Same(d), wrote'[Peer(d)] = wrote[Peer(d)],
         version' = version
  PROVE  Sane(d)'
<1>0. Sane(d) /\ Peer(d) \in Ends /\ Reader(d) \in Procs /\ Writer(d) \in Procs
  BY EndFacts DEF IInv
<1>1. PeerClosed(d)' /\ OneEnding(d)' /\ Parents(d)'
  BY <1>0 DEF Sane, PeerClosed, OneEnding, Calm, Same
<1>2. Counted(d)'
  <2>1. /\ typed[d] \in Nat /\ wrote[d] \in Nat /\ futile[d] \in Nat
    BY ChatAssumption DEF IInv, TypeOK
  <2>2. pc'[Writer(d)] = "writing" => pc[Writer(d)] = "writing"  BY DEF Calm
  <2> QED BY <1>0, <2>1, <2>2 DEF Sane, Counted, Same
<1>3. Accounted(d)'
  BY <1>0 DEF Sane, Accounted, Calm, Same
<1>4. Heard(d)' /\ Once(d)' /\ Told(d)'
  BY <1>0 DEF Sane, Heard, Once, Told, Calm, Same
<1>5. Home(d)'  BY HomeStays DEF Same
<1> QED BY <1>1, <1>2, <1>3, <1>4, <1>5 DEF Sane

\* The step makes an end hear 0 only as ReadZero does.
Hears ==
    /\ heard' \in [Ends -> {"lines", "zero", "error"}]
    /\ \A e \in Ends : \/ heard'[e] = heard[e]
                       \/ heard'[e] = "zero" /\ AtEnd(e) /\ ~AtError(e)

\* A reader that is told 0 has everything, or its writer had the error.
LEMMA ZeroSaysAll ==
  ASSUME IInv, NEW e \in Ends, AtEnd(e), ~AtError(e)
  PROVE  /\ inbox[e] = 0 /\ ~Open(Peer(e)) /\ ~err[e] /\ heard[e] # "error"
         /\ ~stolen[e] => seen[e] = wrote[Peer(e)]
<1>1. pc[Reader(e)] = "reading" /\ inbox[e] = 0 /\ (fin[e] \/ rst[e]) /\ (err[e] => fin[e])
  BY DEF AtEnd, AtError
<1>2. ~Open(Peer(e)) /\ ~err[e]
  BY <1>1 DEF IInv, Sane, PeerClosed, OneEnding
<1>3. Open(e)  BY <1>1, OpenFacts DEF Open, Holding
<1>4. heard[e] # "error"  BY <1>1 DEF IInv, Sane, Heard, Over
<1>5. ~stolen[e] => seen[e] = wrote[Peer(e)]
  <2>1. Accounted(e) /\ seen[e] \in Nat  BY DEF IInv, Sane, TypeOK
  <2> QED BY <1>1, <1>2, <1>3, <1>4, <2>1 DEF Accounted
<1> QED BY <1>1, <1>2, <1>4, <1>5

\* The processes become x: what an end learns of it when the other one closes.
LEMMA BecomesKeeps ==
  ASSUME IInv, NEW x, Quieter(x), Becomes(x), Hears,
         usr1' \in [Ends -> BOOLEAN], killed' \in SUBSET Procs,
         UNCHANGED <<version, typed, wrote, seen, stolen, futile, strayed>>
  PROVE  IInv'
<1> DEFINE closing == {e \in Ends : Open(e) /\ ~OpenIn(x, e) /\ ~rst[e]}
           abrupt  == {e \in closing : inbox[e] > 0 \/ pc[Reader(e)] = "listening"}
<1>1. /\ pc' = x /\ linked' = linked /\ doomed' = doomed
      /\ fin' = [e \in Ends |-> fin[e] \/ Peer(e) \in closing \ abrupt]
      /\ rst' = [e \in Ends |-> rst[e] \/ Peer(e) \in abrupt]
      /\ err' = [e \in Ends |-> err[e] \/ Peer(e) \in abrupt]
      /\ \E n \in [Ends -> 0..MaxLines] :
            /\ \A e \in Ends : n[e] = inbox[e] \/ (Peer(e) \in abrupt /\ n[e] < inbox[e])
            /\ inbox' = n
  BY DEF Becomes
<1>2. Quieter(pc')  BY <1>1
<1>3. Calm  BY <1>1, <1>2, QuieterIsCalm
<1>4. /\ inbox' \in [Ends -> 0..MaxLines]
      /\ \A e \in Ends : inbox'[e] = inbox[e] \/ (Peer(e) \in abrupt /\ inbox'[e] < inbox[e])
  BY <1>1
<1>5. \A e \in Ends : e \in closing => Open(e) /\ ~Open(e)'
  BY <1>1 DEF Open, OpenIn
<1>6. /\ \A e \in Ends : e \in abrupt => e \in closing
      /\ \A e \in Ends : e \in closing \ abrupt => e \in closing /\ e \notin abrupt
  OBVIOUS
<1> HIDE DEF closing, abrupt
<1>7. TypeOK'
  <2>1. /\ pc' \in [Procs -> States] /\ inbox' \in [Ends -> 0..MaxLines]
        /\ heard' \in [Ends -> {"lines", "zero", "error"}]
    BY <1>3, <1>4 DEF Calm, Hears
  <2>2. /\ fin' \in [Ends -> BOOLEAN] /\ rst' \in [Ends -> BOOLEAN] /\ err' \in [Ends -> BOOLEAN]
    BY <1>1 DEF IInv, TypeOK
  <2> QED BY <1>1, <2>1, <2>2 DEF IInv, TypeOK
<1>8. Begun'
  <2>1. CASE linked  BY <1>1, <1>3, <2>1 DEF Calm, Begun
  <2>2. CASE ~linked
    <3>1. \A e \in Ends : ~Open(e)
      BY <2>2, OpenFacts, EndFacts DEF Open, IInv, Begun
    <3>2. \A e \in Ends : Peer(e) \notin abrupt /\ Peer(e) \notin closing \ abrupt
      BY <1>5, <1>6, <3>1, EndFacts
    <3>3. \A e \in Ends : Blank(e)  BY <2>2 DEF IInv, Begun
    <3>4. \A e \in Ends : heard'[e] = "lines"
      <4>1. \A e \in Ends : ~AtEnd(e)
        BY <2>2, EndFacts DEF AtEnd, IInv, Begun, Holding
      <4> QED BY <3>3, <4>1 DEF Hears, Blank
    <3>5. \A e \in Ends : Blank(e)'
      BY <1>1, <1>4, <3>2, <3>3, <3>4 DEF Blank
    <3> QED BY <1>1, <1>3, <2>2, <3>5 DEF Calm, Begun
  <2> QED BY <2>1, <2>2
<1>9. ASSUME NEW d \in Ends PROVE Sane(d)'
  <2>0. /\ Sane(d) /\ Peer(d) \in Ends /\ Peer(Peer(d)) = d
        /\ Reader(d) \in Procs /\ Writer(d) \in Procs
    BY EndFacts DEF IInv
  <2>1. /\ inbox[d] \in Nat /\ inbox'[d] \in Nat /\ seen[d] \in Nat /\ typed[d] \in Nat
        /\ wrote[d] \in Nat /\ wrote[Peer(d)] \in Nat /\ futile[d] \in Nat
        /\ fin[d] \in BOOLEAN /\ rst[d] \in BOOLEAN /\ err[d] \in BOOLEAN
    BY <1>4, <2>0 DEF IInv, TypeOK
  <2>2. \/ /\ fin'[d] = fin[d] /\ rst'[d] = rst[d] /\ err'[d] = err[d] /\ inbox'[d] = inbox[d]
        \/ /\ Open(Peer(d)) /\ ~Open(Peer(d))'
           /\ \/ fin'[d] /\ rst'[d] = rst[d] /\ err'[d] = err[d] /\ inbox'[d] = inbox[d]
              \/ fin'[d] = fin[d] /\ rst'[d] /\ err'[d] /\ inbox'[d] <= inbox[d]
    <3>1. /\ fin'[d] = (fin[d] \/ Peer(d) \in closing \ abrupt)
          /\ rst'[d] = (rst[d] \/ Peer(d) \in abrupt)
          /\ err'[d] = (err[d] \/ Peer(d) \in abrupt)
      BY <1>1
    <3>2. CASE Peer(d) \in abrupt
      <4>1. Peer(d) \in closing /\ Peer(d) \notin closing \ abrupt  BY <1>6, <2>0, <3>2
      <4>2. Open(Peer(d)) /\ ~Open(Peer(d))'  BY <1>5, <2>0, <4>1
      <4>3. fin'[d] = fin[d] /\ rst'[d] /\ err'[d]  BY <2>1, <3>1, <3>2, <4>1
      <4>4. inbox'[d] <= inbox[d]  BY <1>4, <2>1
      <4> QED BY <4>2, <4>3, <4>4
    <3>3. CASE Peer(d) \in closing \ abrupt
      <4>1. Peer(d) \in closing /\ Peer(d) \notin abrupt  BY <3>3
      <4>2. Open(Peer(d)) /\ ~Open(Peer(d))'  BY <1>5, <2>0, <4>1
      <4>3. fin'[d] /\ rst'[d] = rst[d] /\ err'[d] = err[d]  BY <2>1, <3>1, <3>3, <4>1
      <4>4. inbox'[d] = inbox[d]  BY <1>4, <4>1
      <4> QED BY <4>2, <4>3, <4>4
    <3>4. CASE Peer(d) \notin abrupt /\ Peer(d) \notin closing \ abrupt
      <4>1. fin'[d] = fin[d] /\ rst'[d] = rst[d] /\ err'[d] = err[d]  BY <2>1, <3>1, <3>4
      <4>2. inbox'[d] = inbox[d]  BY <1>4, <3>4
      <4> QED BY <4>1, <4>2
    <3> QED BY <3>2, <3>3, <3>4
  <2>3. Open(Peer(d)) => ~fin[d] /\ ~rst[d] /\ ~err[d] /\ ~doomed[d]
    BY <2>0 DEF Sane, PeerClosed
  <2>4. (Open(d)' => Open(d)) /\ (Open(Peer(d))' => Open(Peer(d)))
    BY <1>3, <2>0 DEF Calm
  <2>5. PeerClosed(d)' /\ OneEnding(d)' /\ Parents(d)'
    BY <1>1, <1>3, <2>0, <2>2, <2>3, <2>4 DEF Sane, PeerClosed, OneEnding, Calm
  <2>6. Counted(d)'
    <3>1. pc'[Writer(d)] = "writing" => pc[Writer(d)] = "writing"  BY <1>3 DEF Calm
    <3> QED BY <2>0, <2>1, <3>1 DEF Sane, Counted
  <2>7. \/ heard'[d] = heard[d]
        \/ /\ heard'[d] = "zero" /\ inbox[d] = 0 /\ ~Open(Peer(d)) /\ ~err[d]
           /\ heard[d] # "error" /\ (~stolen[d] => seen[d] = wrote[Peer(d)])
    BY ZeroSaysAll DEF Hears
  <2>8. Accounted(d)'
    BY <2>0, <2>1, <2>2, <2>4, <2>7 DEF Sane, Accounted
  <2>9. Heard(d)' /\ Told(d)'
    <3>1. pc[Reader(d)] \in Over => pc'[Reader(d)] \in Over  BY <1>3, <2>0 DEF Calm
    <3> QED BY <2>0, <2>1, <2>2, <2>4, <2>7, <3>1 DEF Sane, Heard, Told
  <2>10. Once(d)'
    BY <2>0, <2>1, <2>2, <2>3, <2>4 DEF Sane, Once
  <2>11. Home(d)'  BY <1>3, HomeStays
  <2> QED BY <2>5, <2>6, <2>8, <2>9, <2>10, <2>11 DEF Sane
<1> QED BY <1>7, <1>8, <1>9 DEF IInv

\* The parts of the invariant that a step has kept make up the whole; the
\* bounds of the counters follow from the counts.
LEMMA Assembled ==
  ASSUME IInv, Calm, UNCHANGED version, linked \/ \A e \in Ends : Blank(e)',
         \A e \in Ends : Sane(e)',
         inbox' \in [Ends -> Nat], wrote' \in [Ends -> Nat], seen' \in [Ends -> Nat],
         futile' \in [Ends -> Nat], typed' \in [Ends -> 0..MaxLines],
         fin' \in [Ends -> BOOLEAN], rst' \in [Ends -> BOOLEAN], err' \in [Ends -> BOOLEAN],
         doomed' \in [Ends -> BOOLEAN], usr1' \in [Ends -> BOOLEAN],
         heard' \in [Ends -> {"lines", "zero", "error"}], stolen' \in [Ends -> BOOLEAN],
         strayed' \in [Ends -> BOOLEAN], killed' \in SUBSET Procs
  PROVE  IInv'
<1>1. \A d \in Ends : Peer(d) \in Ends  BY EndFacts
<1>2. \A d \in Ends : /\ wrote'[d] \in 0..MaxLines /\ futile'[d] \in 0..MaxLines
                      /\ seen'[d] \in 0..MaxLines /\ inbox'[d] \in 0..MaxLines
  <2>1. ASSUME NEW d \in Ends
        PROVE  /\ wrote'[d] + futile'[d] <= typed'[d]
               /\ seen'[d] + inbox'[d] <= wrote'[Peer(d)]
    <3>1. Counted(d)' /\ Accounted(d)'  BY DEF Sane
    <3>2. wrote'[d] \in Nat /\ futile'[d] \in Nat /\ typed'[d] \in Nat  BY ChatAssumption
    <3>3. wrote'[d] + futile'[d] <= typed'[d]  BY <3>1, <3>2 DEF Counted
    <3> QED BY <3>1, <3>3 DEF Accounted
  <2> QED BY <1>1, <2>1, ChatAssumption
<1>3. TypeOK'
  <2>1. /\ inbox' \in [Ends -> 0..MaxLines] /\ wrote' \in [Ends -> 0..MaxLines]
        /\ seen' \in [Ends -> 0..MaxLines] /\ futile' \in [Ends -> 0..MaxLines]
    BY <1>2
  <2>2. version' \in Versions /\ pc' \in [Procs -> States] /\ linked' \in BOOLEAN
    BY DEF Calm, IInv, TypeOK
  <2> QED BY <2>1, <2>2 DEF TypeOK
<1>4. Begun'  BY DEF Begun, Calm
<1> QED BY <1>3, <1>4 DEF IInv

-----------------------------------------------------------------------------
(* The steps *)

\* Everything is blank, and nobody holds anything.
LEMMA InitIInv == Init => IInv
<1> SUFFICES ASSUME Init PROVE IInv
  OBVIOUS
<1>1. /\ \A e \in Ends : pc[Parent(e)] = "boot" /\ pc[Child(e)] = "unborn"
      /\ \A p \in Procs : pc[p] \in {"boot", "unborn"}
  <2>1. \A e \in Ends : Parent(e) \in Procs /\ Child(e) \in Procs
                        /\ Child(e) \notin {Parent(d) : d \in Ends}
    BY EndFacts
  <2> QED BY <2>1 DEF Init
<1>2. TypeOK
  <2>1. pc \in [Procs -> States]  BY DEF Init, States
  <2>2. 0 \in 0..MaxLines  BY ChatAssumption
  <2> QED BY <2>1, <2>2 DEF Init, TypeOK
<1>3. Begun  BY <1>1 DEF Init, Begun, Blank, Holding
<1>4. ASSUME NEW e \in Ends PROVE Sane(e)
  <2>1. PeerClosed(e) /\ OneEnding(e) /\ Heard(e) /\ Once(e) /\ Told(e) /\ Home(e)
    BY DEF Init, PeerClosed, OneEnding, Heard, Once, Told, Home
  <2>2. Parents(e)  BY <1>1 DEF Parents, Family
  <2>3. pc[Writer(e)] # "writing" /\ Peer(e) \in Ends  BY <1>1, EndFacts
  <2>4. Counted(e) /\ Accounted(e)  BY <2>3 DEF Init, Counted, Accounted
  <2> QED BY <2>1, <2>2, <2>4 DEF Sane
<1> QED BY <1>2, <1>3, <1>4 DEF IInv

\* Steps of one process that touch nothing else.
LEMMA ProcessSteps ==
  ASSUME IInv, Calm, UNCHANGED <<version, tcp, usr1, typed, ghost>>
  PROVE  IInv'
<1>1. \A e \in Ends : Same(e) /\ Peer(e) \in Ends
  BY EndFacts DEF Same, tcp, ghost
<1>2. \A e \in Ends : Sane(e)'
  BY <1>1, SameKeeps DEF tcp, ghost
<1>3. linked \/ \A e \in Ends : Blank(e)'
  BY DEF IInv, Begun, Blank, tcp, ghost
<1> QED BY <1>2, <1>3, Assembled, ChatAssumption DEF IInv, TypeOK, tcp, ghost

\* A parent that has not forked yet takes its next step towards it, or ends.
LEMMA YoungIsCalm ==
  ASSUME IInv, NEW e \in Ends, pc[Parent(e)] \in Young, linked' = linked,
         NEW s \in {"listening", "accepted", "gone"}, pc' = [pc EXCEPT ![Parent(e)] = s],
         s = "listening" => ~linked,
         s = "accepted" => linked /\ e = "server" /\ pc[Parent(e)] = "listening"
  PROVE  Calm
<1>0. /\ pc \in [Procs -> States] /\ s \in States /\ Parent(e) \in Procs /\ Begun
      /\ \A d \in Ends : Family(pc[Parent(d)], pc[Child(d)])
      /\ Parent("server") = Reader("server") /\ Parent("client") = Writer("client")
  BY EndFacts, ParentFacts DEF IInv, TypeOK, Sane, Parents, States, Holding, Over
<1>1. \A q \in Procs : pc'[q] = IF q = Parent(e) THEN s ELSE pc[q]
  BY <1>0
<1>2. pc[Child(e)] = "unborn"  BY <1>0 DEF Family
<1>3. ASSUME NEW d \in Ends
      PROVE  /\ pc'[Child(d)] = pc[Child(d)]
             /\ pc'[Parent(d)] = IF d = e THEN s ELSE pc[Parent(d)]
  <2>1. Child(d) \in Procs /\ Parent(d) \in Procs /\ Child(d) # Parent(e)
        /\ (Parent(d) = Parent(e) => d = e)
    BY EndFacts
  <2> QED BY <1>1, <2>1
<1>4. \A d \in Ends : Parents(d)'
  BY <1>0, <1>2, <1>3 DEF Parents, Family, Young
<1>5. ASSUME NEW d \in Ends, Open(d)' PROVE Open(d)
  <2>1. \/ pc'[Parent(d)] \in Holding \/ pc'[Child(d)] \in Holding
        \/ d = "server" /\ linked /\ pc'[Parent(d)] = "listening"
    BY <1>0, <1>5 DEF Open, OpenIn, Roles, Reader, Writer, Parent, Child
  <2>2. CASE d = e
    <3>1. s = "accepted" \/ (s = "listening" /\ linked)
      BY <1>2, <1>3, <2>1, <2>2 DEF Holding
    <3>2. d = "server" /\ linked /\ pc[Reader(d)] = "listening"  BY <1>0, <2>2, <3>1
    <3> QED BY <3>2, OpenFacts DEF Open
  <2>3. CASE d # e
    <3>1. \/ pc[Parent(d)] \in Holding \/ pc[Child(d)] \in Holding
          \/ d = "server" /\ linked /\ pc[Parent(d)] = "listening"
      BY <1>3, <2>1, <2>3
    <3> QED BY <1>0, <3>1, EndFacts, OpenFacts DEF Open
  <2> QED BY <2>2, <2>3
<1>6. /\ linked => pc'[Reader("server")] # "boot" /\ pc'[Writer("client")] # "boot"
      /\ ~linked => \A p \in Procs : pc'[p] \notin Holding
  <2>1. Reader("server") \in Procs /\ Writer("client") \in Procs  BY EndFacts, ParentFacts
  <2> QED BY <1>0, <1>1, <2>1 DEF Begun, Holding
<1>7. /\ \A p \in Procs : pc[p] \in Over => pc'[p] \in Over
      /\ \A d \in Ends : pc'[Writer(d)] = "writing" => pc[Writer(d)] = "writing"
      /\ pc' \in [Procs -> States]
  <2>1. \A d \in Ends : Writer(d) \in Procs  BY EndFacts
  <2> QED BY <1>0, <1>1, <2>1 DEF Over, Young
<1> QED BY <1>4, <1>5, <1>6, <1>7 DEF Calm

\* Forking opens nothing that was not open.
LEMMA ForkIsCalm ==
  ASSUME IInv, NEW e \in Ends, Fork(e)
  PROVE  Calm
<1>0. /\ pc' = [pc EXCEPT ![Reader(e)] = "reading", ![Writer(e)] = "typing"]
      /\ pc[Parent(e)] \in {"accepted", "connected"} /\ linked' = linked
      /\ pc \in [Procs -> States] /\ Begun /\ Reader(e) \in Procs /\ Writer(e) \in Procs
      /\ Reader(e) # Writer(e) /\ Parent(e) \in Procs
      /\ "reading" \in States /\ "typing" \in States
      /\ \A d \in Ends : Family(pc[Parent(d)], pc[Child(d)])
  BY EndFacts DEF Fork, tcp, IInv, TypeOK, Sane, Parents, States, Holding
<1>1. \A q \in Procs : pc'[q] = IF q = Reader(e) THEN "reading"
                                ELSE IF q = Writer(e) THEN "typing" ELSE pc[q]
  BY <1>0
<1>2. pc[Child(e)] = "unborn" /\ linked
  BY <1>0 DEF Family, Young, Begun, Holding
<1>3. ASSUME NEW d \in Ends
      PROVE  /\ d = e => /\ pc'[Child(d)] \in {"reading", "typing"}
                         /\ pc'[Parent(d)] \in {"reading", "typing"}
             /\ d # e => /\ pc'[Child(d)] = pc[Child(d)] /\ pc'[Parent(d)] = pc[Parent(d)]
                         /\ pc'[Reader(d)] = pc[Reader(d)] /\ pc'[Writer(d)] = pc[Writer(d)]
  <2>1. CASE d = e  BY <1>1, <2>1, EndFacts
  <2>2. CASE d # e
    <3>1. /\ Reader(d) \in Procs /\ Reader(d) # Reader(e) /\ Reader(d) # Writer(e)
          /\ Writer(d) \in Procs /\ Writer(d) # Writer(e) /\ Writer(d) # Reader(e)
      BY <2>2, EndFacts
    <3>2. pc'[Reader(d)] = pc[Reader(d)] /\ pc'[Writer(d)] = pc[Writer(d)]  BY <1>1, <3>1
    <3> QED BY <2>2, <3>2, EndFacts
  <2> QED BY <2>1, <2>2
<1>4. \A d \in Ends : Parents(d)'
  BY <1>0, <1>3 DEF Parents, Family, Young
<1>5. ASSUME NEW d \in Ends, Open(d)' PROVE Open(d)
  <2>1. CASE d = e
    <3>1. pc[Parent(d)] \in Holding  BY <1>0, <2>1 DEF Holding
    <3> QED BY <3>1, EndFacts, OpenFacts DEF Open
  <2>2. CASE d # e
    <3>1. \/ pc'[Reader(d)] \in Holding \/ pc'[Writer(d)] \in Holding
          \/ d = "server" /\ linked /\ pc'[Reader(d)] = "listening"
      BY <1>0, <1>5 DEF Open, OpenIn, Roles, Reader, Writer
    <3> QED BY <1>3, <2>2, <3>1, OpenFacts DEF Open
  <2> QED BY <2>1, <2>2
<1>6. pc'[Reader("server")] # "boot" /\ pc'[Writer("client")] # "boot"
  <2>1. Reader("server") \in Procs /\ Writer("client") \in Procs  BY EndFacts, ParentFacts
  <2> QED BY <1>0, <1>1, <1>2, <2>1 DEF Begun
<1>7. ASSUME NEW p \in Procs, pc[p] \in Over PROVE pc'[p] \in Over
  <2>1. pc[Parent(e)] \notin Over /\ pc[Child(e)] \notin Over  BY <1>0, <1>2 DEF Over
  <2>2. p # Reader(e) /\ p # Writer(e)  BY <1>7, <2>1, EndFacts DEF Parent, Child
  <2> QED BY <1>1, <1>7, <2>2
<1>8. \A d \in Ends : pc'[Writer(d)] = "writing" => pc[Writer(d)] = "writing"
  BY <1>3, EndFacts
<1>9. pc' \in [Procs -> States]  BY <1>0
<1> QED BY <1>0, <1>2, <1>4, <1>5, <1>6, <1>7, <1>8, <1>9 DEF Calm

\* Starting.
LEMMA StartKeeps ==
  ASSUME IInv, Listen \/ ConnectRefused \/ Accept \/ \E e \in Ends : Fork(e)
  PROVE  IInv'
<1>0. /\ "server" \in Ends /\ Parent("server") = Reader("server")
      /\ "client" \in Ends /\ Parent("client") = Writer("client")
  BY ParentFacts
<1>1. CASE Listen
  <2>1. /\ pc[Parent("server")] = "boot" /\ pc' = [pc EXCEPT ![Parent("server")] = "listening"]
        /\ ~linked /\ linked' = linked
    BY <1>0, <1>1 DEF Listen, Goes, tcp, IInv, Begun
  <2> QED BY <1>0, <1>1, <2>1, YoungIsCalm, ProcessSteps DEF Listen, Young
<1>2. CASE ConnectRefused
  <2>1. /\ pc[Parent("client")] = "boot" /\ pc' = [pc EXCEPT ![Parent("client")] = "gone"]
        /\ linked' = linked
    BY <1>0, <1>2 DEF ConnectRefused, Goes, tcp
  <2> QED BY <1>0, <1>2, <2>1, YoungIsCalm, ProcessSteps DEF ConnectRefused, Young
<1>3. CASE Accept
  <2>1. /\ pc[Parent("server")] = "listening" /\ linked /\ linked' = linked
        /\ pc' = [pc EXCEPT ![Parent("server")] = "accepted"]
    BY <1>0, <1>3 DEF Accept, Goes, tcp
  <2> QED BY <1>0, <1>3, <2>1, YoungIsCalm, ProcessSteps DEF Accept, Young
<1>4. ASSUME NEW e \in Ends, Fork(e) PROVE IInv'
  BY <1>4, ForkIsCalm, ProcessSteps DEF Fork
<1> QED BY <1>1, <1>2, <1>3, <1>4

\* The connection is made: there is nothing in it yet.
LEMMA ConnectKeeps ==
  ASSUME IInv, Connect
  PROVE  IInv'
<1>0. /\ pc[Writer("client")] = "boot" /\ pc[Reader("server")] = "listening"
      /\ linked' = TRUE /\ pc' = [pc EXCEPT ![Writer("client")] = "connected"]
      /\ UNCHANGED <<version, inbox, fin, rst, err, doomed, usr1, typed, ghost>>
  BY DEF Connect, Goes
<1>1. /\ "client" \in Ends /\ Parent("client") = Writer("client")
      /\ "server" \in Ends /\ Writer("client") \in Procs /\ Reader("server") \in Procs
      /\ Writer("client") # Reader("server")
  BY EndFacts, ParentFacts
<1>2. ~linked /\ \A e \in Ends : Blank(e)
  BY <1>0 DEF IInv, Begun
<1>3. TypeOK'
  <2>1. pc' \in [Procs -> States]  BY <1>0 DEF IInv, TypeOK, States, Holding
  <2> QED BY <1>0, <2>1 DEF IInv, TypeOK, ghost
<1>4. Begun'  BY <1>0, <1>1 DEF Begun, IInv, TypeOK
<1>5. ASSUME NEW d \in Ends PROVE Sane(d)'
  <2>0. /\ Blank(d) /\ Blank(Peer(d)) /\ Sane(d) /\ Peer(d) \in Ends
        /\ Parent(d) \in Procs /\ Child(d) \in Procs /\ Writer(d) \in Procs
    BY <1>2, EndFacts DEF IInv
  <2>1. PeerClosed(d)' /\ OneEnding(d)' /\ Accounted(d)'
    BY <1>0, <2>0 DEF PeerClosed, OneEnding, Accounted, Blank, ghost
  <2>2. Heard(d)' /\ Once(d)' /\ Told(d)'
    BY <1>0, <2>0 DEF Heard, Once, Told, Blank, ghost
  <2>3. Counted(d)'
    <3>1. pc'[Writer(d)] = "writing" => pc[Writer(d)] = "writing"
      BY <1>0, <2>0 DEF IInv, TypeOK
    <3>2. typed[d] \in Nat /\ wrote[d] \in Nat /\ futile[d] \in Nat
      BY ChatAssumption DEF IInv, TypeOK
    <3> QED BY <1>0, <2>0, <3>1, <3>2 DEF Sane, Counted, ghost
  <2>4. Parents(d)'
    <3>1. CASE d = "client"
      <4>1. pc[Child(d)] = "unborn"  BY <1>0, <1>1, <2>0, <3>1 DEF Sane, Parents, Family, Young
      <4>2. pc'[Parent(d)] = "connected" /\ pc'[Child(d)] = pc[Child(d)]
        BY <1>0, <1>1, <2>0, <3>1, EndFacts DEF IInv, TypeOK
      <4> QED BY <4>1, <4>2 DEF Parents, Family
    <3>2. CASE d # "client"
      <4>1. Parent(d) # Writer("client") /\ Child(d) # Writer("client")
        BY <1>1, <3>2, EndFacts
      <4>2. pc'[Parent(d)] = pc[Parent(d)] /\ pc'[Child(d)] = pc[Child(d)]
        BY <1>0, <2>0, <4>1 DEF IInv, TypeOK
      <4> QED BY <2>0, <4>2 DEF Sane, Parents
    <3> QED BY <3>1, <3>2
  <2>5. Home(d)'
    <3>1. ASSUME strayed[d] PROVE FALSE
      BY <1>0, <2>0, <3>1 DEF Sane, Home, Alive, Over
    <3> QED BY <1>0, <3>1 DEF Home, ghost
  <2> QED BY <2>1, <2>2, <2>3, <2>4, <2>5 DEF Sane
<1> QED BY <1>3, <1>4, <1>5 DEF IInv

\* Ends by which the connection may close.
LEMMA ClosingKeeps ==
  ASSUME IInv, \/ \E e \in Ends : \/ ForkFails(e) \/ CloseConn(e) \/ InputEnds(e)
                                  \/ HandleUsr1(e) \/ Interrupt(e)
               \/ \E p \in Procs : KillOne(p)
  PROVE  IInv'
<1>0. /\ TypeOK /\ \A e \in Ends : Parents(e)
      /\ \A e \in Ends : {Parent(e)} \in SUBSET Procs /\ {Writer(e)} \in SUBSET Procs
  BY EndFacts DEF IInv, Sane
<1>1. ASSUME NEW S \in SUBSET Procs, \A p \in S : pc[p] # "unborn", Becomes(Ending(S)),
             usr1' \in [Ends -> BOOLEAN], killed' \in SUBSET Procs, heard' = heard,
             UNCHANGED <<version, typed, wrote, seen, stolen, futile, strayed>>
      PROVE  IInv'
  <2>1. Quieter(Ending(S))  BY <1>0, <1>1, EndingIsQuieter
  <2>2. Hears  BY <1>0, <1>1 DEF Hears, TypeOK
  <2> QED BY <1>1, <2>1, <2>2, BecomesKeeps
<1>2. ASSUME NEW e \in Ends, ForkFails(e) PROVE IInv'
  <2>1. pc[Parent(e)] # "unborn"  BY <1>2 DEF ForkFails
  <2> QED BY <1>0, <1>1, <1>2, <2>1 DEF ForkFails, TypeOK, ghost
<1>3. ASSUME NEW e \in Ends, InputEnds(e) PROVE IInv'
  <2>1. pc[Writer(e)] # "unborn"  BY <1>3 DEF InputEnds
  <2> QED BY <1>0, <1>1, <1>3, <2>1 DEF InputEnds, TypeOK, ghost
<1>4. ASSUME NEW e \in Ends, HandleUsr1(e) PROVE IInv'
  <2>1. pc[Writer(e)] # "unborn" /\ usr1' \in [Ends -> BOOLEAN]
    BY <1>0, <1>4 DEF HandleUsr1, Alive, TypeOK
  <2> QED BY <1>0, <1>1, <1>4, <2>1 DEF HandleUsr1, TypeOK, ghost
<1>5. ASSUME NEW S \in SUBSET Procs, Kill(S) PROVE IInv'
  <2>1. (\A p \in S : pc[p] # "unborn") /\ killed' \in SUBSET Procs
    BY <1>0, <1>5 DEF Kill, Alive, TypeOK
  <2> QED BY <1>0, <1>1, <1>5, <2>1 DEF Kill, TypeOK
<1>6. ASSUME NEW e \in Ends, Interrupt(e) PROVE IInv'
  <2>1. {p \in {Parent(e), Child(e)} : Alive(p)} \in SUBSET Procs  BY EndFacts
  <2> QED BY <1>5, <1>6, <2>1 DEF Interrupt
<1>7. ASSUME NEW p \in Procs, KillOne(p) PROVE IInv'
  BY <1>5, <1>7 DEF KillOne
<1>8. ASSUME NEW e \in Ends, CloseConn(e) PROVE IInv'
  <2>1. Reader(e) \in Procs  BY EndFacts
  <2>2. Quieter([pc EXCEPT ![Reader(e)] = "signal"])
    BY <1>0, <1>8, <2>1, GoingIsQuieter DEF CloseConn
  <2>3. Hears  BY <1>0, <1>8 DEF CloseConn, Hears, TypeOK, ghost
  <2> QED BY <1>0, <1>8, <2>2, <2>3, BecomesKeeps DEF CloseConn, TypeOK, ghost
<1> QED BY <1>2, <1>3, <1>4, <1>6, <1>7, <1>8

\* What every step of an end that serves a connection may use.
LEMMA ServingFacts ==
  ASSUME IInv, NEW e \in Ends
  PROVE  /\ Sane(e) /\ Sane(Peer(e)) /\ TypeOK /\ \A d \in Ends : Parents(d)
         /\ Peer(e) \in Ends /\ Peer(e) # e /\ Peer(Peer(e)) = e
         /\ Reader(e) \in Procs /\ Writer(e) \in Procs /\ Reader(e) # Writer(e)
         /\ pc[Reader(e)] \in Holding \/ pc[Writer(e)] \in Holding => linked /\ Open(e)
         /\ \A d \in Ends : d = e \/ d = Peer(e)
         /\ \A d \in Ends : /\ inbox[d] \in Nat /\ seen[d] \in Nat /\ wrote[d] \in Nat
                            /\ futile[d] \in Nat /\ typed[d] \in Nat
         /\ inbox \in [Ends -> Nat] /\ seen \in [Ends -> Nat] /\ wrote \in [Ends -> Nat]
         /\ futile \in [Ends -> Nat]
         /\ UNCHANGED <<pc, linked>> => Calm
<1>1. /\ Sane(e) /\ Sane(Peer(e)) /\ TypeOK /\ \A d \in Ends : Parents(d)
      /\ Peer(e) \in Ends /\ Peer(e) # e /\ Peer(Peer(e)) = e
      /\ Reader(e) \in Procs /\ Writer(e) \in Procs /\ Reader(e) # Writer(e)
      /\ \A d \in Ends : d = e \/ d = Peer(e)
  BY EndFacts DEF IInv, Sane
<1>2. pc[Reader(e)] \in Holding \/ pc[Writer(e)] \in Holding => linked /\ Open(e)
  BY <1>1, OpenFacts DEF Open, IInv, Begun
<1>3. inbox \in [Ends -> Nat] /\ seen \in [Ends -> Nat] /\ wrote \in [Ends -> Nat]
      /\ futile \in [Ends -> Nat] /\ typed \in [Ends -> Nat]
  BY <1>1, ChatAssumption DEF TypeOK
<1>4. ASSUME UNCHANGED <<pc, linked>> PROVE Calm
  <2>1. Quieter(pc')
    BY <1>1, <1>4 DEF Quieter, Parents, TypeOK
  <2> QED BY <1>4, <2>1, QuieterIsCalm
<1> QED BY <1>1, <1>2, <1>3, <1>4

\* A process of e ends, or goes on, without closing anything.
LEMMA GoesCalmly ==
  ASSUME IInv, NEW e \in Ends, NEW p \in {Reader(e), Writer(e)}, linked' = linked,
         pc[p] \in {"reading", "ended", "signal", "typing", "writing"},
         \/ pc' = Ending({p})
         \/ /\ pc[p] # "signal"
            /\ \E s \in {"reading", "ended", "signal", "typing"} : pc' = [pc EXCEPT ![p] = s]
  PROVE  Calm
<1>1. p \in Procs /\ TypeOK /\ \A d \in Ends : Parents(d)
  BY EndFacts DEF IInv, Sane
<1>2. CASE pc' = Ending({p})
  <2>1. {p} \in SUBSET Procs /\ \A q \in {p} : pc[q] # "unborn"  BY <1>1
  <2>2. Quieter(Ending({p}))  BY <1>1, <2>1, EndingIsQuieter
  <2> QED BY <1>2, <2>2, QuieterIsCalm
<1>3. ASSUME NEW s \in {"reading", "ended", "signal", "typing"},
             pc' = [pc EXCEPT ![p] = s], pc[p] # "signal"
      PROVE  Calm
  <2>1. Quieter([pc EXCEPT ![p] = s])  BY <1>1, <1>3, GoingIsQuieter
  <2> QED BY <1>3, <2>1, QuieterIsCalm
<1> QED BY <1>2, <1>3

\* A line is read: it moves from the buffer to what has been seen.
LEMMA ReadLineKeeps ==
  ASSUME IInv, NEW e \in Ends, ReadLine(e)
  PROVE  IInv'
<1>0. /\ pc[Reader(e)] = "reading" /\ inbox[e] > 0
      /\ inbox' = [inbox EXCEPT ![e] = @ - 1] /\ seen' = [seen EXCEPT ![e] = @ + 1]
      /\ UNCHANGED <<version, pc, linked, fin, rst, err, doomed, usr1, typed,
                     wrote, heard, stolen, futile, strayed, killed>>
  BY DEF ReadLine
<1>1. Calm /\ linked /\ Sane(e) /\ Peer(e) \in Ends /\ Peer(e) # e
  BY <1>0, ServingFacts DEF Holding
<1>2. /\ inbox[e] \in Nat /\ seen[e] \in Nat /\ wrote[Peer(e)] \in Nat
      /\ inbox' \in [Ends -> Nat] /\ seen' \in [Ends -> Nat]
      /\ inbox'[e] = inbox[e] - 1 /\ seen'[e] = seen[e] + 1
      /\ \A d \in Ends : d # e => inbox'[d] = inbox[d] /\ seen'[d] = seen[d]
  BY <1>0, <1>1, ServingFacts
<1>3. ASSUME NEW d \in Ends, d # e PROVE Sane(d)'
  BY <1>0, <1>1, <1>2, <1>3, SameKeeps DEF Same
<1>4. Sane(e)'
  <2>1. PeerClosed(e)' /\ OneEnding(e)' /\ Parents(e)' /\ Counted(e)' /\ Once(e)' /\ Home(e)'
    BY <1>0, <1>1 DEF Sane, PeerClosed, OneEnding, Parents, Counted, Once, Home, Open,
                      OpenIn, Alive
  <2>2. Accounted(e)'
    BY <1>0, <1>1, <1>2 DEF Sane, Accounted, Open, OpenIn
  <2>3. heard[e] # "zero"  BY <1>0, <1>1 DEF Sane, Heard
  <2>4. Heard(e)' /\ Told(e)'
    BY <1>0, <1>1, <2>3 DEF Sane, Heard, Told
  <2> QED BY <2>1, <2>2, <2>4 DEF Sane
<1>5. \A d \in Ends : Sane(d)'  BY <1>3, <1>4
<1> QED BY <1>0, <1>1, <1>2, <1>5, Assembled, ServingFacts DEF TypeOK

\* The reader is told 0.
LEMMA ReadZeroKeeps ==
  ASSUME IInv, NEW e \in Ends, ReadZero(e)
  PROVE  IInv'
<1>0. /\ AtEnd(e) /\ ~AtError(e) /\ pc[Reader(e)] = "reading"
      /\ heard' = [heard EXCEPT ![e] = "zero"]
      /\ UNCHANGED <<version, usr1, typed, wrote, seen, stolen, futile, strayed, killed>>
  BY DEF ReadZero, AtEnd
<1>1. /\ Sane(e) /\ linked /\ Open(e) /\ Peer(e) \in Ends /\ Peer(e) # e
      /\ Reader(e) \in Procs /\ TypeOK /\ \A d \in Ends : Parents(d)
  BY <1>0, ServingFacts DEF Holding
<1>2. Hears
  BY <1>0, <1>1 DEF Hears, TypeOK
<1>3. CASE Becomes(Ending({Reader(e)}))
  <2>1. {Reader(e)} \in SUBSET Procs /\ \A q \in {Reader(e)} : pc[q] # "unborn"
    BY <1>0, <1>1
  <2>2. Quieter(Ending({Reader(e)}))  BY <1>1, <2>1, EndingIsQuieter
  <2> QED BY <1>0, <1>1, <1>2, <1>3, <2>2, BecomesKeeps DEF TypeOK
<1>4. CASE (Goes(Reader(e), "ended") \/ UNCHANGED pc) /\ UNCHANGED tcp
  <2>0. UNCHANGED <<linked, inbox, fin, rst, err, doomed>>  BY <1>4 DEF tcp
  <2>1. Calm
    <3>1. CASE Goes(Reader(e), "ended")  BY <1>0, <2>0, <3>1, GoesCalmly DEF Goes
    <3>2. CASE UNCHANGED pc  BY <2>0, <3>2, ServingFacts
    <3> QED BY <1>4, <3>1, <3>2
  <2>2. ASSUME NEW d \in Ends, d # e PROVE Sane(d)'
    BY <1>0, <1>1, <2>0, <2>1, <2>2, SameKeeps DEF Same, TypeOK
  <2>3. Sane(e)'
    <3>1. /\ inbox[e] = 0 /\ ~Open(Peer(e)) /\ ~err[e] /\ heard[e] # "error"
          /\ ~stolen[e] => seen[e] = wrote[Peer(e)]
      BY <1>0, ZeroSaysAll
    <3>2. heard'[e] = "zero" /\ ~Open(Peer(e))' /\ (Open(e)' => Open(e))
      BY <1>0, <1>1, <2>1, <3>1 DEF TypeOK, Calm
    <3>3. PeerClosed(e)' /\ OneEnding(e)' /\ Parents(e)' /\ Once(e)'
      BY <1>0, <1>1, <2>0, <2>1, <3>2 DEF Sane, PeerClosed, OneEnding, Once, Calm
    <3>4. Counted(e)'
      <4>1. pc'[Writer(e)] = "writing" => pc[Writer(e)] = "writing"  BY <2>1 DEF Calm
      <4>2. wrote[e] \in Nat /\ futile[e] \in Nat /\ typed[e] \in Nat  BY ServingFacts
      <4> QED BY <1>0, <1>1, <4>1, <4>2 DEF Sane, Counted
    <3>5. Accounted(e)'
      BY <1>0, <1>1, <2>0, <3>1, <3>2 DEF Sane, Accounted
    <3>6. Heard(e)' /\ Told(e)'
      BY <1>0, <2>0, <3>1, <3>2 DEF Heard, Told
    <3>7. Home(e)'  BY <1>0, <2>1, HomeStays
    <3> QED BY <3>3, <3>4, <3>5, <3>6, <3>7 DEF Sane
  <2>4. \A d \in Ends : Sane(d)'  BY <2>2, <2>3
  <2> QED BY <1>0, <1>1, <1>2, <2>0, <2>1, <2>4, Assembled, ServingFacts DEF TypeOK, Hears
<1> QED BY <1>3, <1>4 DEF ReadZero

\* The reader is told of the reset, and ends.
LEMMA ReadErrorKeeps ==
  ASSUME IInv, NEW e \in Ends, ReadError(e)
  PROVE  IInv'
<1>0. /\ pc[Reader(e)] = "reading" /\ err[e] /\ pc' = Ending({Reader(e)})
      /\ heard' = [heard EXCEPT ![e] = "error"] /\ err' = [err EXCEPT ![e] = FALSE]
      /\ UNCHANGED <<version, linked, inbox, fin, rst, doomed, usr1, typed,
                     wrote, seen, stolen, futile, strayed, killed>>
  BY DEF ReadError, AtError, AtEnd
<1>1. /\ Sane(e) /\ linked /\ Peer(e) \in Ends /\ Peer(e) # e /\ TypeOK
      /\ Reader(e) \in Procs
  BY <1>0, ServingFacts DEF Holding
<1>2. Calm  BY <1>0, GoesCalmly
<1>3. ASSUME NEW d \in Ends, d # e PROVE Sane(d)'
  BY <1>0, <1>1, <1>2, <1>3, SameKeeps DEF Same, TypeOK
<1>4. Sane(e)'
  <2>1. heard'[e] = "error" /\ err'[e] = FALSE /\ pc'[Reader(e)] \in Over
    BY <1>0, <1>1 DEF TypeOK, Ending, Over
  <2>2. PeerClosed(e)' /\ OneEnding(e)' /\ Parents(e)'
    BY <1>0, <1>1, <1>2, <2>1 DEF Sane, PeerClosed, OneEnding, Calm
  <2>3. Counted(e)'
    <3>1. pc'[Writer(e)] = "writing" => pc[Writer(e)] = "writing"  BY <1>2 DEF Calm
    <3>2. wrote[e] \in Nat /\ futile[e] \in Nat /\ typed[e] \in Nat  BY ServingFacts
    <3> QED BY <1>0, <1>1, <3>1, <3>2 DEF Sane, Counted
  <2>4. Accounted(e)' /\ Heard(e)' /\ Told(e)'
    BY <1>0, <1>1, <2>1 DEF Sane, Accounted, Heard, Told
  <2>5. Once(e)'
    <3>1. futile[e] \in Nat /\ (Open(Peer(e))' => Open(Peer(e)))
      BY <1>1, <1>2, ServingFacts DEF Calm
    <3> QED BY <1>0, <1>1, <2>1, <3>1 DEF Sane, Once
  <2>6. Home(e)'  BY <1>0, <1>2, HomeStays
  <2> QED BY <2>2, <2>3, <2>4, <2>5, <2>6 DEF Sane
<1>5. \A d \in Ends : Sane(d)'  BY <1>3, <1>4
<1> QED BY <1>0, <1>1, <1>2, <1>5, Assembled, ServingFacts DEF TypeOK

\* The reader signals its partner and ends: only the client's writer can be
\* somebody else by then.
LEMMA SignalKeeps ==
  ASSUME IInv, NEW e \in Ends, SignalPartner(e)
  PROVE  IInv'
<1>0. /\ pc[Reader(e)] = "signal" /\ pc' = Ending({Reader(e)})
      /\ usr1' = [usr1 EXCEPT ![e] = Alive(Writer(e))]
      /\ strayed' = [strayed EXCEPT ![e] = ~PartnerPid(e)]
      /\ UNCHANGED <<version, tcp, typed, wrote, seen, heard, stolen, futile, killed>>
  BY DEF SignalPartner
<1>1. /\ Sane(e) /\ Peer(e) \in Ends /\ Peer(e) # e /\ TypeOK
      /\ Reader(e) \in Procs /\ Writer(e) \in Procs
      /\ UNCHANGED <<linked, inbox, fin, rst, err, doomed>>
  BY <1>0, ServingFacts DEF tcp
<1>2. Calm  BY <1>0, <1>1, GoesCalmly
<1>3. ASSUME NEW d \in Ends, d # e PROVE Sane(d)'
  BY <1>0, <1>1, <1>2, <1>3, SameKeeps DEF Same, TypeOK
<1>4. Sane(e)'
  <2>2. PeerClosed(e)' /\ OneEnding(e)' /\ Parents(e)' /\ Accounted(e)'
    BY <1>0, <1>1, <1>2 DEF Sane, PeerClosed, OneEnding, Accounted, Calm
  <2>3. Counted(e)'
    <3>1. pc'[Writer(e)] = "writing" => pc[Writer(e)] = "writing"  BY <1>2 DEF Calm
    <3>2. wrote[e] \in Nat /\ futile[e] \in Nat /\ typed[e] \in Nat  BY ServingFacts
    <3> QED BY <1>0, <1>1, <3>1, <3>2 DEF Sane, Counted
  <2>4. Heard(e)' /\ Told(e)' /\ Once(e)'
    BY <1>0, <1>1, <1>2 DEF Sane, Heard, Told, Once, Calm
  <2>5. Home(e)'
    <3>1. strayed'[e] = ~PartnerPid(e)  BY <1>0, <1>1 DEF TypeOK
    <3>2. CASE e = "server"
      <4>1. pc[Writer(e)] # "gone"
        BY <1>0, <1>1, <3>2, ParentFacts DEF Sane, Parents, Family
      <4> QED BY <3>1, <3>2, <4>1 DEF PartnerPid, Home
    <3>3. CASE e = "client"
      <4>1. SUFFICES ASSUME ~Alive(Writer(e)) PROVE ~Alive(Writer(e))'
        BY <3>1, <3>3 DEF PartnerPid, Home
      <4>2. pc[Writer(e)] \in Over
        BY <1>1, <3>3, <4>1, ParentFacts DEF Alive, Sane, Parents, Family
      <4>3. pc'[Writer(e)] \in Over  BY <1>1, <1>2, <4>2 DEF Calm
      <4> QED BY <4>3 DEF Alive
    <3> QED BY <3>2, <3>3, ParentFacts
  <2> QED BY <2>2, <2>3, <2>4, <2>5 DEF Sane
<1>5. \A d \in Ends : Sane(d)'  BY <1>3, <1>4
<1>6. linked \/ \A d \in Ends : Blank(d)'
  BY <1>0, <1>1 DEF IInv, Begun, Blank
<1>7. usr1' \in [Ends -> BOOLEAN] /\ strayed' \in [Ends -> BOOLEAN]
  BY <1>0, <1>1 DEF TypeOK, Alive, PartnerPid
<1> QED BY <1>0, <1>1, <1>2, <1>5, <1>6, <1>7, Assembled, ServingFacts DEF TypeOK

\* A line is typed.
LEMMA GetLineKeeps ==
  ASSUME IInv, NEW e \in Ends, GetLine(e)
  PROVE  IInv'
<1>0. /\ pc[Writer(e)] = "typing" /\ typed[e] < MaxLines
      /\ typed' = [typed EXCEPT ![e] = @ + 1]
      /\ pc' = [pc EXCEPT ![Writer(e)] = "writing"]
      /\ UNCHANGED <<version, linked, inbox, fin, rst, err, doomed, usr1,
                     wrote, seen, heard, stolen, futile, strayed, killed>>
  BY DEF GetLine, Goes, tcp, ghost
<1>1. /\ Sane(e) /\ linked /\ Open(e) /\ Peer(e) \in Ends /\ Peer(e) # e /\ TypeOK
      /\ Reader(e) \in Procs /\ Writer(e) \in Procs /\ Begun
      /\ typed[e] \in Nat /\ wrote[e] \in Nat /\ futile[e] \in Nat
  BY <1>0, ServingFacts DEF Holding, IInv
<1>2. \A q \in Procs : pc'[q] = IF q = Writer(e) THEN "writing" ELSE pc[q]
  BY <1>0, <1>1 DEF TypeOK
<1>3. pc[Writer(e)] \in Holding /\ "writing" \in Holding /\ "writing" \in States
      /\ "writing" \notin Over /\ pc[Writer(e)] \notin Over
  BY <1>0 DEF Holding, States, Over
<1>4. \A d \in Ends : Open(d)' => Open(d)
  <2>1. ASSUME NEW d \in Ends, Open(d)' PROVE Open(d)
    <3>1. Reader(d) \in Procs /\ Writer(d) \in Procs /\ Reader(d) # Writer(e)
      BY EndFacts
    <3>2. \/ pc'[Reader(d)] \in Holding \/ pc'[Writer(d)] \in Holding
          \/ d = "server" /\ linked /\ pc'[Reader(d)] = "listening"
      BY <1>0, <2>1 DEF Open, OpenIn, Roles, Reader, Writer
    <3> QED BY <1>2, <1>3, <3>1, <3>2, OpenFacts DEF Open
  <2> QED BY <2>1
<1>5. \A d \in Ends : Parents(d)'
  <2>1. ASSUME NEW d \in Ends PROVE Family(pc'[Parent(d)], pc'[Child(d)])
    <3>1. Parent(d) \in Procs /\ Child(d) \in Procs /\ Family(pc[Parent(d)], pc[Child(d)])
      BY EndFacts DEF IInv, Sane, Parents
    <3> QED BY <1>0, <1>2, <3>1 DEF Family, Young
  <2> QED BY <2>1 DEF Parents
<1>6. ASSUME NEW d \in Ends PROVE Home(d)'
  <2>1. ASSUME strayed[d] PROVE d = "client" /\ ~Alive(Writer(d))'
    <3>1. d = "client" /\ ~Alive(Writer(d)) /\ Writer(d) \in Procs
      BY <2>1, EndFacts DEF IInv, Sane, Home
    <3>2. Writer(d) # Writer(e)  BY <1>0, <3>1 DEF Alive, Over
    <3> QED BY <1>2, <3>1, <3>2 DEF Alive
  <2> QED BY <1>0, <2>1 DEF Home
<1>7. ASSUME NEW d \in Ends PROVE Sane(d)'
  <2>1. Sane(d) /\ Peer(d) \in Ends /\ (Open(d)' => Open(d)) /\ (Open(Peer(d))' => Open(Peer(d)))
    BY <1>4, EndFacts DEF IInv
  <2>2. PeerClosed(d)' /\ OneEnding(d)' /\ Accounted(d)' /\ Once(d)' /\ Told(d)'
    BY <1>0, <2>1 DEF Sane, PeerClosed, OneEnding, Accounted, Once, Told
  <2>3. Heard(d)'
    <3>1. Reader(d) \in Procs /\ Reader(d) # Writer(e)  BY EndFacts
    <3> QED BY <1>0, <1>2, <2>1, <3>1 DEF Sane, Heard
  <2>4. Counted(d)'
    <3>1. CASE d = e
      <4>1. pc'[Writer(e)] = "writing" /\ typed'[e] = typed[e] + 1
        BY <1>0, <1>1, <1>2 DEF TypeOK
      <4> QED BY <1>0, <1>1, <3>1, <4>1 DEF Sane, Counted
    <3>2. CASE d # e
      <4>1. Writer(d) \in Procs /\ Writer(d) # Writer(e)  BY <3>2, EndFacts
      <4>2. pc'[Writer(d)] = pc[Writer(d)] /\ typed'[d] = typed[d]
        BY <1>0, <1>1, <1>2, <3>2, <4>1 DEF TypeOK
      <4> QED BY <1>0, <2>1, <4>2 DEF Sane, Counted
    <3> QED BY <3>1, <3>2
  <2> QED BY <1>5, <1>6, <2>1, <2>2, <2>3, <2>4 DEF Sane
<1>8. TypeOK'
  <2>1. pc' \in [Procs -> States]  BY <1>0, <1>1, <1>3 DEF TypeOK
  <2>2. typed[e] + 1 \in 0..MaxLines  BY <1>0, <1>1, ChatAssumption
  <2>3. typed' \in [Ends -> 0..MaxLines]  BY <1>0, <1>1, <2>2 DEF TypeOK
  <2> QED BY <1>0, <1>1, <2>1, <2>3 DEF TypeOK
<1>9. Begun'
  <2>1. Reader("server") \in Procs /\ Writer("client") \in Procs  BY EndFacts, ParentFacts
  <2> QED BY <1>0, <1>1, <1>2, <2>1 DEF Begun
<1> QED BY <1>7, <1>8, <1>9 DEF IInv

\* A line is sent: to a peer that is there it is one more to be read; the other
\* one answers it with a reset.
LEMMA WriteKeeps ==
  ASSUME IInv, NEW e \in Ends, Write(e)
  PROVE  IInv'
<1>0. /\ pc[Writer(e)] = "writing" /\ pc' = [pc EXCEPT ![Writer(e)] = "typing"]
      /\ wrote' = [wrote EXCEPT ![e] = @ + 1]
      /\ UNCHANGED <<version, linked, fin, rst, err, usr1, typed,
                     seen, heard, stolen, futile, strayed, killed>>
  BY DEF Write, Goes
<1>1. /\ Sane(e) /\ Sane(Peer(e)) /\ linked /\ Open(e) /\ TypeOK
      /\ Peer(e) \in Ends /\ Peer(e) # e /\ Peer(Peer(e)) = e /\ Writer(e) \in Procs
      /\ \A d \in Ends : d = e \/ d = Peer(e)
  BY <1>0, ServingFacts DEF Holding
<1>2. \/ Open(Peer(e)) /\ inbox' = [inbox EXCEPT ![Peer(e)] = @ + 1] /\ doomed' = doomed
      \/ ~Open(Peer(e)) /\ doomed' = [doomed EXCEPT ![e] = TRUE] /\ inbox' = inbox
  BY DEF Write
<1>3. Calm  BY <1>0, GoesCalmly
<1>4. /\ wrote[e] \in Nat /\ futile[e] \in Nat /\ typed[e] \in Nat
      /\ inbox \in [Ends -> Nat] /\ wrote \in [Ends -> Nat] /\ seen[Peer(e)] \in Nat
      /\ inbox' \in [Ends -> Nat] /\ wrote' \in [Ends -> Nat]
      /\ wrote'[e] = wrote[e] + 1 /\ wrote'[Peer(e)] = wrote[Peer(e)]
      /\ inbox'[e] = inbox[e]
  BY <1>0, <1>1, <1>2, ServingFacts
<1>5. Sane(e)'
  <2>1. PeerClosed(e)'
    <3>1. doomed'[e] => doomed[e] \/ ~Open(Peer(e))  BY <1>1, <1>2 DEF TypeOK
    <3> QED BY <1>0, <1>1, <1>3, <3>1 DEF Sane, PeerClosed, Calm
  <2>2. OneEnding(e)' /\ Parents(e)' /\ Accounted(e)' /\ Heard(e)'
    BY <1>0, <1>1, <1>3, <1>4 DEF Sane, OneEnding, Accounted, Heard, Calm
  <2>3. Once(e)' /\ Told(e)'
    BY <1>0, <1>1, <1>3, <1>4 DEF Sane, Once, Told, Calm
  <2>4. Counted(e)'
    <3>1. pc'[Writer(e)] = "typing"  BY <1>0, <1>1 DEF TypeOK
    <3>2. wrote[e] + futile[e] + 1 <= typed[e]  BY <1>0, <1>1 DEF Sane, Counted
    <3> QED BY <1>0, <1>4, <3>1, <3>2 DEF Counted
  <2>5. Home(e)'  BY <1>0, <1>3, HomeStays
  <2> QED BY <2>1, <2>2, <2>3, <2>4, <2>5 DEF Sane
<1>6. Sane(Peer(e))'
  <2> DEFINE d == Peer(e)
  <2>0. d \in Ends /\ Peer(d) = e /\ Sane(d) /\ Open(Peer(d)) /\ d # e
    BY <1>1
  <2> HIDE DEF d
  <2>1. PeerClosed(d)' /\ OneEnding(d)' /\ Parents(d)'
    <3>1. doomed'[d] = doomed[d]  BY <1>1, <1>2, <2>0 DEF TypeOK
    <3> QED BY <1>0, <1>3, <2>0, <3>1 DEF Sane, PeerClosed, OneEnding, Calm
  <2>2. heard[d] # "zero" /\ Reader(d) \in Procs
    BY <2>0, EndFacts DEF Sane, Heard
  <2>3. Heard(d)' /\ Told(d)'
    BY <1>0, <1>3, <2>0, <2>2 DEF Sane, Heard, Told, Calm
  <2>4. Accounted(d)'
    <3>1. \/ Open(d) /\ inbox'[d] = inbox[d] + 1
          \/ ~Open(d) /\ inbox'[d] = inbox[d]
      BY <1>2, <1>4, <2>0 DEF d
    <3>2. inbox[d] \in Nat /\ seen[d] \in Nat /\ (Open(d)' => Open(d))
          /\ wrote'[Peer(d)] = wrote[Peer(d)] + 1 /\ wrote[Peer(d)] \in Nat
      BY <1>3, <1>4, <2>0, ServingFacts DEF Calm
    <3> QED BY <1>0, <2>0, <3>1, <3>2 DEF Sane, Accounted
  <2>5. Once(d)'  BY <1>0, <1>3, <1>4, <2>0 DEF Sane, Once, Calm
  <2>6. Counted(d)'
    <3>1. pc'[Writer(d)] = "writing" => pc[Writer(d)] = "writing"  BY <1>3, <2>0 DEF Calm
    <3>2. wrote'[d] = wrote[d] /\ wrote[d] \in Nat /\ futile[d] \in Nat /\ typed[d] \in Nat
      BY <1>4, <2>0, ServingFacts DEF d
    <3> QED BY <1>0, <2>0, <3>1, <3>2 DEF Sane, Counted
  <2>7. Home(d)'  BY <1>0, <1>3, <2>0, HomeStays
  <2>8. Sane(d)'  BY <2>1, <2>3, <2>4, <2>5, <2>6, <2>7 DEF Sane
  <2> QED BY <2>8 DEF d
<1>7. \A d \in Ends : Sane(d)'  BY <1>1, <1>5, <1>6
<1>8. doomed' \in [Ends -> BOOLEAN]  BY <1>1, <1>2 DEF TypeOK
<1> QED BY <1>0, <1>1, <1>3, <1>4, <1>7, <1>8, Assembled, ServingFacts DEF TypeOK

\* A write fails: with the error of the reset, or with SIGPIPE.
LEMMA WriteFails ==
  ASSUME IInv, NEW e \in Ends, WriteError(e) \/ WritePipe(e)
  PROVE  IInv'
<1>0. /\ pc[Writer(e)] = "writing" /\ rst[e]
      /\ UNCHANGED <<version, linked, inbox, fin, rst, doomed, usr1, typed,
                     wrote, seen, heard, strayed, killed>>
  BY DEF WriteError, WritePipe, tcp
<1>1. /\ Sane(e) /\ linked /\ Open(e) /\ TypeOK /\ Peer(e) \in Ends /\ Peer(e) # e
      /\ Writer(e) \in Procs /\ ~Open(Peer(e))
      /\ futile \in [Ends -> Nat] /\ wrote[e] \in Nat /\ typed[e] \in Nat /\ version \in Versions
  BY <1>0, ServingFacts DEF Holding, Sane, PeerClosed, TypeOK
<1>2. \/ GoesOn(e)
      \/ pc' = Ending({Writer(e)}) /\ futile' = futile
  BY DEF WriteError, WritePipe
<1>3. \/ /\ pc' = [pc EXCEPT ![Writer(e)] = "typing"] /\ pc'[Writer(e)] = "typing"
         /\ futile' = [futile EXCEPT ![e] = @ + 1]
      \/ pc' = Ending({Writer(e)}) /\ futile' = futile
  BY <1>1, <1>2 DEF GoesOn, Goes, TypeOK
<1>4. Calm  BY <1>0, <1>3, GoesCalmly
<1>5. /\ futile' \in [Ends -> Nat] /\ (futile'[e] = futile[e] \/ futile'[e] = futile[e] + 1)
      /\ \A d \in Ends : d # e => futile'[d] = futile[d]
  BY <1>1, <1>3
<1>6. /\ err' \in [Ends -> BOOLEAN] /\ stolen' \in [Ends -> BOOLEAN]
      /\ \A d \in Ends : d # e => err'[d] = err[d] /\ stolen'[d] = stolen[d]
      /\ \/ err[e] /\ ~err'[e] /\ stolen'[e]
         \/ ~err[e] /\ ~err'[e] /\ stolen'[e] = stolen[e]
  BY <1>1 DEF WriteError, WritePipe, tcp, TypeOK
<1>7. \/ futile'[e] = futile[e]
      \/ err[e] /\ version \notin {"tcp5", "tcp6"}
      \/ version = "tcp9"
  <2>1. CASE WriteError(e)
    <3>1. CASE Prog(e).minus = "ignored"
      BY <1>1, <2>1, <3>1, ProgramFacts DEF WriteError
    <3>2. CASE Prog(e).minus # "ignored"
      BY <2>1, <3>2 DEF WriteError
    <3> QED BY <3>1, <3>2
  <2>2. CASE WritePipe(e)
    <3>1. CASE "SIGPIPE" \in Prog(e).signals  BY <1>1, <3>1, ProgramFacts
    <3>2. CASE "SIGPIPE" \notin Prog(e).signals  BY <2>2, <3>2 DEF WritePipe
    <3> QED BY <3>1, <3>2
  <2> QED BY <2>1, <2>2
<1>8. ASSUME NEW d \in Ends, d # e PROVE Sane(d)'
  BY <1>0, <1>4, <1>5, <1>6, <1>8, SameKeeps, EndFacts DEF Same
<1>9. Sane(e)'
  <2>1. PeerClosed(e)' /\ OneEnding(e)' /\ Parents(e)'
    BY <1>0, <1>1, <1>4, <1>6 DEF Sane, PeerClosed, OneEnding, Calm
  <2>2. Accounted(e)' /\ Heard(e)' /\ Told(e)'
    <3>1. Open(e)' => Open(e)  BY <1>4 DEF Calm
    <3>2. ~Open(Peer(e))'  BY <1>1, <1>4 DEF Calm
    <3>3. heard[e] = "error" => pc'[Reader(e)] \in Over
      BY <1>1, <1>4, EndFacts DEF Sane, Heard, Calm
    <3> QED BY <1>0, <1>1, <1>6, <3>1, <3>2, <3>3 DEF Sane, Accounted, Heard, Told
  <2>3. Once(e)'
    <3>1. ~Open(Peer(e))' /\ futile[e] \in Nat  BY <1>1, <1>4 DEF Calm
    <3>2. version \in {"tcp5", "tcp6"} => futile'[e] = 0
      BY <1>1, <1>7 DEF Sane, Once
    <3>3. version \in {"tcp7", "tcp8"} => futile'[e] <= 1
      <4>1. version \in {"tcp7", "tcp8"} => futile[e] + (IF err[e] THEN 1 ELSE 0) <= 1
        BY <1>1 DEF Sane, Once
      <4> QED BY <1>5, <1>7, <3>1, <4>1
    <3> QED BY <1>0, <1>5, <1>6, <3>1, <3>2, <3>3 DEF Once
  <2>4. Counted(e)'
    <3>1. wrote[e] + futile[e] + 1 <= typed[e] /\ futile[e] \in Nat
      BY <1>0, <1>1 DEF Sane, Counted
    <3>2. pc'[Writer(e)] # "writing"
      <4>1. Ending({Writer(e)})[Writer(e)] \in Over  BY <1>1 DEF Ending, Over
      <4> QED BY <1>3, <4>1 DEF Over
    <3> QED BY <1>0, <1>1, <1>5, <3>1, <3>2 DEF Counted
  <2>5. Home(e)'  BY <1>0, <1>4, HomeStays
  <2> QED BY <2>1, <2>2, <2>3, <2>4, <2>5 DEF Sane
<1>10. \A d \in Ends : Sane(d)'  BY <1>8, <1>9
<1> QED BY <1>0, <1>1, <1>4, <1>5, <1>6, <1>10, Assembled, ServingFacts DEF TypeOK

\* The reset that answers a line for a closed end.
LEMMA ResetKeeps ==
  ASSUME IInv, NEW e \in Ends, ResetArrives(e)
  PROVE  IInv'
<1>0. /\ doomed[e] /\ doomed' = [doomed EXCEPT ![e] = FALSE] /\ rst' = [rst EXCEPT ![e] = TRUE]
      /\ UNCHANGED <<version, pc, linked, inbox, fin, err, usr1, typed,
                     wrote, seen, heard, stolen, futile, strayed, killed>>
  BY DEF ResetArrives, ghost
<1>1. Calm /\ Sane(e) /\ TypeOK /\ linked /\ Peer(e) \in Ends
  BY <1>0, ServingFacts DEF IInv, Begun, Blank
<1>2. rst' \in [Ends -> BOOLEAN] /\ doomed' \in [Ends -> BOOLEAN]
      /\ \A d \in Ends : d # e => rst'[d] = rst[d] /\ doomed'[d] = doomed[d]
  BY <1>0, <1>1 DEF TypeOK
<1>3. ASSUME NEW d \in Ends, d # e PROVE Sane(d)'
  BY <1>0, <1>1, <1>2, <1>3, SameKeeps, EndFacts DEF Same
<1>4. Sane(e)'
  <2>1. PeerClosed(e)' /\ OneEnding(e)' /\ Parents(e)' /\ Counted(e)'
    BY <1>0, <1>1 DEF Sane, PeerClosed, OneEnding, Parents, Counted, Calm
  <2>2. Accounted(e)' /\ Heard(e)' /\ Once(e)' /\ Told(e)'
    BY <1>0, <1>1 DEF Sane, Accounted, Heard, Once, Told, Calm
  <2>3. Home(e)'  BY <1>0, <1>1, HomeStays
  <2> QED BY <2>1, <2>2, <2>3 DEF Sane
<1>5. \A d \in Ends : Sane(d)'  BY <1>3, <1>4
<1> QED BY <1>0, <1>1, <1>2, <1>5, Assembled, ServingFacts DEF TypeOK

\* Every step keeps the invariant.
LEMMA NextIInv == IInv /\ [Next]_vars => IInv'
<1> SUFFICES ASSUME IInv, [Next]_vars PROVE IInv'
  OBVIOUS
<1>1. CASE Listen \/ ConnectRefused \/ Accept  BY <1>1, StartKeeps
<1>2. CASE Connect  BY <1>2, ConnectKeeps
<1>3. ASSUME NEW e \in Ends, Fork(e) \/ ForkFails(e) \/ ResetArrives(e) PROVE IInv'
  BY <1>3, StartKeeps, ClosingKeeps, ResetKeeps
<1>4. ASSUME NEW e \in Ends, User(e) PROVE IInv'
  BY <1>4, GetLineKeeps, ClosingKeeps DEF User
<1>5. ASSUME NEW e \in Ends, Serve(e) PROVE IInv'
  <2>1. CASE ReadLine(e) \/ ReadZero(e) \/ ReadError(e) \/ SignalPartner(e)
    BY <2>1, ReadLineKeeps, ReadZeroKeeps, ReadErrorKeeps, SignalKeeps
  <2>2. CASE CloseConn(e) \/ HandleUsr1(e)  BY <2>2, ClosingKeeps
  <2>3. CASE Write(e) \/ WriteError(e) \/ WritePipe(e)
    BY <2>3, WriteKeeps, WriteFails
  <2> QED BY <1>5, <2>1, <2>2, <2>3 DEF Serve
<1>6. ASSUME NEW p \in Procs, KillOne(p) PROVE IInv'
  BY <1>6, ClosingKeeps
<1>7. CASE UNCHANGED vars
  <2>1. UNCHANGED <<version, pc, linked, tcp, usr1, typed, ghost>>  BY <1>7 DEF vars, tcp
  <2>2. "server" \in Ends  BY ParentFacts
  <2>3. Calm  BY <2>1, <2>2, ServingFacts
  <2> QED BY <2>1, <2>3, ProcessSteps
<1> QED BY <1>1, <1>2, <1>3, <1>4, <1>5, <1>6, <1>7 DEF Next

\* IInv holds in every state of every behaviour.
LEMMA SpecIInv == Spec => []IInv
BY InitIInv, NextIInv, PTL DEF Spec

-----------------------------------------------------------------------------
(* The theorems *)

\* The variables hold what they are meant to: no counter passes the number of
\* lines a user types.
THEOREM TypeOKHolds == Spec => []TypeOK
<1>1. IInv => TypeOK  BY DEF IInv
<1> QED BY <1>1, SpecIInv, PTL

\* A reader that is told 0 has read every line its peer has written, unless its
\* own writer took the error of a reset away from it.
THEOREM ZeroMeansAllHolds == Spec => []ZeroMeansAll
<1>1. IInv => ZeroMeansAll  BY DEF IInv, Sane, Told, ZeroMeansAll
<1> QED BY <1>1, SpecIInv, PTL

\* SIGUSR1 reaches another process only at a client whose writer had ended.
THEOREM SignalsStayHomeHolds == Spec => []SignalsStayHome
<1>1. IInv => SignalsStayHome  BY DEF IInv, Sane, Home, SignalsStayHome
<1> QED BY <1>1, SpecIInv, PTL

\* How many lines a writer of each version writes in vain after a reset.
THEOREM StopsAfterResetHolds == Spec => []StopsAfterReset
<1>1. ASSUME IInv, NEW e \in Ends PROVE futile[e] <= FutileLines(version)
  <2>1. /\ version \in {"tcp5", "tcp6", "tcp7", "tcp8", "tcp9"}
        /\ futile[e] \in Nat /\ futile[e] <= MaxLines
    BY <1>1, ChatAssumption DEF IInv, TypeOK
  <2>2. version \in {"tcp5", "tcp6"} => futile[e] = 0
    BY <1>1 DEF IInv, Sane, Once
  <2>3. version \in {"tcp7", "tcp8"} => futile[e] <= 1
    <3>1. version \in {"tcp7", "tcp8"} => futile[e] + (IF err[e] THEN 1 ELSE 0) <= 1
      BY <1>1 DEF IInv, Sane, Once
    <3> QED BY <2>1, <3>1
  <2> QED BY <2>1, <2>2, <2>3 DEF FutileLines
<1>2. IInv => StopsAfterReset  BY <1>1 DEF StopsAfterReset
<1> QED BY <1>2, SpecIInv, PTL
=============================================================================
