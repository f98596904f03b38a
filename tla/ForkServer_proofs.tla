------------------------- MODULE ForkServer_proofs -------------------------
(***************************************************************************)
(* The safety of the forking server for any number of connections, failed  *)
(* accepts and requests.                                                   *)
(***************************************************************************)
EXTENDS ForkServer, TLAPS

\* What the parent has open follows from where its loop is: besides the
\* standard input and the listening socket, at most the session in its hands.
ParentFds ==
    /\ main = "accept" => /\ current = NoSession
                          /\ fds[Parent] \subseteq {Listen, Stdin}
    /\ main \in {"fork", "close"} =>
          /\ current \in Sessions
          /\ fds[Parent] \subseteq {Listen, Stdin, File(current)}
    /\ main = "exited" => current = NoSession /\ fds[Parent] = {}

\* A child has its own session open, and the listening socket only at first.
ChildFds ==
    \A s \in Sessions :
        /\ fds[s] \subseteq {Listen, Stdin, File(s)}
        /\ Listen \in fds[s] => child[s] = "start"

\* Only the child of a connection has a frame to send back.
SendsToConn == \A s \in Sessions : child[s] = "send" => s \in Conns

IInv ==
    /\ TypeOK /\ ParentFds /\ ChildFds /\ SendsToConn
    /\ ZombieNoticed /\ NothingInvented

\* Initially the parent has two descriptors open and there is no child.
LEMMA InitIInv == Init => IInv
<1> SUFFICES ASSUME Init PROVE IInv
  OBVIOUS
<1> USE ForkServerAssumption DEF Init
<1>1. TypeOK
  <2>1. {Listen, Stdin} \in SUBSET Files  BY DEF Files
  <2>2. fds \in [Procs -> SUBSET Files]   BY <2>1
  <2>3. sent \in [Conns -> Nat]            OBVIOUS
  <2> QED BY <2>2, <2>3 DEF TypeOK, ChildStates, Sessions
<1>2. ParentFds
  <2>1. fds[Parent] = {Listen, Stdin}  BY DEF Procs
  <2> QED BY <2>1 DEF ParentFds
<1>3. ChildFds
  <2>1. \A s \in Sessions : fds[s] = {}  BY DEF Procs, Sessions
  <2> QED BY <2>1 DEF ChildFds
<1>4. ZombieNoticed    BY DEF ZombieNoticed, Zombies
<1>5. NothingInvented  BY DEF NothingInvented, Sessions
<1>6. SendsToConn      BY DEF SendsToConn
<1> QED BY <1>1, <1>2, <1>3, <1>4, <1>5, <1>6 DEF IInv

\* A step of a client keeps the invariant.
LEMMA ClientStep ==
  ASSUME IInv, NEW c \in Conns, ClientNext(c)
  PROVE  IInv'
<1> USE ForkServerAssumption
<1> USE DEF IInv, TypeOK, ParentFds, ChildFds, SendsToConn, ZombieNoticed, Zombies,
            NothingInvented, ChildStates, Procs, Files, Sessions, File, sigs
<1>1. CASE ClientConnect(c)  BY <1>1 DEF ClientConnect
<1>2. CASE ClientSend(c)     BY <1>2 DEF ClientSend, parent
<1>3. CASE ClientRead(c)     BY <1>3 DEF ClientRead, parent
<1>4. CASE ClientClose(c)    BY <1>4 DEF ClientClose, parent
<1> QED BY <1>1, <1>2, <1>3, <1>4 DEF ClientNext

\* A step of the parent's loop keeps the invariant.
LEMMA ParentStep == IInv /\ ParentNext => IInv'
<1> SUFFICES ASSUME IInv, ParentNext PROVE IInv'
  OBVIOUS
<1> USE ForkServerAssumption
<1> USE DEF IInv, TypeOK, ParentFds, ChildFds, SendsToConn, ZombieNoticed, Zombies, AtMain,
            NothingInvented, ChildStates, Procs, Files, Sessions, File, sigs, net
<1>1. CASE Accept       BY <1>1 DEF Accept
<1>2. CASE AcceptFails  BY <1>2 DEF AcceptFails
<1>3. CASE Fork         BY <1>3 DEF Fork
<1>4. CASE ForkFails    BY <1>4 DEF ForkFails
<1>5. CASE ParentClose  BY <1>5 DEF ParentClose
<1> QED BY <1>1, <1>2, <1>3, <1>4, <1>5 DEF ParentNext

\* A step of a child keeps the invariant.
LEMMA ChildStep ==
  ASSUME IInv, NEW s \in Sessions, ChildNext(s)
  PROVE  IInv'
<1> USE ForkServerAssumption
<1> USE DEF IInv, TypeOK, ParentFds, ChildFds, SendsToConn, ZombieNoticed, Zombies,
            NothingInvented, ChildStates, Procs, Files, Sessions, File, sigs,
            net, parent
<1>1. CASE ChildStart(s)      BY <1>1 DEF ChildStart
<1>2. CASE ChildRecv(s)       BY <1>2 DEF ChildRecv
<1>3. CASE ChildRecvFails(s)  BY <1>3 DEF ChildRecvFails
<1>4. CASE ChildSend(s)
  <2>1. s \in Conns  BY <1>4 DEF ChildSend
  <2> QED BY <1>4, <2>1 DEF ChildSend
<1>5. CASE ChildSendFails(s)  BY <1>5 DEF ChildSendFails
<1>6. CASE Ends(s)
  <2> USE <1>6 DEF Ends
  <2>1. TypeOK'           OBVIOUS
  <2>2. ParentFds'        OBVIOUS
  <2>3. ChildFds'         OBVIOUS
  <2>4. ZombieNoticed'    OBVIOUS
  <2>5. NothingInvented'  OBVIOUS
  <2>6. SendsToConn'      OBVIOUS
  <2> QED BY <2>1, <2>2, <2>3, <2>4, <2>5, <2>6
<1> QED BY <1>1, <1>2, <1>3, <1>4, <1>5, <1>6 DEF ChildNext, ChildExit, ChildKilled

\* A step of the signal handler keeps the invariant.
LEMMA HandlerStep == IInv /\ HandlerNext => IInv'
<1> SUFFICES ASSUME IInv, HandlerNext PROVE IInv'
  OBVIOUS
<1> USE ForkServerAssumption
<1> USE DEF IInv, TypeOK, ParentFds, ChildFds, SendsToConn, ZombieNoticed, Zombies,
            NothingInvented, ChildStates, Procs, Files, Sessions, File, sigs,
            net, parent
<1>1. CASE HandlerEnter  BY <1>1 DEF HandlerEnter
<1>2. CASE HandlerReap   BY <1>2 DEF HandlerReap
<1>3. CASE HandlerLeave
  <2> USE <1>3 DEF HandlerLeave
  <2>1. TypeOK'           OBVIOUS
  <2>2. ParentFds'        OBVIOUS
  <2>3. ChildFds'         OBVIOUS
  <2>4. ZombieNoticed'    OBVIOUS
  <2>5. NothingInvented'  OBVIOUS
  <2>6. SendsToConn'      OBVIOUS
  <2> QED BY <2>1, <2>2, <2>3, <2>4, <2>5, <2>6
<1> QED BY <1>1, <1>2, <1>3 DEF HandlerNext

\* The invariant is inductive.
LEMMA NextIInv == IInv /\ [Next]_vars => IInv'
<1> SUFFICES ASSUME IInv, [Next]_vars PROVE IInv'
  OBVIOUS
<1>1. CASE Next
  BY <1>1, ClientStep, ParentStep, ChildStep, HandlerStep DEF Next
<1>2. CASE UNCHANGED vars
  BY <1>2 DEF vars, net, parent, sigs, IInv, TypeOK, ParentFds, ChildFds,
              SendsToConn, ZombieNoticed, Zombies, NothingInvented
<1> QED BY <1>1, <1>2

LEMMA SpecIInv == Spec => []IInv
  BY InitIInv, NextIInv, PTL DEF Spec

\* Descriptors, child states and the signal state of the server keep their
\* types: every open file is one of the files the program opened.
THEOREM TypeOKHolds == Spec => []TypeOK
<1>1. IInv => TypeOK  BY DEF IInv
<1> QED BY <1>1, SpecIInv, PTL

\* An accepted connection is open in its own child and, between accept and
\* close, in the parent: no descriptor leaks to another child.
THEOREM NoStrayDescriptorHolds == Spec => []NoStrayDescriptor
<1>1. IInv => NoStrayDescriptor
  BY ForkServerAssumption
     DEF IInv, TypeOK, ParentFds, ChildFds, NoStrayDescriptor, Procs, Sessions, File
<1> QED BY <1>1, SpecIInv, PTL

\* The loop in sigHandler overlooks no zombie, however many SIGCHLDs merged.
THEOREM ZombieNoticedHolds == Spec => []ZombieNoticed
<1>1. IInv => ZombieNoticed  BY DEF IInv
<1> QED BY <1>1, SpecIInv, PTL

\* After the server exited, only a child that has just been forked can still
\* hold the port.
THEOREM PortFreedHolds == Spec => []PortFreed
<1>1. IInv => PortFreed
  BY DEF IInv, ParentFds, ChildFds, PortFreed, Listening, Procs
<1> QED BY <1>1, SpecIInv, PTL

\* Whatever the interleaving, a client gets back at most what it sent.
THEOREM NothingInventedHolds == Spec => []NothingInvented
<1>1. IInv => NothingInvented  BY DEF IInv
<1> QED BY <1>1, SpecIInv, PTL
=============================================================================
