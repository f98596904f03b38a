---------------------------- MODULE Sharing_proofs ----------------------------
(***************************************************************************)
(* Programs whose processes or threads share one thing: the workers of     *)
(* SemLock a counter behind a semaphore, the clients and the server of     *)
(* MsgEcho a message queue, the threads of ProdCons a counter behind a     *)
(* mutex.  Each has an inductive invariant of its own, SLIInv, MEIInv and  *)
(* PCIInv, which holds for any sets of processes and any bounds.           *)
(***************************************************************************)
EXTENDS SemLock, MsgEcho, ProdCons, SequenceTheorems, FiniteSetTheorems, TLAPS

-----------------------------------------------------------------------------
(* SemLock: what the semaphore guarantees when the program is started once *)

SingleStarter == \E s \in Starters : Starters = {s}

\* Until the value is set, nobody has been forked who could use it.
NobodyYet == ~Started => \A w \in Workers : worker[w] = "unborn"

\* A worker inside incSem() has not used up its rounds.
RoundLeft == \A w \in Holders : round[w] < Rounds

SLIInv == SLTypeOK /\ NobodyYet /\ RoundLeft /\ AdjustmentIsHolding /\ Conservation

\* The set of holders is finite, so that it can be counted.
LEMMA HoldersFinite == IsFiniteSet(Holders) /\ Cardinality(Holders) \in Nat
  BY SemLockAssumption, FS_Subset, FS_CardinalityType DEF Holders

\* Counting holders when one joins or leaves and the others stay.
LEMMA HoldersCount ==
  ASSUME NEW w \in Workers
  PROVE  /\ w \notin Holders /\ Holders' = Holders \cup {w} =>
               Cardinality(Holders') = Cardinality(Holders) + 1
         /\ w \in Holders /\ Holders' = Holders \ {w} =>
               Cardinality(Holders') = Cardinality(Holders) - 1
  BY HoldersFinite, FS_AddElement, FS_RemoveElement

\* Initially the semaphore does not exist and nobody is forked.
LEMMA SLInitIInv ==
  ASSUME SingleStarter
  PROVE  SLInit => SLIInv
<1> SUFFICES ASSUME SLInit PROVE SLIInv
  OBVIOUS
<1> USE SemLockAssumption DEF SLInit
<1>1. SLTypeOK
  <2>1. 0 \in 0..Rounds  OBVIOUS
  <2>2. round \in [Workers -> 0..Rounds]  BY <2>1
  <2>3. semadj \in [Workers -> Int] /\ loaded \in [Workers -> Nat]  OBVIOUS
  <2> QED BY <2>2, <2>3 DEF SLTypeOK
<1>2. NobodyYet            BY DEF NobodyYet
<1>3. AdjustmentIsHolding
  <2>1. Holders = {}  BY DEF Holders
  <2> QED BY <2>1 DEF AdjustmentIsHolding
<1>4. Conservation         BY DEF Conservation, Started
<1>5. RoundLeft            BY DEF RoundLeft, Holders
<1> QED BY <1>1, <1>2, <1>3, <1>4, <1>5 DEF SLIInv

\* A step of main() keeps the invariant: the value is set while nobody holds
\* the semaphore, because the only starter has not forked yet.
LEMMA StarterStep ==
  ASSUME SingleStarter, SLIInv, NEW s \in Starters, StarterNext(s)
  PROVE  SLIInv'
<1> USE SemLockAssumption
<1> USE DEF SLIInv, SLTypeOK, sem, shm
<1>0. Starters = {s}  BY DEF SingleStarter
<1>1. CASE Create(s)
  <2>1. Holders' = Holders  BY <1>1 DEF Create, Holders
  <2>2. ~Started /\ ~Started'  BY <1>0, <1>1 DEF Create, Started
  <2> QED BY <1>1, <2>1, <2>2
             DEF Create, NobodyYet, RoundLeft, AdjustmentIsHolding, Conservation
<1>2. CASE SetVal(s)
  <2>1. ~Started /\ Started'  BY <1>0, <1>2 DEF SetVal, Started
  <2>2. Holders = {} /\ Holders' = {}  BY <1>2, <2>1 DEF SetVal, Holders, NobodyYet
  <2>3. Cardinality(Holders') = 0  BY <2>2, FS_EmptySet
  <2> QED BY <1>2, <2>1, <2>2, <2>3
             DEF SetVal, NobodyYet, RoundLeft, AdjustmentIsHolding, Conservation
<1>3. ASSUME NEW w \in Workers, ForkWorker(s, w) PROVE SLIInv'
  <2>1. Holders' = Holders  BY <1>3 DEF ForkWorker, Holders
  <2>2. Started /\ Started'  BY <1>3 DEF ForkWorker, Started
  <2> QED BY <1>3, <2>1, <2>2
             DEF ForkWorker, NobodyYet, RoundLeft, AdjustmentIsHolding, Conservation
<1>4. CASE Return(s)
  <2>1. Holders' = Holders  BY <1>4 DEF Return, Holders
  <2>2. Started /\ Started'  BY <1>4 DEF Return, Started
  <2> QED BY <1>4, <2>1, <2>2
             DEF Return, NobodyYet, RoundLeft, AdjustmentIsHolding, Conservation
<1> QED BY <1>1, <1>2, <1>3, <1>4 DEF StarterNext

\* A step of a worker keeps the invariant: each one moves as many permits
\* between the value and the adjustment as holders join or leave.
LEMMA WorkerStep ==
  ASSUME SLIInv, NEW w \in Workers, WorkerNext(w)
  PROVE  SLIInv'
<1> USE SemLockAssumption, HoldersFinite, HoldersCount
<1> USE DEF SLIInv, SLTypeOK, sem, shm
<1>0. worker[w] # "unborn" => Started  BY DEF NobodyYet
<1>a. Started => Started'
  BY DEF WorkerNext, Acquire, Load, Store, Release, Exit, Killed, Ends, Started
<1>1. CASE Acquire(w)
  <2>1. w \notin Holders /\ Holders' = Holders \cup {w}
    BY <1>1 DEF Acquire, Holders
  <2>2. SLTypeOK'                BY <1>1 DEF Acquire
  <2>3. AdjustmentIsHolding'   BY <1>1, <2>1 DEF Acquire, AdjustmentIsHolding
  <2>4. NobodyYet' /\ Conservation' /\ RoundLeft'
    BY <1>0, <1>a, <1>1, <2>1 DEF Acquire, NobodyYet, Conservation, RoundLeft, Holders
  <2> QED BY <2>2, <2>3, <2>4
<1>2. CASE Load(w) \/ Store(w)
  <2>1. Holders' = Holders     BY <1>2 DEF Load, Store, Holders
  <2>2. SLTypeOK'                BY <1>2 DEF Load, Store
  <2>3. AdjustmentIsHolding'   BY <1>2, <2>1 DEF Load, Store, AdjustmentIsHolding
  <2>4. NobodyYet' /\ Conservation' /\ RoundLeft'
    BY <1>0, <1>a, <1>2, <2>1 DEF Load, Store, NobodyYet, Conservation, RoundLeft, Holders
  <2> QED BY <2>2, <2>3, <2>4
<1>3. CASE Release(w)
  <2>1. w \in Holders /\ Holders' = Holders \ {w}
    BY <1>3 DEF Release, Holders
  <2>2. round[w] < Rounds      BY <1>3, <2>1 DEF RoundLeft
  <2>3. SLTypeOK'                BY <1>3, <2>2 DEF Release
  <2>4. AdjustmentIsHolding'   BY <1>3, <2>1 DEF Release, AdjustmentIsHolding
  <2>5. NobodyYet' /\ Conservation'
    <3>1. Started /\ Started'  BY <1>0, <1>a, <1>3 DEF Release
    <3>2. Cardinality(Holders') = Cardinality(Holders) - 1  BY <2>1
    <3> QED BY <1>3, <3>1, <3>2 DEF Release, NobodyYet, Conservation
  <2>6. RoundLeft'  BY <1>3, <2>1 DEF Release, RoundLeft
  <2> QED BY <2>3, <2>4, <2>5, <2>6
<1>4. CASE Exit(w) \/ Killed(w)
  <2>1. Ends(w) /\ worker[w] # "unborn"  BY <1>4 DEF Exit, Killed
  <2>2. Holders' = Holders \ {w}     BY <2>1 DEF Ends, Holders
  <2>3. semval' = semval + (IF w \in Holders THEN 1 ELSE 0)
    BY <2>1 DEF Ends, AdjustmentIsHolding
  <2>4. SLTypeOK'               BY <2>1 DEF Ends
  <2>5. AdjustmentIsHolding'  BY <2>1, <2>2 DEF Ends, AdjustmentIsHolding
  <2>6. Cardinality(Holders') = Cardinality(Holders) - (IF w \in Holders THEN 1 ELSE 0)
    <3>1. CASE w \in Holders  BY <2>2, <3>1
    <3>2. CASE w \notin Holders
      <4>1. Holders' = Holders  BY <2>2, <3>2
      <4> QED BY <3>2, <4>1
    <3> QED BY <3>1, <3>2
  <2>7. NobodyYet' /\ Conservation'
    BY <1>0, <1>a, <2>1, <2>3, <2>6 DEF NobodyYet, Conservation
  <2>8. RoundLeft'  BY <2>1, <2>2 DEF Ends, RoundLeft
  <2> QED BY <2>4, <2>5, <2>7, <2>8
<1> QED BY <1>1, <1>2, <1>3, <1>4 DEF WorkerNext

\* The invariant is inductive.
LEMMA SLNextIInv ==
  ASSUME SingleStarter
  PROVE  SLIInv /\ [SLNext]_slVars => SLIInv'
<1> SUFFICES ASSUME SLIInv, [SLNext]_slVars PROVE SLIInv'
  OBVIOUS
<1>1. CASE SLNext
  BY <1>1, StarterStep, WorkerStep DEF SLNext
<1>2. CASE UNCHANGED slVars
  BY <1>2 DEF slVars, sem, shm, SLIInv, SLTypeOK, NobodyYet, RoundLeft,
              AdjustmentIsHolding, Conservation, Holders, Started
<1> QED BY <1>1, <1>2

LEMMA SLSpecIInv ==
  ASSUME SingleStarter
  PROVE  SLSpec => []SLIInv
<1>1. SLInit => SLIInv  BY SLInitIInv
<1>2. SLIInv /\ [SLNext]_slVars => SLIInv'  BY SLNextIInv
<1> QED BY <1>1, <1>2, PTL DEF SLSpec

\* The semaphore of one starter is never negative and undo adjustments stay
\* integers, whatever the workers do.
THEOREM SLTypeOKHolds ==
  ASSUME SingleStarter
  PROVE  SLSpec => []SLTypeOK
<1>1. SLIInv => SLTypeOK  BY DEF SLIInv
<1>2. SLSpec => []SLIInv  BY SLSpecIInv
<1> QED BY <1>1, <1>2, PTL

\* No interleaving of workers and no kill loses or invents a permit.
THEOREM ConservationHolds ==
  ASSUME SingleStarter
  PROVE  SLSpec => []Conservation
<1>1. SLIInv => Conservation  BY DEF SLIInv
<1>2. SLSpec => []SLIInv  BY SLSpecIInv
<1> QED BY <1>1, <1>2, PTL

\* SEM_UNDO remembers of a worker exactly what it holds.
THEOREM AdjustmentIsHoldingHolds ==
  ASSUME SingleStarter
  PROVE  SLSpec => []AdjustmentIsHolding
<1>1. SLIInv => AdjustmentIsHolding  BY DEF SLIInv
<1>2. SLSpec => []SLIInv  BY SLSpecIInv
<1> QED BY <1>1, <1>2, PTL

\* When all workers have ended the semaphore has the value main() gave it.
THEOREM UndoneAtExitHolds ==
  ASSUME SingleStarter
  PROVE  SLSpec => []UndoneAtExit
<1>1. SLIInv => UndoneAtExit
  <2> SUFFICES ASSUME SLIInv, \A s \in Starters : main[s] = "returned",
                      \A w \in Workers : worker[w] = "ended"
               PROVE  semval = SemVal
    BY DEF UndoneAtExit
  <2>1. Started  BY DEF SingleStarter, Started
  <2>2. Holders = {}  BY DEF Holders
  <2>3. Cardinality(Holders) = 0  BY <2>2, FS_EmptySet
  <2> QED BY <2>1, <2>3 DEF SLIInv, SLTypeOK, Conservation
<1>2. SLSpec => []SLIInv  BY SLSpecIInv
<1> QED BY <1>1, <1>2, PTL

-----------------------------------------------------------------------------
(* A semaphore of value 1 is a lock *)

\* With one permit there is at most one holder.
LEMMA OneHolder ==
  ASSUME SemVal = 1, SLIInv, NEW v \in Holders, NEW w \in Holders
  PROVE  v = w
<1>1. Started  BY DEF SLIInv, NobodyYet, Holders
<1>2. Cardinality(Holders) <= 1
  BY <1>1, HoldersFinite DEF SLIInv, SLTypeOK, Conservation
<1>3. Cardinality(Holders) = 1
  BY <1>2, HoldersFinite, FS_EmptySet
<1> QED BY <1>3, HoldersFinite, FS_Singleton

\* What a worker has loaded is still in the counter when it stores.
Fresh == \A w \in Workers : worker[w] = "store" => loaded[w] = counter

\* No step makes a loaded value stale, because no other worker is inside.
LEMMA FreshStep ==
  ASSUME SemVal = 1, SLIInv, Fresh, [SLNext]_slVars
  PROVE  Fresh'
<1> USE DEF SLIInv, SLTypeOK, Fresh, sem, shm
<1>1. ASSUME NEW s \in Starters, StarterNext(s) PROVE Fresh'
  BY <1>1 DEF StarterNext, Create, SetVal, Return, ForkWorker
<1>2. ASSUME NEW w \in Workers, WorkerNext(w) PROVE Fresh'
  <2>1. CASE Store(w)
    <3>1. \A v \in Workers : worker[v] = "store" => v = w
      BY <2>1, OneHolder DEF Store, Holders
    <3> QED BY <2>1, <3>1 DEF Store
  <2>2. CASE Load(w)  BY <2>2 DEF Load
  <2>3. CASE Acquire(w) \/ Release(w) \/ Exit(w) \/ Killed(w)
    BY <2>3 DEF Acquire, Release, Exit, Killed, Ends
  <2> QED BY <1>2, <2>1, <2>2, <2>3 DEF WorkerNext
<1>3. CASE UNCHANGED slVars  BY <1>3 DEF slVars
<1> QED BY <1>1, <1>2, <1>3 DEF SLNext

\* Set to 1, the semaphore locks the counter: no increment is lost.
THEOREM NoLostUpdateHolds ==
  ASSUME SingleStarter, SemVal = 1
  PROVE  SLSpec => NoLostUpdate
<1> DEFINE Step == \A w \in Workers :
                     worker[w] = "store" /\ worker'[w] = "release" => counter' = counter + 1
<1>1. SLIInv /\ Fresh /\ [SLNext]_slVars => [Step]_slVars
  <2> SUFFICES ASSUME SLIInv, Fresh, SLNext, NEW v \in Workers,
                      worker[v] = "store", worker'[v] = "release"
               PROVE  counter' = counter + 1
    OBVIOUS
  <2> USE DEF SLIInv, SLTypeOK
  <2>1. ASSUME NEW s \in Starters, StarterNext(s) PROVE FALSE
    BY <2>1 DEF StarterNext, Create, SetVal, Return, ForkWorker
  <2>2. ASSUME NEW w \in Workers, WorkerNext(w) PROVE Store(v)
    <3>1. v = w
      BY <2>2 DEF WorkerNext, Acquire, Load, Store, Release, Exit, Killed, Ends
    <3> QED
      BY <2>2, <3>1 DEF WorkerNext, Acquire, Load, Release, Exit, Killed, Ends
  <2>3. Store(v)  BY <2>1, <2>2 DEF SLNext
  <2> QED BY <2>3 DEF Store, Fresh
<1>2. SLInit => Fresh  BY DEF SLInit, Fresh
<1>3. SLIInv /\ Fresh /\ [SLNext]_slVars => Fresh'  BY FreshStep
<1>4. SLSpec => []SLIInv  BY SLSpecIInv
<1> QED BY <1>1, <1>2, <1>3, <1>4, PTL DEF SLSpec, NoLostUpdate

-----------------------------------------------------------------------------
(* MsgEcho: every client has at most one message under way, so that answers *)
(* are not mixed up and, with enough room, requests never crowd one out.    *)

\* A message belongs to the round its client is in, and its client waits for
\* it or is gone.
OfThisRound(m) ==
    /\ m.line = typed[m.from]
    /\ client[m.from] \in {"wait", "gone"}
    /\ m.mtype \in {m.from, Request}

Underway ==
    /\ \A i \in 1..Len(queue) : OfThisRound(queue[i])
    /\ server = "send" => hand \in Messages /\ OfThisRound(hand)

\* No client has two messages under way.
Single ==
    /\ \A i, j \in 1..Len(queue) : queue[i].from = queue[j].from => i = j
    /\ server = "send" => \A i \in 1..Len(queue) : queue[i].from # hand.from

\* Before its first round a client has printed nothing and typed nothing.
Unstarted == \A c \in Clients : client[c] = "unborn" => shown[c] = <<c, typed[c]>>

OwnType == \A c \in Clients : mtype[c] \in {c, Request}

MEIInv == METypeOK /\ Underway /\ Single /\ Unstarted /\ OwnType /\ AnswerIsOwn

\* What RemoveAt leaves of a sequence.
LEMMA RemoveAtFacts ==
  ASSUME NEW S, NEW s \in Seq(S), NEW i \in 1..Len(s)
  PROVE  /\ RemoveAt(s, i) \in Seq(S)
         /\ Len(RemoveAt(s, i)) = Len(s) - 1
         /\ \A k \in 1..(Len(s) - 1) :
               RemoveAt(s, i)[k] = s[IF k < i THEN k ELSE k + 1]
<1> DEFINE a == SubSeq(s, 1, i - 1)
           b == SubSeq(s, i + 1, Len(s))
<1>1. \A k \in 1..Len(s) : s[k] \in S
  OBVIOUS
<1>2. /\ a \in Seq(S)
      /\ Len(a) = i - 1
      /\ \A k \in 1..(i - 1) : a[k] = s[k]
  BY <1>1, SubSeqProperties, i - 1 \in Int, Z3
<1>3. /\ b \in Seq(S)
      /\ Len(b) = Len(s) - i
      /\ \A k \in 1..(Len(s) - i) : b[k] = s[i + k]
  BY <1>1, SubSeqProperties, Len(s) \in Int, i + 1 \in Int, Z3
<1>4. /\ a \o b \in Seq(S)
      /\ Len(a \o b) = Len(a) + Len(b)
      /\ \A k \in 1..(Len(a) + Len(b)) :
            (a \o b)[k] = IF k <= Len(a) THEN a[k] ELSE b[k - Len(a)]
  BY <1>2, <1>3, ConcatProperties
<1>5. RemoveAt(s, i) = a \o b
  BY DEF RemoveAt
<1> HIDE DEF a, b
<1>6. ASSUME NEW k \in 1..(Len(s) - 1)
      PROVE  RemoveAt(s, i)[k] = s[IF k < i THEN k ELSE k + 1]
  <2>1. CASE k < i   BY <2>1, <1>2, <1>3, <1>4, <1>5
  <2>2. CASE k >= i
    <3>1. k - (i - 1) \in 1..(Len(s) - i)  BY <2>2
    <3>2. b[k - (i - 1)] = s[k + 1]        BY <3>1, <1>3
    <3>3. /\ k \in 1..(Len(a) + Len(b)) /\ ~(k <= Len(a))
          /\ k - Len(a) = k - (i - 1)
      BY <2>2, <1>2, <1>3
    <3>4. (a \o b)[k] = b[k - (i - 1)]        BY <3>3, <1>4
    <3>5. (IF k < i THEN k ELSE k + 1) = k + 1  BY <2>2
    <3> QED BY <3>2, <3>4, <3>5, <1>5
  <2> QED BY <2>1, <2>2
<1>7. Len(RemoveAt(s, i)) = Len(s) - 1
  <2>1. Len(RemoveAt(s, i)) = (i - 1) + (Len(s) - i)  BY <1>2, <1>3, <1>4, <1>5
  <2>2. Len(s) \in Nat  OBVIOUS
  <2> QED BY <2>1, <2>2
<1> QED BY <1>4, <1>5, <1>6, <1>7

-----------------------------------------------------------------------------
(* The invariant *)

\* Initially nothing is under way.
LEMMA MEInitIInv == MEInit => MEIInv
<1> SUFFICES ASSUME MEInit PROVE MEIInv
  OBVIOUS
<1> USE MsgEchoAssumption DEF MEInit
<1>1. /\ queue \in Seq(Messages) /\ Len(queue) = 0
  OBVIOUS
<1>2. METypeOK
  <2>1. shown \in [Clients -> Clients \X Nat]  OBVIOUS
  <2>2. mtype \in [Clients -> Types]  BY DEF Types
  <2>3. client \in [Clients -> {"unborn", "idle", "send", "wait", "gone"}]  OBVIOUS
  <2>4. Len(queue) <= Capacity  BY <1>1
  <2>5. typed \in [Clients -> Nat] /\ crashes \in Nat  OBVIOUS
  <2> QED BY <1>1, <2>1, <2>2, <2>3, <2>4, <2>5 DEF METypeOK
<1>3. Underway /\ Single  BY <1>1 DEF Underway, Single
<1>4. Unstarted /\ OwnType /\ AnswerIsOwn  BY DEF Unstarted, OwnType, AnswerIsOwn
<1> QED BY <1>2, <1>3, <1>4 DEF MEIInv

\* What is in the queue, or in the server's hands while it answers, is a
\* message of one of the clients.
LEMMA MessageFacts ==
  ASSUME METypeOK, Underway
  PROVE  /\ Len(queue) \in Nat
         /\ \A i \in 1..Len(queue) : queue[i] \in Messages /\ OfThisRound(queue[i])
         /\ server = "send" => hand \in Messages /\ OfThisRound(hand)
         /\ \A m \in Messages : m.from \in Clients /\ m.line \in Nat /\ m.mtype \in Types
<1>1. queue \in Seq(Messages)  BY DEF METypeOK
<1>2. Len(queue) \in Nat /\ \A i \in 1..Len(queue) : queue[i] \in Messages
  BY <1>1
<1>3. \A m \in Messages : m.from \in Clients /\ m.line \in Nat /\ m.mtype \in Types
  BY DEF Messages
<1> QED BY <1>2, <1>3 DEF Underway

\* What is left of the queue when a message is taken out of it.
LEMMA QueueWithout ==
  ASSUME queue \in Seq(Messages)
  PROVE  \A i \in 1..Len(queue) :
            /\ RemoveAt(queue, i) \in Seq(Messages)
            /\ Len(RemoveAt(queue, i)) = Len(queue) - 1
            /\ \A k \in 1..(Len(queue) - 1) :
                  RemoveAt(queue, i)[k] = queue[IF k < i THEN k ELSE k + 1]
BY RemoveAtFacts, Zenon

\* A step of a client keeps the invariant.
LEMMA ClientStep ==
  ASSUME MEIInv, NEW c \in Clients, ClientNext(c)
  PROVE  MEIInv'
<1> USE MsgEchoAssumption
<1> USE DEF MEIInv, METypeOK
<1>0. /\ Len(queue) \in Nat
      /\ \A i \in 1..Len(queue) : queue[i] \in Messages /\ OfThisRound(queue[i])
      /\ server = "send" => hand \in Messages /\ OfThisRound(hand)
      /\ \A m \in Messages : m.from \in Clients /\ m.line \in Nat /\ m.mtype \in Types
  BY MessageFacts
<1>1. CASE ClientStart(c)
  <2> USE <1>1 DEF ClientStart, srv
  <2>1. METypeOK'  OBVIOUS
  <2>2. Underway' BY <1>0 DEF Underway, OfThisRound
  <2>3. Single' BY DEF Single
  <2> QED BY <2>1, <2>2, <2>3 DEF Unstarted, OwnType, AnswerIsOwn
<1>2. CASE ClientTypes(c)
  <2> USE <1>2 DEF ClientTypes, srv
  <2>1. METypeOK'  OBVIOUS
  <2>2. Underway' BY <1>0 DEF Underway, OfThisRound
  <2>3. Single' BY DEF Single
  <2> QED BY <2>1, <2>2, <2>3 DEF Unstarted, OwnType, AnswerIsOwn
<1>3. CASE ClientGone(c)
  <2> USE <1>3 DEF ClientGone, srv
  <2>1. METypeOK'  OBVIOUS
  <2>2. Underway' BY <1>0 DEF Underway, OfThisRound
  <2>3. Single' BY DEF Single
  <2> QED BY <2>1, <2>2, <2>3 DEF Unstarted, OwnType, AnswerIsOwn
<1>4. CASE ClientSend(c)
  <2> USE <1>4 DEF ClientSend, srv
  <2>0. PICK m \in Messages : m = [mtype |-> mtype[c], from |-> c, line |-> typed[c]]
    BY DEF Messages
  <2>1. m \in Messages /\ m.from = c /\ m.mtype = mtype[c] /\ m.line = typed[c]
    BY <2>0
  <2>2. \A n \in Messages : OfThisRound(n) => n.from # c /\ OfThisRound(n)'
    BY <1>0 DEF OfThisRound
  <2>3. OfThisRound(m)'
    BY <2>1 DEF OfThisRound, OwnType
  <2>4. /\ server = "send" => hand.from # c /\ OfThisRound(hand)'
        /\ \A k \in 1..Len(queue) : queue[k].from # c
    BY <1>0, <2>2 DEF OfThisRound
  <2>5. queue' = Append(queue, m)
    BY <2>0
  <2>6. /\ queue' \in Seq(Messages)
        /\ Len(queue') = Len(queue) + 1
        /\ \A k \in 1..Len(queue) : queue'[k] = queue[k]
        /\ queue'[Len(queue) + 1] = m
    BY <2>1, <2>5, AppendProperties
  <2>7. \A k \in 1..Len(queue') : k \in 1..Len(queue) \/ k = Len(queue) + 1
    BY <2>6
  <2>8. \A k \in 1..Len(queue') : OfThisRound(queue[k])'
    <3> SUFFICES ASSUME NEW k \in 1..Len(queue') PROVE OfThisRound(queue[k])'
      OBVIOUS
    <3>1. CASE k \in 1..Len(queue)
      BY <3>1, <1>0, <2>2, <2>6 DEF OfThisRound
    <3>2. CASE k = Len(queue) + 1
      BY <3>2, <2>3, <2>6 DEF OfThisRound
    <3> QED BY <3>1, <3>2, <2>7
  <2>9. Underway'
    BY <1>0, <2>4, <2>8 DEF Underway
  <2>10. Single'
    BY <2>1, <2>2, <2>4, <2>6, <2>7 DEF Single
  <2>11. METypeOK'
    BY <2>6 DEF Room
  <2> QED BY <2>9, <2>10, <2>11 DEF Unstarted, OwnType, AnswerIsOwn
<1>5. CASE ClientRecv(c)
  <2> USE <1>5 DEF ClientRecv, srv
  <2>1. PICK i \in 1..Len(queue) :
          /\ queue[i].mtype = c
          /\ queue' = RemoveAt(queue, i)
          /\ mtype' = [mtype EXCEPT ![c] = queue[i].mtype]
          /\ shown' = [shown EXCEPT ![c] = <<queue[i].from, queue[i].line>>]
    BY DEF Oldest
  <2>2. queue[i].from = c /\ queue[i].line = typed[c]
    <3>1. queue[i] \in Messages /\ OfThisRound(queue[i])  BY <1>0
    <3> QED BY <2>1, <3>1, <1>0 DEF OfThisRound
  <2>3. /\ queue' \in Seq(Messages)
        /\ Len(queue') = Len(queue) - 1
        /\ \A k \in 1..(Len(queue) - 1) : queue'[k] = queue[IF k < i THEN k ELSE k + 1]
    BY <2>1, QueueWithout
  <2>4. \A k \in 1..Len(queue') :
          \E n \in 1..Len(queue) : n # i /\ queue'[k] = queue[n] /\ n = (IF k < i THEN k ELSE k + 1)
    <3>1. ASSUME NEW k \in 1..Len(queue')
          PROVE  \E n \in 1..Len(queue) :
                    n # i /\ queue'[k] = queue[n] /\ n = (IF k < i THEN k ELSE k + 1)
      <4> DEFINE n == IF k < i THEN k ELSE k + 1
      <4>1. k \in 1..(Len(queue) - 1)  BY <2>3
      <4>2. n \in 1..Len(queue) /\ n # i  BY <1>0, <4>1
      <4>3. queue'[k] = queue[n]  BY <2>3, <4>1
      <4> QED BY <4>2, <4>3
    <3> QED BY <3>1
  <2>5. /\ \A n \in 1..Len(queue) : n # i => queue[n].from # c
        /\ server = "send" => hand.from # c
    BY <2>2 DEF Single
  <2>6. \A m \in Messages : OfThisRound(m) /\ m.from # c => OfThisRound(m)'
    BY <1>0 DEF OfThisRound
  <2>7. \A k \in 1..Len(queue') : OfThisRound(queue[k])'
    <3> SUFFICES ASSUME NEW k \in 1..Len(queue') PROVE OfThisRound(queue[k])'
      OBVIOUS
    <3>1. PICK n \in 1..Len(queue) : n # i /\ queue'[k] = queue[n]
      BY <2>4
    <3> QED BY <3>1, <1>0, <2>5, <2>6 DEF OfThisRound
  <2>8. Underway'
    <3>1. server = "send" => OfThisRound(hand)'
      BY <1>0, <2>5, <2>6 DEF OfThisRound
    <3> QED BY <1>0, <2>7, <3>1 DEF Underway
  <2>9. Single'
    <3>1. server = "send" => \A k \in 1..Len(queue') : queue'[k].from # hand.from
      BY <2>4, SMTT(20) DEF Single
    <3>2. ASSUME NEW j \in 1..Len(queue'), NEW k \in 1..Len(queue'),
                 queue'[j].from = queue'[k].from
          PROVE  j = k
      <4>1. PICK n \in 1..Len(queue) :
              n # i /\ queue'[j] = queue[n] /\ n = (IF j < i THEN j ELSE j + 1)
        BY <2>4
      <4>2. PICK p \in 1..Len(queue) :
              p # i /\ queue'[k] = queue[p] /\ p = (IF k < i THEN k ELSE k + 1)
        BY <2>4
      <4>3. n = p  BY <3>2, <4>1, <4>2 DEF Single
      <4> QED BY <4>1, <4>2, <4>3
    <3> QED BY <3>1, <3>2 DEF Single
  <2>10. METypeOK'
    <3>1. queue[i].line \in Nat /\ queue[i].from \in Clients /\ queue[i].mtype \in Types
      BY <1>0 DEF Messages
    <3> QED BY <2>1, <2>3, <3>1, SMTT(20)
  <2>11. Unstarted' /\ OwnType'
    BY <2>1 DEF Unstarted, OwnType
  <2>12. AnswerIsOwn'
    BY <2>1, <2>2 DEF AnswerIsOwn
  <2> QED BY <2>8, <2>9, <2>10, <2>11, <2>12
<1> QED BY <1>1, <1>2, <1>3, <1>4, <1>5 DEF ClientNext

\* A step of the server keeps the invariant.
LEMMA ServerStep == MEIInv /\ ServerNext => MEIInv'
<1> SUFFICES ASSUME MEIInv, ServerNext PROVE MEIInv'
  OBVIOUS
<1> USE MsgEchoAssumption
<1> USE DEF MEIInv, METypeOK
<1>0. /\ Len(queue) \in Nat
      /\ \A i \in 1..Len(queue) : queue[i] \in Messages /\ OfThisRound(queue[i])
      /\ server = "send" => hand \in Messages /\ OfThisRound(hand)
      /\ \A m \in Messages : m.from \in Clients /\ m.line \in Nat /\ m.mtype \in Types
  BY MessageFacts
<1>1. CASE ServerStart
  <2> USE <1>1 DEF ServerStart, clients
  <2>1. METypeOK' OBVIOUS
  <2> QED BY <2>1 DEF Underway, Single, OfThisRound, Unstarted, OwnType, AnswerIsOwn
<1>2. CASE ServerKilled
  <2> USE <1>2 DEF ServerKilled, clients
  <2>1. METypeOK' OBVIOUS
  <2> QED BY <2>1 DEF Underway, Single, OfThisRound, Unstarted, OwnType, AnswerIsOwn
<1>3. CASE ServerRecv
  <2> USE <1>3 DEF ServerRecv, clients
  <2>1. PICK i \in 1..Len(queue) : queue' = RemoveAt(queue, i) /\ hand' = queue[i]
    OBVIOUS
  <2>2. /\ queue' \in Seq(Messages)
        /\ Len(queue') = Len(queue) - 1
        /\ \A k \in 1..(Len(queue) - 1) : queue'[k] = queue[IF k < i THEN k ELSE k + 1]
    BY <2>1, QueueWithout
  <2>3. \A k \in 1..Len(queue') :
          \E n \in 1..Len(queue) : n # i /\ queue'[k] = queue[n] /\ n = (IF k < i THEN k ELSE k + 1)
    <3>1. ASSUME NEW k \in 1..Len(queue')
          PROVE  \E n \in 1..Len(queue) :
                    n # i /\ queue'[k] = queue[n] /\ n = (IF k < i THEN k ELSE k + 1)
      <4> DEFINE n == IF k < i THEN k ELSE k + 1
      <4>1. k \in 1..(Len(queue) - 1)  BY <2>2
      <4>2. n \in 1..Len(queue) /\ n # i  BY <1>0, <4>1
      <4>3. queue'[k] = queue[n]  BY <2>2, <4>1
      <4> QED BY <4>2, <4>3
    <3> QED BY <3>1
  <2>4. \A m \in Messages : OfThisRound(m) => OfThisRound(m)'
    BY DEF OfThisRound
  <2>5. Underway'
    <3>1. ASSUME NEW k \in 1..Len(queue') PROVE OfThisRound(queue[k])'
      <4>1. PICK n \in 1..Len(queue) : queue'[k] = queue[n]
        BY <2>3
      <4> QED BY <4>1, <1>0, <2>4 DEF OfThisRound
    <3>2. hand' \in Messages /\ OfThisRound(hand)'
      BY <1>0, <2>1, <2>4 DEF OfThisRound
    <3> QED BY <3>1, <3>2 DEF Underway
  <2>6. Single'
    <3>1. \A k \in 1..Len(queue') : queue'[k].from # hand'.from
      BY <2>1, <2>3 DEF Single
    <3>2. ASSUME NEW j \in 1..Len(queue'), NEW k \in 1..Len(queue'),
                 queue'[j].from = queue'[k].from
          PROVE  j = k
      <4>1. PICK n \in 1..Len(queue) :
                queue'[j] = queue[n] /\ n = (IF j < i THEN j ELSE j + 1)
        BY <2>3
      <4>2. PICK o \in 1..Len(queue) :
                queue'[k] = queue[o] /\ o = (IF k < i THEN k ELSE k + 1)
        BY <2>3
      <4>3. n = o  BY <3>2, <4>1, <4>2 DEF Single
      <4>4. j \in Int /\ k \in Int /\ i \in Int  BY <1>0, <2>2
      <4> HIDE DEF MEIInv, METypeOK
      <4> QED BY <4>1, <4>2, <4>3, <4>4
    <3> QED BY <3>1, <3>2 DEF Single
  <2>7. METypeOK'
    BY <2>1, <2>2, <1>0
  <2> QED BY <2>5, <2>6, <2>7 DEF Unstarted, OwnType, AnswerIsOwn
<1>4. CASE ServerSend
  <2> USE <1>4 DEF ServerSend, clients
  <2>0. PICK m \in Messages : m = [hand EXCEPT !.mtype = hand.from]
    BY <1>0 DEF Messages, Types
  <2>1. m \in Messages /\ m.from = hand.from /\ m.line = hand.line /\ m.mtype = hand.from
    BY <1>0, <2>0 DEF Messages
  <2>2. queue' = Append(queue, m)
    BY <2>0
  <2>3. /\ queue' \in Seq(Messages)
        /\ Len(queue') = Len(queue) + 1
        /\ \A k \in 1..Len(queue) : queue'[k] = queue[k]
        /\ queue'[Len(queue) + 1] = m
    BY <2>1, <2>2, AppendProperties
  <2>4. \A k \in 1..Len(queue') : k \in 1..Len(queue) \/ k = Len(queue) + 1
    BY <2>3
  <2>5. Underway'
    <3>1. OfThisRound(m)'  BY <1>0, <2>1 DEF OfThisRound
    <3>2. \A n \in Messages : OfThisRound(n) => OfThisRound(n)'
      BY DEF OfThisRound
    <3>3. ASSUME NEW k \in 1..Len(queue') PROVE OfThisRound(queue[k])'
      <4>1. CASE k \in 1..Len(queue)
        BY <4>1, <1>0, <2>3, <3>2 DEF OfThisRound
      <4>2. CASE k = Len(queue) + 1
        BY <4>2, <2>3, <3>1 DEF OfThisRound
      <4> QED BY <4>1, <4>2, <2>4
    <3> QED BY <3>3 DEF Underway
  <2>6. Single'
    BY <2>1, <2>3, <2>4 DEF Single
  <2>7. METypeOK'
    BY <2>3 DEF Room
  <2> QED BY <2>5, <2>6, <2>7 DEF Unstarted, OwnType, AnswerIsOwn
<1> QED BY <1>1, <1>2, <1>3, <1>4 DEF ServerNext

\* The invariant holds in every reachable state.
LEMMA MESpecIInv == MESpec => []MEIInv
<1>1. ASSUME MEIInv, [MENext]_meVars PROVE MEIInv'
  <2>1. CASE UNCHANGED meVars
    BY <1>1, <2>1 DEF MEIInv, METypeOK, Underway, Single, OfThisRound, Unstarted, OwnType,
        AnswerIsOwn, meVars, clients, srv
  <2> QED BY <1>1, <2>1, ClientStep, ServerStep DEF MENext
<1> QED BY <1>1, MEInitIInv, PTL DEF MESpec

-----------------------------------------------------------------------------
(* Results *)

\* The variables always have their types; the queue never exceeds its limit.
THEOREM METypeOKHolds == MESpec => []METypeOK
<1>1. MEIInv => METypeOK  BY DEF MEIInv
<1> QED BY <1>1, MESpecIInv, PTL

\* A client prints the line it has typed, whoever was killed before.
THEOREM AnswerIsOwnHolds == MESpec => []AnswerIsOwn
<1>1. MEIInv => AnswerIsOwn  BY DEF MEIInv
<1> QED BY <1>1, MESpecIInv, PTL

\* The server is never blocked by a full queue if every client's message
\* fits: the messages in the queue are those of different clients, and none
\* is of the client that the server answers.
THEOREM NeverFullForAnswerHolds == MESpec => []NeverFullForAnswer
<1>1. ASSUME MEIInv PROVE NeverFullForAnswer
  <2> SUFFICES ASSUME Cardinality(Clients) <= Capacity, server = "send" PROVE Room
    BY DEF NeverFullForAnswer
  <2> DEFINE Others == Clients \ {hand.from}
             f == [i \in 1..Len(queue) |-> queue[i].from]
  <2>1. Len(queue) \in Nat /\ hand.from \in Clients
        /\ \A i \in 1..Len(queue) : queue[i].from \in Clients
    BY <1>1, MessageFacts DEF MEIInv
  <2>2. f \in Injection(1..Len(queue), Others)
    <3>1. f \in [1..Len(queue) -> Others]
      BY <1>1, <2>1 DEF MEIInv, Single
    <3>2. \A i, j \in 1..Len(queue) : f[i] = f[j] => i = j
      BY <1>1 DEF MEIInv, Single
    <3> QED BY <3>1, <3>2 DEF Injection, IsInjective
  <2>3. /\ IsFiniteSet(Others)
        /\ Cardinality(Others) = Cardinality(Clients) - 1
    BY <2>1, MsgEchoAssumption, FS_RemoveElement
  <2> HIDE DEF f, Others
  <2>4. Cardinality(1..Len(queue)) <= Cardinality(Others)
    BY <2>2, <2>3, FS_Injection
  <2>5. Cardinality(1..Len(queue)) = Len(queue)
    BY <2>1, FS_Interval, Len(queue) - 1 + 1 = Len(queue), 1 \in Int, Len(queue) \in Int, SMTT(20)
  <2>6. Cardinality(Clients) \in Nat
    BY MsgEchoAssumption, FS_CardinalityType
  <2> QED BY <2>1, <2>3, <2>4, <2>5, <2>6, MsgEchoAssumption DEF Room
<1> QED BY <1>1, MESpecIInv, PTL

-----------------------------------------------------------------------------
(* ProdCons: mutex and condition variable *)

\* A consumer is in the wait set exactly while it is inside the wait call.
WaitingPc == \A c \in Consumers : c \in waiting <=> pc[c] = "waiting"

PCIInv == PCTypeOK /\ MutualExclusion /\ WaitingPc /\ NoLostWakeup /\ NoStaleCount

USE DEF ConsumerPc, ProducerPc, Threads

\* Initially every thread is at its lock and nothing is ready.
LEMMA PCInitIInv == PCInit => PCIInv
  BY ThreadsAssumption
     DEF PCInit, PCIInv, PCTypeOK, MutualExclusion, InCritical,
           WaitingPc, NoLostWakeup, NoStaleCount

\* Every step of a consumer keeps the invariant.
LEMMA ConsumerStep ==
  ASSUME PCIInv, NEW c \in Consumers, ConsumerNext(c)
  PROVE  PCIInv'
<1> USE ThreadsAssumption
<1> USE DEF PCIInv, PCTypeOK, MutualExclusion, InCritical,
           WaitingPc, NoLostWakeup, NoStaleCount
<1>1. CASE ConsumerLock(c)  BY <1>1 DEF ConsumerLock
<1>2. CASE CondWait(c)      BY <1>2 DEF CondWait
<1>3. CASE SpuriousWakeup(c) BY <1>3 DEF SpuriousWakeup
<1>4. CASE Relock(c)        BY <1>4 DEF Relock
<1>5. CASE SeesReady(c)     BY <1>5 DEF SeesReady
<1>6. CASE LoadReady(c)     BY <1>6 DEF LoadReady
<1>7. CASE Take(c)          BY <1>7 DEF Take, StoreReady
<1>8. CASE Unlock(c)        BY <1>8 DEF Unlock
<1> QED BY <1>1, <1>2, <1>3, <1>4, <1>5, <1>6, <1>7, <1>8 DEF ConsumerNext

\* Every step of a producer keeps the invariant.
LEMMA ProducerStep ==
  ASSUME PCIInv, NEW p \in Producers, ProducerNext(p)
  PROVE  PCIInv'
<1> USE ThreadsAssumption
<1> USE DEF PCIInv, PCTypeOK, MutualExclusion, InCritical,
           WaitingPc, NoLostWakeup, NoStaleCount
<1>1. CASE ProducerLock(p)  BY <1>1 DEF ProducerLock
<1>2. CASE LoadReady(p)     BY <1>2 DEF LoadReady
<1>3. CASE Produce(p)       BY <1>3 DEF Produce, StoreReady
<1>4. CASE Signal(p)        BY <1>4 DEF Signal
<1>5. CASE Unlock(p)        BY <1>5 DEF Unlock
<1> QED BY <1>1, <1>2, <1>3, <1>4, <1>5 DEF ProducerNext

\* The invariant is inductive.
LEMMA PCNextIInv == PCIInv /\ [PCNext]_pcVars => PCIInv'
<1> SUFFICES ASSUME PCIInv, [PCNext]_pcVars PROVE PCIInv'
  OBVIOUS
<1>1. CASE PCNext
  BY <1>1, ConsumerStep, ProducerStep DEF PCNext
<1>2. CASE UNCHANGED pcVars
  BY <1>2 DEF pcVars, PCIInv, PCTypeOK, MutualExclusion, InCritical,
           WaitingPc, NoLostWakeup, NoStaleCount
<1> QED BY <1>1, <1>2

LEMMA PCSpecIInv == PCSpec => []PCIInv
  BY PCInitIInv, PCNextIInv, PTL DEF PCSpec

\* Counters of threads and the mutex keep their types; nready is never
\* negative.
THEOREM PCTypeOKHolds == PCSpec => []PCTypeOK
<1>1. PCIInv => PCTypeOK  BY DEF PCIInv
<1> QED BY <1>1, PCSpecIInv, PTL

\* The mutex of demo07 excludes: a thread is between lock and unlock exactly
\* while it owns the mutex, whatever the wake-ups do.
THEOREM MutualExclusionHolds == PCSpec => []MutualExclusion
<1>1. PCIInv => MutualExclusion  BY DEF PCIInv
<1> QED BY <1>1, PCSpecIInv, PTL

\* No count of demo07 is stale when it is used, for any numbers of threads: a
\* test that saw a product still holds at the load after it, and a store writes
\* what comes from the count of that moment.
THEOREM NoStaleCountHolds == PCSpec => []NoStaleCount
<1>1. PCIInv => NoStaleCount  BY DEF PCIInv
<1> QED BY <1>1, PCSpecIInv, PTL

\* No interleaving loses a wake-up in demo07: all consumers sleep with a
\* product ready only in the instant before its producer signals.
THEOREM NoLostWakeupHolds == PCSpec => []NoLostWakeup
<1>1. PCIInv => NoLostWakeup  BY DEF PCIInv
<1> QED BY <1>1, PCSpecIInv, PTL

\* Only the owner of the mutex changes nready, by one, and never below 0.
THEOREM OneAtATimeHolds == PCSpec => OneAtATime
<1> DEFINE Step == nready' # nready =>
                     /\ owner # NoThread
                     /\ owner \in Producers => nready' = nready + 1
                     /\ owner \in Consumers => nready > 0 /\ nready' = nready - 1
<1>1. PCIInv /\ [PCNext]_pcVars => [Step]_pcVars
  <2> SUFFICES ASSUME PCIInv, PCNext PROVE Step
    OBVIOUS
  <2> USE ThreadsAssumption DEF PCIInv, PCTypeOK, MutualExclusion, InCritical, NoStaleCount
  <2>1. ASSUME NEW c \in Consumers, ConsumerNext(c) PROVE Step
    <3>1. CASE Take(c)  BY <3>1 DEF Take, StoreReady
    <3>2. CASE ~Take(c)
      BY <2>1, <3>2 DEF ConsumerNext, ConsumerLock, CondWait, SpuriousWakeup,
                        Relock, SeesReady, LoadReady, Unlock
    <3> QED BY <3>1, <3>2
  <2>2. ASSUME NEW p \in Producers, ProducerNext(p) PROVE Step
    <3>1. CASE Produce(p)  BY <3>1 DEF Produce, StoreReady
    <3>2. CASE ~Produce(p)
      BY <2>2, <3>2 DEF ProducerNext, ProducerLock, LoadReady, Signal, Unlock
    <3> QED BY <3>1, <3>2
  <2> QED BY <2>1, <2>2 DEF PCNext
<1> QED BY <1>1, PCSpecIInv, PTL DEF PCSpec, OneAtATime
==============================================================================
