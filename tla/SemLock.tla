------------------------------ MODULE SemLock ------------------------------
(***************************************************************************)
(* A counter in shared memory guarded by a System V semaphore              *)
(* (fork/sem/mulfork.c with semUtil.h and shmUtil.h).                      *)
(*                                                                         *)
(* A starter is one execution of main(): it creates or opens the           *)
(* semaphore, sets its value and forks its workers.  A worker runs         *)
(* incSem() a number of times: P, increment of the counter (a load and a   *)
(* store), V.  P and V carry SEM_UNDO: the kernel keeps for each process   *)
(* the adjustment that undoes its operations and applies it when the       *)
(* process ends, in whatever way.  SETVAL discards every adjustment.       *)
(***************************************************************************)
EXTENDS Integers, FiniteSets

CONSTANTS Starters,   \* executions of the program
          Workers,    \* the processes they fork
          Owner,      \* which starter forks a worker
          SemVal,     \* the argument of sem_setval
          Rounds      \* calls of incSem() per worker

ASSUME SemLockAssumption ==
    /\ Owner \in [Workers -> Starters]
    /\ IsFiniteSet(Workers)
    /\ SemVal \in Nat
    /\ Rounds \in Nat

VARIABLES created,  \* semget has created the semaphore
          semval,   \* its value
          semadj,   \* what the kernel adds to it when a worker ends
          main,     \* where each starter is
          worker,   \* where each worker is
          round,    \* completed calls of incSem()
          counter,  \* the integer in shared memory
          loaded    \* what a worker has read of it

sem    == <<created, semval, semadj>>
shm    == <<counter, loaded>>
slVars == <<sem, main, worker, round, shm>>

SLTypeOK ==
    /\ created \in BOOLEAN
    /\ semval \in Nat
    /\ semadj \in [Workers -> Int]
    /\ main \in [Starters -> {"create", "setval", "fork", "returned"}]
    /\ worker \in [Workers -> {"unborn", "idle", "load", "store", "release", "ended"}]
    /\ round \in [Workers -> 0..Rounds]
    /\ counter \in Nat
    /\ loaded \in [Workers -> Nat]

SLInit ==
    /\ created = FALSE
    /\ semval = 0
    /\ semadj = [w \in Workers |-> 0]
    /\ main = [s \in Starters |-> "create"]
    /\ worker = [w \in Workers |-> "unborn"]
    /\ round = [w \in Workers |-> 0]
    /\ counter = 0
    /\ loaded = [w \in Workers |-> 0]

-----------------------------------------------------------------------------
(* main() *)

\* sem_create makes a semaphore of value 0, or finds that it exists; in that
\* case it is opened, and main goes on in the same way.
Create(s) ==
    /\ main[s] = "create"
    /\ created' = TRUE
    /\ main' = [main EXCEPT ![s] = "setval"]
    /\ UNCHANGED <<semval, semadj, worker, round, shm>>

SetVal(s) ==
    /\ main[s] = "setval"
    /\ semval' = SemVal
    /\ semadj' = [w \in Workers |-> 0]
    /\ main' = [main EXCEPT ![s] = "fork"]
    /\ UNCHANGED <<created, worker, round, shm>>

ForkWorker(s, w) ==
    /\ main[s] = "fork"
    /\ Owner[w] = s
    /\ worker[w] = "unborn"
    /\ worker' = [worker EXCEPT ![w] = "idle"]
    /\ UNCHANGED <<sem, main, round, shm>>

\* After the last fork, or when one fails; the children are not waited for.
Return(s) ==
    /\ main[s] = "fork"
    /\ main' = [main EXCEPT ![s] = "returned"]
    /\ UNCHANGED <<sem, worker, round, shm>>

-----------------------------------------------------------------------------
(* incSem() *)

\* Mutant: the operation is not undone when the process ends.
AcquireNoUndo(w) ==
    /\ worker[w] = "idle" /\ round[w] < Rounds
    /\ semval > 0
    /\ semval' = semval - 1
    /\ worker' = [worker EXCEPT ![w] = "load"]
    /\ UNCHANGED <<created, semadj, main, round, shm>>

\* Mutant: IPC_NOWAIT, whose error sem_p's caller does not look at.
AcquireNoWait(w) ==
    /\ worker[w] = "idle" /\ round[w] < Rounds
    /\ IF semval > 0
       THEN /\ semval' = semval - 1
            /\ semadj' = [semadj EXCEPT ![w] = @ + 1]
       ELSE UNCHANGED <<semval, semadj>>
    /\ worker' = [worker EXCEPT ![w] = "load"]
    /\ UNCHANGED <<created, main, round, shm>>

\* sem_p: semop with {0, -1, SEM_UNDO} sleeps until the value is positive.
Acquire(w) ==
    /\ worker[w] = "idle" /\ round[w] < Rounds
    /\ semval > 0
    /\ semval' = semval - 1
    /\ semadj' = [semadj EXCEPT ![w] = @ + 1]
    /\ worker' = [worker EXCEPT ![w] = "load"]
    /\ UNCHANGED <<created, main, round, shm>>

\* *addr += 1 is a load and a store of the shared integer.
Load(w) ==
    /\ worker[w] = "load"
    /\ loaded' = [loaded EXCEPT ![w] = counter]
    /\ worker' = [worker EXCEPT ![w] = "store"]
    /\ UNCHANGED <<sem, main, round, counter>>

Store(w) ==
    /\ worker[w] = "store"
    /\ counter' = loaded[w] + 1
    /\ worker' = [worker EXCEPT ![w] = "release"]
    /\ UNCHANGED <<sem, main, round, loaded>>

\* sem_v
Release(w) ==
    /\ worker[w] = "release"
    /\ semval' = semval + 1
    /\ semadj' = [semadj EXCEPT ![w] = @ - 1]
    /\ round' = [round EXCEPT ![w] = @ + 1]
    /\ worker' = [worker EXCEPT ![w] = "idle"]
    /\ UNCHANGED <<created, main, shm>>

\* The kernel undoes the operations of a process that ends; the value of a
\* semaphore never falls below 0.
Ends(w) ==
    /\ semval' = IF semval + semadj[w] < 0 THEN 0 ELSE semval + semadj[w]
    /\ semadj' = [semadj EXCEPT ![w] = 0]
    /\ worker' = [worker EXCEPT ![w] = "ended"]
    /\ UNCHANGED <<created, main, round, shm>>

Exit(w) ==
    /\ worker[w] = "idle" /\ round[w] = Rounds
    /\ Ends(w)

\* A worker is killed anywhere, also while it holds the semaphore.
Killed(w) ==
    /\ worker[w] \notin {"unborn", "ended"}
    /\ Ends(w)

-----------------------------------------------------------------------------
StarterNext(s) ==
    \/ Create(s) \/ SetVal(s) \/ Return(s)
    \/ \E w \in Workers : ForkWorker(s, w)

WorkerNext(w) ==
    Acquire(w) \/ Load(w) \/ Store(w) \/ Release(w) \/ Exit(w) \/ Killed(w)

SLNext ==
    \/ \E s \in Starters : StarterNext(s)
    \/ \E w \in Workers : WorkerNext(w)

SLSpec == SLInit /\ [][SLNext]_slVars

\* Sleepers on a System V semaphore are queued and woken in turn, so a worker
\* that finds the value positive again and again gets it: strong fairness.
SLFairness ==
    \A w \in Workers :
        /\ SF_slVars(Acquire(w))
        /\ WF_slVars(Load(w) \/ Store(w) \/ Release(w) \/ Exit(w))

SLFairSpec == SLSpec /\ SLFairness

-----------------------------------------------------------------------------
(* Properties *)

Holders == {w \in Workers : worker[w] \in {"load", "store", "release"}}
Started == \E s \in Starters : main[s] \in {"fork", "returned"}

\* Permits are neither lost nor invented, by kills in particular: the value
\* and the processes that hold the semaphore add up to what main() has set.
Conservation == Started => semval + Cardinality(Holders) = SemVal

\* The adjustment the kernel keeps for a worker is what it holds and no more.
AdjustmentIsHolding ==
    \A w \in Workers : semadj[w] = IF w \in Holders THEN 1 ELSE 0

\* The semaphore locks the counter: a store adds one to what the counter is,
\* so no increment of another worker is lost.  This needs the value 1.
NoLostUpdate ==
    [][\A w \in Workers :
          worker[w] = "store" /\ worker'[w] = "release" => counter' = counter + 1]_slVars

\* When every worker has ended, all that they did to the semaphore is undone.
UndoneAtExit ==
    (\A s \in Starters : main[s] = "returned")
      /\ (\A w \in Workers : worker[w] = "ended") => semval = SemVal

\* Every worker that waits gets its turn, though others may be killed while
\* they hold the semaphore.
EveryWorkerEnds == \A w \in Workers : worker[w] = "idle" ~> worker[w] = "ended"
=============================================================================
