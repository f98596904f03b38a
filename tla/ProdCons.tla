------------------------------ MODULE ProdCons ------------------------------
(***************************************************************************)
(* Producers and consumers that share one counter, one mutex and one       *)
(* condition variable (pthread/demo07/pthread.c).                          *)
(*                                                                         *)
(* Every thread runs an endless loop.  A consumer locks g_mutex, waits on  *)
(* g_cond while nready is 0, takes one product and unlocks; a producer     *)
(* locks, adds one product, signals and unlocks.  --nready and ++nready    *)
(* are a load and a store, and the test before them a load of its own, so  *)
(* that what the mutex protects is visible: without it a count could be    *)
(* stale when it is used.  The sleep(1) that ends each round has no state  *)
(* and is the interleaving between two rounds.                             *)
(***************************************************************************)
EXTENDS Naturals, FiniteSets

CONSTANTS Consumers,   \* CONSUMERS_COUNT threads running consume()
          Producers,   \* PRODUCTS_COUNT threads running produce()
          NoThread,    \* "nobody owns the mutex"
          MaxReady     \* bound on nready: the code has none

Threads == Consumers \cup Producers

ASSUME ThreadsAssumption ==
    /\ Consumers \cap Producers = {}
    /\ NoThread \notin Threads
    /\ MaxReady \in Nat \ {0}

VARIABLES owner,    \* the thread that holds g_mutex, or NoThread
          waiting,  \* threads blocked inside pthread_cond_wait(&g_cond)
          nready,   \* products ready
          register, \* the count each thread has loaded and will store, else 0
          pc        \* where each thread is

pcVars == <<owner, waiting, nready, register, pc>>

ConsumerPc == {"lock", "test", "waiting", "relock", "load", "store", "unlock"}
ProducerPc == {"lock", "load", "store", "signal", "unlock"}

PCTypeOK ==
    /\ owner \in Threads \cup {NoThread}
    /\ waiting \in SUBSET Consumers
    /\ nready \in Nat
    /\ register \in [Threads -> Nat]
    /\ pc \in [Threads -> ConsumerPc \cup ProducerPc]
    /\ \A c \in Consumers : pc[c] \in ConsumerPc
    /\ \A p \in Producers : pc[p] \in ProducerPc

PCInit ==
    /\ owner = NoThread
    /\ waiting = {}
    /\ nready = 0
    /\ register = [t \in Threads |-> 0]
    /\ pc = [t \in Threads |-> "lock"]

-----------------------------------------------------------------------------
(* ++nready and --nready: what is stored depends on who stores *)

LoadReady(t) ==
    /\ pc[t] = "load"
    /\ register' = [register EXCEPT ![t] = nready]
    /\ pc' = [pc EXCEPT ![t] = "store"]
    /\ UNCHANGED <<owner, waiting, nready>>

StoreReady(t, count, next) ==
    /\ pc[t] = "store"
    /\ nready' = count
    /\ register' = [register EXCEPT ![t] = 0]
    /\ pc' = [pc EXCEPT ![t] = next]
    /\ UNCHANGED <<owner, waiting>>

Unlock(t) ==
    /\ pc[t] = "unlock"
    /\ owner' = NoThread
    /\ pc' = [pc EXCEPT ![t] = "lock"]
    /\ UNCHANGED <<waiting, nready, register>>

-----------------------------------------------------------------------------
(* consume() *)

ConsumerLock(c) ==
    /\ pc[c] = "lock"
    /\ owner = NoThread
    /\ owner' = c
    /\ pc' = [pc EXCEPT ![c] = "test"]
    /\ UNCHANGED <<waiting, nready, register>>

\* while (0 == nready) pthread_cond_wait(...): releasing the mutex and
\* joining the wait set are one atomic step of the library.
CondWait(c) ==
    /\ pc[c] = "test"
    /\ nready = 0
    /\ owner' = NoThread
    /\ waiting' = waiting \cup {c}
    /\ pc' = [pc EXCEPT ![c] = "waiting"]
    /\ UNCHANGED <<nready, register>>

\* POSIX lets pthread_cond_wait return without a signal.
SpuriousWakeup(c) ==
    /\ c \in waiting
    /\ waiting' = waiting \ {c}
    /\ pc' = [pc EXCEPT ![c] = "relock"]
    /\ UNCHANGED <<owner, nready, register>>

\* A woken thread gets the mutex back and tests the condition again.
Relock(c) ==
    /\ pc[c] = "relock"
    /\ owner = NoThread
    /\ owner' = c
    /\ pc' = [pc EXCEPT ![c] = "test"]
    /\ UNCHANGED <<waiting, nready, register>>

\* The loop ends: there is something to take.
SeesReady(c) ==
    /\ pc[c] = "test"
    /\ nready # 0
    /\ pc' = [pc EXCEPT ![c] = "load"]
    /\ UNCHANGED <<owner, waiting, nready, register>>

Take(c) == StoreReady(c, register[c] - 1, "unlock")

-----------------------------------------------------------------------------
(* produce(); the guard on nready is the model's bound, not the code's *)

\* Mutant: produce() forgets pthread_mutex_lock.
ProducerLockForgotten(p) ==
    /\ pc[p] = "lock"
    /\ nready < MaxReady
    /\ pc' = [pc EXCEPT ![p] = "load"]
    /\ UNCHANGED <<owner, waiting, nready, register>>

ProducerLock(p) ==
    /\ pc[p] = "lock"
    /\ owner = NoThread
    /\ nready < MaxReady
    /\ owner' = p
    /\ pc' = [pc EXCEPT ![p] = "load"]
    /\ UNCHANGED <<waiting, nready, register>>

Produce(p) == StoreReady(p, register[p] + 1, "signal")

\* Mutant: the signal is forgotten.
SignalForgotten(p) ==
    /\ pc[p] = "signal"
    /\ pc' = [pc EXCEPT ![p] = "unlock"]
    /\ UNCHANGED <<owner, waiting, nready, register>>

\* pthread_cond_signal wakes at least one waiting thread if there is any.
Signal(p) ==
    /\ pc[p] = "signal"
    /\ \E woken \in SUBSET waiting :
          /\ waiting # {} => woken # {}
          /\ waiting' = waiting \ woken
          /\ pc' = [t \in Threads |-> IF t = p THEN "unlock"
                                      ELSE IF t \in woken THEN "relock"
                                      ELSE pc[t]]
    /\ UNCHANGED <<owner, nready, register>>

-----------------------------------------------------------------------------
ConsumerNext(c) ==
    \/ ConsumerLock(c) \/ CondWait(c) \/ SpuriousWakeup(c)
    \/ Relock(c) \/ SeesReady(c) \/ LoadReady(c) \/ Take(c) \/ Unlock(c)

ProducerNext(p) ==
    \/ ProducerLock(p) \/ LoadReady(p) \/ Produce(p) \/ Signal(p) \/ Unlock(p)

PCNext ==
    \/ \E c \in Consumers : ConsumerNext(c)
    \/ \E p \in Producers : ProducerNext(p)

PCSpec == PCInit /\ [][PCNext]_pcVars

\* The scheduler runs every runnable thread.  A mutex is only intermittently
\* free, and every thread sleeps one second after it unlocks, so a thread
\* blocked in pthread_mutex_lock gets it in the end: strong fairness.
PCFairness ==
    /\ \A c \in Consumers :
          /\ SF_pcVars(ConsumerLock(c)) /\ SF_pcVars(Relock(c))
          /\ WF_pcVars(CondWait(c)) /\ WF_pcVars(SeesReady(c)) /\ WF_pcVars(Take(c))
    /\ \A p \in Producers :
          /\ SF_pcVars(ProducerLock(p))
          /\ WF_pcVars(Produce(p)) /\ WF_pcVars(Signal(p))
    /\ \A t \in Threads : WF_pcVars(LoadReady(t)) /\ WF_pcVars(Unlock(t))

PCFairSpec == PCSpec /\ PCFairness

-----------------------------------------------------------------------------
(* Properties *)

InCritical(t) == pc[t] \in {"test", "load", "store", "signal", "unlock"}

\* Only the owner of g_mutex is between lock and unlock: pthread_cond_wait
\* really gives the mutex up, and no wake-up path re-enters without it.
MutualExclusion == \A t \in Threads : InCritical(t) <=> owner = t

\* No count is stale when it is used: a consumer that has seen a product ready
\* still finds one when it takes it, however many others were woken for it, and
\* what a thread is about to store comes from the count of this moment,
\* so that no product is lost and none is made out of nothing.
NoStaleCount ==
    \A t \in Threads :
        /\ pc[t] \in {"load", "store"} /\ t \in Consumers => nready > 0
        /\ pc[t] = "store" => register[t] = nready

\* No lost wake-up: when every consumer sleeps in pthread_cond_wait, nothing
\* is ready, unless the producer that added it has not signalled yet.
NoLostWakeup ==
    (Consumers # {} /\ waiting = Consumers /\ nready > 0)
        => \E p \in Producers : pc[p] = "signal"

\* A step never takes a product that is not there, and changes nready by one
\* at a time, and only the owner of the mutex changes it.
OneAtATime ==
    [][nready' # nready =>
          /\ owner # NoThread
          /\ owner \in Producers => nready' = nready + 1
          /\ owner \in Consumers => nready > 0 /\ nready' = nready - 1]_pcVars

\* A ready product is eventually taken by some consumer.
ReadyIsConsumed ==
    (nready > 0) ~> (\E c \in Consumers : pc[c] = "unlock")

=============================================================================
