-------------------------- MODULE ThreadPoolProofs --------------------------
(***************************************************************************)
(* Theorems about ThreadPool, for every number of workers, clients and     *)
(* tasks and every capacity of the queue: the threads and the mutex first, *)
(* then the tasks.                                                         *)
(***************************************************************************)
EXTENDS ThreadPool, Induction, FiniteSetTheorems, TLAPS

(* Abbreviations of the actions, expanded in every proof.                  *)
USE DEF countVars, clientVars, controlVars, Goes, MayRetire

-----------------------------------------------------------------------------
(* Counting threads                                                        *)

LEMMA WorkerFinite == IsFiniteSet(Worker) /\ Cardinality(Worker) = MaxNum
<1>1. MaxNum \in Nat \ {0}
  BY PoolAssumption
<1> QED
  BY <1>1, FS_Interval DEF Worker

(* A thread that joins a set of threads adds one to its cardinality, one   *)
(* that leaves it takes one away.                                          *)
LEMMA CountUp ==
  ASSUME NEW U, IsFiniteSet(U), NEW S \in SUBSET U, NEW x \in U \ S
  PROVE  Cardinality(S \union {x}) = Cardinality(S) + 1
<1>1. IsFiniteSet(S)
  BY FS_Subset
<1> QED
  BY <1>1, FS_AddElement

LEMMA CountDown ==
  ASSUME NEW U, IsFiniteSet(U), NEW S \in SUBSET U, NEW x \in S
  PROVE  Cardinality(S \ {x}) = Cardinality(S) - 1
<1>1. IsFiniteSet(S)
  BY FS_Subset
<1> QED
  BY <1>1, FS_RemoveElement

LEMMA CountType ==
  ASSUME NEW U, IsFiniteSet(U), NEW S \in SUBSET U
  PROVE  /\ Cardinality(S) \in Nat
         /\ Cardinality(S) <= Cardinality(U)
         /\ S # {} => Cardinality(S) >= 1
<1>1. IsFiniteSet(S) /\ Cardinality(S) <= Cardinality(U)
  BY FS_Subset
<1>2. Cardinality(S) \in Nat /\ (Cardinality(S) = 0 <=> S = {})
  BY <1>1, FS_CardinalityType, FS_EmptySet
<1> QED
  BY <1>1, <1>2

-----------------------------------------------------------------------------
(* Types                                                                   *)

(* The calls in progress will not add more tasks than MaxTasks.            *)
CallsBounded == added + Cardinality(Calling) <= MaxTasks

TypeInv == TypeOK /\ CallsBounded

LEMMA InitTypes == Init => TypeInv
<1> SUFFICES ASSUME Init PROVE TypeInv
  OBVIOUS
<1>1. QueueTypes
  BY PoolAssumption DEF Init, Slot, QueueTypes
<1>2. PoolTypes
  BY PoolAssumption DEF Init, PoolTypes
<1>3. WorkerTypes
  BY DEF Init, WorkerState, WorkerTypes
<1>4. ManagerTypes
  BY DEF Init, ManagerTypes, Unread, Start
<1>5. OwnerTypes
  BY DEF Init, OwnerTypes
<1>6. ClientTypes
  BY PoolAssumption DEF Init, ClientTypes, ProducerState
<1>7. Calling = {}
  BY DEF Init, Calling
<1>8. CallsBounded
  BY <1>7, FS_EmptySet, PoolAssumption DEF Init, CallsBounded
<1> QED
  BY <1>1, <1>2, <1>3, <1>4, <1>5, <1>6, <1>8 DEF TypeInv, TypeOK

(* The condition variables are signalled by a change of worker or producer *)
(* that keeps their types, and no client returns or is called by it.       *)
LEMMA SignalTypes ==
  ASSUME TypeOK
  PROVE  /\ SignalNotEmpty => worker' \in [Worker -> WorkerState]
         /\ SignalNotFull => producer' \in [Producers -> ProducerState]
         /\ SignalNotFull => Calling' = Calling
<1>1. SignalNotEmpty => worker' \in [Worker -> WorkerState]
  BY DEF TypeOK, WorkerTypes, SignalNotEmpty, Asleep, WorkerState
<1>2. SignalNotFull => producer' \in [Producers -> ProducerState]
  BY DEF TypeOK, ClientTypes, ProducerState, SignalNotFull
<1>3. SignalNotFull => Calling' = Calling
  BY DEF TypeOK, ClientTypes, ProducerState, SignalNotFull, Calling
<1> QED
  BY <1>1, <1>2, <1>3

(* What each half of an operation on the queue does to the types. *)
LEMMA AddTypes ==
  ASSUME TypeInv, NEW p \in Producers, AddLoop(p),
         producer[p] \in {"lock", "woken"}, UNCHANGED runs
  PROVE  /\ QueueTypes'
         /\ worker' \in [Worker -> WorkerState]
         /\ ClientTypes'
         /\ CallsBounded'
<1> DEFINE C == Cardinality(Calling)
<1>1. IsFiniteSet(Producers) /\ Calling \subseteq Producers
  BY PoolAssumption DEF Calling
<1>2. C \in Nat /\ C >= 1 /\ p \in Calling
  <2>1. p \in Calling
    BY DEF Calling
  <2> QED
    BY <1>1, <2>1, CountType
<1>3. MaxTasks \in Nat /\ QueueCapacity \in Nat \ {0}
  BY PoolAssumption
<1>4. CASE AddBlocks(p)
  <2>1. Calling' = Calling
    BY <1>4 DEF AddBlocks, Calling, TypeInv, TypeOK, ClientTypes
  <2>2. added + Cardinality(Calling') <= MaxTasks
    BY <2>1 DEF TypeInv, CallsBounded
  <2> QED
    BY <1>4, <2>2
    DEF AddBlocks, TypeInv, TypeOK, QueueTypes, WorkerTypes, ClientTypes,
        ProducerState, CallsBounded, queueVars
<1>5. ASSUME producer' = [producer EXCEPT ![p] = "out"]
      PROVE  /\ Cardinality(Calling') \in Nat
             /\ Cardinality(Calling') = C - 1
             /\ producer' \in [Producers -> ProducerState]
  <2>1. Calling' = Calling \ {p}
    BY <1>5 DEF Calling, TypeInv, TypeOK, ClientTypes
  <2>2. IsFiniteSet(Calling)
    BY <1>1, FS_Subset
  <2>3. /\ IsFiniteSet(Calling')
        /\ Cardinality(Calling') = C - 1
    BY <1>2, <2>1, <2>2, FS_RemoveElement
  <2>4. producer' \in [Producers -> ProducerState]
    BY <1>5 DEF TypeInv, TypeOK, ClientTypes, ProducerState
  <2> QED
    BY <2>3, <2>4, FS_CardinalityType
<1>6. CASE AddRefused(p)
  BY <1>2, <1>3, <1>5, <1>6
  DEF AddRefused, TypeInv, TypeOK, QueueTypes, WorkerTypes, ClientTypes,
      CallsBounded, queueVars
<1>7. CASE Enqueue(p)
  <2>1. added + 1 + Cardinality(Calling') <= MaxTasks
    <3>1. producer' = [producer EXCEPT ![p] = "out"]
      BY <1>7 DEF Enqueue
    <3> QED
      BY <1>2, <1>3, <1>5, <3>1 DEF TypeInv, TypeOK, ClientTypes, CallsBounded
  <2>2. added' = added + 1 /\ added + 1 \in Task
    BY <1>2, <1>3, <1>5, <1>7, <2>1
    DEF Enqueue, PutTask, TypeInv, TypeOK, ClientTypes, Task
  <2>3. QueueTypes'
    <3>1. (queueRear + 1) % QueueCapacity \in Slot
      BY <1>3 DEF TypeInv, TypeOK, QueueTypes, Slot
    <3> QED
      BY <1>7, <2>2, <3>1 DEF Enqueue, PutTask, TypeInv, TypeOK, QueueTypes
  <2> QED
    BY <1>3, <1>5, <1>7, <2>1, <2>2, <2>3, SignalTypes
    DEF Enqueue, TypeInv, TypeOK, ClientTypes, CallsBounded, Task
<1> QED
  BY <1>4, <1>6, <1>7 DEF AddLoop

LEMMA QueueTestTypes ==
  ASSUME TypeInv, NEW w \in Worker, QueueTest(w), UNCHANGED <<added, runs>>
  PROVE  /\ QueueTypes'
         /\ WorkerTypes'
         /\ mutexPool' \in Worker \union {ManagerTid, Unlocked}
         /\ ClientTypes'
         /\ CallsBounded'
<1>1. CASE FindsNothing(w)
  BY <1>1
  DEF FindsNothing, TypeInv, TypeOK, QueueTypes, PoolTypes, WorkerTypes,
      WorkerState, ClientTypes, CallsBounded, Calling, queueVars
<1>2. CASE FindsShutDown(w)
  BY <1>2
  DEF FindsShutDown, TypeInv, TypeOK, QueueTypes, PoolTypes, WorkerTypes,
      WorkerState, ClientTypes, CallsBounded, Calling, queueVars
<1>3. CASE Dequeue(w)
  <2>1. QueueTypes' /\ WorkerTypes'
    <3>1. (queueFront + 1) % QueueCapacity \in Slot
      BY PoolAssumption DEF TypeInv, TypeOK, QueueTypes, Slot
    <3> QED
      BY <1>3, <3>1
      DEF Dequeue, TakeTask, TypeInv, TypeOK, QueueTypes, WorkerTypes, WorkerState
  <2>2. ClientTypes' /\ CallsBounded'
    BY <1>3, SignalTypes
    DEF Dequeue, TypeInv, TypeOK, ClientTypes, CallsBounded
  <2> QED
    BY <1>3, <2>1, <2>2 DEF Dequeue, TypeInv, TypeOK, PoolTypes
<1> QED
  BY <1>1, <1>2, <1>3 DEF QueueTest

LEMMA TypeStep == TypeInv /\ [Next]_vars => TypeInv'
<1> SUFFICES ASSUME TypeInv, [Next]_vars PROVE TypeInv'
  OBVIOUS
<1> USE DEF TypeInv, TypeOK
<1>1. ASSUME NEW p \in Producers, ThreadPoolAdd(p) PROVE TypeInv'
  <2>1. producer' \in [Producers -> ProducerState]
    BY <1>1 DEF ThreadPoolAdd, ClientTypes, ProducerState
  <2>2. added + Cardinality(Calling') <= MaxTasks
    <3>1. Calling' = Calling \union {p} /\ p \in Producers \ Calling
      BY <1>1 DEF ThreadPoolAdd, Calling, ClientTypes
    <3>2. Calling \in SUBSET Producers
      BY DEF Calling
    <3>3. Cardinality(Calling') = Cardinality(Calling) + 1 /\ Cardinality(Calling) \in Nat
      BY <3>1, <3>2, PoolAssumption, CountUp, CountType
    <3> QED
      BY <1>1, <3>3, PoolAssumption DEF ThreadPoolAdd, ClientTypes
  <2> QED
    BY <1>1, <2>1, <2>2
    DEF ThreadPoolAdd, QueueTypes, PoolTypes, WorkerTypes, ManagerTypes, OwnerTypes,
        ClientTypes, CallsBounded, queueVars, managerVars, ownerVars
<1>2. ASSUME NEW p \in Producers, AddTests(p) PROVE TypeInv'
  BY <1>2, AddTypes
  DEF AddTests, PoolTypes, WorkerTypes, ManagerTypes, OwnerTypes,
      managerVars, ownerVars
<1>3. ASSUME NEW p \in Producers, AddAfterFree(p) \/ AddSpuriousWakeup(p) PROVE TypeInv'
  <2>1. producer' \in [Producers -> ProducerState] /\ Calling' = Calling
    BY <1>3 DEF AddAfterFree, AddSpuriousWakeup, ClientTypes, ProducerState, Calling
  <2> QED
    BY <1>3, <2>1
    DEF AddAfterFree, AddSpuriousWakeup, QueueTypes, PoolTypes, WorkerTypes, ManagerTypes,
        OwnerTypes, ClientTypes, CallsBounded, queueVars, managerVars, ownerVars
<1>4. ASSUME NEW w \in Worker, WorkerLock(w) PROVE TypeInv'
  BY <1>4, QueueTestTypes
  DEF WorkerLock, PoolTypes, ManagerTypes, OwnerTypes, managerVars, ownerVars
<1>5. ASSUME NEW w \in Worker, WorkerWake(w) PROVE TypeInv'
  BY <1>5, QueueTestTypes
  DEF WorkerWake, PoolTypes, ManagerTypes, OwnerTypes, managerVars, ownerVars
<1>6. ASSUME NEW w \in Worker, WorkerSleep(w) PROVE TypeInv'
  BY <1>6
  DEF WorkerSleep, QueueTypes, PoolTypes, WorkerTypes, WorkerState, ManagerTypes, OwnerTypes,
      ClientTypes, CallsBounded, Calling, queueVars, managerVars, ownerVars
<1>7. ASSUME NEW w \in Worker, SpuriousWakeup(w) PROVE TypeInv'
  BY <1>7
  DEF SpuriousWakeup, QueueTypes, PoolTypes, WorkerTypes, WorkerState, ManagerTypes, OwnerTypes,
      ClientTypes, CallsBounded, Calling, queueVars, managerVars, ownerVars
<1>8. ASSUME NEW w \in Worker, WorkerRetires(w) PROVE TypeInv'
  BY <1>8
  DEF WorkerRetires, QueueTypes, PoolTypes, WorkerTypes, WorkerState, ManagerTypes, OwnerTypes,
      ClientTypes, CallsBounded, Calling, queueVars, managerVars, ownerVars
<1>9. ASSUME NEW w \in Worker, WorkerBusy(w) PROVE TypeInv'
  BY <1>9
  DEF WorkerBusy, QueueTypes, PoolTypes, WorkerTypes, WorkerState, ManagerTypes, OwnerTypes,
      ClientTypes, CallsBounded, Calling, queueVars, managerVars, ownerVars
<1>10. ASSUME NEW w \in Worker, WorkerRuns(w) PROVE TypeInv'
  BY <1>10
  DEF WorkerRuns, QueueTypes, PoolTypes, WorkerTypes, WorkerState, ManagerTypes, OwnerTypes,
      ClientTypes, CallsBounded, Calling, queueVars, managerVars, ownerVars
<1>11. ASSUME NEW w \in Worker, WorkerCallsGarbage(w) PROVE TypeInv'
  BY <1>11
  DEF WorkerCallsGarbage, QueueTypes, PoolTypes, WorkerTypes, WorkerState, ManagerTypes, OwnerTypes,
      ClientTypes, CallsBounded, Calling, queueVars, managerVars, ownerVars
<1>12. ASSUME NEW w \in Worker, WorkerIdle(w) PROVE TypeInv'
  BY <1>12
  DEF WorkerIdle, QueueTypes, PoolTypes, WorkerTypes, WorkerState, ManagerTypes, OwnerTypes,
      ClientTypes, CallsBounded, Calling, queueVars, managerVars, ownerVars
<1>13. ASSUME NEW w \in Worker, ThreadExit(w) PROVE TypeInv'
  BY <1>13
  DEF ThreadExit, QueueTypes, PoolTypes, WorkerTypes, WorkerState, ManagerTypes, OwnerTypes,
      ClientTypes, CallsBounded, Calling, queueVars, managerVars, ownerVars
<1>14. ASSUME NEW w \in Worker, UseAfterFree(w) PROVE TypeInv'
  BY <1>14
  DEF UseAfterFree, QueueTypes, PoolTypes, WorkerTypes, WorkerState, ManagerTypes, OwnerTypes,
      ClientTypes, CallsBounded, Calling, queueVars, managerVars, ownerVars
<1>15. CASE ManagerLoop
  BY <1>15
  DEF ManagerLoop, QueueTypes, PoolTypes, WorkerTypes, ManagerTypes, OwnerTypes,
      ClientTypes, CallsBounded, Calling, queueVars, managerVars, ownerVars
<1>16. CASE ManagerSample
  BY <1>16
  DEF ManagerSample, QueueTypes, PoolTypes, WorkerTypes, ManagerTypes, OwnerTypes,
      ClientTypes, CallsBounded, Calling, queueVars, managerVars, ownerVars
<1>17. CASE ManagerSampleBusy
  BY <1>17
  DEF ManagerSampleBusy, QueueTypes, PoolTypes, WorkerTypes, ManagerTypes, OwnerTypes,
      ClientTypes, CallsBounded, Calling, queueVars, managerVars, ownerVars, ShrinkOrEnd, EndPass, Unread, Start
<1>18. CASE ManagerGrow
  BY <1>18
  DEF ManagerGrow, QueueTypes, PoolTypes, WorkerTypes, ManagerTypes, OwnerTypes,
      ClientTypes, CallsBounded, Calling, queueVars, managerVars, ownerVars
<1>19. CASE ManagerCreates
  BY <1>19, PoolAssumption
  DEF ManagerCreates, QueueTypes, PoolTypes, WorkerTypes, ManagerTypes, OwnerTypes,
      ClientTypes, CallsBounded, Calling, queueVars, managerVars, ownerVars, WorkerState, Scanning, Worker
<1>20. CASE ManagerSkips
  BY <1>20
  DEF ManagerSkips, QueueTypes, PoolTypes, WorkerTypes, ManagerTypes, OwnerTypes,
      ClientTypes, CallsBounded, Calling, queueVars, managerVars, ownerVars
<1>21. CASE ManagerGrown
  BY <1>21
  DEF ManagerGrown, QueueTypes, PoolTypes, WorkerTypes, ManagerTypes, OwnerTypes,
      ClientTypes, CallsBounded, Calling, queueVars, managerVars, ownerVars, ShrinkOrEnd, EndPass, Unread, Start
<1>22. CASE ManagerShrink
  BY <1>22
  DEF ManagerShrink, QueueTypes, PoolTypes, WorkerTypes, ManagerTypes, OwnerTypes,
      ClientTypes, CallsBounded, Calling, queueVars, managerVars, ownerVars, NUMBER
<1>23. CASE ManagerSignal
  BY <1>23, SignalTypes
  DEF ManagerSignal, QueueTypes, PoolTypes, WorkerTypes, ManagerTypes, OwnerTypes,
      ClientTypes, CallsBounded, Calling, queueVars, managerVars, ownerVars, EndPass, Unread, Start
<1>24. CASE DestroyCall
  BY <1>24
  DEF DestroyCall, QueueTypes, PoolTypes, WorkerTypes, ManagerTypes, OwnerTypes,
      ClientTypes, CallsBounded, Calling, queueVars, managerVars, ownerVars
<1>25. CASE DestroyJoin
  BY <1>25
  DEF DestroyJoin, QueueTypes, PoolTypes, WorkerTypes, ManagerTypes, OwnerTypes,
      ClientTypes, CallsBounded, Calling, queueVars, managerVars, ownerVars
<1>26. CASE DestroySignal
  BY <1>26, SignalTypes
  DEF DestroySignal, QueueTypes, PoolTypes, WorkerTypes, ManagerTypes, OwnerTypes,
      ClientTypes, CallsBounded, Calling, queueVars, managerVars, ownerVars
<1>27. CASE DestroyFree
  BY <1>27
  DEF DestroyFree, QueueTypes, PoolTypes, WorkerTypes, ManagerTypes, OwnerTypes,
      ClientTypes, CallsBounded, Calling, queueVars, managerVars, ownerVars
<1>28. CASE UNCHANGED vars
  BY <1>28
  DEF vars, QueueTypes, PoolTypes, WorkerTypes, ManagerTypes, OwnerTypes,
      ClientTypes, CallsBounded, Calling, queueVars, managerVars, ownerVars
<1> QED
  BY <1>1, <1>2, <1>3, <1>4, <1>5, <1>6, <1>7, <1>8, <1>9, <1>10, <1>11, <1>12, <1>13, <1>14, <1>15, <1>16, <1>17, <1>18, <1>19, <1>20, <1>21, <1>22, <1>23, <1>24, <1>25, <1>26, <1>27, <1>28
  DEF Next, ProducerStep, WorkerStep, ManagerStep, OwnerStep

(* TypeOK: every variable keeps its type, for every queueSize that the     *)
(* allocation of the pool leaves behind.                                   *)
THEOREM TypeCorrect == Spec => []TypeOK
<1>1. TypeInv => TypeOK
  BY DEF TypeInv
<1> QED
  BY <1>1, InitTypes, TypeStep, PTL DEF Spec

-----------------------------------------------------------------------------
(* The number of threads                                                   *)

(* A worker that holds the mutex while it finds the queue empty keeps it   *)
(* until it sleeps; the manager keeps it while it scans.                   *)
Mutex ==
  /\ manager = "scan" => mutexPool = ManagerTid
  /\ \A w \in Worker : worker[w] = "wait" => mutexPool = w /\ queueSize = 0

(* threadPoolDestroy sets shutDown first and frees the memory last, and a  *)
(* worker leaves by the second exit only when it saw shutDown.             *)
Destruction ==
  /\ owner # "out" => shutDown
  /\ freed => owner = "returned"
  /\ \A w \in Worker : worker[w] = "exit" => shutDown

(* pthread_cond_signal(&notEmpty) wakes a sleeping worker or none.         *)
LEMMA SignalWakes ==
  ASSUME TypeInv, SignalNotEmpty
  PROVE  \A w \in Worker :
           \/ worker'[w] = worker[w]
           \/ worker[w] = "asleep" /\ worker'[w] = "woken"
BY DEF SignalNotEmpty, Asleep, TypeInv, TypeOK, WorkerTypes

(* Nobody is between a test of the queue and the wait, and nobody scans    *)
(* the thread table, while the mutex is free.                              *)
LEMMA MutexFree ==
  ASSUME TypeInv, Mutex, mutexPool = Unlocked
  PROVE  manager # "scan" /\ \A w \in Worker : worker[w] # "wait"
<1>1. Unlocked \notin Worker /\ Unlocked # ManagerTid
  BY PoolAssumption DEF Unlocked, Worker, ManagerTid
<1> QED
  BY <1>1 DEF Mutex

(* What the first half of a worker's round does to the thread table.       *)
LEMMA QueueTestMoves ==
  ASSUME TypeInv, NEW w \in Worker, QueueTest(w)
  PROVE  /\ \A v \in Worker \ {w} : worker'[v] = worker[v]
         /\ \/ /\ worker'[w] = "wait" /\ mutexPool' = w
               /\ queueSize = 0 /\ queueSize' = queueSize
            \/ worker'[w] = "exit" /\ mutexPool' = mutexPool /\ shutDown
            \/ worker'[w] = "taken" /\ mutexPool' = mutexPool
BY DEF QueueTest, FindsNothing, FindsShutDown, Dequeue, TypeInv, TypeOK,
       WorkerTypes, queueVars

(* What a call of threadPoolAdd does to it. *)
LEMMA AddMoves ==
  ASSUME TypeInv, NEW p \in Producers, AddLoop(p)
  PROVE  \A w \in Worker :
           \/ worker'[w] = worker[w]
           \/ worker[w] = "asleep" /\ worker'[w] = "woken"
BY SignalWakes DEF AddLoop, AddBlocks, AddRefused, Enqueue

LEMMA MutexStep == TypeInv /\ Mutex /\ [Next]_vars => Mutex'
<1> SUFFICES ASSUME TypeInv, Mutex, [Next]_vars PROVE Mutex'
  OBVIOUS
<1>1. ASSUME NEW p \in Producers,
             ThreadPoolAdd(p) \/ AddSpuriousWakeup(p) \/ AddAfterFree(p)
      PROVE  Mutex'
  <2>1. UNCHANGED <<queueVars, countVars, mutexPool, worker, task, controlVars>>
    BY <1>1, Zenon DEF ThreadPoolAdd, AddSpuriousWakeup, AddAfterFree
  <2> QED
    BY <2>1
    DEF Mutex, TypeInv, TypeOK, WorkerTypes,
        queueVars, countVars, controlVars, managerVars, ownerVars
<1>2. ASSUME NEW p \in Producers, AddTests(p) PROVE Mutex'
  BY <1>2, AddMoves, MutexFree
  DEF AddTests, Mutex, TypeInv, TypeOK, WorkerTypes,
      queueVars, managerVars, ownerVars
<1>4. ASSUME NEW w \in Worker, WorkerLock(w) PROVE Mutex'
  BY <1>4, QueueTestMoves, MutexFree
  DEF WorkerLock, Mutex, TypeInv, TypeOK, WorkerTypes, queueVars,
      managerVars, ownerVars
<1>5. ASSUME NEW w \in Worker, WorkerSleep(w) PROVE Mutex'
  BY <1>5, PoolAssumption
  DEF WorkerSleep, Mutex, TypeInv, TypeOK, WorkerTypes, Worker, Unlocked,
      ManagerTid, queueVars, managerVars, ownerVars
<1>6. ASSUME NEW w \in Worker, SpuriousWakeup(w) PROVE Mutex'
  BY <1>6
  DEF SpuriousWakeup, Mutex, TypeInv, TypeOK, WorkerTypes, queueVars,
      managerVars, ownerVars
<1>7. ASSUME NEW w \in Worker, WorkerRetires(w) PROVE Mutex'
  BY <1>7
  DEF WorkerRetires, Mutex, TypeInv, TypeOK, WorkerTypes, queueVars,
      managerVars, ownerVars
<1>8. ASSUME NEW w \in Worker, WorkerWake(w) PROVE Mutex'
  BY <1>8, QueueTestMoves, MutexFree
  DEF WorkerWake, Mutex, TypeInv, TypeOK, WorkerTypes, queueVars,
      managerVars, ownerVars
<1>9. ASSUME NEW w \in Worker, WorkerBusy(w) PROVE Mutex'
  BY <1>9
  DEF WorkerBusy, Mutex, TypeInv, TypeOK, WorkerTypes, queueVars,
      managerVars, ownerVars
<1>10. ASSUME NEW w \in Worker, WorkerRuns(w) PROVE Mutex'
  BY <1>10
  DEF WorkerRuns, Mutex, TypeInv, TypeOK, WorkerTypes, queueVars,
      managerVars, ownerVars
<1>11. ASSUME NEW w \in Worker, WorkerCallsGarbage(w) PROVE Mutex'
  BY <1>11
  DEF WorkerCallsGarbage, Mutex, TypeInv, TypeOK, WorkerTypes, queueVars,
      managerVars, ownerVars
<1>12. ASSUME NEW w \in Worker, WorkerIdle(w) PROVE Mutex'
  BY <1>12
  DEF WorkerIdle, Mutex, TypeInv, TypeOK, WorkerTypes, queueVars,
      managerVars, ownerVars
<1>13. ASSUME NEW w \in Worker, ThreadExit(w) PROVE Mutex'
  BY <1>13
  DEF ThreadExit, Mutex, TypeInv, TypeOK, WorkerTypes, queueVars,
      managerVars, ownerVars
<1>14. ASSUME NEW w \in Worker, UseAfterFree(w) PROVE Mutex'
  BY <1>14
  DEF UseAfterFree, Mutex, TypeInv, TypeOK, WorkerTypes, queueVars,
      managerVars, ownerVars
<1>15. CASE ManagerLoop
  BY <1>15
  DEF ManagerLoop, Mutex, TypeInv, TypeOK, WorkerTypes, queueVars,
      managerVars, ownerVars
<1>16. CASE ManagerSample
  BY <1>16
  DEF ManagerSample, Mutex, TypeInv, TypeOK, WorkerTypes, queueVars,
      managerVars, ownerVars
<1>17. CASE ManagerSampleBusy
  BY <1>17
  DEF ManagerSampleBusy, ShrinkOrEnd, EndPass, Mutex, TypeInv, TypeOK,
      WorkerTypes, queueVars, managerVars, ownerVars
<1>18. CASE ManagerGrow
  BY <1>18, MutexFree, PoolAssumption
  DEF ManagerGrow, Mutex, TypeInv, TypeOK, WorkerTypes, queueVars,
      managerVars, ownerVars
<1>19. CASE ManagerCreates
  BY <1>19
  DEF ManagerCreates, Scanning, Mutex, TypeInv, TypeOK, WorkerTypes,
      queueVars, managerVars, ownerVars
<1>20. CASE ManagerSkips
  BY <1>20
  DEF ManagerSkips, Scanning, Mutex, TypeInv, TypeOK, WorkerTypes,
      queueVars, managerVars, ownerVars
<1>21. CASE ManagerGrown
  BY <1>21, PoolAssumption
  DEF ManagerGrown, ShrinkOrEnd, EndPass, Mutex, TypeInv, TypeOK,
      WorkerTypes, Worker, ManagerTid, Unlocked, queueVars, managerVars,
      ownerVars
<1>22. CASE ManagerShrink
  BY <1>22
  DEF ManagerShrink, Mutex, TypeInv, TypeOK, WorkerTypes, queueVars,
      managerVars, ownerVars
<1>23. CASE ManagerSignal
  BY <1>23, SignalWakes
  DEF ManagerSignal, EndPass, Mutex, TypeInv, TypeOK, WorkerTypes,
      queueVars, managerVars, ownerVars
<1>24. CASE DestroyCall
  BY <1>24
  DEF DestroyCall, Mutex, TypeInv, TypeOK, WorkerTypes, queueVars,
      managerVars, ownerVars
<1>25. CASE DestroyJoin
  BY <1>25
  DEF DestroyJoin, Mutex, TypeInv, TypeOK, WorkerTypes, queueVars,
      managerVars, ownerVars
<1>26. CASE DestroySignal
  BY <1>26, SignalWakes
  DEF DestroySignal, Mutex, TypeInv, TypeOK, WorkerTypes, queueVars,
      managerVars, ownerVars
<1>27. CASE DestroyFree
  BY <1>27
  DEF DestroyFree, Mutex, TypeInv, TypeOK, WorkerTypes, queueVars,
      managerVars, ownerVars
<1>28. CASE UNCHANGED vars
  BY <1>28
  DEF vars, Mutex, TypeInv, TypeOK, WorkerTypes, queueVars, managerVars,
      ownerVars
<1> QED
  BY <1>1, <1>2, <1>4, <1>5, <1>6, <1>7, <1>8, <1>9, <1>10, <1>11,
     <1>12, <1>13, <1>14, <1>15, <1>16, <1>17, <1>18, <1>19, <1>20, <1>21,
     <1>22, <1>23, <1>24, <1>25, <1>26, <1>27, <1>28
  DEF Next, ProducerStep, WorkerStep, ManagerStep, OwnerStep

LEMMA DestructionStep == TypeInv /\ Destruction /\ [Next]_vars => Destruction'
<1> SUFFICES ASSUME TypeInv, Destruction, [Next]_vars PROVE Destruction'
  OBVIOUS
<1>1. ASSUME NEW p \in Producers,
             ThreadPoolAdd(p) \/ AddSpuriousWakeup(p) \/ AddAfterFree(p)
      PROVE  Destruction'
  <2>1. UNCHANGED <<queueVars, countVars, mutexPool, worker, task, controlVars>>
    BY <1>1, Zenon DEF ThreadPoolAdd, AddSpuriousWakeup, AddAfterFree
  <2> QED
    BY <2>1
    DEF Destruction, TypeInv, TypeOK, WorkerTypes,
        queueVars, countVars, controlVars, managerVars, ownerVars
<1>2. ASSUME NEW p \in Producers, AddTests(p) PROVE Destruction'
  BY <1>2, AddMoves
  DEF AddTests, Destruction, TypeInv, TypeOK, WorkerTypes,
      queueVars, managerVars, ownerVars
<1>4. ASSUME NEW w \in Worker, WorkerLock(w) PROVE Destruction'
  BY <1>4, QueueTestMoves
  DEF WorkerLock, Destruction, TypeInv, TypeOK, WorkerTypes, queueVars,
      managerVars, ownerVars
<1>5. ASSUME NEW w \in Worker, WorkerSleep(w) PROVE Destruction'
  BY <1>5
  DEF WorkerSleep, Destruction, TypeInv, TypeOK, WorkerTypes, queueVars,
      managerVars, ownerVars
<1>6. ASSUME NEW w \in Worker, SpuriousWakeup(w) PROVE Destruction'
  BY <1>6
  DEF SpuriousWakeup, Destruction, TypeInv, TypeOK, WorkerTypes, queueVars,
      managerVars, ownerVars
<1>7. ASSUME NEW w \in Worker, WorkerRetires(w) PROVE Destruction'
  BY <1>7
  DEF WorkerRetires, Destruction, TypeInv, TypeOK, WorkerTypes, queueVars,
      managerVars, ownerVars
<1>8. ASSUME NEW w \in Worker, WorkerWake(w) PROVE Destruction'
  BY <1>8, QueueTestMoves
  DEF WorkerWake, Destruction, TypeInv, TypeOK, WorkerTypes, queueVars,
      managerVars, ownerVars
<1>9. ASSUME NEW w \in Worker, WorkerBusy(w) PROVE Destruction'
  BY <1>9
  DEF WorkerBusy, Destruction, TypeInv, TypeOK, WorkerTypes, queueVars,
      managerVars, ownerVars
<1>10. ASSUME NEW w \in Worker, WorkerRuns(w) PROVE Destruction'
  BY <1>10
  DEF WorkerRuns, Destruction, TypeInv, TypeOK, WorkerTypes, queueVars,
      managerVars, ownerVars
<1>11. ASSUME NEW w \in Worker, WorkerCallsGarbage(w) PROVE Destruction'
  BY <1>11
  DEF WorkerCallsGarbage, Destruction, TypeInv, TypeOK, WorkerTypes,
      queueVars, managerVars, ownerVars
<1>12. ASSUME NEW w \in Worker, WorkerIdle(w) PROVE Destruction'
  BY <1>12
  DEF WorkerIdle, Destruction, TypeInv, TypeOK, WorkerTypes, queueVars,
      managerVars, ownerVars
<1>13. ASSUME NEW w \in Worker, ThreadExit(w) PROVE Destruction'
  BY <1>13
  DEF ThreadExit, Destruction, TypeInv, TypeOK, WorkerTypes, queueVars,
      managerVars, ownerVars
<1>14. ASSUME NEW w \in Worker, UseAfterFree(w) PROVE Destruction'
  BY <1>14
  DEF UseAfterFree, Destruction, TypeInv, TypeOK, WorkerTypes, queueVars,
      managerVars, ownerVars
<1>15. CASE ManagerLoop
  BY <1>15
  DEF ManagerLoop, Destruction, TypeInv, TypeOK, WorkerTypes, queueVars,
      managerVars, ownerVars
<1>16. CASE ManagerSample
  BY <1>16
  DEF ManagerSample, Destruction, TypeInv, TypeOK, WorkerTypes, queueVars,
      managerVars, ownerVars
<1>17. CASE ManagerSampleBusy
  BY <1>17
  DEF ManagerSampleBusy, ShrinkOrEnd, EndPass, Destruction, TypeInv, TypeOK,
      WorkerTypes, queueVars, managerVars, ownerVars
<1>18. CASE ManagerGrow
  BY <1>18
  DEF ManagerGrow, Destruction, TypeInv, TypeOK, WorkerTypes, queueVars,
      managerVars, ownerVars
<1>19. CASE ManagerCreates
  BY <1>19
  DEF ManagerCreates, Scanning, Destruction, TypeInv, TypeOK, WorkerTypes,
      queueVars, managerVars, ownerVars
<1>20. CASE ManagerSkips
  BY <1>20
  DEF ManagerSkips, Scanning, Destruction, TypeInv, TypeOK, WorkerTypes,
      queueVars, managerVars, ownerVars
<1>21. CASE ManagerGrown
  BY <1>21
  DEF ManagerGrown, ShrinkOrEnd, EndPass, Destruction, TypeInv, TypeOK,
      WorkerTypes, queueVars, managerVars, ownerVars
<1>22. CASE ManagerShrink
  BY <1>22
  DEF ManagerShrink, Destruction, TypeInv, TypeOK, WorkerTypes, queueVars,
      managerVars, ownerVars
<1>23. CASE ManagerSignal
  BY <1>23, SignalWakes
  DEF ManagerSignal, EndPass, Destruction, TypeInv, TypeOK, WorkerTypes,
      queueVars, managerVars, ownerVars
<1>24. CASE DestroyCall
  BY <1>24
  DEF DestroyCall, Destruction, TypeInv, TypeOK, WorkerTypes, queueVars,
      managerVars, ownerVars
<1>25. CASE DestroyJoin
  BY <1>25
  DEF DestroyJoin, Destruction, TypeInv, TypeOK, WorkerTypes, queueVars,
      managerVars, ownerVars
<1>26. CASE DestroySignal
  BY <1>26, SignalWakes
  DEF DestroySignal, Destruction, TypeInv, TypeOK, WorkerTypes, queueVars,
      managerVars, ownerVars
<1>27. CASE DestroyFree
  BY <1>27
  DEF DestroyFree, Destruction, TypeInv, TypeOK, WorkerTypes, queueVars,
      managerVars, ownerVars
<1>28. CASE UNCHANGED vars
  BY <1>28
  DEF vars, Destruction, TypeInv, TypeOK, WorkerTypes, queueVars,
      managerVars, ownerVars
<1> QED
  BY <1>1, <1>2, <1>4, <1>5, <1>6, <1>7, <1>8, <1>9, <1>10, <1>11,
     <1>12, <1>13, <1>14, <1>15, <1>16, <1>17, <1>18, <1>19, <1>20, <1>21,
     <1>22, <1>23, <1>24, <1>25, <1>26, <1>27, <1>28
  DEF Next, ProducerStep, WorkerStep, ManagerStep, OwnerStep

LEMMA MembersFinite ==
  /\ Members \subseteq Worker
  /\ IsFiniteSet(Members)
  /\ Cardinality(Members) \in Nat
  /\ Cardinality(Members) <= MaxNum
<1>1. Members \subseteq Worker
  BY DEF Members
<1> QED
  BY <1>1, WorkerFinite, FS_Subset, FS_CardinalityType

Gone == {"none", "quit"}

(* A step that neither starts a thread nor retires one keeps their number. *)
LEMMA MembersSame ==
  ASSUME \A w \in Worker : worker'[w] \in Gone <=> worker[w] \in Gone
  PROVE  Members' = Members
BY DEF Members, Gone

LEMMA PoolSizeStep == TypeInv /\ Destruction /\ PoolSize /\ [Next]_vars => PoolSize'
<1> SUFFICES ASSUME TypeInv, Destruction, PoolSize, [Next]_vars PROVE PoolSize'
  OBVIOUS
<1>1. ASSUME NEW p \in Producers,
             ThreadPoolAdd(p) \/ AddSpuriousWakeup(p) \/ AddAfterFree(p)
      PROVE  PoolSize'
  <2>1. UNCHANGED <<queueVars, countVars, mutexPool, worker, task, controlVars>>
    BY <1>1, Zenon DEF ThreadPoolAdd, AddSpuriousWakeup, AddAfterFree
  <2> QED
    BY <2>1, MembersSame
    DEF PoolSize, Destruction, TypeInv, TypeOK, WorkerTypes,
      PoolTypes, Gone,
        queueVars, countVars, controlVars, managerVars, ownerVars
<1>2. ASSUME NEW p \in Producers, AddTests(p) PROVE PoolSize'
  BY <1>2, AddMoves, MembersSame
  DEF AddTests, PoolSize, Destruction, TypeInv, TypeOK, WorkerTypes,
      PoolTypes, Gone,
      queueVars, managerVars, ownerVars
<1>4. ASSUME NEW w \in Worker, WorkerLock(w) PROVE PoolSize'
  BY <1>4, QueueTestMoves, MembersSame
  DEF WorkerLock, PoolSize, Destruction, TypeInv, TypeOK, WorkerTypes,
      PoolTypes, Gone, queueVars, managerVars, ownerVars
<1>5. ASSUME NEW w \in Worker, WorkerSleep(w) PROVE PoolSize'
  BY <1>5, MembersSame
  DEF WorkerSleep, PoolSize, Destruction, TypeInv, TypeOK, WorkerTypes,
      PoolTypes, Gone, queueVars, managerVars, ownerVars
<1>6. ASSUME NEW w \in Worker, SpuriousWakeup(w) PROVE PoolSize'
  BY <1>6, MembersSame
  DEF SpuriousWakeup, PoolSize, Destruction, TypeInv, TypeOK, WorkerTypes,
      PoolTypes, Gone, queueVars, managerVars, ownerVars
<1>7. ASSUME NEW w \in Worker, WorkerRetires(w) PROVE PoolSize'
  <2>1. w \in Members /\ Members' = Members \ {w}
    BY <1>7 DEF WorkerRetires, Members, TypeInv, TypeOK, WorkerTypes
  <2>2. Cardinality(Members') = Cardinality(Members) - 1
    BY <2>1, WorkerFinite, MembersFinite, CountDown
  <2> QED
    BY <1>7, <2>2, PoolAssumption
    DEF WorkerRetires, PoolSize, TypeInv, TypeOK, PoolTypes, ownerVars
<1>8. ASSUME NEW w \in Worker, WorkerWake(w) PROVE PoolSize'
  BY <1>8, QueueTestMoves, MembersSame
  DEF WorkerWake, PoolSize, Destruction, TypeInv, TypeOK, WorkerTypes,
      PoolTypes, Gone, queueVars, managerVars, ownerVars
<1>9. ASSUME NEW w \in Worker, WorkerBusy(w) PROVE PoolSize'
  BY <1>9, MembersSame
  DEF WorkerBusy, PoolSize, Destruction, TypeInv, TypeOK, WorkerTypes,
      PoolTypes, Gone, queueVars, managerVars, ownerVars
<1>10. ASSUME NEW w \in Worker, WorkerRuns(w) PROVE PoolSize'
  BY <1>10, MembersSame
  DEF WorkerRuns, PoolSize, Destruction, TypeInv, TypeOK, WorkerTypes,
      PoolTypes, Gone, queueVars, managerVars, ownerVars
<1>11. ASSUME NEW w \in Worker, WorkerCallsGarbage(w) PROVE PoolSize'
  BY <1>11, MembersSame
  DEF WorkerCallsGarbage, PoolSize, Destruction, TypeInv, TypeOK,
      WorkerTypes, PoolTypes, Gone, queueVars, managerVars, ownerVars
<1>12. ASSUME NEW w \in Worker, WorkerIdle(w) PROVE PoolSize'
  BY <1>12, MembersSame
  DEF WorkerIdle, PoolSize, Destruction, TypeInv, TypeOK, WorkerTypes,
      PoolTypes, Gone, queueVars, managerVars, ownerVars
<1>13. ASSUME NEW w \in Worker, ThreadExit(w) PROVE PoolSize'
  BY <1>13, MembersSame
  DEF ThreadExit, PoolSize, Destruction, TypeInv, TypeOK, WorkerTypes,
      PoolTypes, Gone, queueVars, managerVars, ownerVars
<1>14. ASSUME NEW w \in Worker, UseAfterFree(w) PROVE PoolSize'
  BY <1>14, MembersSame
  DEF UseAfterFree, PoolSize, Destruction, TypeInv, TypeOK, WorkerTypes,
      PoolTypes, Gone, queueVars, managerVars, ownerVars
<1>15. CASE ManagerLoop
  BY <1>15, MembersSame
  DEF ManagerLoop, PoolSize, Destruction, TypeInv, TypeOK, WorkerTypes,
      PoolTypes, Gone, queueVars, managerVars, ownerVars
<1>16. CASE ManagerSample
  BY <1>16, MembersSame
  DEF ManagerSample, PoolSize, Destruction, TypeInv, TypeOK, WorkerTypes,
      PoolTypes, Gone, queueVars, managerVars, ownerVars
<1>17. CASE ManagerSampleBusy
  BY <1>17, MembersSame
  DEF ManagerSampleBusy, ShrinkOrEnd, EndPass, PoolSize, Destruction,
      TypeInv, TypeOK, WorkerTypes, PoolTypes, Gone, queueVars, managerVars,
      ownerVars
<1>18. CASE ManagerGrow
  BY <1>18, MembersSame
  DEF ManagerGrow, PoolSize, Destruction, TypeInv, TypeOK, WorkerTypes,
      PoolTypes, Gone, queueVars, managerVars, ownerVars
<1>19. CASE ManagerCreates
  <2>1. scan.i \in Worker
    BY <1>19, PoolAssumption DEF ManagerCreates, Scanning, Worker, TypeInv, TypeOK, ManagerTypes
  <2>2. scan.i \notin Members /\ Members' = Members \union {scan.i}
    BY <1>19, <2>1 DEF ManagerCreates, Members, TypeInv, TypeOK, WorkerTypes
  <2>3. Cardinality(Members') = Cardinality(Members) + 1
    BY <2>1, <2>2, WorkerFinite, MembersFinite, CountUp
  <2> QED
    BY <1>19, <2>3, PoolAssumption
    DEF ManagerCreates, PoolSize, TypeInv, TypeOK, PoolTypes, ownerVars
<1>20. CASE ManagerSkips
  BY <1>20, MembersSame
  DEF ManagerSkips, Scanning, PoolSize, Destruction, TypeInv, TypeOK,
      WorkerTypes, PoolTypes, Gone, queueVars, managerVars, ownerVars
<1>21. CASE ManagerGrown
  BY <1>21, MembersSame
  DEF ManagerGrown, ShrinkOrEnd, EndPass, PoolSize, Destruction, TypeInv,
      TypeOK, WorkerTypes, PoolTypes, Gone, queueVars, managerVars,
      ownerVars
<1>22. CASE ManagerShrink
  BY <1>22, MembersSame
  DEF ManagerShrink, PoolSize, Destruction, TypeInv, TypeOK, WorkerTypes,
      PoolTypes, Gone, queueVars, managerVars, ownerVars
<1>23. CASE ManagerSignal
  BY <1>23, SignalWakes, MembersSame
  DEF ManagerSignal, EndPass, PoolSize, Destruction, TypeInv, TypeOK,
      WorkerTypes, PoolTypes, Gone, queueVars, managerVars, ownerVars
<1>24. CASE DestroyCall
  BY <1>24, MembersSame
  DEF DestroyCall, PoolSize, Destruction, TypeInv, TypeOK, WorkerTypes,
      PoolTypes, Gone, queueVars, managerVars, ownerVars
<1>25. CASE DestroyJoin
  BY <1>25, MembersSame
  DEF DestroyJoin, PoolSize, Destruction, TypeInv, TypeOK, WorkerTypes,
      PoolTypes, Gone, queueVars, managerVars, ownerVars
<1>26. CASE DestroySignal
  BY <1>26, SignalWakes, MembersSame
  DEF DestroySignal, PoolSize, Destruction, TypeInv, TypeOK, WorkerTypes,
      PoolTypes, Gone, queueVars, managerVars, ownerVars
<1>27. CASE DestroyFree
  BY <1>27, MembersSame
  DEF DestroyFree, PoolSize, Destruction, TypeInv, TypeOK, WorkerTypes,
      PoolTypes, Gone, queueVars, managerVars, ownerVars
<1>28. CASE UNCHANGED vars
  BY <1>28, MembersSame
  DEF vars, PoolSize, Destruction, TypeInv, TypeOK, WorkerTypes, PoolTypes,
      Gone, queueVars, managerVars, ownerVars
<1> QED
  BY <1>1, <1>2, <1>4, <1>5, <1>6, <1>7, <1>8, <1>9, <1>10, <1>11,
     <1>12, <1>13, <1>14, <1>15, <1>16, <1>17, <1>18, <1>19, <1>20, <1>21,
     <1>22, <1>23, <1>24, <1>25, <1>26, <1>27, <1>28
  DEF Next, ProducerStep, WorkerStep, ManagerStep, OwnerStep

(* A worker that is awake after a step can be told from its state alone.   *)
Looking == {"lock", "wait", "woken", "taken", "busy", "ran"}

LEMMA StallSteps ==
  ASSUME TypeInv, \/ \E w \in Worker : worker'[w] \in Looking
                  \/ \E w \in Worker : worker'[w] = "fault"
                  \/ shutDown' \/ freed' \/ queueSize' = 0
                  \/ liveNum' < MaxNum
  PROVE  StallRepairable'
BY DEF StallRepairable, Awake, Looking, Usable

(* A task is added and nobody can be woken: no thread is left at all.      *)
LEMMA NobodyToWake ==
  ASSUME TypeInv, Destruction, PoolSize, ~shutDown, Usable, Asleep = {}
  PROVE  (\E w \in Worker : worker[w] \in Looking) \/ liveNum < MaxNum
<1> SUFFICES ASSUME ~\E w \in Worker : worker[w] \in Looking
             PROVE  liveNum < MaxNum
  OBVIOUS
<1>1. Members = {}
  BY DEF Members, Looking, Asleep, Usable, Destruction, TypeInv, TypeOK,
         WorkerTypes, WorkerState
<1>2. liveNum = 0
  BY <1>1, FS_EmptySet DEF PoolSize
<1> QED
  BY <1>2, PoolAssumption

LEMMA AddWakes ==
  ASSUME TypeInv, Destruction, PoolSize, StallRepairable, Usable,
         NEW p \in Producers, AddLoop(p), UNCHANGED <<liveNum, shutDown, freed>>
  PROVE  StallRepairable' \/ ~Usable'
<1> SUFFICES ASSUME Usable' PROVE StallRepairable'
  OBVIOUS
<1>1. CASE AddBlocks(p) \/ AddRefused(p)
  BY <1>1 DEF AddBlocks, AddRefused, StallRepairable, Awake, queueVars
<1>2. CASE Enqueue(p)
  <2>1. CASE Asleep = {}
    <3>1. worker' = worker
      BY <1>2, <2>1 DEF Enqueue, SignalNotEmpty
    <3>2. (\E w \in Worker : worker[w] \in Looking) \/ liveNum < MaxNum
      BY <1>2, <2>1, NobodyToWake DEF Enqueue
    <3> QED
      BY <3>1, <3>2, StallSteps
  <2>2. CASE Asleep # {}
    <3>1. \E w \in Worker : worker'[w] = "woken"
      BY <1>2, <2>2
      DEF Enqueue, SignalNotEmpty, Asleep, TypeInv, TypeOK, WorkerTypes
    <3> QED
      BY <3>1, StallSteps DEF Looking
  <2> QED
    BY <2>1, <2>2
<1> QED
  BY <1>1, <1>2 DEF AddLoop

LEMMA StallStep == TypeInv /\ Mutex /\ Destruction /\ PoolSize /\ StallRepairable /\ [Next]_vars => StallRepairable'
<1> SUFFICES ASSUME TypeInv, Mutex, Destruction, PoolSize, StallRepairable, [Next]_vars PROVE StallRepairable'
  OBVIOUS
<1>1. ASSUME NEW p \in Producers,
             ThreadPoolAdd(p) \/ AddSpuriousWakeup(p) \/ AddAfterFree(p)
      PROVE  StallRepairable'
  BY <1>1, StallSteps
  DEF ThreadPoolAdd, AddSpuriousWakeup, AddAfterFree, StallRepairable, Usable, Awake,
      queueVars, countVars, controlVars, ownerVars
<1>2. ASSUME NEW p \in Producers, AddTests(p) PROVE StallRepairable'
  BY <1>2, AddWakes
  DEF AddTests, StallRepairable, Usable, ownerVars
<1>4. ASSUME NEW w \in Worker, WorkerLock(w) PROVE StallRepairable'
  BY <1>4, QueueTestMoves, StallSteps
  DEF WorkerLock, Looking, ownerVars
<1>5. ASSUME NEW w \in Worker, WorkerSleep(w) PROVE StallRepairable'
  BY <1>5, StallSteps
  DEF WorkerSleep, Mutex, queueVars
<1>6. ASSUME NEW w \in Worker, SpuriousWakeup(w) PROVE StallRepairable'
  BY <1>6, StallSteps
  DEF SpuriousWakeup, Looking, TypeInv, TypeOK, WorkerTypes
<1>7. ASSUME NEW w \in Worker, WorkerRetires(w) PROVE StallRepairable'
  <2>1. ~shutDown => liveNum <= MaxNum
    BY MembersFinite DEF PoolSize
  <2>2. ~shutDown' => liveNum' < MaxNum
    BY <1>7, <2>1, PoolAssumption
    DEF WorkerRetires, TypeInv, TypeOK, PoolTypes, ownerVars
  <2> QED
    BY <2>2 DEF StallRepairable
<1>8. ASSUME NEW w \in Worker, WorkerWake(w) PROVE StallRepairable'
  BY <1>8, QueueTestMoves, StallSteps
  DEF WorkerWake, Looking, ownerVars
<1>9. ASSUME NEW w \in Worker, WorkerBusy(w) PROVE StallRepairable'
  BY <1>9, StallSteps
  DEF WorkerBusy, Looking, TypeInv, TypeOK, WorkerTypes
<1>10. ASSUME NEW w \in Worker, WorkerRuns(w) PROVE StallRepairable'
  BY <1>10, StallSteps
  DEF WorkerRuns, Looking, TypeInv, TypeOK, WorkerTypes
<1>11. ASSUME NEW w \in Worker, WorkerCallsGarbage(w) PROVE StallRepairable'
  BY <1>11, StallSteps
  DEF WorkerCallsGarbage, Looking, TypeInv, TypeOK, WorkerTypes
<1>12. ASSUME NEW w \in Worker, WorkerIdle(w) PROVE StallRepairable'
  BY <1>12, StallSteps
  DEF WorkerIdle, Looking, TypeInv, TypeOK, WorkerTypes
<1>13. ASSUME NEW w \in Worker, ThreadExit(w) PROVE StallRepairable'
  BY <1>13
  DEF ThreadExit, StallRepairable, Awake, Usable, TypeInv, TypeOK,
      WorkerTypes, queueVars, ownerVars
<1>14. ASSUME NEW w \in Worker, UseAfterFree(w) PROVE StallRepairable'
  BY <1>14, StallSteps
  DEF UseAfterFree, ownerVars
<1>15. CASE ManagerLoop
  BY <1>15
  DEF ManagerLoop, StallRepairable, Awake, Usable, queueVars, managerVars,
      ownerVars
<1>16. CASE ManagerSample
  BY <1>16
  DEF ManagerSample, StallRepairable, Awake, Usable, queueVars, managerVars,
      ownerVars
<1>17. CASE ManagerSampleBusy
  BY <1>17
  DEF ManagerSampleBusy, ShrinkOrEnd, EndPass, StallRepairable, Awake,
      Usable, queueVars, managerVars, ownerVars
<1>18. CASE ManagerGrow
  BY <1>18
  DEF ManagerGrow, StallRepairable, Awake, Usable, queueVars, managerVars,
      ownerVars
<1>19. CASE ManagerCreates
  <2>1. scan.i \in Worker
    BY <1>19, PoolAssumption DEF ManagerCreates, Scanning, Worker, TypeInv, TypeOK, ManagerTypes
  <2> QED
    BY <1>19, <2>1, StallSteps
    DEF ManagerCreates, Looking, TypeInv, TypeOK, WorkerTypes
<1>20. CASE ManagerSkips
  BY <1>20
  DEF ManagerSkips, Scanning, StallRepairable, Awake, Usable, queueVars,
      managerVars, ownerVars
<1>21. CASE ManagerGrown
  BY <1>21
  DEF ManagerGrown, ShrinkOrEnd, EndPass, StallRepairable, Awake, Usable,
      queueVars, managerVars, ownerVars
<1>22. CASE ManagerShrink
  BY <1>22
  DEF ManagerShrink, StallRepairable, Awake, Usable, queueVars, managerVars,
      ownerVars
<1>23. CASE ManagerSignal
  BY <1>23, SignalWakes
  DEF ManagerSignal, EndPass, StallRepairable, Awake, Usable, queueVars,
      managerVars, ownerVars
<1>24. CASE DestroyCall
  BY <1>24, StallSteps
  DEF DestroyCall
<1>25. CASE DestroyJoin
  BY <1>25
  DEF DestroyJoin, StallRepairable, Awake, Usable, queueVars, managerVars,
      ownerVars
<1>26. CASE DestroySignal
  BY <1>26, SignalWakes
  DEF DestroySignal, StallRepairable, Awake, Usable, queueVars, managerVars,
      ownerVars
<1>27. CASE DestroyFree
  BY <1>27, StallSteps
  DEF DestroyFree
<1>28. CASE UNCHANGED vars
  BY <1>28
  DEF vars, StallRepairable, Awake, Usable, queueVars, managerVars,
      ownerVars
<1> QED
  BY <1>1, <1>2, <1>4, <1>5, <1>6, <1>7, <1>8, <1>9, <1>10, <1>11,
     <1>12, <1>13, <1>14, <1>15, <1>16, <1>17, <1>18, <1>19, <1>20, <1>21,
     <1>22, <1>23, <1>24, <1>25, <1>26, <1>27, <1>28
  DEF Next, ProducerStep, WorkerStep, ManagerStep, OwnerStep

(* What holds whatever the allocation of the pool left in queueSize.       *)
PoolInv == TypeInv /\ Mutex /\ Destruction /\ PoolSize /\ StallRepairable

LEMMA InitPool == Init => PoolInv
<1> SUFFICES ASSUME Init PROVE PoolInv
  OBVIOUS
<1>1. TypeInv
  BY InitTypes
<1>2. Mutex /\ Destruction
  BY DEF Init, Mutex, Destruction
<1>3. PoolSize
  <2>1. Members = 0 .. MinNum - 1
    BY PoolAssumption DEF Init, Members, Worker
  <2>2. Cardinality(0 .. MinNum - 1) = MinNum
    BY PoolAssumption, FS_Interval
  <2> QED
    BY <2>1, <2>2, PoolAssumption DEF Init, PoolSize
<1>4. StallRepairable
  <2>1. CASE MinNum = 0
    BY <2>1, PoolAssumption DEF Init, StallRepairable
  <2>2. CASE MinNum # 0
    <3>1. 0 \in Worker /\ worker[0] = "lock"
      BY <2>2, PoolAssumption DEF Init, Worker
    <3> QED
      BY <3>1 DEF StallRepairable, Awake
  <2> QED
    BY <2>1, <2>2
<1> QED
  BY <1>1, <1>2, <1>3, <1>4 DEF PoolInv

THEOREM PoolInvariant == Spec => []PoolInv
<1>1. PoolInv /\ [Next]_vars => PoolInv'
  BY TypeStep, MutexStep, DestructionStep, PoolSizeStep, StallStep DEF PoolInv
<1> QED
  BY <1>1, InitPool, PTL DEF Spec

(* PoolSize: liveNum is at least minNum, and until the pool is destroyed   *)
(* it is the number of threads that have not retired.                      *)
THEOREM PoolSizeCorrect == Spec => []PoolSize
<1>1. PoolInv => PoolSize
  BY DEF PoolInv
<1> QED
  BY <1>1, PoolInvariant, PTL

(* StallRepairable: when every worker left sleeps beside a queued task,    *)
(* the manager may start another one.                                      *)
THEOREM StallsAreRepairable == Spec => []StallRepairable
<1>1. PoolInv => StallRepairable
  BY DEF PoolInv
<1> QED
  BY <1>1, PoolInvariant, PTL

(* NoStall: where minNum is maxNum, a worker is awake while a task is      *)
(* queued.                                                                 *)
THEOREM FixedPoolNeverStalls == Spec => []NoStall
<1>1. PoolInv => NoStall
  BY PoolAssumption DEF PoolInv, PoolSize, StallRepairable, NoStall, TypeInv,
     TypeOK, PoolTypes
<1> QED
  BY <1>1, PoolInvariant, PTL

-----------------------------------------------------------------------------
(* What happens to a task: the ring keeps the order of acceptance, each    *)
(* task is run once, and the pool implements TaskPool.  As the missing     *)
(* initialisation of queueSize breaks this (run pool_empty_queue), it is   *)
(* proved of a pool that starts with an empty queue.                       *)

USE DEF queueVars, managerVars, ownerVars
HIDE DEF MayRetire

-----------------------------------------------------------------------------
(* The steps of the pool, as far as they matter for tasks                  *)

(* The states in which a worker has no task. *)
Free == {"none", "lock", "wait", "asleep", "woken", "quit", "exit"}

WorkersMove ==
  \A w \in Worker :
    \/ worker'[w] = worker[w]
    \/ worker[w] \in Free /\ worker'[w] \in Free
    \/ worker[w] = "taken" /\ worker'[w] = "busy"
    \/ worker'[w] = "fault"

Puts ==
  /\ queueSize # QueueCapacity /\ PutTask /\ added < MaxTasks
  /\ WorkersMove
  /\ UNCHANGED <<task, runs>>

Takes(w) ==
  /\ queueSize # 0 /\ TakeTask(w)
  /\ worker[w] \in Free /\ worker' = [worker EXCEPT ![w] = "taken"]
  /\ UNCHANGED <<added, runs>>

Keeps == UNCHANGED <<queueVars, task, added, runs>> /\ WorkersMove

Effect ==
  \/ Puts \/ Keeps
  \/ \E w \in Worker : Takes(w) \/ WorkerRuns(w) \/ WorkerIdle(w)

LEMMA Constants ==
  /\ MaxTasks \in Nat /\ QueueCapacity \in Nat \ {0} /\ Garbage \notin Task
  /\ IsFiniteSet(Producers)
  BY PoolAssumption DEF Task

LEMMA SignalMoves == ASSUME TypeOK, SignalNotEmpty PROVE WorkersMove
  BY DEF SignalNotEmpty, Asleep, WorkersMove, Free, TypeOK, WorkerTypes

LEMMA AddEffect ==
  ASSUME TypeInv, NEW p \in Producers, AddLoop(p),
         producer[p] \in {"lock", "woken"}, UNCHANGED <<task, runs>>
  PROVE  Puts \/ Keeps
<1>1. CASE Enqueue(p)
  <2>1. added' <= MaxTasks
    BY <1>1, AddTypes, Constants DEF ClientTypes
  <2>2. added' = added + 1
    BY <1>1 DEF Enqueue, PutTask
  <2>3. WorkersMove
    BY <1>1, SignalMoves DEF Enqueue, TypeInv
  <2> QED
    BY <1>1, <2>1, <2>2, <2>3, Constants
    DEF Enqueue, Puts, TypeInv, TypeOK, ClientTypes
<1>2. CASE AddBlocks(p) \/ AddRefused(p)
  BY <1>2 DEF AddBlocks, AddRefused, Keeps, WorkersMove
<1> QED
  BY <1>1, <1>2 DEF AddLoop

LEMMA QueueTestEffect ==
  ASSUME TypeInv, NEW w \in Worker, worker[w] \in {"lock", "woken"},
         QueueTest(w), UNCHANGED <<added, runs>>
  PROVE  Keeps \/ Takes(w)
<1>1. CASE Dequeue(w)
  BY <1>1 DEF Dequeue, Takes, Free
<1>2. CASE FindsNothing(w) \/ FindsShutDown(w)
  BY <1>2 DEF FindsNothing, FindsShutDown, Keeps, WorkersMove, Free, TypeInv, TypeOK, WorkerTypes
<1> QED
  BY <1>1, <1>2 DEF QueueTest

LEMMA StepEffect == TypeInv /\ [Next]_vars => Effect
<1> SUFFICES ASSUME TypeInv, [Next]_vars PROVE Effect
  OBVIOUS
<1> USE DEF Effect, Free, TypeInv, TypeOK, WorkerTypes
<1>1. ASSUME NEW p \in Producers, AddTests(p) PROVE Effect
  BY <1>1, AddEffect DEF AddTests
<1>2. ASSUME NEW p \in Producers,
             ThreadPoolAdd(p) \/ AddSpuriousWakeup(p) \/ AddAfterFree(p)
      PROVE  Effect
  BY <1>2 DEF ThreadPoolAdd, AddSpuriousWakeup, AddAfterFree, Keeps, WorkersMove
<1>3. ASSUME NEW w \in Worker, WorkerLock(w) \/ WorkerWake(w) PROVE Effect
  BY <1>3, QueueTestEffect DEF WorkerLock, WorkerWake
<1>4. ASSUME NEW w \in Worker,
             \/ WorkerSleep(w) \/ SpuriousWakeup(w) \/ WorkerRetires(w) \/ WorkerBusy(w)
             \/ WorkerCallsGarbage(w) \/ ThreadExit(w) \/ UseAfterFree(w)
      PROVE  Effect
  <2>1. WorkersMove
    BY <1>4 DEF WorkersMove, WorkerSleep, SpuriousWakeup, WorkerRetires, WorkerBusy,
                WorkerCallsGarbage, ThreadExit, UseAfterFree
  <2>2. UNCHANGED <<queueVars, task, added, runs>>
    BY <1>4 DEF WorkerSleep, SpuriousWakeup, WorkerRetires, WorkerBusy,
                WorkerCallsGarbage, ThreadExit, UseAfterFree
  <2> QED
    BY <2>1, <2>2 DEF Keeps
<1>5. ASSUME NEW w \in Worker, WorkerRuns(w) \/ WorkerIdle(w) PROVE Effect
  BY <1>5
<1>6. CASE ManagerStep
  <2>1. WorkersMove
    BY <1>6, SignalMoves
    DEF ManagerStep, ManagerLoop, ManagerSample, ManagerSampleBusy, ManagerGrow,
        ManagerCreates, ManagerSkips, ManagerGrown, ManagerShrink, ManagerSignal, WorkersMove
  <2>2. UNCHANGED <<queueVars, task, added, runs>>
    BY <1>6
    DEF ManagerStep, ManagerLoop, ManagerSample, ManagerSampleBusy, ManagerGrow,
        ManagerCreates, ManagerSkips, ManagerGrown, ManagerShrink, ManagerSignal
  <2> QED
    BY <2>1, <2>2 DEF Keeps
<1>7. CASE OwnerStep
  <2>1. WorkersMove
    BY <1>7, SignalMoves
    DEF OwnerStep, DestroyCall, DestroyJoin, DestroySignal, DestroyFree, WorkersMove
  <2>2. UNCHANGED <<queueVars, task, added, runs>>
    BY <1>7 DEF OwnerStep, DestroyCall, DestroyJoin, DestroySignal, DestroyFree
  <2> QED
    BY <2>1, <2>2 DEF Keeps
<1>8. CASE UNCHANGED vars
  BY <1>8 DEF vars, Keeps, WorkersMove
<1> QED
  BY <1>1, <1>2, <1>3, <1>4, <1>5, <1>6, <1>7, <1>8 DEF Next, ProducerStep, WorkerStep

-----------------------------------------------------------------------------
(* The ring                                                                *)

Wrap(x) == IF x < QueueCapacity THEN x ELSE x - QueueCapacity

LEMMA Modulo ==
  ASSUME NEW x \in 0 .. 2 * QueueCapacity - 1
  PROVE  x % QueueCapacity = Wrap(x)
  BY Constants DEF Wrap

(* The place of the k-th task of the queue. *)
Place(k) == Wrap(queueFront + k)

Ring ==
  /\ queueSize \in 0 .. QueueCapacity
  /\ queueSize <= added
  /\ queueRear = Place(queueSize)
  /\ \A k \in 0 .. queueSize - 1 : taskQ[Place(k)] = added - queueSize + k + 1

LEMMA RingStep == TypeInv /\ Ring /\ [Next]_vars => Ring'
<1> SUFFICES ASSUME TypeInv, Ring, Effect PROVE Ring'
  BY StepEffect
<1> USE Constants
<1>0. /\ queueFront \in 0 .. QueueCapacity - 1 /\ queueRear \in 0 .. QueueCapacity - 1
      /\ queueSize \in Int /\ added \in Nat /\ taskQ \in [Slot -> Task \union {Garbage}]
  BY DEF TypeInv, TypeOK, QueueTypes, ClientTypes, Slot
<1>1. CASE Puts
  <2>1. /\ taskQ' = [taskQ EXCEPT ![queueRear] = added + 1] /\ queueFront' = queueFront
        /\ queueSize' = queueSize + 1 /\ added' = added + 1 /\ queueSize < QueueCapacity
        /\ queueRear' = Wrap(queueRear + 1)
    <3>1. (queueRear + 1) % QueueCapacity = Wrap(queueRear + 1)
      BY <1>0, Modulo
    <3> QED
      BY <1>1, <3>1 DEF Puts, PutTask, Ring
  <2>2. queueRear' = Wrap(queueFront + queueSize')
    BY <1>0, <2>1 DEF Ring, Place, Wrap
  <2>3. ASSUME NEW k \in 0 .. queueSize
        PROVE  taskQ'[Place(k)] = added' - queueSize' + k + 1
    <3>1. CASE k = queueSize
      BY <1>0, <2>1, <3>1 DEF Ring, Slot
    <3>2. CASE k < queueSize
      <4>1. Place(k) \in Slot /\ Place(k) # queueRear
        BY <1>0, <2>1, <3>2 DEF Ring, Place, Wrap, Slot
      <4> QED
        BY <1>0, <2>1, <3>2, <4>1 DEF Ring
    <3> QED
      BY <3>1, <3>2 DEF Ring
  <2>4. \A k \in 0 .. queueSize : Place(k)' = Place(k)
    BY <2>1 DEF Place, Wrap
  <2> QED
    BY <1>0, <2>1, <2>2, <2>3, <2>4 DEF Ring, Place
<1>2. ASSUME NEW w \in Worker, Takes(w) PROVE Ring'
  <2>1. /\ taskQ' = taskQ /\ queueRear' = queueRear /\ added' = added
        /\ queueSize' = queueSize - 1 /\ queueSize > 0
        /\ queueFront' = Wrap(queueFront + 1)
    <3>1. (queueFront + 1) % QueueCapacity = Wrap(queueFront + 1)
      BY <1>0, Modulo
    <3> QED
      BY <1>2, <3>1 DEF Takes, TakeTask, Ring
  <2>2. \A k \in 0 .. queueSize - 1 : Wrap(queueFront' + k) = Place(k + 1)
    BY <1>0, <2>1 DEF Ring, Place, Wrap
  <2>3. \A k \in 0 .. queueSize - 1 : Place(k)' = Place(k + 1)
    BY <2>2 DEF Place, Wrap
  <2>4. queueRear' = Wrap(queueFront' + queueSize')
    <3>1. Wrap(queueFront' + (queueSize - 1)) = Place((queueSize - 1) + 1)
      BY <1>0, <2>1, <2>2
    <3>2. (queueSize - 1) + 1 = queueSize
      BY <1>0
    <3> QED
      BY <2>1, <3>1, <3>2 DEF Ring
  <2>5. ASSUME NEW k \in 0 .. queueSize' - 1
        PROVE  taskQ'[Place(k)'] = added' - queueSize' + k + 1
    <3>1. k + 1 \in 0 .. queueSize - 1 /\ k \in 0 .. queueSize - 1
      BY <1>0, <2>1
    <3> QED
      BY <1>0, <2>1, <2>3, <3>1 DEF Ring
  <2> QED
    BY <1>0, <2>1, <2>4, <2>5 DEF Ring, Place
<1>3. CASE Keeps
  BY <1>3 DEF Keeps, Ring, Place, Wrap
<1>4. ASSUME NEW w \in Worker, WorkerRuns(w) \/ WorkerIdle(w) PROVE Ring'
  BY <1>4 DEF WorkerRuns, WorkerIdle, Ring, Place, Wrap
<1> QED
  BY <1>1, <1>2, <1>3, <1>4 DEF Effect

-----------------------------------------------------------------------------
(* Who has a task                                                          *)

Left == added - queueSize            \* tasks 1 .. Left have left the queue

Own ==
  /\ \A w \in Worker : task[w] # Garbage => task[w] <= Left
  /\ \A w \in Worker :
       worker[w] \in {"taken", "busy"} => task[w] # Garbage /\ runs[task[w]] = 0
  /\ \A w \in Worker : worker[w] = "ran" => task[w] # Garbage /\ runs[task[w]] = 1
  /\ \A w \in Worker : worker[w] \in Free => task[w] = Garbage
  /\ \A v, w \in Worker : task[v] = task[w] /\ task[v] # Garbage => v = w
  /\ \A t \in Task : t > Left => runs[t] = 0
  /\ \A t \in Task : t <= Left /\ runs[t] # 1 => runs[t] = 0 /\ \E w \in Worker : task[w] = t

LEMMA OwnStep == TypeInv /\ Ring /\ Own /\ [Next]_vars => Own'
<1> SUFFICES ASSUME TypeInv, Ring, Own, Effect PROVE Own'
  BY StepEffect
<1> USE Constants
<1>0. /\ queueSize \in Nat /\ added \in Nat /\ queueSize <= added
      /\ task \in [Worker -> Task \union {Garbage}] /\ runs \in [Task -> Nat]
      /\ \A t \in Task : t \in Nat
  BY DEF TypeInv, TypeOK, WorkerTypes, ClientTypes, Ring, Task
<1>1. CASE Puts
  <2>1. Left' = Left /\ task' = task /\ runs' = runs /\ WorkersMove
    BY <1>0, <1>1 DEF Puts, PutTask, Left
  <2> QED
    BY <2>1 DEF Own, WorkersMove, Free
<1>2. CASE Keeps
  <2>1. Left' = Left /\ task' = task /\ runs' = runs /\ WorkersMove
    BY <1>2 DEF Keeps, Left
  <2> QED
    BY <2>1 DEF Own, WorkersMove, Free
<1>3. ASSUME NEW w \in Worker, Takes(w) PROVE Own'
  <2>1. /\ Left' = Left + 1 /\ Left \in Nat /\ runs' = runs /\ queueSize > 0
        /\ task' = [task EXCEPT ![w] = taskQ[queueFront]]
        /\ worker' = [worker EXCEPT ![w] = "taken"] /\ worker[w] \in Free
    BY <1>0, <1>3 DEF Takes, TakeTask, Left
  <2>2. taskQ[queueFront] = Left + 1
    <3>1. 0 \in 0 .. queueSize - 1 /\ Place(0) = queueFront
      BY <1>0, <2>1 DEF Place, Wrap, TypeInv, TypeOK, QueueTypes, Slot
    <3> QED
      BY <1>0, <3>1 DEF Ring, Left
  <2>3. Left + 1 \in Task /\ Left + 1 # Garbage
    BY <1>0, <2>1 DEF Left, Task, TypeInv, TypeOK, ClientTypes
  <2>4. task'[w] = Left + 1 /\ \A v \in Worker : v # w => task'[v] = task[v]
    BY <1>0, <2>1, <2>2
  <2>5. worker'[w] = "taken" /\ \A v \in Worker : v # w => worker'[v] = worker[v]
    BY <2>1 DEF TypeInv, TypeOK, WorkerTypes
  <2>6. task[w] = Garbage
    BY <2>1 DEF Own
  <2>7. \A v \in Worker : task[v] # Garbage => task[v] <= Left /\ task[v] \in Nat
    BY <1>0 DEF Own
  <2>8. \A t \in Task : t > Left => runs[t] = 0
    BY DEF Own
  <2>9. \A v, u \in Worker : task'[v] = task'[u] /\ task'[v] # Garbage => v = u
    BY <1>0, <2>1, <2>3, <2>4, <2>7 DEF Own
  <2>10. \A v \in Worker : task'[v] # Garbage => task'[v] <= Left'
    BY <1>0, <2>1, <2>4, <2>7
  <2>11. /\ \A v \in Worker : worker'[v] \in {"taken", "busy"}
                                 => task'[v] # Garbage /\ runs[task'[v]] = 0
         /\ \A v \in Worker : worker'[v] = "ran" => task'[v] # Garbage /\ runs[task'[v]] = 1
         /\ \A v \in Worker : worker'[v] \in Free => task'[v] = Garbage
    BY <2>1, <2>3, <2>4, <2>5, <2>8 DEF Own, Free
  <2>12. \A t \in Task : t <= Left + 1 /\ runs[t] # 1
                           => runs[t] = 0 /\ \E v \in Worker : task'[v] = t
    <3> TAKE t \in Task
    <3> HAVE t <= Left + 1 /\ runs[t] # 1
    <3>1. CASE t = Left + 1
      BY <2>1, <2>4, <2>8, <3>1
    <3>2. CASE t <= Left
      <4>1. runs[t] = 0 /\ \E v \in Worker : task[v] = t
        BY <3>2 DEF Own
      <4> QED
        BY <2>4, <2>6, <4>1
    <3> QED
      BY <1>0, <2>1, <3>1, <3>2
  <2> QED
    BY <1>0, <2>1, <2>8, <2>9, <2>10, <2>11, <2>12 DEF Own
<1>4. ASSUME NEW w \in Worker, WorkerRuns(w) PROVE Own'
  <2>1. /\ Left' = Left /\ task' = task /\ task[w] \in Task /\ runs[task[w]] = 0
        /\ runs' = [runs EXCEPT ![task[w]] = 1]
        /\ worker[w] = "busy" /\ worker' = [worker EXCEPT ![w] = "ran"]
    <3>1. /\ Left' = Left /\ task' = task /\ runs' = [runs EXCEPT ![task[w]] = @ + 1]
          /\ worker[w] = "busy" /\ worker' = [worker EXCEPT ![w] = "ran"]
      BY <1>4 DEF WorkerRuns, Left
    <3>2. task[w] \in Task /\ runs[task[w]] = 0
      BY <1>0, <3>1 DEF Own
    <3> QED
      BY <3>1, <3>2
  <2>2. worker'[w] = "ran" /\ \A v \in Worker : v # w => worker'[v] = worker[v]
    BY <2>1 DEF TypeInv, TypeOK, WorkerTypes
  <2>3. runs'[task[w]] = 1 /\ \A t \in Task : t # task[w] => runs'[t] = runs[t]
    BY <1>0, <2>1
  <2>4. \A v \in Worker : v # w /\ task[v] # Garbage => task[v] \in Task /\ task[v] # task[w]
    BY <1>0, <2>1 DEF Own
  <2>5. task[w] <= Left
    BY <2>1 DEF Own
  <2> QED
    <3>1. /\ \A v \in Worker : worker'[v] \in {"taken", "busy"}
                                 => task[v] # Garbage /\ runs'[task[v]] = 0
          /\ \A v \in Worker : worker'[v] = "ran" => task[v] # Garbage /\ runs'[task[v]] = 1
          /\ \A v \in Worker : worker'[v] \in Free => task[v] = Garbage
      BY <2>1, <2>2, <2>3, <2>4 DEF Own, Free
    <3>2. \A t \in Task : t > Left => runs'[t] = 0
      <4>1. Left \in Int
        BY <1>0 DEF Left
      <4>2. \A t \in Task : t > Left => t # task[w]
        BY <1>0, <2>1, <2>5, <4>1
      <4> QED
        BY <2>3, <4>2 DEF Own
    <3>3. \A t \in Task : t <= Left /\ runs'[t] # 1
                            => runs'[t] = 0 /\ \E v \in Worker : task[v] = t
      BY <2>3 DEF Own
    <3> QED
      BY <2>1, <3>1, <3>2, <3>3 DEF Own
<1>5. ASSUME NEW w \in Worker, WorkerIdle(w) PROVE Own'
  <2>1. /\ Left' = Left /\ runs' = runs /\ task' = [task EXCEPT ![w] = Garbage]
        /\ worker[w] = "ran" /\ worker' = [worker EXCEPT ![w] = "lock"]
    BY <1>5 DEF WorkerIdle, Left
  <2>2. /\ worker'[w] = "lock" /\ \A v \in Worker : v # w => worker'[v] = worker[v]
        /\ task'[w] = Garbage /\ \A v \in Worker : v # w => task'[v] = task[v]
    BY <1>0, <2>1 DEF TypeInv, TypeOK, WorkerTypes
  <2>3. runs[task[w]] = 1
    BY <2>1 DEF Own
  <2> QED
    BY <2>1, <2>2, <2>3 DEF Own, Free
<1> QED
  BY <1>1, <1>2, <1>3, <1>4, <1>5 DEF Effect

TaskInv == TypeInv /\ Ring /\ Own

LEMMA InitTasks == InitialQueueSizes = {0} /\ Init => TaskInv
<1> SUFFICES ASSUME InitialQueueSizes = {0}, Init PROVE TaskInv
  OBVIOUS
<1> USE Constants
<1>1. TypeInv
  BY InitTypes
<1>2. Ring
  BY DEF Init, Ring, Place, Wrap
<1>3. Own
  <2>1. \A w \in Worker : task[w] = Garbage /\ worker[w] \in {"lock", "none"}
    BY DEF Init
  <2>2. \A t \in Task : runs[t] = 0 /\ t > 0
    BY DEF Init, Task
  <2>3. Left = 0
    <3>1. queueSize = 0 /\ added = 0
      BY DEF Init
    <3> QED
      BY <3>1 DEF Left
  <2>4. \A t \in Task : ~(t <= Left)
    BY <2>2, <2>3 DEF Task
  <2> QED
    BY <2>1, <2>2, <2>4 DEF Own, Free
<1> QED
  BY <1>1, <1>2, <1>3 DEF TaskInv

LEMMA TaskInvariant == InitialQueueSizes = {0} => (Spec => []TaskInv)
<1> SUFFICES ASSUME InitialQueueSizes = {0} PROVE Spec => []TaskInv
  OBVIOUS
<1>1. Init => TaskInv
  BY InitTasks
<1>2. TaskInv /\ [Next]_vars => TaskInv'
  BY TypeStep, RingStep, OwnStep DEF TaskInv
<1> QED
  BY <1>1, <1>2, PTL DEF Spec

-----------------------------------------------------------------------------
(* The theorems                                                            *)

LEMMA RingOrder == TaskInv => QueueInOrder
<1> SUFFICES ASSUME TaskInv
             PROVE  /\ queueSize \in 0 .. QueueCapacity
                    /\ queueSize <= added
                    /\ queueRear = (queueFront + queueSize) % QueueCapacity
                    /\ \A k \in 0 .. queueSize - 1 :
                         taskQ[(queueFront + k) % QueueCapacity] = added - queueSize + k + 1
  BY DEF QueueInOrder
<1>1. queueFront \in 0 .. QueueCapacity - 1 /\ queueSize \in 0 .. QueueCapacity
  BY DEF TaskInv, TypeInv, TypeOK, QueueTypes, Slot, Ring
<1>2. \A k \in 0 .. queueSize : (queueFront + k) % QueueCapacity = Place(k)
  <2> TAKE k \in 0 .. queueSize
  <2>1. queueFront + k \in 0 .. 2 * QueueCapacity - 1
    BY <1>1, Constants
  <2> QED
    BY <2>1, Modulo DEF Place
<1> QED
  BY <1>1, <1>2 DEF TaskInv, Ring

LEMMA OneHolder == TaskInv => ExactlyOnce
<1> SUFFICES ASSUME TaskInv, Usable, NEW t \in Task
             PROVE  runs[t] + Cardinality({w \in Worker : Holds(w, t)})
                      = IF t <= added - queueSize THEN 1 ELSE 0
  BY DEF ExactlyOnce
<1> DEFINE H == {w \in Worker : Holds(w, t)}
<1> USE Constants DEF TaskInv, Own
<1>0. t \in Nat /\ t # Garbage /\ Left \in Int
  BY DEF Task, Left, Ring, TypeInv, TypeOK, ClientTypes
<1>1. \A w \in Worker : task[w] = t => worker[w] \in {"taken", "busy", "ran"}
  BY <1>0 DEF Usable, Free, TypeInv, TypeOK, WorkerTypes, WorkerState
<1>2. CASE t <= Left /\ runs[t] # 1
  <2>1. PICK w \in Worker : task[w] = t
    BY <1>2
  <2>2. runs[t] = 0 /\ Holds(w, t)
    BY <1>1, <1>2, <2>1 DEF Holds
  <2>3. H = {w}
    <3>1. \A v \in Worker : task[v] = t => v = w
      BY <1>0, <2>1
    <3> QED
      BY <2>2, <3>1 DEF Holds
  <2>4. Cardinality(H) = 1
    BY <2>3, FS_Singleton
  <2> QED
    BY <1>2, <2>2, <2>4 DEF Left
<1>3. CASE t <= Left /\ runs[t] = 1
  <2>1. H = {}
    BY <1>3 DEF Holds
  <2> QED
    BY <1>3, <2>1, FS_EmptySet DEF Left
<1>4. CASE ~(t <= Left)
  <2>1. runs[t] = 0
    BY <1>0, <1>4
  <2>2. H = {}
    BY <1>0, <1>4 DEF Holds
  <2> QED
    BY <1>4, <2>1, <2>2, FS_EmptySet DEF Left
<1> QED
  BY <1>2, <1>3, <1>4

(* Every accepted task is in the ring at its turn, in the hands of one     *)
(* worker, or has run once (threadPoolAdd and worker, threadpool.c:104 and *)
(* 131).                                                                   *)
THEOREM EveryTaskAccounted == InitialQueueSizes = {0} => (Spec => []TasksAccounted)
<1> SUFFICES ASSUME InitialQueueSizes = {0} PROVE Spec => []TasksAccounted
  OBVIOUS
<1>1. TaskInv => TasksAccounted
  BY RingOrder, OneHolder DEF TasksAccounted
<1>2. Spec => []TaskInv
  BY TaskInvariant
<1> QED
  BY <1>1, <1>2, PTL

(* With the initialisation that threadPoolCreate lacks, a worker only goes *)
(* on with a task that somebody added (threadpool.c:137).                  *)
THEOREM InitialisedQueueSuffices == InitialQueueSizes = {0} => (Spec => []SleepsWithoutTask)
<1> SUFFICES ASSUME InitialQueueSizes = {0} PROVE Spec => []SleepsWithoutTask
  OBVIOUS
<1>1. TaskInv => SleepsWithoutTask
  BY DEF TaskInv, Own, SleepsWithoutTask
<1>2. Spec => []TaskInv
  BY TaskInvariant
<1> QED
  BY <1>1, <1>2, PTL

LEMMA InitPromise == InitialQueueSizes = {0} /\ Init => Promise!Init
<1> SUFFICES ASSUME InitialQueueSizes = {0}, Init PROVE Promise!Init
  OBVIOUS
<1>1. \A t \in Task : runs[t] = 0 /\ t # Garbage
  BY Constants DEF Init
<1>2. \A w \in Worker : task[w] = Garbage
  BY DEF Init
<1>3. InHand = {} /\ Completed = {}
  <2>1. InHand = {}
    BY <1>1, <1>2 DEF InHand
  <2>2. Completed = {}
    BY <1>1 DEF Completed
  <2> QED
    BY <2>1, <2>2
<1>4. added = 0 /\ added - queueSize = 0
  <2>1. queueSize = 0 /\ added = 0
    BY DEF Init
  <2> QED
    BY <2>1
<1> QED
  BY <1>3, <1>4 DEF Promise!Init

LEMMA NextPromise == TaskInv /\ [Next]_vars => [Promise!Next]_(Promise!vars)
<1> SUFFICES ASSUME TaskInv, Effect PROVE [Promise!Next]_(Promise!vars)
  BY StepEffect DEF TaskInv
<1> USE Constants DEF TaskInv
<1>0. /\ queueSize \in Nat /\ added \in Nat /\ queueSize <= added
      /\ task \in [Worker -> Task \union {Garbage}] /\ runs \in [Task -> Nat]
      /\ \A t \in Task : t \in Nat
  BY DEF TypeInv, TypeOK, WorkerTypes, ClientTypes, Ring, Task
<1>1. CASE Puts
  <2>1. /\ added < MaxTasks /\ added' = added + 1 /\ queueSize' = queueSize + 1
        /\ runs' = runs /\ task' = task
    BY <1>1 DEF Puts, PutTask
  <2>2. InHand' = InHand /\ Completed' = Completed
    BY <2>1 DEF InHand, Completed
  <2>3. added' - queueSize' = added - queueSize
    BY <1>0, <2>1
  <2> QED
    BY <2>1, <2>2, <2>3 DEF Promise!Next, Promise!Submit
<1>2. CASE Keeps
  <2>1. InHand' = InHand /\ Completed' = Completed /\ added' = added
        /\ added' - queueSize' = added - queueSize
    BY <1>2 DEF Keeps, InHand, Completed
  <2> QED
    BY <2>1 DEF Promise!vars
<1>3. ASSUME NEW w \in Worker, Takes(w) PROVE Promise!Next
  <2> DEFINE s == added - queueSize
  <2>1. /\ added' = added /\ queueSize' = queueSize - 1 /\ queueSize > 0 /\ runs' = runs
        /\ task' = [task EXCEPT ![w] = taskQ[queueFront]] /\ worker[w] \in Free
    BY <1>0, <1>3 DEF Takes, TakeTask
  <2>2. taskQ[queueFront] = s + 1
    <3>1. 0 \in 0 .. queueSize - 1 /\ Place(0) = queueFront
      BY <1>0, <2>1 DEF Place, Wrap, TypeInv, TypeOK, QueueTypes, Slot
    <3> QED
      BY <1>0, <3>1 DEF Ring
  <2>3. s + 1 \in Task /\ task[w] = Garbage /\ runs[s + 1] = 0
    <3>1. s + 1 \in Task
      BY <1>0, <2>1 DEF Task, TypeInv, TypeOK, ClientTypes
    <3> QED
      BY <1>0, <2>1, <3>1 DEF Own, Left
  <2>4. task'[w] = s + 1 /\ \A v \in Worker : v # w => task'[v] = task[v]
    BY <1>0, <2>1, <2>2
  <2>5. InHand' = InHand \union {s + 1}
    BY <2>1, <2>3, <2>4 DEF InHand
  <2>6. Completed' = Completed
    BY <2>1 DEF Completed
  <2>7. added' - queueSize' = s + 1 /\ s < added
    BY <1>0, <2>1
  <2> QED
    BY <2>1, <2>5, <2>6, <2>7 DEF Promise!Next, Promise!Start
<1>4. ASSUME NEW w \in Worker, WorkerRuns(w) PROVE Promise!Next
  <2> DEFINE t == task[w]
  <2>1. /\ t \in Task /\ runs[t] = 0 /\ task' = task /\ runs' = [runs EXCEPT ![t] = @ + 1]
        /\ added' = added /\ queueSize' = queueSize
    <3>1. worker[w] = "busy" /\ task' = task /\ runs' = [runs EXCEPT ![t] = @ + 1]
          /\ added' = added /\ queueSize' = queueSize
      BY <1>4 DEF WorkerRuns
    <3> QED
      BY <1>0, <3>1 DEF Own
  <2>2. runs'[t] = 1 /\ \A u \in Task : u # t => runs'[u] = runs[u]
    BY <1>0, <2>1
  <2>3. InHand' = InHand \ {t} /\ t \in InHand
    BY <2>1, <2>2 DEF InHand
  <2>4. Completed' = Completed \union {t}
    BY <1>0, <2>1, <2>2 DEF Completed
  <2> QED
    BY <2>1, <2>3, <2>4 DEF Promise!Next, Promise!Finish
<1>5. ASSUME NEW w \in Worker, WorkerIdle(w) PROVE UNCHANGED Promise!vars
  <2>1. /\ runs' = runs /\ task' = [task EXCEPT ![w] = Garbage] /\ worker[w] = "ran"
        /\ added' = added /\ queueSize' = queueSize
    BY <1>5 DEF WorkerIdle
  <2>2. runs[task[w]] = 1
    BY <2>1 DEF Own
  <2>3. task'[w] = Garbage /\ \A v \in Worker : v # w => task'[v] = task[v]
    BY <1>0, <2>1
  <2>4. InHand' = InHand
    BY <2>1, <2>2, <2>3 DEF InHand
  <2>5. Completed' = Completed
    BY <2>1 DEF Completed
  <2> QED
    BY <2>1, <2>4, <2>5 DEF Promise!vars
<1> QED
  BY <1>1, <1>2, <1>3, <1>4, <1>5 DEF Effect

(* The pool keeps the promise of TaskPool: however workers come and go,    *)
(* tasks start in the order in which threadPoolAdd accepted them and each  *)
(* runs once, also beside and after threadPoolDestroy.                     *)
THEOREM PoolImplementsTaskPool == InitialQueueSizes = {0} => (Spec => TaskPoolSpec)
<1> SUFFICES ASSUME InitialQueueSizes = {0} PROVE Spec => TaskPoolSpec
  OBVIOUS
<1>1. Init => Promise!Init
  BY InitPromise
<1>2. TaskInv /\ [Next]_vars => [Promise!Next]_(Promise!vars)
  BY NextPromise
<1>3. Spec => []TaskInv
  BY TaskInvariant
<1> QED
  BY <1>1, <1>2, <1>3, PTL DEF Spec, TaskPoolSpec, Promise!Spec

-----------------------------------------------------------------------------
(* The count of busy workers                                               *)

Occupied == {w \in Worker : worker[w] \in {"busy", "ran"}}

BusySame ==
  /\ busyNum' = busyNum
  /\ \A w \in Worker : worker'[w] \in {"busy", "ran"} <=> worker[w] \in {"busy", "ran"}

LEMMA SignalBusy ==
  ASSUME TypeOK, SignalNotEmpty, busyNum' = busyNum
  PROVE  BusySame /\ \A w \in Worker : worker[w] = "fault" => worker'[w] = "fault"
  BY DEF SignalNotEmpty, Asleep, BusySame, TypeOK, WorkerTypes

LEMMA BusyEffect ==
  ASSUME TypeInv, [Next]_vars, Usable'
  PROVE  Usable /\ (BusySame \/ \E w \in Worker : WorkerBusy(w) \/ WorkerIdle(w))
<1> DEFINE Goal == Usable /\ (BusySame \/ \E w \in Worker : WorkerBusy(w) \/ WorkerIdle(w))
<1> SUFFICES Goal
  OBVIOUS
<1> USE DEF TypeInv, TypeOK, WorkerTypes
<1>1. ASSUME NEW p \in Producers, ThreadPoolAdd(p) \/ AddTests(p) \/ AddSpuriousWakeup(p)
      PROVE  Goal
  <2>1. Usable /\ busyNum' = busyNum /\ (worker' = worker \/ SignalNotEmpty)
    BY <1>1 DEF ThreadPoolAdd, AddTests, AddSpuriousWakeup, AddLoop, AddBlocks, AddRefused,
                Enqueue
  <2> QED
    BY <2>1, SignalBusy DEF BusySame
<1>2. ASSUME NEW p \in Producers, AddAfterFree(p) PROVE Goal
  BY <1>2 DEF AddAfterFree, Usable
<1>3. ASSUME NEW w \in Worker, WorkerLock(w) \/ WorkerWake(w) PROVE Goal
  <2>1. /\ Usable /\ busyNum' = busyNum /\ worker[w] \in {"lock", "woken"}
        /\ \E s \in {"wait", "exit", "taken"} : worker' = [worker EXCEPT ![w] = s]
    BY <1>3 DEF WorkerLock, WorkerWake, QueueTest, FindsNothing, FindsShutDown, Dequeue
  <2> QED
    BY <2>1 DEF BusySame
<1>4. ASSUME NEW w \in Worker,
             \/ WorkerSleep(w) \/ SpuriousWakeup(w) \/ WorkerRetires(w) \/ ThreadExit(w)
      PROVE  Goal
  <2>1. Usable /\ busyNum' = busyNum
    BY <1>4 DEF WorkerSleep, SpuriousWakeup, WorkerRetires, ThreadExit
  <2>2. /\ worker[w] \in {"wait", "asleep", "woken", "quit", "exit"}
        /\ \E s \in {"asleep", "woken", "quit", "none"} : worker' = [worker EXCEPT ![w] = s]
    BY <1>4 DEF WorkerSleep, SpuriousWakeup, WorkerRetires, ThreadExit
  <2> QED
    BY <2>1, <2>2 DEF BusySame
<1>5. ASSUME NEW w \in Worker, WorkerRuns(w) PROVE Goal
  <2>1. worker[w] = "busy" /\ worker' = [worker EXCEPT ![w] = "ran"]
        /\ UNCHANGED <<freed, producer, busyNum>>
    BY <1>5 DEF WorkerRuns
  <2> QED
    BY <2>1 DEF Usable, BusySame
<1>6. ASSUME NEW w \in Worker, WorkerCallsGarbage(w) \/ UseAfterFree(w) PROVE Goal
  <2>1. worker'[w] = "fault"
    BY <1>6 DEF WorkerCallsGarbage, UseAfterFree
  <2> QED
    BY <2>1 DEF Usable
<1>7. ASSUME NEW w \in Worker, WorkerBusy(w) \/ WorkerIdle(w) PROVE Goal
  BY <1>7 DEF WorkerBusy, WorkerIdle
<1>8. CASE ManagerCreates
  <2>1. /\ Usable /\ busyNum' = busyNum /\ worker[scan.i] = "none"
        /\ worker' = [worker EXCEPT ![scan.i] = "lock"]
    BY <1>8 DEF ManagerCreates
  <2> QED
    BY <2>1 DEF BusySame
<1>9. CASE ManagerSignal \/ DestroySignal
  BY <1>9, SignalBusy DEF ManagerSignal, DestroySignal
<1>10. CASE ManagerLoop \/ ManagerSample \/ ManagerSampleBusy \/ ManagerGrow \/ ManagerSkips
            \/ ManagerGrown \/ ManagerShrink \/ DestroyCall \/ DestroyJoin \/ DestroyFree
  <2>1. Usable /\ busyNum' = busyNum /\ worker' = worker
    BY <1>10
    DEF ManagerLoop, ManagerSample, ManagerSampleBusy, ManagerGrow, ManagerSkips,
        ManagerGrown, ManagerShrink, DestroyCall, DestroyJoin, DestroyFree
  <2> QED
    BY <2>1 DEF BusySame
<1>11. CASE UNCHANGED vars
  BY <1>11 DEF vars, Usable, BusySame
<1> QED
  BY <1>1, <1>2, <1>3, <1>4, <1>5, <1>6, <1>7, <1>8, <1>9, <1>10, <1>11
  DEF Next, ProducerStep, WorkerStep, ManagerStep, OwnerStep

LEMMA BusyStep == TypeInv /\ BusyCount /\ [Next]_vars => BusyCount'
<1> SUFFICES ASSUME TypeInv, BusyCount, [Next]_vars, Usable'
             PROVE  busyNum' = Cardinality(Occupied')
  BY DEF BusyCount, Occupied
<1>1. busyNum = Cardinality(Occupied) /\ busyNum \in Int
  BY BusyEffect DEF BusyCount, Occupied, TypeInv, TypeOK, PoolTypes
<1>2. Occupied \in SUBSET Worker
  BY DEF Occupied
<1>3. CASE BusySame
  <2>1. Occupied' = Occupied
    BY <1>3 DEF BusySame, Occupied
  <2> QED
    BY <1>1, <1>3, <2>1 DEF BusySame
<1>4. ASSUME NEW w \in Worker, WorkerBusy(w) PROVE busyNum' = Cardinality(Occupied')
  <2>1. w \in Worker \ Occupied /\ Occupied' = Occupied \union {w} /\ busyNum' = busyNum + 1
    BY <1>4 DEF WorkerBusy, Occupied, TypeInv, TypeOK, WorkerTypes
  <2> QED
    BY <1>1, <1>2, <2>1, WorkerFinite, CountUp
<1>5. ASSUME NEW w \in Worker, WorkerIdle(w) PROVE busyNum' = Cardinality(Occupied')
  <2>1. w \in Occupied /\ Occupied' = Occupied \ {w} /\ busyNum' = busyNum - 1
    BY <1>5 DEF WorkerIdle, Occupied, TypeInv, TypeOK, WorkerTypes
  <2> QED
    BY <1>1, <1>2, <2>1, WorkerFinite, CountDown
<1> QED
  BY <1>3, <1>4, <1>5, BusyEffect

(* busyNum is the number of workers between the two critical sections that *)
(* count a task in and out (worker, threadpool.c:177 and 187).             *)
THEOREM BusyWorkersCounted == Spec => []BusyCount
<1>1. Init => BusyCount
  <2> SUFFICES ASSUME Init PROVE busyNum = Cardinality(Occupied)
    BY DEF BusyCount, Occupied
  <2>1. Occupied = {} /\ busyNum = 0
    BY DEF Init, Occupied
  <2> QED
    BY <2>1, FS_EmptySet
<1>2. Init => TypeInv
  BY InitTypes
<1>3. TypeInv /\ BusyCount /\ [Next]_vars => TypeInv' /\ BusyCount'
  BY TypeStep, BusyStep
<1> QED
  BY <1>1, <1>2, <1>3, PTL DEF Spec

-----------------------------------------------------------------------------
(* Sleeping producers                                                      *)

Woken == {p \in Producers : producer[p] = "woken"}

Sleeps == \E p \in Producers : producer[p] = "asleep"

ProducersSame == queueSize' = queueSize /\ producer' = producer

(* A client calls, or wakes without a signal. *)
ComesToTest(p) ==
  /\ queueSize' = queueSize
  /\ \/ producer[p] = "out" /\ producer' = [producer EXCEPT ![p] = "lock"]
     \/ producer[p] = "asleep" /\ producer' = [producer EXCEPT ![p] = "woken"]

LEMMA ProducerEffect ==
  ASSUME TypeInv, [Next]_vars, Usable', ~shutDown'
  PROVE  /\ ~shutDown
         /\ \/ ProducersSame
            \/ \E p \in Producers : AddLoop(p) \/ ComesToTest(p)
            \/ \E w \in Worker : Dequeue(w)
<1> DEFINE Goal == /\ ~shutDown
                   /\ \/ ProducersSame
                      \/ \E p \in Producers : AddLoop(p) \/ ComesToTest(p)
                      \/ \E w \in Worker : Dequeue(w)
<1> SUFFICES Goal
  OBVIOUS
<1>1. ASSUME NEW p \in Producers, ThreadPoolAdd(p) \/ AddTests(p) \/ AddSpuriousWakeup(p)
      PROVE  Goal
  <2>1. ~shutDown
    BY <1>1 DEF ThreadPoolAdd, AddTests, AddSpuriousWakeup, controlVars, ownerVars
  <2>2. AddLoop(p) \/ ComesToTest(p)
    BY <1>1 DEF ThreadPoolAdd, AddTests, AddSpuriousWakeup, ComesToTest, queueVars
  <2> QED
    BY <2>1, <2>2
<1>2. ASSUME NEW p \in Producers, AddAfterFree(p) PROVE Goal
  BY <1>2 DEF AddAfterFree, Usable
<1>3. ASSUME NEW w \in Worker, WorkerLock(w) \/ WorkerWake(w) PROVE Goal
  <2>1. ~shutDown
    BY <1>3 DEF WorkerLock, WorkerWake
  <2>2. Dequeue(w) \/ ProducersSame
    BY <1>3 DEF WorkerLock, WorkerWake, QueueTest, FindsNothing, FindsShutDown, ProducersSame
  <2> QED
    BY <2>1, <2>2
<1>4. ASSUME NEW w \in Worker,
             \/ WorkerSleep(w) \/ SpuriousWakeup(w) \/ WorkerRetires(w) \/ WorkerBusy(w)
             \/ WorkerRuns(w) \/ WorkerCallsGarbage(w) \/ WorkerIdle(w) \/ ThreadExit(w)
             \/ UseAfterFree(w)
      PROVE  Goal
  BY <1>4 DEF WorkerSleep, SpuriousWakeup, WorkerRetires, WorkerBusy, WorkerRuns,
              WorkerCallsGarbage, WorkerIdle, ThreadExit, UseAfterFree, ProducersSame
<1>5. CASE ManagerStep
  BY <1>5
  DEF ManagerStep, ManagerLoop, ManagerSample, ManagerSampleBusy, ManagerGrow,
      ManagerCreates, ManagerSkips, ManagerGrown, ManagerShrink, ManagerSignal, ProducersSame
<1>6. CASE OwnerStep
  BY <1>6 DEF OwnerStep, DestroyCall, DestroyJoin, DestroySignal, DestroyFree, ProducersSame
<1>7. CASE UNCHANGED vars
  BY <1>7 DEF vars, ProducersSame
<1> QED
  BY <1>1, <1>2, <1>3, <1>4, <1>5, <1>6, <1>7 DEF Next, ProducerStep, WorkerStep

LEMMA SleepersStep == TypeInv /\ ProducersNotForgotten /\ [Next]_vars => ProducersNotForgotten'
<1> SUFFICES ASSUME TypeInv, ProducersNotForgotten, [Next]_vars, Usable', ~shutDown', Sleeps'
             PROVE  queueSize' + Cardinality(Woken') >= QueueCapacity
  BY DEF ProducersNotForgotten, Sleeps, Woken
<1> USE Constants
<1>0. /\ queueSize \in Int /\ producer \in [Producers -> ProducerState]
      /\ Woken \in SUBSET Producers /\ Woken' \in SUBSET Producers
      /\ Cardinality(Woken) \in Nat /\ Cardinality(Woken') \in Nat
  <2>1. Woken \in SUBSET Producers /\ Woken' \in SUBSET Producers
    BY DEF Woken
  <2> QED
    BY <2>1, CountType DEF TypeInv, TypeOK, QueueTypes, ClientTypes
<1>1. Usable /\ ~shutDown
  BY BusyEffect, ProducerEffect
<1>2. Sleeps => queueSize + Cardinality(Woken) >= QueueCapacity
  BY <1>1 DEF ProducersNotForgotten, Sleeps, Woken
<1>3. CASE ProducersSame
  <2>1. Woken' = Woken /\ Sleeps
    BY <1>3 DEF ProducersSame, Woken, Sleeps
  <2> QED
    BY <1>2, <1>3, <2>1 DEF ProducersSame
<1>4. ASSUME NEW p \in Producers, AddBlocks(p) \/ AddRefused(p)
      PROVE  queueSize' + Cardinality(Woken') >= QueueCapacity
  <2>1. queueSize' = queueSize /\ queueSize = QueueCapacity
    BY <1>1, <1>4 DEF AddBlocks, AddRefused
  <2> QED
    BY <1>0, <2>1
<1>5. ASSUME NEW p \in Producers, Enqueue(p)
      PROVE  queueSize' + Cardinality(Woken') >= QueueCapacity
  <2>1. queueSize' = queueSize + 1 /\ producer' = [producer EXCEPT ![p] = "out"]
    BY <1>5 DEF Enqueue, PutTask
  <2>2. Sleeps /\ Woken' = Woken \ {p}
    BY <1>0, <2>1 DEF Sleeps, Woken
  <2>3. Cardinality(Woken') >= Cardinality(Woken) - 1
    <3>1. CASE p \in Woken
      BY <1>0, <2>2, <3>1, CountDown
    <3>2. CASE p \notin Woken
      <4>1. Woken' = Woken
        BY <2>2, <3>2
      <4> QED
        BY <1>0, <4>1
    <3> QED
      BY <3>1, <3>2
  <2> QED
    BY <1>0, <1>2, <2>1, <2>2, <2>3
<1>6. ASSUME NEW w \in Worker, Dequeue(w)
      PROVE  queueSize' + Cardinality(Woken') >= QueueCapacity
  <2>1. queueSize' = queueSize - 1
    BY <1>6 DEF Dequeue, TakeTask
  <2>2. PICK p \in Producers : producer[p] = "asleep" /\ producer' = [producer EXCEPT ![p] = "woken"]
    BY <1>6 DEF Dequeue, SignalNotFull, Sleeps
  <2>3. Sleeps /\ p \in Producers \ Woken /\ Woken' = Woken \union {p}
    BY <1>0, <2>2 DEF Sleeps, Woken
  <2>4. Cardinality(Woken') = Cardinality(Woken) + 1
    BY <1>0, <2>3, CountUp
  <2> QED
    BY <1>0, <1>2, <2>1, <2>3, <2>4
<1>7. ASSUME NEW p \in Producers, ComesToTest(p)
      PROVE  queueSize' + Cardinality(Woken') >= QueueCapacity
  <2>1. queueSize' = queueSize /\ Sleeps /\ Woken \subseteq Woken'
    BY <1>0, <1>7 DEF ComesToTest, Sleeps, Woken
  <2>2. Cardinality(Woken) <= Cardinality(Woken')
    BY <1>0, <2>1, PoolAssumption, FS_Subset
  <2> QED
    BY <1>0, <1>2, <2>1, <2>2
<1> QED
  BY <1>3, <1>4, <1>5, <1>6, <1>7, ProducerEffect DEF AddLoop

(* A client sleeps on notFull only while the queue is full or enough woken *)
(* clients are on their way to fill it (threadPoolAdd, threadpool.c:107).  *)
THEOREM NoProducerForgotten == Spec => []ProducersNotForgotten
<1>1. Init => TypeInv /\ ProducersNotForgotten
  BY InitTypes DEF Init, ProducersNotForgotten
<1>2. TypeInv /\ ProducersNotForgotten /\ [Next]_vars => TypeInv' /\ ProducersNotForgotten'
  BY TypeStep, SleepersStep
<1> QED
  BY <1>1, <1>2, PTL DEF Spec
-----------------------------------------------------------------------------
(* The end of the pool: who waits for whom, and what is left to do         *)

(* threadPoolDestroy sets shutDown when it is called and frees the memory  *)
(* after the manager has returned; the manager signals at most NUMBER      *)
(* times in a pass.                                                        *)
Order ==
  /\ shutDown => owner # "out"
  /\ owner \in {"signal", "returned"} => manager = "done"
  /\ manager = "shrink" => scan.i = 0
  /\ manager = "signal" => scan.i < NUMBER

(* Whoever holds mutexPool is about to release it: a worker that found the *)
(* queue empty, before it sleeps, or the manager while it scans.           *)
Held ==
  freed \/ \/ mutexPool = Unlocked
           \/ mutexPool = ManagerTid /\ manager = "scan"
           \/ mutexPool \in Worker /\ worker[mutexPool] = "wait"

EndInv == TypeInv /\ Mutex /\ Destruction /\ Order /\ Held

LEMMA InitEnd == Init => Order /\ Held
  BY DEF Init, Order, Held

LEMMA OrderStep == TypeInv /\ Order /\ [Next]_vars => Order'
<1> SUFFICES ASSUME TypeInv, Order, [Next]_vars PROVE Order'
  OBVIOUS
<1>1. ASSUME UNCHANGED <<manager, seen, scan, owner, signalled, freed, shutDown>>
      PROVE  Order'
  BY <1>1 DEF Order
<1>2. ASSUME NEW p \in Producers, ProducerStep(p) \/ AddSpuriousWakeup(p) PROVE Order'
  <2>1. UNCHANGED <<manager, seen, scan, owner, signalled, freed, shutDown>>
    BY <1>2 DEF ProducerStep, ThreadPoolAdd, AddTests, AddSpuriousWakeup, AddAfterFree
  <2> QED
    BY <1>1, <2>1
<1>3. ASSUME NEW w \in Worker, WorkerStep(w) \/ SpuriousWakeup(w) PROVE Order'
  <2>1. UNCHANGED <<manager, seen, scan, owner, signalled, freed, shutDown>>
    BY <1>3
    DEF WorkerStep, SpuriousWakeup, WorkerLock, WorkerSleep, WorkerRetires, WorkerWake,
        WorkerBusy, WorkerRuns, WorkerCallsGarbage, WorkerIdle, ThreadExit, UseAfterFree
  <2> QED
    BY <1>1, <2>1
<1>4. CASE ManagerStep
  <2>1. UNCHANGED <<owner, shutDown>> /\ scan \in [i : Nat, counter : Nat]
    BY <1>4
    DEF ManagerStep, ManagerLoop, ManagerSample, ManagerSampleBusy, ManagerGrow,
        ManagerCreates, ManagerSkips, ManagerGrown, ManagerShrink, ManagerSignal,
        TypeInv, TypeOK, ManagerTypes
  <2>2. manager # "done"
    BY <1>4
    DEF ManagerStep, ManagerLoop, ManagerSample, ManagerSampleBusy, ManagerGrow, Scanning,
        ManagerCreates, ManagerSkips, ManagerGrown, ManagerShrink, ManagerSignal
  <2>3. /\ manager' = "shrink" => scan'.i = 0
        /\ manager' = "signal" => scan'.i < NUMBER
    <3>1. CASE ManagerLoop \/ ManagerSample \/ ManagerSampleBusy \/ ManagerGrow \/ ManagerGrown
      BY <3>1
      DEF ManagerLoop, ManagerSample, ManagerSampleBusy, ManagerGrow, ManagerGrown,
          ShrinkOrEnd, EndPass, Start
    <3>2. CASE ManagerCreates \/ ManagerSkips
      BY <3>2 DEF ManagerCreates, ManagerSkips, Scanning
    <3>3. CASE ManagerShrink
      BY <3>3 DEF ManagerShrink, Order, NUMBER
    <3>4. CASE ManagerSignal
      BY <2>1, <3>4 DEF ManagerSignal, EndPass, Start, Order, NUMBER
    <3> QED
      BY <1>4, <3>1, <3>2, <3>3, <3>4 DEF ManagerStep
  <2> QED
    BY <2>1, <2>2, <2>3 DEF Order
<1>5. CASE OwnerStep
  BY <1>5 DEF OwnerStep, DestroyCall, DestroyJoin, DestroySignal, DestroyFree, Order
<1>6. CASE UNCHANGED vars
  BY <1>1, <1>6 DEF vars
<1> QED
  BY <1>2, <1>3, <1>4, <1>5, <1>6 DEF Next

LEMMA HeldStep == TypeInv /\ Destruction /\ Held /\ [Next]_vars => Held'
<1> SUFFICES ASSUME TypeInv, Destruction, Held, [Next]_vars PROVE Held'
  OBVIOUS
<1> USE DEF TypeInv, TypeOK, WorkerTypes
<1>1. ASSUME freed' = freed, mutexPool' = mutexPool, manager = "scan" => manager' = "scan",
             \A w \in Worker : worker[w] = "wait" => worker'[w] = "wait" \/ freed
      PROVE  Held'
  BY <1>1 DEF Held
<1>2. ASSUME NEW p \in Producers, ProducerStep(p) \/ AddSpuriousWakeup(p) PROVE Held'
  <2>1. UNCHANGED <<mutexPool, manager, freed>>
    BY <1>2 DEF ProducerStep, ThreadPoolAdd, AddTests, AddSpuriousWakeup, AddAfterFree
  <2>2. worker' = worker \/ SignalNotEmpty
    BY <1>2 DEF ProducerStep, ThreadPoolAdd, AddTests, AddSpuriousWakeup, AddAfterFree,
                AddLoop, AddBlocks, AddRefused, Enqueue
  <2>3. \A w \in Worker : worker[w] = "wait" => worker'[w] = "wait"
    BY <2>2, SignalWakes
  <2> QED
    BY <1>1, <2>1, <2>3
<1>3. ASSUME NEW w \in Worker, WorkerLock(w) \/ WorkerWake(w) PROVE Held'
  <2>1. /\ UNCHANGED <<manager, freed>> /\ mutexPool = Unlocked /\ QueueTest(w)
    BY <1>3 DEF WorkerLock, WorkerWake
  <2>2. \/ worker'[w] = "wait" /\ mutexPool' = w
        \/ mutexPool' = Unlocked
    BY <2>1, QueueTestMoves
  <2> QED
    BY <2>2 DEF Held
<1>4. ASSUME NEW w \in Worker, WorkerSleep(w) PROVE Held'
  BY <1>4 DEF WorkerSleep, Held
<1>5. ASSUME NEW w \in Worker,
             \/ SpuriousWakeup(w) \/ WorkerRetires(w) \/ WorkerBusy(w) \/ WorkerRuns(w)
             \/ WorkerCallsGarbage(w) \/ WorkerIdle(w) \/ ThreadExit(w) \/ UseAfterFree(w)
      PROVE  Held'
  <2>1. UNCHANGED <<mutexPool, manager, freed>>
    BY <1>5 DEF SpuriousWakeup, WorkerRetires, WorkerBusy, WorkerRuns, WorkerCallsGarbage,
                WorkerIdle, ThreadExit, UseAfterFree
  <2>2. /\ worker[w] = "wait" => freed
        /\ \A v \in Worker : v # w => worker'[v] = worker[v]
    BY <1>5 DEF SpuriousWakeup, WorkerRetires, WorkerBusy, WorkerRuns, WorkerCallsGarbage,
                WorkerIdle, ThreadExit, UseAfterFree
  <2> QED
    BY <1>1, <2>1, <2>2
<1>6. CASE ManagerStep
  <2>1. CASE ManagerGrow
    BY <2>1 DEF ManagerGrow, Held
  <2>2. CASE ManagerGrown
    BY <2>2 DEF ManagerGrown, Held
  <2>3. CASE ManagerCreates \/ ManagerSkips
    <3>1. /\ UNCHANGED <<mutexPool, manager, freed>>
          /\ \A w \in Worker : worker[w] = "wait" => worker'[w] = "wait"
      BY <2>3 DEF ManagerCreates, ManagerSkips
    <3> QED
      BY <1>1, <3>1
  <2>4. CASE ManagerLoop \/ ManagerSample \/ ManagerSampleBusy \/ ManagerShrink \/ ManagerSignal
    <3>1. /\ UNCHANGED <<mutexPool, freed>> /\ manager # "scan"
          /\ worker' = worker \/ SignalNotEmpty
      BY <2>4
      DEF ManagerLoop, ManagerSample, ManagerSampleBusy, ManagerShrink, ManagerSignal
    <3>2. \A w \in Worker : worker[w] = "wait" => worker'[w] = "wait"
      BY <3>1, SignalWakes
    <3> QED
      BY <1>1, <3>1, <3>2
  <2> QED
    BY <1>6, <2>1, <2>2, <2>3, <2>4 DEF ManagerStep
<1>7. CASE OwnerStep
  <2>1. CASE DestroyFree
    BY <2>1 DEF DestroyFree, Held
  <2>2. CASE DestroyCall \/ DestroyJoin \/ DestroySignal
    <3>1. /\ UNCHANGED <<mutexPool, freed, manager>>
          /\ worker' = worker \/ SignalNotEmpty
      BY <2>2 DEF DestroyCall, DestroyJoin, DestroySignal
    <3>2. \A w \in Worker : worker[w] = "wait" => worker'[w] = "wait"
      BY <3>1, SignalWakes
    <3> QED
      BY <1>1, <3>1, <3>2
  <2> QED
    BY <1>7, <2>1, <2>2 DEF OwnerStep
<1>8. CASE UNCHANGED vars
  BY <1>1, <1>8 DEF vars
<1> QED
  BY <1>2, <1>3, <1>4, <1>5, <1>6, <1>7, <1>8 DEF Next, WorkerStep

LEMMA EndInvariant == Spec => []EndInv
<1>1. Init => EndInv
  BY InitPool, InitEnd DEF EndInv, PoolInv
<1>2. EndInv /\ [Next]_vars => EndInv'
  BY TypeStep, MutexStep, DestructionStep, OrderStep, HeldStep DEF EndInv
<1> QED
  BY <1>1, <1>2, PTL DEF Spec

(* mutexPool is never held by a thread that waits for something else or is *)
(* gone: no set of threads is deadlocked over it (every pthread_mutex_lock *)
(* in threadpool.c is matched on every path, the exits of worker included).*)
THEOREM HolderReleases == Spec => []Held
<1>1. EndInv => Held
  BY DEF EndInv
<1> QED
  BY <1>1, EndInvariant, PTL

(* threadPoolDestroy joins the manager before it frees the pool: of the    *)
(* pool's own threads only workers can touch freed memory.                 *)
THEOREM ManagerIsJoined == Spec => [](freed => manager = "done" /\ shutDown)
<1>1. EndInv => (freed => manager = "done" /\ shutDown)
  BY DEF EndInv, Destruction, Order
<1> QED
  BY <1>1, EndInvariant, PTL

(* What each thread has before it, once shutDown is set.                   *)
Remaining(n) == IF n > 0 THEN n ELSE 0

Stage ==
  CASE manager = "done" -> 0
    [] manager = "loop" -> 1
    [] manager = "signal" -> 2
    [] manager = "shrink" -> 3
    [] manager = "scan" -> 4
    [] manager = "grow" -> 5
    [] manager = "sampleBusy" -> 6
    [] manager = "sample" -> 7

ScanLeft == Remaining((IF manager = "scan" THEN MaxNum ELSE NUMBER) - scan.i)

(* A worker that finishes its task or wakes finds shutDown and leaves.     *)
Rank(state) ==
  CASE state \in {"none", "fault"} -> 0
    [] state \in {"exit", "quit"} -> 1
    [] state \in {"lock", "woken"} -> 2
    [] state \in {"asleep", "ran"} -> 3
    [] state \in {"wait", "busy"} -> 4
    [] state = "taken" -> 5

WorkSteps == {p \in Worker \X (1 .. 5) : p[2] <= Rank(worker[p[1]])}
WorkLeft == Cardinality(WorkSteps)

(* A call that sleeps still has to wake and to return. *)
InCall == {p \in Producers : producer[p] \in {"lock", "asleep", "woken"}}
Sleepers == {p \in Producers : producer[p] = "asleep"}
CallsLeft == Cardinality(InCall) + Cardinality(Sleepers)

OwnerStage ==
  CASE owner = "out" -> 3
    [] owner = "join" -> 2
    [] owner = "signal" -> 1
    [] owner = "returned" -> 0

SignalsLeft == Remaining(liveNum - signalled)

(* The manager comes first, because a pass that has begun may still start  *)
(* workers.                                                                *)
Measure == <<Stage, ScanLeft, WorkLeft, CallsLeft, OwnerStage, SignalsLeft>>

LEMMA RemainingNat == \A n \in Int : Remaining(n) \in Nat
  BY DEF Remaining

LEMMA RankType == \A s \in WorkerState : Rank(s) \in 0 .. 5
  BY DEF Rank, WorkerState

LEMMA WorkCounted ==
  ASSUME TypeInv
  PROVE  IsFiniteSet(WorkSteps) /\ WorkLeft \in Nat
<1>1. IsFiniteSet(Worker \X (1 .. 5))
  <2>1. 1 \in Int /\ 5 \in Int
    OBVIOUS
  <2>2. IsFiniteSet(1 .. 5)
    BY <2>1, FS_Interval, Zenon
  <2> QED
    BY <2>2, WorkerFinite, FS_Product, Zenon
<1>2. WorkSteps \in SUBSET (Worker \X (1 .. 5))
  BY DEF WorkSteps
<1>3. IsFiniteSet(WorkSteps)
  BY <1>1, <1>2, FS_Subset, Zenon
<1> QED
  BY <1>3, FS_CardinalityType DEF WorkLeft

LEMMA MeasureTyped ==
  ASSUME TypeInv
  PROVE  Measure \in [1 .. 6 -> Nat]
<1>1. /\ liveNum - signalled \in Int
      /\ (IF manager = "scan" THEN MaxNum ELSE NUMBER) - scan.i \in Int
  BY PoolAssumption DEF TypeInv, TypeOK, PoolTypes, OwnerTypes, ManagerTypes, NUMBER
<1>2. ScanLeft \in Nat /\ SignalsLeft \in Nat
  BY <1>1, RemainingNat DEF ScanLeft, SignalsLeft
<1>3. Stage \in Nat /\ OwnerStage \in Nat
  BY DEF TypeInv, TypeOK, ManagerTypes, OwnerTypes, Stage, OwnerStage
<1>4. CallsLeft \in Nat
  <2>1. InCall \in SUBSET Producers /\ Sleepers \in SUBSET Producers
    BY DEF InCall, Sleepers
  <2> QED
    BY <2>1, PoolAssumption, CountType DEF CallsLeft
<1> QED
  BY <1>2, <1>3, <1>4, WorkCounted DEF Measure

(* The first number that changes falls. *)
Falls ==
  \/ Stage' < Stage
  \/ Stage' = Stage /\ ScanLeft' < ScanLeft
  \/ Stage' = Stage /\ ScanLeft' = ScanLeft /\ WorkLeft' < WorkLeft
  \/ Stage' = Stage /\ ScanLeft' = ScanLeft /\ WorkLeft' = WorkLeft /\ CallsLeft' < CallsLeft
  \/ /\ Stage' = Stage /\ ScanLeft' = ScanLeft /\ WorkLeft' = WorkLeft
     /\ CallsLeft' = CallsLeft /\ OwnerStage' < OwnerStage
  \/ /\ Stage' = Stage /\ ScanLeft' = ScanLeft /\ WorkLeft' = WorkLeft
     /\ CallsLeft' = CallsLeft /\ OwnerStage' = OwnerStage /\ SignalsLeft' < SignalsLeft

LEMMA FallsLowers == Falls => Lower(Measure', Measure, 6)
<1> DEFINE m == Measure
           n == Measure'
<1>1. /\ m[1] = Stage /\ m[2] = ScanLeft /\ m[3] = WorkLeft /\ m[4] = CallsLeft
      /\ m[5] = OwnerStage /\ m[6] = SignalsLeft
  BY DEF Measure
<1>2. /\ n[1] = Stage' /\ n[2] = ScanLeft' /\ n[3] = WorkLeft' /\ n[4] = CallsLeft'
      /\ n[5] = OwnerStage' /\ n[6] = SignalsLeft'
  BY DEF Measure
<1> SUFFICES ASSUME Falls PROVE Lower(n, m, 6)
  OBVIOUS
<1>3. \/ n[1] < m[1]
      \/ n[1] = m[1] /\ n[2] < m[2]
      \/ n[1] = m[1] /\ n[2] = m[2] /\ n[3] < m[3]
      \/ n[1] = m[1] /\ n[2] = m[2] /\ n[3] = m[3] /\ n[4] < m[4]
      \/ n[1] = m[1] /\ n[2] = m[2] /\ n[3] = m[3] /\ n[4] = m[4] /\ n[5] < m[5]
      \/ /\ n[1] = m[1] /\ n[2] = m[2] /\ n[3] = m[3] /\ n[4] = m[4] /\ n[5] = m[5]
         /\ n[6] < m[6]
  BY <1>1, <1>2, Zenon DEF Falls
<1> HIDE DEF m, n
<1> QED
  BY <1>3 DEF Lower

(* One worker goes on, the others stand still or go on, too. *)
LEMMA LessWork ==
  ASSUME TypeInv, TypeInv', NEW w \in Worker, Rank(worker'[w]) < Rank(worker[w]),
         \A v \in Worker : Rank(worker'[v]) <= Rank(worker[v])
  PROVE  WorkLeft' < WorkLeft
<1>1. \A v \in Worker : Rank(worker[v]) \in 0 .. 5 /\ Rank(worker'[v]) \in 0 .. 5
  BY RankType DEF TypeInv, TypeOK, WorkerTypes
<1>2. WorkSteps' \subseteq WorkSteps
  BY <1>1 DEF WorkSteps
<1>3. WorkSteps' # WorkSteps
  <2> DEFINE p == <<w, Rank(worker[w])>>
  <2>1. p \in WorkSteps /\ p \notin WorkSteps'
    BY <1>1 DEF WorkSteps
  <2> QED
    BY <2>1
<1>4. IsFiniteSet(WorkSteps) /\ WorkLeft \in Nat /\ (IsFiniteSet(WorkSteps) /\ WorkLeft \in Nat)'
  BY WorkCounted, PTL
<1>5. /\ Cardinality(WorkSteps') <= Cardinality(WorkSteps)
      /\ Cardinality(WorkSteps') = Cardinality(WorkSteps) => WorkSteps' = WorkSteps
  BY <1>2, <1>4, FS_Subset
<1> QED
  BY <1>3, <1>4, <1>5 DEF WorkLeft

LEMMA SameWork == worker' = worker => WorkLeft' = WorkLeft
  BY DEF WorkLeft, WorkSteps

(* A signal of notEmpty wakes a worker, which is a step of it, or nobody.  *)
LEMMA SignalWork ==
  ASSUME TypeInv, TypeInv', SignalNotEmpty
  PROVE  WorkLeft' < WorkLeft \/ (WorkLeft' = WorkLeft /\ worker' = worker)
<1>1. CASE worker' = worker
  BY <1>1, SameWork
<1>2. CASE worker' # worker
  <2>1. PICK w \in Worker : worker[w] = "asleep" /\ worker' = [worker EXCEPT ![w] = "woken"]
    BY <1>2 DEF SignalNotEmpty, Asleep
  <2>2. worker'[w] = "woken" /\ \A v \in Worker : v # w => worker'[v] = worker[v]
    BY <2>1 DEF TypeInv, TypeOK, WorkerTypes
  <2>3. Rank(worker'[w]) < Rank(worker[w])
    BY <2>1, <2>2 DEF Rank
  <2>4. \A v \in Worker : Rank(worker'[v]) <= Rank(worker[v])
    <3>1. \A v \in Worker : Rank(worker[v]) \in Int /\ Rank(worker'[v]) \in Int
      BY RankType DEF TypeInv, TypeOK, WorkerTypes
    <3> QED
      BY <2>2, <2>3, <3>1
  <2> QED
    BY <2>3, <2>4, LessWork
<1> QED
  BY <1>1, <1>2

(* A step of worker w after shutDown: it is nearer to its end, and the     *)
(* manager and the owner are where they were.                              *)
LEMMA WorkerGoesOn ==
  ASSUME TypeInv, TypeInv', shutDown, NEW w \in Worker, WorkerStep(w) \/ SpuriousWakeup(w)
  PROVE  Falls
<1> USE DEF TypeInv, TypeOK, WorkerTypes
<1>1. UNCHANGED <<manager, scan>>
  BY DEF WorkerStep, SpuriousWakeup, WorkerLock, WorkerSleep, WorkerRetires, WorkerWake,
         WorkerBusy, WorkerRuns, WorkerCallsGarbage, WorkerIdle, ThreadExit, UseAfterFree
<1>2. /\ Rank(worker'[w]) < Rank(worker[w])
      /\ \A v \in Worker : v # w => worker'[v] = worker[v]
  <2>1. CASE WorkerLock(w) \/ WorkerWake(w)
    <3>1. worker[w] \in {"lock", "woken"} /\ worker' = [worker EXCEPT ![w] = "exit"]
      BY <2>1 DEF WorkerLock, WorkerWake, QueueTest, FindsNothing, FindsShutDown, Dequeue
    <3> QED
      BY <3>1 DEF Rank
  <2>2. CASE WorkerSleep(w)
    BY <2>2 DEF WorkerSleep, Rank
  <2>3. CASE SpuriousWakeup(w)
    BY <2>3 DEF SpuriousWakeup, Rank
  <2>4. CASE WorkerRetires(w)
    BY <2>4 DEF WorkerRetires, Rank
  <2>5. CASE WorkerBusy(w)
    BY <2>5 DEF WorkerBusy, Rank
  <2>6. CASE WorkerRuns(w) \/ WorkerCallsGarbage(w)
    <3>1. worker[w] = "busy" /\ \E s \in {"ran", "fault"} : worker' = [worker EXCEPT ![w] = s]
      BY <2>6, Zenon DEF WorkerRuns, WorkerCallsGarbage
    <3> QED
      BY <3>1 DEF Rank
  <2>7. CASE WorkerIdle(w)
    BY <2>7 DEF WorkerIdle, Rank
  <2>8. CASE ThreadExit(w)
    BY <2>8 DEF ThreadExit, Rank
  <2>9. CASE UseAfterFree(w)
    BY <2>9 DEF UseAfterFree, Rank
  <2> QED
    BY <2>1, <2>2, <2>3, <2>4, <2>5, <2>6, <2>7, <2>8, <2>9 DEF WorkerStep
<1>3. \A v \in Worker : Rank(worker'[v]) <= Rank(worker[v])
  <2>1. \A v \in Worker : Rank(worker[v]) \in Int /\ Rank(worker'[v]) \in Int
    BY RankType
  <2> QED
    BY <1>2, <2>1
<1>4. WorkLeft' < WorkLeft
  BY <1>2, <1>3, LessWork
<1>5. Stage' = Stage /\ ScanLeft' = ScanLeft
  BY <1>1 DEF Stage, ScanLeft
<1> QED
  BY <1>4, <1>5 DEF Falls

(* A call that is in progress returns or wakes, and no client calls. *)
LEMMA ClientGoesOn ==
  ASSUME TypeInv, TypeInv', Order, shutDown,
         NEW p \in Producers, ProducerStep(p) \/ AddSpuriousWakeup(p)
  PROVE  Falls
<1>1. UNCHANGED <<manager, scan, worker>>
  BY DEF ProducerStep, ThreadPoolAdd, AddTests, AddSpuriousWakeup, AddAfterFree, AddLoop,
         AddBlocks, AddRefused, Enqueue, Order
<1>2. \/ /\ producer[p] \in {"lock", "woken"}
         /\ \E s \in {"out", "fault"} : producer' = [producer EXCEPT ![p] = s]
      \/ producer[p] = "asleep" /\ producer' = [producer EXCEPT ![p] = "woken"]
  BY DEF ProducerStep, ThreadPoolAdd, AddTests, AddSpuriousWakeup, AddAfterFree, AddLoop,
         AddBlocks, AddRefused, Enqueue, Order
<1>3. /\ IsFiniteSet(Producers) /\ InCall \in SUBSET Producers /\ Sleepers \in SUBSET Producers
      /\ Cardinality(InCall) \in Nat /\ Cardinality(Sleepers) \in Nat
  <2>1. InCall \in SUBSET Producers /\ Sleepers \in SUBSET Producers
    BY DEF InCall, Sleepers
  <2> QED
    BY <2>1, PoolAssumption, CountType
<1>4. ASSUME producer[p] \in {"lock", "woken"},
             \E s \in {"out", "fault"} : producer' = [producer EXCEPT ![p] = s]
      PROVE  CallsLeft' = CallsLeft - 1
  <2>1. p \in InCall /\ InCall' = InCall \ {p} /\ Sleepers' = Sleepers
    BY <1>4 DEF InCall, Sleepers, TypeInv, TypeOK, ClientTypes
  <2>2. Cardinality(InCall') = Cardinality(InCall) - 1
    BY <1>3, <2>1, CountDown
  <2> QED
    BY <1>3, <2>1, <2>2 DEF CallsLeft
<1>5. ASSUME producer[p] = "asleep", producer' = [producer EXCEPT ![p] = "woken"]
      PROVE  CallsLeft' = CallsLeft - 1
  <2>1. p \in Sleepers /\ Sleepers' = Sleepers \ {p} /\ InCall' = InCall
    BY <1>5 DEF InCall, Sleepers, TypeInv, TypeOK, ClientTypes
  <2>2. Cardinality(Sleepers') = Cardinality(Sleepers) - 1
    BY <1>3, <2>1, CountDown
  <2> QED
    BY <1>3, <2>1, <2>2 DEF CallsLeft
<1>6. CallsLeft' < CallsLeft
  <2>1. CallsLeft' = CallsLeft - 1
    BY <1>2, <1>4, <1>5
  <2> QED
    BY <1>3, <2>1 DEF CallsLeft
<1>7. Stage' = Stage /\ ScanLeft' = ScanLeft /\ WorkLeft' = WorkLeft
  BY <1>1, SameWork DEF Stage, ScanLeft
<1> QED
  BY <1>6, <1>7 DEF Falls

(* The manager finishes its pass and returns. *)
LEMMA ManagerGoesOn ==
  ASSUME TypeInv, TypeInv', Order, shutDown, ManagerStep
  PROVE  Falls
<1>1. MaxNum \in Nat /\ scan.i \in Nat /\ scan \in [i : Nat, counter : Nat]
  BY PoolAssumption DEF TypeInv, TypeOK, ManagerTypes
<1>2. CASE \/ ManagerLoop \/ ManagerSample \/ ManagerSampleBusy \/ ManagerGrow \/ ManagerGrown
           \/ ManagerShrink
  <2>1. \/ manager = "loop" /\ manager' = "done"
        \/ manager = "sample" /\ manager' = "sampleBusy"
        \/ manager = "sampleBusy" /\ manager' \in {"grow", "shrink", "loop"}
        \/ manager = "grow" /\ manager' = "scan"
        \/ manager = "scan" /\ manager' \in {"shrink", "loop"}
        \/ manager = "shrink" /\ manager' = "signal"
    <3>1. CASE ManagerLoop
      BY <3>1, Zenon DEF ManagerLoop
    <3>2. CASE ManagerSample
      BY <3>2, Zenon DEF ManagerSample
    <3>3. CASE ManagerSampleBusy
      BY <3>3 DEF ManagerSampleBusy, ShrinkOrEnd, EndPass
    <3>4. CASE ManagerGrow \/ ManagerShrink
      BY <3>4, Zenon DEF ManagerGrow, ManagerShrink
    <3>5. CASE ManagerGrown
      BY <3>5 DEF ManagerGrown, ShrinkOrEnd, EndPass
    <3> QED
      BY <1>2, <3>1, <3>2, <3>3, <3>4, <3>5
  <2>2. Stage' < Stage
    BY <2>1 DEF Stage
  <2> QED
    BY <2>2 DEF Falls
<1>3. CASE ManagerCreates \/ ManagerSkips
  <2>1. manager = "scan" /\ manager' = "scan" /\ scan.i < MaxNum /\ scan'.i = scan.i + 1
    <3>1. Scanning /\ manager' = manager
      BY <1>3 DEF ManagerCreates, ManagerSkips
    <3>2. \/ scan' = [i |-> scan.i + 1, counter |-> scan.counter + 1]
          \/ scan' = [scan EXCEPT !.i = @ + 1]
      BY <1>3 DEF ManagerCreates, ManagerSkips
    <3> QED
      BY <1>1, <3>1, <3>2 DEF Scanning
  <2>2. ScanLeft = MaxNum - scan.i /\ ScanLeft' = Remaining(MaxNum - (scan.i + 1))
    BY <1>1, <2>1 DEF ScanLeft, Remaining
  <2>3. ScanLeft' < ScanLeft
    BY <1>1, <2>1, <2>2 DEF Remaining
  <2>4. Stage' = Stage
    BY <2>1 DEF Stage
  <2> QED
    BY <2>3, <2>4 DEF Falls
<1>4. CASE ManagerSignal
  <2>1. manager = "signal" /\ scan.i < NUMBER
    BY <1>4 DEF ManagerSignal, Order
  <2>2. CASE EndPass
    BY <2>1, <2>2 DEF EndPass, Stage, Falls
  <2>3. CASE ~EndPass
    <3>1. manager' = "signal" /\ scan'.i = scan.i + 1
      BY <1>1, <1>4, <2>1, <2>3 DEF ManagerSignal
    <3>2. ScanLeft = NUMBER - scan.i /\ ScanLeft' = Remaining(NUMBER - (scan.i + 1))
      BY <1>1, <2>1, <3>1 DEF ScanLeft, Remaining, NUMBER
    <3>3. ScanLeft' < ScanLeft
      BY <1>1, <2>1, <3>2 DEF Remaining, NUMBER
    <3>4. Stage' = Stage
      BY <2>1, <3>1 DEF Stage
    <3> QED
      BY <3>3, <3>4 DEF Falls
  <2> QED
    BY <2>2, <2>3
<1> QED
  BY <1>2, <1>3, <1>4 DEF ManagerStep

(* The owner signals liveNum times at most and frees the pool. *)
LEMMA OwnerGoesOn ==
  ASSUME TypeInv, TypeInv', Order, shutDown, OwnerStep
  PROVE  Falls
<1>1. UNCHANGED <<manager, scan, producer, liveNum>> /\ owner # "out"
  BY DEF OwnerStep, DestroyCall, DestroyJoin, DestroySignal, DestroyFree, Order
<1>2. Stage' = Stage /\ ScanLeft' = ScanLeft /\ CallsLeft' = CallsLeft
  BY <1>1 DEF Stage, ScanLeft, CallsLeft, InCall, Sleepers
<1>3. CASE DestroyJoin \/ DestroyFree
  <2>1. WorkLeft' = WorkLeft
    BY <1>3, SameWork DEF DestroyJoin, DestroyFree
  <2>2. \/ owner = "join" /\ owner' = "signal"
        \/ owner = "signal" /\ owner' = "returned"
    <3>1. CASE DestroyJoin
      BY <3>1, Zenon DEF DestroyJoin
    <3>2. CASE DestroyFree
      BY <3>2, Zenon DEF DestroyFree
    <3> QED
      BY <1>3, <3>1, <3>2
  <2>3. OwnerStage' < OwnerStage
    BY <2>2 DEF OwnerStage
  <2> QED
    BY <1>2, <2>1, <2>3 DEF Falls
<1>4. CASE DestroySignal
  <2>1. WorkLeft' < WorkLeft \/ WorkLeft' = WorkLeft
    BY <1>4, SignalWork DEF DestroySignal
  <2>2. OwnerStage' = OwnerStage
    BY <1>4 DEF DestroySignal, OwnerStage
  <2>3. SignalsLeft' < SignalsLeft
    <3>1. liveNum \in Int /\ signalled \in Int /\ signalled < liveNum /\ signalled' = signalled + 1
          /\ liveNum' = liveNum
      BY <1>1, <1>4 DEF DestroySignal, TypeInv, TypeOK, PoolTypes, OwnerTypes
    <3> QED
      BY <3>1 DEF SignalsLeft, Remaining
  <2> QED
    BY <1>2, <2>1, <2>2, <2>3 DEF Falls
<1> QED
  BY <1>1, <1>3, <1>4 DEF OwnerStep, DestroyCall

(* Once threadPoolDestroy has set shutDown, every step of every thread     *)
(* lowers what is left: the manager's pass, the workers' way out, the      *)
(* calls in progress, the owner's signals; a worker or a client that wakes *)
(* without a signal included.  By NoEndlessDescent the pool comes to rest  *)
(* after finitely many steps, whatever the scheduling and however many     *)
(* tasks are left in the queue.                                            *)
THEOREM ShutDownEnds ==
  Spec => /\ [](Measure \in [1 .. 6 -> Nat])
          /\ [][shutDown => Lower(Measure', Measure, 6)]_vars
<1>1. EndInv => Measure \in [1 .. 6 -> Nat]
  BY MeasureTyped DEF EndInv
<1>2. ASSUME EndInv, EndInv', Next, shutDown PROVE Falls
  BY <1>2, WorkerGoesOn, ClientGoesOn, ManagerGoesOn, OwnerGoesOn DEF EndInv, Next
<1>3. EndInv /\ EndInv' /\ [Next]_vars => [shutDown => Lower(Measure', Measure, 6)]_vars
  BY <1>2, FallsLowers
<1> QED
  BY <1>1, <1>3, EndInvariant, PTL DEF Spec

(* The step that comes next on the way to the return of threadPoolDestroy. *)
ManagerCanGo ==
  \/ manager \in {"loop", "sampleBusy", "scan", "signal"}
  \/ manager \in {"sample", "grow", "shrink"} /\ mutexPool = Unlocked

SomebodyCanGo ==
  \/ owner = "join" /\ manager = "done"
  \/ owner = "signal"
  \/ ManagerCanGo
  \/ \E w \in Worker : mutexPool = w /\ worker[w] = "wait"

(* From the call of threadPoolDestroy until it returns there is always a   *)
(* thread that waits for nobody: the owner, the manager, or the worker     *)
(* that holds the mutex before it sleeps.  With ShutDownEnds, the call is  *)
(* never stuck, unless a worker has called a function nobody wrote; what   *)
(* fairness adds is that such a thread is scheduled.                       *)
THEOREM DestroyNeverStuck ==
  Spec => [](shutDown /\ Usable /\ owner # "returned" => SomebodyCanGo)
<1>1. EndInv => (shutDown /\ Usable /\ owner # "returned" => SomebodyCanGo)
  BY DEF EndInv, TypeInv, TypeOK, OwnerTypes, ManagerTypes, Order, Held, SomebodyCanGo,
         ManagerCanGo, Usable
<1> QED
  BY <1>1, EndInvariant, PTL
=============================================================================
