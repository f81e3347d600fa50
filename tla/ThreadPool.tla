----------------------------- MODULE ThreadPool -----------------------------
(***************************************************************************)
(* The thread pool of CRUSH_Research/threadpool.c: a ring buffer of tasks, *)
(* worker threads that take tasks from it, a manager thread that grows and *)
(* shrinks the set of workers, producers that call threadPoolAdd, and an   *)
(* owner that calls threadPoolDestroy.                                     *)
(*                                                                         *)
(* A step is the code between two accesses to memory that other threads    *)
(* may touch without mutexPool (shutDown, threadIDs, the wait queue of     *)
(* notEmpty).  A stretch of code under mutexPool is one step, unless       *)
(* another thread can signal or write in the middle of it: a worker keeps  *)
(* the mutex between finding the queue empty and going to sleep, and the   *)
(* manager keeps it while it scans the thread table.                       *)
(***************************************************************************)
EXTENDS Integers, FiniteSets

CONSTANTS
  Producers,               \* client threads that call threadPoolAdd
  MinNum, MaxNum,          \* threadPoolCreate's min and max
  QueueCapacity,           \* threadPoolCreate's queueSize argument
  InitialQueueSizes,       \* what the never assigned field queueSize may hold
  MaxTasks,                \* tasks the clients submit: bounds the model
  DestroyAfter,            \* tasks run before the owner may call threadPoolDestroy
  Garbage                  \* an uninitialised Task structure

ASSUME PoolAssumption ==
  /\ IsFiniteSet(Producers)
  /\ MinNum \in Nat
  /\ MaxNum \in Nat \ {0}
  /\ MinNum <= MaxNum
  /\ QueueCapacity \in Nat \ {0}
  /\ InitialQueueSizes \subseteq Int
  /\ InitialQueueSizes # {}
  /\ MaxTasks \in Nat
  /\ DestroyAfter \in Nat
  /\ Garbage \notin Nat

NUMBER == 2                \* threads created or retired in one pass of the manager

(* A worker is named by its index in threadIDs: an entry of the table is   *)
(* non-zero exactly while its worker is in a state other than "none".      *)
Worker == 0 .. MaxNum - 1
Slot == 0 .. QueueCapacity - 1
Task == 1 .. MaxTasks

(* Who holds mutexPool: a worker, the manager or nobody. *)
ManagerTid == MaxNum
Unlocked == -1

VARIABLES
  taskQ, queueSize, queueFront, queueRear,
  liveNum, busyNum, exitNum, shutDown,
  mutexPool,
  worker,                  \* worker[w]: where thread w is in the function worker
  task,                    \* task[w]: its local variable task
  manager,                 \* where the manager is in the function manager
  seen,                    \* its locals queueSize, liveNum, busyNum
  scan,                    \* its locals i and counter
  producer,                \* producer[p]: where client p is in threadPoolAdd
  owner,                   \* where the owner is in threadPoolDestroy
  signalled,               \* its local i
  freed,                   \* the pool's memory has been given back
  added,                   \* history: tasks accepted so far, also the last one's name
  runs                     \* history: how many times each task's function has run

queueVars == <<taskQ, queueSize, queueFront, queueRear>>
countVars == <<liveNum, busyNum, exitNum>>
managerVars == <<manager, seen, scan>>
ownerVars == <<owner, signalled, freed, shutDown>>
clientVars == <<producer, added, runs>>
controlVars == <<managerVars, ownerVars>>
vars == <<queueVars, countVars, mutexPool, worker, task, controlVars, clientVars>>

(* The manager's locals at the start of a pass. *)
Unread == [queueSize |-> 0, liveNum |-> 0, busyNum |-> 0]
Start == [i |-> 0, counter |-> 0]

-----------------------------------------------------------------------------
(* threadPoolCreate returns with the manager and min workers started.      *)
Init ==
  /\ taskQ = [s \in Slot |-> Garbage]
  /\ queueSize \in InitialQueueSizes
  /\ queueFront = 0
  /\ queueRear = 0
  /\ liveNum = MinNum
  /\ busyNum = 0
  /\ exitNum = 0
  /\ shutDown = FALSE
  /\ mutexPool = Unlocked
  /\ worker = [w \in Worker |-> IF w < MinNum THEN "lock" ELSE "none"]
  /\ task = [w \in Worker |-> Garbage]
  /\ manager = "loop"
  /\ seen = Unread
  /\ scan = Start
  /\ producer = [p \in Producers |-> "out"]
  /\ owner = "out"
  /\ signalled = 0
  /\ freed = FALSE
  /\ added = 0
  /\ runs = [t \in Task |-> 0]

(* The pool may be used: it is not freed, and no thread has run into       *)
(* undefined behaviour, after which nothing is claimed.                    *)
Usable ==
  /\ ~freed
  /\ \A w \in Worker : worker[w] # "fault"
  /\ \A p \in Producers : producer[p] # "fault"

(* The clients with a call of threadPoolAdd in progress. *)
Calling == {p \in Producers : producer[p] # "out"}

Asleep == {w \in Worker : worker[w] = "asleep"}

(* pthread_cond_signal(&notEmpty): one sleeping worker, if any, wakes.     *)
SignalNotEmpty ==
  IF Asleep = {}
  THEN UNCHANGED worker
  ELSE \E w \in Asleep : worker' = [worker EXCEPT ![w] = "woken"]

(* pthread_cond_signal(&notFull): one sleeping producer, if any, wakes.    *)
SignalNotFull ==
  LET sleeping == {p \in Producers : producer[p] = "asleep"}
  IN  IF sleeping = {}
      THEN UNCHANGED producer
      ELSE \E p \in sleeping : producer' = [producer EXCEPT ![p] = "woken"]

-----------------------------------------------------------------------------
(* threadPoolAdd                                                           *)

(* A full queue: the producer sleeps on notFull.  Only a thread that holds *)
(* mutexPool signals notFull, so testing and falling asleep are one step.  *)
AddBlocks(p) ==
  /\ queueSize = QueueCapacity /\ ~shutDown
  /\ producer' = [producer EXCEPT ![p] = "asleep"]
  /\ UNCHANGED <<queueVars, worker, added>>

(* A pool that is being destroyed takes no task. *)
AddRefused(p) ==
  /\ shutDown
  /\ producer' = [producer EXCEPT ![p] = "out"]
  /\ UNCHANGED <<queueVars, worker, added>>

(* Bug: the index of the tail is not taken modulo the capacity. *)
BugNoWrap ==
  /\ taskQ' = [taskQ EXCEPT ![queueRear] = added + 1]
  /\ queueRear' = queueRear + 1
  /\ queueSize' = queueSize + 1
  /\ added' = added + 1
  /\ UNCHANGED queueFront

(* Store the task behind the last one. *)
PutTask ==
  /\ taskQ' = [taskQ EXCEPT ![queueRear] = added + 1]
  /\ queueRear' = (queueRear + 1) % QueueCapacity
  /\ queueSize' = queueSize + 1
  /\ added' = added + 1
  /\ UNCHANGED queueFront

(* Bug: the signal of notEmpty is forgotten. *)
BugAddNoSignal(p) ==
  /\ queueSize # QueueCapacity /\ ~shutDown
  /\ PutTask
  /\ producer' = [producer EXCEPT ![p] = "out"]
  /\ UNCHANGED worker

Enqueue(p) ==
  /\ queueSize # QueueCapacity /\ ~shutDown
  /\ PutTask
  /\ producer' = [producer EXCEPT ![p] = "out"]
  /\ SignalNotEmpty

AddLoop(p) == AddBlocks(p) \/ AddRefused(p) \/ Enqueue(p)

(* A client calls; the call may still wait for the mutex when the owner    *)
(* begins to destroy the pool.                                             *)
ThreadPoolAdd(p) ==
  /\ Usable /\ producer[p] = "out"
  /\ owner = "out"
  /\ added + Cardinality(Calling) < MaxTasks
  /\ producer' = [producer EXCEPT ![p] = "lock"]
  /\ UNCHANGED <<queueVars, countVars, mutexPool, worker, task, controlVars,
                 added, runs>>

(* The producer gets the mutex, at first or back from pthread_cond_wait.   *)
AddTests(p) ==
  /\ Usable /\ producer[p] \in {"lock", "woken"} /\ mutexPool = Unlocked
  /\ AddLoop(p)
  /\ UNCHANGED <<countVars, mutexPool, task, controlVars, runs>>

(* pthread_cond_wait returns without a signal, here as well.               *)
AddSpuriousWakeup(p) ==
  /\ Usable /\ producer[p] = "asleep"
  /\ producer' = [producer EXCEPT ![p] = "woken"]
  /\ UNCHANGED <<queueVars, countVars, mutexPool, worker, task, controlVars,
                 added, runs>>

(* A producer that called, or was woken, before threadPoolDestroy and runs *)
(* after it.                                                               *)
AddAfterFree(p) ==
  /\ freed
  /\ producer[p] \in {"lock", "woken"}
  /\ producer' = [producer EXCEPT ![p] = "fault"]
  /\ UNCHANGED <<queueVars, countVars, mutexPool, worker, task, controlVars,
                 added, runs>>

-----------------------------------------------------------------------------
(* worker                                                                  *)

Goes(w, from, to) == worker[w] = from /\ worker' = [worker EXCEPT ![w] = to]

(* An empty queue: the worker is about to wait, and still holds the mutex. *)
FindsNothing(w) ==
  /\ queueSize = 0 /\ ~shutDown
  /\ mutexPool' = w
  /\ worker' = [worker EXCEPT ![w] = "wait"]
  /\ UNCHANGED <<queueVars, task, producer>>

(* Bug: a thread leaves without releasing the mutex. *)
BugExitLocked(w) ==
  /\ shutDown
  /\ mutexPool' = w
  /\ worker' = [worker EXCEPT ![w] = "exit"]
  /\ UNCHANGED <<queueVars, task, producer>>

FindsShutDown(w) ==
  /\ shutDown
  /\ worker' = [worker EXCEPT ![w] = "exit"]
  /\ UNCHANGED <<queueVars, mutexPool, task, producer>>

(* Bug: the task is taken from the end where tasks are added. *)
BugTakeNewest(w) ==
  LET last == (queueRear + QueueCapacity - 1) % QueueCapacity
  IN  /\ task' = [task EXCEPT ![w] = taskQ[last]]
      /\ queueRear' = last
      /\ queueSize' = queueSize - 1
      /\ UNCHANGED <<taskQ, queueFront>>

(* Copy the oldest task and move the head of the queue. *)
TakeTask(w) ==
  /\ task' = [task EXCEPT ![w] = taskQ[queueFront]]
  /\ queueFront' = (queueFront + 1) % QueueCapacity
  /\ queueSize' = queueSize - 1
  /\ UNCHANGED <<taskQ, queueRear>>

(* Bug: the signal of notFull is forgotten. *)
BugTakeNoSignal(w) ==
  /\ queueSize # 0 /\ ~shutDown
  /\ TakeTask(w)
  /\ worker' = [worker EXCEPT ![w] = "taken"]
  /\ UNCHANGED <<mutexPool, producer>>

Dequeue(w) ==
  /\ queueSize # 0 /\ ~shutDown
  /\ TakeTask(w)
  /\ worker' = [worker EXCEPT ![w] = "taken"]
  /\ SignalNotFull
  /\ UNCHANGED mutexPool

QueueTest(w) == FindsNothing(w) \/ FindsShutDown(w) \/ Dequeue(w)

WorkerLock(w) ==
  /\ Usable /\ worker[w] = "lock" /\ mutexPool = Unlocked
  /\ QueueTest(w)
  /\ UNCHANGED <<countVars, controlVars, added, runs>>

(* pthread_cond_wait: join the wait queue of notEmpty, release the mutex.  *)
WorkerSleep(w) ==
  /\ Usable /\ Goes(w, "wait", "asleep")
  /\ mutexPool' = Unlocked
  /\ UNCHANGED <<queueVars, countVars, task, controlVars, clientVars>>

(* POSIX lets pthread_cond_wait return without a signal. *)
SpuriousWakeup(w) ==
  /\ Usable /\ Goes(w, "asleep", "woken")
  /\ UNCHANGED <<queueVars, countVars, mutexPool, task, controlVars, clientVars>>

(* Bug: liveNum is not compared with minNum before the thread leaves. *)
BugRetireBelowMin == exitNum > 0

MayRetire == exitNum > 0 /\ liveNum > MinNum

(* Bug: the thread leaves without releasing the mutex. *)
BugRetireLocked(w) ==
  /\ Usable /\ Goes(w, "woken", "quit") /\ mutexPool = Unlocked
  /\ MayRetire
  /\ exitNum' = exitNum - 1
  /\ liveNum' = liveNum - 1
  /\ mutexPool' = w
  /\ UNCHANGED <<queueVars, busyNum, task, controlVars, clientVars>>

(* Back from pthread_cond_wait, a worker first looks whether it should     *)
(* retire: it may leave although the signal was for a queued task.         *)
WorkerRetires(w) ==
  /\ Usable /\ Goes(w, "woken", "quit") /\ mutexPool = Unlocked
  /\ MayRetire
  /\ exitNum' = exitNum - 1
  /\ liveNum' = liveNum - 1
  /\ UNCHANGED <<queueVars, busyNum, mutexPool, task, controlVars, clientVars>>

(* Bug: "if" for "while", the queue is not tested again after the wait. *)
BugWakeNoRetest(w) ==
  /\ Usable /\ worker[w] = "woken" /\ mutexPool = Unlocked
  /\ ~MayRetire
  /\ exitNum' = IF exitNum > 0 THEN exitNum - 1 ELSE exitNum
  /\ \/ FindsShutDown(w)
     \/ /\ ~shutDown
        /\ TakeTask(w)
        /\ worker' = [worker EXCEPT ![w] = "taken"]
        /\ SignalNotFull
        /\ UNCHANGED mutexPool
  /\ UNCHANGED <<liveNum, busyNum, controlVars, added, runs>>

WorkerWake(w) ==
  /\ Usable /\ worker[w] = "woken" /\ mutexPool = Unlocked
  /\ ~MayRetire
  /\ exitNum' = IF exitNum > 0 THEN exitNum - 1 ELSE exitNum
  /\ QueueTest(w)
  /\ UNCHANGED <<liveNum, busyNum, controlVars, added, runs>>

WorkerBusy(w) ==
  /\ Usable /\ Goes(w, "taken", "busy")
  /\ busyNum' = busyNum + 1
  /\ UNCHANGED <<queueVars, liveNum, exitNum, mutexPool, task, controlVars,
                 clientVars>>

(* task.function(task.arg) runs to its end. *)
WorkerRuns(w) ==
  /\ Goes(w, "busy", "ran")
  /\ task[w] # Garbage
  /\ runs' = [runs EXCEPT ![task[w]] = @ + 1]
  /\ UNCHANGED <<queueVars, countVars, mutexPool, task, controlVars, producer,
                 added>>

(* A call through a function pointer nobody wrote. *)
WorkerCallsGarbage(w) ==
  /\ Goes(w, "busy", "fault")
  /\ task[w] = Garbage
  /\ UNCHANGED <<queueVars, countVars, mutexPool, task, controlVars, clientVars>>

(* Bug: busyNum is not counted down. *)
BugStaysBusy(w) ==
  /\ Usable /\ Goes(w, "ran", "lock")
  /\ task' = [task EXCEPT ![w] = Garbage]
  /\ UNCHANGED <<queueVars, countVars, mutexPool, controlVars, clientVars>>

WorkerIdle(w) ==
  /\ Usable /\ Goes(w, "ran", "lock")
  /\ busyNum' = busyNum - 1
  /\ task' = [task EXCEPT ![w] = Garbage]
  /\ UNCHANGED <<queueVars, liveNum, exitNum, mutexPool, controlVars, clientVars>>

(* threadExit clears the thread's entry of threadIDs, without mutexPool.   *)
ThreadExit(w) ==
  /\ Usable
  /\ worker[w] \in {"quit", "exit"}
  /\ worker' = [worker EXCEPT ![w] = "none"]
  /\ UNCHANGED <<queueVars, countVars, mutexPool, task, controlVars, clientVars>>

(* A worker that threadPoolDestroy did not wait for touches the pool.      *)
UseAfterFree(w) ==
  /\ freed
  /\ worker[w] \in {"lock", "wait", "woken", "taken", "ran", "quit", "exit"}
  /\ worker' = [worker EXCEPT ![w] = "fault"]
  /\ UNCHANGED <<queueVars, countVars, mutexPool, task, controlVars, clientVars>>

-----------------------------------------------------------------------------
(* manager                                                                 *)

WantsGrow(s) == s.queueSize >= 1 /\ s.liveNum < MaxNum
WantsShrink(s) == s.busyNum * 2 < s.liveNum /\ s.liveNum > MinNum

(* The end of a pass: back to the test of shutDown. *)
EndPass ==
  /\ manager' = "loop"
  /\ seen' = Unread
  /\ scan' = Start

(* After the decision to grow, and the growing if any. *)
ShrinkOrEnd(s) ==
  IF WantsShrink(s)
  THEN manager' = "shrink" /\ seen' = s /\ scan' = Start
  ELSE EndPass

ManagerLoop ==
  /\ Usable /\ manager = "loop"
  /\ manager' = IF shutDown THEN "done" ELSE "sample"
  /\ UNCHANGED <<queueVars, countVars, mutexPool, worker, task, seen, scan,
                 ownerVars, clientVars>>

ManagerSample ==
  /\ Usable /\ manager = "sample" /\ mutexPool = Unlocked
  /\ seen' = [seen EXCEPT !.queueSize = queueSize, !.liveNum = liveNum]
  /\ manager' = "sampleBusy"
  /\ UNCHANGED <<queueVars, countVars, mutexPool, worker, task, scan, ownerVars,
                 clientVars>>

(* busyNum has a mutex of its own: it is read after the other two. *)
ManagerSampleBusy ==
  /\ Usable /\ manager = "sampleBusy"
  /\ LET s == [seen EXCEPT !.busyNum = busyNum]
     IN  IF WantsGrow(s)
         THEN manager' = "grow" /\ seen' = s /\ UNCHANGED scan
         ELSE ShrinkOrEnd(s)
  /\ UNCHANGED <<queueVars, countVars, mutexPool, worker, task, ownerVars,
                 clientVars>>

ManagerGrow ==
  /\ Usable /\ manager = "grow" /\ mutexPool = Unlocked
  /\ mutexPool' = ManagerTid
  /\ manager' = "scan"
  /\ UNCHANGED <<queueVars, countVars, worker, task, seen, scan, ownerVars,
                 clientVars>>

(* The loop's bound on liveNum is on the local copy, which does not move.  *)
Scanning == manager = "scan" /\ scan.i < MaxNum /\ scan.counter < NUMBER

ManagerCreates ==
  /\ Usable /\ Scanning
  /\ worker[scan.i] = "none"
  /\ worker' = [worker EXCEPT ![scan.i] = "lock"]
  /\ liveNum' = liveNum + 1
  /\ scan' = [i |-> scan.i + 1, counter |-> scan.counter + 1]
  /\ UNCHANGED <<queueVars, busyNum, exitNum, mutexPool, task, manager, seen,
                 ownerVars, clientVars>>

ManagerSkips ==
  /\ Usable /\ Scanning
  /\ worker[scan.i] # "none"
  /\ scan' = [scan EXCEPT !.i = @ + 1]
  /\ UNCHANGED <<queueVars, countVars, mutexPool, worker, task, manager, seen,
                 ownerVars, clientVars>>

ManagerGrown ==
  /\ Usable
  /\ manager = "scan" /\ ~Scanning
  /\ mutexPool' = Unlocked
  /\ ShrinkOrEnd(seen)
  /\ UNCHANGED <<queueVars, countVars, worker, task, ownerVars, clientVars>>

ManagerShrink ==
  /\ Usable /\ manager = "shrink" /\ mutexPool = Unlocked
  /\ exitNum' = NUMBER
  /\ manager' = "signal"
  /\ UNCHANGED <<queueVars, liveNum, busyNum, mutexPool, worker, task, seen,
                 scan, ownerVars, clientVars>>

(* Bug: exitNum is set, but no worker is woken to see it. *)
BugNoShrinkSignal ==
  /\ Usable /\ manager = "signal"
  /\ EndPass
  /\ UNCHANGED <<queueVars, countVars, mutexPool, worker, task, ownerVars,
                 clientVars>>

(* One of the NUMBER signals, sent without mutexPool. *)
ManagerSignal ==
  /\ Usable /\ manager = "signal"
  /\ SignalNotEmpty
  /\ IF scan.i + 1 = NUMBER
     THEN EndPass
     ELSE scan' = [scan EXCEPT !.i = @ + 1] /\ UNCHANGED <<manager, seen>>
  /\ UNCHANGED <<queueVars, countVars, mutexPool, task, ownerVars, clientVars>>

-----------------------------------------------------------------------------
(* threadPoolDestroy                                                       *)

Completed == {t \in Task : runs[t] > 0}

DestroyCall ==
  /\ Usable /\ owner = "out"
  /\ Cardinality(Completed) >= DestroyAfter
  /\ shutDown' = TRUE
  /\ owner' = "join"
  /\ UNCHANGED <<queueVars, countVars, mutexPool, worker, task, managerVars,
                 signalled, freed, clientVars>>

DestroyJoin ==
  /\ Usable /\ owner = "join"
  /\ manager = "done"
  /\ owner' = "signal"
  /\ UNCHANGED <<queueVars, countVars, mutexPool, worker, task, managerVars,
                 signalled, freed, shutDown, clientVars>>

(* Neither the bound liveNum nor the signal is under mutexPool. *)
DestroySignal ==
  /\ Usable /\ owner = "signal"
  /\ signalled < liveNum
  /\ SignalNotEmpty
  /\ signalled' = signalled + 1
  /\ UNCHANGED <<queueVars, countVars, mutexPool, task, managerVars, owner,
                 freed, shutDown, clientVars>>

DestroyFree ==
  /\ Usable /\ owner = "signal"
  /\ signalled >= liveNum
  /\ freed' = TRUE
  /\ owner' = "returned"
  /\ UNCHANGED <<queueVars, countVars, mutexPool, worker, task, managerVars,
                 signalled, shutDown, clientVars>>

-----------------------------------------------------------------------------
ProducerStep(p) == ThreadPoolAdd(p) \/ AddTests(p) \/ AddAfterFree(p)

(* What worker w does of itself: all but waking without a signal. *)
WorkerStep(w) ==
  \/ WorkerLock(w) \/ WorkerSleep(w) \/ WorkerRetires(w) \/ WorkerWake(w)
  \/ WorkerBusy(w) \/ WorkerRuns(w) \/ WorkerCallsGarbage(w) \/ WorkerIdle(w)
  \/ ThreadExit(w) \/ UseAfterFree(w)

ManagerStep ==
  \/ ManagerLoop \/ ManagerSample \/ ManagerSampleBusy
  \/ ManagerGrow \/ ManagerCreates \/ ManagerSkips \/ ManagerGrown
  \/ ManagerShrink \/ ManagerSignal

OwnerStep == DestroyCall \/ DestroyJoin \/ DestroySignal \/ DestroyFree

Next ==
  \/ \E p \in Producers : ProducerStep(p) \/ AddSpuriousWakeup(p)
  \/ \E w \in Worker : WorkerStep(w) \/ SpuriousWakeup(w)
  \/ ManagerStep
  \/ OwnerStep

Spec == Init /\ [][Next]_vars

(* Every thread keeps being scheduled, and one that waits for mutexPool    *)
(* gets it in the end: the manager sleeps a second in every pass, and no   *)
(* thread holds the mutex while it sleeps or runs a task.  No client has   *)
(* to add a task, and the owner does not have to destroy the pool.         *)
Fairness ==
  /\ \A w \in Worker : SF_vars(WorkerStep(w))
  /\ SF_vars(ManagerStep)
  /\ \A p \in Producers : SF_vars(AddTests(p))
  /\ WF_vars(DestroyJoin) /\ WF_vars(DestroySignal) /\ WF_vars(DestroyFree)

FairSpec == Spec /\ Fairness

-----------------------------------------------------------------------------
(* Properties                                                              *)

WorkerState == {"none", "lock", "wait", "asleep", "woken", "taken", "busy",
                "ran", "quit", "exit", "fault"}
ProducerState == {"out", "lock", "asleep", "woken", "fault"}

QueueTypes ==
  /\ taskQ \in [Slot -> Task \union {Garbage}]
  /\ queueSize \in Int
  /\ queueFront \in Slot
  /\ queueRear \in Slot

PoolTypes ==
  /\ liveNum \in Int
  /\ busyNum \in Int
  /\ exitNum \in Nat
  /\ mutexPool \in Worker \union {ManagerTid, Unlocked}

WorkerTypes ==
  /\ worker \in [Worker -> WorkerState]
  /\ task \in [Worker -> Task \union {Garbage}]

ManagerTypes ==
  /\ manager \in {"loop", "sample", "sampleBusy", "grow", "scan", "shrink",
                  "signal", "done"}
  /\ seen \in [queueSize : Int, liveNum : Int, busyNum : Int]
  /\ scan \in [i : Nat, counter : Nat]

OwnerTypes ==
  /\ owner \in {"out", "join", "signal", "returned"}
  /\ signalled \in Nat
  /\ freed \in BOOLEAN
  /\ shutDown \in BOOLEAN

ClientTypes ==
  /\ producer \in [Producers -> ProducerState]
  /\ added \in 0 .. MaxTasks
  /\ runs \in [Task -> Nat]

(* Type invariant. *)
TypeOK ==
  /\ QueueTypes /\ PoolTypes /\ WorkerTypes
  /\ ManagerTypes /\ OwnerTypes /\ ClientTypes

(* The threads that liveNum is meant to count. *)
Members == {w \in Worker : worker[w] \notin {"none", "quit"}}

(* liveNum never falls below minNum, and until threadPoolDestroy is called *)
(* it is the number of threads that have not left, although an entry of    *)
(* threadIDs is cleared long after liveNum was decremented, and the        *)
(* manager decides on a copy of liveNum that it read in an earlier         *)
(* critical section.  (Hence it is at most maxNum: Members is a subset of  *)
(* Worker.)                                                                *)
PoolSize ==
  /\ MinNum <= liveNum
  /\ ~shutDown => liveNum = Cardinality(Members)

(* busyNum, kept under a mutex of its own, is the number of threads        *)
(* between the two critical sections that count a task in and out.         *)
BusyCount ==
  Usable => busyNum = Cardinality({w \in Worker : worker[w] \in {"busy", "ran"}})

(* The ring holds the tasks that were accepted last and not taken yet, in  *)
(* the order in which they were accepted, whatever producers and workers   *)
(* do to its two ends.                                                     *)
QueueInOrder ==
  Usable =>
    /\ queueSize \in 0 .. QueueCapacity
    /\ queueSize <= added
    /\ queueRear = (queueFront + queueSize) % QueueCapacity
    /\ \A k \in 0 .. queueSize - 1 :
         taskQ[(queueFront + k) % QueueCapacity] = added - queueSize + k + 1

Holds(w, t) == task[w] = t /\ worker[w] \in {"taken", "busy"}

(* A task that has left the queue is in the hands of exactly one worker,   *)
(* or has run exactly once; one that is still in the queue is neither.     *)
(* No task is lost by a worker that retires, and none is run twice.        *)
ExactlyOnce ==
  Usable =>
    \A t \in Task :
      runs[t] + Cardinality({w \in Worker : Holds(w, t)})
        = IF t <= added - queueSize THEN 1 ELSE 0

(* Every accepted task is in one place at a time: in the ring at its turn, *)
(* in the hands of one worker, or run once.                                *)
TasksAccounted == QueueInOrder /\ ExactlyOnce

(* A worker that will look at the queue again without being signalled.     *)
Awake(w) == worker[w] \in {"lock", "wait", "woken", "taken", "busy", "ran"}

(* A signal for a queued task can be spent on a worker that retires, and   *)
(* one sent between two critical sections may find nobody asleep.  If then *)
(* every remaining worker sleeps beside a queued task, the pool is below   *)
(* maxNum: the manager's next pass may start a thread, which looks at the  *)
(* queue first.  A stall with maxNum sleeping workers would be for ever.   *)
StallRepairable ==
  (Usable /\ ~shutDown /\ queueSize # 0 /\ ~\E w \in Worker : Awake(w))
    => liveNum < MaxNum

(* So a pool of fixed size never stalls. *)
NoStall ==
  (MinNum = MaxNum /\ Usable /\ ~shutDown /\ queueSize # 0)
    => \E w \in Worker : Awake(w)

(* A producer sleeps on notFull only while the queue is full, or enough    *)
(* producers are already on their way to fill it: no signal of notFull is  *)
(* missing, also when another client takes the free place first.           *)
ProducersNotForgotten ==
  (Usable /\ ~shutDown /\ \E p \in Producers : producer[p] = "asleep")
    => queueSize + Cardinality({p \in Producers : producer[p] = "woken"})
         >= QueueCapacity

(* The pool keeps the promise of TaskPool: tasks start in the order in     *)
(* which they were accepted, each is run by a worker that took it, once.   *)
InHand == {t \in Task : runs[t] = 0 /\ \E w \in Worker : task[w] = t}

Promise == INSTANCE TaskPool WITH
  accepted <- added,
  started <- added - queueSize,
  running <- InHand,
  finished <- Completed

TaskPoolSpec == Promise!Spec

(* A worker has called a function that nobody wrote, before the pool is    *)
(* freed: from then on nothing is claimed, and liveness neither.           *)
Undefined == ~freed /\ \E w \in Worker : worker[w] = "fault"

(* In a pool that is not destroyed every accepted task is run, although    *)
(* workers come and go and a wake-up may be spent on one that leaves.      *)
EveryTaskRuns == \A t \in Task : (added >= t) ~> (runs[t] > 0 \/ Undefined)

(* In a pool that is not destroyed a call of threadPoolAdd returns, also   *)
(* one that found the queue full.                                          *)
EveryAddReturns ==
  \A p \in Producers : (producer[p] # "out") ~> (producer[p] = "out" \/ Undefined)

(* Once the clients submit no more, the manager brings the pool back to    *)
(* minNum threads and leaves it there, if the pool is not destroyed.       *)
IdlePoolShrinks == <>[](liveNum = MinNum) \/ <>(shutDown \/ Undefined)

(* threadPoolDestroy returns: the manager it joins sees shutDown, and the  *)
(* loop over the signals ends.                                             *)
DestroyReturns == shutDown ~> (freed \/ Undefined)

-----------------------------------------------------------------------------
(* What comments of the source say, and the program does not do.           *)

(* threadpool.c:137, "任务队列无任务进入睡眠": with no task in the queue a *)
(* worker sleeps.  So a worker that went on holds a task somebody added.   *)
SleepsWithoutTask ==
  \A w \in Worker : worker[w] \in {"taken", "busy"} => task[w] # Garbage

(* threadpool.h:11, "销毁线程池": the pool is destroyed by one call, after *)
(* which no thread of it uses its memory.                                  *)
NoUseAfterFree == \A w \in Worker : worker[w] # "fault"
=============================================================================
