--------------------------- MODULE PooledPlacement ---------------------------
(***************************************************************************)
(* test_pthreadPool of main.cpp: the parallel placement on the thread      *)
(* pool.  The three do_work functions of an object are three tasks; what   *)
(* starts them is the pool, as TaskPool promises it, and a worker is free  *)
(* again only some time after its task has reported.  At the end the pool  *)
(* is destroyed, after which no task is started.  The queue never gets     *)
(* full: its capacity is 10, and at most three tasks wait.                 *)
(***************************************************************************)
EXTENDS ParallelPlacement

CONSTANT Workers           \* the workers of the pool, 3 to 10 of them

ASSUME PooledAssumption == Workers \in Nat \ {0}

VARIABLES
  accepted, started, running, finished,    \* the tasks of the pool
  destroyed                \* threadPoolDestroy has been called

tasks == <<accepted, started, running, finished>>
pvars == <<vars, tasks, destroyed>>

Pool == INSTANCE TaskPool WITH MaxTasks <- NumRep * Objects

(* The number of the task that is thread t. *)
Task(t) == NumRep * (t[1] - 1) + t[2] + 1

PInit == Init /\ Pool!Init /\ destroyed = FALSE

Prepare == NextObject /\ UNCHANGED <<tasks, destroyed>>

Add == Launch /\ Pool!Submit /\ UNCHANGED destroyed

AllReported == Collect /\ UNCHANGED <<tasks, destroyed>>

Dequeue(t) ==
  /\ Task(t) = started + 1
  /\ Cardinality(running) < Workers
  /\ ~destroyed
  /\ Begin(t)
  /\ Pool!Start
  /\ UNCHANGED destroyed

Work(t) == Works(t) /\ UNCHANGED <<tasks, destroyed>>

(* The function of the task returns, some time after the caller went on. *)
TaskReturns(t) ==
  /\ thread[t] = "done"
  /\ Pool!Finish(Task(t))
  /\ UNCHANGED <<vars, destroyed>>

Destroy ==
  /\ caller = "next" /\ object = Objects
  /\ ~destroyed
  /\ destroyed' = TRUE
  /\ UNCHANGED <<vars, tasks>>

PCaller == Prepare \/ Add \/ AllReported \/ Destroy
PWorker(t) == Dequeue(t) \/ Work(t) \/ TaskReturns(t)

PNext == PCaller \/ \E t \in Thread : PWorker(t)

(* The caller and the workers are scheduled again and again; that a worker *)
(* takes a waiting task is what ThreadPool!EveryTaskRuns says.             *)
PSpec ==
  /\ PInit /\ [][PNext]_pvars
  /\ WF_pvars(PCaller)
  /\ \A t \in Thread : WF_pvars(PWorker(t))

-----------------------------------------------------------------------------
(* The pool is destroyed only when it has started every task of every      *)
(* object: the caller looks at outpos alone, never at the pool, and a task *)
(* that still waited would be lost (threadPoolDestroy, threadpool.c:215).  *)
NoTaskLost == destroyed => started = NumRep * Objects

(* However the tasks share the workers, also with tasks of the object      *)
(* before that have reported and not returned, all objects are placed and  *)
(* every task returns.                                                     *)
AllTasksReturn == <>(destroyed /\ finished = 1 .. NumRep * Objects)
=============================================================================
