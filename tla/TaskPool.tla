------------------------------ MODULE TaskPool ------------------------------
(***************************************************************************)
(* What a client of the thread pool is promised: tasks are numbered in the *)
(* order in which threadPoolAdd accepts them, they are started in that     *)
(* order, and a started task runs once.  Threads, locks, condition         *)
(* variables and the ring buffer are hidden; ThreadPool implements this    *)
(* specification (ThreadPool!TaskPoolSpec).                                *)
(***************************************************************************)
EXTENDS Naturals

CONSTANT MaxTasks          \* how many tasks the clients submit: bounds the model

VARIABLES
  accepted,                \* tasks 1..accepted are in the pool or through it
  started,                 \* tasks 1..started have left the queue
  running,                 \* the started tasks a worker still holds
  finished                 \* the tasks whose function has returned

vars == <<accepted, started, running, finished>>

Init ==
  /\ accepted = 0
  /\ started = 0
  /\ running = {}
  /\ finished = {}

Submit ==
  /\ accepted < MaxTasks
  /\ accepted' = accepted + 1
  /\ UNCHANGED <<started, running, finished>>

(* The oldest waiting task, and no other, may be started. *)
Start ==
  /\ started < accepted
  /\ started' = started + 1
  /\ running' = running \union {started + 1}
  /\ UNCHANGED <<accepted, finished>>

Finish(t) ==
  /\ t \in running
  /\ running' = running \ {t}
  /\ finished' = finished \union {t}
  /\ UNCHANGED <<accepted, started>>

Next ==
  \/ Submit
  \/ Start
  \/ \E t \in running : Finish(t)

Spec == Init /\ [][Next]_vars
=============================================================================
