---------------------------- MODULE TaskService ----------------------------
(***************************************************************************)
(* What a thread pool promises its user: an accepted task is started at    *)
(* most once, in the order of acceptance, at most Capacity of them at a    *)
(* time; and as long as the service is open and a worker is free, the      *)
(* oldest task is started.  A task that is still pending when the service  *)
(* shuts down may be dropped.  ThreadPool (thread/threadpool.h) is shown   *)
(* to implement it.                                                        *)
(***************************************************************************)
EXTENDS Integers, Sequences, FiniteSets

CONSTANTS Tasks,     \* the tasks that may be handed in
          Capacity   \* how many run at a time

VARIABLES pending,   \* accepted and not yet started, oldest first
          running,   \* started and not yet finished
          finished,  \* finished
          open       \* the service has not been told to shut down

serviceVars == <<pending, running, finished, open>>

ServiceInit ==
  /\ pending = <<>>
  /\ running = {}
  /\ finished = {}
  /\ open \in BOOLEAN

Accept(task) ==
  /\ task \notin running \cup finished
  /\ \A i \in 1..Len(pending) : pending[i] # task
  /\ pending' = Append(pending, task)
  /\ UNCHANGED <<running, finished, open>>

StartNext ==
  /\ pending # <<>>
  /\ Cardinality(running) < Capacity
  /\ running' = running \cup {Head(pending)}
  /\ pending' = Tail(pending)
  /\ UNCHANGED <<finished, open>>

Finish(task) ==
  /\ task \in running
  /\ running' = running \ {task}
  /\ finished' = finished \cup {task}
  /\ UNCHANGED <<pending, open>>

Open     == ~open /\ open' = TRUE /\ UNCHANGED <<pending, running, finished>>
Shutdown == open /\ open' = FALSE /\ UNCHANGED <<pending, running, finished>>

ServiceNext ==
  \/ \E task \in Tasks : Accept(task) \/ Finish(task)
  \/ StartNext \/ Open \/ Shutdown

ServiceSafety == ServiceInit /\ [][ServiceNext]_serviceVars

ServiceSpec ==
  /\ ServiceSafety
  /\ WF_serviceVars(open /\ StartNext)
  /\ \A task \in Tasks : WF_serviceVars(Finish(task))
=============================================================================
