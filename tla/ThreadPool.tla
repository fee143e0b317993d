----------------------------- MODULE ThreadPool -----------------------------
(***************************************************************************)
(* ThreadPool<T> (thread/threadpool.h): one owner thread constructs it,    *)
(* starts its workers, appends tasks, closes and destroys it; the workers  *)
(* loop in work().  The task queue is a SafeQueue whose operations are     *)
(* atomic (module SafeQueue), but work() and append() each use several of  *)
(* them, and a semaphore of the pool's own, with no lock around the whole. *)
(*                                                                         *)
(* A worker:  loop -> wait -> woken -> seen -> got -> loop ... -> exited   *)
(* The owner: constructed -> spawning -> ready -> (pushing -> posting ->   *)
(*            ready)* -> (closing -> closed) -> deleting -> joining ->     *)
(*            destroyed                                                    *)
(*                                                                         *)
(* isClose is a plain bool the owner writes and the workers read.  Every   *)
(* read of it follows a call the compiler cannot see through (sem_wait, a  *)
(* task, sleep) so it is a fresh one; a late one is a read done earlier.   *)
(* sleep(1) is only a delay, which the interleaving already allows.        *)
(***************************************************************************)
EXTENDS Integers, Sequences, FiniteSets

CONSTANTS Workers,     \* the threads start() creates; threadCount of them
          MaxRequest,  \* maxrequest, the limit of the task queue
          States,      \* the function indexes append is called with
          Registered,  \* those below funbox.size()
          MaxTasks     \* bound: tasks appended in a behaviour

ASSUME ThreadPoolAssumption ==
  /\ IsFiniteSet(Workers) /\ Workers # {}
  /\ MaxRequest \in Nat \ {0}
  /\ Registered \subseteq States
  /\ MaxTasks \in Nat

Tasks == 1..MaxTasks
threadCount == Cardinality(Workers)

VARIABLES taskQueue,  \* the queued tasks, numbered as they are appended
          index,      \* per task, the index it was appended with
          appended,   \* how many tasks were appended
          sem,        \* the pool's semaphore
          isClose,    \* isClose
          owner,      \* the owner's stage
          posts,      \* sem_posts left of the close() it is in
          pc,         \* per worker, its stage in work()
          task,       \* per worker, the task it popped, or 0
          executed,   \* the tasks that went through their function
          deleted     \* the tasks of unknown index, which work() deletes

vars == <<taskQueue, index, appended, sem, isClose, owner, posts, pc, task,
          executed, deleted>>

ownerVars  == <<index, appended, isClose, owner, posts>>
workerVars == <<pc, task, executed, deleted>>

WorkerStages == {"unborn", "loop", "wait", "woken", "seen", "got", "exited"}
OwnerStages  == {"constructed", "spawning", "ready", "pushing", "posting",
                 "closing", "closed", "deleting", "joining", "destroyed",
                 "terminated"}

Init ==
  /\ taskQueue = <<>>
  /\ index \in [Tasks -> States]
  /\ appended = 0
  /\ sem = 0
  /\ isClose = TRUE
  /\ owner = "constructed"
  /\ posts = 0
  /\ pc = [w \in Workers |-> "unborn"]
  /\ task = [w \in Workers |-> 0]
  /\ executed = {}
  /\ deleted = {}
-----------------------------------------------------------------------------
(* The owner *)

Start ==
  /\ owner = "constructed"
  /\ isClose' = FALSE
  /\ owner' = "spawning"
  /\ UNCHANGED <<taskQueue, index, appended, sem, posts, workerVars>>

\* One turn of the loop of start(): the new thread enters work() at once.
Spawn(w) ==
  /\ owner = "spawning"
  /\ pc[w] = "unborn"
  /\ pc' = [pc EXCEPT ![w] = "loop"]
  /\ owner' = IF \A v \in Workers \ {w} : pc[v] # "unborn" THEN "ready" ELSE owner
  /\ UNCHANGED <<taskQueue, index, appended, sem, isClose, posts, task,
                 executed, deleted>>

\* pthread_create fails: start() throws, nobody catches it, the process and
\* the workers it already has end.
SpawnFails ==
  /\ owner = "spawning"
  /\ owner' = "terminated"
  /\ UNCHANGED <<taskQueue, index, appended, sem, isClose, posts, workerVars>>

\* append(): the size is read, the task pushed and the semaphore posted in
\* three steps; a queue at its limit refuses the task.
HasRoomLoose == Len(taskQueue) <= MaxRequest
HasRoom == Len(taskQueue) < MaxRequest

AppendCheck ==
  /\ owner = "ready"
  /\ appended < MaxTasks
  /\ HasRoom
  /\ owner' = "pushing"
  /\ UNCHANGED <<taskQueue, index, appended, sem, isClose, posts, workerVars>>

AppendPush ==
  /\ owner = "pushing"
  /\ taskQueue' = Append(taskQueue, appended + 1)
  /\ appended' = appended + 1
  /\ owner' = "posting"
  /\ UNCHANGED <<index, sem, isClose, posts, workerVars>>

AppendPost ==
  /\ owner = "posting"
  /\ sem' = sem + 1
  /\ owner' = "ready"
  /\ UNCHANGED <<taskQueue, index, appended, isClose, posts, workerVars>>

\* close(): called on its own, and again by the destructor.
BeginCloseKeepingFlag(stage) ==
  /\ posts' = threadCount
  /\ owner' = stage
  /\ UNCHANGED <<taskQueue, index, appended, sem, isClose, workerVars>>

BeginClose(stage) ==
  /\ isClose' = TRUE
  /\ posts' = threadCount
  /\ owner' = stage
  /\ UNCHANGED <<taskQueue, index, appended, sem, workerVars>>

Close   == owner = "ready" /\ BeginClose("closing")
Destroy == owner \in {"ready", "closed"} /\ BeginClose("deleting")

ClosePost ==
  /\ owner \in {"closing", "deleting"}
  /\ sem' = sem + 1
  /\ posts' = posts - 1
  /\ owner' = IF posts > 1 THEN owner
              ELSE IF owner = "closing" THEN "closed" ELSE "joining"
  /\ UNCHANGED <<taskQueue, index, appended, isClose, workerVars>>

\* The destructor joins every worker before it destroys the semaphore.
AllExited == \A w \in Workers : pc[w] = "exited"

JoinAll ==
  /\ owner = "joining"
  /\ AllExited
  /\ owner' = "destroyed"
  /\ UNCHANGED <<taskQueue, index, appended, sem, isClose, posts, workerVars>>

OwnerProgress ==
  \/ Start \/ (\E w \in Workers : Spawn(w)) \/ AppendPush \/ AppendPost
  \/ ClosePost \/ JoinAll

OwnerStep == OwnerProgress \/ SpawnFails \/ AppendCheck \/ Close \/ Destroy
-----------------------------------------------------------------------------
(* A worker; a terminated process has none. *)

At(w, stage) == owner # "terminated" /\ pc[w] = stage

Goto(w, stage) == pc' = [pc EXCEPT ![w] = stage]

LoopTest(w) ==
  /\ At(w, "loop")
  /\ Goto(w, IF isClose THEN "exited" ELSE "wait")
  /\ UNCHANGED <<taskQueue, sem, task, executed, deleted, ownerVars>>

SemWaitKeepingUnit(w) ==
  /\ At(w, "wait")
  /\ sem > 0
  /\ Goto(w, "woken")
  /\ UNCHANGED <<taskQueue, sem, task, executed, deleted, ownerVars>>

SemWait(w) ==
  /\ At(w, "wait")
  /\ sem > 0
  /\ sem' = sem - 1
  /\ Goto(w, "woken")
  /\ UNCHANGED <<taskQueue, task, executed, deleted, ownerVars>>

\* taskQueue.empty(): nothing to do, sleep(1) and go round.
EmptyTest(w) ==
  /\ At(w, "woken")
  /\ Goto(w, IF taskQueue = <<>> THEN "loop" ELSE "seen")
  /\ UNCHANGED <<taskQueue, sem, task, executed, deleted, ownerVars>>

PopReadOnly(w) ==
  /\ At(w, "seen")
  /\ IF taskQueue = <<>>
     THEN Goto(w, "loop") /\ UNCHANGED <<taskQueue, task>>
     ELSE /\ Goto(w, "got")
          /\ task' = [task EXCEPT ![w] = Head(taskQueue)]
          /\ UNCHANGED taskQueue
  /\ UNCHANGED <<sem, executed, deleted, ownerVars>>

\* taskQueue.pop(): somebody may have emptied the queue meanwhile, then pop
\* gives a pair whose second is nullptr and the worker goes round.
Pop(w) ==
  /\ At(w, "seen")
  /\ IF taskQueue = <<>>
     THEN Goto(w, "loop") /\ UNCHANGED <<taskQueue, task>>
     ELSE /\ Goto(w, "got")
          /\ task' = [task EXCEPT ![w] = Head(taskQueue)]
          /\ taskQueue' = Tail(taskQueue)
  /\ UNCHANGED <<sem, executed, deleted, ownerVars>>

Execute(w) ==
  /\ At(w, "got")
  /\ Goto(w, "loop")
  /\ task' = [task EXCEPT ![w] = 0]
  /\ IF index[task[w]] \in Registered
     THEN executed' = executed \cup {task[w]} /\ UNCHANGED deleted
     ELSE deleted' = deleted \cup {task[w]} /\ UNCHANGED executed
  /\ UNCHANGED <<taskQueue, sem, ownerVars>>

WorkerStep(w) ==
  LoopTest(w) \/ SemWait(w) \/ EmptyTest(w) \/ Pop(w) \/ Execute(w)

Next == OwnerStep \/ \E w \in Workers : WorkerStep(w)

Spec == Init /\ [][Next]_vars

\* The owner finishes what it has begun (appending and closing are its own
\* decisions), a worker is scheduled, a task returns, and of the workers in
\* sem_wait somebody is woken while there are units.
FairSpec ==
  /\ Spec
  /\ WF_vars(OwnerProgress)
  /\ \A w \in Workers :
       WF_vars(LoopTest(w) \/ EmptyTest(w) \/ Pop(w) \/ Execute(w))
  /\ WF_vars(\E w \in Workers : SemWait(w))
-----------------------------------------------------------------------------
\* append() reads the size and pushes in two steps; with one appending
\* thread the limit holds all the same.
QueueBounded == Len(taskQueue) <= MaxRequest

TypeOK ==
  /\ taskQueue \in Seq(Tasks) /\ QueueBounded
  /\ index \in [Tasks -> States]
  /\ appended \in 0..MaxTasks
  /\ sem \in Nat
  /\ isClose \in BOOLEAN
  /\ owner \in OwnerStages
  /\ posts \in 0..threadCount
  /\ pc \in [Workers -> WorkerStages]
  /\ task \in [Workers -> Tasks \cup {0}]
  /\ executed \subseteq Tasks
  /\ deleted \subseteq Tasks

\* The workers that took a unit of the semaphore and not yet their task.
Claiming == {w \in Workers : pc[w] \in {"woken", "seen"}}

\* Until the pool is closed the semaphore counts the queue, in spite of the
\* three unlocked steps of append(): no wake-up is lost and none is spurious.
SemCountsTasks ==
  ~isClose =>
    Len(taskQueue) = sem + Cardinality(Claiming)
                         + (IF owner = "posting" THEN 1 ELSE 0)

\* So the "queue is empty" and the "null task" branches of work(), with
\* their sleep(1), are only taken on the way to shutdown.
NoIdleWakeup == ~isClose /\ Claiming # {} => taskQueue # <<>>

\* close() stops every worker, whatever each was doing and however many
\* tasks and units were left, and the destructor returns.
ShutdownCompletes ==
  /\ owner = "closing" ~> AllExited
  /\ owner = "deleting" ~> owner = "destroyed"

\* The refinement: a task is started when a worker pops it.
Service == INSTANCE TaskService WITH
  Capacity <- threadCount,
  pending  <- taskQueue,
  running  <- {task[w] : w \in {v \in Workers : pc[v] = "got"}},
  finished <- executed \cup deleted,
  open     <- owner # "terminated" /\ ~isClose

\* Every accepted task is executed at most once, in order, and exactly once
\* unless the pool is closed first.
ImplementsService == Service!ServiceSpec
=============================================================================
