--------------------------- MODULE ThreadPool_proofs ---------------------------
(***************************************************************************)
(* For every number of workers, tasks and every limit of the queue: the    *)
(* pool keeps its types and its limit, its semaphore counts its tasks      *)
(* until it is closed, no worker is woken for nothing, and every step is   *)
(* one of TaskService.  The inductive invariant is PoolInv.                *)
(***************************************************************************)
EXTENDS ThreadPool, FiniteSetTheorems, SequenceTheorems, TLAPS

\* What each stage of the owner has established.
OwnerInv ==
  /\ owner = "constructed" => /\ taskQueue = <<>> /\ sem = 0
                              /\ \A w \in Workers : pc[w] = "unborn"
  /\ owner = "pushing" => Len(taskQueue) < MaxRequest /\ appended < MaxTasks
  /\ owner \in {"closing", "deleting"} => posts > 0

\* Nobody re-opens the pool.
ClosedStays ==
  owner \in {"closing", "closed", "deleting", "joining", "destroyed"} => isClose

\* A worker at its function has a task.
TaskInHand == \A w \in Workers : pc[w] = "got" => task[w] \in Tasks

PoolInv == TypeOK /\ OwnerInv /\ ClosedStays /\ TaskInHand /\ SemCountsTasks

LEMMA ThreadCountType == threadCount \in Nat /\ threadCount > 0
BY FS_CardinalityType, FS_EmptySet, ThreadPoolAssumption DEF threadCount

LEMMA ClaimingFinite == IsFiniteSet(Claiming) /\ Cardinality(Claiming) \in Nat
<1>1. Claiming \subseteq Workers
  BY DEF Claiming
<1> QED
  BY <1>1, FS_Subset, FS_CardinalityType, ThreadPoolAssumption

\* The initial states satisfy the invariant.
LEMMA PoolInit == Init => PoolInv
<1> SUFFICES ASSUME Init PROVE PoolInv
  OBVIOUS
<1>1. taskQueue \in Seq(Tasks) /\ Len(taskQueue) = 0 /\ <<>> \in Seq(Tasks)
  BY EmptySeq DEF Init
<1>2. Claiming = {} /\ Cardinality(Claiming) = 0
  BY FS_EmptySet DEF Init, Claiming
<1>3. QueueBounded
  BY <1>1, ThreadPoolAssumption DEF QueueBounded
<1>4. isClose \in BOOLEAN
  BY Zenon DEF Init
<1>5. /\ index \in [Tasks -> States] /\ appended \in 0..MaxTasks /\ sem \in Nat
      /\ owner \in OwnerStages /\ posts \in 0..threadCount
      /\ pc \in [Workers -> WorkerStages] /\ task \in [Workers -> Tasks \cup {0}]
      /\ executed \subseteq Tasks /\ deleted \subseteq Tasks
  BY ThreadPoolAssumption, ThreadCountType DEF Init, OwnerStages, WorkerStages
<1>6. TypeOK
  BY <1>1, <1>3, <1>4, <1>5 DEF TypeOK
<1>7. OwnerInv /\ TaskInHand /\ ClosedStays
  BY DEF Init, OwnerInv, TaskInHand, ClosedStays
<1>8. SemCountsTasks
  BY Zenon DEF Init, SemCountsTasks
<1> QED
  BY <1>6, <1>7, <1>8 DEF PoolInv

\* Every step of the owner keeps the types and what its stages establish.
LEMMA OwnerTypeStep ==
  PoolInv /\ OwnerStep => TypeOK' /\ OwnerInv' /\ ClosedStays' /\ TaskInHand'
<1> SUFFICES ASSUME PoolInv, OwnerStep
             PROVE  TypeOK' /\ OwnerInv' /\ ClosedStays' /\ TaskInHand'
  OBVIOUS
<1>0. /\ taskQueue \in Seq(Tasks) /\ Len(taskQueue) \in Nat
      /\ appended \in 0..MaxTasks /\ sem \in Nat
      /\ owner \in OwnerStages /\ posts \in 0..threadCount
      /\ pc \in [Workers -> WorkerStages] /\ task \in [Workers -> Tasks \cup {0}]
      /\ QueueBounded
  BY LenProperties DEF PoolInv, TypeOK
<1>1. isClose \in BOOLEAN
  BY Zenon DEF PoolInv, TypeOK
<1>2. /\ index \in [Tasks -> States]
      /\ executed \subseteq Tasks /\ deleted \subseteq Tasks
  BY DEF PoolInv, TypeOK
<1>3. threadCount \in Nat /\ threadCount > 0 /\ MaxRequest \in Nat /\ MaxTasks \in Nat
  BY ThreadCountType, ThreadPoolAssumption
<1>4. OwnerInv /\ ClosedStays /\ TaskInHand
  BY DEF PoolInv
<1>5. isClose' \in BOOLEAN
  <2>1. isClose' \in {isClose, TRUE, FALSE}
    BY Zenon DEF OwnerStep, OwnerProgress, Start, Spawn, SpawnFails, AppendCheck,
       AppendPush, AppendPost, BeginClose, Close, Destroy, ClosePost, JoinAll
  <2> QED
    BY <1>1, <2>1, Zenon
<1>6. UNCHANGED <<index, executed, deleted, task>>
  BY DEF OwnerStep, OwnerProgress, Start, Spawn, SpawnFails, AppendCheck, AppendPush,
     AppendPost, BeginClose, Close, Destroy, ClosePost, JoinAll, workerVars
<1>7. /\ taskQueue' \in Seq(Tasks) /\ QueueBounded'
      /\ appended' \in 0..MaxTasks
  <2>1. CASE AppendPush
    <3>1. owner = "pushing" /\ Len(taskQueue) < MaxRequest /\ appended < MaxTasks
      BY <1>4, <2>1 DEF AppendPush, OwnerInv
    <3>2. appended + 1 \in Tasks
      BY <1>0, <1>3, <3>1 DEF Tasks
    <3>3. taskQueue' \in Seq(Tasks) /\ Len(taskQueue') = Len(taskQueue) + 1
      BY <1>0, <2>1, <3>2, AppendProperties DEF AppendPush
    <3>4. appended' = appended + 1
      BY <2>1 DEF AppendPush
    <3> QED
      BY <1>0, <1>3, <3>1, <3>3, <3>4 DEF QueueBounded
  <2>2. CASE UNCHANGED <<taskQueue, appended>>
    BY <1>0, <2>2 DEF QueueBounded
  <2>3. AppendPush \/ UNCHANGED <<taskQueue, appended>>
    BY DEF OwnerStep, OwnerProgress, Start, Spawn, SpawnFails, AppendCheck,
       AppendPost, BeginClose, Close, Destroy, ClosePost, JoinAll, workerVars
  <2> QED
    BY <2>1, <2>2, <2>3
<1>8. /\ sem' \in Nat /\ posts' \in 0..threadCount
      /\ owner' \in OwnerStages
      /\ owner' \in {"closing", "deleting"} => posts' > 0
  <2>1. CASE ClosePost
    <3>1. posts > 0 /\ posts' = posts - 1 /\ sem' = sem + 1
      BY <1>4, <2>1 DEF ClosePost, OwnerInv
    <3>2. owner' = (IF posts > 1 THEN owner
                    ELSE IF owner = "closing" THEN "closed" ELSE "joining")
      BY <2>1 DEF ClosePost
    <3> QED
      BY <1>0, <1>3, <3>1, <3>2 DEF OwnerStages
  <2>2. CASE Close \/ Destroy
    BY <1>0, <1>3, <2>2 DEF Close, Destroy, BeginClose, OwnerStages
  <2>3. CASE Start \/ SpawnFails \/ AppendCheck \/ AppendPush \/ AppendPost \/ JoinAll
    BY <1>0, <1>3, <2>3 DEF Start, SpawnFails, AppendCheck, AppendPush, AppendPost,
       JoinAll, OwnerStages
  <2>4. ASSUME NEW w \in Workers, Spawn(w)
        PROVE  /\ sem' \in Nat /\ posts' \in 0..threadCount
               /\ owner' \in OwnerStages
               /\ owner' \in {"closing", "deleting"} => posts' > 0
    BY <1>0, <1>3, <2>4 DEF Spawn, OwnerStages
  <2> QED
    BY <2>1, <2>2, <2>3, <2>4 DEF OwnerStep, OwnerProgress
<1>9. /\ pc' \in [Workers -> WorkerStages]
      /\ \A w \in Workers : pc'[w] = "got" => pc[w] = "got"
  <2>1. ASSUME NEW v \in Workers, Spawn(v)
        PROVE  /\ pc' \in [Workers -> WorkerStages]
               /\ \A w \in Workers : pc'[w] = "got" => pc[w] = "got"
    BY <1>0, <2>1 DEF Spawn, WorkerStages
  <2>2. (\E v \in Workers : Spawn(v)) \/ pc' = pc
    BY DEF OwnerStep, OwnerProgress, Start, SpawnFails, AppendCheck, AppendPush,
       AppendPost, BeginClose, Close, Destroy, ClosePost, JoinAll, workerVars
  <2> QED
    BY <1>0, <2>1, <2>2
<1>10. TypeOK'
  BY <1>0, <1>2, <1>5, <1>6, <1>7, <1>8, <1>9 DEF TypeOK
<1>11. TaskInHand'
  BY <1>4, <1>6, <1>9 DEF TaskInHand
<1>12. /\ owner' # "constructed"
       /\ owner' = "pushing" => Len(taskQueue') < MaxRequest /\ appended' < MaxTasks
  BY DEF OwnerStep, OwnerProgress, Start, Spawn, SpawnFails, AppendCheck, AppendPush,
     AppendPost, BeginClose, Close, Destroy, ClosePost, JoinAll, HasRoom
<1>13. OwnerInv'
  BY <1>8, <1>12 DEF OwnerInv
<1>14. ClosedStays'
  BY <1>4, Zenon DEF OwnerStep, OwnerProgress, Start, Spawn, SpawnFails, AppendCheck,
     AppendPush, AppendPost, BeginClose, Close, Destroy, ClosePost, JoinAll, ClosedStays
<1> QED
  BY <1>10, <1>11, <1>13, <1>14

\* Every step of a worker does so too.
LEMMA WorkerTypeStep ==
  ASSUME PoolInv, NEW w \in Workers, WorkerStep(w)
  PROVE  TypeOK' /\ OwnerInv' /\ ClosedStays' /\ TaskInHand'
<1>0. /\ taskQueue \in Seq(Tasks) /\ Len(taskQueue) \in Nat
      /\ sem \in Nat
      /\ pc \in [Workers -> WorkerStages] /\ task \in [Workers -> Tasks \cup {0}]
      /\ executed \subseteq Tasks /\ deleted \subseteq Tasks
      /\ QueueBounded /\ MaxRequest \in Nat
  BY LenProperties, ThreadPoolAssumption DEF PoolInv, TypeOK
<1>1. OwnerInv /\ ClosedStays /\ TaskInHand
  BY DEF PoolInv
<1>2. UNCHANGED ownerVars
  BY DEF WorkerStep, LoopTest, SemWait, EmptyTest, Pop, Execute
<1>3. UNCHANGED <<index, appended, isClose, owner, posts>>
  BY <1>2 DEF ownerVars
<1>4. taskQueue' \in Seq(Tasks) /\ Len(taskQueue') <= Len(taskQueue)
  <2>1. taskQueue # <<>> =>
          Tail(taskQueue) \in Seq(Tasks) /\ Len(Tail(taskQueue)) = Len(taskQueue) - 1
    BY <1>0, HeadTailProperties
  <2>2. \/ taskQueue' = taskQueue
        \/ taskQueue # <<>> /\ taskQueue' = Tail(taskQueue)
    BY DEF WorkerStep, LoopTest, SemWait, EmptyTest, Pop, Execute
  <2> QED
    BY <1>0, <2>1, <2>2
<1>5. sem' \in Nat
  BY <1>0 DEF WorkerStep, LoopTest, SemWait, EmptyTest, Pop, Execute
<1>6. /\ pc' \in [Workers -> WorkerStages]
      /\ task' \in [Workers -> Tasks \cup {0}]
      /\ TaskInHand'
  <2>1. taskQueue # <<>> => Head(taskQueue) \in Tasks
    BY <1>0, HeadTailProperties
  <2>2. CASE Pop(w)
    BY <1>0, <1>1, <2>1, <2>2 DEF Pop, Goto, TaskInHand, WorkerStages
  <2>3. CASE Execute(w)
    BY <1>0, <1>1, <2>3 DEF Execute, Goto, TaskInHand, WorkerStages
  <2>4. CASE LoopTest(w) \/ SemWait(w) \/ EmptyTest(w)
    <3>1. /\ \E s \in {"exited", "wait", "woken", "loop", "seen"} : Goto(w, s)
          /\ task' = task
      BY <2>4 DEF LoopTest, SemWait, EmptyTest
    <3> QED
      BY <1>0, <1>1, <3>1 DEF Goto, TaskInHand, WorkerStages
  <2> QED
    BY <2>2, <2>3, <2>4 DEF WorkerStep
<1>7. executed' \subseteq Tasks /\ deleted' \subseteq Tasks
  <2>1. CASE Execute(w)
    <3>1. task[w] \in Tasks
      BY <1>1, <2>1 DEF Execute, At, TaskInHand
    <3> QED
      BY <1>0, <2>1, <3>1 DEF Execute
  <2>2. Execute(w) \/ UNCHANGED <<executed, deleted>>
    BY DEF WorkerStep, LoopTest, SemWait, EmptyTest, Pop
  <2> QED
    BY <1>0, <2>1, <2>2
<1>8. QueueBounded'
  <2>1. Len(taskQueue') \in Nat
    BY <1>4, LenProperties
  <2> QED
    BY <1>0, <1>4, <2>1 DEF QueueBounded
<1>9. TypeOK'
  <2>1. /\ index' \in [Tasks -> States] /\ appended' \in 0..MaxTasks
        /\ owner' \in OwnerStages /\ posts' \in 0..threadCount
    BY <1>3 DEF PoolInv, TypeOK
  <2>2. isClose' \in BOOLEAN
    BY <1>3, Zenon DEF PoolInv, TypeOK
  <2> QED
    BY <1>4, <1>5, <1>6, <1>7, <1>8, <2>1, <2>2 DEF TypeOK
<1>10. OwnerInv'
  <2>1. pc[w] # "unborn" /\ owner # "constructed"
    BY <1>1 DEF WorkerStep, LoopTest, SemWait, EmptyTest, Pop, Execute, At, OwnerInv
  <2>2. Len(taskQueue') \in Nat
    BY <1>4, LenProperties
  <2> QED
    BY <1>0, <1>1, <1>3, <1>4, <2>1, <2>2 DEF OwnerInv
<1>11. ClosedStays'
  BY <1>1, <1>3, Zenon DEF ClosedStays
<1> QED
  BY <1>6, <1>9, <1>10, <1>11

\* How the workers that claim a task change when one worker moves.
LEMMA ClaimingMove ==
  ASSUME NEW w \in Workers, \A v \in Workers \ {w} : pc'[v] = pc[v]
  PROVE  Cardinality(Claiming)' =
           Cardinality(Claiming) - (IF w \in Claiming THEN 1 ELSE 0)
                                 + (IF w \in Claiming' THEN 1 ELSE 0)
<1>1. ASSUME NEW A, NEW B, IsFiniteSet(A), A \ {w} = B \ {w}
      PROVE  Cardinality(B) = Cardinality(A) - (IF w \in A THEN 1 ELSE 0)
                                             + (IF w \in B THEN 1 ELSE 0)
  <2>1. /\ IsFiniteSet(A \ {w}) /\ Cardinality(A) \in Nat
        /\ Cardinality(A \ {w}) =
             IF w \in A THEN Cardinality(A) - 1 ELSE Cardinality(A)
    BY <1>1, FS_RemoveElement, FS_CardinalityType
  <2>2. CASE w \in B
    <3>1. B = (A \ {w}) \cup {w} /\ w \notin A \ {w}
      BY <1>1, <2>2
    <3>2. Cardinality(B) = Cardinality(A \ {w}) + 1
      BY <2>1, <3>1, FS_AddElement
    <3> QED
      BY <2>1, <2>2, <3>2
  <2>3. CASE w \notin B
    <3>1. B = A \ {w}
      BY <1>1, <2>3
    <3> QED
      BY <2>1, <2>3, <3>1
  <2> QED
    BY <2>2, <2>3
<1>2. Claiming \ {w} = Claiming' \ {w}
  BY DEF Claiming
<1> QED
  BY <1>1, <1>2, ClaimingFinite

\* A worker that was woken finds a task, as long as the pool is open.
LEMMA ClaimFindsTask == PoolInv => NoIdleWakeup
<1> SUFFICES ASSUME PoolInv, ~isClose, NEW w \in Claiming PROVE taskQueue # <<>>
  BY DEF NoIdleWakeup
<1>1. Cardinality(Claiming) # 0 /\ Cardinality(Claiming) \in Nat
  BY ClaimingFinite, FS_EmptySet
<1>2. SemCountsTasks /\ sem \in Nat
  BY DEF PoolInv, TypeOK
<1>3. Len(taskQueue) = sem + Cardinality(Claiming) + (IF owner = "posting" THEN 1 ELSE 0)
  BY <1>2, Zenon DEF SemCountsTasks
<1>4. Len(taskQueue) # 0
  BY <1>1, <1>2, <1>3
<1> QED
  BY <1>4, EmptySeq

\* Every step of the owner keeps the count of the semaphore.
LEMMA OwnerSemStep == PoolInv /\ OwnerStep => SemCountsTasks'
<1> SUFFICES ASSUME PoolInv, OwnerStep, ~isClose'
             PROVE  Len(taskQueue') = sem' + Cardinality(Claiming)'
                                        + (IF owner' = "posting" THEN 1 ELSE 0)
  BY Zenon DEF SemCountsTasks
<1>0. /\ taskQueue \in Seq(Tasks) /\ Len(taskQueue) \in Nat /\ sem \in Nat
      /\ Cardinality(Claiming) \in Nat
      /\ pc \in [Workers -> WorkerStages]
      /\ OwnerInv /\ ClosedStays /\ SemCountsTasks
  BY ClaimingFinite, LenProperties DEF PoolInv, TypeOK
<1>1. CASE Start
  <2>1. taskQueue = <<>> /\ sem = 0 /\ \A w \in Workers : pc[w] = "unborn"
    BY <1>0, <1>1 DEF Start, OwnerInv
  <2>2. UNCHANGED <<taskQueue, sem, pc>> /\ owner' = "spawning"
    BY <1>1 DEF Start, workerVars
  <2>3. Claiming' = {} /\ Cardinality(Claiming') = 0
    BY <2>1, <2>2, FS_EmptySet DEF Claiming
  <2> QED
    BY <2>1, <2>2, <2>3
<1>2. ASSUME ~Start
      PROVE  /\ ~isClose
             /\ owner \notin {"closing", "deleting", "joining"}
             /\ ~Close /\ ~Destroy /\ ~ClosePost /\ ~JoinAll
  <2>1. ~isClose
    BY <1>2, Zenon DEF OwnerStep, OwnerProgress, Spawn, SpawnFails, AppendCheck,
       AppendPush, AppendPost, BeginClose, Close, Destroy, ClosePost, JoinAll
  <2>2. owner \notin {"closing", "deleting", "joining"}
    BY <1>0, <2>1, Zenon DEF ClosedStays
  <2>3. ~Close /\ ~Destroy
    BY Zenon DEF Close, Destroy, BeginClose
  <2> QED
    BY <2>1, <2>2, <2>3 DEF ClosePost, JoinAll
<1>3. ASSUME ~isClose
      PROVE  Len(taskQueue) = sem + Cardinality(Claiming)
                                + (IF owner = "posting" THEN 1 ELSE 0)
  BY <1>0, <1>3, Zenon DEF SemCountsTasks
<1>4. ASSUME NEW w \in Workers, Spawn(w)
      PROVE  Claiming' = Claiming /\ UNCHANGED <<taskQueue, sem>>
             /\ owner # "posting" /\ owner' # "posting"
  BY <1>0, <1>4 DEF Spawn, Claiming
<1>5. CASE AppendPush
  <2>1. Len(taskQueue') = Len(taskQueue) + 1
    <3>1. owner = "pushing" /\ taskQueue' = Append(taskQueue, appended + 1)
      BY <1>5, Zenon DEF AppendPush
    <3>2. appended < MaxTasks
      BY <1>0, <3>1, Zenon DEF OwnerInv
    <3>3. appended \in 0..MaxTasks
      BY Zenon DEF PoolInv, TypeOK
    <3>4. appended + 1 \in Tasks
      BY <3>2, <3>3, ThreadPoolAssumption DEF Tasks
    <3> QED
      BY <1>0, <3>1, <3>4, AppendProperties
  <2>2. /\ UNCHANGED <<sem, pc>> /\ owner = "pushing" /\ owner' = "posting"
    BY <1>5 DEF AppendPush, workerVars
  <2>3. Claiming' = Claiming
    BY <2>2 DEF Claiming
  <2>4. ~isClose
    BY <1>5, Zenon DEF AppendPush
  <2> QED
    BY <1>0, <1>3, <2>1, <2>2, <2>3, <2>4
<1>6. CASE AppendPost
  <2>1. /\ UNCHANGED <<taskQueue, pc>> /\ sem' = sem + 1
        /\ owner = "posting" /\ owner' = "ready"
    BY <1>6 DEF AppendPost, workerVars
  <2>2. Claiming' = Claiming
    BY <2>1 DEF Claiming
  <2>3. ~isClose
    BY <1>6, Zenon DEF AppendPost
  <2> QED
    BY <1>0, <1>3, <2>1, <2>2, <2>3
<1>7. CASE SpawnFails \/ AppendCheck
  <2>1. /\ UNCHANGED <<taskQueue, pc, sem>>
        /\ owner # "posting" /\ owner' # "posting"
    BY <1>7 DEF SpawnFails, AppendCheck, workerVars
  <2>2. Claiming' = Claiming
    BY <2>1 DEF Claiming
  <2>3. ~isClose
    BY <1>7, Zenon DEF SpawnFails, AppendCheck
  <2> QED
    BY <1>0, <1>3, <2>1, <2>2, <2>3
<1>8. ASSUME NEW w \in Workers, Spawn(w), ~Start
      PROVE  Len(taskQueue') = sem' + Cardinality(Claiming)'
                                 + (IF owner' = "posting" THEN 1 ELSE 0)
  <2>1. Cardinality(Claiming') = Cardinality(Claiming)
    BY <1>4, <1>8
  <2> QED
    BY <1>2, <1>3, <1>4, <1>8, <2>1
<1> QED
  BY <1>1, <1>2, <1>5, <1>6, <1>7, <1>8 DEF OwnerStep, OwnerProgress

\* Every step of a worker keeps it: it takes its unit before its task, and a
\* task is always there for it.
LEMMA WorkerSemStep ==
  ASSUME PoolInv, NEW w \in Workers, WorkerStep(w)
  PROVE  SemCountsTasks'
<1> SUFFICES ASSUME ~isClose'
             PROVE  Len(taskQueue') = sem' + Cardinality(Claiming)'
                                        + (IF owner' = "posting" THEN 1 ELSE 0)
  BY Zenon DEF SemCountsTasks
<1>0. /\ taskQueue \in Seq(Tasks) /\ Len(taskQueue) \in Nat /\ sem \in Nat
      /\ Cardinality(Claiming) \in Nat
      /\ pc \in [Workers -> WorkerStages] /\ SemCountsTasks
  BY ClaimingFinite, LenProperties DEF PoolInv, TypeOK
<1>1. UNCHANGED ownerVars
  BY DEF WorkerStep, LoopTest, SemWait, EmptyTest, Pop, Execute
<1>2. owner' = owner /\ isClose' = isClose
  BY <1>1 DEF ownerVars
<1>3. ~isClose
  BY <1>2, Zenon
<1>4. Len(taskQueue) = sem + Cardinality(Claiming) + (IF owner = "posting" THEN 1 ELSE 0)
  BY <1>0, <1>3, Zenon DEF SemCountsTasks
<1>5. \A v \in Workers \ {w} : pc'[v] = pc[v]
  BY <1>0 DEF WorkerStep, LoopTest, SemWait, EmptyTest, Pop, Execute, Goto
<1>6. Cardinality(Claiming)' =
        Cardinality(Claiming) - (IF w \in Claiming THEN 1 ELSE 0)
                              + (IF w \in Claiming' THEN 1 ELSE 0)
  BY <1>5, ClaimingMove
<1>7. w \in Claiming => taskQueue # <<>>
  BY <1>3, ClaimFindsTask, Zenon DEF NoIdleWakeup
<1>8. w \in Claiming <=> pc[w] \in {"woken", "seen"}
  BY DEF Claiming
<1>9. w \in Claiming' <=> pc'[w] \in {"woken", "seen"}
  BY DEF Claiming
<1>10. taskQueue # <<>> => Len(Tail(taskQueue)) = Len(taskQueue) - 1
  BY <1>0, HeadTailProperties
<1>11. CASE LoopTest(w) \/ Execute(w)
  <2>1. /\ UNCHANGED <<taskQueue, sem>>
        /\ pc[w] \in {"loop", "got"} /\ pc'[w] \in {"exited", "wait", "loop"}
    BY <1>0, <1>11 DEF LoopTest, Execute, Goto, At
  <2> QED
    BY <1>0, <1>2, <1>4, <1>6, <1>8, <1>9, <2>1
<1>12. CASE SemWait(w)
  <2>1. /\ UNCHANGED taskQueue /\ sem' = sem - 1
        /\ pc[w] = "wait" /\ pc'[w] = "woken"
    BY <1>0, <1>12 DEF SemWait, Goto, At
  <2> QED
    BY <1>0, <1>2, <1>4, <1>6, <1>8, <1>9, <2>1
<1>13. CASE EmptyTest(w)
  <2>1. /\ UNCHANGED <<taskQueue, sem>>
        /\ pc[w] = "woken" /\ pc'[w] = "seen"
    BY <1>0, <1>7, <1>8, <1>13 DEF EmptyTest, Goto, At
  <2> QED
    BY <1>0, <1>2, <1>4, <1>6, <1>8, <1>9, <2>1
<1>14. CASE Pop(w)
  <2>1. /\ taskQueue # <<>> /\ taskQueue' = Tail(taskQueue) /\ sem' = sem
        /\ pc[w] = "seen" /\ pc'[w] = "got"
    BY <1>0, <1>7, <1>8, <1>14 DEF Pop, Goto, At
  <2> QED
    BY <1>0, <1>2, <1>4, <1>6, <1>8, <1>9, <1>10, <2>1
<1> QED
  BY <1>11, <1>12, <1>13, <1>14 DEF WorkerStep

THEOREM Invariance == Spec => []PoolInv
<1>1. PoolInv /\ [Next]_vars => PoolInv'
  <2> SUFFICES ASSUME PoolInv, [Next]_vars PROVE PoolInv'
    OBVIOUS
  <2>1. CASE OwnerStep
    BY <2>1, OwnerTypeStep, OwnerSemStep DEF PoolInv
  <2>2. ASSUME NEW w \in Workers, WorkerStep(w) PROVE PoolInv'
    BY <2>2, WorkerTypeStep, WorkerSemStep DEF PoolInv
  <2>3. CASE UNCHANGED vars
    BY <2>3, Zenon DEF vars, PoolInv, TypeOK, QueueBounded, OwnerInv, ClosedStays,
       TaskInHand, SemCountsTasks, Claiming
  <2> QED
    BY <2>1, <2>2, <2>3 DEF Next
<1> QED
  BY PoolInit, <1>1, PTL DEF Spec

\* Every variable of the pool keeps its type, and the queue its limit,
\* although append() looks at the size before it pushes.
THEOREM TypeCorrect == Spec => []TypeOK
<1>1. PoolInv => TypeOK
  BY DEF PoolInv
<1> QED
  BY Invariance, <1>1, PTL

\* Until close() the semaphore counts the queued tasks: no wake-up is lost.
THEOREM SemAccounting == Spec => []SemCountsTasks
<1>1. PoolInv => SemCountsTasks
  BY DEF PoolInv
<1> QED
  BY Invariance, <1>1, PTL

\* Until close() no worker is woken for nothing.
THEOREM NoSpuriousWakeUp == Spec => []NoIdleWakeup
BY Invariance, ClaimFindsTask, PTL
-----------------------------------------------------------------------------
(* The refinement.  Tasks are numbered as they are appended, and leave the *)
(* queue in that order: those numbered up to Taken have left it.           *)

Taken    == appended - Len(taskQueue)
Finished == executed \cup deleted
Busy     == {w \in Workers : pc[w] = "got"}

TasksInOrder ==
  /\ Taken \in Nat
  /\ \A i \in 1..Len(taskQueue) : taskQueue[i] = Taken + i
  /\ Finished \subseteq 1..Taken
  /\ \A w \in Busy : task[w] \in 1..Taken /\ task[w] \notin Finished
  /\ \A v, w \in Busy : task[v] = task[w] => v = w

\* A step that moves no task.
LEMMA OrderKept ==
  ASSUME TasksInOrder, UNCHANGED <<taskQueue, appended, task, executed, deleted>>,
         \A w \in Workers : pc'[w] = "got" <=> pc[w] = "got"
  PROVE  TasksInOrder'
<1>1. Taken' = Taken /\ Finished' = Finished /\ Busy' = Busy
  BY DEF Taken, Finished, Busy
<1> QED
  BY <1>1 DEF TasksInOrder

\* Who is busy after a step of one worker.
LEMMA BusyMove ==
  ASSUME NEW w \in Workers, \A v \in Workers \ {w} : pc'[v] = pc[v]
  PROVE  /\ pc'[w] = "got" => Busy' = Busy \cup {w}
         /\ pc'[w] # "got" => Busy' = Busy \ {w}
BY DEF Busy

\* What one step does to the queue, its tasks and the workers at a task: the
\* owner appends the next one, a worker pops the oldest or is done with its
\* own, or nothing of this happens.
Appends == /\ appended < MaxTasks
           /\ taskQueue' = Append(taskQueue, appended + 1) /\ appended' = appended + 1
           /\ UNCHANGED <<executed, deleted, task, pc>>
Pops(w) == /\ pc[w] # "got" /\ pc'[w] = "got" /\ taskQueue # <<>>
           /\ task' = [task EXCEPT ![w] = Head(taskQueue)]
           /\ taskQueue' = Tail(taskQueue)
           /\ UNCHANGED <<executed, deleted, appended>>
Completes(w) == /\ pc[w] = "got" /\ pc'[w] # "got"
                /\ task' = [task EXCEPT ![w] = 0]
                /\ Finished' = Finished \cup {task[w]}
                /\ UNCHANGED <<taskQueue, appended>>
MovesNone == /\ UNCHANGED <<taskQueue, appended, task, executed, deleted>>
             /\ \A w \in Workers : pc'[w] = "got" <=> pc[w] = "got"
IsOpen == owner # "terminated" /\ ~isClose

LEMMA OwnerMoves ==
  PoolInv /\ OwnerStep =>
    \/ Appends /\ (IsOpen' <=> IsOpen)
    \/ MovesNone
<1> SUFFICES ASSUME PoolInv, OwnerStep
             PROVE  (Appends /\ (IsOpen' <=> IsOpen)) \/ MovesNone
  OBVIOUS
<1>0. pc \in [Workers -> WorkerStages] /\ OwnerInv
  BY DEF PoolInv, TypeOK
<1>1. CASE AppendPush
  <2>1. owner = "pushing" /\ owner' = "posting" /\ isClose' = isClose
    BY <1>1, Zenon DEF AppendPush
  <2>2. appended < MaxTasks
    BY <1>0, <2>1 DEF OwnerInv
  <2>3. Appends
    BY <1>1, <2>2 DEF AppendPush, Appends, workerVars
  <2>4. IsOpen' <=> IsOpen
    BY <2>1, Zenon DEF IsOpen
  <2> QED
    BY <2>3, <2>4
<1>2. ASSUME NEW w \in Workers, Spawn(w) PROVE MovesNone
  BY <1>0, <1>2 DEF Spawn, MovesNone
<1>3. CASE Start \/ SpawnFails \/ AppendCheck \/ AppendPost \/ Close \/ Destroy
           \/ ClosePost \/ JoinAll
  BY <1>3 DEF Start, SpawnFails, AppendCheck, AppendPost, Close, Destroy, BeginClose,
     ClosePost, JoinAll, MovesNone, workerVars
<1> QED
  BY <1>1, <1>2, <1>3 DEF OwnerStep, OwnerProgress

LEMMA WorkerMoves ==
  ASSUME PoolInv, NEW w \in Workers, WorkerStep(w)
  PROVE  /\ Pops(w) \/ Completes(w) \/ MovesNone
         /\ \A v \in Workers \ {w} : pc'[v] = pc[v]
         /\ IsOpen' <=> IsOpen
<1>0. pc \in [Workers -> WorkerStages]
  BY DEF PoolInv, TypeOK
<1>1. \A v \in Workers \ {w} : pc'[v] = pc[v]
  BY <1>0 DEF WorkerStep, LoopTest, SemWait, EmptyTest, Pop, Execute, Goto
<1>2. UNCHANGED <<owner, isClose>>
  BY DEF WorkerStep, LoopTest, SemWait, EmptyTest, Pop, Execute, ownerVars
<1>3. IsOpen' <=> IsOpen
  BY <1>2, Zenon DEF IsOpen
<1>4. CASE LoopTest(w) \/ SemWait(w) \/ EmptyTest(w)
  <2>1. pc[w] # "got" /\ pc'[w] # "got"
    BY <1>0, <1>4 DEF LoopTest, SemWait, EmptyTest, At, Goto
  <2> QED
    BY <1>1, <1>3, <1>4, <2>1 DEF LoopTest, SemWait, EmptyTest, MovesNone, ownerVars
<1>5. CASE Pop(w) /\ taskQueue = <<>>
  <2>1. pc[w] # "got" /\ pc'[w] # "got"
    BY <1>0, <1>5 DEF Pop, At, Goto
  <2> QED
    BY <1>1, <1>3, <1>5, <2>1 DEF Pop, MovesNone, ownerVars
<1>6. CASE Pop(w) /\ taskQueue # <<>>
  BY <1>0, <1>1, <1>3, <1>6 DEF Pop, Pops, At, Goto, ownerVars
<1>7. CASE Execute(w)
  <2>1. pc[w] = "got" /\ pc'[w] # "got"
    BY <1>0, <1>7 DEF Execute, At, Goto
  <2>2. Finished' = Finished \cup {task[w]}
    BY <1>7 DEF Execute, Finished
  <2> QED
    BY <1>1, <1>3, <1>7, <2>1, <2>2 DEF Execute, Completes, ownerVars
<1> QED
  BY <1>1, <1>3, <1>4, <1>5, <1>6, <1>7 DEF WorkerStep

\* Tasks keep their order, and none is at two workers, or comes again when it
\* is finished.
LEMMA OrderStep == PoolInv /\ TasksInOrder /\ [Next]_vars => TasksInOrder'
<1> SUFFICES ASSUME PoolInv, TasksInOrder, [Next]_vars PROVE TasksInOrder'
  OBVIOUS
<1>0. /\ taskQueue \in Seq(Tasks) /\ Len(taskQueue) \in Nat
      /\ task \in [Workers -> Tasks \cup {0}]
      /\ appended \in Nat /\ MaxTasks \in Nat
  BY LenProperties, ThreadPoolAssumption DEF PoolInv, TypeOK
<1>1. CASE Appends
  <2>1. appended + 1 \in Tasks
    BY <1>0, <1>1 DEF Tasks, Appends
  <2>2. /\ Len(taskQueue') = Len(taskQueue) + 1
        /\ \A i \in 1..Len(taskQueue) : taskQueue'[i] = taskQueue[i]
        /\ taskQueue'[Len(taskQueue) + 1] = appended + 1
    BY <1>0, <1>1, <2>1, AppendProperties DEF Appends
  <2>3. Taken' = Taken
    BY <1>0, <1>1, <2>2 DEF Taken, Appends
  <2>4. \A i \in 1..Len(taskQueue') : taskQueue'[i] = Taken' + i
    <3> SUFFICES ASSUME NEW i \in 1..Len(taskQueue') PROVE taskQueue'[i] = Taken + i
      BY <2>3
    <3>1. CASE i \in 1..Len(taskQueue)
      BY <2>2, <3>1 DEF TasksInOrder
    <3>2. CASE i = Len(taskQueue) + 1
      BY <1>0, <2>2, <3>2 DEF Taken
    <3> QED
      BY <1>0, <2>2, <3>1, <3>2
  <2>5. Finished' = Finished /\ Busy' = Busy /\ task' = task
    BY <1>1 DEF Appends, Finished, Busy
  <2> QED
    BY <2>3, <2>4, <2>5 DEF TasksInOrder
<1>2. ASSUME NEW w \in Workers, Pops(w), \A v \in Workers \ {w} : pc'[v] = pc[v]
      PROVE  TasksInOrder'
  <2>1. /\ Head(taskQueue) = taskQueue[1] /\ 1 \in 1..Len(taskQueue)
        /\ Len(taskQueue') = Len(taskQueue) - 1
        /\ \A i \in 1..Len(taskQueue') : taskQueue'[i] = taskQueue[i + 1]
    BY <1>0, <1>2, HeadTailProperties, EmptySeq DEF Pops
  <2>2. Taken' = Taken + 1 /\ Head(taskQueue) = Taken + 1 /\ Taken \in Nat
    BY <1>0, <1>2, <2>1 DEF Taken, Pops, TasksInOrder
  <2>3. \A i \in 1..Len(taskQueue') : taskQueue'[i] = Taken' + i
    <3> SUFFICES ASSUME NEW i \in 1..Len(taskQueue') PROVE taskQueue'[i] = Taken' + i
      OBVIOUS
    <3>1. i + 1 \in 1..Len(taskQueue)
      BY <1>0, <2>1
    <3>2. taskQueue[i + 1] = Taken + (i + 1)
      BY <3>1 DEF TasksInOrder
    <3> QED
      BY <2>1, <2>2, <3>2
  <2>4. Busy' = Busy \cup {w} /\ w \notin Busy
    BY <1>2, BusyMove DEF Pops, Busy
  <2>5. /\ task'[w] = Taken + 1
        /\ \A v \in Busy : task'[v] = task[v]
        /\ Finished' = Finished
    BY <1>0, <1>2, <2>2, <2>4 DEF Pops, Finished, Busy
  <2>6. \A v \in Busy' : task'[v] \in 1..Taken' /\ task'[v] \notin Finished'
    BY <2>2, <2>4, <2>5 DEF TasksInOrder
  <2>7. \A u, v \in Busy' : task'[u] = task'[v] => u = v
    BY <2>2, <2>4, <2>5 DEF TasksInOrder
  <2>8. Taken' \in Nat /\ Finished' \subseteq 1..Taken'
    BY <2>2, <2>5 DEF TasksInOrder
  <2> QED
    BY <2>3, <2>6, <2>7, <2>8 DEF TasksInOrder
<1>3. ASSUME NEW w \in Workers, Completes(w), \A v \in Workers \ {w} : pc'[v] = pc[v]
      PROVE  TasksInOrder'
  <2>1. Busy' = Busy \ {w} /\ w \in Busy
    BY <1>3, BusyMove DEF Completes, Busy
  <2>2. /\ \A v \in Busy' : task'[v] = task[v] /\ task[v] # task[w]
        /\ Taken' = Taken /\ taskQueue' = taskQueue
    BY <1>0, <1>3, <2>1 DEF Completes, Taken, TasksInOrder, Busy
  <2>3. Finished' = Finished \cup {task[w]} /\ task[w] \in 1..Taken
    BY <1>3, <2>1 DEF Completes, TasksInOrder
  <2>4. /\ Finished' \subseteq 1..Taken'
        /\ \A v \in Busy' : task'[v] \in 1..Taken' /\ task'[v] \notin Finished'
    BY <2>1, <2>2, <2>3 DEF TasksInOrder
  <2>5. \A u, v \in Busy' : task'[u] = task'[v] => u = v
    BY <2>1, <2>2 DEF TasksInOrder
  <2>6. Taken' \in Nat /\ \A i \in 1..Len(taskQueue') : taskQueue'[i] = Taken' + i
    BY <2>2 DEF TasksInOrder
  <2> QED
    BY <2>4, <2>5, <2>6 DEF TasksInOrder
<1>4. CASE MovesNone
  BY <1>4, OrderKept DEF MovesNone
<1>5. CASE UNCHANGED vars
  BY <1>5, OrderKept DEF vars
<1> QED
  BY <1>1, <1>2, <1>3, <1>4, <1>5, OwnerMoves, WorkerMoves DEF Next

\* The tasks the workers have in hand.
Running == {task[w] : w \in Busy}

\* Of the workers that have a task no two have the same; while one has none
\* there are fewer tasks in hand than workers.
LEMMA RunningBelowCapacity ==
  ASSUME NEW w \in Workers, w \notin Busy
  PROVE  Cardinality(Running) < threadCount
<1>1. Busy \subseteq Workers \ {w}
  BY DEF Busy
<1>2. /\ IsFiniteSet(Workers \ {w})
      /\ Cardinality(Workers \ {w}) = threadCount - 1
      /\ threadCount \in Nat
  BY FS_RemoveElement, FS_CardinalityType, ThreadPoolAssumption DEF threadCount
<1>3. IsFiniteSet(Busy) /\ Cardinality(Busy) <= threadCount - 1
  BY <1>1, <1>2, FS_Subset
<1> DEFINE f == [v \in Busy |-> task[v]]
<1>4. f \in Surjection(Busy, Running)
  BY DEF Running, Surjection
<1>5. IsFiniteSet(Running) /\ Cardinality(Running) <= Cardinality(Busy)
  BY <1>3, <1>4, FS_Surjection
<1>6. Cardinality(Running) \in Nat /\ Cardinality(Busy) \in Nat
  BY <1>3, <1>5, FS_CardinalityType
<1> QED
  BY <1>2, <1>3, <1>5, <1>6

\* Every step of the pool is a step of the service or a stutter.
LEMMA ServiceStep ==
  PoolInv /\ TasksInOrder /\ [Next]_vars
    => [Service!ServiceNext]_(Service!serviceVars)
<1> SUFFICES ASSUME PoolInv, TasksInOrder, [Next]_vars
             PROVE  Service!ServiceNext \/ UNCHANGED Service!serviceVars
  OBVIOUS
<1>0. /\ taskQueue \in Seq(Tasks) /\ Len(taskQueue) \in Nat
      /\ task \in [Workers -> Tasks \cup {0}]
      /\ appended \in Nat /\ MaxTasks \in Nat
  BY LenProperties, ThreadPoolAssumption DEF PoolInv, TypeOK
<1> DEFINE run == {task[w] : w \in {v \in Workers : pc[v] = "got"}}
           opn == owner # "terminated" /\ ~isClose
           fin == executed \cup deleted
<1>r. run = Running /\ run' = Running' /\ fin = Finished /\ fin' = Finished'
  BY DEF Running, Busy, Finished
<1>o. (opn <=> IsOpen) /\ (opn' <=> IsOpen')
  BY Zenon DEF IsOpen
<1>1. CASE Appends /\ (IsOpen' <=> IsOpen)
  <2>1. appended + 1 \in Tasks
    BY <1>0, <1>1 DEF Tasks, Appends
  <2>2. appended + 1 \notin 1..Taken
    BY <1>0 DEF Taken, TasksInOrder
  <2>3. appended + 1 \notin run \cup fin
    BY <1>r, <2>2 DEF Running, TasksInOrder
  <2>4. \A i \in 1..Len(taskQueue) : taskQueue[i] # appended + 1
    BY <1>0 DEF Taken, TasksInOrder
  <2>5. taskQueue' = Append(taskQueue, appended + 1) /\ run' = run /\ fin' = fin
    BY <1>1 DEF Appends
  <2>6. opn' = opn
    BY <1>1, <1>o, Zenon
  <2>7. Service!Accept(appended + 1)
    BY <2>3, <2>4, <2>5, <2>6, Zenon DEF Service!Accept
  <2> QED
    BY <2>1, <2>7 DEF Service!ServiceNext
<1>2. ASSUME NEW w \in Workers, Pops(w), \A v \in Workers \ {w} : pc'[v] = pc[v],
             IsOpen' <=> IsOpen
      PROVE  Service!StartNext
  <2>1. Busy' = Busy \cup {w} /\ w \notin Busy
    BY <1>2, BusyMove DEF Pops, Busy
  <2>2. task'[w] = Head(taskQueue) /\ \A v \in Busy : task'[v] = task[v]
    BY <1>0, <1>2, <2>1 DEF Pops, Busy
  <2>3. Running' = Running \cup {Head(taskQueue)}
    BY <2>1, <2>2 DEF Running
  <2>4. Cardinality(run) < threadCount
    BY <1>r, <2>1, RunningBelowCapacity
  <2>5. taskQueue # <<>> /\ taskQueue' = Tail(taskQueue) /\ fin' = fin
    BY <1>2 DEF Pops
  <2>6. opn' = opn
    BY <1>2, <1>o, Zenon
  <2>7. run' = run \cup {Head(taskQueue)}
    BY <1>r, <2>3
  <2>8. Service!Cardinality(run) < threadCount
    BY <2>4 DEF Service!Cardinality, Cardinality
  <2> QED
    BY <2>5, <2>6, <2>7, <2>8, Zenon DEF Service!StartNext
<1>3. ASSUME NEW w \in Workers, Completes(w), \A v \in Workers \ {w} : pc'[v] = pc[v],
             IsOpen' <=> IsOpen
      PROVE  \E t \in Tasks : Service!Finish(t)
  <2>1. Busy' = Busy \ {w} /\ w \in Busy
    BY <1>3, BusyMove DEF Completes, Busy
  <2>2. \A v \in Busy' : task'[v] = task[v] /\ task[v] # task[w]
    BY <1>0, <1>3, <2>1 DEF Completes, TasksInOrder, Busy
  <2>3. Running' = Running \ {task[w]} /\ task[w] \in Running
    BY <2>1, <2>2 DEF Running
  <2>4. task[w] \in Tasks
    BY <1>0, <2>1 DEF Busy, PoolInv, TaskInHand
  <2>5. taskQueue' = taskQueue /\ fin' = fin \cup {task[w]}
    BY <1>3, <1>r DEF Completes
  <2>6. opn' = opn
    BY <1>3, <1>o, Zenon
  <2>7. task[w] \in run /\ run' = run \ {task[w]}
    BY <1>r, <2>3
  <2> PICK t \in Tasks : t = task[w]
    BY <2>4
  <2>8. Service!Finish(t)
    BY <2>5, <2>6, <2>7, Zenon DEF Service!Finish
  <2> QED
    BY <2>8
<1>4. ASSUME MovesNone
      PROVE  Service!Open \/ Service!Shutdown \/ UNCHANGED Service!serviceVars
  <2>1. Busy' = Busy
    BY <1>4 DEF MovesNone, Busy
  <2>2. UNCHANGED <<taskQueue, run, fin>>
    BY <1>4, <2>1 DEF MovesNone, Busy
  <2>3. CASE opn' = opn
    BY <2>2, <2>3 DEF Service!serviceVars
  <2>4. CASE opn /\ ~opn'
    BY <2>2, <2>4 DEF Service!Shutdown
  <2>5. CASE ~opn /\ opn'
    BY <2>2, <2>5 DEF Service!Open
  <2> QED
    BY <2>3, <2>4, <2>5
<1>5. CASE UNCHANGED vars
  BY <1>5 DEF vars, Service!serviceVars
<1> QED
  <2>1. CASE OwnerStep
    BY <1>1, <1>4, <2>1, OwnerMoves, Zenon DEF Service!ServiceNext
  <2>2. ASSUME NEW w \in Workers, WorkerStep(w)
        PROVE  Service!ServiceNext \/ UNCHANGED Service!serviceVars
    <3>1. \A v \in Workers \ {w} : pc'[v] = pc[v]
      BY <2>2, WorkerMoves, Zenon
    <3>2. IsOpen' <=> IsOpen
      BY <2>2, WorkerMoves, Zenon
    <3>3. CASE Pops(w)
      BY <1>2, <3>1, <3>2, <3>3, Zenon DEF Service!ServiceNext
    <3>4. CASE Completes(w)
      BY <1>3, <3>1, <3>2, <3>4, Zenon DEF Service!ServiceNext
    <3>5. CASE MovesNone
      BY <1>4, <3>5, Zenon DEF Service!ServiceNext
    <3> QED
      BY <2>2, <3>3, <3>4, <3>5, WorkerMoves, Zenon
  <2> QED
    BY <1>5, <2>1, <2>2, Zenon DEF Next

\* The pool implements the safety part of the task service: an accepted task
\* is started at most once, in the order of append(), by a worker that has
\* no other, and finished once.
THEOREM Refinement == Spec => Service!ServiceSafety
<1>1. Init => Service!ServiceInit /\ TasksInOrder
  <2> SUFFICES ASSUME Init PROVE Service!ServiceInit /\ TasksInOrder
    OBVIOUS
  <2>1. Busy = {} /\ Finished = {} /\ Len(taskQueue) = 0 /\ appended = 0
    BY EmptySeq DEF Init, Busy, Finished
  <2>2. TasksInOrder
    BY <2>1 DEF TasksInOrder, Taken
  <2>3. Service!ServiceInit
    BY <2>1 DEF Init, Service!ServiceInit, Busy
  <2> QED
    BY <2>2, <2>3
<1> QED
  BY Invariance, <1>1, OrderStep, ServiceStep, PTL DEF Spec, Service!ServiceSafety
=============================================================================
