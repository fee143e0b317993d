------------------------------ MODULE SafeQueue ------------------------------
(***************************************************************************)
(* SafeQueue<T> (safequeue/safequeue.h): a std::list behind a pthread      *)
(* mutex, with a counting semaphore for the blocking operations.  A thread *)
(* that calls an operation goes through the stages                         *)
(*                                                                         *)
(*    wait (sem_wait)  ->  lock  ->  crit (body, unlock)  ->  post         *)
(*                                                                         *)
(* and only the stages its operation has.  The body of a critical section  *)
(* and its unlock are one step: nobody else can observe the middle of it.  *)
(* The program installs no signal handler, so sem_wait is not interrupted. *)
(***************************************************************************)
EXTENDS Integers, Sequences, FiniteSets

CONSTANTS Threads,   \* the threads that share the queue
          Values,    \* the values of type T
          Counts,    \* the arguments pop(int num) is called with
          NoThread,  \* the owner of a free mutex
          MaxLen     \* bound: elements in the list or about to enter it

ASSUME SafeQueueAssumption ==
  /\ IsFiniteSet(Threads)
  /\ NoThread \notin Threads
  /\ Counts \subseteq Int
  /\ MaxLen \in Nat

VARIABLES family,    \* "plain": callers of push/pop, "blocking": of push_b/pop_b
                     \* (safequeue.h:8 forbids to mix the two)
          list,      \* std::list<T> list, front first
          mutex,     \* the thread that holds the mutex, or NoThread
          sem,       \* m_sem; garbage until setblock initialises it
          isblock,   \* isblock
          pc,        \* per thread, the stage it is in
          op,        \* per thread, the operation it is in, or "none"
          arg,       \* per thread, the argument of that operation, or 0
          ret,       \* per thread, what its pop or front returned
          thrown     \* per thread, the exception that ended its operation

vars == <<family, list, mutex, sem, isblock, pc, op, arg, ret, thrown>>

Pushes  == {"push", "push_b"}
Ops     == Pushes \cup {"pop", "popN", "pop_b", "front", "query", "setblock"}
Stages  == {"idle", "wait", "lock", "crit", "post"}
Errors  == {"none", "list is empty", "already enabled", "sem_init failed"}

\* The arguments operation o is called with; 0 stands for none.
Args(o) == CASE o \in Pushes -> Values
             [] o = "popN"   -> Counts
             [] OTHER        -> {0}

Pushing == {t \in Threads : pc[t] \in {"lock", "crit"} /\ op[t] \in Pushes}

Blocking == family = "blocking"

\* What a caller that keeps to one of the two families may call now: the
\* blocking operations only once setblock has run (SqlConnectionPool::init).
Allowed(o) ==
  CASE o \in {"push", "pop", "popN"} -> ~Blocking
    [] o \in {"push_b", "pop_b"}     -> Blocking /\ isblock
    [] o = "setblock"                -> Blocking
    [] OTHER                         -> TRUE

Init ==
  /\ family \in {"plain", "blocking"}
  /\ list = <<>>
  /\ mutex = NoThread
  /\ sem \in 0..1
  /\ isblock = FALSE
  /\ pc = [t \in Threads |-> "idle"]
  /\ op = [t \in Threads |-> "none"]
  /\ arg = [t \in Threads |-> 0]
  /\ ret = [t \in Threads |-> <<>>]
  /\ thrown = [t \in Threads |-> "none"]

\* A thread calls operation o: pop_b starts with sem_wait, the others lock.
Begin(t, o, a) ==
  /\ pc[t] = "idle"
  /\ Allowed(o)
  /\ o \in Pushes => Len(list) + Cardinality(Pushing) < MaxLen
  /\ op' = [op EXCEPT ![t] = o]
  /\ arg' = [arg EXCEPT ![t] = a]
  /\ ret' = [ret EXCEPT ![t] = <<>>]
  /\ thrown' = [thrown EXCEPT ![t] = "none"]
  /\ pc' = [pc EXCEPT ![t] = IF o = "pop_b" THEN "wait" ELSE "lock"]
  /\ UNCHANGED <<family, list, mutex, sem, isblock>>

SemWaitUnguarded(t) ==
  /\ pc[t] = "wait"
  /\ sem' = sem - 1
  /\ pc' = [pc EXCEPT ![t] = "lock"]
  /\ UNCHANGED <<family, list, mutex, isblock, op, arg, ret, thrown>>

SemWaitKeepingUnit(t) ==
  /\ pc[t] = "wait"
  /\ sem > 0
  /\ pc' = [pc EXCEPT ![t] = "lock"]
  /\ UNCHANGED <<family, list, mutex, sem, isblock, op, arg, ret, thrown>>

SemWait(t) ==
  /\ pc[t] = "wait"
  /\ sem > 0
  /\ sem' = sem - 1
  /\ pc' = [pc EXCEPT ![t] = "lock"]
  /\ UNCHANGED <<family, list, mutex, isblock, op, arg, ret, thrown>>

Lock(t) ==
  /\ pc[t] = "lock"
  /\ mutex = NoThread
  /\ mutex' = t
  /\ pc' = [pc EXCEPT ![t] = "crit"]
  /\ UNCHANGED <<family, list, sem, isblock, op, arg, ret, thrown>>

InCrit(t, ops) == pc[t] = "crit" /\ op[t] \in ops

\* The end of a critical section, after which the thread goes to stage s.
Unlock(t, s) ==
  /\ mutex' = NoThread
  /\ UNCHANGED family
  /\ pc' = [pc EXCEPT ![t] = s]
  /\ op' = [op EXCEPT ![t] = "none"]
  /\ arg' = [arg EXCEPT ![t] = 0]

Return(t, s) ==
  /\ ret' = [ret EXCEPT ![t] = s]
  /\ UNCHANGED thrown

Throw(t, e) ==
  /\ thrown' = [thrown EXCEPT ![t] = e]
  /\ UNCHANGED ret

Forgotten(t, s) ==
  /\ UNCHANGED <<family, mutex>>
  /\ pc' = [pc EXCEPT ![t] = s]
  /\ op' = [op EXCEPT ![t] = "none"]
  /\ arg' = [arg EXCEPT ![t] = 0]

\* push and push_b; push_b posts the semaphore after the unlock.
AfterPush(o) == IF o = "push_b" THEN "post" ELSE "idle"

PushFront(t) ==
  /\ InCrit(t, Pushes)
  /\ list' = <<arg[t]>> \o list
  /\ Unlock(t, AfterPush(op[t]))
  /\ UNCHANGED <<sem, isblock, ret, thrown>>

PushNoPost(t) ==
  /\ InCrit(t, Pushes)
  /\ list' = Append(list, arg[t])
  /\ Unlock(t, "idle")
  /\ UNCHANGED <<sem, isblock, ret, thrown>>

Push(t) ==
  /\ InCrit(t, Pushes)
  /\ list' = Append(list, arg[t])
  /\ Unlock(t, AfterPush(op[t]))
  /\ UNCHANGED <<sem, isblock, ret, thrown>>

\* T pop(): an empty list gives the default-constructed T{}, here <<>>.
Pop(t) ==
  /\ InCrit(t, {"pop"})
  /\ Unlock(t, "idle")
  /\ IF list = <<>>
     THEN Return(t, <<>>) /\ UNCHANGED list
     ELSE Return(t, <<Head(list)>>) /\ list' = Tail(list)
  /\ UNCHANGED <<sem, isblock>>

\* std::min(static_cast<size_t>(num), list.size()): a negative num is huge.
PopCount(num) == IF num < 0 \/ num > Len(list) THEN Len(list) ELSE num

PopN(t) ==
  /\ InCrit(t, {"popN"})
  /\ Unlock(t, "idle")
  /\ LET k == PopCount(arg[t])
     IN  /\ Return(t, SubSeq(list, 1, k))
         /\ list' = SubSeq(list, k + 1, Len(list))
  /\ UNCHANGED <<sem, isblock>>

\* T pop_b() after its sem_wait: an empty list is an error, it throws.
PopB(t) ==
  /\ InCrit(t, {"pop_b"})
  /\ Unlock(t, "idle")
  /\ IF list = <<>>
     THEN Throw(t, "list is empty") /\ UNCHANGED list
     ELSE Return(t, <<Head(list)>>) /\ list' = Tail(list)
  /\ UNCHANGED <<sem, isblock>>

SemPost(t) ==
  /\ pc[t] = "post"
  /\ sem' = sem + 1
  /\ pc' = [pc EXCEPT ![t] = "idle"]
  /\ UNCHANGED <<family, list, mutex, isblock, op, arg, ret, thrown>>

\* setblock(): a second call throws, and so does a failing sem_init; every
\* path unlocks.
SetBlockKeepingLock(t) ==
  /\ InCrit(t, {"setblock"})
  /\ IF isblock
     THEN /\ Forgotten(t, "idle")
          /\ Throw(t, "already enabled")
          /\ UNCHANGED <<sem, isblock>>
     ELSE /\ Unlock(t, "idle")
          /\ sem' = 0
          /\ isblock' = TRUE
          /\ UNCHANGED <<ret, thrown>>
  /\ UNCHANGED list

SetBlock(t) ==
  /\ InCrit(t, {"setblock"})
  /\ Unlock(t, "idle")
  /\ \/ isblock /\ Throw(t, "already enabled") /\ UNCHANGED <<sem, isblock>>
     \/ ~isblock /\ Throw(t, "sem_init failed") /\ UNCHANGED <<sem, isblock>>
     \/ /\ ~isblock
        /\ sem' = 0
        /\ isblock' = TRUE
        /\ UNCHANGED <<ret, thrown>>
  /\ UNCHANGED list

\* T front(): a copy of the first element, which stays in the list.
Front(t) ==
  /\ InCrit(t, {"front"})
  /\ Unlock(t, "idle")
  /\ Return(t, IF list = <<>> THEN <<>> ELSE <<Head(list)>>)
  /\ UNCHANGED <<list, sem, isblock>>

\* "query" is empty, size or isFull: they read the list under the mutex; the
\* answer may be stale when the caller looks at it (see ThreadPool).
Query(t) ==
  /\ InCrit(t, {"query"})
  /\ Unlock(t, "idle")
  /\ UNCHANGED <<list, sem, isblock, ret, thrown>>

Body(t) ==
  \/ Push(t) \/ Pop(t) \/ PopN(t) \/ PopB(t) \/ SetBlock(t) \/ Front(t) \/ Query(t)

Step(t) == SemWait(t) \/ Lock(t) \/ Body(t) \/ SemPost(t)

Next ==
  \E t \in Threads : Step(t) \/ \E o \in Ops : \E a \in Args(o) : Begin(t, o, a)

Spec == Init /\ [][Next]_vars

\* A thread inside an operation is scheduled again and again, and no thread
\* is starved for ever at a mutex that keeps being released.  Among the
\* waiters of a semaphore somebody is woken; nothing promises which.
FairSpec ==
  /\ Spec
  /\ \A t \in Threads : WF_vars(Body(t) \/ SemPost(t)) /\ SF_vars(Lock(t))
  /\ WF_vars(\E t \in Threads : SemWait(t))
-----------------------------------------------------------------------------
TypeOK ==
  /\ family \in {"plain", "blocking"}
  /\ list \in Seq(Values)
  /\ mutex \in Threads \cup {NoThread}
  /\ sem \in Nat
  /\ isblock \in BOOLEAN
  /\ pc \in [Threads -> Stages]
  /\ op \in [Threads -> Ops \cup {"none"}]
  /\ arg \in [Threads -> Values \cup Counts \cup {0}]
  /\ \A t \in Threads : op[t] # "none" => arg[t] \in Args(op[t])
  /\ ret \in [Threads -> Seq(Values)]
  /\ thrown \in [Threads -> Errors]

\* pop_b owns an element once its sem_wait has returned: the throw
\* "list is empty!" (safequeue.h:144-147) is dead code for callers that do
\* not mix the two families, however pushes and pops interleave.
PopBFindsElement == \A t \in Threads : thrown[t] # "list is empty"

\* The threads that took a semaphore unit and not yet their element, and
\* those that inserted an element and did not post it yet.
Claiming == {t \in Threads : pc[t] \in {"lock", "crit"} /\ op[t] = "pop_b"}
Posting  == {t \in Threads : pc[t] = "post"}

\* The accounting behind it: every element of a blocking queue is counted by
\* exactly one semaphore unit, claimed unit or pending post.
SemCountsElements ==
  isblock => Len(list) = sem + Cardinality(Claiming) + Cardinality(Posting)

\* What makes the accounting inductive: a thread is in an operation exactly
\* in the stages before its unlock, and only pop_b waits;
StageOfOp ==
  \A t \in Threads :
    /\ op[t] = "none" <=> pc[t] \in {"idle", "post"}
    /\ pc[t] = "wait" => op[t] = "pop_b"

\* and the callers keep to their family, so that nothing has entered the
\* list of a blocking queue before setblock initialises the semaphore.
OneFamily ==
  /\ isblock => Blocking
  /\ Blocking /\ ~isblock => list = <<>>
  /\ \A t \in Threads :
       /\ op[t] \in {"push", "pop", "popN"} => ~Blocking
       /\ op[t] \in {"push_b", "pop_b"} \/ pc[t] = "post" => isblock
       /\ op[t] = "setblock" => Blocking

QueueInv ==
  TypeOK /\ StageOfOp /\ OneFamily /\ SemCountsElements /\ PopBFindsElement

\* The mutex is always released again, on the throwing paths too.
LockReleased == []<>(mutex = NoThread)

\* The refinement: a taker waits until its critical section, and what it got
\* is what its call returned.
Taking == {t \in Threads : pc[t] = "wait"} \cup Claiming

FifoImpl == INSTANCE BlockingFifo WITH
  q       <- list,
  waiting <- Taking,
  got     <- ret

\* SafeQueue is a FIFO whose every operation takes effect atomically, whose
\* pop_b returns the oldest element of a non-empty queue, and in which a
\* waiting thread is served while there are elements.
ImplementsFifo == FifoImpl!FifoSpec
=============================================================================
