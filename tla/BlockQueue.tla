----------------------------- MODULE BlockQueue -----------------------------
(***************************************************************************)
(* block_queue<T> (log/block_queue.h): a ring of m_max_size elements behind *)
(* a mutex, with a condition variable its poppers sleep on.  Every access  *)
(* is made under the mutex, so that a critical section, up to its unlock   *)
(* or to the wait that releases it, is one step.  A thread that calls an   *)
(* operation goes                                                          *)
(*                                                                         *)
(*    idle -> lock -> [asleep -> woken ->] idle                            *)
(*                                                                         *)
(* The mutex and the condition variable are those of lock/locker.h, which  *)
(* the repository does not hold: wait and timewait answer whether the      *)
(* pthread call returned 0.  pthread_cond_wait does for an initialised     *)
(* pair; pthread_cond_timedwait does not at its time-out.                  *)
(***************************************************************************)
EXTENDS Integers, Sequences

CONSTANTS Threads,   \* the threads that share the queue
          Values,    \* the values of type T that are pushed
          NoValue,   \* the default-constructed T of a fresh cell
          MaxSize    \* m_max_size

ASSUME BlockQueueAssumption == MaxSize \in Nat \ {0} /\ NoValue \notin Values

VARIABLES array,     \* m_array
          size,      \* m_size
          front,     \* m_front, the cell before the oldest element
          back,      \* m_back, the cell of the newest element
          pc,        \* per thread, its stage
          op,        \* per thread, the operation it is in
          arg,       \* per thread, the item of its push
          ret        \* per thread, <<>> for false or no answer, <<x>> for true
                     \* with x in its reference argument

vars == <<array, size, front, back, pc, op, arg, ret>>
ring == <<array, size, front, back>>

Pops   == {"pop", "popTimed"}
Ops    == Pops \cup {"push", "clear", "front", "back", "query"}
Stages == {"idle", "lock", "asleep", "woken"}
Cells  == Values \cup {NoValue}

Init ==
  /\ array = [i \in 0..MaxSize - 1 |-> NoValue]
  /\ size = 0
  /\ front = -1
  /\ back = -1
  /\ pc = [t \in Threads |-> "idle"]
  /\ op = [t \in Threads |-> "none"]
  /\ arg = [t \in Threads |-> NoValue]
  /\ ret = [t \in Threads |-> <<>>]

Call(t, o, v) ==
  /\ pc[t] = "idle"
  /\ pc' = [pc EXCEPT ![t] = "lock"]
  /\ op' = [op EXCEPT ![t] = o]
  /\ arg' = [arg EXCEPT ![t] = v]
  /\ ret' = [ret EXCEPT ![t] = <<>>]
  /\ UNCHANGED ring

\* Thread t has the mutex, at the start of operation o or after its wait.
Enters(t, o) == pc[t] \in {"lock", "woken"} /\ op[t] = o

Answer(t, s) ==
  /\ op' = [op EXCEPT ![t] = "none"]
  /\ arg' = [arg EXCEPT ![t] = NoValue]
  /\ ret' = [ret EXCEPT ![t] = s]

Return(t, s) == pc' = [pc EXCEPT ![t] = "idle"] /\ Answer(t, s)

After(i) == (i + 1) % MaxSize

\* m_cond.broadcast(), and the return of the thread that called it.
NoBroadcast(t) == pc' = [pc EXCEPT ![t] = "idle"]

Broadcast(t) ==
  pc' = [u \in Threads |-> IF u = t THEN "idle"
                           ELSE IF pc[u] = "asleep" THEN "woken" ELSE pc[u]]

IsFullOffByOne == size > MaxSize
IsFull == size >= MaxSize

Push(t) ==
  /\ Enters(t, "push")
  /\ IF IsFull
     THEN Answer(t, <<>>) /\ UNCHANGED ring
     ELSE /\ back' = After(back)
          /\ array' = [array EXCEPT ![After(back)] = arg[t]]
          /\ size' = size + 1
          /\ Answer(t, <<arg[t]>>)
          /\ UNCHANGED front
  /\ Broadcast(t)

TakeOldest(t) ==
  /\ front' = After(front)
  /\ size' = size - 1
  /\ Return(t, <<array[After(front)]>>)
  /\ UNCHANGED <<array, back>>

\* pop(item): the while loop sends a popper that finds nothing back to sleep.
Pop(t) ==
  /\ Enters(t, "pop")
  /\ size > 0
  /\ TakeOldest(t)

Sleep(t) ==
  /\ \/ Enters(t, "pop")
     \/ Enters(t, "popTimed") /\ pc[t] = "lock"
  /\ size <= 0
  /\ pc' = [pc EXCEPT ![t] = "asleep"]
  /\ UNCHANGED <<op, arg, ret, ring>>

\* pop(item, ms_timeout) sleeps at most once: woken for an element that
\* somebody else took, it gives up.
PopTimedNoRecheck(t) ==
  /\ Enters(t, "popTimed")
  /\ pc[t] = "woken" \/ size > 0
  /\ TakeOldest(t)

PopTimed(t) ==
  /\ Enters(t, "popTimed")
  /\ \/ size > 0 /\ TakeOldest(t)
     \/ size <= 0 /\ pc[t] = "woken" /\ Return(t, <<>>) /\ UNCHANGED ring

\* The deadline is the second of the call plus (ms % 1000) * 1000 nanoseconds
\* (line 180), mostly in the past already: a time-out may come at any moment.
\* It returns false without another look at the queue.
TimeOut(t) ==
  /\ pc[t] = "asleep" /\ op[t] = "popTimed"
  /\ Return(t, <<>>)
  /\ UNCHANGED ring

\* A condition variable may wake a thread for no reason.
WakeUp(t) ==
  /\ pc[t] = "asleep"
  /\ pc' = [pc EXCEPT ![t] = "woken"]
  /\ UNCHANGED <<op, arg, ret, ring>>

ClearKeepingFront(t) ==
  /\ Enters(t, "clear")
  /\ size' = 0 /\ back' = -1
  /\ Return(t, <<>>)
  /\ UNCHANGED <<array, front>>

Clear(t) ==
  /\ Enters(t, "clear")
  /\ size' = 0 /\ front' = -1 /\ back' = -1
  /\ Return(t, <<>>)
  /\ UNCHANGED array

\* front(value) reads m_array[m_front], which is the cell before the oldest
\* element, and out of the array before the first pop: anything.
Front(t) ==
  /\ Enters(t, "front")
  /\ \/ size = 0 /\ Return(t, <<>>)
     \/ size # 0 /\ front >= 0 /\ Return(t, <<array[front]>>)
     \/ size # 0 /\ front = -1 /\ \E x \in Cells : Return(t, <<x>>)
  /\ UNCHANGED ring

Back(t) ==
  /\ Enters(t, "back")
  /\ Return(t, IF size = 0 THEN <<>> ELSE <<array[back]>>)
  /\ UNCHANGED ring

\* full, empty, size, max_size: they only read.
Query(t) ==
  /\ Enters(t, "query")
  /\ Return(t, <<>>)
  /\ UNCHANGED ring

Body(t) ==
  \/ Push(t) \/ Pop(t) \/ Sleep(t) \/ PopTimed(t) \/ Clear(t) \/ Front(t)
  \/ Back(t) \/ Query(t)

Next ==
  \E t \in Threads :
    \/ Body(t) \/ TimeOut(t) \/ WakeUp(t)
    \/ \E v \in Values : Call(t, "push", v)
    \/ \E o \in Ops \ {"push"} : Call(t, o, NoValue)

Spec == Init /\ [][Next]_vars

\* A thread that is not asleep gets the mutex and runs.
FairSpec == Spec /\ \A t \in Threads : WF_vars(Body(t))
-----------------------------------------------------------------------------
TypeOK ==
  /\ array \in [0..MaxSize - 1 -> Cells]
  /\ size \in 0..MaxSize
  /\ front \in -1..MaxSize - 1
  /\ back \in -1..MaxSize - 1
  /\ pc \in [Threads -> Stages]
  /\ op \in [Threads -> Ops \cup {"none"}]
  /\ arg \in [Threads -> Cells]
  /\ ret \in [Threads -> Seq(Cells)]

\* front, back and size are kept apart, on the wrapping paths and through
\* clear(), and still describe one ring.
RingConsistent == (back - front - size) % MaxSize = 0

\* push wakes every sleeper, so that nobody sleeps beside an element, though
\* pops of both kinds and clear() keep emptying the queue under them.
NobodySleepsOnElements ==
  \A t \in Threads : pc[t] = "asleep" => size = 0

\* Whoever sleeps, or was woken, is in a pop.
OnlyPopsWait ==
  \A t \in Threads :
    /\ pc[t] \in {"asleep", "woken"} => op[t] \in Pops
    /\ pc[t] = "idle" <=> op[t] = "none"

Elements == [i \in 1..size |-> array[(front + i) % MaxSize]]

Popping(ops) == {t \in Threads : op[t] \in ops}

Bounded == INSTANCE BoundedQueue WITH
  Capacity <- MaxSize,
  Answers  <- Cells,
  q        <- Elements,
  waiting  <- Popping(Pops),
  hurried  <- Popping({"popTimed"}),
  got      <- ret

\* The ring is a bounded FIFO: an accepted push is popped once and in order,
\* a push is refused only when the queue is full, only a timed pop gives up,
\* and while there are elements and poppers somebody is served.
ImplementsBoundedQueue == Bounded!BoundedSpec
=============================================================================
