---------------------------- MODULE BlockingFifo ----------------------------
(***************************************************************************)
(* What a thread-safe queue promises to the threads that share it, with    *)
(* no lock and no semaphore in sight: a Put is one step, a blocking taker  *)
(* waits and then receives the oldest element in one step, a non-blocking  *)
(* taker receives at most as many of the oldest elements as there are.     *)
(* SafeQueue (safequeue/safequeue.h) is shown to implement it.             *)
(***************************************************************************)
EXTENDS Integers, Sequences

CONSTANTS Threads,   \* the threads that share the queue
          Values     \* what they put into it

VARIABLES q,         \* the elements, oldest first
          waiting,   \* the threads inside a blocking take
          got        \* per thread, what its last take or look returned

fifoVars == <<q, waiting, got>>

FifoTypeOK ==
  /\ q \in Seq(Values)
  /\ waiting \subseteq Threads
  /\ got \in [Threads -> Seq(Values)]

FifoInit ==
  /\ q = <<>>
  /\ waiting = {}
  /\ got = [t \in Threads |-> <<>>]

Put(v) ==
  /\ q' = Append(q, v)
  /\ UNCHANGED <<waiting, got>>

\* A thread enters a blocking take; from here on it is owed an element.
Ask(t) ==
  /\ t \notin waiting
  /\ waiting' = waiting \cup {t}
  /\ got' = [got EXCEPT ![t] = <<>>]
  /\ UNCHANGED q

\* A blocking take completes only on a non-empty queue.
Take(t) ==
  /\ t \in waiting
  /\ q # <<>>
  /\ got' = [got EXCEPT ![t] = <<Head(q)>>]
  /\ q' = Tail(q)
  /\ waiting' = waiting \ {t}

\* A non-blocking take of k elements, never more than there are.
TakeNow(t, k) ==
  /\ t \notin waiting
  /\ k <= Len(q)
  /\ got' = [got EXCEPT ![t] = SubSeq(q, 1, k)]
  /\ q' = SubSeq(q, k + 1, Len(q))
  /\ UNCHANGED waiting

\* A thread that starts another call gives up the result of the last one.
Forget(t) ==
  /\ got' = [got EXCEPT ![t] = <<>>]
  /\ UNCHANGED <<q, waiting>>

\* A look at the oldest element, which stays.
Peek(t) ==
  /\ t \notin waiting
  /\ got' = [got EXCEPT ![t] = IF q = <<>> THEN <<>> ELSE <<Head(q)>>]
  /\ UNCHANGED <<q, waiting>>

FifoNext ==
  \/ \E v \in Values : Put(v)
  \/ \E t \in Threads :
       \/ Ask(t) \/ Take(t) \/ Peek(t) \/ Forget(t)
       \/ \E k \in 0..Len(q) : TakeNow(t, k)

FifoSafety == FifoInit /\ [][FifoNext]_fifoVars

\* As long as there is an element and a waiting thread, somebody is served.
FifoSpec == FifoSafety /\ WF_fifoVars(\E t \in Threads : Take(t))
=============================================================================
