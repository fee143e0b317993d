---------------------------- MODULE BoundedQueue ----------------------------
(***************************************************************************)
(* What a blocking queue of limited size promises to the threads that      *)
(* share it: an Offer is accepted as long as there is room and refused     *)
(* otherwise, a taker receives the oldest element, waits while there is    *)
(* none, and gives up only if it came with a time limit.  block_queue      *)
(* (log/block_queue.h) is shown to implement it.                           *)
(***************************************************************************)
EXTENDS Integers, Sequences

CONSTANTS Threads,   \* the threads that share the queue
          Values,    \* what they put into it
          Capacity,  \* how many elements it holds
          Answers    \* what a glance may return, of which nothing is promised

VARIABLES q,         \* the elements, oldest first
          waiting,   \* the threads inside a take
          hurried,   \* those of them that came with a time limit
          got        \* per thread, what its last call returned; <<>> is false

boundedVars == <<q, waiting, hurried, got>>

BoundedInit ==
  /\ q = <<>>
  /\ waiting = {}
  /\ hurried = {}
  /\ got = [t \in Threads |-> <<>>]

Answer(t, s) == got' = [got EXCEPT ![t] = s]

Offer(t, v) ==
  /\ t \notin waiting
  /\ \/ Len(q) < Capacity /\ q' = Append(q, v) /\ Answer(t, <<v>>)
     \/ Len(q) = Capacity /\ UNCHANGED q /\ Answer(t, <<>>)
  /\ UNCHANGED <<waiting, hurried>>

Ask(t) ==
  /\ t \notin waiting
  /\ waiting' = waiting \cup {t}
  /\ hurried' \in {hurried, hurried \cup {t}}
  /\ Answer(t, <<>>)
  /\ UNCHANGED q

Leave(t) ==
  /\ waiting' = waiting \ {t}
  /\ hurried' = hurried \ {t}

Take(t) ==
  /\ t \in waiting
  /\ q # <<>>
  /\ q' = Tail(q)
  /\ Answer(t, <<Head(q)>>)
  /\ Leave(t)

GiveUp(t) ==
  /\ t \in hurried
  /\ Answer(t, <<>>)
  /\ Leave(t)
  /\ UNCHANGED q

\* A look at the newest element.
Newest(t) ==
  /\ t \notin waiting
  /\ Answer(t, IF q = <<>> THEN <<>> ELSE <<q[Len(q)]>>)
  /\ UNCHANGED <<q, waiting, hurried>>

\* A glance: the queue stays as it is; what is seen is not promised.
Glance(t) ==
  /\ t \notin waiting
  /\ \E s \in {<<>>} \cup {<<a>> : a \in Answers} : Answer(t, s)
  /\ UNCHANGED <<q, waiting, hurried>>

Empty ==
  /\ q' = <<>>
  /\ UNCHANGED <<waiting, hurried, got>>

BoundedNext ==
  \/ Empty
  \/ \E t \in Threads :
       \/ Ask(t) \/ Take(t) \/ GiveUp(t) \/ Newest(t) \/ Glance(t)
       \/ \E v \in Values : Offer(t, v)

BoundedSafety == BoundedInit /\ [][BoundedNext]_boundedVars

\* As long as there is an element and a taker, somebody is served.
BoundedSpec == BoundedSafety /\ WF_boundedVars(\E t \in Threads : Take(t))
=============================================================================
