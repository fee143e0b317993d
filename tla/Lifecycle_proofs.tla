--------------------------- MODULE Lifecycle_proofs ---------------------------
(***************************************************************************)
(* Theorems about Lifecycle, for any workers, connection objects, number   *)
(* of handles and number of calls: the types, that objects outlive the     *)
(* tasks, that no descriptor is lost and that the loop is prepared, by     *)
(* LifeInv; and that no handle is lost, by HandlesInv.                     *)
(***************************************************************************)
EXTENDS Lifecycle, SequenceTheorems, FiniteSetTheorems, TLAPS

\* The types, by the groups of variables that steps leave alone.
CallType == caller \in Callers /\ stage \in Stages /\ calls \in 0..(MaxCalls + 4)

PoolType ==
  /\ mPool \in {"none", "started", "broken"} /\ isClose \in BOOLEAN
  /\ queue \subseteq Conns
  /\ pc \in [Workers -> WorkerStages]
  /\ task \in [Workers -> Conns \cup {None}]

HandleType ==
  /\ guard \in [Workers -> Handles \cup {NULL, None}]
  /\ isblock \in BOOLEAN
  /\ conlist \in Seq(Handles \cup {NULL})
  /\ opened \in 0..ConNum /\ closed \subseteq Handles
  /\ msql \in [Conns -> Handles \cup {NULL}]
  /\ sql \in Handles \cup {NULL, None}

ListenType ==
  /\ users \in {"none", "live", "deleted"}
  /\ mLfd \in Fds /\ epollFd \in Fds /\ connEpfd \in Fds /\ open \subseteq Fds

LEMMA TypeParts == TypeOK <=> CallType /\ PoolType /\ HandleType /\ ListenType
BY Zenon DEF TypeOK, CallType, PoolType, HandleType, ListenType

\* What a worker in a task has in hand, and initAllResult().
HandInv ==
  /\ \A w \in Workers : pc[w] \in {"waiting", "stuck", "holding"} => task[w] \in Conns
  /\ \A w \in Workers : pc[w] = "holding" => guard[w] \in Handles \cup {NULL}
  /\ stage = "loaded" => sql \in Handles \cup {NULL}

\* The stages after the destructor has closed the descriptors.
Late == {"closing", "joining", "deleting", "exiting", "emptying", "gone"}

\* A set epoll_fd says that eventListen() went through; the destructor
\* resets both descriptors before anything else.
OpenInv ==
  /\ DescriptorsAccounted
  /\ epollFd # -1 => users = "live" /\ mLfd # -1 /\ connEpfd = epollFd
  /\ stage \in Late => epollFd = -1 /\ mLfd = -1
  /\ stage = "looping" => epollFd # -1

Stopped == \A w \in Workers : pc[w] \in {"none", "exited"}

\* Tasks come into being when there are objects, and when these are deleted
\* no worker runs any more.
UsersInv ==
  /\ mPool = "none" => Stopped
  /\ queue # {} \/ InTask # {} => users # "none"
  /\ stage = "deleting" => Stopped
  /\ users = "deleted" => Stopped /\ stage \in {"exiting", "emptying", "gone"}

\* How far main() is: each of its calls has succeeded before the next one.
MainInv ==
  caller = "main" /\ stage # "terminated" =>
    /\ stage \in {"calling", "pooling", "loaded", "looping"}
    /\ stage \in {"pooling", "loaded"} => calls = 2
    /\ stage = "looping" => calls = 4
    /\ calls = 0 => mPool = "none"
    /\ calls >= 1 => mPool = "started" /\ \A w \in Workers : pc[w] # "none"
    /\ calls >= 2 => isblock
    /\ calls >= 2 /\ stage # "pooling" => opened = ConNum

LifeInv == TypeOK /\ HandInv /\ OpenInv /\ UsersInv /\ MainInv
-----------------------------------------------------------------------------
LEMMA LifeInit == Init => LifeInv
<1> SUFFICES ASSUME Init PROVE LifeInv
  OBVIOUS
<1>1. <<>> \in Seq(Handles \cup {NULL})
  BY EmptySeq
<1>2. TypeOK
  <2>1. -1 \in Fds /\ 0 \in 0..(MaxCalls + 4) /\ 0 \in 0..ConNum
    BY LifecycleAssumption DEF Fds
  <2>2. conlist \in Seq(Handles \cup {NULL})
    BY <1>1, Zenon DEF Init
  <2>3. /\ task \in [Workers -> Conns \cup {None}]
        /\ guard \in [Workers -> Handles \cup {NULL, None}]
        /\ msql \in [Conns -> Handles \cup {NULL}]
        /\ pc \in [Workers -> WorkerStages]
    BY DEF Init, WorkerStages
  <2>4. isClose \in BOOLEAN /\ isblock \in BOOLEAN
    BY Zenon DEF Init
  <2>5. /\ caller \in Callers /\ stage \in Stages /\ calls \in 0..(MaxCalls + 4)
        /\ mPool \in {"none", "started", "broken"}
        /\ queue \subseteq Conns /\ opened \in 0..ConNum /\ closed \subseteq Handles
        /\ sql \in Handles \cup {NULL, None} /\ users \in {"none", "live", "deleted"}
        /\ mLfd \in Fds /\ epollFd \in Fds /\ connEpfd \in Fds /\ open \subseteq Fds
    BY <2>1 DEF Init, Stages
  <2> QED
    BY <2>2, <2>3, <2>4, <2>5, Zenon DEF TypeOK
<1>3. HandInv
  BY DEF Init, HandInv
<1>4. OpenInv
  BY DEF Init, OpenInv, DescriptorsAccounted, Late
<1>5. UsersInv
  BY DEF Init, UsersInv, Stopped, InTask
<1>6. MainInv
  BY DEF Init, MainInv
<1> QED
  BY <1>2, <1>3, <1>4, <1>5, <1>6 DEF LifeInv
-----------------------------------------------------------------------------
(* Types *)

\* The steps that leave the listener, the epoll set and the objects alone.
LEMMA OtherListenSteps ==
  Next => \/ EpollCtlFails \/ EventListen \/ CloseDescriptors \/ DeleteUsers
          \/ UNCHANGED listenVars
<1> SUFFICES ASSUME Next PROVE \/ EpollCtlFails \/ EventListen \/ CloseDescriptors
                               \/ DeleteUsers \/ UNCHANGED listenVars
  OBVIOUS
<1>1. CASE Begin
  BY <1>1 DEF Begin, ThreadPool, ThreadPoolFails, SqlPool, SqlPoolRefused, ListenFails,
     EpollCreateFails, EventLoop, EpollWaitFails, Destroy
<1>2. CASE Proceed
  BY <1>2 DEF Proceed, Connect, ConnectFails, GetConnection, InitAllResult, ClosePool,
     JoinAll, DestroyTest, DestroyHandle
<1>3. CASE \/ \E c \in Conns : HandleRead(c)
           \/ \E w \in Workers : Work(w) \/ Acquire(w)
  BY <1>3 DEF HandleRead, Work, Take, Acquire, Finish, Leave
<1> QED
  BY <1>1, <1>2, <1>3, Zenon DEF Next

\* Where closing the pool leads to.
LEMMA AfterClosePool ==
  ASSUME LifeInv, ClosePool
  PROVE  \E s \in {"deleting", "joining", "terminated"} :
           Goto(s) /\ (s = "deleting" <=> mPool = "none")
<1>1. mPool \in {"none", "started", "broken"}
  BY TypeParts DEF LifeInv, PoolType
<1>2. CASE mPool = "none"
  BY <1>2, Zenon DEF ClosePool
<1>3. CASE mPool = "started"
  BY <1>3, Zenon DEF ClosePool
<1>4. CASE mPool = "broken"
  BY <1>4, Zenon DEF ClosePool
<1> QED
  BY <1>1, <1>2, <1>3, <1>4

LEMMA CallStep == LifeInv /\ Next => CallType'
<1> SUFFICES ASSUME LifeInv, Next PROVE CallType'
  OBVIOUS
<1>0. CallType /\ MaxCalls \in Nat
  BY TypeParts, LifecycleAssumption DEF LifeInv
<1>1. ASSUME NEW op, NEW next \in Stages, Call(op, next) PROVE CallType'
  <2>1. calls < MaxCalls + 4
    <3>1. CASE caller = "main"
      <4>1. calls < Len(MainOrder)
        BY <1>1, <3>1, Zenon DEF Call, MayCall
      <4> QED
        BY <1>0, <4>1 DEF MainOrder, CallType
    <3>2. CASE caller = "test"
      <4>1. calls < Len(TestOrder)
        BY <1>1, <3>2, Zenon DEF Call, MayCall
      <4> QED
        BY <1>0, <4>1 DEF TestOrder, CallType
    <3>3. CASE caller = "any"
      <4>1. calls < MaxCalls
        BY <1>1, <3>3, Zenon DEF Call, MayCall
      <4> QED
        BY <1>0, <4>1 DEF CallType
    <3> QED
      BY <1>0, <3>1, <3>2, <3>3, Zenon DEF CallType, Callers
  <2> QED
    BY <1>0, <1>1, <2>1 DEF Call, CallType
<1>2. ASSUME NEW next \in Stages, Goto(next) PROVE CallType'
  BY <1>0, <1>2 DEF Goto, CallType
<1>3. Thrown \in Stages
  BY <1>0 DEF Thrown, CallType, Callers, Stages
<1>4. CASE Begin
  BY <1>1, <1>2, <1>3, <1>4 DEF Begin, ThreadPool, ThreadPoolFails, SqlPool,
     SqlPoolRefused, ListenFails, EpollCreateFails, EpollCtlFails, EventListen,
     EventLoop, EpollWaitFails, Destroy, Stages
<1>5. CASE UNCHANGED callVars
  BY <1>0, <1>5 DEF callVars, CallType
<1>6. CASE Proceed
  <2>1. ASSUME Connect \/ ConnectFails \/ GetConnection \/ CloseDescriptors \/ JoinAll
        PROVE  CallType'
    BY <1>2, <1>3, <1>5, <2>1 DEF Connect, ConnectFails, GetConnection,
       CloseDescriptors, JoinAll, Stages
  <2>2. ASSUME InitAllResult \/ DeleteUsers \/ DestroyTest \/ DestroyHandle
        PROVE  CallType'
    BY <1>2, <1>3, <2>2 DEF InitAllResult, DeleteUsers, DestroyTest, DestroyHandle, Stages
  <2>3. ASSUME ClosePool PROVE CallType'
    <3>1. PICK s \in {"deleting", "joining", "terminated"} : Goto(s)
      BY <2>3, AfterClosePool
    <3> QED
      BY <1>2, <3>1 DEF Stages
  <2> QED
    BY <1>6, <2>1, <2>2, <2>3, Zenon DEF Proceed
<1>7. CASE \E w \in Workers : Work(w) \/ Acquire(w)
  BY <1>5, <1>7 DEF Work, Take, Acquire, Finish, Leave
<1>8. CASE \E c \in Conns : HandleRead(c)
  BY <1>5, <1>8 DEF HandleRead
<1> QED
  BY <1>4, <1>6, <1>7, <1>8, Zenon DEF Next

\* The steps that leave the pool alone.
LEMMA OtherPoolSteps ==
  Next => \/ ThreadPool \/ ThreadPoolFails \/ SqlPool \/ ClosePool \/ JoinAll
          \/ \E c \in Conns : HandleRead(c)
          \/ \E w \in Workers : Work(w) \/ Acquire(w)
          \/ UNCHANGED poolVars
<1> SUFFICES ASSUME Next, ~ThreadPool, ~ThreadPoolFails, ~SqlPool, ~ClosePool, ~JoinAll,
                    ~\E c \in Conns : HandleRead(c),
                    ~\E w \in Workers : Work(w) \/ Acquire(w)
             PROVE  UNCHANGED poolVars
  OBVIOUS
<1>1. CASE Begin
  BY <1>1 DEF Begin, SqlPoolRefused, ListenFails, EpollCreateFails, EpollCtlFails,
     EventListen, EventLoop, EpollWaitFails, Destroy
<1>2. CASE Proceed
  BY <1>2 DEF Proceed, Connect, ConnectFails, GetConnection, InitAllResult,
     CloseDescriptors, DeleteUsers, DestroyTest, DestroyHandle
<1> QED
  BY <1>1, <1>2, Zenon DEF Next

LEMMA PoolStep == LifeInv /\ Next => PoolType'
<1> SUFFICES ASSUME LifeInv, Next PROVE PoolType'
  OBVIOUS
<1>0. PoolType
  BY TypeParts DEF LifeInv
<1>1. CASE UNCHANGED poolVars
  BY <1>0, <1>1, Zenon DEF poolVars, PoolType
<1>2. ASSUME NEW p, pc' = p, p \in [Workers -> WorkerStages],
             mPool' \in {"none", "started", "broken"}, isClose' \in BOOLEAN,
             UNCHANGED <<queue, task>>
      PROVE  PoolType'
  BY <1>0, <1>2, Zenon DEF PoolType
<1>3. CASE ThreadPool
  <2>1. CASE mPool = "none"
    <3>1. /\ pc' = [w \in Workers |-> "idle"] /\ mPool' = "started"
          /\ isClose' = FALSE /\ UNCHANGED <<queue, task>>
      BY <1>3, <2>1, Zenon DEF ThreadPool
    <3>2. [w \in Workers |-> "idle"] \in [Workers -> WorkerStages]
      BY DEF WorkerStages
    <3> QED
      BY <1>2, <3>1, <3>2
  <2>2. CASE mPool # "none"
    BY <1>1, <1>3, <2>2, Zenon DEF ThreadPool, poolVars
  <2> QED
    BY <2>1, <2>2
<1>4. CASE ThreadPoolFails
  <2>1. PICK S \in SUBSET Workers :
          pc' = [w \in Workers |-> IF w \in S THEN "idle" ELSE "none"]
    BY <1>4, Zenon DEF ThreadPoolFails
  <2>2. [w \in Workers |-> IF w \in S THEN "idle" ELSE "none"]
          \in [Workers -> WorkerStages]
    BY DEF WorkerStages
  <2>3. mPool' = "broken" /\ isClose' = FALSE /\ UNCHANGED <<queue, task>>
    BY <1>4, Zenon DEF ThreadPoolFails
  <2> QED
    BY <1>2, <2>1, <2>2, <2>3
<1>5. CASE SqlPool
  <2>1. PICK S \in SUBSET Waiting :
          pc' = [w \in Workers |-> IF w \in S THEN "stuck" ELSE pc[w]]
    BY <1>5, Zenon DEF SqlPool
  <2>2. [w \in Workers |-> IF w \in S THEN "stuck" ELSE pc[w]]
          \in [Workers -> WorkerStages]
    BY <1>0 DEF PoolType, WorkerStages
  <2>3. UNCHANGED <<mPool, isClose, queue, task>>
    BY <1>5, Zenon DEF SqlPool
  <2>4. mPool \in {"none", "started", "broken"} /\ isClose \in BOOLEAN
    BY <1>0, Zenon DEF PoolType
  <2> QED
    BY <1>2, <2>1, <2>2, <2>3, <2>4, Zenon
<1>6. CASE ClosePool \/ JoinAll
  BY <1>0, <1>6, Zenon DEF ClosePool, JoinAll, PoolType
<1>7. ASSUME NEW c \in Conns, HandleRead(c) PROVE PoolType'
  BY <1>0, <1>7 DEF HandleRead, PoolType
<1>8. ASSUME NEW w \in Workers, Work(w) \/ Acquire(w) PROVE PoolType'
  <2>1. CASE Finish(w)
    BY <1>0, <2>1 DEF Finish, PoolType, WorkerStages
  <2>2. CASE Leave(w)
    BY <1>0, <2>2 DEF Leave, PoolType, WorkerStages
  <2>3. ASSUME NEW c \in Conns, Take(w, c) PROVE PoolType'
    BY <1>0, <2>3 DEF Take, PoolType, WorkerStages
  <2>4. CASE Acquire(w)
    BY <1>0, <2>4 DEF Acquire, PoolType, WorkerStages
  <2> QED
    BY <1>8, <2>1, <2>2, <2>3, <2>4, Zenon DEF Work
<1> QED
  BY <1>1, <1>3, <1>4, <1>5, <1>6, <1>7, <1>8, OtherPoolSteps, Zenon

LEMMA HandleStep == LifeInv /\ Next => HandleType'
<1> SUFFICES ASSUME LifeInv, Next PROVE HandleType'
  OBVIOUS
<1>0. HandleType /\ HandInv /\ PoolType
  BY TypeParts DEF LifeInv
<1>1. CASE UNCHANGED handleVars
  BY <1>0, <1>1, Zenon DEF handleVars, HandleType
<1>2. ConNum \in Nat /\ NULL \in Handles \cup {NULL}
  BY LifecycleAssumption
<1>3. CASE SqlPool
  <2>1. isblock' = TRUE /\ UNCHANGED <<guard, conlist, opened, closed, msql, sql>>
    BY <1>3, Zenon DEF SqlPool
  <2> QED
    BY <1>0, <2>1, Zenon DEF HandleType
<1>4. ASSUME NEW q \in Seq(Handles \cup {NULL}), conlist' = q,
             NEW g \in [Workers -> Handles \cup {NULL, None}], guard' = g,
             NEW m \in [Conns -> Handles \cup {NULL}], msql' = m,
             opened' \in 0..ConNum, closed' \subseteq Handles,
             sql' \in Handles \cup {NULL, None}, isblock' = isblock
      PROVE  HandleType'
  BY <1>0, <1>4, Zenon DEF HandleType
<1>5. /\ conlist \in Seq(Handles \cup {NULL})
      /\ guard \in [Workers -> Handles \cup {NULL, None}]
      /\ msql \in [Conns -> Handles \cup {NULL}]
      /\ opened \in 0..ConNum /\ closed \subseteq Handles
      /\ sql \in Handles \cup {NULL, None}
  BY <1>0, Zenon DEF HandleType
<1>6. conlist # <<>> => /\ Head(conlist) \in Handles \cup {NULL}
                        /\ Tail(conlist) \in Seq(Handles \cup {NULL})
  BY <1>5, HeadTailProperties
<1>7. CASE Connect
  <2>1. opened + 1 \in 0..ConNum /\ opened + 1 \in Handles
    BY <1>2, <1>5, <1>7 DEF Connect, ToConnect, Handles
  <2>2. /\ opened' = opened + 1 /\ conlist' = Append(conlist, opened + 1)
        /\ UNCHANGED <<guard, isblock, closed, msql, sql>>
    BY <1>7, Zenon DEF Connect
  <2>3. Append(conlist, opened + 1) \in Seq(Handles \cup {NULL})
    BY <1>5, <2>1, AppendProperties
  <2> QED
    BY <1>4, <1>5, <2>1, <2>2, <2>3, Zenon
<1>8. CASE GetConnection
  <2>1. /\ conlist # <<>> /\ conlist' = Tail(conlist) /\ sql' = Head(conlist)
        /\ UNCHANGED <<guard, isblock, opened, closed, msql>>
    BY <1>8, Zenon DEF GetConnection
  <2> QED
    BY <1>4, <1>5, <1>6, <2>1, Zenon
<1>9. CASE InitAllResult
  <2>1. sql \in Handles \cup {NULL}
    BY <1>0, <1>9, Zenon DEF InitAllResult, HandInv
  <2>2. Append(conlist, sql) \in Seq(Handles \cup {NULL})
    BY <1>5, <2>1, AppendProperties
  <2>3. conlist' \in Seq(Handles \cup {NULL})
    BY <1>5, <1>9, <2>2, Zenon DEF InitAllResult, GivenBack
  <2>4. sql' = None /\ UNCHANGED <<guard, isblock, opened, closed, msql>>
    BY <1>9, Zenon DEF InitAllResult
  <2> QED
    BY <1>4, <1>5, <2>3, <2>4, Zenon
<1>10. CASE DestroyHandle
  <2>1. /\ conlist # <<>> /\ conlist' = Tail(conlist)
        /\ closed' = closed \cup ({Head(conlist)} \ {NULL})
        /\ UNCHANGED <<guard, isblock, opened, msql, sql>>
    BY <1>10, Zenon DEF DestroyHandle
  <2>2. closed' \subseteq Handles
    BY <1>5, <1>6, <2>1
  <2> QED
    BY <1>4, <1>5, <1>6, <2>1, <2>2, Zenon
<1>11. ASSUME NEW w \in Workers, Acquire(w) PROVE HandleType'
  <2>1. /\ conlist # <<>> /\ conlist' = Tail(conlist) /\ pc[w] = "waiting"
        /\ guard' = [guard EXCEPT ![w] = msql[task[w]]]
        /\ msql' = [msql EXCEPT ![task[w]] = Head(conlist)]
        /\ UNCHANGED <<isblock, opened, closed, sql>>
    BY <1>11, Zenon DEF Acquire
  <2>2. task[w] \in Conns
    BY <1>0, <2>1 DEF HandInv
  <2>3. [guard EXCEPT ![w] = msql[task[w]]] \in [Workers -> Handles \cup {NULL, None}]
    BY <1>5, <2>2
  <2>4. [msql EXCEPT ![task[w]] = Head(conlist)] \in [Conns -> Handles \cup {NULL}]
    BY <1>5, <1>6, <2>1
  <2> QED
    BY <1>4, <1>5, <1>6, <2>1, <2>3, <2>4, Zenon
<1>12. ASSUME NEW w \in Workers, Finish(w) PROVE HandleType'
  <2>1. /\ conlist' = Append(conlist, guard[w]) /\ pc[w] = "holding"
        /\ guard' = [guard EXCEPT ![w] = None]
        /\ UNCHANGED <<isblock, opened, closed, msql, sql>>
    BY <1>12, Zenon DEF Finish
  <2>2. guard[w] \in Handles \cup {NULL}
    BY <1>0, <2>1, Zenon DEF HandInv
  <2>3. Append(conlist, guard[w]) \in Seq(Handles \cup {NULL})
    BY <1>5, <2>2, AppendProperties
  <2>4. [guard EXCEPT ![w] = None] \in [Workers -> Handles \cup {NULL, None}]
    BY <1>5
  <2> QED
    BY <1>4, <1>5, <2>1, <2>3, <2>4, Zenon
<1>13. ASSUME Begin, ~SqlPool PROVE UNCHANGED handleVars
  BY <1>13 DEF Begin, ThreadPool, ThreadPoolFails, SqlPoolRefused, ListenFails,
     EpollCreateFails, EpollCtlFails, EventListen, EventLoop, EpollWaitFails, Destroy
<1>14. ASSUME Proceed, ~Connect, ~GetConnection, ~InitAllResult, ~DestroyHandle
       PROVE  UNCHANGED handleVars
  BY <1>14 DEF Proceed, ConnectFails, CloseDescriptors, ClosePool, JoinAll,
     DeleteUsers, DestroyTest
<1>15. ASSUME \/ \E c \in Conns : HandleRead(c)
              \/ \E w \in Workers : Leave(w) \/ \E c \in Conns : Take(w, c)
       PROVE  UNCHANGED handleVars
  BY <1>15 DEF HandleRead, Leave, Take
<1> QED
  BY <1>1, <1>3, <1>7, <1>8, <1>9, <1>10, <1>11, <1>12, <1>13, <1>14, <1>15, Zenon
     DEF Next, Work

LEMMA ListenStep == LifeInv /\ Next => ListenType'
<1> SUFFICES ASSUME LifeInv, Next PROVE ListenType'
  OBVIOUS
<1>0. ListenType /\ CallType
  BY TypeParts DEF LifeInv
<1>1. CASE UNCHANGED listenVars
  BY <1>0, <1>1, Zenon DEF listenVars, ListenType
<1>2. Lfd \in Fds /\ Epfd \in Fds /\ -1 \in Fds
  BY <1>0, LifecycleAssumption DEF CallType, Fds, Lfd, Epfd
<1>3. CASE EpollCtlFails \/ EventListen
  BY <1>0, <1>2, <1>3 DEF EpollCtlFails, EventListen, ListenType
<1>4. CASE CloseDescriptors \/ DeleteUsers
  BY <1>0, <1>2, <1>4 DEF CloseDescriptors, DeleteUsers, ListenType
<1>5. ASSUME ~EpollCtlFails, ~EventListen, ~CloseDescriptors, ~DeleteUsers
      PROVE  UNCHANGED listenVars
  BY <1>5, OtherListenSteps
<1> QED
  BY <1>1, <1>3, <1>4, <1>5
-----------------------------------------------------------------------------
(* The descriptors *)

\* What brings the main thread to the stages the invariants speak of.
LEMMA StageMove ==
  ASSUME LifeInv, Next
  PROVE  /\ stage' \in Late => stage \in Late \/ CloseDescriptors
         /\ stage' = "looping" => stage = "looping" \/ (EventLoop /\ epollFd # -1)
         /\ stage' = "deleting" =>
              stage = "deleting" \/ (ClosePool /\ mPool = "none") \/ JoinAll
         /\ stage \in {"exiting", "emptying", "gone"} =>
              stage' \in {"exiting", "emptying", "gone"}
<1>1. Thrown \in {"terminated", "unwinding", "calling"}
  <2>1. caller \in Callers
    BY TypeParts DEF LifeInv, CallType
  <2> QED
    BY <2>1 DEF Thrown, Callers
<1>2. CASE Begin
  BY <1>1, <1>2 DEF Begin, ThreadPool, ThreadPoolFails, SqlPool, SqlPoolRefused,
     ListenFails, EpollCreateFails, EpollCtlFails, EventListen, EventLoop,
     EpollWaitFails, Destroy, Call, Goto, Late
<1>3. CASE ClosePool
  <2>1. PICK s \in {"deleting", "joining", "terminated"} :
          Goto(s) /\ (s = "deleting" <=> mPool = "none")
    BY <1>3, AfterClosePool
  <2> QED
    BY <1>3, <2>1 DEF ClosePool, Goto, Late
<1>4. CASE Proceed /\ ~ClosePool
  <2>1. CASE Connect \/ ConnectFails \/ GetConnection \/ InitAllResult
    BY <1>1, <2>1 DEF Connect, ConnectFails, GetConnection, InitAllResult, Goto,
       callVars, Late
  <2>2. CASE CloseDescriptors \/ JoinAll \/ DeleteUsers \/ DestroyTest \/ DestroyHandle
    BY <2>2 DEF CloseDescriptors, JoinAll, DeleteUsers, DestroyTest, DestroyHandle,
       Goto, Late
  <2> QED
    BY <1>4, <2>1, <2>2, Zenon DEF Proceed
<1>5. CASE \/ \E c \in Conns : HandleRead(c)
           \/ \E w \in Workers : Work(w) \/ Acquire(w)
  BY <1>5 DEF HandleRead, Work, Take, Acquire, Finish, Leave, callVars
<1> QED
  BY <1>2, <1>3, <1>4, <1>5, Zenon DEF Next

LEMMA OpenStep == LifeInv /\ Next => OpenInv'
<1> SUFFICES ASSUME LifeInv, Next PROVE OpenInv'
  OBVIOUS
<1>0. OpenInv /\ DescriptorsAccounted /\ calls \in Nat
  BY TypeParts, LifecycleAssumption DEF LifeInv, OpenInv, CallType
<1>1. CASE EventListen
  <2>1. epollFd = -1 /\ mLfd = -1 /\ open = {}
    BY <1>0, <1>1 DEF EventListen, OpenInv, DescriptorsAccounted
  <2>2. Lfd # -1 /\ Epfd # -1
    BY <1>0 DEF Lfd, Epfd
  <2>3. /\ mLfd' = Lfd /\ epollFd' = Epfd /\ connEpfd' = Epfd /\ open' = open \cup {Lfd, Epfd}
        /\ users' = "live" /\ stage' = "calling"
    BY <1>1 DEF EventListen, Call
  <2> QED
    BY <2>1, <2>2, <2>3 DEF OpenInv, DescriptorsAccounted, Late
<1>2. CASE EpollCtlFails
  <2>1. epollFd = -1 /\ mLfd = -1 /\ open = {}
    BY <1>0, <1>2 DEF EpollCtlFails, OpenInv, DescriptorsAccounted
  <2>2. Lfd # -1
    BY <1>0 DEF Lfd
  <2>3. mLfd' = Lfd /\ epollFd' = -1 /\ open' = open \cup {Lfd}
    BY <1>2, <2>1 DEF EpollCtlFails
  <2>4. stage = "calling"
    BY <1>2 DEF EpollCtlFails, Call
  <2>5. ~CloseDescriptors /\ ~EventLoop
    <3>1. stage = "unwinding" \/ UNCHANGED mLfd => ~EpollCtlFails
      BY <2>1, <2>2, <2>3, <2>4
    <3> QED
      BY <1>2, <3>1 DEF CloseDescriptors, EventLoop, listenVars
  <2>6. stage' \notin Late /\ stage' # "looping"
    BY <2>4, <2>5, StageMove DEF Late
  <2> QED
    BY <2>1, <2>2, <2>3, <2>6 DEF OpenInv, DescriptorsAccounted
<1>3. CASE CloseDescriptors
  BY <1>0, <1>3 DEF CloseDescriptors, Goto, OpenInv, DescriptorsAccounted, Late
<1>4. CASE DeleteUsers
  BY <1>0, <1>4 DEF DeleteUsers, Goto, OpenInv, DescriptorsAccounted, Late
<1>5. CASE UNCHANGED listenVars /\ ~CloseDescriptors
  <2>1. UNCHANGED <<users, mLfd, epollFd, connEpfd, open>>
    BY <1>5 DEF listenVars
  <2> QED
    BY <1>0, <1>5, <2>1, StageMove DEF OpenInv, DescriptorsAccounted
<1> QED
  BY <1>1, <1>2, <1>3, <1>4, <1>5, OtherListenSteps, Zenon
-----------------------------------------------------------------------------
(* Workers and objects *)

\* Only a start of the pool gives life to a worker.
LEMMA StoppedStays ==
  ASSUME LifeInv, Next, Stopped, ~ThreadPool, ~ThreadPoolFails
  PROVE  Stopped'
<1>1. CASE SqlPool
  <2>1. PICK S \in SUBSET Waiting :
          pc' = [w \in Workers |-> IF w \in S THEN "stuck" ELSE pc[w]]
    BY <1>1, Zenon DEF SqlPool
  <2>2. Waiting = {}
    BY DEF Waiting, Stopped
  <2> QED
    BY <2>1, <2>2 DEF Stopped
<1>2. CASE ClosePool \/ JoinAll \/ \E c \in Conns : HandleRead(c)
  BY <1>2 DEF ClosePool, JoinAll, HandleRead, Stopped
<1>3. ASSUME NEW w \in Workers PROVE ~Work(w) /\ ~Acquire(w)
  BY <1>3 DEF Work, Finish, Leave, Take, Acquire, Stopped
<1>4. CASE UNCHANGED poolVars
  BY <1>4 DEF poolVars, Stopped
<1> QED
  BY <1>1, <1>2, <1>3, <1>4, OtherPoolSteps

LEMMA UsersStep == LifeInv /\ Next => UsersInv'
<1> SUFFICES ASSUME LifeInv, Next PROVE UsersInv'
  OBVIOUS
<1>0. UsersInv /\ PoolType /\ ListenType /\ OpenInv
  BY TypeParts DEF LifeInv
<1>1. mPool' = "none" => Stopped'
  <2>1. CASE ThreadPool \/ ThreadPoolFails
    BY <2>1 DEF ThreadPool, ThreadPoolFails
  <2>2. CASE JoinAll
    BY <2>2 DEF JoinAll, Joined, Stopped
  <2>3. ASSUME ~ThreadPool, ~ThreadPoolFails, ~JoinAll PROVE mPool' = mPool
    <3>1. CASE SqlPool \/ ClosePool \/ \E c \in Conns : HandleRead(c)
      BY <3>1, Zenon DEF SqlPool, ClosePool, HandleRead
    <3>2. CASE \E w \in Workers : Work(w) \/ Acquire(w)
      BY <3>2 DEF Work, Take, Finish, Leave, Acquire
    <3>3. CASE UNCHANGED poolVars
      BY <3>3 DEF poolVars
    <3> QED
      BY <2>3, <3>1, <3>2, <3>3, OtherPoolSteps
  <2> QED
    BY <1>0, <2>1, <2>2, <2>3, StoppedStays DEF UsersInv
<1>2. users # "none" => users' # "none"
  <2>1. CASE EventListen \/ DeleteUsers
    BY <2>1 DEF EventListen, DeleteUsers
  <2>2. CASE EpollCtlFails \/ CloseDescriptors
    BY <2>2 DEF EpollCtlFails, CloseDescriptors
  <2>3. CASE UNCHANGED listenVars
    BY <2>3 DEF listenVars
  <2> QED
    BY <2>1, <2>2, <2>3, OtherListenSteps
<1>3. queue' # {} \/ InTask' # {} => users' # "none"
  <2>1. CASE ThreadPool \/ ThreadPoolFails
    <3>1. queue' = queue /\ \A w \in Workers : pc'[w] \in {"idle", "none"} \/ pc' = pc
      BY <2>1, Zenon DEF ThreadPool, ThreadPoolFails
    <3>2. InTask' \subseteq InTask
      BY <3>1 DEF InTask
    <3> QED
      BY <1>0, <1>2, <3>1, <3>2 DEF UsersInv
  <2>2. CASE SqlPool
    <3>1. PICK S \in SUBSET Waiting :
            pc' = [w \in Workers |-> IF w \in S THEN "stuck" ELSE pc[w]]
      BY <2>2, Zenon DEF SqlPool
    <3>2. InTask' \subseteq InTask
      BY <3>1 DEF InTask, Waiting
    <3>3. queue' = queue
      BY <2>2, Zenon DEF SqlPool
    <3> QED
      BY <1>0, <1>2, <3>2, <3>3 DEF UsersInv
  <2>3. CASE ClosePool \/ JoinAll
    BY <1>0, <1>2, <2>3 DEF ClosePool, JoinAll, UsersInv, InTask
  <2>4. CASE \E c \in Conns : HandleRead(c)
    <3>1. users = "live" /\ UNCHANGED listenVars
      BY <1>0, <2>4 DEF HandleRead, OpenInv
    <3> QED
      BY <3>1 DEF listenVars
  <2>5. ASSUME NEW w \in Workers, Work(w) \/ Acquire(w)
        PROVE  users' # "none" \/ (queue' = {} /\ InTask' = {})
    <3>1. users' = users
      BY <2>5 DEF Work, Take, Finish, Leave, Acquire, listenVars
    <3>2. CASE Leave(w)
      BY <1>0, <3>1, <3>2 DEF Leave, UsersInv, InTask, PoolType
    <3>3. ASSUME Finish(w) \/ Acquire(w) \/ \E c \in Conns : Take(w, c)
          PROVE  queue # {} \/ InTask # {}
      BY <3>3 DEF Finish, Acquire, Take, InTask
    <3> QED
      BY <1>0, <2>5, <3>1, <3>2, <3>3 DEF Work, UsersInv
  <2>6. CASE UNCHANGED poolVars
    BY <1>0, <1>2, <2>6 DEF poolVars, UsersInv, InTask
  <2> QED
    BY <2>1, <2>2, <2>3, <2>4, <2>5, <2>6, OtherPoolSteps, Zenon
<1>4. stage' = "deleting" => Stopped'
  <2>1. CASE JoinAll
    BY <2>1 DEF JoinAll, Joined, Stopped
  <2>2. ASSUME stage = "deleting" \/ ClosePool PROVE ~ThreadPool /\ ~ThreadPoolFails
    BY <2>2 DEF ClosePool, ThreadPool, ThreadPoolFails, Call
  <2> QED
    BY <1>0, <2>1, <2>2, StageMove, StoppedStays DEF UsersInv
<1>5. users' = "deleted" => Stopped' /\ stage' \in {"exiting", "emptying", "gone"}
  <2>1. CASE DeleteUsers
    <3>1. Stopped /\ ~ThreadPool /\ ~ThreadPoolFails
      BY <1>0, <2>1 DEF DeleteUsers, UsersInv, ThreadPool, ThreadPoolFails, Call
    <3>2. stage' \in {"exiting", "gone"}
      BY <2>1 DEF DeleteUsers, Goto
    <3> QED
      BY <3>1, <3>2, StoppedStays
  <2>2. ASSUME users' = "deleted", ~DeleteUsers PROVE users = "deleted"
    BY <2>2, OtherListenSteps DEF EpollCtlFails, EventListen, CloseDescriptors, listenVars
  <2>3. ASSUME users = "deleted" PROVE Stopped /\ ~ThreadPool /\ ~ThreadPoolFails
    BY <1>0, <2>3 DEF UsersInv, ThreadPool, ThreadPoolFails, Call
  <2> QED
    BY <1>0, <2>1, <2>2, <2>3, StageMove, StoppedStays DEF UsersInv
<1> QED
  BY <1>1, <1>3, <1>4, <1>5 DEF UsersInv

LEMMA HandStep == LifeInv /\ Next => HandInv'
<1> SUFFICES ASSUME LifeInv, Next PROVE HandInv'
  OBVIOUS
<1>0. HandInv /\ PoolType /\ HandleType
  BY TypeParts DEF LifeInv
<1>1. stage' = "loaded" => sql' \in Handles \cup {NULL}
  <2>1. CASE GetConnection
    <3>1. conlist # <<>> /\ sql' = Head(conlist)
      BY <2>1, Zenon DEF GetConnection
    <3>2. conlist \in Seq(Handles \cup {NULL})
      BY <1>0, Zenon DEF HandleType
    <3> QED
      BY <3>1, <3>2, HeadTailProperties
  <2>2. ASSUME stage' = "loaded", ~GetConnection
        PROVE  stage = "loaded" /\ sql' = sql
    <3>1. Thrown # "loaded"
      BY TypeParts DEF LifeInv, CallType, Thrown, Callers
    <3>2. ~Begin
      BY <2>2, <3>1 DEF Begin, ThreadPool, ThreadPoolFails, SqlPool, SqlPoolRefused,
         ListenFails, EpollCreateFails, EpollCtlFails, EventListen, EventLoop,
         EpollWaitFails, Destroy, Call, Goto
    <3>3. ~ClosePool
      BY <2>2, AfterClosePool DEF Goto
    <3>4. ~Proceed
      BY <2>2, <3>1, <3>3 DEF Proceed, Connect, ConnectFails, InitAllResult,
         CloseDescriptors, JoinAll, DeleteUsers, DestroyTest, DestroyHandle, Goto, callVars
    <3>5. CASE \/ \E c \in Conns : HandleRead(c)
               \/ \E w \in Workers : Work(w) \/ Acquire(w)
      BY <2>2, <3>5 DEF HandleRead, Work, Take, Acquire, Finish, Leave, callVars, handleVars
    <3> QED
      BY <3>2, <3>4, <3>5, Zenon DEF Next
  <2> QED
    BY <1>0, <2>1, <2>2 DEF HandInv
<1>2. ASSUME NEW w \in Workers
      PROVE  /\ pc'[w] \in {"waiting", "stuck", "holding"} => task'[w] \in Conns
             /\ pc'[w] = "holding" => guard'[w] \in Handles \cup {NULL}
  <2>1. CASE ThreadPool \/ ThreadPoolFails
    <3>1. pc'[w] \in {"idle", "none"} \/ pc' = pc
      BY <2>1, Zenon DEF ThreadPool, ThreadPoolFails
    <3>2. task' = task /\ guard' = guard
      BY <2>1 DEF ThreadPool, ThreadPoolFails, handleVars
    <3> QED
      BY <1>0, <3>1, <3>2 DEF HandInv
  <2>2. CASE SqlPool
    <3>1. PICK S \in SUBSET Waiting :
            pc' = [v \in Workers |-> IF v \in S THEN "stuck" ELSE pc[v]]
      BY <2>2, Zenon DEF SqlPool
    <3>2. task' = task /\ guard' = guard
      BY <2>2, Zenon DEF SqlPool
    <3> QED
      BY <1>0, <3>1, <3>2 DEF HandInv, Waiting
  <2>3. CASE ClosePool \/ JoinAll \/ \E c \in Conns : HandleRead(c)
    BY <1>0, <2>3 DEF ClosePool, JoinAll, HandleRead, handleVars, HandInv
  <2>4. ASSUME NEW v \in Workers, Work(v) \/ Acquire(v)
        PROVE  /\ pc'[w] \in {"waiting", "stuck", "holding"} => task'[w] \in Conns
               /\ pc'[w] = "holding" => guard'[w] \in Handles \cup {NULL}
    <3>1. CASE Leave(v)
      BY <1>0, <3>1 DEF Leave, handleVars, HandInv, PoolType
    <3>2. CASE Finish(v)
      BY <1>0, <3>2 DEF Finish, HandInv, PoolType, HandleType
    <3>3. CASE Acquire(v)
      <4>1. task[v] \in Conns /\ msql[task[v]] \in Handles \cup {NULL}
        BY <1>0, <3>3 DEF Acquire, HandInv, HandleType
      <4> QED
        BY <1>0, <3>3, <4>1 DEF Acquire, HandInv, PoolType, HandleType
    <3>4. ASSUME NEW c \in Conns, Take(v, c)
          PROVE  /\ pc'[w] \in {"waiting", "stuck", "holding"} => task'[w] \in Conns
                 /\ pc'[w] = "holding" => guard'[w] \in Handles \cup {NULL}
      BY <1>0, <3>4 DEF Take, handleVars, HandInv, PoolType
    <3> QED
      BY <2>4, <3>1, <3>2, <3>3, <3>4, Zenon DEF Work
  <2>5. CASE UNCHANGED poolVars /\ (Begin \/ Proceed) /\ ~SqlPool
    <3>1. guard' = guard
      BY <2>5 DEF Begin, Proceed, ThreadPool, ThreadPoolFails, SqlPoolRefused, ListenFails,
         EpollCreateFails, EpollCtlFails, EventListen, EventLoop, EpollWaitFails, Destroy,
         Connect, ConnectFails, GetConnection, InitAllResult, CloseDescriptors, ClosePool,
         JoinAll, DeleteUsers, DestroyTest, DestroyHandle, handleVars
    <3> QED
      BY <1>0, <2>5, <3>1 DEF poolVars, HandInv
  <2> QED
    BY <2>1, <2>2, <2>3, <2>4, <2>5, OtherPoolSteps, Zenon DEF Next
<1> QED
  BY <1>1, <1>2 DEF HandInv
-----------------------------------------------------------------------------
(* main() *)

LEMMA MainCalls ==
  ASSUME LifeInv, caller = "main", NEW op, NEW next, Call(op, next)
  PROVE  /\ calls \in 0..3 /\ op = MainOrder[calls + 1]
         /\ stage = "calling" /\ calls' = calls + 1 /\ stage' = next /\ caller' = caller
<1>1. calls \in Nat
  BY TypeParts, LifecycleAssumption DEF LifeInv, CallType
<1>2. calls < Len(MainOrder) /\ MainOrder[calls + 1] = op
  BY Zenon DEF Call, MayCall
<1> QED
  BY <1>1, <1>2 DEF Call, MainOrder

\* The caller never changes, and nothing happens after the process has ended.
LEMMA CallerStays == Next => caller' = caller /\ stage # "terminated"
<1> SUFFICES ASSUME Next PROVE caller' = caller /\ stage # "terminated"
  OBVIOUS
<1>1. CASE Begin
  BY <1>1 DEF Begin, ThreadPool, ThreadPoolFails, SqlPool, SqlPoolRefused, ListenFails,
     EpollCreateFails, EpollCtlFails, EventListen, EventLoop, EpollWaitFails, Destroy,
     Call, Goto
<1>2. CASE Proceed
  BY <1>2 DEF Proceed, Connect, ConnectFails, GetConnection, InitAllResult, ClosePool,
     CloseDescriptors, JoinAll, DeleteUsers, DestroyTest, DestroyHandle, Goto, callVars
<1>3. CASE \/ \E c \in Conns : HandleRead(c)
           \/ \E w \in Workers : Work(w) \/ Acquire(w)
  BY <1>3 DEF HandleRead, Work, Take, Acquire, Finish, Leave, Alive, callVars
<1> QED
  BY <1>1, <1>2, <1>3, Zenon DEF Next

\* A worker that exists goes on existing.
LEMMA BornStays ==
  ASSUME LifeInv, Next, ~ThreadPool, ~ThreadPoolFails,
         NEW w \in Workers, pc[w] # "none"
  PROVE  pc'[w] # "none"
<1>0. PoolType
  BY TypeParts DEF LifeInv
<1>1. CASE SqlPool
  <2>1. PICK S \in SUBSET Waiting :
          pc' = [v \in Workers |-> IF v \in S THEN "stuck" ELSE pc[v]]
    BY <1>1, Zenon DEF SqlPool
  <2> QED
    BY <2>1
<1>2. CASE ClosePool \/ JoinAll \/ \E c \in Conns : HandleRead(c)
  BY <1>2 DEF ClosePool, JoinAll, HandleRead
<1>3. ASSUME NEW v \in Workers, Work(v) \/ Acquire(v) PROVE pc'[w] # "none"
  BY <1>0, <1>3 DEF Work, Finish, Leave, Take, Acquire, PoolType
<1>4. CASE UNCHANGED poolVars
  BY <1>4 DEF poolVars
<1> QED
  BY <1>1, <1>2, <1>3, <1>4, OtherPoolSteps

MainDone ==
  /\ calls \in Nat
  /\ stage \in {"calling", "pooling", "loaded", "looping"}
  /\ stage \in {"pooling", "loaded"} => calls = 2
  /\ stage = "looping" => calls = 4
  /\ calls = 0 => mPool = "none"
  /\ calls >= 1 => mPool = "started"
  /\ calls >= 2 /\ stage # "pooling" => opened = ConNum

\* The part of MainInv about numbers and stages.
LEMMA MainProgress ==
  ASSUME LifeInv, Next, caller = "main", MainDone, stage' # "terminated"
  PROVE  /\ MainDone'
         /\ calls = 0 /\ calls' # 0 => ThreadPool
         /\ calls = 1 /\ calls' # 1 => SqlPool
         /\ ThreadPool \/ ThreadPoolFails => calls = 0 /\ ThreadPool
<1>1. Thrown = "terminated"
  BY Zenon DEF Thrown
<1>2. MainOrder[1] = "thread_pool" /\ MainOrder[2] = "sql_pool"
      /\ MainOrder[3] = "eventListen" /\ MainOrder[4] = "eventLoop"
  BY DEF MainOrder
<1>3. ASSUME NEW op, Call(op, Thrown) PROVE FALSE
  BY <1>1, <1>3 DEF Call
<1>4. ~ThreadPoolFails /\ ~SqlPoolRefused /\ ~ListenFails /\ ~EpollCreateFails
      /\ ~EpollCtlFails
  BY <1>3 DEF ThreadPoolFails, SqlPoolRefused, ListenFails, EpollCreateFails, EpollCtlFails
<1>5. ThreadPool => calls = 0
  BY <1>2, MainCalls DEF ThreadPool
<1>6. CASE ThreadPool
  <2>1. calls = 0 /\ calls' = 1 /\ stage = "calling" /\ stage' = "calling"
    BY <1>2, <1>6, MainCalls DEF ThreadPool
  <2>2. mPool' = "started"
    BY <1>6, <2>1, Zenon DEF ThreadPool, MainDone
  <2> QED
    BY <1>6, <2>1, <2>2 DEF MainDone
<1>7. CASE SqlPool
  <2>1. calls = 1 /\ calls' = 2 /\ stage' = "pooling"
    BY <1>2, <1>7, MainCalls DEF SqlPool
  <2>2. mPool' = mPool
    BY <1>7, Zenon DEF SqlPool
  <2> QED
    BY <1>4, <1>7, <1>5, <2>1, <2>2 DEF MainDone
<1>8. CASE EventListen
  <2>1. calls = 2 /\ calls' = 3 /\ stage = "calling" /\ stage' = "calling"
    BY <1>2, <1>8, MainCalls DEF EventListen
  <2>2. mPool' = mPool /\ opened' = opened
    BY <1>8, Zenon DEF EventListen, poolVars, handleVars
  <2> QED
    BY <1>4, <1>5, <2>1, <2>2 DEF MainDone
<1>9. CASE EventLoop
  <2>1. calls = 3 /\ calls' = 4 /\ stage = "calling" /\ stage' \in {"looping", "terminated"}
    BY <1>1, <1>2, <1>9, MainCalls DEF EventLoop
  <2>2. mPool' = mPool /\ opened' = opened
    BY <1>9, Zenon DEF EventLoop, poolVars, handleVars
  <2> QED
    BY <1>4, <1>5, <2>1, <2>2 DEF MainDone
<1>10. CASE Connect \/ GetConnection \/ InitAllResult
  <2>1. /\ mPool' = mPool /\ calls' = calls /\ stage \in {"pooling", "loaded"}
        /\ stage' \in {"pooling", "loaded", "calling"}
        /\ stage' # "pooling" => opened' = opened
        /\ stage = "pooling" /\ stage' # "pooling" => ~ToConnect
    BY <1>1, <1>10 DEF Connect, GetConnection, InitAllResult, Goto, callVars, poolVars
  <2>2. ~ToConnect => opened = ConNum
    BY TypeParts, LifecycleAssumption DEF LifeInv, HandleType, ToConnect
  <2>3. ~ThreadPool
    BY <2>1 DEF ThreadPool, Call
  <2> QED
    BY <1>4, <2>1, <2>2, <2>3 DEF MainDone
<1>11. ~ConnectFails /\ ~EpollWaitFails /\ ~Destroy
  BY <1>1 DEF ConnectFails, EpollWaitFails, Destroy, Goto
<1>12. ASSUME Proceed, ~Connect, ~GetConnection, ~InitAllResult PROVE FALSE
  BY <1>11, <1>12 DEF Proceed, CloseDescriptors, ClosePool, JoinAll, DeleteUsers,
     DestroyTest, DestroyHandle, MainDone
<1>13. CASE \/ \E c \in Conns : HandleRead(c)
            \/ \E w \in Workers : Work(w) \/ Acquire(w)
  <2>1. UNCHANGED <<callVars, mPool, opened>>
    BY <1>13 DEF HandleRead, Work, Take, Acquire, Finish, Leave, handleVars
  <2>2. ~ThreadPool
    BY <2>1 DEF ThreadPool, Call, callVars, MainDone
  <2> QED
    BY <1>4, <2>1, <2>2 DEF callVars, MainDone
<1> QED
  BY <1>4, <1>6, <1>7, <1>8, <1>9, <1>10, <1>11, <1>12, <1>13 DEF Next, Begin

LEMMA MainStep == LifeInv /\ Next => MainInv'
<1> SUFFICES ASSUME LifeInv, Next, caller' = "main", stage' # "terminated"
             PROVE  /\ MainDone'
                    /\ calls' >= 1 => \A w \in Workers : pc'[w] # "none"
                    /\ calls' >= 2 => isblock'
  BY Zenon DEF MainInv, MainDone
<1>1. caller = "main" /\ stage # "terminated"
  BY CallerStays
<1>2. /\ MainDone
      /\ calls >= 1 => \A w \in Workers : pc[w] # "none"
  BY <1>1, TypeParts, LifecycleAssumption DEF LifeInv, MainInv, MainDone, CallType
<1>3. /\ MainDone'
      /\ calls = 0 /\ calls' # 0 => ThreadPool
      /\ calls = 1 /\ calls' # 1 => SqlPool
      /\ ThreadPool \/ ThreadPoolFails => calls = 0 /\ ThreadPool
  BY <1>1, <1>2, MainProgress
<1>4. calls \in Nat /\ calls' \in Nat /\ (ThreadPool => calls' = 1)
  <2>1. ThreadPool => calls' = calls + 1
    BY DEF ThreadPool, Call
  <2> QED
    BY <1>2, <1>3, <2>1 DEF MainDone
<1>5. calls' >= 1 => \A w \in Workers : pc'[w] # "none"
  <2>1. CASE ThreadPool
    <3>1. mPool = "none"
      BY <1>2, <1>3, <2>1 DEF MainDone
    <3>2. pc' = [w \in Workers |-> "idle"]
      BY <2>1, <3>1, Zenon DEF ThreadPool
    <3> QED
      BY <3>2
  <2>2. CASE ~ThreadPool
    BY <1>2, <1>3, <1>4, <2>2, BornStays
  <2> QED
    BY <2>1, <2>2
<1>6. calls' >= 2 => calls >= 2 \/ SqlPool
  BY <1>3, <1>4
<1>7. calls >= 2 => isblock
  BY <1>1, Zenon DEF LifeInv, MainInv
<1>8. isblock \/ SqlPool => isblock'
  <2>1. CASE SqlPool
    BY <2>1, Zenon DEF SqlPool
  <2>2. CASE ~SqlPool
    <3>1. isblock' = isblock
      <4>1. CASE Begin
        BY <2>2, <4>1 DEF Begin, ThreadPool, ThreadPoolFails, SqlPoolRefused, ListenFails,
           EpollCreateFails, EpollCtlFails, EventListen, EventLoop, EpollWaitFails,
           Destroy, handleVars
      <4>2. CASE Proceed
        BY <4>2 DEF Proceed, Connect, ConnectFails, GetConnection, InitAllResult,
           ClosePool, CloseDescriptors, JoinAll, DeleteUsers, DestroyTest, DestroyHandle,
           handleVars
      <4>3. CASE \/ \E c \in Conns : HandleRead(c)
                 \/ \E w \in Workers : Work(w) \/ Acquire(w)
        BY <4>3 DEF HandleRead, Work, Take, Acquire, Finish, Leave, handleVars
      <4> QED
        BY <4>1, <4>2, <4>3, Zenon DEF Next
    <3> QED
      BY <2>2, <3>1, Zenon
  <2> QED
    BY <2>1, <2>2
<1>9. calls' >= 2 => isblock'
  BY <1>6, <1>7, <1>8, Zenon
<1> QED
  BY <1>3, <1>5, <1>9, Zenon
-----------------------------------------------------------------------------
THEOREM Invariance == Spec => []LifeInv
<1>1. LifeInv /\ [Next]_vars => LifeInv'
  <2>1. LifeInv /\ Next => LifeInv'
    <3>1. TypeOK' <=> CallType' /\ PoolType' /\ HandleType' /\ ListenType'
      BY Zenon DEF TypeOK, CallType, PoolType, HandleType, ListenType
    <3> QED
      BY <3>1, CallStep, PoolStep, HandleStep, ListenStep, OpenStep, UsersStep, HandStep,
         MainStep, Zenon DEF LifeInv
  <2>2. LifeInv /\ UNCHANGED vars => LifeInv'
    <3> SUFFICES ASSUME LifeInv, UNCHANGED vars PROVE LifeInv'
      OBVIOUS
    <3>1. UNCHANGED <<callVars, poolVars, handleVars, listenVars>>
      BY DEF vars
    <3>2. TypeOK'
      BY <3>1, Zenon DEF callVars, poolVars, handleVars, listenVars, LifeInv, TypeOK
    <3>3. HandInv'
      BY <3>1, Zenon DEF callVars, poolVars, handleVars, LifeInv, HandInv
    <3>4. OpenInv'
      BY <3>1, Zenon DEF callVars, listenVars, LifeInv, OpenInv, DescriptorsAccounted, Late
    <3>5. UsersInv'
      BY <3>1, Zenon DEF callVars, poolVars, listenVars, LifeInv, UsersInv, Stopped, InTask
    <3>6. MainInv'
      BY <3>1, Zenon DEF callVars, poolVars, handleVars, LifeInv, MainInv
    <3> QED
      BY <3>2, <3>3, <3>4, <3>5, <3>6 DEF LifeInv
  <2> QED
    BY <2>1, <2>2
<1> QED
  BY LifeInit, <1>1, PTL DEF Spec

\* Every variable of the server's life keeps its type: whoever makes the
\* calls, no more handles are connected than asked for, and so on.
THEOREM TypeCorrect == Spec => []TypeOK
<1>1. LifeInv => TypeOK
  BY DEF LifeInv
<1> QED
  BY Invariance, <1>1, PTL

\* A worker in a task works on connection objects that exist.
THEOREM ObjectsOutliveTasks == Spec => []UsersOutliveTasks
<1>1. LifeInv => UsersOutliveTasks
  <2> SUFFICES ASSUME LifeInv, InTask # {} PROVE users = "live"
    BY DEF UsersOutliveTasks
  <2>1. users \in {"none", "live", "deleted"} /\ UsersInv
    BY TypeParts DEF LifeInv, ListenType
  <2>2. ~Stopped
    BY DEF InTask, Stopped
  <2> QED
    BY <2>1, <2>2 DEF UsersInv
<1> QED
  BY Invariance, <1>1, PTL

\* The open descriptors are those of the members, whatever failed.
THEOREM NoDescriptorLost == Spec => []DescriptorsAccounted
<1>1. LifeInv => DescriptorsAccounted
  BY DEF LifeInv, OpenInv
<1> QED
  BY Invariance, <1>1, PTL

\* Nobody enters the loop unprepared, and main() only with all it asked for.
THEOREM LoopPrepared == Spec => []LoopIsReady
<1>1. LifeInv => LoopIsReady
  <2> SUFFICES ASSUME LifeInv, stage = "looping" PROVE LoopIsReady
    BY DEF LoopIsReady
  <2>1. users = "live" /\ mLfd # -1 /\ connEpfd = epollFd /\ epollFd \in open
    BY DEF LifeInv, OpenInv, DescriptorsAccounted
  <2>2. caller = "main" => calls >= 2 /\ calls >= 1
    BY DEF LifeInv, MainInv
  <2>3. caller = "main" => /\ mPool = "started" /\ \A w \in Workers : pc[w] # "none"
                          /\ opened = ConNum
    BY <2>2 DEF LifeInv, MainInv
  <2>4. caller = "main" => isblock
    BY <2>2, Zenon DEF LifeInv, MainInv
  <2> QED
    BY <2>1, <2>3, <2>4, Zenon DEF LoopIsReady
<1> QED
  BY Invariance, <1>1, PTL
-----------------------------------------------------------------------------
(* The handles *)

\* A handle's places, kind by kind.
AtPool(h)   == \E i \in 1..Len(conlist) : conlist[i] = h
AtObject(h) == \E c \in Conns : msql[c] = h
AtGuard(h)  == \E w \in Workers : guard[w] = h
AtSql(h)    == sql = h

PoolOnce(h) == \A i, j \in 1..Len(conlist) : conlist[i] = h /\ conlist[j] = h => i = j

Somewhere(h) == AtPool(h) \/ AtObject(h) \/ AtGuard(h) \/ AtSql(h)

\* No two places have handle h.
AtMostOnce(h) ==
  /\ ~(AtPool(h) /\ (AtObject(h) \/ AtGuard(h) \/ AtSql(h)))
  /\ ~(AtObject(h) /\ (AtGuard(h) \/ AtSql(h)))
  /\ ~(AtGuard(h) /\ AtSql(h))
  /\ PoolOnce(h)
  /\ \A c, d \in Conns : msql[c] = h /\ msql[d] = h => c = d
  /\ \A v, w \in Workers : guard[v] = h /\ guard[w] = h => v = w

\* Who holds nothing: a worker outside read_once(), and initAllResult() when
\* it does not run.  The step that gives them a handle overwrites none.
EmptyHanded ==
  /\ \A w \in Workers : pc[w] # "holding" => guard[w] = None
  /\ stage # "loaded" => sql = None

PlacesInv ==
  /\ closed \subseteq 1..opened
  /\ \A h \in Handles : /\ AtMostOnce(h)
                        /\ Somewhere(h) <=> h <= opened /\ h \notin closed

HandlesInv == EmptyHanded /\ PlacesInv

LEMMA HandlesInit == Init => HandlesInv
<1> SUFFICES ASSUME Init PROVE HandlesInv
  OBVIOUS
<1>1. EmptyHanded
  BY DEF Init, EmptyHanded
<1>2. ASSUME NEW h \in Handles PROVE ~Somewhere(h) /\ AtMostOnce(h) /\ ~(h <= opened)
  <2>1. h \in Nat /\ h > 0 /\ h # None /\ h # NULL
    BY LifecycleAssumption DEF Handles, NULL
  <2>2. ~AtPool(h) /\ ~AtObject(h) /\ ~AtGuard(h) /\ ~AtSql(h)
    BY <2>1 DEF Init, AtPool, AtObject, AtGuard, AtSql
  <2>3. PoolOnce(h)
    BY DEF Init, PoolOnce
  <2>4. \A v, w \in Workers : guard[v] # h
    BY <2>2 DEF AtGuard
  <2>5. \A c, d \in Conns : msql[c] # h
    BY <2>2 DEF AtObject
  <2> QED
    BY <2>1, <2>2, <2>3, <2>4, <2>5 DEF Init, Somewhere, AtMostOnce
<1>3. closed \subseteq 1..opened
  BY DEF Init
<1> QED
  BY <1>1, <1>2, <1>3 DEF HandlesInv, PlacesInv

\* pop_b() takes the first handle out of the pool.
LEMMA PoolTail ==
  ASSUME HandleType, conlist # <<>>, conlist' = Tail(conlist),
         NEW h \in Handles, PoolOnce(h)
  PROVE  /\ AtPool(h)' <=> AtPool(h) /\ h # Head(conlist)
         /\ h = Head(conlist) => AtPool(h)
         /\ PoolOnce(h)'
<1> DEFINE new == Head(conlist)
<1>0. conlist \in Seq(Handles \cup {NULL})
  BY Zenon DEF HandleType
<1>1. /\ Len(conlist) \in Nat \ {0} /\ new = conlist[1]
      /\ Len(conlist') = Len(conlist) - 1
      /\ \A i \in 1..Len(conlist') : conlist'[i] = conlist[i + 1]
  BY <1>0, HeadTailProperties, EmptySeq
<1> HIDE DEF new
<1>2. PoolOnce(h)'
  <2> SUFFICES ASSUME NEW i \in 1..Len(conlist'), NEW j \in 1..Len(conlist'),
                      conlist'[i] = h, conlist'[j] = h
               PROVE  i = j
    BY DEF PoolOnce
  <2>1. i + 1 \in 1..Len(conlist) /\ j + 1 \in 1..Len(conlist)
    BY <1>1
  <2>2. i + 1 = j + 1
    BY <1>1, <2>1 DEF PoolOnce
  <2> QED
    BY <2>2
<1>3. ASSUME NEW i \in 1..Len(conlist'), conlist'[i] = h PROVE AtPool(h) /\ h # new
  <2>1. i + 1 \in 1..Len(conlist) /\ 1 \in 1..Len(conlist) /\ i + 1 # 1
    BY <1>1
  <2> QED
    BY <1>1, <1>3, <2>1 DEF AtPool, PoolOnce
<1>4. ASSUME NEW i \in 1..Len(conlist), conlist[i] = h, h # new
      PROVE  \E j \in 1..Len(conlist') : conlist'[j] = h
  <2>1. i - 1 \in 1..Len(conlist') /\ (i - 1) + 1 = i
    BY <1>1, <1>4
  <2> QED
    BY <1>1, <1>4, <2>1
<1>5. AtPool(h)' <=> AtPool(h) /\ h # new
  BY <1>3, <1>4 DEF AtPool
<1>6. h = new => AtPool(h)
  BY <1>1 DEF AtPool
<1> QED
  BY <1>2, <1>5, <1>6 DEF new

\* push_b() puts a handle at its end.
LEMMA PoolAppend ==
  ASSUME HandleType, NEW new \in Handles \cup {NULL}, conlist' = Append(conlist, new),
         NEW h \in Handles, PoolOnce(h), ~(h = new /\ AtPool(h))
  PROVE  /\ AtPool(h)' <=> AtPool(h) \/ h = new
         /\ PoolOnce(h)'
<1>0. conlist \in Seq(Handles \cup {NULL})
  BY Zenon DEF HandleType
<1>1. /\ Len(conlist) \in Nat
      /\ Len(conlist') = Len(conlist) + 1
      /\ \A i \in 1..Len(conlist) : conlist'[i] = conlist[i]
      /\ conlist'[Len(conlist) + 1] = new
  BY <1>0, LenProperties, AppendProperties
<1>2. \A i \in 1..Len(conlist') : i \in 1..Len(conlist) \/ i = Len(conlist) + 1
  BY <1>1
<1>3. 1..Len(conlist) \subseteq 1..Len(conlist')
      /\ Len(conlist) + 1 \in 1..Len(conlist')
  BY <1>1
<1>4. AtPool(h)' <=> AtPool(h) \/ h = new
  BY <1>1, <1>2, <1>3 DEF AtPool
<1>5. PoolOnce(h)'
  BY <1>1, <1>2 DEF PoolOnce, AtPool
<1> QED
  BY <1>4, <1>5

\* A step that moves no handle.
LEMMA PlacesKept ==
  ASSUME PlacesInv, UNCHANGED <<guard, conlist, opened, closed, msql, sql>>
  PROVE  PlacesInv'
<1>1. ASSUME NEW h \in Handles
      PROVE  (AtMostOnce(h)' <=> AtMostOnce(h)) /\ (Somewhere(h)' <=> Somewhere(h))
  BY DEF AtMostOnce, Somewhere, PoolOnce, AtPool, AtObject, AtGuard, AtSql
<1> QED
  BY <1>1 DEF PlacesInv

\* init() connects a handle and puts it into the pool.
LEMMA PlacesConnect ==
  ASSUME HandleType, PlacesInv, Connect
  PROVE  PlacesInv'
<1>1. /\ conlist' = Append(conlist, opened + 1) /\ opened' = opened + 1
      /\ UNCHANGED <<guard, closed, msql, sql>> /\ opened \in Nat /\ opened < ConNum
  BY LifecycleAssumption DEF Connect, ToConnect, HandleType
<1>2. opened + 1 \in Handles
  BY <1>1, LifecycleAssumption DEF Handles
<1>3. ASSUME NEW h \in Handles
      PROVE  AtMostOnce(h)' /\ (Somewhere(h)' <=> h <= opened' /\ h \notin closed')
  <2>0. h \in Nat
    BY DEF Handles
  <2>1. AtMostOnce(h) /\ (Somewhere(h) <=> h <= opened /\ h \notin closed)
    BY DEF PlacesInv
  <2>2. h = opened + 1 => ~Somewhere(h) /\ h \notin closed
    BY <1>1, <2>1 DEF PlacesInv
  <2>3. (AtPool(h)' <=> AtPool(h) \/ h = opened + 1) /\ PoolOnce(h)'
    BY <1>1, <1>2, <2>1, <2>2, PoolAppend DEF AtMostOnce, Somewhere
  <2>4. UNCHANGED <<AtObject(h), AtGuard(h), AtSql(h)>>
    BY <1>1 DEF AtObject, AtGuard, AtSql
  <2>5. AtMostOnce(h)'
    BY <1>1, <2>1, <2>2, <2>3, <2>4 DEF AtMostOnce, Somewhere
  <2>6. Somewhere(h)' <=> Somewhere(h) \/ h = opened + 1
    BY <2>3, <2>4 DEF Somewhere
  <2>7. h <= opened' <=> h <= opened \/ h = opened + 1
    BY <1>1, <2>0
  <2> QED
    BY <1>1, <2>1, <2>2, <2>5, <2>6, <2>7
<1>4. closed' \subseteq 1..opened'
  BY <1>1 DEF PlacesInv
<1> QED
  BY <1>3, <1>4 DEF PlacesInv

\* initAllResult() gets a handle and gives it back.
LEMMA PlacesLoad ==
  ASSUME HandleType, HandInv, HandlesInv, GetConnection \/ InitAllResult
  PROVE  PlacesInv'
<1>0. UNCHANGED <<guard, opened, closed, msql>>
  BY DEF GetConnection, InitAllResult
<1>1. ASSUME NEW h \in Handles
      PROVE  AtMostOnce(h)' /\ (Somewhere(h)' <=> Somewhere(h))
  <2>0. h # None /\ h # NULL
    BY LifecycleAssumption DEF Handles, NULL
  <2>1. AtMostOnce(h) /\ PoolOnce(h)
    BY DEF HandlesInv, PlacesInv, AtMostOnce
  <2>2. UNCHANGED <<AtObject(h), AtGuard(h)>>
    BY <1>0 DEF AtObject, AtGuard
  <2>3. CASE GetConnection
    <3>1. conlist # <<>> /\ conlist' = Tail(conlist) /\ sql' = Head(conlist) /\ sql = None
      BY <2>3 DEF GetConnection, HandlesInv, EmptyHanded
    <3>2. /\ AtPool(h)' <=> AtPool(h) /\ h # sql'
          /\ h = sql' => AtPool(h)
          /\ PoolOnce(h)'
      BY <2>1, <3>1, PoolTail
    <3> QED
      BY <1>0, <2>0, <2>1, <2>2, <3>1, <3>2 DEF AtMostOnce, Somewhere, AtSql
  <2>4. CASE InitAllResult
    <3>1. sql \in Handles \cup {NULL} /\ sql' = None
      BY <2>4 DEF InitAllResult, HandInv
    <3>2. (AtPool(h)' <=> AtPool(h) \/ h = sql) /\ PoolOnce(h)'
      <4>1. CASE sql = NULL
        <5>1. conlist' = conlist
          BY <2>4, <4>1 DEF InitAllResult, GivenBack
        <5> QED
          BY <2>0, <2>1, <4>1, <5>1 DEF AtPool, PoolOnce
      <4>2. CASE sql # NULL
        <5>1. conlist' = Append(conlist, sql)
          BY <2>4, <4>2 DEF InitAllResult, GivenBack
        <5> QED
          BY <2>1, <3>1, <5>1, PoolAppend DEF AtMostOnce, AtSql
      <4> QED
        BY <4>1, <4>2
    <3> QED
      BY <1>0, <2>0, <2>1, <2>2, <3>1, <3>2 DEF AtMostOnce, Somewhere, AtSql
  <2> QED
    BY <2>3, <2>4
<1> QED
  BY <1>0, <1>1 DEF HandlesInv, PlacesInv

\* DestroyPool() closes what it takes out of the pool.
LEMMA PlacesDestroy ==
  ASSUME HandleType, PlacesInv, DestroyHandle
  PROVE  PlacesInv'
<1> DEFINE new == Head(conlist)
<1>1. /\ conlist # <<>> /\ conlist' = Tail(conlist)
      /\ closed' = closed \cup ({new} \ {NULL})
      /\ UNCHANGED <<guard, opened, msql, sql>>
  BY DEF DestroyHandle
<1>2. new \in Handles \cup {NULL}
  BY <1>1, HeadTailProperties DEF HandleType
<1> HIDE DEF new
<1>3. ASSUME NEW h \in Handles
      PROVE  AtMostOnce(h)' /\ (Somewhere(h)' <=> Somewhere(h) /\ h # new)
             /\ (h = new => Somewhere(h))
  <2>1. AtMostOnce(h) /\ PoolOnce(h)
    BY DEF PlacesInv, AtMostOnce
  <2>2. /\ AtPool(h)' <=> AtPool(h) /\ h # new
        /\ h = new => AtPool(h)
        /\ PoolOnce(h)'
    BY <1>1, <2>1, PoolTail DEF new
  <2>3. UNCHANGED <<AtObject(h), AtGuard(h), AtSql(h)>>
    BY <1>1 DEF AtObject, AtGuard, AtSql
  <2> QED
    BY <1>1, <2>1, <2>2, <2>3 DEF AtMostOnce, Somewhere
<1>4. closed' \subseteq 1..opened'
  <2>1. new # NULL => new <= opened /\ new \in 1..opened
    BY <1>2, <1>3, LifecycleAssumption DEF PlacesInv, Handles, HandleType
  <2> QED
    BY <1>1, <2>1 DEF PlacesInv
<1>5. \A h \in Handles : h # NULL
  BY DEF Handles, NULL
<1> QED
  BY <1>1, <1>3, <1>4, <1>5 DEF PlacesInv

\* read_once() takes a handle into the object; its guard keeps the old one.
LEMMA PlacesAcquire ==
  ASSUME HandleType, HandInv, HandlesInv, NEW w \in Workers, Acquire(w)
  PROVE  PlacesInv'
<1> DEFINE new == Head(conlist)
           c == task[w]
           old == msql[c]
<1>1. /\ conlist # <<>> /\ conlist' = Tail(conlist)
      /\ guard' = [guard EXCEPT ![w] = old] /\ msql' = [msql EXCEPT ![c] = new]
      /\ UNCHANGED <<opened, closed, sql>> /\ c \in Conns /\ guard[w] = None
  BY DEF Acquire, HandInv, HandlesInv, EmptyHanded
<1>2. \A h \in Handles : h = new => AtPool(h)
  BY <1>1, PoolTail DEF HandlesInv, PlacesInv, AtMostOnce
<1>3. ASSUME NEW h \in Handles
      PROVE  AtMostOnce(h)' /\ (Somewhere(h)' <=> Somewhere(h))
  <2>0. h # None
    BY LifecycleAssumption DEF Handles
  <2>1. AtMostOnce(h) /\ PoolOnce(h)
    BY DEF HandlesInv, PlacesInv, AtMostOnce
  <2>2. /\ AtPool(h)' <=> AtPool(h) /\ h # new
        /\ h = new => AtPool(h)
        /\ PoolOnce(h)'
    BY <1>1, <2>1, PoolTail
  <2> HIDE DEF new, c
  <2>3. /\ \A d \in Conns : msql'[d] = IF d = c THEN new ELSE msql[d]
        /\ \A v \in Workers : guard'[v] = IF v = w THEN old ELSE guard[v]
    BY <1>1 DEF HandleType
  <2> HIDE DEF old
  <2>4. old = msql[c]
    BY DEF old
  <2>5. AtObject(h)' <=> h = new \/ (AtObject(h) /\ h # old)
    BY <1>1, <2>1, <2>3, <2>4 DEF AtObject, AtMostOnce
  <2>6. AtGuard(h)' <=> AtGuard(h) \/ h = old
    BY <1>1, <2>0, <2>3 DEF AtGuard
  <2>7. h = old => AtObject(h)
    BY <1>1, <2>4 DEF AtObject
  <2>8. \A d, e \in Conns : msql'[d] = h /\ msql'[e] = h => d = e
    BY <2>1, <2>2, <2>3 DEF AtMostOnce, AtObject
  <2>9. \A u, v \in Workers : guard'[u] = h /\ guard'[v] = h => u = v
    BY <2>1, <2>3, <2>7 DEF AtMostOnce, AtGuard
  <2>10. AtSql(h)' <=> AtSql(h)
    BY <1>1 DEF AtSql
  <2> QED
    BY <2>1, <2>2, <2>5, <2>6, <2>7, <2>8, <2>9, <2>10 DEF AtMostOnce, Somewhere
<1> QED
  BY <1>1, <1>3 DEF HandlesInv, PlacesInv

\* Its end gives back what the guard has kept.
LEMMA PlacesFinish ==
  ASSUME HandleType, HandInv, HandlesInv, NEW w \in Workers, Finish(w)
  PROVE  PlacesInv'
<1> DEFINE old == guard[w]
<1>1. /\ conlist' = Append(conlist, old) /\ guard' = [guard EXCEPT ![w] = None]
      /\ UNCHANGED <<opened, closed, msql, sql>> /\ old \in Handles \cup {NULL}
  BY DEF Finish, HandInv
<1>2. \A v \in Workers : guard'[v] = IF v = w THEN None ELSE guard[v]
  BY <1>1 DEF HandleType
<1>3. ASSUME NEW h \in Handles
      PROVE  AtMostOnce(h)' /\ (Somewhere(h)' <=> Somewhere(h))
  <2>0. h # None
    BY LifecycleAssumption DEF Handles
  <2>1. AtMostOnce(h) /\ PoolOnce(h)
    BY DEF HandlesInv, PlacesInv, AtMostOnce
  <2>2. h = old => AtGuard(h)
    BY DEF AtGuard
  <2>3. (AtPool(h)' <=> AtPool(h) \/ h = old) /\ PoolOnce(h)'
    BY <1>1, <2>1, <2>2, PoolAppend DEF AtMostOnce
  <2>4. AtGuard(h)' <=> AtGuard(h) /\ h # old
    BY <1>2, <2>0, <2>1 DEF AtGuard, AtMostOnce
  <2>5. UNCHANGED <<AtObject(h), AtSql(h)>>
    BY <1>1 DEF AtObject, AtSql
  <2>6. \A u, v \in Workers : guard'[u] = h /\ guard'[v] = h => u = v
    BY <1>2, <2>0, <2>1 DEF AtMostOnce
  <2> QED
    BY <1>1, <2>1, <2>2, <2>3, <2>4, <2>5, <2>6 DEF AtMostOnce, Somewhere
<1> QED
  BY <1>1, <1>3 DEF HandlesInv, PlacesInv

\* The steps that move no handle.
LEMMA OtherHandleSteps ==
  Next => \/ Connect \/ GetConnection \/ InitAllResult \/ DestroyHandle
          \/ \E w \in Workers : Acquire(w) \/ Finish(w)
          \/ UNCHANGED <<guard, conlist, opened, closed, msql, sql>>
<1> SUFFICES ASSUME Next
             PROVE  \/ Connect \/ GetConnection \/ InitAllResult \/ DestroyHandle
                    \/ \E w \in Workers : Acquire(w) \/ Finish(w)
                    \/ UNCHANGED <<guard, conlist, opened, closed, msql, sql>>
  OBVIOUS
<1> USE DEF handleVars
<1>1. CASE Begin
  BY <1>1 DEF Begin, ThreadPool, ThreadPoolFails, SqlPool, SqlPoolRefused, ListenFails,
     EpollCreateFails, EpollCtlFails, EventListen, EventLoop, EpollWaitFails, Destroy
<1>2. CASE Proceed
  BY <1>2 DEF Proceed, ConnectFails, ClosePool, CloseDescriptors, JoinAll, DeleteUsers,
     DestroyTest
<1>3. CASE \/ \E c \in Conns : HandleRead(c)
           \/ \E w \in Workers : Work(w) \/ Acquire(w)
  BY <1>3 DEF HandleRead, Work, Take, Leave
<1> QED
  BY <1>1, <1>2, <1>3, Zenon DEF Next

LEMMA PlacesStep == LifeInv /\ HandlesInv /\ Next => PlacesInv'
<1> SUFFICES ASSUME LifeInv, HandlesInv, Next PROVE PlacesInv'
  OBVIOUS
<1>0. HandleType /\ HandInv /\ PlacesInv
  BY TypeParts DEF LifeInv, HandlesInv
<1> QED
  BY <1>0, OtherHandleSteps, PlacesKept, PlacesConnect, PlacesLoad, PlacesDestroy,
     PlacesAcquire, PlacesFinish, Zenon

LEMMA EmptyHandedStep == LifeInv /\ EmptyHanded /\ Next => EmptyHanded'
<1> SUFFICES ASSUME LifeInv, EmptyHanded, Next PROVE EmptyHanded'
  OBVIOUS
<1>0. HandleType /\ PoolType /\ UsersInv
  BY TypeParts DEF LifeInv
<1>1. stage' # "loaded" => sql' = None
  <2>1. CASE Connect \/ GetConnection \/ InitAllResult \/ DestroyHandle
    BY <2>1 DEF Connect, GetConnection, InitAllResult, DestroyHandle, Goto, EmptyHanded,
       callVars
  <2>2. ASSUME NEW w \in Workers, Acquire(w) \/ Finish(w)
        PROVE  stage' # "loaded" => sql' = None
    BY <2>2 DEF Acquire, Finish, callVars, EmptyHanded
  <2>3. CASE UNCHANGED sql /\ ~InitAllResult
    <3>1. stage = "loaded" => stage' = "loaded"
      <4>1. ~Begin \/ stage # "loaded"
        BY DEF Begin, ThreadPool, ThreadPoolFails, SqlPool, SqlPoolRefused, ListenFails,
           EpollCreateFails, EpollCtlFails, EventListen, EventLoop, EpollWaitFails,
           Destroy, Call
      <4>2. ~Proceed \/ stage # "loaded"
        BY <2>3 DEF Proceed, Connect, ConnectFails, GetConnection, ClosePool,
           CloseDescriptors, JoinAll, DeleteUsers, DestroyTest, DestroyHandle
      <4>3. CASE \/ \E c \in Conns : HandleRead(c)
                 \/ \E w \in Workers : Work(w) \/ Acquire(w)
        BY <4>3 DEF HandleRead, Work, Take, Acquire, Finish, Leave, callVars
      <4> QED
        BY <4>1, <4>2, <4>3, Zenon DEF Next
    <3> QED
      BY <2>3, <3>1 DEF EmptyHanded
  <2> QED
    BY <2>1, <2>2, <2>3, OtherHandleSteps, Zenon
<1>2. ASSUME NEW w \in Workers, pc'[w] # "holding" PROVE guard'[w] = None
  <2>1. CASE ThreadPool \/ ThreadPoolFails
    <3>1. guard' = guard /\ (pc' = pc \/ mPool = "none")
      BY <2>1 DEF ThreadPool, ThreadPoolFails, handleVars
    <3>2. mPool = "none" => pc[w] # "holding"
      BY <1>0 DEF UsersInv, Stopped
    <3> QED
      BY <1>2, <3>1, <3>2 DEF EmptyHanded
  <2>2. CASE SqlPool
    <3>1. PICK S \in SUBSET Waiting :
            pc' = [v \in Workers |-> IF v \in S THEN "stuck" ELSE pc[v]]
      BY <2>2, Zenon DEF SqlPool
    <3>2. guard' = guard
      BY <2>2, Zenon DEF SqlPool
    <3> QED
      BY <1>2, <3>1, <3>2 DEF EmptyHanded, Waiting
  <2>3. ASSUME NEW v \in Workers, Work(v) \/ Acquire(v) PROVE guard'[w] = None
    <3>1. CASE Acquire(v) \/ Finish(v)
      BY <1>0, <1>2, <3>1 DEF Acquire, Finish, PoolType, HandleType, EmptyHanded
    <3>2. CASE Leave(v) \/ \E c \in Conns : Take(v, c)
      BY <1>0, <1>2, <3>2 DEF Leave, Take, handleVars, PoolType, EmptyHanded
    <3> QED
      BY <2>3, <3>1, <3>2 DEF Work
  <2>4. CASE pc' = pc /\ ~\E v \in Workers : Acquire(v) \/ Finish(v)
    <3>1. guard' = guard
      BY <2>4, OtherHandleSteps DEF Connect, GetConnection, InitAllResult, DestroyHandle
    <3> QED
      BY <1>2, <2>4, <3>1 DEF EmptyHanded
  <2>5. CASE ClosePool \/ JoinAll \/ \E c \in Conns : HandleRead(c)
    BY <1>2, <2>5 DEF ClosePool, JoinAll, HandleRead, handleVars, EmptyHanded
  <2>6. UNCHANGED poolVars => pc' = pc
    BY DEF poolVars
  <2> QED
    BY <2>1, <2>2, <2>3, <2>4, <2>5, <2>6, OtherPoolSteps, Zenon DEF Work
<1> QED
  BY <1>1, <1>2 DEF EmptyHanded

\* One place is a set of places with one element, and none is the empty set.
LEMMA PlacesCount ==
  ASSUME NEW h, AtMostOnce(h)
  PROVE  Cardinality(Places(h)) = IF Somewhere(h) THEN 1 ELSE 0
<1> DEFINE inPool   == {<<"pool", i>> : i \in {j \in 1..Len(conlist) : conlist[j] = h}}
           inObject == {<<"object", c>> : c \in {d \in Conns : msql[d] = h}}
           inGuard  == {<<"guard", w>> : w \in {v \in Workers : guard[v] = h}}
           inSql    == IF sql = h THEN {<<"sql", h>>} ELSE {}
<1>1. /\ ~AtPool(h)   => inPool = {}
      /\ ~AtObject(h) => inObject = {}
      /\ ~AtGuard(h)  => inGuard = {}
      /\ ~AtSql(h)    => inSql = {}
  BY DEF AtPool, AtObject, AtGuard, AtSql
<1>2. Places(h) = inPool \cup inObject \cup inGuard \cup inSql
  BY Zenon DEF Places
<1>3. ASSUME AtPool(h) PROVE \E p : inPool = {p}
  <2>1. PICK i \in 1..Len(conlist) : conlist[i] = h
    BY <1>3 DEF AtPool
  <2>2. inPool = {<<"pool", i>>}
    BY <2>1 DEF AtMostOnce, PoolOnce
  <2> QED
    BY <2>2
<1>4. ASSUME AtObject(h) PROVE \E p : inObject = {p}
  <2>1. PICK c \in Conns : msql[c] = h
    BY <1>4 DEF AtObject
  <2>2. inObject = {<<"object", c>>}
    BY <2>1 DEF AtMostOnce
  <2> QED
    BY <2>2
<1>5. ASSUME AtGuard(h) PROVE \E p : inGuard = {p}
  <2>1. PICK w \in Workers : guard[w] = h
    BY <1>5 DEF AtGuard
  <2>2. inGuard = {<<"guard", w>>}
    BY <2>1 DEF AtMostOnce
  <2> QED
    BY <2>2
<1>6. AtSql(h) => \E p : inSql = {p}
  BY DEF AtSql
<1> HIDE DEF inPool, inObject, inGuard, inSql
<1>7. CASE Somewhere(h)
  <2>1. \E p : Places(h) = {p}
    BY <1>1, <1>2, <1>3, <1>4, <1>5, <1>6, <1>7 DEF Somewhere, AtMostOnce
  <2> QED
    BY <1>7, <2>1, FS_Singleton
<1>8. CASE ~Somewhere(h)
  <2>1. Places(h) = {}
    BY <1>1, <1>2, <1>8 DEF Somewhere
  <2> QED
    BY <1>8, <2>1, FS_EmptySet
<1> QED
  BY <1>7, <1>8

\* A connected handle is in one place until DestroyPool() closes it, and then
\* in none, whatever init(), initAllResult() and the workers do.
THEOREM HandlesNeverLost == Spec => []HandlesAccounted
<1>1. TypeOK /\ HandlesInv => HandlesAccounted
  <2> SUFFICES ASSUME TypeOK, HandlesInv, NEW h \in 1..opened
               PROVE  Cardinality(Places(h)) = IF h \in closed THEN 0 ELSE 1
    BY DEF HandlesAccounted
  <2>1. h \in Handles /\ h <= opened
    BY LifecycleAssumption, TypeParts DEF HandleType, Handles
  <2>2. AtMostOnce(h) /\ (Somewhere(h) <=> h \notin closed)
    BY <2>1 DEF HandlesInv, PlacesInv
  <2> QED
    BY <2>2, PlacesCount
<1>2. LifeInv /\ HandlesInv /\ [Next]_vars => HandlesInv'
  <2>1. LifeInv /\ HandlesInv /\ Next => HandlesInv'
    BY PlacesStep, EmptyHandedStep DEF HandlesInv
  <2>2. HandlesInv /\ UNCHANGED vars => HandlesInv'
    <3> SUFFICES ASSUME HandlesInv, UNCHANGED vars PROVE HandlesInv'
      OBVIOUS
    <3>1. PlacesInv'
      BY PlacesKept DEF HandlesInv, vars, handleVars
    <3>2. EmptyHanded'
      BY DEF HandlesInv, EmptyHanded, vars, handleVars, poolVars, callVars
    <3> QED
      BY <3>1, <3>2 DEF HandlesInv
  <2> QED
    BY <2>1, <2>2
<1>3. LifeInv => TypeOK
  BY DEF LifeInv
<1> QED
  BY Invariance, HandlesInit, <1>1, <1>2, <1>3, PTL DEF Spec
=============================================================================
