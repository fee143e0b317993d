------------------------------ MODULE Lifecycle ------------------------------
(***************************************************************************)
(* The life of a server: thread_pool(), sql_pool(), eventListen() and      *)
(* eventLoop() of SimpleChat, with every exception they throw, then the    *)
(* destructor, and at exit that of the static SqlConnectionPool, while     *)
(* workers may be inside a task.                                           *)
(*                                                                         *)
(* Three callers: "main" (main.cpp), where an exception ends the process;  *)
(* "test" (tests/simplechat_eventloop_test.cpp), which catches it, so that *)
(* the object is destroyed, and leaves by _exit(); and "any", which makes  *)
(* the calls in any order, again after a failure too, and returns from     *)
(* main(): the code prepares for it (simplechat.cpp:60, 121, 127).  Each   *)
(* of them calls init() first, once, with a port other than 0.             *)
(*                                                                         *)
(* What clients and workers do to one another is module ChatServer; here a *)
(* task is one read_once(), for it is this that takes a MYSQL handle.      *)
(***************************************************************************)
EXTENDS Integers, Sequences, FiniteSets

CONSTANTS Workers,   \* the threads of the pool
          Conns,     \* the connection objects in use
          ConNum,    \* how many handles sql_pool() asks for
          MaxCalls,  \* bound: calls of a caller "any"
          None

ASSUME LifecycleAssumption ==
  /\ IsFiniteSet(Workers) /\ Workers # {}
  /\ ConNum \in Nat /\ MaxCalls \in Nat
  /\ None \notin Nat /\ None \notin Conns

NULL    == 0
Handles == 1..ConNum
Callers == {"main", "test", "any"}

MainOrder == <<"thread_pool", "sql_pool", "eventListen", "eventLoop">>
TestOrder == <<"eventListen", "eventLoop">>

VARIABLES caller,    \* who runs the server
          stage,     \* what the main thread is doing
          calls,     \* how many calls it has begun
          mPool,     \* m_pool: NULL, started, or broken by a failed start()
          isClose,   \* m_pool->isClose
          queue,     \* the connections with a task in the queue
          pc,        \* per worker, its stage
          task,      \* per worker, its connection
          guard,     \* per worker, the handle its sqlRAII will give back
          isblock,   \* conlist.isblock
          conlist,   \* the handles in the pool
          opened,    \* how many handles were connected
          closed,    \* the handles given to mysql_close
          msql,      \* per connection object, m_sql
          sql,       \* the handle of initAllResult()
          users,     \* users: NULL, live or deleted
          mLfd,      \* m_lfd
          epollFd,   \* epoll_fd
          connEpfd,  \* tcp_conn::epfd
          open       \* the open descriptors of listener and epoll set

callVars   == <<caller, stage, calls>>
poolVars   == <<mPool, isClose, queue, pc, task>>
handleVars == <<guard, isblock, conlist, opened, closed, msql, sql>>
listenVars == <<users, mLfd, epollFd, connEpfd, open>>
vars == <<callVars, poolVars, handleVars, listenVars>>

Init ==
  /\ caller \in Callers /\ stage = "calling" /\ calls = 0
  /\ mPool = "none" /\ isClose = TRUE /\ queue = {}
  /\ pc = [w \in Workers |-> "none"]
  /\ task = [w \in Workers |-> None]
  /\ guard = [w \in Workers |-> None]
  /\ isblock = FALSE /\ conlist = <<>> /\ opened = 0 /\ closed = {}
  /\ msql = [c \in Conns |-> NULL]
  /\ sql = None
  /\ users = "none"
  /\ mLfd = -1 /\ epollFd = -1 /\ connEpfd = -1 /\ open = {}
-----------------------------------------------------------------------------
(* The calls *)

MayCall(op) ==
  CASE caller = "main" -> calls < Len(MainOrder) /\ MainOrder[calls + 1] = op
    [] caller = "test" -> calls < Len(TestOrder) /\ TestOrder[calls + 1] = op
    [] caller = "any"  -> calls < MaxCalls

Call(op, next) ==
  /\ stage = "calling" /\ MayCall(op)
  /\ calls' = calls + 1
  /\ stage' = next
  /\ UNCHANGED caller

\* Where an exception leads to.
Thrown == CASE caller = "main" -> "terminated"
            [] caller = "test" -> "unwinding"
            [] caller = "any"  -> "calling"

Goto(s) == stage' = s /\ UNCHANGED <<caller, calls>>

\* thread_pool(): only the first call does anything.
ThreadPool ==
  /\ Call("thread_pool", "calling")
  /\ IF mPool = "none"
     THEN /\ mPool' = "started"
          /\ isClose' = FALSE
          /\ pc' = [w \in Workers |-> "idle"]
     ELSE UNCHANGED <<mPool, isClose, pc>>
  /\ UNCHANGED <<queue, task, handleVars, listenVars>>

\* pthread_create fails: start() deletes its vector of threads and throws,
\* m_pool stays set, the threads that exist work on.
ThreadPoolFails ==
  /\ Call("thread_pool", Thrown)
  /\ mPool = "none"
  /\ mPool' = "broken"
  /\ isClose' = FALSE
  /\ \E S \in SUBSET Workers :
       S # Workers /\ pc' = [w \in Workers |-> IF w \in S THEN "idle" ELSE "none"]
  /\ UNCHANGED <<queue, task, handleVars, listenVars>>

Waiting == {w \in Workers : pc[w] = "waiting"}

\* sql_pool(): SqlConnectionPool::init() begins with setblock().  sem_init
\* on a semaphore with waiters may lose them.
SqlPool ==
  /\ Call("sql_pool", "pooling")
  /\ ~isblock
  /\ isblock' = TRUE
  /\ \E S \in SUBSET Waiting :
       pc' = [w \in Workers |-> IF w \in S THEN "stuck" ELSE pc[w]]
  /\ UNCHANGED <<mPool, isClose, queue, task, guard, conlist, opened, closed, msql,
                 sql, listenVars>>

\* setblock() throws when called again, and when sem_init fails.
SqlPoolRefused ==
  /\ Call("sql_pool", Thrown)
  /\ UNCHANGED <<poolVars, handleVars, listenVars>>

\* One turn of the loop of init().
ToConnectOneMore == opened <= ConNum
ToConnect == opened < ConNum

Connect ==
  /\ stage = "pooling" /\ ToConnect
  /\ opened' = opened + 1
  /\ conlist' = Append(conlist, opened + 1)
  /\ UNCHANGED <<callVars, poolVars, guard, isblock, closed, msql, sql, listenVars>>

ConnectFails ==
  /\ stage = "pooling" /\ ToConnect
  /\ Goto(Thrown)
  /\ UNCHANGED <<poolVars, handleVars, listenVars>>

\* users->initAllResult(), which uses no member: users may be NULL.
GetConnection ==
  /\ stage = "pooling" /\ ~ToConnect
  /\ conlist # <<>>
  /\ conlist' = Tail(conlist)
  /\ sql' = Head(conlist)
  /\ Goto("loaded")
  /\ UNCHANGED <<poolVars, guard, isblock, opened, closed, msql, listenVars>>

\* The query may fail; either way the handle is given back, unless it is
\* NULL, which is an exception of its own.
GivenBackNot == conlist
GivenBack == IF sql = NULL THEN conlist ELSE Append(conlist, sql)

InitAllResult ==
  /\ stage = "loaded"
  /\ conlist' = GivenBack
  /\ sql' = None
  /\ \E s \in IF sql = NULL THEN {Thrown} ELSE {Thrown, "calling"} : Goto(s)
  /\ UNCHANGED <<poolVars, guard, isblock, opened, closed, msql, listenVars>>

\* The descriptors a call of eventListen() gets.
Lfd  == 2 * calls
Epfd == 2 * calls + 1

\* eventListen(): socket, bind, listen or O_NONBLOCK fails; bind does for
\* certain while the port has a listener.
ListenFailsOpen ==
  /\ Call("eventListen", Thrown)
  /\ open' = open \cup {Lfd}
  /\ UNCHANGED <<poolVars, handleVars, users, mLfd, epollFd, connEpfd>>

ListenFails ==
  /\ Call("eventListen", Thrown)
  /\ UNCHANGED <<poolVars, handleVars, listenVars>>

EpollCreateFails ==
  /\ Call("eventListen", Thrown)
  /\ mLfd = -1
  /\ UNCHANGED <<poolVars, handleVars, listenVars>>

\* epoll_ctl fails: the epoll set is closed, the listener is not.
EpollCtlFailsLate ==
  /\ Call("eventListen", Thrown)
  /\ mLfd = -1
  /\ mLfd' = Lfd
  /\ connEpfd' = Epfd
  /\ epollFd' = Epfd
  /\ open' = open \cup {Lfd}
  /\ UNCHANGED <<poolVars, handleVars, users>>

EpollCtlFails ==
  /\ Call("eventListen", Thrown)
  /\ mLfd = -1
  /\ mLfd' = Lfd
  /\ connEpfd' = Epfd
  /\ open' = open \cup {Lfd}
  /\ UNCHANGED <<poolVars, handleVars, users, epollFd>>

EventListen ==
  /\ Call("eventListen", "calling")
  /\ mLfd = -1
  /\ mLfd' = Lfd
  /\ connEpfd' = Epfd
  /\ epollFd' = Epfd
  /\ open' = open \cup {Lfd, Epfd}
  /\ users' = "live"
  /\ UNCHANGED <<poolVars, handleVars>>

\* eventLoop() runs until epoll_wait fails; too early, it throws.
EventLoop ==
  /\ Call("eventLoop", IF epollFd = -1 \/ mLfd = -1 THEN Thrown ELSE "looping")
  /\ UNCHANGED <<poolVars, handleVars, listenVars>>

EpollWaitFails ==
  /\ stage = "looping"
  /\ Goto(Thrown)
  /\ UNCHANGED <<poolVars, handleVars, listenVars>>

\* A request on a connection that is armed: a task, if there is a pool.  A
\* worker that waits for a handle has not re-armed it yet; one that holds a
\* handle may have, long before its guard gives the handle back.
HandleRead(c) ==
  /\ stage = "looping"
  /\ mPool # "none"
  /\ \A w \in Workers : task[w] = c => pc[w] = "holding"
  /\ queue' = queue \cup {c}
  /\ UNCHANGED <<callVars, mPool, isClose, pc, task, handleVars, listenVars>>
-----------------------------------------------------------------------------
(* The workers; "idle" is the whole of work() outside a task, so that a     *)
(* worker may still take one task after close().                           *)

Alive == stage \notin {"terminated", "gone"}

Take(w, c) ==
  /\ Alive /\ pc[w] = "idle"
  /\ c \in queue
  /\ queue' = queue \ {c}
  /\ task' = [task EXCEPT ![w] = c]
  /\ pc' = [pc EXCEPT ![w] = "waiting"]
  /\ UNCHANGED <<callVars, mPool, isClose, handleVars, listenVars>>

\* The constructor of sqlRAII keeps the object's old handle.
Acquire(w) ==
  /\ Alive /\ pc[w] = "waiting"
  /\ conlist # <<>>
  /\ guard' = [guard EXCEPT ![w] = msql[task[w]]]
  /\ msql' = [msql EXCEPT ![task[w]] = Head(conlist)]
  /\ conlist' = Tail(conlist)
  /\ pc' = [pc EXCEPT ![w] = "holding"]
  /\ UNCHANGED <<callVars, mPool, isClose, queue, task, isblock, opened, closed, sql,
                 listenVars>>

\* The end of read_once(), and of work() if the pool is closed.
Finish(w) ==
  /\ Alive /\ pc[w] = "holding"
  /\ conlist' = Append(conlist, guard[w])
  /\ guard' = [guard EXCEPT ![w] = None]
  /\ task' = [task EXCEPT ![w] = None]
  /\ pc' = [pc EXCEPT ![w] = IF isClose THEN "exited" ELSE "idle"]
  /\ UNCHANGED <<callVars, mPool, isClose, queue, isblock, opened, closed, msql, sql,
                 listenVars>>

Leave(w) ==
  /\ Alive /\ pc[w] = "idle" /\ isClose
  /\ pc' = [pc EXCEPT ![w] = "exited"]
  /\ UNCHANGED <<callVars, mPool, isClose, queue, task, handleVars, listenVars>>
-----------------------------------------------------------------------------
(* The destructor, and the end of the process *)

Destroy ==
  /\ stage = "calling" /\ caller = "any"
  /\ Goto("unwinding")
  /\ UNCHANGED <<poolVars, handleVars, listenVars>>

CloseDescriptors ==
  /\ stage = "unwinding"
  /\ open' = open \ {epollFd, mLfd}
  /\ epollFd' = -1
  /\ mLfd' = -1
  /\ Goto("closing")
  /\ UNCHANGED <<poolVars, handleVars, users, connEpfd>>

\* m_pool->close() and delete m_pool.  A broken pool has deleted its vector
\* of threads: to walk it and delete it again ends the process.
ClosePool ==
  /\ stage = "closing"
  /\ isClose' = TRUE
  /\ Goto(CASE mPool = "none"    -> "deleting"
            [] mPool = "started" -> "joining"
            [] mPool = "broken"  -> "terminated")
  /\ UNCHANGED <<mPool, queue, pc, task, handleVars, listenVars>>

JoinedAtOnce(w) == TRUE
Joined(w) == pc[w] = "exited"

JoinAll ==
  /\ stage = "joining"
  /\ \A w \in Workers : Joined(w)
  /\ mPool' = "none"
  /\ Goto("deleting")
  /\ UNCHANGED <<isClose, queue, pc, task, handleVars, listenVars>>

DeleteUsers ==
  /\ stage = "deleting"
  /\ users' = "deleted"
  /\ Goto(IF caller = "test" THEN "gone" ELSE "exiting")
  /\ UNCHANGED <<poolVars, handleVars, mLfd, epollFd, connEpfd, open>>

\* DestroyPool(): empty(), then pop_b() and mysql_close().
SeesHandleAlways == TRUE
SeesHandle == conlist # <<>>

DestroyTest ==
  /\ stage = "exiting"
  /\ Goto(IF SeesHandle THEN "emptying" ELSE "gone")
  /\ UNCHANGED <<poolVars, handleVars, listenVars>>

DestroyHandle ==
  /\ stage = "emptying"
  /\ conlist # <<>>
  /\ closed' = closed \cup ({Head(conlist)} \ {NULL})
  /\ conlist' = Tail(conlist)
  /\ Goto("exiting")
  /\ UNCHANGED <<poolVars, guard, isblock, opened, msql, sql, listenVars>>

Begin ==
  \/ ThreadPool \/ ThreadPoolFails \/ SqlPool \/ SqlPoolRefused
  \/ ListenFails \/ EpollCreateFails \/ EpollCtlFails \/ EventListen
  \/ EventLoop \/ EpollWaitFails \/ Destroy

Proceed ==
  \/ Connect \/ ConnectFails \/ GetConnection \/ InitAllResult
  \/ CloseDescriptors \/ ClosePool \/ JoinAll \/ DeleteUsers
  \/ DestroyTest \/ DestroyHandle

Work(w) == Finish(w) \/ Leave(w) \/ \E c \in Conns : Take(w, c)

Next ==
  \/ Begin \/ Proceed
  \/ \E c \in Conns : HandleRead(c)
  \/ \E w \in Workers : Work(w) \/ Acquire(w)

Spec == Init /\ [][Next]_vars

\* What has been begun goes on, workers are scheduled, and of those that wait
\* for a handle somebody gets one while there is one.
FairSpec ==
  /\ Spec
  /\ WF_vars(Proceed)
  /\ \A w \in Workers : WF_vars(Work(w))
  /\ WF_vars(\E w \in Workers : Acquire(w))
-----------------------------------------------------------------------------
Stages == {"calling", "pooling", "loaded", "looping", "unwinding",
           "closing", "joining", "deleting", "exiting", "emptying", "gone",
           "terminated"}
WorkerStages == {"none", "idle", "waiting", "stuck", "holding", "exited"}
Fds == -1..(2 * (MaxCalls + 4) + 1)

TypeOK ==
  /\ caller \in Callers /\ stage \in Stages /\ calls \in 0..(MaxCalls + 4)
  /\ mPool \in {"none", "started", "broken"} /\ isClose \in BOOLEAN
  /\ queue \subseteq Conns
  /\ pc \in [Workers -> WorkerStages]
  /\ task \in [Workers -> Conns \cup {None}]
  /\ guard \in [Workers -> Handles \cup {NULL, None}]
  /\ isblock \in BOOLEAN
  /\ conlist \in Seq(Handles \cup {NULL})
  /\ opened \in 0..ConNum /\ closed \subseteq Handles
  /\ msql \in [Conns -> Handles \cup {NULL}]
  /\ sql \in Handles \cup {NULL, None}
  /\ users \in {"none", "live", "deleted"}
  /\ mLfd \in Fds /\ epollFd \in Fds /\ connEpfd \in Fds /\ open \subseteq Fds

InTask == {w \in Workers : pc[w] \in {"waiting", "stuck", "holding"}}

\* A worker in a task works on connection objects that exist: the array is
\* made before the first task and deleted after the last, whatever failed.
UsersOutliveTasks == InTask # {} => users = "live"

\* No path of eventListen() leaves a descriptor open that no member holds,
\* nor a member that holds a closed one; so the destructor closes all, once.
DescriptorsAccounted == open = {mLfd, epollFd} \ {-1}

\* Whoever runs the loop, in whatever order it made its calls, there are
\* objects to accept into, and workers re-arm in the epoll set the loop waits
\* on; and main() starts to serve only with all workers and all handles.
LoopIsReady ==
  stage = "looping" =>
    /\ users = "live" /\ mLfd # -1
    /\ connEpfd = epollFd /\ epollFd \in open
    /\ caller = "main" => /\ mPool = "started" /\ \A w \in Workers : pc[w] # "none"
                         /\ isblock /\ opened = ConNum

\* The places of handle h: pool, objects, guards, initAllResult().
Places(h) ==
    {<<"pool", i>> : i \in {j \in 1..Len(conlist) : conlist[j] = h}}
    \cup {<<"object", c>> : c \in {d \in Conns : msql[d] = h}}
    \cup {<<"guard", w>> : w \in {v \in Workers : guard[v] = h}}
    \cup (IF sql = h THEN {<<"sql", h>>} ELSE {})

\* A connected handle is in one place until it is closed, and then in none:
\* no failure of init() or initAllResult() loses or doubles one, and
\* DestroyPool() closes none that a worker or an object still has.
HandlesAccounted ==
  \A h \in 1..opened : Cardinality(Places(h)) = (IF h \in closed THEN 0 ELSE 1)

\* The destructor returns although workers may wait for a handle, provided
\* that the pool ever got one and no waiter was lost; then the process ends.
\* (For two handles or more, as sql_pool() asks for eight: with one, it may be
\* in an object when initAllResult() is given NULL and returns nothing.)
ShutdownEnds ==
  /\ stage = "joining" /\ opened > 0 /\ (\A w \in Workers : pc[w] # "stuck")
       ~> stage # "joining"
  /\ stage \in {"exiting", "emptying"} ~> stage = "gone"
=============================================================================
