# A TLA+ model of simplechatserver

`simplechatserver` is a chat server in C++: one event loop over epoll, a pool of
worker threads that read, parse and answer, and a pool of MySQL handles; beside it
stand a logger and a thread-per-client server for a Qt client. This directory models
their concurrent behaviour from the first call to the end of the process, checks it
with TLC on small instances, and proves its safety with TLAPS for instances of every
size.

## 1. The system

| Component | Source | State | Operations |
|---|---|---|---|
| Event loop | `simplechat.cpp` | epoll set, listening socket, batch of events, `users[MAX_FD]` | `eventLoop`, `handleRead`, `handleWrite`; before it `init`, `thread_pool`, `sql_pool`, `eventListen` |
| Connection | `request/tcp_conn.cpp` | `m_fd`, `m_buf`, `alllen`, `m_writebuf`, `m_sql` | `read_once`, `parseData`, `sendData`, `update_events`, `cleanAllData`, `initAllResult` |
| Thread pool | `thread/threadpool.h` | task queue, semaphore, `isClose`, threads, function table | `start`, `append`, `work`, `close`, destructor |
| Queue | `safequeue/safequeue.h` | list, mutex, semaphore, `isblock` | `push`, `pop`, `pop(num)`, `push_b`, `pop_b`, `setblock`, `front`, `empty`, `size`, `isFull` |
| Start-up and shutdown | `main.cpp`, `simplechat.cpp`, the event loop test | which calls were made, what is open, allocated, connected | the order of the calls, their exceptions, `~SimpleChat`, `DestroyPool` at exit |
| Handle pool | `sql/sqlconnectionpool.cpp` | a blocking queue of `MYSQL*` | `init`, `GetConnection`, `ReleaseConnection`, `DestroyPool`, the guard `sqlRAII` |
| Logger | `log/log.cpp`, `log/log.h` | file, day, line count, shared buffer, queue | `init`, `write_log`, `flush`, the flush thread (the server does not use it) |
| Bounded queue | `log/block_queue.h` | a ring, its indexes, mutex and condition variable | `push`, `pop` with and without a time limit, `clear`, `front`, `back`, queries |
| Qt server | `communicate_qt.cpp` | a thread per client | `main`, `handle_client` (a program of its own) |

`log/serverlog.cpp` does not compile and is used by nothing, `requestparse.*` and
`global.hpp` are empty, `json/json.hpp` is vendored, `learn/` and the tests are
drivers. `PROJECT.json` lists them with the reason.

**How the parts interact.** The event loop accepts a connection, gives its object
its descriptor and arms it with `EPOLLIN | EPOLLRDHUP | EPOLLONESHOT`. An event
disarms the descriptor; the loop closes it (hang-up) or appends a task, the object
and 0 (read) or 1 (write), to the pool. A worker takes the task. `read_once` takes a
MySQL handle for its duration, reads until EAGAIN, parses the buffer, writes the
reply into `m_writebuf`, re-arms the descriptor for writing, and then clears its
buffer. `sendData` writes the reply and re-arms the descriptor for reading. There
is no lock on a connection: that an event disarms it and that only the last step of
a task re-arms it is the whole protocol.

**What is hard.** Who owns a connection at any moment; what `read_once` still does
after it has re-armed it; descriptors closed and reused while old tasks finish;
objects that are reused uncleared; a byte stream with no framing; a semaphore and a
queue, or a size test and a push, in separate unlocked steps; shutdown of threads
that may be anywhere in their loop; handles taken and given back by overlapping
reads; calls that throw half-way, in an order the code only partly enforces, and a
destructor that joins workers which wait for one another's handles; a log file that is
rotated between the steps of a writer, by a day read before the lock; descriptors of
the Qt server that one thread closes and another is given. `PROJECT.json` lists these
hazards at their lines.

**What makes each part correct.** Queue: an atomic FIFO, whose `pop_b` always finds
its element. Thread pool: every accepted task runs once, in order; no lost wake-up;
`close` stops everybody. Server: one owner per connection; a buffer never
overrun; replies reach the client that asked; no open connection without
somebody to serve it; no handle lost; every request answered. Start-up: the loop never
runs unprepared, and every failure leaves descriptors and handles accounted for.
Shutdown: objects outlive the tasks on them, and it ends. Logger: no line lost (but
where the code drops it), doubled or out of order, each under its day. Qt server: one
reply per line, on the thread's own connection.

## 2. The modules

| Module | What it is |
|---|---|
| `BlockingFifo` | abstract: a FIFO whose operations are atomic and whose waiting takers are served |
| `SafeQueue` | `safequeue.h`, per thread and stage; implements `BlockingFifo` |
| `SafeQueue_proofs` | its theorems |
| `TaskService` | abstract: tasks are accepted, started in order by at most so many workers, finished once; shutdown |
| `ThreadPool` | `threadpool.h`; implements `TaskService` |
| `ThreadPool_proofs` | its theorems |
| `ChatServer` | the running server: event loop, workers in `read_once` and `sendData`, guard, with clients and kernel |
| `ChatServer_proofs` | its theorems about types, owners, buffers and handles |
| `ChatReplies_proofs` | its theorems about requests and replies; extends the former |
| `BoundedQueue` | abstract: a FIFO of limited size whose takers wait or, with a time limit, give up |
| `BlockQueue` | `log/block_queue.h`; implements `BoundedQueue` |
| `BlockQueue_proofs` | its theorems |
| `Lifecycle` | start-up, failures, shutdown of the server, with its workers and the handle pool |
| `Lifecycle_proofs` | its theorems |
| `Log` | `log.cpp` over a bounded queue |
| `Log_proofs` | its theorems |
| `CommunicateQt` | `communicate_qt.cpp` with its clients |
| `CommunicateQt_proofs` | its theorems |
| `MCSafeQueue`, `MCThreadPool`, `MCChatServer`, `MCLog`, `MCCommunicateQt` | constants for TLC |

The modules meet where one relies on what another shows. `ChatServer` and `Lifecycle` take
the task queue and the handle pool as atomic FIFOs, which is what `SafeQueue` implements;
`Log` takes its queue as a bounded FIFO, which is what `BlockQueue` implements; `ChatServer`
takes for granted what `Lifecycle` shows at the moment the loop begins (`LoopIsReady`), and
`Lifecycle` takes for a task what `ChatServer` has in detail.

A definition whose name is that of another with a word more (`PushNoPost`,
`NoDisarm`, `ClearLenForgotten`...) is a mutated form of it: a plausible bug, used
to see that a property notices it. The specifications do not use them.

### SafeQueue

`pc` is the stage of each thread: `wait` (in `sem_wait`), `lock`, `crit` (holding the
mutex), `post` (before `sem_post`). The body of a critical section with its unlock is
one action, for nobody sees the middle of it. `ret` and `thrown` are what the call
gave back. `sem` starts as an arbitrary value: the code initialises it in `setblock`.
The callers keep to one of the two families of operations (`family`, chosen at the
start), as the class comment demands (`Allowed`). `setblock` may be called twice, and `sem_init` may fail.

### ThreadPool

One owner thread (in the server, the main thread) and the workers. `append` is three
steps (size, push, post), `work` five (`isClose`, `sem_wait`, `empty`, `pop`, the
function); the queue's own operations are atomic, which is what `SafeQueue` shows.
`close` posts the semaphore once per thread; the destructor calls it (again) and
joins. `pthread_create` may fail in the middle of `start`. `sleep(1)` is only a delay.

### ChatServer

A descriptor `f` has `peer[f]` (the client), `ep[f]` (not registered, disarmed, armed
for READ or WRITE) and its connection object `buf`, `alllen`, `wbuf`, `msql`. The
loop is in `epoll_wait`, working through a batch, or in the accept loop. A worker is
at the step `wpc[w]` of its task:

    idle -> guard -> check -> read -> parse -> arm -> clearbuf
         -> clearlen -> release -> idle            (read_once)
    read -> store -> count -> end -> read          (lines 85, 86 and 87 of tcp_conn.cpp)
    idle -> write -> clearw -> rearm -> idle       (sendData)

Every step is one access to something another thread may touch; a `memcpy`, a `memset` and the
parser's pass over `m_buf` are one access each. `alllen` is a plain variable that a late read may
reset at any moment: `Count` and `Terminate` use it as it is in memory or as the worker had it in
a register (`wlen`), whichever the compiled code does. A request is a
sequence of *cells*, the pieces TCP may deliver apart; `json::parse` accepts exactly one
whole request and throws otherwise, which ends the process (`alive`), as nothing catches
it in the worker's thread. The events of a batch are handled in any order: the kernel
promises none.

Abstractions, and why they lose nothing the properties see: one `epoll_wait` reports
everything that is ready (1024 events at most in the code); the kernel's answer to a
write is immediate (replies are a few bytes, the socket is not full); what is available
at once is taken to fit the 100 bytes of `sempbuf` (`SempSize`, a guard of `Send`), while `m_buf`
has `BufSize` cells; the task queue and the handle pool take effect
atomically. `AddFails` says whether `EPOLL_CTL_ADD` may fail (`Refuse`). `sem_wait` and `epoll_wait` are not interrupted: no signal handler is
installed. Elsewhere than in `Count` and `Terminate`
a read of a member is taken where the source has it.

### BlockQueue

`array`, `size`, `front`, `back` are the members `m_array`, `m_size`, `m_front`, `m_back`. Every
access is under the mutex, so a critical section, up to its unlock or to the wait that
releases it, is one action. A popper that finds nothing is `asleep` until a broadcast or a
spurious wake-up makes it `woken`; a timed one may also time out, at any moment, because the
deadline the code computes is mostly in the past. `locker` and `cond` are not in the
repository: they are taken to return whether the pthread call succeeded.

### Lifecycle

`stage` is what the main thread is doing: between calls, connecting handles, loading the users
table, in the loop, in the destructor (`unwinding`, `closing`, `joining`, `deleting`), in
`DestroyPool` at exit, or ended. There are three callers: `main.cpp`, where an exception ends the
process; the event loop test, which catches it (so that the object is destroyed) and leaves by
`_exit`; and one that makes the calls in any order, again after a failure too, for which the code
has guards (`simplechat.cpp:60, 121, 127`). Each failing line is an action: `pthread_create`
after some threads run, `setblock` called twice, a handle that cannot be connected, a query that
fails, and each of `socket`, `bind`, `listen`, `epoll_create`, `epoll_ctl`, `epoll_wait`. Workers take
tasks and handles meanwhile; a connection may have a second task while a worker that has re-armed
it still holds its handle (`HandleRead`). `users->initAllResult()` is called through a null pointer in
`main`; it touches no member, and the model lets it run.

The class is compiled with `users` as a plain array: `UsersOutliveTasks` is what makes the
`delete[]` of the destructor safe. A pool whose `start()` failed has deleted its vector of
threads; if the object is destroyed then (which needs a caller that catches), the model ends the
process (`ClosePool`).

### Log

A writer goes through the critical sections of a `LOG_` macro (`count`, `format`, the queue or
`direct`, `flush`); each is one action, because `m_mutex` is released between them. `full()` and
`push()` are two steps. A line is its writer, its number and the day `write_log` read before it
had the mutex. `m_today` is a day of the month (`tm_mday`), and so is what it is compared with,
while a file's name has the whole date: `Mday` gives the day of the month of every day, for any
calendar. `stdio` is what `fputs` has put into the buffer of `m_fp`, `disk` what a flush or
a close has written, each record with the file it went to. `fopen` may fail at a rotation and
the flush thread may not exist, as the answer of `pthread_create` is ignored. Lines are taken to fit `m_buf`
(`vsnprintf`'s answer is used unchecked, line 138), and `localtime`'s static result to be
read before another thread overwrites it.

### CommunicateQt

`main` accepts into the lowest free descriptor and makes a thread, or fails to; the thread fetches
its argument, reads, answers, and closes. A line is a sequence of cells, the last one with the
newline; what the server makes of a read that is not one whole line is one of the outcomes
of `Kinds`. Clients may close or reset at any moment, the rude ones also split and join lines; a
`send` to a peer that has reset may end the process by SIGPIPE.

## 3. The runs

| Run | What it shows | Bounds |
|---|---|---|
| `safequeue` | in either family of operations: `pop_b` finds its element, the semaphore counts the elements, mutex released, refinement of `BlockingFifo` with its fairness; `pop(num)` with counts negative, small, too large | 3 threads, 2 values, 2 elements |
| `blockqueue` | the indexes are one ring, nobody sleeps beside an element, refinement of `BoundedQueue` with its fairness | 3 threads, 2 values, 2 cells |
| `threadpool` | semaphore counts tasks, queue bounded, shutdown completes, refinement of `TaskService` | 3 workers, queue limit 2, 3 tasks |
| `chat_polite` | whole requests, one at a time, no departures, one handle: nobody orphaned, what is parsed is a whole request, every request answered | 3 clients (one silent, one refused), 2 workers, queue limit 2 |
| `chat_overlap` | one owner, handles conserved, no overrun, replies to the right client in order, no connection abandoned but for the reasons `NobodyAbandoned` lists | 2 clients that split, pipeline, close and reset, 2 workers, 2 handles, queue limit 1, buffer of 3 cells, failing `EPOLL_CTL_ADD` |
| `lifecycle` | what is left after every failure; the loop is prepared; objects outlive tasks; handles accounted for; shutdown ends | 3 callers, 5 calls in any order, 2 workers, 2 connections, 2 handles |
| `log` | no line doubled or misplaced, synchronous lines durable, order, files bounded, accepted lines written; a lone writer's lines filed by day unless it rests for exactly a month | 2 writers, 3 lines, 3 days of which the first and the third are the same day of two months, queue of 2, 2 lines per file |
| `qt` | each thread on its own connection, none left open, one reply per line, everybody served | a polite client with 3 lines, a rude one with 3, 2 descriptors, reads of 3 cells |

Three threads are the least that let one disturb a second that a third has released; two
clients and two descriptors the least for one client's event to be dropped for another's;
a client that leaves and is followed by another reuses its descriptor and object. A queue limit of 1 makes
the full queue a frequent case, a buffer of three or four cells makes it fill up. Messages
are two cells, so that one may arrive in two pieces.

Two cells make every second push wrap around and the full ring a frequent case. Five calls
are one more than `main` makes, so that each may fail once, or be repeated, before the loop
and the destructor; a handle per worker lets both be in a task, one handle left in the pool or
none. Two lines per file make a rotation by count and one by day fall together or apart.

`CHECK_DEADLOCK FALSE` stands where everything may come to rest: a server all of whose
clients are silent, a blocking queue all of whose threads wait in `pop_b`, a process that has
ended, a log whose lines are all written.

`chat_polite` states *when* the server serves everybody, and the runs that follow show
what goes wrong otherwise. With two workers and two handles a late wipe (below) may swallow
a request, so that `RepliesMatch` does not promise a reply to every request; with a single
handle `sqlRAII` serialises the reads and this cannot happen. The server has eight
(`simplechat.cpp:72`): `chat_polite` is a statement about a configuration, while the runs
with two handles let reads overlap as they do in the server.

What holds in spite of the late wipe is checked by `chat_overlap`, and proved:
one owner, no overrun, no handle lost, no connection abandoned but for the reasons named, and no
reply twice. The last needs one condition: three workers on one object break it when `EPOLL_CTL_ADD`
fails (below); `chat_overlap` lets it fail too, but has too few workers for this.

**Disagreements found.** Each run below expects a violation, of what a comment or a test of
the repository says:

| Run | What the code does |
|---|---|
| `chat_late_wipe` | clears the buffer after re-arming: the next request is wiped and an empty buffer parsed |
| `chat_null_handle` | gives the pool the object's old handle, at first NULL: reads get NULL handles |
| `chat_break` | drops the events that follow a hang-up in the batch; their clients wait for ever |
| `log_today` | compares and stores a day read before the mutex: the log goes back to yesterday's file |

Others are in the models, and in no run of their own:

- A request that arrives in two segments is parsed after the first one, and the parser's exception
  ends the server, although `request/tcp_conn.cpp:62` says 一次读完 (read all at once).
- A request that fills `m_buf` makes the next `read` ask for 0 bytes; its 0 is reported as
  对方断开连接 (the peer has disconnected, `request/tcp_conn.cpp:69`) and a client that stays is
  dropped, its descriptor open. `MayAbandon` has it among its reasons.
- When `EPOLL_CTL_ADD` fails, `cleanAllData()` (`simplechat.cpp:165`) clears the object of a descriptor
  whose last connection a worker may still have to wipe. That wipe then falls between the `memcpy` and
  the count of a third read: the zero of 确保字符串以 null 结尾 (make sure the string ends with null,
  `request/tcp_conn.cpp:87`) cuts off what was appended, and the request before it is parsed and answered
  twice. TLC finds it with 3 clients that send `Eager`, 3 workers, 3 handles, 1 descriptor, `BufSize` 3,
  `SempSize` 2, `MaxRequest` 1, and `Pipelining`, `MayClose`, `MayReset` and `AddFails` TRUE;
  with `AddFails` FALSE `RepliesMatch` holds there, as `RepliesInOrder` says.
- A log that rests until the same day of a later month goes on in the old file: only days of the month
  are compared (`log/log.cpp:101`), although `m_today` 记录当前时间是那一天 (records which day it is now,
  `log/log.h:57`). `LoneWriterFiled` promises a line its day only in a log that is `Steady`.
- `block_queue::front()`, 返回队首元素 (the element at the head, `log/block_queue.h:76`), reads the
  cell before it.
- `communicate_qt.cpp:26` says 按换行符分割，避免粘包 (splits at newlines, to avoid joined packets);
  the rest of a read after its first newline is discarded. `LineByLine` is therefore stated for
  clients that wait for a reply before the next line.
- `maxrequest` limits the queue of the thread pool, while `threadpool.h:26` calls it the largest
  number of threads.
- `accept` "initialises" a connection object (the comment at `simplechat.cpp:158`) by its
  descriptor only; `chat_overlap` shows that what the last client left there reaches nobody else.
- Without `thread_pool()`, as in `tests/simplechat_eventloop_test.cpp`, no request is ever read.
- The destructor waits for ever for a worker in a task if the handle pool never got a handle, and
  may if `sql_pool()` came after the first tasks, because it initialises a semaphore that has
  waiters; `ShutdownEnds` names both conditions. `main` is exposed to neither. The property is
  about two handles or more (the code has eight): with one, a worker may leave it in an object and
  give NULL back before `initAllResult` asks, which gives nothing back after a NULL.
- Asynchronous lines may be lost without a trace: another writer takes the room between `full()`
  and `push()`, whose answer is ignored. The theorem `LoneLosesNothing` says when this
  cannot happen.

**Fairness.** `SafeQueue`: weak for a thread inside an operation, strong for acquiring
the mutex (it is released again and again, and glibc's mutex does not pass one waiter over
for ever while the others come and go in finite numbers), weak for "somebody returns from
`sem_wait`": nothing says who. `BlockQueue`: weak for a thread that is not asleep; none for a time-out or a
spurious wake-up. `ThreadPool`: weak for the steps of a worker, for somebody's
`sem_wait`, and for what the owner has begun; appending, closing and destroying are its own
decisions and get none. `ChatServer`: weak for the loop and for each worker; none for the
clients. `Lifecycle`: weak for what the main thread has begun and for each worker; weak for
"some worker that waits for a handle gets one"; none for making a call, nor for `epoll_wait` to
fail. `Log`: weak for each writer inside a macro and for the flush thread; none for logging or for
midnight. `CommunicateQt`: weak for `main` and for each thread; none for the clients.

## 4. The proofs

Every invariant that a passing run checks is also a theorem, for every value of the constants
that the assumptions allow, except `ParsesWholeRequest` and `NoOrphan`, which hold in the
configuration of `chat_polite` only; and so are the action property `NobodyAbandoned` and
the safety part of each of the three refinements. A theorem
`Spec => []P` is proved from an inductive invariant, which TLC checked on the instance of the
run before it was proved; what that invariant adds to `P` is what the rest of this section is
about.

**SafeQueue** (`SafeQueue_proofs`), for every finite set of threads and any values:
`TypeCorrect`, `SemAccounting`, `PopBNeverThrows`, and `Refinement`, that every step is a step of
`BlockingFifo` or a stutter. The invariant is `QueueInv`. `PopBFindsElement` is not inductive
by itself: it needs the count (`SemCountsElements`), which needs to know in which stages a
thread has an operation (`StageOfOp`) and that no element enters the list before `setblock`
(`OneFamily`). The count is carried over a step by `CountersMove`, about how the
cardinalities of `Claiming` and `Posting` change when one thread moves.

**BlockQueue** (`BlockQueue_proofs`), for any threads and values and a ring of any size:
`TypeCorrect`, `OneRing`, `NoLostWakeUp` and `Refinement`. The invariant `RingInv` adds to the
three invariants that an element has a cell (`BackIsCell`), which the congruence of the indexes
alone does not say. `Turn` and `Wrapping` are the arithmetic of going round. The refinement maps
the ring to the sequence of its elements: a push appends to it and a pop takes its head, also when
the index wraps. It needs to know besides which thread is in which call (`CallInv`: only a pop
waits, a push has its argument, no answer is there before the call returns).

**ThreadPool** (`ThreadPool_proofs`), for every finite set of workers, any limit and any tasks:
`TypeCorrect`, which includes that the queue keeps its limit, `SemAccounting`,
`NoSpuriousWakeUp`, and `Refinement`, that every step is a step of `TaskService` or a stutter. The
invariant is `PoolInv`: the types, what the owner knows at each stage
(`OwnerInv`: between its test and its push there is room, for only it pushes), that nothing is
appended after a close (`ClosedStays`) and that a worker has a task when it executes one
(`TaskInHand`). `ClaimingMove` says how the number of claimed units changes when one worker moves.

**Lifecycle** (`Lifecycle_proofs`), for any workers, connections, handles and number of calls in
any order: `TypeCorrect`, `ObjectsOutliveTasks`, `NoDescriptorLost`, `LoopPrepared` and
`HandlesNeverLost`. The invariant `LifeInv` adds to the types what a worker has in hand
(`HandInv`), what a set `epoll_fd` says (`OpenInv`), when all workers have stopped (`UsersInv`),
and how far `main` is (`MainInv`). `UsersOutliveTasks` rests on all of them: a task comes from the
loop, the loop needs `epoll_fd`, this implies objects, and the objects are deleted only where the
invariant says that every worker has stopped. `StageMove` says which steps lead into the stages the
invariants speak of. For the handles, `HandlesInv` counts the places of each (`PlacesInv`: at most
one, and one exactly if it was connected and not closed) and says that a guard outside its scope
holds nothing (`EmptyHanded`), without which a second guard could overwrite a handle.

**ChatServer** (`ChatServer_proofs`), for every number of clients, finite set of workers, and any
descriptors, handles and buffer size: `TypeCorrect`, `OneOwner`, `NoOverrun`, `HandlesKeptApart` and
`OnlyNamedGaps`. The invariant of the first three is
`ServerInv`, the conjunction of `TypeOK`, `TaskInHand`, `ExclusiveOwner` and, per worker, `Fits`,
which is `ReadFits` and what it needs while a count is in a register: `alllen` is never above it. They
need each other: the bound of `alllen` in `TypeOK` is `Fits` before the count; `Fits`
survives another worker's count only because of `ExclusiveOwner`; and `ExclusiveOwner` says that the
peer of a connection in hand exists, which the types of a read need. Most steps move
ownership along and are covered by `OwnerKept`; the two that re-arm by `OwnerRearms`. `NoOverrun`
holds *although* workers in `clearbuf` and `clearlen` write to objects they no longer own: they
only ever shrink `alllen`. `HandlesKeptApart` follows from `HandlesInv`: a handle is in one place,
and there once (`OnePlace`), whichever guards overlap and in whatever order they give back.

`OnlyNamedGaps` is about a step: a connection that is armed, in the batch, queued or with a worker is
so after it, or is closed, or one of the reasons of `MayAbandon` is at hand. `HeldInv` says
that a connection in the batch, in the queue or with a worker is disarmed but still registered, without
which `update_events` would fail and nobody notice. That *all* connections are attended (`NoOrphan`) is false
of this server, for the reasons named; it is checked where they are absent (`chat_polite`).

**Replies** (`ChatReplies_proofs`), on top of `ServerInv`, for any scripts, splittings, departures,
handles and buffers: `RepliesInOrder`, as long as `EPOLL_CTL_ADD` does not fail (`~AddFails`; it is
false otherwise, section 3). One may expect this to rest on the clearing of `m_buf`; it does not,
for that comes too late, and a read may append to what an overlapping read left, and have its count
reset before or after its terminating zero is written. What saves the client is, first,
that the text then parsed is either empty, and throws, or begins with cells of which at least
one was read just now; and as the parser accepts a whole request only, the whole request is
new. `RepliesInv` says so: the stream of a client is in the order of its script (`StreamInv`), what is in
a buffer has been taken off the stream (`ConsumedInv`), a buffer that begins with a cell is filled
to `alllen` (`PrefixFilled`), a client has one descriptor (`PeersInv`), replies so far are older than
anything still to be read (`GotInv`), and an armed connection, an event, a task or a worker at
each of its steps is about a request not yet answered (`FreshInv`). Second, the zero behind the
cells: it stands at `alllen`, unless the first cell is a zero already (`EndedInv`), which needs that a late
read resets `alllen` only after it has wiped the first cell. And third, while somebody is late with an
object, whoever else reads it holds more than the request it begins with, or begins behind zeros,
and does not parse (`LateInv`, `ParsesAlone`); so there is one late read to an object, for a second one
would have had to parse. A failed `EPOLL_CTL_ADD` breaks the third part, as it clears the object.

**Log** (`Log_proofs`), for every finite set of writers, any number of lines and days, any queue and
file sizes and any calendar: `TypesCorrect`, `LinesWrittenOnce`, `OvertakingIsDirect`, `SynchronousIsDurable`,
`LoneLosesNothing`, `LoneLinesFiled` and `FilesHoldSplitLines`. `LinesInv` says whose line a writer at work has (`OwnLines`),
that a synchronous log uses no queue (`Synchronous`), and that `m_count` counts lines
begun (`Bounded`). `TrailInv` looks at the *trail*, what has been handed to a file followed by what is on
the way to one: a line is there once its writer is past handing it over, never twice, and
an earlier line behind a later one of its writer only if the later one went `direct`. For the
synchronous log `DurableInv` says where a line is at each stage; for a lone writer `LoneInv` adds
that the room `full()` reported is there at `push()` (`LoneLosesNothing` is proved and in no run), and `FiledInv` that `m_fp` is the file of
`m_today` and `m_count`, and has a line for every line counted since it was opened. `LoneLinesFiled` promises
the day of the month always, and the day itself only to a log that never rests for exactly months
(`Steady`): without that it is false (section 3). `FilesHoldSplitLines` bounds a file by `m_split_lines`
and the lines that are past the rotation when it happens.

**CommunicateQt** (`CommunicateQt_proofs`), for any clients, descriptors and scripts: `TypesCorrect`,
`ThreadsOwnConnection`, `NoConnectionLeftOpen` and `OneReplyPerLine`. `ConnInv` says where a
connection is on its way from the backlog through `main` and the box to its thread, and that a
client has one descriptor at most; `TalkInv` where the one line of a polite client is, from the
socket to the reply.

**Assumptions.** Those on the constants, each evaluated by TLC in the run of its module:
`SafeQueueAssumption`, `BlockQueueAssumption`, `ThreadPoolAssumption`, `LifecycleAssumption`,
`ChatServerAssumption`, `LogAssumption` and `CommunicateQtAssumption`. They say that threads (or
workers, or writers) are finite sets where they are counted, that limits and sizes are positive numbers where the code's are,
and that the marks for "nothing" (`NoClient`, `NUL`, `NoReply`, `NoLine`) are none of the things
they are told from.

**Only model-checked**: `ParsesWholeRequest` and `NoOrphan`, false of the server in general (see the
runs `chat_late_wipe` and `chat_break`) and checked for `chat_polite`; and what is temporal: `LockReleased`, `ShutdownCompletes`,
`ShutdownEnds`, `AcceptedIsWritten`, `Served`, `RequestsAnswered`, and the fairness that `ImplementsFifo`,
`ImplementsBoundedQueue` and `ImplementsService` promise beyond the safety parts proved here. The prover
does not reason about fairness and ENABLED.

## 5. Not modelled

- The branches `mode == 1` and `cstate == ET` of `read_once`: they are dead, as `mode` is the
  constant 0 and `SimpleChat::init` sets `cstate` to `LT`. `remove_fd` is never called.
- What a read of more than the 100 bytes of `sempbuf` does, what a line longer than `m_buf` does, and
  what the destructor of a pool does whose `start()` failed: the outcome depends on the compiler
  and the heap. The first two are left out, the last is the end of the process.
- The map `initAllResult` fills: nobody reads it.
- The end of the process in `Log` (the destructor closes the file while the flush thread may be
  writing), and `init` failing: the macros are used after `init` returned true.
- Descriptors left open by `read_once` at end of file (`request/tcp_conn.cpp:73`): the model leaks
  them as the code does; no property says that they are closed, for they are not. The destructor
  leaves the clients' descriptors and the handles of the objects open in the same way.
- The race of `setlocale` and `mbstowcs` in `communicate_qt.cpp`: a matter of the C library.
- `log/serverlog.cpp`, which does not compile (it uses a constructor and a `pop_b` that `SafeQueue`
  does not have); `requestparse.*` and `global.hpp`, which are empty; `json/json.hpp`, 21,000 lines of
  a vendored library, of which `ChatServer` models what `parseData` needs: it accepts one whole
  document and throws otherwise; `learn/` and the tests, which are exercises and drivers (lines
  57-177 of `learn/servertest.cpp` are a copy of `communicate_qt.cpp`). With these the repository's
  own concurrent code is covered; most of its lines are the vendored library's.

## 6. Plan

What remains unproved is temporal, and out of the prover's reach, or false in general (section 4). When the
code changes, the model comes first: a fix of the late wipe (clear, then re-arm), for example, should let
`RepliesInOrder` go without `~AddFails` and most of `LateInv`, and make `ParsesWholeRequest` a theorem for
clients that send whole requests, with any number of handles. Worth
stating next is that the connection objects keep to the queue and the handle pool exactly as `BlockingFifo`
describes them, so that the atomic queues of `ChatServer` and `Lifecycle` become instances of it.
