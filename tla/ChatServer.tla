----------------------------- MODULE ChatServer -----------------------------
(***************************************************************************)
(* The running server: SimpleChat::eventLoop (simplechat.cpp), the workers *)
(* of the thread pool in tcp_conn::read_once and sendData                  *)
(* (request/tcp_conn.cpp), the sqlRAII guard around each read              *)
(* (sql/sqlconnectionpool.cpp), and, external, the kernel and the clients. *)
(*                                                                         *)
(* The event loop arms a connection with EPOLLONESHOT: an event disarms it *)
(* and it stays silent until a worker re-arms it.  That, and no lock, is   *)
(* what keeps two threads off one tcp_conn.  The task queue and the handle *)
(* pool take effect atomically here (modules ThreadPool and SafeQueue).    *)
(*                                                                         *)
(* A request is cut into cells, the smallest pieces TCP delivers apart;    *)
(* buffers hold cells.  What is available at once is taken to fit sempbuf  *)
(* (Send), and a reply a socket's send buffer.                             *)
(***************************************************************************)
EXTENDS Integers, Sequences, FiniteSets

CONSTANTS Clients,     \* the peers; each connects at most once
          Workers,     \* the threads of the pool
          NumFds,      \* the descriptors 1..NumFds the process may have open
          MaxFd,       \* MAX_FD - 1: accept closes those above it at once
          NumHandles,  \* MYSQL connections the handle pool was filled with
          BufSize,     \* MAXREADLEN, in cells
          SempSize,    \* the 100 bytes of sempbuf, in cells
          MaxRequest,  \* the limit of the pool's task queue
          Script,      \* per client, the kinds of the requests it sends
          Size,        \* per kind, how many cells such a request has
          Split,       \* clients may send a request in several pieces
          Pipelining,  \* clients may send before the last reply came
          MayClose,    \* clients may close their connection
          MayReset,    \* clients may reset their connection
          AddFails,    \* EPOLL_CTL_ADD may fail
          NoClient, NUL, NoReply

Kinds == {"login", "register", "message", "unknown"}

\* A cell of a request, and the reply to one.
Cells   == [c : Clients, n : Nat, i : Nat]
Replies == [c : Clients, n : Nat]

ASSUME ChatServerAssumption ==
  /\ IsFiniteSet(Workers)
  /\ NumFds \in Nat /\ MaxFd \in Nat /\ NumHandles \in Nat
  /\ BufSize \in Nat \ {0} /\ SempSize \in Nat /\ MaxRequest \in Nat
  /\ Script \in [Clients -> Seq(Kinds)]
  /\ Size \in [Kinds -> Nat \ {0}]
  /\ NoClient \notin Clients /\ NUL \notin Cells /\ NoReply \notin Replies
  /\ {Split, Pipelining, MayClose, MayReset, AddFails} \subseteq BOOLEAN

Fds     == 1..NumFds
Handles == 1..NumHandles
NULL    == 0

\* The cells of request number n of client c, and the reply to it.
Cell(c, n, i) == [c |-> c, n |-> n, i |-> i]
Reply(c, n)   == [c |-> c, n |-> n]
SizeOf(c, n)  == Size[Script[c][n]]

VARIABLES
  cstate,   \* per client: "new", "open", "fin" or "rst" (it is gone, the
            \* server may not know), "gone" (the server closed its end)
  next,     \* per client, the request and the cell it sends next
  rx,       \* per client, the cells the server has not read
  got,      \* per client, the replies it received
  backlog,  \* the connections not yet accepted, oldest first
  peer,     \* per descriptor, the client it is connected to, or NoClient
  ep,       \* per descriptor: "none" (not registered), "off" (disarmed by
            \* EPOLLONESHOT), or armed with "READ" or "WRITE"
  lpc,      \* the event loop: in "wait" (epoll_wait), "batch" or "accept"
  batch,    \* the events of the last epoll_wait not yet handled
  queue,    \* the pool's tasks, oldest first
  wpc,      \* per worker, the step it is at
  wfd,      \* per worker, the connection of its task
  wold,     \* per worker, sqlRAII's m_sql
  wtmp,     \* per worker, sempbuf: what its last read() returned
  wlen,     \* per worker, the new alllen as it has it in a register
  buf,      \* per connection object, m_buf
  alllen,   \* per connection object, alllen
  wbuf,     \* per connection object, m_writebuf
  msql,     \* per connection object, m_sql
  free,     \* the handle pool's list, oldest first
  alive     \* the process has not been terminated

clientVars == <<cstate, next, rx, got>>
loopVars   == <<lpc, batch>>
workVars   == <<wpc, wfd, wold, wtmp, wlen>>
connVars   == <<buf, alllen, wbuf, msql>>
vars == <<clientVars, backlog, peer, ep, loopVars, queue, workVars, connVars,
          free, alive>>

Zeros == [i \in 1..BufSize |-> NUL]

Init ==
  /\ cstate = [c \in Clients |-> "new"]
  /\ next = [c \in Clients |-> [n |-> 1, i |-> 1]]
  /\ rx = [c \in Clients |-> <<>>]
  /\ got = [c \in Clients |-> <<>>]
  /\ backlog = <<>>
  /\ peer = [f \in Fds |-> NoClient]
  /\ ep = [f \in Fds |-> "none"]
  /\ lpc = "wait"
  /\ batch = {}
  /\ queue = <<>>
  /\ wpc = [w \in Workers |-> "idle"]
  /\ wfd = [w \in Workers |-> 0]
  /\ wold = [w \in Workers |-> NULL]
  /\ wtmp = [w \in Workers |-> <<>>]
  /\ wlen = [w \in Workers |-> 0]
  /\ buf = [f \in Fds |-> Zeros]
  /\ alllen = [f \in Fds |-> 0]
  /\ wbuf = [f \in Fds |-> NoReply]
  /\ msql = [f \in Fds |-> NULL]
  /\ free = [i \in Handles |-> i]
  /\ alive = TRUE
-----------------------------------------------------------------------------
(* The clients; when the process has ended nobody does anything. *)

Speaks(c, state) == alive /\ cstate[c] = state

Connect(c) ==
  /\ Speaks(c, "new")
  /\ cstate' = [cstate EXCEPT ![c] = "open"]
  /\ backlog' = Append(backlog, c)
  /\ UNCHANGED <<next, rx, got, peer, ep, loopVars, queue, workVars, connVars,
                 free, alive>>

\* The client sends the rest of its current request, or the next k cells.
\* What the server has not read never exceeds sempbuf: read(), which may be
\* asked for more, would write past its end.
Send(c, k) ==
  LET n == next[c].n
      i == next[c].i
      last == i + k - 1 = SizeOf(c, n)
  IN  /\ Speaks(c, "open")
      /\ n <= Len(Script[c])
      /\ i = 1 /\ ~Pipelining => Len(got[c]) = n - 1
      /\ i + k - 1 <= SizeOf(c, n)
      /\ ~Split => last
      /\ Len(rx[c]) + k <= SempSize
      /\ rx' = [rx EXCEPT ![c] = @ \o [j \in 1..k |-> Cell(c, n, i + j - 1)]]
      /\ next' = [next EXCEPT ![c] = IF last THEN [n |-> n + 1, i |-> 1]
                                             ELSE [n |-> n, i |-> i + k]]
      /\ UNCHANGED <<cstate, got, backlog, peer, ep, loopVars, queue, workVars,
                     connVars, free, alive>>

\* The client closes: what it sent can still be read.  Or it resets: not so.
Leave(c) ==
  /\ Speaks(c, "open")
  /\ \/ MayClose /\ cstate' = [cstate EXCEPT ![c] = "fin"] /\ UNCHANGED rx
     \/ /\ MayReset
        /\ cstate' = [cstate EXCEPT ![c] = "rst"]
        /\ rx' = [rx EXCEPT ![c] = <<>>]
  /\ UNCHANGED <<next, got, backlog, peer, ep, loopVars, queue, workVars,
                 connVars, free, alive>>

ClientStep ==
  \E c \in Clients :
    Connect(c) \/ Leave(c) \/ \E k \in 1..BufSize : Send(c, k)
-----------------------------------------------------------------------------
(* The event loop *)

LoopAt(stage) == alive /\ lpc = stage

HungUp(f) == cstate[peer[f]] \in {"fin", "rst"}

\* An armed descriptor is ready to read or write, or its peer has hung up,
\* which the loop tests first.
Event(f) == [fd |-> f, ev |-> IF HungUp(f) THEN "hup"
                              ELSE IF ep[f] = "READ" THEN "in" ELSE "out"]

\* The listening socket is level-triggered.
Listener == [fd |-> 0, ev |-> "accept"]

EventSet == [fd : Fds, ev : {"hup", "in", "out"}] \cup {Listener}
TaskSet  == [fd : Fds, ev : {"in", "out"}]

Ready == {f \in Fds : \/ ep[f] = "WRITE"
                      \/ ep[f] = "READ" /\ (HungUp(f) \/ rx[peer[f]] # <<>>)}

Events == {Event(f) : f \in Ready} \cup (IF backlog = <<>> THEN {} ELSE {Listener})

NoDisarm == ep
Disarm == [f \in Fds |-> IF f \in Ready THEN "off" ELSE ep[f]]

EpollWait ==
  /\ LoopAt("wait")
  /\ Events # {}
  /\ batch' = Events
  /\ ep' = Disarm
  /\ lpc' = "batch"
  /\ UNCHANGED <<clientVars, backlog, peer, queue, workVars, connVars, free, alive>>

\* The loop is done with event e.
Handled(e, stage) ==
  /\ batch' = batch \ {e}
  /\ lpc' = IF stage = "batch" /\ batch' = {} THEN "wait" ELSE stage

BeginAccept ==
  /\ LoopAt("batch")
  /\ Listener \in batch
  /\ Handled(Listener, "accept")
  /\ UNCHANGED <<clientVars, backlog, peer, ep, queue, workVars, connVars, free,
                 alive>>

\* accept() returns the lowest descriptor that is free.
FreeFds == {f \in Fds : peer[f] = NoClient}

Accepting(f) ==
  /\ LoopAt("accept")
  /\ backlog # <<>>
  /\ f \in FreeFds /\ \A g \in FreeFds : f <= g

\* A new connection: its object only gets its m_fd, and is armed for reading.
Accept(f) ==
  /\ Accepting(f)
  /\ f <= MaxFd
  /\ peer' = [peer EXCEPT ![f] = Head(backlog)]
  /\ ep' = [ep EXCEPT ![f] = "READ"]
  /\ backlog' = Tail(backlog)
  /\ UNCHANGED <<clientVars, loopVars, queue, workVars, connVars, free, alive>>

\* accept() gave a descriptor above MaxFd, or EPOLL_CTL_ADD failed: the
\* connection is closed, in the second case its object is cleaned as well.
Refuse(f) ==
  /\ Accepting(f)
  /\ f > MaxFd \/ AddFails
  /\ cstate' = [cstate EXCEPT ![Head(backlog)] = "gone"]
  /\ backlog' = Tail(backlog)
  /\ IF f > MaxFd
     THEN UNCHANGED <<buf, wbuf, alllen>>
     ELSE /\ buf' = [buf EXCEPT ![f] = Zeros]
          /\ wbuf' = [wbuf EXCEPT ![f] = NoReply]
          /\ alllen' = [alllen EXCEPT ![f] = 0]
  /\ UNCHANGED <<next, rx, got, peer, ep, loopVars, queue, workVars, msql, free,
                 alive>>

\* accept() fails: EAGAIN, or EMFILE when no descriptor is left.
AcceptEnd ==
  /\ LoopAt("accept")
  /\ ~\E f \in Fds : Accepting(f)
  /\ lpc' = IF batch = {} THEN "wait" ELSE "batch"
  /\ UNCHANGED <<clientVars, backlog, peer, ep, batch, queue, workVars, connVars,
                 free, alive>>

\* The peer hung up: the descriptor is closed, and the break leaves the for
\* loop, so that the rest of the batch is dropped.
HangUp(e) ==
  /\ LoopAt("batch")
  /\ e \in batch /\ e.ev = "hup"
  /\ cstate' = [cstate EXCEPT ![peer[e.fd]] = "gone"]
  /\ peer' = [peer EXCEPT ![e.fd] = NoClient]
  /\ ep' = [ep EXCEPT ![e.fd] = "none"]
  /\ batch' = {}
  /\ lpc' = "wait"
  /\ UNCHANGED <<next, rx, got, backlog, queue, workVars, connVars, free, alive>>

\* append() takes the task, if the queue is below its limit.
TakenByPoolOffByOne == Len(queue) + 1 < MaxRequest
TakenByPool == Len(queue) < MaxRequest

\* handleRead and handleWrite, once thread_pool() has made the pool; the
\* answer of append() is ignored.
Dispatch(e) ==
  /\ LoopAt("batch")
  /\ e \in batch /\ e.ev \in {"in", "out"}
  /\ queue' = IF TakenByPool THEN Append(queue, e) ELSE queue
  /\ Handled(e, "batch")
  /\ UNCHANGED <<clientVars, backlog, peer, ep, workVars, connVars, free, alive>>

LoopStep ==
  \/ EpollWait \/ BeginAccept \/ AcceptEnd
  \/ \E f \in Fds : Accept(f) \/ Refuse(f)
  \/ \E e \in EventSet : HangUp(e) \/ Dispatch(e)
-----------------------------------------------------------------------------
(* The workers *)

\* Worker w is at step s of its task, and goes on to another.
At(w, s)   == alive /\ wpc[w] = s
Goto(w, s) == wpc' = [wpc EXCEPT ![w] = s]

Take(w) ==
  /\ At(w, "idle")
  /\ queue # <<>>
  /\ queue' = Tail(queue)
  /\ wfd' = [wfd EXCEPT ![w] = Head(queue).fd]
  /\ Goto(w, IF Head(queue).ev = "in" THEN "guard" ELSE "write")
  /\ UNCHANGED <<clientVars, backlog, peer, ep, loopVars, wold, wtmp, wlen, connVars,
                 free, alive>>

\* sqlRAII's constructor keeps the handle the object had, and takes another
\* from the pool (pop_b: it waits while there is none).
Guard(w) ==
  /\ At(w, "guard")
  /\ free # <<>>
  /\ wold' = [wold EXCEPT ![w] = msql[wfd[w]]]
  /\ msql' = [msql EXCEPT ![wfd[w]] = Head(free)]
  /\ free' = Tail(free)
  /\ Goto(w, "check")
  /\ UNCHANGED <<clientVars, backlog, peer, ep, loopVars, queue, wfd, wtmp, wlen, buf,
                 alllen, wbuf, alive>>

\* A full buffer ends the read at once, without re-arming the connection.
Check(w) ==
  /\ At(w, "check")
  /\ Goto(w, IF alllen[wfd[w]] >= BufSize THEN "release" ELSE "read")
  /\ UNCHANGED <<clientVars, backlog, peer, ep, loopVars, queue, wfd, wold, wtmp, wlen,
                 connVars, free, alive>>

\* read(m_fd, sempbuf, MAXREADLEN - alllen) and the branch on its result.
RoomOfEmptyBuffer(w) == BufSize
Room(w)        == BufSize - alllen[wfd[w]]
Source(w)      == rx[peer[wfd[w]]]
SourceState(w) == cstate[peer[wfd[w]]]
NothingLeft(w) == Source(w) = <<>>
EndOfInput(w)  == Source(w) = <<>> /\ SourceState(w) = "fin"

ReadCells(w) ==
  /\ At(w, "read")
  /\ Room(w) > 0 /\ Source(w) # <<>>
  /\ LET k == IF Len(Source(w)) < Room(w) THEN Len(Source(w)) ELSE Room(w)
     IN  /\ wtmp' = [wtmp EXCEPT ![w] = SubSeq(Source(w), 1, k)]
         /\ rx' = [rx EXCEPT ![peer[wfd[w]]] = SubSeq(@, k + 1, Len(@))]
  /\ Goto(w, "store")
  /\ UNCHANGED <<cstate, next, got, backlog, peer, ep, loopVars, queue, wfd,
                 wold, wlen, connVars, free, alive>>

\* read() returned 0, because the peer closed, but also because it was asked
\* for 0 bytes: the connection is dropped from epoll, and stays open.
ReadNothing(w) ==
  /\ At(w, "read")
  /\ Room(w) <= 0 \/ EndOfInput(w)
  /\ buf' = [buf EXCEPT ![wfd[w]] = Zeros]
  /\ alllen' = [alllen EXCEPT ![wfd[w]] = 0]
  /\ ep' = [ep EXCEPT ![wfd[w]] = "none"]
  /\ Goto(w, "release")
  /\ UNCHANGED <<clientVars, backlog, peer, loopVars, queue, wfd, wold, wtmp, wlen,
                 wbuf, msql, free, alive>>

\* read() returned -1: EAGAIN means that all is read, time to parse; any
\* other error ends the read without re-arming the connection.
ReadFails(w) ==
  /\ At(w, "read")
  /\ Room(w) > 0 /\ Source(w) = <<>>
  /\ \/ SourceState(w) = "open" /\ Goto(w, "parse")
     \/ SourceState(w) = "rst" /\ Goto(w, "release")
  /\ UNCHANGED <<clientVars, backlog, peer, ep, loopVars, queue, wfd, wold, wtmp, wlen,
                 connVars, free, alive>>

\* memcpy to m_buf + alllen, then alllen += len, then the zero behind it.  No
\* lock orders the three against the wiping of an earlier read: the second and
\* the third use alllen as it is in memory, or as it was in a register.
Store(w) ==
  LET f == wfd[w]
      a == alllen[f]
      k == Len(wtmp[w])
  IN  /\ At(w, "store")
      /\ buf' = [buf EXCEPT ![f] =
                   [j \in 1..BufSize |-> IF j \in a + 1..a + k THEN wtmp[w][j - a]
                                         ELSE @[j]]]
      /\ wlen' = [wlen EXCEPT ![w] = a + k]
      /\ Goto(w, "count")
      /\ UNCHANGED <<clientVars, backlog, peer, ep, loopVars, queue, wfd, wold,
                     wtmp, alllen, wbuf, msql, free, alive>>

Count(w) ==
  /\ At(w, "count")
  /\ \E n \in {alllen[wfd[w]] + Len(wtmp[w]), wlen[w]} :
       /\ alllen' = [alllen EXCEPT ![wfd[w]] = n]
       /\ wlen' = [wlen EXCEPT ![w] = n]
  /\ wtmp' = [wtmp EXCEPT ![w] = <<>>]
  /\ Goto(w, "end")
  /\ UNCHANGED <<clientVars, backlog, peer, ep, loopVars, queue, wfd, wold, buf,
                 wbuf, msql, free, alive>>

\* For a full buffer the zero lands on the first byte of m_writebuf.
Terminate(w) ==
  LET f == wfd[w]
  IN  /\ At(w, "end")
      /\ \E p \in {alllen[f], wlen[w]} :
           /\ buf' = [buf EXCEPT ![f] =
                        [j \in 1..BufSize |-> IF j = p + 1 THEN NUL ELSE @[j]]]
           /\ wbuf' = IF p < BufSize THEN wbuf ELSE [wbuf EXCEPT ![f] = NoReply]
      /\ wlen' = [wlen EXCEPT ![w] = 0]
      /\ Goto(w, "read")
      /\ UNCHANGED <<clientVars, backlog, peer, ep, loopVars, queue, wfd, wold,
                     wtmp, alllen, msql, free, alive>>

\* The C string in b, up to the first zero, is one whole request: anything
\* less or more makes json::parse throw.
IsRequest(b) ==
  /\ b[1] # NUL
  /\ LET size == SizeOf(b[1].c, b[1].n)
     IN  /\ size <= BufSize
         /\ \A j \in 1..size : b[j] = Cell(b[1].c, b[1].n, j)
         /\ size < BufSize => b[size + 1] = NUL

AnsweredAll(b) == TRUE
Answered(b) == Script[b[1].c][b[1].n] \in {"login", "register", "message"}

\* parseData: json::parse throws out of the worker's thread function and
\* ends the process; a request of a known kind gets its reply, which is then
\* armed; one of an unknown kind gets nothing.
ParseThrows(w) ==
  /\ At(w, "parse")
  /\ ~IsRequest(buf[wfd[w]])
  /\ alive' = FALSE
  /\ UNCHANGED <<clientVars, backlog, peer, ep, loopVars, queue, workVars,
                 connVars, free>>

Parse(w) ==
  LET b == buf[wfd[w]]
  IN  /\ At(w, "parse")
      /\ IsRequest(b)
      /\ IF Script[b[1].c][b[1].n] = "unknown"
         THEN UNCHANGED wbuf
         ELSE wbuf' = [wbuf EXCEPT ![wfd[w]] = Reply(b[1].c, b[1].n)]
      /\ Goto(w, IF Answered(b) THEN "arm" ELSE "clearbuf")
      /\ UNCHANGED <<clientVars, backlog, peer, ep, loopVars, queue, wfd, wold,
                     wtmp, wlen, buf, alllen, msql, free, alive>>

\* update_events: EPOLL_CTL_MOD fails, unnoticed, if f is not registered.
UpdateEvents(f, mask) ==
  ep' = [ep EXCEPT ![f] = IF @ = "none" THEN "none" ELSE mask]

Arm(w) ==
  /\ At(w, "arm")
  /\ UpdateEvents(wfd[w], "WRITE")
  /\ Goto(w, "clearbuf")
  /\ UNCHANGED <<clientVars, backlog, peer, loopVars, queue, wfd, wold, wtmp, wlen,
                 connVars, free, alive>>

\* What read_once still does after parseData has re-armed the connection.
ClearBuf(w) ==
  /\ At(w, "clearbuf")
  /\ buf' = [buf EXCEPT ![wfd[w]] = Zeros]
  /\ Goto(w, "clearlen")
  /\ UNCHANGED <<clientVars, backlog, peer, ep, loopVars, queue, wfd, wold, wtmp, wlen,
                 alllen, wbuf, msql, free, alive>>

ClearLenForgotten(w) ==
  /\ At(w, "clearlen")
  /\ Goto(w, "release")
  /\ UNCHANGED <<clientVars, backlog, peer, ep, loopVars, queue, wfd, wold, wtmp, wlen,
                 connVars, free, alive>>

ClearLen(w) ==
  /\ At(w, "clearlen")
  /\ alllen' = [alllen EXCEPT ![wfd[w]] = 0]
  /\ Goto(w, "release")
  /\ UNCHANGED <<clientVars, backlog, peer, ep, loopVars, queue, wfd, wold, wtmp, wlen,
                 buf, wbuf, msql, free, alive>>

\* sqlRAII's destructor gives back the handle the object had before.
ReturnedCurrent(w) == Append(free, msql[wfd[w]])
ReturnedNone(w)    == free
Returned(w)        == Append(free, wold[w])

Release(w) ==
  /\ At(w, "release")
  /\ free' = Returned(w)
  /\ wold' = [wold EXCEPT ![w] = NULL]
  /\ wfd' = [wfd EXCEPT ![w] = 0]
  /\ Goto(w, "idle")
  /\ UNCHANGED <<clientVars, backlog, peer, ep, loopVars, queue, wtmp, wlen, connVars,
                 alive>>

\* sendData's write: the reply reaches an open peer; one that closed answers
\* with a reset.
Write(w) ==
  LET f == wfd[w]
      c == peer[f]
  IN  /\ At(w, "write")
      /\ cstate[c] \in {"open", "fin"}
      /\ got' = IF cstate[c] = "open" /\ wbuf[f] # NoReply
                THEN [got EXCEPT ![c] = Append(@, wbuf[f])] ELSE got
      /\ IF cstate[c] = "fin" /\ wbuf[f] # NoReply
         THEN cstate' = [cstate EXCEPT ![c] = "rst"] /\ rx' = [rx EXCEPT ![c] = <<>>]
         ELSE UNCHANGED <<cstate, rx>>
      /\ Goto(w, "clearw")
      /\ UNCHANGED <<next, backlog, peer, ep, loopVars, queue, wfd, wold, wtmp, wlen,
                     connVars, free, alive>>

\* A write to a reset connection fails, which ends sendData without
\* re-arming, or raises SIGPIPE, which nothing ignores.
WriteFails(w) ==
  /\ At(w, "write")
  /\ cstate[peer[wfd[w]]] = "rst"
  /\ \/ Goto(w, "idle") /\ wfd' = [wfd EXCEPT ![w] = 0] /\ UNCHANGED alive
     \/ alive' = FALSE /\ UNCHANGED <<wpc, wfd>>
  /\ UNCHANGED <<clientVars, backlog, peer, ep, loopVars, queue, wold, wtmp, wlen,
                 connVars, free>>

ClearReply(w) ==
  /\ At(w, "clearw")
  /\ wbuf' = [wbuf EXCEPT ![wfd[w]] = NoReply]
  /\ Goto(w, "rearm")
  /\ UNCHANGED <<clientVars, backlog, peer, ep, loopVars, queue, wfd, wold, wtmp, wlen,
                 buf, alllen, msql, free, alive>>

Rearm(w) ==
  /\ At(w, "rearm")
  /\ UpdateEvents(wfd[w], "READ")
  /\ wfd' = [wfd EXCEPT ![w] = 0]
  /\ Goto(w, "idle")
  /\ UNCHANGED <<clientVars, backlog, peer, loopVars, queue, wold, wtmp, wlen, connVars,
                 free, alive>>

WorkerStep(w) ==
  \/ Take(w)
  \/ Guard(w) \/ Check(w) \/ ReadCells(w) \/ ReadNothing(w) \/ ReadFails(w)
  \/ Store(w) \/ Count(w) \/ Terminate(w) \/ ParseThrows(w) \/ Parse(w) \/ Arm(w)
  \/ ClearBuf(w) \/ ClearLen(w) \/ Release(w)
  \/ Write(w) \/ WriteFails(w) \/ ClearReply(w) \/ Rearm(w)

Next == ClientStep \/ LoopStep \/ \E w \in Workers : WorkerStep(w)

Spec == Init /\ [][Next]_vars

\* The loop and every worker are scheduled again and again; the handle pool
\* serves somebody while it has handles (module SafeQueue).
FairSpec ==
  /\ Spec
  /\ WF_vars(LoopStep)
  /\ \A w \in Workers : WF_vars(WorkerStep(w))
-----------------------------------------------------------------------------
CellSeqs == Seq(Cells)
Steps == {"idle", "guard", "check", "read", "store", "count", "end", "parse", "arm",
          "clearbuf", "clearlen", "release", "write", "clearw", "rearm"}
TypeOK ==
  /\ cstate \in [Clients -> {"new", "open", "fin", "rst", "gone"}]
  /\ next \in [Clients -> [n : Nat, i : Nat]]
  /\ rx \in [Clients -> CellSeqs]
  /\ got \in [Clients -> Seq(Replies)]
  /\ backlog \in Seq(Clients)
  /\ peer \in [Fds -> Clients \cup {NoClient}]
  /\ ep \in [Fds -> {"none", "off", "READ", "WRITE"}]
  /\ lpc \in {"wait", "batch", "accept"}
  /\ batch \subseteq EventSet
  /\ queue \in Seq(TaskSet)
  /\ wpc \in [Workers -> Steps]
  /\ wfd \in [Workers -> Fds \cup {0}]
  /\ wold \in [Workers -> Handles \cup {NULL}]
  /\ wtmp \in [Workers -> CellSeqs]
  /\ wlen \in [Workers -> 0..BufSize]
  /\ buf \in [Fds -> [1..BufSize -> Cells \cup {NUL}]]
  /\ alllen \in [Fds -> 0..BufSize]
  /\ wbuf \in [Fds -> Replies \cup {NoReply}]
  /\ msql \in [Fds -> Handles \cup {NULL}]
  /\ free \in Seq(Handles \cup {NULL})
  /\ alive \in BOOLEAN

\* In whose hands connection f is, from the event to the re-arming.
Armed(f)  == ep[f] \in {"READ", "WRITE"}
InBatch(f) == \E e \in batch : e.fd = f
Queued(f) == \E i \in 1..Len(queue) : queue[i].fd = f
Hands     == {"guard", "check", "read", "store", "count", "end", "parse", "arm",
              "write", "clearw", "rearm"}
WorkedBy(w, f) == wpc[w] \in Hands /\ wfd[w] = f
Worked(f) == \E w \in Workers : WorkedBy(w, f)
InService(f) == Armed(f) \/ InBatch(f) \/ Queued(f) \/ Worked(f)

\* EPOLLONESHOT hands a connection to one thread at a time: it is armed, or
\* in the batch, or queued once, or at one worker, never two of them, and
\* while somebody holds it its descriptor is not closed and not reused.
ExclusiveOwner ==
  /\ \A f \in Fds :
       /\ Armed(f) => ~InBatch(f) /\ ~Queued(f) /\ ~Worked(f)
       /\ InBatch(f) => ~Queued(f) /\ ~Worked(f)
       /\ Queued(f) => ~Worked(f)
       /\ InService(f) => peer[f] # NoClient
       /\ peer[f] = NoClient => ep[f] = "none"
  /\ \A d, e \in batch : d.fd = e.fd => d = e
  /\ \A i, j \in 1..Len(queue) : queue[i].fd = queue[j].fd => i = j
  /\ \A v, w \in Workers :
       wpc[v] \in Hands /\ wpc[w] \in Hands /\ wfd[v] = wfd[w] => v = w

\* A worker between two tasks has no connection, one with a task has one.
TaskInHand ==
  \A w \in Workers : wpc[w] # "idle" => wfd[w] \in Fds

\* What read() fetched still fits into m_buf when it is stored and counted:
\* alllen, read again after the system call and after memcpy, is never larger
\* than before, although other workers may be clearing the same object.
ReadFits ==
  \A w \in Workers :
    wpc[w] \in {"store", "count"} => alllen[wfd[w]] + Len(wtmp[w]) <= BufSize

\* Where handle h is: in the pool, in a connection object, or with a guard
\* that will give it back.
Guarded == {"check", "read", "store", "count", "end", "parse", "arm", "clearbuf",
            "clearlen", "release"}
Places(h) ==
  {<<"pool", i>> : i \in {j \in 1..Len(free) : free[j] = h}}
    \cup {<<"object", f>> : f \in {g \in Fds : msql[g] = h}}
    \cup {<<"guard", w>> : w \in {v \in Workers : wpc[v] \in Guarded /\ wold[v] = h}}

\* No handle is lost and none is given to two connections, whatever reads
\* overlap, and the pool runs dry only while reads are under way.
HandlesConserved ==
  /\ \A h \in Handles : Cardinality(Places(h)) = 1
  /\ Len(free) + Cardinality({w \in Workers : wpc[w] \in Guarded}) = NumHandles

\* A client only gets replies to its own requests, each once and in the
\* order it asked, although connection objects and their buffers are reused
\* uncleared.  (Not one for every request: a late wipe can swallow one.)
RepliesMatch ==
  \A c \in Clients : \A k \in 1..Len(got[c]) :
    /\ got[c][k].c = c
    /\ k > 1 => got[c][k - 1].n < got[c][k].n

\* What read_once parses is one whole request ("mode == 0 // read all at
\* once", tcp_conn.cpp:62).
ParsesWholeRequest ==
  \A w \in Workers : wpc[w] = "parse" => IsRequest(buf[wfd[w]])

\* A connection is never left open with nobody to serve it.
NoOrphan ==
  \A f \in Fds : peer[f] # NoClient => InService(f)

\* The reasons for which an open connection may be left with nobody to serve
\* it: it hung up, the break after another's hang-up or a full queue loses its
\* event, its buffer is full, or it asks for something unknown.
AskedUnknown(f) ==
  /\ IsRequest(buf[f])
  /\ Script[buf[f][1].c][buf[f][1].n] \notin {"login", "register", "message"}
  /\ \E w \in Workers : wpc[w] = "parse" /\ wfd[w] = f
MayAbandon(f) ==
  \/ HungUp(f)
  \/ InBatch(f) /\ (Len(queue) >= MaxRequest \/ \E e \in batch : e.ev = "hup")
  \/ Worked(f) /\ (alllen[f] >= BufSize \/ AskedUnknown(f))

\* No step leaves an open connection for any other reason, whatever reads and
\* wipes overlap: no event, task or re-arming gets lost.
NobodyAbandoned ==
  [][\A f \in Fds : InService(f) /\ ~InService(f)' =>
       peer'[f] = NoClient \/ MayAbandon(f)]_vars

\* A read works with a database connection, as initAllResult insists
\* (tcp_conn.cpp:18-19).
HandleWhileReading ==
  \A w \in Workers : wpc[w] \in Guarded => msql[wfd[w]] # NULL

\* A client that has sent a request and stays gets its reply.
RequestsAnswered ==
  \A c \in Clients : \A n \in DOMAIN Script[c] :
    next[c].n > n ~> \/ Len(got[c]) >= n \/ cstate[c] # "open" \/ ~alive
=============================================================================
