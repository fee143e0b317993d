-------------------------- MODULE ChatReplies_proofs --------------------------
(***************************************************************************)
(* Whoever sends what, in whatever pieces: a client only gets replies to   *)
(* its own requests, each once and in the order it asked, although the     *)
(* objects of tcp_conn are reused for other clients without being cleared. *)
(*                                                                         *)
(* What keeps a stale request from being answered once more is not that it *)
(* is wiped: read_once() may append to what an overlapping read left, and  *)
(* its memcpy, its count and its zero fall between that one's two clears.  *)
(* But what it parses is either empty, and throws, or begins with cells of *)
(* which one at least has just been read, and so is the whole request; and *)
(* while the other is late, it holds more than the request it begins with, *)
(* or begins behind zeros, and throws as well.                             *)
(***************************************************************************)
EXTENDS ChatServer_proofs

USE DEF InService

\* Cell x comes before y in the order of sending; y may be what is sent next.
Before(x, y) == x.n < y.n \/ (x.n = y.n /\ x.i < y.i)

\* Cell x is a cell of its client's script that has been sent; the server has
\* read it, and all that is left to read comes after it.
Sent(x) ==
  /\ x.n \in 1..Len(Script[x.c]) /\ x.i \in 1..SizeOf(x.c, x.n)
  /\ Before(x, next[x.c])
Consumed(x) == Sent(x) /\ \A k \in 1..Len(rx[x.c]) : Before(x, rx[x.c][k])

\* Request number m of client c has been read whole.
Ahead(c, m) == m < next[c].n /\ \A k \in 1..Len(rx[c]) : m < rx[c][k].n

\* Client c has had no reply to request number m, nor to a later one.
Unanswered(c, m) == \A k \in 1..Len(got[c]) : got[c][k].n < m

\* The stream of client c is in the order of its script.
StreamOf(c) ==
  /\ next[c].n \in 1..Len(Script[c]) + 1 /\ next[c].i >= 1
  /\ next[c].n <= Len(Script[c]) => next[c].i <= SizeOf(c, next[c].n)
  /\ \A k \in 1..Len(rx[c]) : rx[c][k].c = c /\ Sent(rx[c][k])
  /\ \A j, k \in 1..Len(rx[c]) : j < k => Before(rx[c][j], rx[c][k])

StreamInv == \A c \in Clients : StreamOf(c)

\* What is in the buffers has been read.
ConsumedInv ==
  /\ \A f \in Fds : \A j \in 1..BufSize : buf[f][j] # NUL => Consumed(buf[f][j])
  /\ \A w \in Workers : \A j \in 1..Len(wtmp[w]) : Consumed(wtmp[w][j])

\* There is no zero among the cells that m_buf holds, unless it is the first.
Filled(f, n) == buf[f][1] # NUL => \A j \in 1..n : buf[f][j] # NUL
PrefixFilled ==
  /\ \A f \in Fds : Filled(f, alllen[f])
  /\ \A w \in Workers : wpc[w] = "count" => Filled(wfd[w], wlen[w])

\* And there is one behind them, unless it is just about to be written: then
\* alllen has not been reset meanwhile, or the first is a zero.
Ended(f) ==
  buf[f][1] # NUL /\ alllen[f] < BufSize => buf[f][alllen[f] + 1] = NUL
Unended(w, f) == wpc[w] \in {"count", "end"} /\ wfd[w] = f
EndedInv ==
  /\ \A f \in Fds : (\A w \in Workers : ~Unended(w, f)) => Ended(f)
  /\ \A w \in Workers :
       /\ wpc[w] = "count" /\ buf[wfd[w]][1] # NUL =>
            alllen[wfd[w]] + Len(wtmp[w]) = wlen[w]
       /\ wpc[w] = "end" /\ buf[wfd[w]][1] # NUL => alllen[wfd[w]] = wlen[w]

\* A client has one connection, accepted or not, and once.
PeersInv ==
  /\ \A f, g \in Fds : peer[f] = peer[g] /\ peer[f] # NoClient => f = g
  /\ \A i \in 1..Len(backlog) : \A f \in Fds : peer[f] # backlog[i]
  /\ \A i, j \in 1..Len(backlog) : backlog[i] = backlog[j] => i = j
  /\ \A c \in Clients : cstate[c] = "new" =>
       (\A f \in Fds : peer[f] # c) /\ \A i \in 1..Len(backlog) : backlog[i] # c

\* The replies so far are what the theorem says, and older than what comes.
GotInv ==
  \A c \in Clients :
    /\ \A k \in 1..Len(got[c]) : got[c][k].c = c /\ Ahead(c, got[c][k].n)
    /\ \A j, k \in 1..Len(got[c]) : j < k => got[c][j].n < got[c][k].n

\* A read of f that begins now finds something, or does not parse.
HasInput(f) == cstate[peer[f]] # "open" \/ rx[peer[f]] # <<>>

\* A cell, a buffer and a reply that belong to the present connection of f
\* and to a request that has not been answered.
FreshCell(f, x) == x.c = peer[f] /\ Unanswered(peer[f], x.n)
FreshUpTo(f, n) ==
  \/ buf[f][1] = NUL
  \/ \E j \in 1..n : /\ \A i \in 1..j : buf[f][i] # NUL
                     /\ FreshCell(f, buf[f][j])
FreshBuf(f) == FreshUpTo(f, BufSize)
FreshReply(f) ==
  \/ wbuf[f] = NoReply
  \/ FreshCell(f, wbuf[f]) /\ Ahead(peer[f], wbuf[f].n)

EventFresh(e) == /\ e.ev = "in"  => HasInput(e.fd)
                 /\ e.ev = "out" => FreshReply(e.fd)

\* What a worker relies on at each step of its task.
WorkFresh(w) ==
  /\ wpc[w] \in {"guard", "check"} => HasInput(wfd[w])
  /\ wpc[w] = "read"  => HasInput(wfd[w]) \/ FreshBuf(wfd[w])
  /\ wpc[w] = "store" => /\ wtmp[w] # <<>>
                         /\ \A j \in 1..Len(wtmp[w]) : FreshCell(wfd[w], wtmp[w][j])
  /\ wpc[w] = "count" => wtmp[w] # <<>>
  /\ wpc[w] \in {"count", "end"} => FreshUpTo(wfd[w], wlen[w])
  /\ wpc[w] = "parse" => FreshBuf(wfd[w])
  /\ wpc[w] \in {"arm", "write"} => FreshReply(wfd[w])

FreshInv ==
  /\ \A f \in Fds : ep[f] = "WRITE" => FreshReply(f)
  /\ \A e \in batch : EventFresh(e)
  /\ \A i \in 1..Len(queue) : EventFresh(queue[i])
  /\ \A w \in Workers : WorkFresh(w)

\* Connection f is served, or free to be accepted; once it is left open with
\* nobody to serve it, it stays so.
Attended(f) == peer[f] = NoClient \/ InService(f)

\* The request at the head of m_buf, if there is one, is held whole, and more
\* than that has been read.
HeadSize(f) == SizeOf(buf[f][1].c, buf[f][1].n)
Headed(f)   == buf[f][1] # NUL /\ HeadSize(f) <= alllen[f]
Beyond(f)   == buf[f][1] # NUL => HeadSize(f) < alllen[f]

\* While a read has still to wipe what it parsed, a later read of the same
\* object can only append to it, or begin behind zeros: it parses in vain.
Late == {"clearbuf", "clearlen"}
Wipes(w) ==
  /\ wpc[w] = "arm" => Headed(wfd[w])
  /\ wpc[w] = "clearbuf" /\ Attended(wfd[w]) => Headed(wfd[w])
  /\ wpc[w] = "clearlen" => buf[wfd[w]][1] = NUL
  /\ wpc[w] = "clearlen" /\ Attended(wfd[w]) => alllen[wfd[w]] >= 1
InVain(v) ==
  /\ wpc[v] # "arm"
  /\ wpc[v] = "read" => HasInput(wfd[v]) \/ Beyond(wfd[v])
  /\ wpc[v] \in {"end", "parse"} => Beyond(wfd[v])
LateInv ==
  /\ \A w \in Workers : Wipes(w)
  /\ \A v, w \in Workers : wpc[w] \in Late /\ wfd[v] = wfd[w] /\ v # w =>
       wpc[v] \notin Late /\ InVain(v)

BufferInv == ConsumedInv /\ PrefixFilled /\ EndedInv
RepliesInv ==
  StreamInv /\ BufferInv /\ PeersInv /\ GotInv /\ FreshInv /\ LateInv
-----------------------------------------------------------------------------
(* The streams *)

LEMMA ScriptSizes ==
  ASSUME NEW c \in Clients
  PROVE  /\ Len(Script[c]) \in Nat
         /\ \A n \in 1..Len(Script[c]) : SizeOf(c, n) \in Nat \ {0}
BY ChatServerAssumption DEF SizeOf

\* Client c sends nothing, and some of what it sent may have been read, or
\* lost in a reset.
Shrinks(c) ==
  /\ next'[c] = next[c]
  /\ \E k \in 0..Len(rx[c]) :
       /\ Len(rx'[c]) = Len(rx[c]) - k
       /\ \A j \in 1..Len(rx'[c]) : rx'[c][j] = rx[c][j + k]

\* Client c sends k more cells of the request it is at.
Grows(c, k) ==
  /\ next[c].n <= Len(Script[c]) /\ next[c].i + k - 1 <= SizeOf(c, next[c].n)
  /\ Len(rx'[c]) = Len(rx[c]) + k
  /\ \A j \in 1..Len(rx[c]) : rx'[c][j] = rx[c][j]
  /\ \A j \in 1..k :
       rx'[c][Len(rx[c]) + j] = Cell(c, next[c].n, next[c].i + j - 1)
  /\ next'[c] = IF next[c].i + k - 1 = SizeOf(c, next[c].n)
                THEN [n |-> next[c].n + 1, i |-> 1]
                ELSE [n |-> next[c].n, i |-> next[c].i + k]

Moves(c) == Shrinks(c) \/ \E k \in Nat \ {0} : Grows(c, k)

LEMMA StreamTypes ==
  ASSUME TypeOK, NEW c \in Clients
  PROVE  /\ next[c] \in [n : Nat, i : Nat] /\ next[c].n \in Nat /\ next[c].i \in Nat
         /\ rx[c] \in Seq(Cells) /\ Len(rx[c]) \in Nat
         /\ \A k \in 1..Len(rx[c]) : rx[c][k] \in Cells /\ rx[c][k].n \in Nat
                                     /\ rx[c][k].i \in Nat
         /\ got[c] \in Seq(Replies) /\ Len(got[c]) \in Nat
         /\ \A k \in 1..Len(got[c]) : got[c][k] \in Replies /\ got[c][k].n \in Nat
<1>1. next[c] \in [n : Nat, i : Nat] /\ rx[c] \in Seq(Cells) /\ got[c] \in Seq(Replies)
  BY DEF TypeOK, CellSeqs
<1>2. \A k \in 1..Len(rx[c]) : rx[c][k] \in Cells
  BY <1>1
<1>3. \A k \in 1..Len(got[c]) : got[c][k] \in Replies
  BY <1>1
<1> QED
  BY <1>1, <1>2, <1>3 DEF Cells, Replies

\* A stream that is left alone, and one that is lost.
LEMMA Idles ==
  ASSUME TypeOK, NEW c \in Clients, next'[c] = next[c],
         rx'[c] = rx[c] \/ rx'[c] = <<>>
  PROVE  Shrinks(c)
<1>0. Len(rx[c]) \in Nat
  BY StreamTypes
<1>1. CASE rx'[c] = rx[c]
  <2>1. 0 \in 0..Len(rx[c]) /\ Len(rx[c]) = Len(rx[c]) - 0
        /\ \A j \in 1..Len(rx[c]) : j + 0 = j
    BY <1>0
  <2> QED
    BY <1>1, <2>1 DEF Shrinks
<1>2. CASE rx'[c] = <<>>
  <2>1. Len(rx[c]) \in 0..Len(rx[c]) /\ Len(rx'[c]) = Len(rx[c]) - Len(rx[c])
    BY <1>0, <1>2
  <2> QED
    BY <1>2, <2>1 DEF Shrinks
<1> QED
  BY <1>1, <1>2

LEMMA SendGrows ==
  ASSUME TypeOK, NEW c \in Clients, NEW k \in 1..BufSize, Send(c, k)
  PROVE  /\ Grows(c, k)
         /\ \A d \in Clients : d # c => next'[d] = next[d] /\ rx'[d] = rx[d]
<1> DEFINE sent == [j \in 1..k |-> Cell(c, next[c].n, next[c].i + j - 1)]
<1>1. k \in Nat
  BY ChatServerAssumption
<1>2. sent \in Seq(Cells) /\ Len(sent) = k
  <2>1. next[c].n \in Nat /\ next[c].i \in Nat
    BY StreamTypes
  <2>2. sent \in Seq(Cells)
    BY <1>1, <2>1 DEF Cell, Cells
  <2>3. Len(sent) = k
    BY <1>1
  <2> QED
    BY <2>2, <2>3
<1>3. rx' = [rx EXCEPT ![c] = rx[c] \o sent]
  BY Zenon DEF Send
<1>4. rx'[c] = rx[c] \o sent /\ \A d \in Clients : d # c => rx'[d] = rx[d]
  BY <1>3 DEF TypeOK
<1>5. /\ Len(rx'[c]) = Len(rx[c]) + k
      /\ \A j \in 1..Len(rx[c]) : rx'[c][j] = rx[c][j]
      /\ \A j \in 1..k : rx'[c][Len(rx[c]) + j] = sent[j]
  <2>1. rx[c] \in Seq(Cells) /\ Len(rx[c]) \in Nat
    BY StreamTypes
  <2>2. /\ Len(rx[c] \o sent) = Len(rx[c]) + Len(sent)
        /\ \A j \in 1..Len(rx[c]) + Len(sent) :
             (rx[c] \o sent)[j] = IF j <= Len(rx[c]) THEN rx[c][j]
                                                    ELSE sent[j - Len(rx[c])]
    BY <1>2, <2>1, ConcatProperties
  <2>3. \A j \in 1..k : /\ Len(rx[c]) + j \in 1..Len(rx[c]) + Len(sent)
                        /\ ~(Len(rx[c]) + j <= Len(rx[c]))
                        /\ (Len(rx[c]) + j) - Len(rx[c]) = j
    BY <1>1, <1>2, <2>1
  <2>4. \A j \in 1..Len(rx[c]) : j \in 1..Len(rx[c]) + Len(sent) /\ j <= Len(rx[c])
    BY <1>1, <1>2, <2>1
  <2> HIDE DEF sent
  <2> QED
    BY <1>2, <1>4, <2>2, <2>3, <2>4
<1>6. /\ next[c].n <= Len(Script[c]) /\ next[c].i + k - 1 <= SizeOf(c, next[c].n)
      /\ next' = [next EXCEPT ![c] = IF next[c].i + k - 1 = SizeOf(c, next[c].n)
                                     THEN [n |-> next[c].n + 1, i |-> 1]
                                     ELSE [n |-> next[c].n, i |-> next[c].i + k]]
  BY DEF Send
<1>7. next \in [Clients -> [n : Nat, i : Nat]]
  BY DEF TypeOK
<1> QED
  BY <1>4, <1>5, <1>6, <1>7 DEF Grows

LEMMA ReadShrinks ==
  ASSUME TypeOK, TaskInHand, NEW w \in Workers, ReadCells(w), peer[wfd[w]] \in Clients
  PROVE  \A c \in Clients : Shrinks(c)
<1> DEFINE d == peer[wfd[w]]
           k == IF Len(rx[d]) < Room(w) THEN Len(rx[d]) ELSE Room(w)
<1>1. Room(w) > 0 /\ rx[d] # <<>> /\ next' = next
      /\ rx' = [rx EXCEPT ![d] = SubSeq(rx[d], k + 1, Len(rx[d]))]
  BY DEF ReadCells, Source, clientVars
<1>2. Room(w) \in Int
  BY ChatServerAssumption DEF TypeOK, TaskInHand, ReadCells, At, Room
<1>3. ASSUME NEW c \in Clients PROVE Shrinks(c)
  <2>1. CASE c # d
    <3>1. rx'[c] = rx[c] /\ next'[c] = next[c]
      BY <1>1, <2>1 DEF TypeOK
    <3> QED
      BY <3>1, Idles
  <2>2. CASE c = d
    <3>1. rx[c] \in Seq(Cells) /\ Len(rx[c]) \in Nat
      BY StreamTypes
    <3>2. k \in 0..Len(rx[c])
      BY <1>1, <1>2, <2>2, <3>1
    <3> HIDE DEF k
    <3>3. rx'[c] = SubSeq(rx[c], k + 1, Len(rx[c])) /\ next'[c] = next[c]
      BY <1>1, <2>2 DEF TypeOK
    <3>4. /\ Len(rx'[c]) = Len(rx[c]) - k
          /\ \A j \in 1..Len(rx'[c]) : rx'[c][j] = rx[c][j + k]
      BY <3>1, <3>2, <3>3
    <3> QED
      BY <3>2, <3>3, <3>4 DEF Shrinks
  <2> QED
    BY <2>1, <2>2
<1> QED
  BY <1>3

LEMMA StreamsMove ==
  ASSUME TypeOK, TaskInHand, ExclusiveOwner, Next
  PROVE  \A c \in Clients : Moves(c)
<1> USE DEF clientVars
<1>1. ASSUME UNCHANGED <<next, rx>> PROVE \A c \in Clients : Moves(c)
  BY <1>1, Idles DEF Moves
<1>2. CASE ClientStep
  <2>1. PICK c \in Clients : Connect(c) \/ Leave(c) \/ \E k \in 1..BufSize : Send(c, k)
    BY <1>2, Zenon DEF ClientStep
  <2>2. CASE Connect(c)
    BY <1>1, <2>2 DEF Connect
  <2>3. CASE Leave(c)
    <3>1. next' = next /\ (rx' = rx \/ rx' = [rx EXCEPT ![c] = <<>>])
      BY <2>3, Zenon DEF Leave
    <3>2. \A d \in Clients : rx'[d] = rx[d] \/ rx'[d] = <<>>
      BY <3>1 DEF TypeOK
    <3> QED
      BY <3>1, <3>2, Idles DEF Moves
  <2>4. ASSUME NEW k \in 1..BufSize, Send(c, k) PROVE \A d \in Clients : Moves(d)
    <3>1. k \in Nat \ {0}
      BY ChatServerAssumption
    <3> QED
      BY <2>4, <3>1, SendGrows, Idles DEF Moves
  <2> QED
    BY <2>1, <2>2, <2>3, <2>4
<1>3. CASE LoopStep
  BY <1>1, <1>3 DEF LoopStep, EpollWait, BeginAccept, AcceptEnd, Accept, Refuse, HangUp,
     Dispatch
<1>4. ASSUME NEW w \in Workers, WorkerStep(w) PROVE \A c \in Clients : Moves(c)
  <2>1. CASE ReadCells(w)
    <3>1. WorkedBy(w, wfd[w]) /\ wfd[w] \in Fds
      BY <2>1 DEF ReadCells, At, WorkedBy, Hands, TaskInHand
    <3>2. peer[wfd[w]] \in Clients
      BY <3>1 DEF ExclusiveOwner, Worked, TypeOK
    <3> QED
      BY <2>1, <3>2, ReadShrinks DEF Moves
  <2>2. CASE Write(w)
    <3>1. next' = next
          /\ (rx' = rx \/ \E d : rx' = [rx EXCEPT ![d] = <<>>])
      BY <2>2, Zenon DEF Write
    <3>2. \A d \in Clients : rx'[d] = rx[d] \/ rx'[d] = <<>>
      BY <3>1 DEF TypeOK
    <3> QED
      BY <3>1, <3>2, Idles DEF Moves
  <2>3. CASE Take(w) \/ Guard(w) \/ Check(w) \/ ReadNothing(w) \/ ReadFails(w)
             \/ Store(w) \/ Count(w) \/ Terminate(w) \/ ParseThrows(w) \/ Parse(w)
             \/ Arm(w) \/ ClearBuf(w) \/ ClearLen(w) \/ Release(w) \/ WriteFails(w)
             \/ ClearReply(w) \/ Rearm(w)
    <3>1. UNCHANGED <<next, rx>>
      BY <2>3 DEF Take, Guard, Check, ReadNothing, ReadFails, Store, Count, Terminate,
         ParseThrows, Parse, Arm, ClearBuf, ClearLen, Release, WriteFails, ClearReply, Rearm
    <3> QED
      BY <1>1, <3>1
  <2> QED
    BY <1>4, <2>1, <2>2, <2>3, Zenon DEF WorkerStep
<1> QED
  BY <1>2, <1>3, <1>4, Zenon DEF Next

\* What is left to read stays in order, and what has been read stays read.
LEMMA StreamShrinks ==
  ASSUME TypeOK, NEW c \in Clients, StreamOf(c), Shrinks(c)
  PROVE  /\ StreamOf(c)'
         /\ \A x \in Cells : x.c = c /\ Consumed(x) => Consumed(x)'
         /\ \A m \in Nat : Ahead(c, m) => Ahead(c, m)'
<1>0. Len(rx[c]) \in Nat
  BY StreamTypes
<1>1. PICK k \in 0..Len(rx[c]) : /\ Len(rx'[c]) = Len(rx[c]) - k
                                 /\ \A j \in 1..Len(rx'[c]) : rx'[c][j] = rx[c][j + k]
  BY DEF Shrinks
<1>2. \A j \in 1..Len(rx'[c]) : j + k \in 1..Len(rx[c])
  BY <1>0, <1>1
<1>3. next'[c] = next[c]
  BY DEF Shrinks
<1>4. StreamOf(c)'
  <2>1. ASSUME NEW j \in 1..Len(rx'[c]) PROVE rx'[c][j].c = c /\ Sent(rx[c][j])'
    <3>1. rx[c][j + k].c = c /\ Sent(rx[c][j + k])
      BY <1>2 DEF StreamOf
    <3>2. rx'[c][j] = rx[c][j + k]
      BY <1>1
    <3> QED
      BY <1>3, <3>1, <3>2 DEF Sent
  <2>2. ASSUME NEW i \in 1..Len(rx'[c]), NEW j \in 1..Len(rx'[c]), i < j
        PROVE  Before(rx'[c][i], rx'[c][j])
    <3>1. i + k < j + k /\ i + k \in 1..Len(rx[c]) /\ j + k \in 1..Len(rx[c])
      BY <1>0, <1>1, <1>2, <2>2
    <3>2. Before(rx[c][i + k], rx[c][j + k])
      BY <3>1 DEF StreamOf
    <3> QED
      BY <1>1, <3>2
  <2> QED
    BY <1>3, <2>1, <2>2 DEF StreamOf
<1>5. ASSUME NEW x \in Cells, x.c = c, Consumed(x) PROVE Consumed(x)'
  BY <1>1, <1>2, <1>3, <1>5 DEF Consumed, Sent
<1>6. ASSUME NEW m \in Nat, Ahead(c, m) PROVE Ahead(c, m)'
  BY <1>1, <1>2, <1>3, <1>6 DEF Ahead
<1> QED
  BY <1>4, <1>5, <1>6

LEMMA StreamGrows ==
  ASSUME TypeOK, NEW c \in Clients, StreamOf(c), NEW k \in Nat \ {0}, Grows(c, k)
  PROVE  /\ StreamOf(c)'
         /\ \A x \in Cells : x.c = c /\ Consumed(x) => Consumed(x)'
         /\ \A m \in Nat : Ahead(c, m) => Ahead(c, m)'
<1> DEFINE n == next[c].n
           i == next[c].i
           len == Len(rx[c])
<1>0. /\ len \in Nat /\ n \in Nat /\ i \in Nat /\ Len(Script[c]) \in Nat
      /\ \A j \in 1..len : rx[c][j].n \in Nat /\ rx[c][j].i \in Nat
  BY StreamTypes, ScriptSizes
<1>1. n \in 1..Len(Script[c]) /\ i >= 1 /\ i + k - 1 <= SizeOf(c, n)
      /\ SizeOf(c, n) \in Nat
  <2>1. n \in 1..Len(Script[c]) + 1 /\ n <= Len(Script[c]) /\ i >= 1
        /\ i + k - 1 <= SizeOf(c, n)
    BY DEF StreamOf, Grows
  <2>2. n \in 1..Len(Script[c])
    BY <1>0, <2>1
  <2> QED
    BY <2>1, <2>2, ScriptSizes
<1>2. /\ Len(rx'[c]) = len + k
      /\ \A j \in 1..len : rx'[c][j] = rx[c][j]
      /\ \A j \in 1..k : rx'[c][len + j] = Cell(c, n, i + j - 1)
  BY DEF Grows
<1>3. next'[c] = IF i + k - 1 = SizeOf(c, n) THEN [n |-> n + 1, i |-> 1]
                                             ELSE [n |-> n, i |-> i + k]
  BY DEF Grows
<1>3a. /\ next[c].n = n /\ next[c].i = i
  OBVIOUS
<1> HIDE DEF n, i, len
<1>3b. len = Len(rx[c])
  BY DEF len
<1>4. /\ next'[c].n \in Nat /\ next'[c].i \in Nat /\ next'[c].i >= 1
      /\ next'[c].n \in 1..Len(Script[c]) + 1
      /\ next'[c].n >= n /\ (next'[c].n = n => next'[c].i = i + k)
  <2>1. CASE i + k - 1 = SizeOf(c, n)
    BY <1>0, <1>1, <1>3, <2>1
  <2>2. CASE i + k - 1 # SizeOf(c, n)
    BY <1>0, <1>1, <1>3, <2>2
  <2> QED
    BY <2>1, <2>2
<1>5. next'[c].n <= Len(Script[c]) => next'[c].i <= SizeOf(c, next'[c].n)
  <2>1. CASE i + k - 1 = SizeOf(c, n)
    <3>1. next'[c].n = n + 1 /\ next'[c].i = 1
      BY <1>3, <2>1
    <3>2. n + 1 <= Len(Script[c]) => n + 1 \in 1..Len(Script[c])
      BY <1>0
    <3> QED
      BY <3>1, <3>2, ScriptSizes
  <2>2. CASE i + k - 1 # SizeOf(c, n)
    <3>1. next'[c].n = n /\ next'[c].i = i + k
      BY <1>3, <2>2
    <3> QED
      BY <1>0, <1>1, <2>2, <3>1
  <2> QED
    BY <2>1, <2>2
<1>6. \A j \in 1..Len(rx'[c]) :
        \/ j \in 1..len
        \/ j > len /\ j - len \in 1..k
           /\ rx'[c][j] = Cell(c, n, i + (j - len) - 1)
  <2>1. ASSUME NEW j \in 1..Len(rx'[c]), j \notin 1..len
        PROVE  /\ j > len /\ j - len \in 1..k
               /\ rx'[c][j] = Cell(c, n, i + (j - len) - 1)
    <3>1. j > len /\ j - len \in 1..k /\ len + (j - len) = j
      BY <1>0, <1>2, <2>1
    <3> QED
      BY <1>2, <3>1
  <2> QED
    BY <2>1
<1>7. \A x : x.n \in Nat /\ x.i \in Nat /\ Before(x, next[c]) => Before(x, next'[c])
  BY <1>0, <1>3a, <1>4 DEF Before
<1>8. ASSUME NEW j \in 1..k
      PROVE  LET y == Cell(c, n, i + j - 1)
             IN  /\ y.c = c /\ Before(y, next'[c])
                 /\ y.n \in 1..Len(Script[c]) /\ y.i \in 1..SizeOf(c, y.n)
                 /\ y.n = n /\ y.i >= i
  <2>1. i + j - 1 \in 1..SizeOf(c, n) /\ i + j - 1 >= i /\ i + j - 1 < i + k
    BY <1>0, <1>1
  <2>2. n < next'[c].n \/ (n = next'[c].n /\ i + j - 1 < next'[c].i)
    BY <1>0, <1>4, <2>1
  <2> QED
    BY <1>1, <2>1, <2>2 DEF Cell, Before
<1>9. \A j \in 1..Len(rx[c]) : rx[c][j].c = c /\ Sent(rx[c][j])
  BY DEF StreamOf
<1>10. ASSUME NEW j \in 1..Len(rx'[c]) PROVE rx'[c][j].c = c /\ Sent(rx[c][j])'
  <2>1. CASE j \in 1..len
    <3>1. rx'[c][j] = rx[c][j] /\ rx[c][j].c = c /\ Sent(rx[c][j])
      BY <1>2, <1>3b, <1>9, <2>1
    <3> QED
      BY <1>0, <1>7, <2>1, <3>1 DEF Sent
  <2>2. CASE j \notin 1..len
    <3>1. j - len \in 1..k /\ rx'[c][j] = Cell(c, n, i + (j - len) - 1)
      BY <1>6, <2>2
    <3> QED
      BY <1>8, <3>1 DEF Sent
  <2> QED
    BY <2>1, <2>2
<1>11. ASSUME NEW h \in 1..Len(rx'[c]), NEW j \in 1..Len(rx'[c]), h < j
       PROVE  Before(rx'[c][h], rx'[c][j])
  <2>0. h \in Nat /\ j \in Nat
    BY <1>0, <1>2
  <2>1. CASE j \in 1..len
    <3>1. h \in 1..len
      BY <1>0, <1>11, <2>0, <2>1
    <3> QED
      BY <1>2, <1>3b, <1>11, <2>1, <3>1 DEF StreamOf
  <2>2. CASE j \notin 1..len /\ h \in 1..len
    <3>1. rx'[c][h] = rx[c][h] /\ Before(rx[c][h], next[c])
      BY <1>2, <1>3b, <1>9, <2>2 DEF Sent
    <3>2. rx'[c][j].n = n /\ rx'[c][j].i >= i /\ rx'[c][j].i \in Nat
      <4>1. j - len \in 1..k /\ rx'[c][j] = Cell(c, n, i + (j - len) - 1)
        BY <1>6, <2>2
      <4>2. i + (j - len) - 1 >= i /\ i + (j - len) - 1 \in Nat
        BY <1>0, <4>1
      <4> QED
        BY <4>1, <4>2 DEF Cell
    <3> QED
      BY <1>0, <1>3a, <2>2, <3>1, <3>2 DEF Before
  <2>3. CASE j \notin 1..len /\ h \notin 1..len
    <3>1. /\ rx'[c][j] = Cell(c, n, i + (j - len) - 1)
          /\ rx'[c][h] = Cell(c, n, i + (h - len) - 1)
      BY <1>6, <2>3
    <3>2. i + (h - len) - 1 < i + (j - len) - 1
      BY <1>0, <1>11, <2>0
    <3> QED
      BY <3>1, <3>2 DEF Cell, Before
  <2> QED
    BY <2>1, <2>2, <2>3
<1>12. StreamOf(c)'
  BY <1>4, <1>5, <1>10, <1>11 DEF StreamOf
<1>13. ASSUME NEW x \in Cells, x.c = c, Consumed(x) PROVE Consumed(x)'
  <2>0. x.n \in Nat /\ x.i \in Nat
    BY DEF Cells
  <2>1. Sent(x) /\ Before(x, next[c]) /\ \A j \in 1..len : Before(x, rx[c][j])
    BY <1>3b, <1>13 DEF Consumed, Sent
  <2>2. Sent(x)'
    BY <1>7, <1>13, <2>0, <2>1 DEF Sent
  <2>3. ASSUME NEW j \in 1..Len(rx'[c]) PROVE Before(x, rx'[c][j])
    <3>1. CASE j \in 1..len
      BY <1>2, <2>1, <3>1
    <3>2. CASE j \notin 1..len
      <4>1. j - len \in 1..k /\ rx'[c][j] = Cell(c, n, i + (j - len) - 1)
        BY <1>6, <3>2
      <4>2. i + (j - len) - 1 >= i /\ i + (j - len) - 1 \in Nat
        BY <1>0, <4>1
      <4> QED
        BY <1>0, <1>3a, <2>0, <2>1, <4>1, <4>2 DEF Before, Cell
    <3> QED
      BY <3>1, <3>2
  <2> QED
    BY <1>13, <2>2, <2>3 DEF Consumed
<1>14. ASSUME NEW m \in Nat, Ahead(c, m) PROVE Ahead(c, m)'
  <2>1. m < n /\ \A j \in 1..len : m < rx[c][j].n
    BY <1>3a, <1>3b, <1>14 DEF Ahead
  <2>2. ASSUME NEW j \in 1..Len(rx'[c]) PROVE m < rx'[c][j].n
    <3>1. CASE j \in 1..len
      BY <1>2, <2>1, <3>1
    <3>2. CASE j \notin 1..len
      <4>1. rx'[c][j] = Cell(c, n, i + (j - len) - 1)
        BY <1>6, <3>2
      <4> QED
        BY <2>1, <4>1 DEF Cell
    <3> QED
      BY <3>1, <3>2
  <2>3. m < next'[c].n
    BY <1>0, <1>4, <2>1
  <2> QED
    BY <2>2, <2>3 DEF Ahead
<1> QED
  BY <1>12, <1>13, <1>14

LEMMA StreamStep ==
  ASSUME TypeOK, TaskInHand, ExclusiveOwner, StreamInv, Next
  PROVE  /\ StreamInv'
         /\ \A x \in Cells : Consumed(x) => Consumed(x)'
         /\ \A c \in Clients : \A m \in Nat : Ahead(c, m) => Ahead(c, m)'
<1>1. \A c \in Clients : StreamOf(c) /\ Moves(c)
  BY StreamsMove DEF StreamInv
<1>2. ASSUME NEW c \in Clients
      PROVE  /\ StreamOf(c)'
             /\ \A x \in Cells : x.c = c /\ Consumed(x) => Consumed(x)'
             /\ \A m \in Nat : Ahead(c, m) => Ahead(c, m)'
  BY <1>1, StreamShrinks, StreamGrows DEF Moves
<1>3. \A x \in Cells : x.c \in Clients
  BY DEF Cells
<1> QED
  BY <1>2, <1>3 DEF StreamInv
-----------------------------------------------------------------------------
(* The buffers *)

\* A step of one worker leaves the others where they are.
LEMMA OthersKept ==
  ASSUME TypeOK, NEW w \in Workers, WorkerStep(w), NEW u \in Workers, u # w
  PROVE  wpc'[u] = wpc[u] /\ wfd'[u] = wfd[u] /\ wtmp'[u] = wtmp[u] /\ wlen'[u] = wlen[u]
<1>0. /\ wpc \in [Workers -> Steps] /\ wfd \in [Workers -> Fds \cup {0}]
      /\ wtmp \in [Workers -> CellSeqs] /\ wlen \in [Workers -> 0..BufSize]
  BY DEF TypeOK
<1>1. CASE Take(w) \/ Guard(w) \/ Check(w) \/ ReadCells(w) \/ ReadNothing(w) \/ ReadFails(w)
           \/ Store(w) \/ Terminate(w) \/ ParseThrows(w) \/ Parse(w)
  BY <1>0, <1>1 DEF Take, Guard, Check, ReadCells, ReadNothing, ReadFails, Store, Terminate,
     ParseThrows, Parse, Goto, workVars
<1>2. CASE Count(w)
  BY <1>0, <1>2 DEF Count, Goto
<1>3. CASE Arm(w) \/ ClearBuf(w) \/ ClearLen(w) \/ Release(w) \/ Write(w) \/ WriteFails(w)
           \/ ClearReply(w) \/ Rearm(w)
  BY <1>0, <1>3 DEF Arm, ClearBuf, ClearLen, Release, Write, WriteFails, ClearReply, Rearm,
     Goto
<1> QED
  BY <1>1, <1>2, <1>3, Zenon DEF WorkerStep

\* memcpy: where a step of worker w on connection f leaves m_buf.
LEMMA StoredCells ==
  ASSUME ServerInv, NEW w \in Workers, Store(w)
  PROVE  LET f == wfd[w]
             a == alllen[f]
             k == Len(wtmp[w])
         IN  /\ f \in Fds /\ a \in Nat /\ k \in Nat /\ a + k <= BufSize
             /\ wpc[w] = "store" /\ wpc'[w] = "count" /\ wlen'[w] = a + k
             /\ UNCHANGED <<wfd, wtmp, alllen>>
             /\ \A g \in Fds : g # f => buf'[g] = buf[g]
             /\ \A j \in 1..BufSize :
                  buf'[f][j] = IF j \in a + 1..a + k THEN wtmp[w][j - a] ELSE buf[f][j]
<1> DEFINE f == wfd[w]
           a == alllen[f]
           k == Len(wtmp[w])
           b == [j \in 1..BufSize |-> IF j \in a + 1..a + k THEN wtmp[w][j - a]
                                      ELSE buf[f][j]]
<1>1. wpc[w] = "store" /\ f \in Fds /\ a + k <= BufSize
  BY DEF Store, At, TaskInHand, ServerInv, Fits
<1>2. /\ alllen \in [Fds -> 0..BufSize] /\ wtmp[w] \in CellSeqs /\ BufSize \in Nat
      /\ buf \in [Fds -> [1..BufSize -> Cells \cup {NUL}]]
      /\ wpc \in [Workers -> Steps] /\ wlen \in [Workers -> 0..BufSize]
  BY ChatServerAssumption DEF TypeOK, ServerInv
<1>3. a \in Nat /\ k \in Nat
  BY <1>1, <1>2, LenProperties DEF CellSeqs
<1>4. /\ buf' = [buf EXCEPT ![f] = b] /\ wlen' = [wlen EXCEPT ![w] = a + k]
      /\ wpc' = [wpc EXCEPT ![w] = "count"] /\ UNCHANGED <<wfd, wtmp, alllen>>
  BY Zenon DEF Store, Goto
<1> HIDE DEF b
<1>5. buf'[f] = b /\ \A g \in Fds : g # f => buf'[g] = buf[g]
  BY <1>1, <1>2, <1>4
<1>6. wlen'[w] = a + k /\ wpc'[w] = "count"
  BY <1>2, <1>4
<1> QED
  BY <1>1, <1>3, <1>4, <1>5, <1>6 DEF b

\* alllen += len: it never ends below what it was, plus what was read.
LEMMA CountedCells ==
  ASSUME ServerInv, NEW w \in Workers, Count(w)
  PROVE  LET f == wfd[w]
             k == Len(wtmp[w])
         IN  /\ f \in Fds /\ k \in Nat /\ alllen[f] \in Nat /\ wlen[w] \in Nat
             /\ wpc[w] = "count" /\ wpc'[w] = "end"
             /\ UNCHANGED <<wfd, buf>>
             /\ \A g \in Fds : g # f => alllen'[g] = alllen[g]
             /\ alllen'[f] \in Nat /\ alllen'[f] = wlen'[w]
             /\ alllen'[f] \in {alllen[f] + k, wlen[w]}
             /\ alllen'[f] >= alllen[f] + k
<1> DEFINE f == wfd[w]
           k == Len(wtmp[w])
<1>1. wpc[w] = "count" /\ f \in Fds /\ alllen[f] + k <= wlen[w]
  BY DEF Count, At, TaskInHand, ServerInv, Fits
<1>2. /\ alllen \in [Fds -> 0..BufSize] /\ wtmp[w] \in CellSeqs /\ BufSize \in Nat
      /\ wpc \in [Workers -> Steps] /\ wlen \in [Workers -> 0..BufSize]
  BY ChatServerAssumption DEF TypeOK, ServerInv
<1>3. k \in Nat /\ alllen[f] \in Nat /\ wlen[w] \in Nat
  BY <1>1, <1>2, LenProperties DEF CellSeqs
<1>4. PICK n \in {alllen[f] + k, wlen[w]} :
        /\ alllen' = [alllen EXCEPT ![f] = n] /\ wlen' = [wlen EXCEPT ![w] = n]
  BY Zenon DEF Count
<1>5. wpc' = [wpc EXCEPT ![w] = "end"] /\ UNCHANGED <<wfd, buf>>
  BY Zenon DEF Count, Goto
<1>6. /\ alllen'[f] = n /\ wlen'[w] = n /\ wpc'[w] = "end"
      /\ \A g \in Fds : g # f => alllen'[g] = alllen[g]
  BY <1>1, <1>2, <1>4, <1>5
<1> HIDE DEF f, k
<1>7. n \in Nat /\ n >= alllen[f] + k
  BY <1>1, <1>3
<1> QED
  BY <1>1, <1>3, <1>5, <1>6, <1>7 DEF f, k

\* The zero never lands in front of what alllen counts.
LEMMA EndedCells ==
  ASSUME ServerInv, NEW w \in Workers, Terminate(w)
  PROVE  LET f == wfd[w]
         IN  /\ f \in Fds /\ wpc[w] = "end" /\ wpc'[w] = "read"
             /\ UNCHANGED <<wfd, alllen>>
             /\ \A g \in Fds : g # f => buf'[g] = buf[g]
             /\ \E p \in {alllen[f], wlen[w]} :
                  /\ p \in Nat /\ p >= alllen[f] /\ alllen[f] \in Nat
                  /\ \A j \in 1..BufSize : buf'[f][j] = IF j = p + 1 THEN NUL
                                                                     ELSE buf[f][j]
<1> DEFINE f == wfd[w]
<1>1. wpc[w] = "end" /\ f \in Fds /\ alllen[f] <= wlen[w]
  BY DEF Terminate, At, TaskInHand, ServerInv, Fits
<1>2. /\ alllen \in [Fds -> 0..BufSize] /\ BufSize \in Nat
      /\ buf \in [Fds -> [1..BufSize -> Cells \cup {NUL}]]
      /\ wpc \in [Workers -> Steps] /\ wlen \in [Workers -> 0..BufSize]
  BY ChatServerAssumption DEF TypeOK, ServerInv
<1>3. PICK p \in {alllen[f], wlen[w]} :
        buf' = [buf EXCEPT ![f] = [j \in 1..BufSize |-> IF j = p + 1 THEN NUL ELSE @[j]]]
  BY Zenon DEF Terminate
<1>4. wpc' = [wpc EXCEPT ![w] = "read"] /\ UNCHANGED <<wfd, alllen>>
  BY Zenon DEF Terminate, Goto
<1>5. wpc'[w] = "read"
  BY <1>2, <1>4
<1>6. p \in Nat /\ p >= alllen[f] /\ alllen[f] \in Nat
  BY <1>1, <1>2
<1> DEFINE b == [j \in 1..BufSize |-> IF j = p + 1 THEN NUL ELSE buf[f][j]]
<1>7. buf' = [buf EXCEPT ![f] = b]
  BY <1>3
<1> HIDE DEF b
<1>8. buf'[f] = b /\ \A g \in Fds : g # f => buf'[g] = buf[g]
  BY <1>1, <1>2, <1>7
<1>9. \A j \in 1..BufSize : buf'[f][j] = IF j = p + 1 THEN NUL ELSE buf[f][j]
  BY <1>8 DEF b
<1> HIDE DEF f
<1> QED
  BY <1>1, <1>4, <1>5, <1>6, <1>8, <1>9 DEF f

\* The zeros a step leaves behind.
Wiping(w) == ReadNothing(w) \/ ClearBuf(w) \/ ClearLen(w)
LEMMA WipedCells ==
  ASSUME ServerInv, NEW w \in Workers, Wiping(w)
  PROVE  /\ wfd[w] \in Fds /\ UNCHANGED <<wfd, wtmp, wlen>>
         /\ \A g \in Fds : g # wfd[w] => buf'[g] = buf[g] /\ alllen'[g] = alllen[g]
         /\ ClearLen(w) => /\ wpc[w] = "clearlen" /\ wpc'[w] = "release"
                           /\ buf' = buf /\ alllen'[wfd[w]] = 0
         /\ ~ClearLen(w) => buf'[wfd[w]] = Zeros /\ buf'[wfd[w]][1] = NUL
         /\ ClearBuf(w) => wpc[w] = "clearbuf" /\ wpc'[w] = "clearlen" /\ alllen' = alllen
         /\ ReadNothing(w) => wpc[w] = "read" /\ wpc'[w] = "release"
<1>1. wpc[w] # "idle" /\ wfd[w] \in Fds
  BY DEF Wiping, ReadNothing, ClearBuf, ClearLen, At, ServerInv, TaskInHand
<1>2. /\ alllen \in [Fds -> 0..BufSize] /\ wpc \in [Workers -> Steps]
      /\ buf \in [Fds -> [1..BufSize -> Cells \cup {NUL}]] /\ Zeros[1] = NUL
  BY ChatServerAssumption DEF TypeOK, ServerInv, Zeros
<1>3. CASE ReadNothing(w)
  BY <1>1, <1>2, <1>3 DEF ReadNothing, ClearBuf, ClearLen, At, Goto
<1>4. CASE ClearBuf(w)
  BY <1>1, <1>2, <1>4 DEF ReadNothing, ClearBuf, ClearLen, At, Goto
<1>5. CASE ClearLen(w)
  BY <1>1, <1>2, <1>5 DEF ReadNothing, ClearBuf, ClearLen, At, Goto
<1> QED
  BY <1>3, <1>4, <1>5 DEF Wiping

\* The steps that touch m_buf and alllen, if none cleans an object that is free.
Buffering(w) == Store(w) \/ Count(w) \/ Terminate(w)
LEMMA BufSteps ==
  ASSUME ServerInv, ~AddFails, Next
  PROVE  \/ \E w \in Workers : Buffering(w) \/ Wiping(w)
         \/ UNCHANGED <<buf, alllen>>
<1> USE DEF connVars
<1>1. CASE ClientStep
  BY <1>1 DEF ClientStep, Connect, Leave, Send
<1>2. CASE LoopStep
  BY <1>2 DEF LoopStep, EpollWait, BeginAccept, AcceptEnd, Accept, Refuse, HangUp, Dispatch
<1>3. ASSUME NEW w \in Workers, WorkerStep(w)
      PROVE  Buffering(w) \/ Wiping(w) \/ UNCHANGED <<buf, alllen>>
  BY <1>3 DEF WorkerStep, Buffering, Wiping, Take, Guard, Check, ReadCells, ReadFails,
     ParseThrows, Parse, Arm, Release, Write, WriteFails, ClearReply, Rearm
<1> QED
  BY <1>1, <1>2, <1>3 DEF Next

\* One worker at a time reads into the buffer of a connection.
LEMMA OneReader ==
  ASSUME ServerInv, NEW v \in Workers, NEW w \in Workers, wpc[v] \in Hands,
         wpc[w] \in Hands, wfd[v] = wfd[w]
  PROVE  v = w
BY DEF ServerInv, ExclusiveOwner

\* A worker enters and leaves the steps between memcpy and the zero by these.
LEMMA StageKept ==
  ASSUME ServerInv, Next, NEW u \in Workers, ~Store(u), ~Count(u), ~Terminate(u),
         wpc[u] \in {"count", "end"} \/ wpc'[u] \in {"count", "end"}
  PROVE  wpc'[u] = wpc[u] /\ wfd'[u] = wfd[u] /\ wtmp'[u] = wtmp[u] /\ wlen'[u] = wlen[u]
<1>0. TypeOK /\ wpc \in [Workers -> Steps]
  BY DEF ServerInv, TypeOK
<1>1. CASE ClientStep
  BY <1>1 DEF ClientStep, Connect, Leave, Send, workVars
<1>2. CASE LoopStep
  BY <1>2 DEF LoopStep, EpollWait, BeginAccept, AcceptEnd, Accept, Refuse, HangUp, Dispatch,
     workVars
<1>3. ASSUME WorkerStep(u) PROVE FALSE
  <2>1. CASE Take(u) \/ Guard(u) \/ Check(u) \/ ReadCells(u) \/ ReadNothing(u)
             \/ ReadFails(u) \/ Parse(u) \/ ParseThrows(u)
    BY <1>0, <2>1 DEF Take, Guard, Check, ReadCells, ReadNothing, ReadFails, Parse,
       ParseThrows, At, Goto, workVars
  <2>2. CASE Arm(u) \/ ClearBuf(u) \/ ClearLen(u) \/ Release(u) \/ Write(u)
             \/ WriteFails(u) \/ ClearReply(u) \/ Rearm(u)
    BY <1>0, <2>2 DEF Arm, ClearBuf, ClearLen, Release, Write, WriteFails, ClearReply, Rearm,
       At, Goto
  <2> QED
    BY <1>3, <2>1, <2>2, Zenon DEF WorkerStep
<1>4. ASSUME NEW w \in Workers, WorkerStep(w), w # u
      PROVE  wpc'[u] = wpc[u] /\ wfd'[u] = wfd[u] /\ wtmp'[u] = wtmp[u] /\ wlen'[u] = wlen[u]
  BY <1>0, <1>4, OthersKept
<1> QED
  BY <1>1, <1>2, <1>3, <1>4, Zenon DEF Next

LEMMA PrefixStep ==
  ASSUME ServerInv, BufferInv, LateInv, ~AddFails, Next
  PROVE  PrefixFilled'
<1>0. /\ buf \in [Fds -> [1..BufSize -> Cells \cup {NUL}]]
      /\ alllen \in [Fds -> 0..BufSize] /\ wlen \in [Workers -> 0..BufSize]
      /\ BufSize \in Nat \ {0} /\ 1 \in 1..BufSize /\ NUL \notin Cells
      /\ TypeOK /\ TaskInHand /\ PrefixFilled /\ EndedInv
  BY ChatServerAssumption DEF TypeOK, ServerInv, BufferInv
<1>1. ASSUME NEW f \in Fds, NEW n \in 0..BufSize, Filled(f, n), buf'[f] = buf[f]
      PROVE  Filled(f, n)'
  BY <1>1 DEF Filled
<1>2. ASSUME NEW f \in Fds, NEW n, buf'[f][1] = NUL PROVE Filled(f, n)'
  BY <1>2 DEF Filled
\* Who counts, and how far, when the step is not one of f's reader.
<1>3. ASSUME NEW u \in Workers, wpc'[u] = "count", wpc'[u] = wpc[u], wfd'[u] = wfd[u],
             wlen'[u] = wlen[u],
             buf'[wfd[u]] = buf[wfd[u]] \/ buf'[wfd[u]][1] = NUL
      PROVE  Filled(wfd[u], wlen[u])'
  <2>1. wfd[u] \in Fds /\ Filled(wfd[u], wlen[u]) /\ wlen[u] \in 0..BufSize
    BY <1>0, <1>3 DEF TaskInHand, PrefixFilled
  <2> QED
    BY <1>3, <2>1 DEF Filled
<1>4. ASSUME NEW w \in Workers, Store(w) PROVE PrefixFilled'
  <2> DEFINE f == wfd[w]
             a == alllen[f]
             k == Len(wtmp[w])
  <2>1. /\ f \in Fds /\ a \in Nat /\ k \in Nat /\ a + k <= BufSize
        /\ wpc[w] = "store" /\ wlen'[w] = a + k
        /\ UNCHANGED <<wfd, alllen>>
        /\ \A g \in Fds : g # f => buf'[g] = buf[g]
        /\ \A j \in 1..BufSize :
             buf'[f][j] = IF j \in a + 1..a + k THEN wtmp[w][j - a] ELSE buf[f][j]
    BY <1>4, StoredCells
  <2>2. \A j \in 1..k : wtmp[w][j] # NUL
    <3>1. wtmp[w] \in Seq(Cells)
      BY <1>0 DEF TypeOK, CellSeqs
    <3> QED
      BY <1>0, <3>1
  <2>3. buf[f][1] # NUL => \A j \in 1..a : buf[f][j] # NUL
    BY <1>0, <2>1 DEF PrefixFilled, Filled
  <2>4. PICK g \in Fds, m \in Nat, l \in Nat : g = f /\ m = a /\ l = k
    BY <2>1
  <2> HIDE DEF a, k
  <2>5. buf'[f][1] # NUL => \A j \in 1..a + k : buf'[f][j] # NUL
    <3> SUFFICES ASSUME buf'[f][1] # NUL, NEW j \in 1..a + k PROVE buf'[f][j] # NUL
      OBVIOUS
    <3>0. j \in 1..BufSize
      BY <1>0, <2>1
    <3>1. CASE j \in a + 1..a + k
      <4>1. j - a \in 1..k
        BY <2>1, <3>1
      <4> QED
        BY <2>1, <2>2, <3>0, <3>1, <4>1
    <3>2. CASE j \notin a + 1..a + k
      <4>1. j \in 1..a /\ 1 \notin a + 1..a + k
        BY <2>1, <3>2
      <4>2. buf'[f][1] = buf[f][1] /\ buf'[f][j] = buf[f][j]
        BY <1>0, <2>1, <3>0, <3>2, <4>1
      <4> QED
        BY <2>3, <4>1, <4>2
    <3> QED
      BY <3>1, <3>2
  <2>6. Filled(g, m + l)' /\ Filled(g, m)'
    <3>1. \A j \in 1..m : j \in 1..m + l
      BY <2>4
    <3> QED
      BY <2>4, <2>5, <3>1 DEF Filled
  <2>7. ASSUME NEW h \in Fds PROVE Filled(h, alllen[h])'
    <3>1. CASE h = g
      BY <2>1, <2>4, <2>6, <3>1 DEF Filled, a
    <3>2. CASE h # g
      BY <1>0, <2>1, <2>4, <3>2 DEF Filled, PrefixFilled
    <3> QED
      BY <3>1, <3>2
  <2>8. ASSUME NEW u \in Workers, wpc'[u] = "count" PROVE Filled(wfd[u], wlen[u])'
    <3>1. CASE u = w
      BY <2>1, <2>4, <2>6, <3>1 DEF Filled
    <3>2. CASE u # w
      <4>1. wpc'[u] = wpc[u] /\ wfd'[u] = wfd[u] /\ wlen'[u] = wlen[u]
        BY <1>0, <1>4, <3>2, OthersKept, Zenon DEF WorkerStep
      <4>2. wfd[u] \in Fds /\ wfd[u] # wfd[w]
        BY <1>0, <2>1, <2>8, <3>2, <4>1, OneReader DEF Hands, TaskInHand
      <4> QED
        BY <1>3, <2>1, <2>8, <4>1, <4>2
    <3> QED
      BY <3>1, <3>2
  <2> QED
    BY <2>7, <2>8 DEF PrefixFilled
<1>5. ASSUME NEW w \in Workers, Count(w) PROVE PrefixFilled'
  <2>1. /\ wfd[w] \in Fds /\ wpc[w] = "count" /\ wpc'[w] = "end" /\ UNCHANGED <<wfd, buf>>
        /\ \A g \in Fds : g # wfd[w] => alllen'[g] = alllen[g]
        /\ alllen'[wfd[w]] \in {alllen[wfd[w]] + Len(wtmp[w]), wlen[w]}
    BY <1>5, CountedCells
  <2>2. buf[wfd[w]][1] # NUL => alllen'[wfd[w]] = wlen[w]
    BY <1>0, <2>1 DEF EndedInv
  <2>3. Filled(wfd[w], wlen[w])
    BY <1>0, <2>1 DEF PrefixFilled
  <2>4. \A g \in Fds : Filled(g, alllen[g])'
    BY <1>0, <2>1, <2>2, <2>3 DEF PrefixFilled, Filled
  <2>5. ASSUME NEW u \in Workers, wpc'[u] = "count" PROVE Filled(wfd[u], wlen[u])'
    <3>1. u # w
      BY <2>1, <2>5
    <3>2. wpc'[u] = wpc[u] /\ wfd'[u] = wfd[u] /\ wlen'[u] = wlen[u]
      BY <1>0, <1>5, <3>1, OthersKept, Zenon DEF WorkerStep
    <3> QED
      BY <1>3, <2>1, <2>5, <3>2
  <2> QED
    BY <2>4, <2>5 DEF PrefixFilled
<1>6. ASSUME NEW w \in Workers, Terminate(w) PROVE PrefixFilled'
  <2>1. /\ wfd[w] \in Fds /\ wpc[w] = "end" /\ wpc'[w] = "read" /\ UNCHANGED <<wfd, alllen>>
        /\ \A g \in Fds : g # wfd[w] => buf'[g] = buf[g]
    BY <1>6, EndedCells
  <2>2. PICK p \in {alllen[wfd[w]], wlen[w]} :
          /\ p \in Nat /\ p >= alllen[wfd[w]] /\ alllen[wfd[w]] \in Nat
          /\ \A j \in 1..BufSize :
               buf'[wfd[w]][j] = IF j = p + 1 THEN NUL ELSE buf[wfd[w]][j]
    BY <1>6, EndedCells
  <2>3. ASSUME NEW g \in Fds PROVE Filled(g, alllen[g])'
    <3>1. CASE g = wfd[w]
      <4>1. \A j \in 1..alllen[g] : j \in 1..BufSize /\ j # p + 1
        BY <1>0, <2>2, <3>1
      <4>2. buf'[g][1] # NUL => buf[g][1] # NUL
        BY <1>0, <2>2, <3>1
      <4>3. \A j \in 1..alllen[g] : buf'[g][j] = buf[g][j]
        BY <2>2, <3>1, <4>1
      <4> QED
        BY <1>0, <2>1, <4>2, <4>3 DEF PrefixFilled, Filled
    <3>2. CASE g # wfd[w]
      BY <1>0, <2>1, <3>2 DEF Filled, PrefixFilled
    <3> QED
      BY <3>1, <3>2
  <2>4. ASSUME NEW u \in Workers, wpc'[u] = "count" PROVE Filled(wfd[u], wlen[u])'
    <3>1. u # w
      BY <2>1, <2>4
    <3>2. wpc'[u] = wpc[u] /\ wfd'[u] = wfd[u] /\ wlen'[u] = wlen[u]
      BY <1>0, <1>6, <3>1, OthersKept, Zenon DEF WorkerStep
    <3>3. wfd[u] \in Fds /\ wfd[u] # wfd[w]
      BY <1>0, <2>1, <2>4, <3>1, <3>2, OneReader DEF Hands, TaskInHand
    <3> QED
      BY <1>3, <2>1, <2>4, <3>2, <3>3
  <2> QED
    BY <2>3, <2>4 DEF PrefixFilled
<1>7. ASSUME NEW w \in Workers, Wiping(w) PROVE PrefixFilled'
  <2>1. /\ wfd[w] \in Fds /\ UNCHANGED <<wfd, wlen>>
        /\ \A g \in Fds : g # wfd[w] => buf'[g] = buf[g] /\ alllen'[g] = alllen[g]
        /\ \/ buf' = buf /\ alllen'[wfd[w]] = 0
           \/ buf'[wfd[w]][1] = NUL
        /\ wpc'[w] # "count"
    BY <1>7, WipedCells DEF Wiping
  <2>2. ASSUME NEW g \in Fds PROVE Filled(g, alllen[g])'
    <3>1. CASE buf' = buf /\ alllen'[wfd[w]] = 0
      <4>1. CASE g = wfd[w]
        <5>1. alllen'[g] = 0
          BY <3>1, <4>1
        <5> QED
          BY <5>1 DEF Filled
      <4>2. CASE g # wfd[w]
        BY <1>0, <2>1, <4>2 DEF PrefixFilled, Filled
      <4> QED
        BY <4>1, <4>2
    <3>2. CASE buf'[wfd[w]][1] = NUL
      BY <1>0, <2>1, <3>2 DEF PrefixFilled, Filled
    <3> QED
      BY <2>1, <3>1, <3>2
  <2>3. ASSUME NEW u \in Workers, wpc'[u] = "count" PROVE Filled(wfd[u], wlen[u])'
    <3>1. u # w
      BY <2>1, <2>3
    <3>2. wpc'[u] = wpc[u] /\ wfd'[u] = wfd[u] /\ wlen'[u] = wlen[u]
      BY <1>0, <1>7, <3>1, OthersKept, Zenon DEF WorkerStep, Wiping
    <3>3. wfd[u] \in Fds
      BY <1>0, <2>3, <3>2 DEF TaskInHand
    <3> QED
      BY <1>3, <2>1, <2>3, <3>2, <3>3
  <2> QED
    BY <2>2, <2>3 DEF PrefixFilled
<1>8. ASSUME UNCHANGED <<buf, alllen>>, ~\E w \in Workers : Buffering(w) PROVE PrefixFilled'
  <2>1. \A g \in Fds : Filled(g, alllen[g])'
    BY <1>0, <1>8 DEF PrefixFilled, Filled
  <2>2. ASSUME NEW u \in Workers, wpc'[u] = "count" PROVE Filled(wfd[u], wlen[u])'
    <3>1. wpc'[u] = wpc[u] /\ wfd'[u] = wfd[u] /\ wlen'[u] = wlen[u]
      BY <1>8, <2>2, StageKept DEF Buffering
    <3> QED
      BY <1>3, <1>8, <2>2, <3>1
  <2> QED
    BY <2>1, <2>2 DEF PrefixFilled
<1> QED
  BY <1>4, <1>5, <1>6, <1>7, <1>8, BufSteps DEF Buffering

LEMMA EndedStep ==
  ASSUME ServerInv, BufferInv, LateInv, ~AddFails, Next
  PROVE  EndedInv'
<1> DEFINE Counted(u) ==
             wpc[u] = "count" /\ buf[wfd[u]][1] # NUL =>
               alllen[wfd[u]] + Len(wtmp[u]) = wlen[u]
           Closed(u) == wpc[u] = "end" /\ buf[wfd[u]][1] # NUL => alllen[wfd[u]] = wlen[u]
<1>0. /\ alllen \in [Fds -> 0..BufSize] /\ wlen \in [Workers -> 0..BufSize]
      /\ BufSize \in Nat \ {0} /\ 1 \in 1..BufSize
      /\ TypeOK /\ TaskInHand /\ EndedInv
      /\ \A u \in Workers : Counted(u) /\ Closed(u)
  BY ChatServerAssumption DEF TypeOK, ServerInv, BufferInv, EndedInv
\* Connections and workers that the step does not touch.
<1>1. ASSUME NEW f \in Fds, \A u \in Workers : ~Unended(u, f)',
             \A u \in Workers : Unended(u, f) => Unended(u, f)',
             buf'[f] = buf[f] /\ alllen'[f] = alllen[f]
      PROVE  Ended(f)'
  BY <1>0, <1>1 DEF EndedInv, Ended
<1>2. ASSUME NEW f \in Fds, buf'[f][1] = NUL PROVE Ended(f)'
  BY <1>2 DEF Ended
<1>3. ASSUME NEW u \in Workers,
             wpc'[u] = wpc[u] /\ wfd'[u] = wfd[u] /\ wtmp'[u] = wtmp[u] /\ wlen'[u] = wlen[u],
             \/ buf'[wfd[u]] = buf[wfd[u]] /\ alllen'[wfd[u]] = alllen[wfd[u]]
             \/ buf'[wfd[u]][1] = NUL
      PROVE  Counted(u)' /\ Closed(u)'
  BY <1>0, <1>3
<1>4. ASSUME NEW w \in Workers, Store(w) PROVE EndedInv'
  <2>1. /\ wfd[w] \in Fds /\ wpc[w] = "store" /\ wpc'[w] = "count"
        /\ wlen'[w] = alllen[wfd[w]] + Len(wtmp[w])
        /\ UNCHANGED <<wfd, wtmp, alllen>>
        /\ \A g \in Fds : g # wfd[w] => buf'[g] = buf[g]
    BY <1>4, StoredCells
  <2>2. ASSUME NEW u \in Workers, u # w
        PROVE  /\ wpc'[u] = wpc[u] /\ wfd'[u] = wfd[u]
               /\ wtmp'[u] = wtmp[u] /\ wlen'[u] = wlen[u]
    BY <1>0, <1>4, <2>2, OthersKept, Zenon DEF WorkerStep
  <2>3. ASSUME NEW g \in Fds, \A u \in Workers : ~Unended(u, g)' PROVE Ended(g)'
    <3>1. g # wfd[w]
      BY <2>1, <2>3 DEF Unended
    <3>2. \A u \in Workers : Unended(u, g) => Unended(u, g)'
      BY <2>1, <2>2, <3>1 DEF Unended
    <3> QED
      BY <1>1, <2>1, <2>3, <3>1, <3>2
  <2>4. ASSUME NEW u \in Workers PROVE Counted(u)' /\ Closed(u)'
    <3>1. CASE u = w
      BY <2>1, <3>1
    <3>2. CASE u # w /\ wpc[u] \in {"count", "end"}
      <4>1. wfd[u] \in Fds /\ wfd[u] # wfd[w]
        BY <1>0, <2>1, <3>2, OneReader DEF Hands, TaskInHand
      <4> QED
        BY <1>3, <2>1, <2>2, <3>2, <4>1
    <3>3. CASE u # w /\ wpc[u] \notin {"count", "end"}
      BY <2>2, <3>3
    <3> QED
      BY <3>1, <3>2, <3>3
  <2> QED
    BY <2>3, <2>4 DEF EndedInv
<1>5. ASSUME NEW w \in Workers, Count(w) PROVE EndedInv'
  <2>1. /\ wfd[w] \in Fds /\ wpc[w] = "count" /\ wpc'[w] = "end"
        /\ UNCHANGED <<wfd, buf>> /\ alllen'[wfd[w]] = wlen'[w]
        /\ \A g \in Fds : g # wfd[w] => alllen'[g] = alllen[g]
    BY <1>5, CountedCells
  <2>2. ASSUME NEW u \in Workers, u # w
        PROVE  /\ wpc'[u] = wpc[u] /\ wfd'[u] = wfd[u]
               /\ wtmp'[u] = wtmp[u] /\ wlen'[u] = wlen[u]
    BY <1>0, <1>5, <2>2, OthersKept, Zenon DEF WorkerStep
  <2>3. ASSUME NEW g \in Fds, \A u \in Workers : ~Unended(u, g)' PROVE Ended(g)'
    <3>1. g # wfd[w]
      BY <2>1, <2>3 DEF Unended
    <3>2. \A u \in Workers : Unended(u, g) => Unended(u, g)'
      BY <2>1, <2>2, <3>1 DEF Unended
    <3> QED
      BY <1>1, <2>1, <2>3, <3>1, <3>2
  <2>4. ASSUME NEW u \in Workers PROVE Counted(u)' /\ Closed(u)'
    <3>1. CASE u = w
      BY <2>1, <3>1
    <3>2. CASE u # w /\ wpc[u] \in {"count", "end"}
      <4>1. wfd[u] \in Fds /\ wfd[u] # wfd[w]
        BY <1>0, <2>1, <3>2, OneReader DEF Hands, TaskInHand
      <4> QED
        BY <1>3, <2>1, <2>2, <3>2, <4>1
    <3>3. CASE u # w /\ wpc[u] \notin {"count", "end"}
      BY <2>2, <3>3
    <3> QED
      BY <3>1, <3>2, <3>3
  <2> QED
    BY <2>3, <2>4 DEF EndedInv
<1>6. ASSUME NEW w \in Workers, Terminate(w) PROVE EndedInv'
  <2>1. /\ wfd[w] \in Fds /\ wpc[w] = "end" /\ wpc'[w] = "read" /\ UNCHANGED <<wfd, alllen>>
        /\ \A g \in Fds : g # wfd[w] => buf'[g] = buf[g]
    BY <1>6, EndedCells
  <2>2. PICK p \in {alllen[wfd[w]], wlen[w]} :
          /\ p \in Nat /\ p >= alllen[wfd[w]] /\ alllen[wfd[w]] \in Nat
          /\ \A j \in 1..BufSize :
               buf'[wfd[w]][j] = IF j = p + 1 THEN NUL ELSE buf[wfd[w]][j]
    BY <1>6, EndedCells
  <2>3. ASSUME NEW u \in Workers, u # w
        PROVE  /\ wpc'[u] = wpc[u] /\ wfd'[u] = wfd[u]
               /\ wtmp'[u] = wtmp[u] /\ wlen'[u] = wlen[u]
    BY <1>0, <1>6, <2>3, OthersKept, Zenon DEF WorkerStep
  <2>4. Ended(wfd[w])'
    <3> SUFFICES ASSUME buf'[wfd[w]][1] # NUL, alllen[wfd[w]] < BufSize
                 PROVE  buf'[wfd[w]][alllen[wfd[w]] + 1] = NUL
      BY <2>1 DEF Ended
    <3>1. buf[wfd[w]][1] # NUL
      BY <1>0, <2>2
    <3>2. p = alllen[wfd[w]]
      BY <1>0, <2>1, <3>1
    <3> QED
      BY <1>0, <2>2, <3>2
  <2>5. ASSUME NEW g \in Fds, \A u \in Workers : ~Unended(u, g)' PROVE Ended(g)'
    <3>1. CASE g = wfd[w]
      BY <2>1, <2>4, <3>1 DEF Ended
    <3>2. CASE g # wfd[w]
      <4>1. \A u \in Workers : Unended(u, g) => Unended(u, g)'
        BY <2>1, <2>3, <3>2 DEF Unended
      <4> QED
        BY <1>1, <2>1, <2>5, <3>2, <4>1
    <3> QED
      BY <3>1, <3>2
  <2>6. ASSUME NEW u \in Workers PROVE Counted(u)' /\ Closed(u)'
    <3>1. CASE u = w
      BY <2>1, <3>1
    <3>2. CASE u # w /\ wpc[u] \in {"count", "end"}
      <4>1. wfd[u] \in Fds /\ wfd[u] # wfd[w]
        BY <1>0, <2>1, <3>2, OneReader DEF Hands, TaskInHand
      <4> QED
        BY <1>3, <2>1, <2>3, <3>2, <4>1
    <3>3. CASE u # w /\ wpc[u] \notin {"count", "end"}
      BY <2>3, <3>3
    <3> QED
      BY <3>1, <3>2, <3>3
  <2> QED
    BY <2>5, <2>6 DEF EndedInv
<1>7. ASSUME NEW w \in Workers, Wiping(w) PROVE EndedInv'
  <2>1. /\ wfd[w] \in Fds /\ UNCHANGED <<wfd, wlen>>
        /\ \A g \in Fds : g # wfd[w] => buf'[g] = buf[g] /\ alllen'[g] = alllen[g]
        /\ wpc[w] \notin {"count", "end"} /\ wpc'[w] \notin {"count", "end"}
    BY <1>7, WipedCells DEF Wiping
  <2>2. buf'[wfd[w]][1] = NUL
    <3>1. CASE ClearLen(w)
      BY <1>7, <3>1, WipedCells DEF LateInv, Wipes
    <3>2. CASE ~ClearLen(w)
      BY <1>7, <3>2, WipedCells
    <3> QED
      BY <3>1, <3>2
  <2>3. ASSUME NEW u \in Workers, u # w
        PROVE  /\ wpc'[u] = wpc[u] /\ wfd'[u] = wfd[u]
               /\ wtmp'[u] = wtmp[u] /\ wlen'[u] = wlen[u]
    BY <1>0, <1>7, <2>3, OthersKept, Zenon DEF WorkerStep, Wiping
  <2>4. ASSUME NEW g \in Fds, \A u \in Workers : ~Unended(u, g)' PROVE Ended(g)'
    <3>1. \A u \in Workers : Unended(u, g) => Unended(u, g)'
      BY <2>1, <2>3 DEF Unended
    <3> QED
      BY <1>1, <1>2, <2>1, <2>2, <2>4, <3>1
  <2>5. ASSUME NEW u \in Workers PROVE Counted(u)' /\ Closed(u)'
    <3>1. CASE u = w \/ wpc[u] \notin {"count", "end"}
      BY <2>1, <2>3, <3>1
    <3>2. CASE u # w /\ wpc[u] \in {"count", "end"}
      <4>1. wfd[u] \in Fds
        BY <1>0, <3>2 DEF TaskInHand
      <4> QED
        BY <1>3, <2>1, <2>2, <2>3, <3>2, <4>1
    <3> QED
      BY <3>1, <3>2
  <2> QED
    BY <2>4, <2>5 DEF EndedInv
<1>8. ASSUME UNCHANGED <<buf, alllen>>, ~\E w \in Workers : Buffering(w) PROVE EndedInv'
  <2>1. ASSUME NEW u \in Workers, wpc[u] \in {"count", "end"} \/ wpc'[u] \in {"count", "end"}
        PROVE  /\ wpc'[u] = wpc[u] /\ wfd'[u] = wfd[u]
               /\ wtmp'[u] = wtmp[u] /\ wlen'[u] = wlen[u]
    BY <1>8, <2>1, StageKept DEF Buffering
  <2>2. \A g \in Fds : \A u \in Workers : Unended(u, g) => Unended(u, g)'
    BY <2>1 DEF Unended
  <2>3. \A u \in Workers : Counted(u)' /\ Closed(u)'
    BY <1>0, <1>8, <2>1
  <2> QED
    BY <1>1, <1>8, <2>2, <2>3 DEF EndedInv
<1> QED
  BY <1>4, <1>5, <1>6, <1>7, <1>8, BufSteps DEF Buffering

\* The worker that reads has the cells in the order they were sent.
LEMMA CellsRead ==
  ASSUME TypeOK, TaskInHand, NEW w \in Workers, ReadCells(w),
         peer[wfd[w]] \in Clients
  PROVE  LET c == peer[wfd[w]]
         IN  /\ \A v \in Workers : v # w => wtmp'[v] = wtmp[v]
             /\ \E k \in 1..Len(rx[c]) :
                  /\ wtmp'[w] # <<>> /\ Len(wtmp'[w]) = k
                  /\ \A j \in 1..k : wtmp'[w][j] = rx[c][j]
                  /\ Len(rx'[c]) = Len(rx[c]) - k
                  /\ \A j \in 1..Len(rx'[c]) : rx'[c][j] = rx[c][j + k]
             /\ next' = next
<1> DEFINE c == peer[wfd[w]]
           k == IF Len(rx[c]) < Room(w) THEN Len(rx[c]) ELSE Room(w)
<1>1. /\ Room(w) > 0 /\ rx[c] # <<>> /\ next' = next
      /\ wtmp' = [wtmp EXCEPT ![w] = SubSeq(rx[c], 1, k)]
      /\ rx' = [rx EXCEPT ![c] = SubSeq(rx[c], k + 1, Len(rx[c]))]
  BY DEF ReadCells, Source
<1>2. Room(w) \in Int
  BY ChatServerAssumption DEF TypeOK, TaskInHand, ReadCells, At, Room
<1>3. rx[c] \in Seq(Cells) /\ Len(rx[c]) \in Nat \ {0}
  BY <1>1, StreamTypes, EmptySeq
<1>4. k \in 1..Len(rx[c])
  BY <1>1, <1>2, <1>3
<1>5. /\ wtmp'[w] = SubSeq(rx[c], 1, k) /\ \A v \in Workers : v # w => wtmp'[v] = wtmp[v]
      /\ rx'[c] = SubSeq(rx[c], k + 1, Len(rx[c]))
  BY <1>1 DEF TypeOK
<1> HIDE DEF k
<1>6. Len(wtmp'[w]) = k /\ \A j \in 1..k : wtmp'[w][j] = rx[c][j]
  BY <1>3, <1>4, <1>5
<1>7. wtmp'[w] # <<>>
  BY <1>4, <1>6
<1>8. /\ Len(rx'[c]) = Len(rx[c]) - k
      /\ \A j \in 1..Len(rx'[c]) : rx'[c][j] = rx[c][j + k]
  <2>1. k \in 0..Len(rx[c]) /\ Len(rx[c]) \in Nat
    BY <1>3, <1>4
  <2> HIDE DEF c
  <2> QED
    BY <1>3, <1>5, <2>1
<1> QED
  BY <1>1, <1>4, <1>5, <1>6, <1>7, <1>8

LEMMA OwnerHasPeer ==
  ASSUME TypeOK, TaskInHand, ExclusiveOwner, NEW w \in Workers, wpc[w] \in Hands
  PROVE  WorkedBy(w, wfd[w]) /\ wfd[w] \in Fds /\ peer[wfd[w]] \in Clients
<1>1. WorkedBy(w, wfd[w]) /\ wfd[w] \in Fds
  BY DEF WorkedBy, Hands, TaskInHand
<1> QED
  BY <1>1 DEF ExclusiveOwner, Worked, TypeOK

LEMMA ConsumedStep ==
  ASSUME ServerInv, ~AddFails, StreamInv, ConsumedInv, Next
  PROVE  ConsumedInv'
<1>0. /\ TypeOK /\ TaskInHand /\ ExclusiveOwner
      /\ buf \in [Fds -> [1..BufSize -> Cells \cup {NUL}]] /\ BufSize \in Nat
      /\ \A w \in Workers : wtmp[w] \in Seq(Cells)
      /\ \A x \in Cells : Consumed(x) => Consumed(x)'
  BY ChatServerAssumption, StreamStep DEF TypeOK, CellSeqs, ServerInv
<1>1. ASSUME NEW f \in Fds, NEW j \in 1..BufSize, buf'[f][j] # NUL
      PROVE  Consumed(buf[f][j])'
  <2>1. buf'[f][j] = buf[f][j] => Consumed(buf[f][j])'
    <3> SUFFICES ASSUME buf'[f][j] = buf[f][j] PROVE Consumed(buf[f][j])'
      OBVIOUS
    <3>1. buf[f][j] \in Cells /\ Consumed(buf[f][j])
      BY <1>0, <1>1 DEF ConsumedInv
    <3>2. PICK x \in Cells : x = buf[f][j]
      BY <3>1
    <3>3. Consumed(x)'
      BY <1>0, <3>1, <3>2
    <3> QED
      BY <3>2, <3>3 DEF Consumed, Sent
  <2>2. ASSUME NEW w \in Workers, Store(w) PROVE Consumed(buf[f][j])'
    <3>1. /\ wfd[w] \in Fds /\ alllen[wfd[w]] \in Nat /\ Len(wtmp[w]) \in Nat
          /\ f # wfd[w] => buf'[f] = buf[f]
          /\ f = wfd[w] =>
               buf'[f][j] = IF j \in alllen[f] + 1..alllen[f] + Len(wtmp[w])
                            THEN wtmp[w][j - alllen[f]]
                            ELSE buf[f][j]
      BY <2>2, StoredCells
    <3>2. CASE f = wfd[w] /\ j \in alllen[f] + 1..alllen[f] + Len(wtmp[w])
      <4>1. j - alllen[f] \in 1..Len(wtmp[w])
        BY <3>1, <3>2
      <4>2. PICK x \in Cells : x = wtmp[w][j - alllen[f]]
        BY <1>0, <4>1
      <4>3. Consumed(x)'
        BY <1>0, <4>1, <4>2 DEF ConsumedInv
      <4>4. buf'[f][j] = x
        BY <3>1, <3>2, <4>2
      <4> QED
        BY <4>3, <4>4 DEF Consumed, Sent
    <3>3. CASE ~(f = wfd[w] /\ j \in alllen[f] + 1..alllen[f] + Len(wtmp[w]))
      <4>1. buf'[f][j] = buf[f][j]
        BY <1>1, <3>1, <3>3
      <4> QED
        BY <2>1, <4>1
    <3> QED
      BY <3>2, <3>3
  <2>3. ASSUME ~\E w \in Workers : Store(w) PROVE buf'[f][j] = buf[f][j]
    <3>1. ASSUME NEW w \in Workers, Count(w) PROVE buf'[f][j] = buf[f][j]
      BY <3>1, CountedCells
    <3>2. ASSUME NEW w \in Workers, Terminate(w) PROVE buf'[f][j] = buf[f][j]
      BY <1>1, <3>2, EndedCells
    <3>3. ASSUME NEW w \in Workers, Wiping(w) PROVE buf'[f][j] = buf[f][j]
      <4>1. f # wfd[w] \/ ClearLen(w) => buf'[f] = buf[f]
        BY <3>3, WipedCells
      <4>2. f = wfd[w] /\ ~ClearLen(w) => buf'[f] = Zeros
        BY <3>3, WipedCells
      <4> QED
        BY <1>1, <4>1, <4>2 DEF Zeros
    <3> QED
      BY <2>3, <3>1, <3>2, <3>3, BufSteps DEF Buffering
  <2> QED
    BY <2>1, <2>2, <2>3
<1>2. ASSUME NEW w \in Workers, NEW j \in 1..Len(wtmp'[w]) PROVE Consumed(wtmp[w][j])'
  <2>1. wtmp'[w] = wtmp[w] => Consumed(wtmp[w][j])'
    <3> SUFFICES ASSUME wtmp'[w] = wtmp[w] PROVE Consumed(wtmp[w][j])'
      OBVIOUS
    <3>1. wtmp[w][j] \in Cells /\ Consumed(wtmp[w][j])
      BY <1>0, <1>2 DEF ConsumedInv
    <3>2. PICK x \in Cells : x = wtmp[w][j]
      BY <3>1
    <3>3. Consumed(x)'
      BY <1>0, <3>1, <3>2
    <3> QED
      BY <3>2, <3>3 DEF Consumed, Sent
  <2>2. ASSUME NEW v \in Workers, ReadCells(v), v = w PROVE Consumed(wtmp[w][j])'
    <3> DEFINE c == peer[wfd[w]]
    <3>1. c \in Clients
      BY <1>0, <2>2, OwnerHasPeer DEF ReadCells, At, Hands
    <3>2. /\ next' = next
          /\ \E k \in 1..Len(rx[c]) :
               /\ Len(wtmp'[w]) = k
               /\ \A i \in 1..k : wtmp'[w][i] = rx[c][i]
               /\ Len(rx'[c]) = Len(rx[c]) - k
               /\ \A i \in 1..Len(rx'[c]) : rx'[c][i] = rx[c][i + k]
      BY <1>0, <2>2, <3>1, CellsRead
    <3> HIDE DEF c
    <3>3. PICK k \in 1..Len(rx[c]) :
            /\ Len(wtmp'[w]) = k
            /\ \A i \in 1..k : wtmp'[w][i] = rx[c][i]
            /\ Len(rx'[c]) = Len(rx[c]) - k
            /\ \A i \in 1..Len(rx'[c]) : rx'[c][i] = rx[c][i + k]
      BY <3>2
    <3>4. Len(rx[c]) \in Nat /\ j \in 1..k /\ k \in Nat
      BY <1>0, <1>2, <3>1, <3>3, StreamTypes
    <3>5. PICK x \in Cells : x = rx[c][j]
      BY <1>0, <3>1, <3>3, <3>4, StreamTypes
    <3>6. x.c = c /\ Sent(x) /\ \A i \in 1..Len(rx[c]) : j < i => Before(x, rx[c][i])
      BY <3>1, <3>3, <3>4, <3>5 DEF StreamInv, StreamOf
    <3>7. \A i \in 1..Len(rx'[c]) : Before(x, rx'[c][i])
      <4>1. ASSUME NEW i \in 1..Len(rx'[c]) PROVE i + k \in 1..Len(rx[c]) /\ j < i + k
        BY <3>3, <3>4
      <4> QED
        BY <3>3, <3>6, <4>1
    <3>8. Consumed(x)'
      BY <3>2, <3>6, <3>7 DEF Consumed, Sent
    <3>9. wtmp'[w][j] = x
      BY <3>3, <3>4, <3>5
    <3> QED
      BY <3>8, <3>9 DEF Consumed, Sent
  <2>3. ASSUME ~ReadCells(w) PROVE wtmp'[w] = wtmp[w] \/ wtmp'[w] = <<>>
    <3>1. CASE UNCHANGED wtmp
      BY <3>1
    <3>2. ASSUME NEW v \in Workers, ReadCells(v) PROVE wtmp'[w] = wtmp[w]
      <4>1. \E s : wtmp' = [wtmp EXCEPT ![v] = s]
        BY <3>2 DEF ReadCells
      <4> QED
        BY <1>0, <2>3, <3>2, <4>1 DEF TypeOK
    <3>3. ASSUME NEW v \in Workers, Count(v) PROVE wtmp'[w] = wtmp[w] \/ wtmp'[w] = <<>>
      BY <1>0, <3>3 DEF Count, TypeOK
    <3>4. ASSUME ~\E v \in Workers : ReadCells(v) \/ Count(v) PROVE UNCHANGED wtmp
      <4>1. CASE ClientStep
        BY <4>1 DEF ClientStep, Connect, Leave, Send, workVars
      <4>2. CASE LoopStep
        BY <4>2 DEF LoopStep, EpollWait, BeginAccept, AcceptEnd, Accept, Refuse, HangUp,
           Dispatch, workVars
      <4>3. ASSUME NEW v \in Workers, WorkerStep(v) PROVE UNCHANGED wtmp
        BY <3>4, <4>3 DEF WorkerStep, Take, Guard, Check, ReadNothing, ReadFails, Store,
           Terminate, ParseThrows, Parse, Arm, ClearBuf, ClearLen, Release, Write, WriteFails,
           ClearReply, Rearm, workVars
      <4> QED
        BY <4>1, <4>2, <4>3 DEF Next
    <3> QED
      BY <3>1, <3>2, <3>3, <3>4
  <2>4. wtmp'[w] # <<>>
    <3> SUFFICES ASSUME wtmp'[w] = <<>> PROVE FALSE
      OBVIOUS
    <3>1. Len(wtmp'[w]) = 0
      OBVIOUS
    <3> QED
      BY <1>2, <3>1
  <2> QED
    BY <2>1, <2>2, <2>3, <2>4
<1> QED
  BY <1>1, <1>2 DEF ConsumedInv

-----------------------------------------------------------------------------
(* The connections *)

LEMMA OtherPeerSteps ==
  ASSUME TypeOK, Next
  PROVE  \/ \E c \in Clients : Connect(c)
         \/ \E f \in Fds : Accept(f) \/ Refuse(f)
         \/ \E e \in EventSet : HangUp(e)
         \/ /\ UNCHANGED <<peer, backlog>>
            /\ \A c \in Clients : cstate'[c] = "new" => cstate[c] = "new"
<1> USE DEF clientVars
<1>1. ASSUME cstate' = cstate
      PROVE  \A c \in Clients : cstate'[c] = "new" => cstate[c] = "new"
  BY <1>1
<1>2. ASSUME NEW c \in Clients, Leave(c)
      PROVE  /\ UNCHANGED <<peer, backlog>>
             /\ \A d \in Clients : cstate'[d] = "new" => cstate[d] = "new"
  <2>1. UNCHANGED <<peer, backlog>> /\ \E s \in {"fin", "rst"} :
          cstate' = [cstate EXCEPT ![c] = s]
    BY <1>2, Zenon DEF Leave
  <2> QED
    BY <2>1 DEF TypeOK
<1>3. ASSUME NEW c \in Clients, NEW k \in 1..BufSize, Send(c, k)
      PROVE  UNCHANGED <<peer, backlog, cstate>>
  BY <1>3 DEF Send
<1>4. CASE ClientStep
  BY <1>1, <1>2, <1>3, <1>4 DEF ClientStep
<1>5. ASSUME LoopStep, ~\E f \in Fds : Accept(f) \/ Refuse(f),
             ~\E e \in EventSet : HangUp(e)
      PROVE  UNCHANGED <<peer, backlog, cstate>>
  BY <1>5 DEF LoopStep, EpollWait, BeginAccept, AcceptEnd, Dispatch
<1>6. ASSUME NEW w \in Workers, WorkerStep(w)
      PROVE  /\ UNCHANGED <<peer, backlog>>
             /\ \A c \in Clients : cstate'[c] = "new" => cstate[c] = "new"
  <2>1. CASE Write(w)
    <3>1. UNCHANGED <<peer, backlog>>
      BY <2>1 DEF Write
    <3>2. cstate' = cstate \/ \E d : cstate' = [cstate EXCEPT ![d] = "rst"]
      BY <2>1 DEF Write
    <3> QED
      BY <3>1, <3>2 DEF TypeOK
  <2>2. CASE Take(w) \/ Guard(w) \/ Check(w) \/ ReadCells(w) \/ ReadNothing(w)
             \/ ReadFails(w) \/ Store(w) \/ Count(w) \/ Terminate(w) \/ ParseThrows(w)
             \/ Parse(w) \/ Arm(w) \/ ClearBuf(w) \/ ClearLen(w) \/ Release(w)
             \/ WriteFails(w) \/ ClearReply(w) \/ Rearm(w)
    BY <2>2 DEF Take, Guard, Check, ReadCells, ReadNothing, ReadFails, Store, Count,
       Terminate, ParseThrows, Parse, Arm, ClearBuf, ClearLen, Release, WriteFails,
       ClearReply, Rearm
  <2> QED
    BY <1>6, <2>1, <2>2, Zenon DEF WorkerStep
<1> QED
  BY <1>1, <1>4, <1>5, <1>6 DEF Next

\* accept() takes the first of the backlog.
LEMMA BacklogTail ==
  ASSUME TypeOK, backlog # <<>>, backlog' = Tail(backlog)
  PROVE  /\ Len(backlog) \in Nat \ {0} /\ Head(backlog) = backlog[1]
         /\ Head(backlog) \in Clients
         /\ \A i \in 1..Len(backlog') :
              i + 1 \in 1..Len(backlog) /\ i + 1 # 1 /\ backlog'[i] = backlog[i + 1]
<1>1. backlog \in Seq(Clients)
  BY DEF TypeOK
<1>2. /\ Len(backlog) \in Nat \ {0} /\ Head(backlog) = backlog[1]
      /\ Head(backlog) \in Clients
      /\ Len(backlog') = Len(backlog) - 1
      /\ \A i \in 1..Len(backlog') : backlog'[i] = backlog[i + 1]
  BY <1>1, HeadTailProperties, EmptySeq
<1> QED
  BY <1>2

LEMMA PeersStep ==
  ASSUME TypeOK, PeersInv, Next
  PROVE  PeersInv'
<1>0. /\ peer \in [Fds -> Clients \cup {NoClient}] /\ NoClient \notin Clients
      /\ cstate \in [Clients -> {"new", "open", "fin", "rst", "gone"}]
      /\ backlog \in Seq(Clients) /\ Len(backlog) \in Nat
  BY ChatServerAssumption DEF TypeOK
<1>1. ASSUME NEW c \in Clients, Connect(c) PROVE PeersInv'
  <2>1. /\ cstate[c] = "new" /\ backlog' = Append(backlog, c) /\ peer' = peer
        /\ cstate' = [cstate EXCEPT ![c] = "open"]
    BY <1>1 DEF Connect, Speaks
  <2>2. \A i \in 1..Len(backlog') :
          \/ i \in 1..Len(backlog) /\ backlog'[i] = backlog[i]
          \/ i = Len(backlog) + 1 /\ backlog'[i] = c
    <3>1. /\ Len(backlog') = Len(backlog) + 1
          /\ \A i \in 1..Len(backlog) : backlog'[i] = backlog[i]
          /\ backlog'[Len(backlog) + 1] = c
      BY <1>0, <2>1, AppendProperties
    <3> QED
      BY <1>0, <3>1
  <2>3. (\A f \in Fds : peer[f] # c) /\ \A i \in 1..Len(backlog) : backlog[i] # c
    BY <2>1 DEF PeersInv
  <2>4. \A d \in Clients : cstate'[d] = "new" => cstate[d] = "new" /\ d # c
    BY <1>0, <2>1
  <2>5. \A i \in 1..Len(backlog') : \A f \in Fds : peer'[f] # backlog'[i]
    BY <2>1, <2>2, <2>3 DEF PeersInv
  <2>6. \A i, j \in 1..Len(backlog') : backlog'[i] = backlog'[j] => i = j
    BY <2>2, <2>3 DEF PeersInv
  <2>7. \A d \in Clients : cstate'[d] = "new" =>
          (\A f \in Fds : peer'[f] # d) /\ \A i \in 1..Len(backlog') : backlog'[i] # d
    BY <2>1, <2>2, <2>4 DEF PeersInv
  <2> QED
    BY <2>1, <2>5, <2>6, <2>7 DEF PeersInv
<1>2. ASSUME NEW f \in Fds, Accept(f) PROVE PeersInv'
  <2>1. /\ backlog # <<>> /\ backlog' = Tail(backlog) /\ peer[f] = NoClient
        /\ peer' = [peer EXCEPT ![f] = Head(backlog)] /\ cstate' = cstate
    BY <1>2 DEF Accept, Accepting, FreeFds, clientVars
  <2>2. /\ Head(backlog) = backlog[1] /\ Head(backlog) \in Clients
        /\ 1 \in 1..Len(backlog)
        /\ \A i \in 1..Len(backlog') :
             i + 1 \in 1..Len(backlog) /\ i + 1 # 1 /\ backlog'[i] = backlog[i + 1]
    BY <2>1, BacklogTail
  <2>3. \A g \in Fds : peer'[g] = IF g = f THEN backlog[1] ELSE peer[g]
    BY <1>0, <2>1, <2>2
  <2>4. \A d, g \in Fds : peer'[d] = peer'[g] /\ peer'[d] # NoClient => d = g
    BY <2>2, <2>3 DEF PeersInv
  <2>5. \A i \in 1..Len(backlog') : \A g \in Fds : peer'[g] # backlog'[i]
    BY <2>2, <2>3 DEF PeersInv
  <2>6. \A i, j \in 1..Len(backlog') : backlog'[i] = backlog'[j] => i = j
    <3> SUFFICES ASSUME NEW i \in 1..Len(backlog'), NEW j \in 1..Len(backlog'),
                        backlog'[i] = backlog'[j]
                 PROVE  i = j
      OBVIOUS
    <3>1. i + 1 = j + 1
      BY <2>2 DEF PeersInv
    <3> QED
      BY <3>1
  <2>7. \A d \in Clients : cstate'[d] = "new" =>
          (\A g \in Fds : peer'[g] # d) /\ \A i \in 1..Len(backlog') : backlog'[i] # d
    BY <2>1, <2>2, <2>3 DEF PeersInv
  <2> QED
    BY <2>4, <2>5, <2>6, <2>7 DEF PeersInv
<1>3. ASSUME NEW f \in Fds, Refuse(f) PROVE PeersInv'
  <2>1. /\ backlog # <<>> /\ backlog' = Tail(backlog) /\ peer' = peer
        /\ cstate' = [cstate EXCEPT ![Head(backlog)] = "gone"]
    BY <1>3 DEF Refuse, Accepting
  <2>2. \A i \in 1..Len(backlog') :
          i + 1 \in 1..Len(backlog) /\ i + 1 # 1 /\ backlog'[i] = backlog[i + 1]
    BY <2>1, BacklogTail
  <2>3. \A d \in Clients : cstate'[d] = "new" => cstate[d] = "new"
    BY <1>0, <2>1
  <2>4. \A i, j \in 1..Len(backlog') : backlog'[i] = backlog'[j] => i = j
    <3> SUFFICES ASSUME NEW i \in 1..Len(backlog'), NEW j \in 1..Len(backlog'),
                        backlog'[i] = backlog'[j]
                 PROVE  i = j
      OBVIOUS
    <3>1. i + 1 = j + 1
      BY <2>2 DEF PeersInv
    <3> QED
      BY <3>1
  <2> QED
    BY <2>1, <2>2, <2>3, <2>4 DEF PeersInv
<1>4. ASSUME NEW e \in EventSet, HangUp(e) PROVE PeersInv'
  <2>1. /\ peer' = [peer EXCEPT ![e.fd] = NoClient] /\ backlog' = backlog
        /\ cstate' = [cstate EXCEPT ![peer[e.fd]] = "gone"]
    BY <1>4 DEF HangUp
  <2>2. \A f \in Fds : peer'[f] = peer[f] \/ peer'[f] = NoClient
    BY <1>0, <2>1
  <2>3. \A d \in Clients : cstate'[d] = "new" => cstate[d] = "new"
    BY <1>0, <2>1
  <2>4. \A i \in 1..Len(backlog) : backlog[i] # NoClient
    BY <1>0
  <2>5. \A d, g \in Fds : peer'[d] = peer'[g] /\ peer'[d] # NoClient => d = g
    BY <2>2 DEF PeersInv
  <2>6. \A i \in 1..Len(backlog') : \A g \in Fds : peer'[g] # backlog'[i]
    BY <2>1, <2>2, <2>4 DEF PeersInv
  <2>7. \A d \in Clients : cstate'[d] = "new" =>
          (\A g \in Fds : peer'[g] # d) /\ \A i \in 1..Len(backlog') : backlog'[i] # d
    BY <1>0, <2>1, <2>2, <2>3 DEF PeersInv
  <2> QED
    BY <2>1, <2>5, <2>6, <2>7 DEF PeersInv
<1>5. ASSUME UNCHANGED <<peer, backlog>>,
             \A c \in Clients : cstate'[c] = "new" => cstate[c] = "new"
      PROVE  PeersInv'
  BY <1>5 DEF PeersInv
<1> QED
  BY <1>1, <1>2, <1>3, <1>4, <1>5, OtherPeerSteps

-----------------------------------------------------------------------------
(* What is fresh stays fresh *)

\* A step that is not one of the owner of connection f.
Elsewhere(f) ==
  \/ ClientStep
  \/ LoopStep /\ \A e \in EventSet : HangUp(e) => e.fd # f
  \/ \E v \in Workers : WorkerStep(v) /\ ~WorkedBy(v, f)

\* It keeps the peer and what it got, what there is to read, and the buffers,
\* but for a clearing.
LEMMA PeerKept ==
  ASSUME TypeOK, TaskInHand, ExclusiveOwner, PeersInv,
         NEW f \in Fds, peer[f] \in Clients, Elsewhere(f)
  PROVE  /\ peer'[f] = peer[f] /\ got'[peer[f]] = got[peer[f]]
         /\ HasInput(f) => HasInput(f)'
<1> DEFINE c == peer[f]
<1> USE DEF clientVars
<1>0. /\ peer \in [Fds -> Clients \cup {NoClient}] /\ NoClient \notin Clients
      /\ cstate \in [Clients -> {"new", "open", "fin", "rst", "gone"}]
      /\ rx \in [Clients -> CellSeqs] /\ got \in [Clients -> Seq(Replies)]
  BY ChatServerAssumption DEF TypeOK
<1>1. ASSUME peer'[f] = c, got'[c] = got[c], rx'[c] = rx[c],
             cstate'[c] = "open" => cstate[c] = "open"
      PROVE  /\ peer'[f] = peer[f] /\ got'[peer[f]] = got[peer[f]]
             /\ HasInput(f) => HasInput(f)'
  BY <1>1 DEF HasInput
<1>2. ASSUME NEW d \in Clients, Connect(d)
      PROVE  /\ peer'[f] = peer[f] /\ got'[peer[f]] = got[peer[f]]
             /\ HasInput(f) => HasInput(f)'
  <2>1. d # c
    BY <1>2 DEF Connect, Speaks, PeersInv
  <2> QED
    BY <1>0, <1>1, <1>2, <2>1 DEF Connect
<1>3. ASSUME NEW d \in Clients, Leave(d)
      PROVE  /\ peer'[f] = peer[f] /\ got'[peer[f]] = got[peer[f]]
             /\ HasInput(f) => HasInput(f)'
  <2>1. /\ peer' = peer /\ got' = got
        /\ \/ cstate' = [cstate EXCEPT ![d] = "fin"] /\ rx' = rx
           \/ /\ cstate' = [cstate EXCEPT ![d] = "rst"]
              /\ rx' = [rx EXCEPT ![d] = <<>>]
    BY <1>3, Zenon DEF Leave
  <2>2. CASE d # c
    BY <1>0, <1>1, <2>1, <2>2
  <2>3. CASE d = c
    <3>1. cstate'[c] # "open"
      BY <1>0, <2>1, <2>3
    <3> QED
      BY <2>1, <3>1 DEF HasInput
  <2> QED
    BY <2>2, <2>3
<1>4. ASSUME NEW d \in Clients, NEW k \in 1..BufSize, Send(d, k)
      PROVE  /\ peer'[f] = peer[f] /\ got'[peer[f]] = got[peer[f]]
             /\ HasInput(f) => HasInput(f)'
  <2>1. peer' = peer /\ got' = got /\ cstate' = cstate
    BY <1>4 DEF Send
  <2>2. rx'[c] = rx[c] \/ (Len(rx'[c]) = Len(rx[c]) + k)
    BY <1>4, SendGrows DEF Grows
  <2>3. Len(rx[c]) \in Nat /\ k \in Nat \ {0} /\ Len(<<>>) = 0
    BY StreamTypes, ChatServerAssumption
  <2>4. rx[c] # <<>> => rx'[c] # <<>>
    <3>1. CASE rx'[c] = rx[c]
      BY <3>1
    <3>2. CASE Len(rx'[c]) = Len(rx[c]) + k
      <4>1. Len(rx'[c]) # 0
        BY <2>3, <3>2
      <4> QED
        BY <2>3, <4>1
    <3> QED
      BY <2>2, <3>1, <3>2
  <2> QED
    BY <2>1, <2>4 DEF HasInput
<1>5. CASE ClientStep
  BY <1>2, <1>3, <1>4, <1>5 DEF ClientStep
<1>6. ASSUME LoopStep, \A e \in EventSet : HangUp(e) => e.fd # f
      PROVE  /\ peer'[f] = peer[f] /\ got'[peer[f]] = got[peer[f]]
             /\ HasInput(f) => HasInput(f)'
  <2>1. ASSUME NEW g \in Fds, Accept(g)
        PROVE  /\ peer'[f] = peer[f] /\ got'[peer[f]] = got[peer[f]]
               /\ HasInput(f) => HasInput(f)'
    BY <1>0, <1>1, <2>1 DEF Accept, Accepting, FreeFds
  <2>2. ASSUME NEW g \in Fds, Refuse(g)
        PROVE  /\ peer'[f] = peer[f] /\ got'[peer[f]] = got[peer[f]]
               /\ HasInput(f) => HasInput(f)'
    BY <1>0, <1>1, <2>2 DEF Refuse
  <2>3. ASSUME NEW e \in EventSet, HangUp(e)
        PROVE  /\ peer'[f] = peer[f] /\ got'[peer[f]] = got[peer[f]]
               /\ HasInput(f) => HasInput(f)'
    <3>1. e.fd # f
      BY <1>6, <2>3
    <3> QED
      BY <1>0, <1>1, <2>3, <3>1 DEF HangUp
  <2>4. CASE EpollWait \/ BeginAccept \/ AcceptEnd \/ \E e \in EventSet : Dispatch(e)
    BY <1>1, <2>4 DEF EpollWait, BeginAccept, AcceptEnd, Dispatch
  <2> QED
    BY <1>6, <2>1, <2>2, <2>3, <2>4 DEF LoopStep
<1>7. ASSUME NEW v \in Workers, WorkerStep(v), ~WorkedBy(v, f)
      PROVE  /\ peer'[f] = peer[f] /\ got'[peer[f]] = got[peer[f]]
             /\ HasInput(f) => HasInput(f)'
  <2>1. CASE ReadCells(v) \/ Write(v)
    <3>1. wpc[v] \in Hands
      BY <2>1 DEF ReadCells, Write, At, Hands
    <3>2. wfd[v] # f /\ wfd[v] \in Fds /\ peer[wfd[v]] \in Clients
      BY <1>7, <3>1, OwnerHasPeer DEF WorkedBy
    <3>3. peer[wfd[v]] # c
      BY <1>0, <3>2 DEF PeersInv
    <3>4. CASE ReadCells(v)
      BY <1>0, <1>1, <3>3, <3>4 DEF ReadCells
    <3>5. CASE Write(v)
      <4>1. peer' = peer
        BY <3>5 DEF Write
      <4>2. got'[c] = got[c] /\ rx'[c] = rx[c] /\ cstate'[c] = cstate[c]
        BY <1>0, <3>3, <3>5 DEF Write
      <4> QED
        BY <1>1, <4>1, <4>2
    <3> QED
      BY <2>1, <3>4, <3>5
  <2>2. CASE Take(v) \/ Guard(v) \/ Check(v) \/ ReadNothing(v) \/ ReadFails(v)
             \/ Store(v) \/ Count(v) \/ Terminate(v) \/ ParseThrows(v) \/ Parse(v)
             \/ Arm(v) \/ ClearBuf(v) \/ ClearLen(v) \/ Release(v) \/ WriteFails(v)
             \/ ClearReply(v) \/ Rearm(v)
    <3>1. UNCHANGED <<clientVars, peer>>
      BY <2>2 DEF Take, Guard, Check, ReadNothing, ReadFails, Store, Count, Terminate,
         ParseThrows, Parse, Arm, ClearBuf, ClearLen, Release, WriteFails, ClearReply, Rearm
    <3> QED
      BY <1>1, <3>1
  <2> QED
    BY <1>7, <2>1, <2>2, Zenon DEF WorkerStep
<1> QED
  BY <1>5, <1>6, <1>7 DEF Elsewhere

LEMMA BuffersKept ==
  ASSUME ServerInv, NEW f \in Fds, Elsewhere(f)
  PROVE  /\ buf'[f] = buf[f] \/ buf'[f] = Zeros
         /\ wbuf'[f] = wbuf[f] \/ wbuf'[f] = NoReply
<1> USE DEF connVars
<1>0. /\ buf \in [Fds -> [1..BufSize -> Cells \cup {NUL}]]
      /\ wbuf \in [Fds -> Replies \cup {NoReply}]
  BY DEF TypeOK, ServerInv
<1>1. CASE ClientStep
  BY <1>1 DEF ClientStep, Connect, Leave, Send
<1>2. CASE LoopStep
  <2>1. ASSUME NEW g \in Fds, Refuse(g)
        PROVE  /\ buf'[f] = buf[f] \/ buf'[f] = Zeros
               /\ wbuf'[f] = wbuf[f] \/ wbuf'[f] = NoReply
    <3>1. \/ UNCHANGED <<buf, wbuf>>
          \/ /\ buf' = [buf EXCEPT ![g] = Zeros]
             /\ wbuf' = [wbuf EXCEPT ![g] = NoReply]
      BY <2>1 DEF Refuse
    <3> QED
      BY <1>0, <3>1
  <2> QED
    BY <1>2, <2>1 DEF LoopStep, EpollWait, BeginAccept, AcceptEnd, Accept, HangUp, Dispatch
<1>3. ASSUME NEW v \in Workers, WorkerStep(v), ~WorkedBy(v, f)
      PROVE  /\ buf'[f] = buf[f] \/ buf'[f] = Zeros
             /\ wbuf'[f] = wbuf[f] \/ wbuf'[f] = NoReply
  <2>1. CASE Store(v) \/ Count(v) \/ Terminate(v) \/ Parse(v) \/ ClearReply(v)
    <3>1. wfd[v] # f
      BY <1>3, <2>1 DEF Store, Count, Terminate, Parse, ClearReply, At, WorkedBy, Hands
    <3>2. buf'[f] = buf[f]
      BY <2>1, <3>1, StoredCells, EndedCells DEF Count, Parse, ClearReply
    <3>3. wbuf' = wbuf \/ \E r : wbuf' = [wbuf EXCEPT ![wfd[v]] = r]
      BY <2>1 DEF Store, Count, Terminate, Parse, ClearReply
    <3> QED
      BY <1>0, <3>1, <3>2, <3>3
  <2>2. CASE ReadNothing(v) \/ ClearBuf(v)
    <3>1. buf' = [buf EXCEPT ![wfd[v]] = Zeros] /\ wbuf' = wbuf
      BY <2>2 DEF ReadNothing, ClearBuf
    <3> QED
      BY <1>0, <3>1
  <2>3. CASE Take(v) \/ Guard(v) \/ Check(v) \/ ReadCells(v) \/ ReadFails(v)
             \/ ParseThrows(v) \/ Arm(v) \/ ClearLen(v) \/ Release(v) \/ Write(v)
             \/ WriteFails(v) \/ Rearm(v)
    BY <2>3 DEF Take, Guard, Check, ReadCells, ReadFails, ParseThrows, Arm, ClearLen,
       Release, Write, WriteFails, Rearm
  <2> QED
    BY <1>3, <2>1, <2>2, <2>3, Zenon DEF WorkerStep
<1> QED
  BY <1>1, <1>2, <1>3 DEF Elsewhere

LEMMA Undisturbed ==
  ASSUME ServerInv, RepliesInv, Next, NEW f \in Fds, peer[f] \in Clients, Elsewhere(f)
  PROVE  /\ HasInput(f) => HasInput(f)'
         /\ FreshBuf(f) => FreshBuf(f)'
         /\ \A n : FreshUpTo(f, n) => FreshUpTo(f, n)'
         /\ FreshReply(f) => FreshReply(f)'
         /\ \A x : FreshCell(f, x) => FreshCell(f, x)'
<1>0. /\ TypeOK /\ TaskInHand /\ ExclusiveOwner
      /\ StreamInv /\ PeersInv
  BY DEF ServerInv, RepliesInv
<1>1. /\ peer'[f] = peer[f] /\ got'[peer[f]] = got[peer[f]]
      /\ HasInput(f) => HasInput(f)'
  BY <1>0, PeerKept
<1>2. /\ buf'[f] = buf[f] \/ buf'[f] = Zeros
      /\ wbuf'[f] = wbuf[f] \/ wbuf'[f] = NoReply
  BY <1>0, BuffersKept
<1>3. \A x : FreshCell(f, x) => FreshCell(f, x)'
  BY <1>1 DEF FreshCell, Unanswered
<1>4. ASSUME NEW n, FreshUpTo(f, n) PROVE FreshUpTo(f, n)'
  <2>1. CASE buf'[f] = buf[f]
    BY <1>1, <1>4, <2>1 DEF FreshUpTo, FreshCell, Unanswered
  <2>2. CASE buf'[f] = Zeros
    <3>1. Zeros[1] = NUL
      BY ChatServerAssumption DEF Zeros
    <3> QED
      BY <2>2, <3>1 DEF FreshUpTo
  <2> QED
    BY <1>2, <2>1, <2>2
<1>4a. FreshBuf(f) => FreshBuf(f)'
  BY <1>4 DEF FreshBuf
<1>5. FreshReply(f) => FreshReply(f)'
  <2> SUFFICES ASSUME FreshReply(f), wbuf'[f] = wbuf[f], wbuf[f] # NoReply
               PROVE  FreshReply(f)'
    BY <1>2 DEF FreshReply
  <2>1. wbuf[f] \in Replies /\ FreshCell(f, wbuf[f]) /\ Ahead(peer[f], wbuf[f].n)
    BY <1>0 DEF FreshReply, TypeOK
  <2>2. PICK m \in Nat : m = wbuf[f].n
    BY <2>1 DEF Replies
  <2>3. PICK c \in Clients : c = peer[f]
    OBVIOUS
  <2>4. Ahead(c, m)'
    BY <1>0, <2>1, <2>2, <2>3, StreamStep
  <2>5. FreshCell(f, wbuf[f])'
    BY <1>1, <2>1 DEF FreshCell, Unanswered
  <2> QED
    BY <1>1, <2>2, <2>3, <2>4, <2>5 DEF FreshReply, Ahead
<1> QED
  BY <1>1, <1>3, <1>4, <1>4a, <1>5

\* What read_once() parses, when it has just read some of it, is a request
\* that has been read whole and not been answered.
LEMMA ParsesFresh ==
  ASSUME TypeOK, StreamInv, ConsumedInv, NEW f \in Fds, peer[f] \in Clients,
         FreshBuf(f), IsRequest(buf[f])
  PROVE  /\ buf[f][1] \in Cells /\ buf[f][1].c = peer[f]
         /\ Unanswered(peer[f], buf[f][1].n) /\ Ahead(peer[f], buf[f][1].n)
<1> DEFINE b == buf[f]
           c == b[1].c
           n == b[1].n
           size == SizeOf(c, n)
<1>0. b \in [1..BufSize -> Cells \cup {NUL}] /\ BufSize \in Nat \ {0} /\ NUL \notin Cells
  BY ChatServerAssumption DEF TypeOK
<1>1. /\ b[1] # NUL /\ size <= BufSize
      /\ \A j \in 1..size : b[j] = Cell(c, n, j)
      /\ size < BufSize => b[size + 1] = NUL
  BY DEF IsRequest
<1>2. b[1] \in Cells /\ c \in Clients /\ n \in Nat
  BY <1>0, <1>1 DEF Cells
<1>3. Consumed(b[1])
  BY <1>0, <1>1 DEF ConsumedInv
<1>4. n \in 1..Len(Script[c])
  BY <1>3 DEF Consumed, Sent
<1>5. size \in Nat \ {0}
  BY <1>2, <1>4, ScriptSizes
<1>6. PICK j \in 1..BufSize : (\A i \in 1..j : b[i] # NUL) /\ FreshCell(f, b[j])
  BY <1>1 DEF FreshBuf, FreshUpTo
<1>7. j <= size
  <2> SUFFICES ASSUME size < j PROVE FALSE
    BY <1>0, <1>5
  <2>1. size < BufSize /\ size + 1 \in 1..j
    BY <1>0, <1>5
  <2> QED
    BY <1>1, <1>6, <2>1
<1>7a. SizeOf(c, n) = size /\ Len(Script[c]) \in Nat
  BY <1>2, ScriptSizes
<1> HIDE DEF size
<1>8. c = peer[f] /\ Unanswered(peer[f], n)
  <2>1. b[j] = Cell(c, n, j)
    BY <1>0, <1>1, <1>5, <1>7
  <2> QED
    BY <1>6, <2>1 DEF Cell, FreshCell
<1> HIDE DEF c, n
<1>9. Ahead(c, n)
  <2>1. b[size] = Cell(c, n, size) /\ size \in 1..BufSize
    BY <1>0, <1>1, <1>5
  <2>2. Cell(c, n, size) \in Cells
    BY <1>2, <1>5 DEF Cell, Cells
  <2>3. Consumed(Cell(c, n, size))
    BY <1>0, <2>1, <2>2 DEF ConsumedInv
  <2>4. /\ Before(Cell(c, n, size), next[c])
        /\ \A k \in 1..Len(rx[c]) : Before(Cell(c, n, size), rx[c][k])
    BY <2>3 DEF Consumed, Sent, Cell
  <2>5. StreamOf(c)
    BY <1>2 DEF StreamInv
  <2>6. next[c].n \in Nat /\ next[c].i \in Nat
        /\ \A k \in 1..Len(rx[c]) : rx[c][k].n \in Nat /\ rx[c][k].i \in Nat
    BY <1>2, StreamTypes
  <2>7. n < next[c].n
    <3> SUFFICES ASSUME n = next[c].n, size < next[c].i PROVE FALSE
      BY <2>4 DEF Before, Cell
    <3>1. next[c].i <= SizeOf(c, n)
      BY <1>4, <1>7a, <2>5 DEF StreamOf
    <3> QED
      BY <1>5, <1>7a, <2>6, <3>1
  <2>8. ASSUME NEW k \in 1..Len(rx[c]) PROVE n < rx[c][k].n
    <3> SUFFICES ASSUME n = rx[c][k].n, size < rx[c][k].i PROVE FALSE
      BY <2>4 DEF Before, Cell
    <3>1. rx[c][k].c = c /\ rx[c][k].i \in 1..SizeOf(c, n)
      BY <2>5 DEF StreamOf, Sent
    <3> QED
      BY <1>5, <1>7a, <2>6, <3>1
  <2> QED
    BY <2>7, <2>8 DEF Ahead
<1> QED
  BY <1>2, <1>8, <1>9 DEF c, n

\* A reply reaches its client.
LEMMA GotStep ==
  ASSUME ServerInv, RepliesInv, Next
  PROVE  GotInv'
<1>0. /\ TypeOK /\ TaskInHand /\ ExclusiveOwner /\ StreamInv /\ GotInv /\ FreshInv
      /\ got \in [Clients -> Seq(Replies)]
  BY DEF ServerInv, RepliesInv, TypeOK
<1>1. \A c \in Clients : \A m \in Nat : Ahead(c, m) => Ahead(c, m)'
  BY <1>0, StreamStep
<1>2. ASSUME NEW c \in Clients, got'[c] = got[c]
      PROVE  /\ \A k \in 1..Len(got'[c]) : got'[c][k].c = c /\ Ahead(c, got[c][k].n)'
             /\ \A j, k \in 1..Len(got'[c]) : j < k => got'[c][j].n < got'[c][k].n
  <2>1. ASSUME NEW k \in 1..Len(got[c]) PROVE Ahead(c, got[c][k].n)'
    <3>1. PICK m \in Nat : m = got[c][k].n
      BY <1>0, StreamTypes
    <3>2. Ahead(c, m)'
      BY <1>0, <1>1, <3>1 DEF GotInv
    <3> QED
      BY <1>2, <3>1, <3>2 DEF Ahead
  <2> QED
    BY <1>0, <1>2, <2>1 DEF GotInv
<1>3. ASSUME NEW w \in Workers, Write(w), NEW c \in Clients, got'[c] # got[c]
      PROVE  /\ \A k \in 1..Len(got'[c]) : got'[c][k].c = c /\ Ahead(c, got[c][k].n)'
             /\ \A j, k \in 1..Len(got'[c]) : j < k => got'[c][j].n < got'[c][k].n
  <2> DEFINE f == wfd[w]
             r == wbuf[f]
  <2>1. wpc[w] = "write" /\ f \in Fds /\ c = peer[f] /\ r # NoReply
        /\ got' = [got EXCEPT ![c] = Append(@, r)]
    <3>1. wpc[w] = "write"
      BY <1>3 DEF Write, At
    <3>2. f \in Fds /\ peer[f] \in Clients
      BY <1>0, <3>1, OwnerHasPeer DEF Hands
    <3> QED
      BY <1>0, <1>3, <3>1, <3>2 DEF Write
  <2>2. r \in Replies /\ r.n \in Nat /\ r.c = c /\ Unanswered(c, r.n) /\ Ahead(c, r.n)
    <3>1. FreshReply(f)
      BY <1>0, <2>1 DEF FreshInv, WorkFresh
    <3> QED
      BY <1>0, <2>1, <3>1 DEF FreshReply, FreshCell, TypeOK, Replies
  <2> HIDE DEF f, r
  <2>3. got'[c] = Append(got[c], r) /\ got[c] \in Seq(Replies) /\ Len(got[c]) \in Nat
        /\ \A k \in 1..Len(got[c]) : got[c][k].n \in Nat
    BY <1>0, <2>1, StreamTypes
  <2>4. /\ Len(got'[c]) = Len(got[c]) + 1
        /\ \A k \in 1..Len(got[c]) : got'[c][k] = got[c][k]
        /\ got'[c][Len(got[c]) + 1] = r
    BY <2>2, <2>3, AppendProperties
  <2>5. \A k \in 1..Len(got'[c]) :
          \/ k \in 1..Len(got[c]) /\ got'[c][k] = got[c][k]
          \/ k = Len(got[c]) + 1 /\ got'[c][k] = r
    BY <2>3, <2>4
  <2>6. ASSUME NEW k \in 1..Len(got'[c]) PROVE got'[c][k].c = c /\ Ahead(c, got[c][k].n)'
    <3>1. CASE k \in 1..Len(got[c]) /\ got'[c][k] = got[c][k]
      <4>1. PICK m \in Nat : m = got[c][k].n
        BY <2>3, <3>1
      <4>2. Ahead(c, m)' /\ got[c][k].c = c
        BY <1>0, <1>1, <3>1, <4>1 DEF GotInv
      <4> QED
        BY <3>1, <4>1, <4>2 DEF Ahead
    <3>2. CASE got'[c][k] = r
      <4>1. PICK m \in Nat : m = r.n
        BY <2>2
      <4>2. Ahead(c, m)'
        BY <1>1, <2>2, <4>1
      <4> QED
        BY <2>2, <3>2, <4>1, <4>2 DEF Ahead
    <3> QED
      BY <2>5, <3>1, <3>2
  <2>7. ASSUME NEW j \in 1..Len(got'[c]), NEW k \in 1..Len(got'[c]), j < k
        PROVE  got'[c][j].n < got'[c][k].n
    <3>1. j \in 1..Len(got[c]) /\ got'[c][j] = got[c][j]
      BY <2>3, <2>4, <2>5, <2>7
    <3>2. CASE k \in 1..Len(got[c]) /\ got'[c][k] = got[c][k]
      BY <1>0, <2>7, <3>1, <3>2 DEF GotInv
    <3>3. CASE got'[c][k] = r
      BY <2>2, <3>1, <3>3 DEF Unanswered
    <3> QED
      BY <2>5, <3>2, <3>3
  <2> QED
    BY <2>6, <2>7
<1>4. ASSUME ~\E w \in Workers : Write(w) PROVE got' = got
  <2> USE DEF clientVars
  <2>1. CASE ClientStep
    BY <2>1 DEF ClientStep, Connect, Leave, Send
  <2>2. CASE LoopStep
    BY <2>2 DEF LoopStep, EpollWait, BeginAccept, AcceptEnd, Accept, Refuse, HangUp,
       Dispatch
  <2>3. ASSUME NEW w \in Workers, WorkerStep(w) PROVE got' = got
    BY <1>4, <2>3 DEF WorkerStep, Take, Guard, Check, ReadCells, ReadNothing, ReadFails,
       Store, Count, Terminate, ParseThrows, Parse, Arm, ClearBuf, ClearLen, Release,
       WriteFails, ClearReply, Rearm
  <2> QED
    BY <2>1, <2>2, <2>3 DEF Next
<1>5. ASSUME NEW c \in Clients
      PROVE  /\ \A k \in 1..Len(got'[c]) : got'[c][k].c = c /\ Ahead(c, got[c][k].n)'
             /\ \A j, k \in 1..Len(got'[c]) : j < k => got'[c][j].n < got'[c][k].n
  BY <1>2, <1>3, <1>4
<1> QED
  BY <1>5 DEF GotInv

-----------------------------------------------------------------------------
(* Who relies on what *)

\* The owner of a connection, in whatever form, may rely on what it knows.
LEMMA OwnerAlone ==
  ASSUME ServerInv, RepliesInv, NEW f \in Fds
  PROVE  /\ Armed(f) \/ InBatch(f) \/ Queued(f) \/ Worked(f) => peer[f] \in Clients
         /\ Next /\ (Armed(f) \/ Queued(f)) => Elsewhere(f)
         /\ Next /\ InBatch(f) /\ (\A e \in EventSet : ~HangUp(e)) => Elsewhere(f)
<1>1. Armed(f) \/ InBatch(f) \/ Queued(f) \/ Worked(f) => peer[f] \in Clients
  BY DEF ServerInv, ExclusiveOwner, TypeOK
<1>2. ASSUME Next, Armed(f) \/ Queued(f) PROVE Elsewhere(f)
  <2>1. ~InBatch(f) /\ ~Worked(f)
    BY <1>2 DEF ServerInv, ExclusiveOwner
  <2>2. \A e \in EventSet : HangUp(e) => e.fd # f
    BY <2>1 DEF HangUp, InBatch
  <2> QED
    BY <1>2, <2>1, <2>2 DEF Next, Elsewhere, Worked
<1>3. ASSUME Next, InBatch(f), \A e \in EventSet : ~HangUp(e) PROVE Elsewhere(f)
  <2>1. ~Worked(f)
    BY <1>3 DEF ServerInv, ExclusiveOwner
  <2> QED
    BY <1>3, <2>1 DEF Next, Elsewhere, Worked
<1> QED
  BY <1>1, <1>2, <1>3

\* A step that changes nothing of what the others rely on.
LEMMA NothingMoves ==
  ASSUME UNCHANGED <<clientVars, peer, buf, wbuf>>, NEW f
  PROVE  /\ HasInput(f)' <=> HasInput(f)
         /\ FreshBuf(f)' <=> FreshBuf(f)
         /\ FreshReply(f)' <=> FreshReply(f)
BY DEF HasInput, FreshBuf, FreshUpTo, FreshReply, FreshCell, Unanswered, Ahead,
   clientVars

LEMMA ArmedFresh ==
  ASSUME ServerInv, RepliesInv, Next, NEW f \in Fds, ep'[f] = "WRITE"
  PROVE  FreshReply(f)'
<1>0. ep \in [Fds -> {"none", "off", "READ", "WRITE"}] /\ TaskInHand /\ FreshInv
  BY DEF ServerInv, TypeOK, RepliesInv
<1>1. CASE ep[f] = "WRITE"
  <2>1. peer[f] \in Clients /\ Elsewhere(f) /\ FreshReply(f)
    BY <1>0, <1>1, OwnerAlone DEF Armed, FreshInv
  <2> QED
    BY <2>1, Undisturbed
<1>2. ASSUME ep[f] # "WRITE" PROVE \E w \in Workers : Arm(w) /\ wfd[w] = f
  <2>1. CASE ClientStep
    BY <1>2, <2>1 DEF ClientStep, Connect, Leave, Send
  <2>2. CASE LoopStep
    BY <1>0, <1>2, <2>2 DEF LoopStep, EpollWait, Disarm, BeginAccept, AcceptEnd, Accept,
       Refuse, HangUp, Dispatch
  <2>3. ASSUME NEW w \in Workers, WorkerStep(w) PROVE Arm(w) /\ wfd[w] = f
    <3>1. CASE Arm(w)
      BY <1>0, <1>2, <3>1 DEF Arm, UpdateEvents
    <3>2. CASE ReadNothing(w) \/ Rearm(w)
      BY <1>0, <1>2, <3>2 DEF ReadNothing, Rearm, UpdateEvents
    <3>3. CASE Take(w) \/ Guard(w) \/ Check(w) \/ ReadCells(w) \/ ReadFails(w)
               \/ Store(w) \/ Count(w) \/ Terminate(w) \/ ParseThrows(w) \/ Parse(w)
               \/ ClearBuf(w) \/ ClearLen(w) \/ Release(w) \/ Write(w) \/ WriteFails(w)
               \/ ClearReply(w)
      BY <1>2, <3>3 DEF Take, Guard, Check, ReadCells, ReadFails, Store, Count, Terminate,
         ParseThrows, Parse, ClearBuf, ClearLen, Release, Write, WriteFails, ClearReply
    <3> QED
      BY <2>3, <3>1, <3>2, <3>3, Zenon DEF WorkerStep
  <2> QED
    BY <2>1, <2>2, <2>3 DEF Next
<1>3. ASSUME NEW w \in Workers, Arm(w), wfd[w] = f PROVE FreshReply(f)'
  <2>1. FreshReply(f)
    BY <1>0, <1>3 DEF Arm, At, FreshInv, WorkFresh
  <2>2. UNCHANGED <<clientVars, peer, buf, wbuf>>
    BY <1>3 DEF Arm, connVars
  <2> QED
    BY <2>1, <2>2, NothingMoves
<1> QED
  BY <1>1, <1>2, <1>3

LEMMA BatchFresh ==
  ASSUME ServerInv, RepliesInv, Next, NEW e \in batch'
  PROVE  EventFresh(e)'
<1>0. /\ TypeOK /\ FreshInv /\ batch \subseteq EventSet
      /\ \A f \in Fds : ep[f] \in {"none", "off", "READ", "WRITE"}
  BY DEF ServerInv, TypeOK, RepliesInv
<1>1. CASE EpollWait
  <2>1. UNCHANGED <<clientVars, peer, buf, wbuf>> /\ e \in Events
    BY <1>1 DEF EpollWait, connVars
  <2>2. CASE e = Listener
    BY <2>2 DEF Listener, EventFresh
  <2>3. ASSUME NEW f \in Ready, e = Event(f) PROVE EventFresh(e)'
    <3>1. f \in Fds /\ e.fd = f
      BY <2>3 DEF Ready, Event
    <3>2. e.ev = "in" => HasInput(f)
      BY <1>0, <2>3, <3>1 DEF Event, Ready, HasInput
    <3>3. e.ev = "out" => FreshReply(f)
      BY <1>0, <2>3, <3>1 DEF Event, Ready, FreshInv
    <3> QED
      BY <2>1, <3>1, <3>2, <3>3, NothingMoves DEF EventFresh
  <2> QED
    BY <2>1, <2>2, <2>3 DEF Events
<1>2. CASE ~EpollWait
  <2>1. e \in batch /\ \A d \in EventSet : ~HangUp(d)
    <3>1. CASE ClientStep
      BY <3>1 DEF ClientStep, Connect, Leave, Send, loopVars, HangUp, LoopAt
    <3>2. CASE LoopStep
      BY <1>2, <3>2 DEF LoopStep, BeginAccept, AcceptEnd, Accept, Refuse, HangUp,
         Dispatch, Handled, loopVars
    <3>3. ASSUME NEW w \in Workers, WorkerStep(w) PROVE batch' = batch
      BY <3>3 DEF WorkerStep, Take, Guard, Check, ReadCells, ReadNothing, ReadFails,
         Store, Count, Terminate, ParseThrows, Parse, Arm, ClearBuf, ClearLen, Release,
         Write, WriteFails, ClearReply, Rearm, loopVars
    <3>4. \A d \in EventSet : HangUp(d) => batch' = {}
      BY DEF HangUp
    <3> QED
      BY <3>1, <3>2, <3>3, <3>4 DEF Next
  <2>2. EventFresh(e) /\ e \in EventSet
    BY <1>0, <2>1 DEF FreshInv
  <2>3. CASE e = Listener
    BY <2>3 DEF Listener, EventFresh
  <2>4. CASE e.fd \in Fds
    <3>1. PICK f \in Fds : f = e.fd
      BY <2>4
    <3>2. InBatch(f)
      BY <2>1, <3>1 DEF InBatch
    <3>3. peer[f] \in Clients /\ Elsewhere(f)
      BY <2>1, <3>2, OwnerAlone
    <3> QED
      BY <2>2, <3>1, <3>3, Undisturbed DEF EventFresh
  <2> QED
    BY <2>2, <2>3, <2>4 DEF EventSet
<1> QED
  BY <1>1, <1>2

LEMMA QueueFresh ==
  ASSUME ServerInv, RepliesInv, Next, NEW i \in 1..Len(queue')
  PROVE  EventFresh(queue[i])'
<1>0. /\ TypeOK /\ FreshInv /\ queue \in Seq(TaskSet) /\ Len(queue) \in Nat
      /\ \A j \in 1..Len(queue) : queue[j] \in TaskSet
  BY DEF ServerInv, TypeOK, RepliesInv
<1>1. ASSUME NEW j \in 1..Len(queue), queue'[i] = queue[j] PROVE EventFresh(queue[i])'
  <2>1. PICK e \in TaskSet : e = queue[j]
    BY <1>0
  <2>2. PICK f \in Fds : f = e.fd
    BY DEF TaskSet
  <2>3. EventFresh(e) /\ Queued(f)
    BY <1>0, <2>1, <2>2 DEF FreshInv, Queued
  <2>4. peer[f] \in Clients /\ Elsewhere(f)
    BY <2>3, OwnerAlone
  <2>5. EventFresh(e)'
    BY <2>2, <2>3, <2>4, Undisturbed DEF EventFresh
  <2> QED
    BY <1>1, <2>1, <2>5 DEF EventFresh
<1>2. CASE UNCHANGED queue
  BY <1>1, <1>2
<1>3. ASSUME NEW w \in Workers, Take(w) PROVE EventFresh(queue[i])'
  <2>1. queue # <<>> /\ queue' = Tail(queue)
    BY <1>3 DEF Take
  <2>2. i + 1 \in 1..Len(queue) /\ queue'[i] = queue[i + 1]
    <3>1. /\ Len(queue') = Len(queue) - 1
          /\ \A j \in 1..Len(queue') : queue'[j] = queue[j + 1]
      BY <1>0, <2>1, HeadTailProperties
    <3> QED
      BY <1>0, <3>1
  <2> QED
    BY <1>1, <2>2
<1>4. ASSUME NEW e \in EventSet, Dispatch(e) PROVE EventFresh(queue[i])'
  <2>1. queue' = queue \/ queue' = Append(queue, e)
    BY <1>4 DEF Dispatch
  <2>2. CASE queue' = Append(queue, e)
    <3>1. e \in batch /\ e.ev \in {"in", "out"} /\ UNCHANGED <<clientVars, peer, buf, wbuf>>
      BY <1>4 DEF Dispatch, connVars
    <3>2. EventFresh(e)'
      BY <1>0, <3>1, NothingMoves DEF FreshInv, EventFresh
    <3>3. e \in TaskSet
      BY <3>1 DEF EventSet, TaskSet, Listener
    <3>4. \/ i \in 1..Len(queue) /\ queue'[i] = queue[i]
          \/ queue'[i] = e
      <4>1. /\ Len(queue') = Len(queue) + 1
            /\ \A j \in 1..Len(queue) : queue'[j] = queue[j]
            /\ queue'[Len(queue) + 1] = e
        BY <1>0, <2>2, <3>3, AppendProperties
      <4> QED
        BY <1>0, <4>1
    <3>5. CASE queue'[i] = e
      BY <3>2, <3>5 DEF EventFresh
    <3> QED
      BY <1>1, <3>4, <3>5
  <2> QED
    BY <1>2, <2>1, <2>2
<1>5. \/ UNCHANGED queue \/ \E w \in Workers : Take(w)
      \/ \E e \in EventSet : Dispatch(e)
  <2>1. CASE ClientStep
    BY <2>1 DEF ClientStep, Connect, Leave, Send
  <2>2. CASE LoopStep
    BY <2>2 DEF LoopStep, EpollWait, BeginAccept, AcceptEnd, Accept, Refuse, HangUp
  <2>3. ASSUME NEW w \in Workers, WorkerStep(w) PROVE UNCHANGED queue \/ Take(w)
    BY <2>3 DEF WorkerStep, Guard, Check, ReadCells, ReadNothing, ReadFails, Store, Count,
       Terminate, ParseThrows, Parse, Arm, ClearBuf, ClearLen, Release, Write, WriteFails,
       ClearReply, Rearm
  <2> QED
    BY <2>1, <2>2, <2>3 DEF Next
<1> QED
  BY <1>2, <1>3, <1>4, <1>5

\* A worker that does nothing meanwhile.
LEMMA WorkKept ==
  ASSUME ServerInv, RepliesInv, NEW w \in Workers,
         wpc'[w] = wpc[w], wfd'[w] = wfd[w], wtmp'[w] = wtmp[w], wlen'[w] = wlen[w],
         wpc[w] \in Hands => Next /\ Elsewhere(wfd[w])
  PROVE  WorkFresh(w)'
<1>0. TypeOK /\ TaskInHand /\ ExclusiveOwner /\ WorkFresh(w)
  BY DEF ServerInv, RepliesInv, FreshInv
<1>1. CASE wpc[w] \in Hands
  <2>1. wfd[w] \in Fds /\ peer[wfd[w]] \in Clients
    BY <1>0, <1>1, OwnerHasPeer
  <2>2. PICK f \in Fds : f = wfd[w]
    BY <2>1
  <2>3. /\ HasInput(f) => HasInput(f)'
        /\ FreshBuf(f) => FreshBuf(f)'
        /\ \A n : FreshUpTo(f, n) => FreshUpTo(f, n)'
        /\ FreshReply(f) => FreshReply(f)'
        /\ \A x : FreshCell(f, x) => FreshCell(f, x)'
    BY <1>1, <2>1, <2>2, Undisturbed
  <2>4. wpc[w] = "store" => \A j \in 1..Len(wtmp'[w]) : FreshCell(f, wtmp[w][j])'
    <3> SUFFICES ASSUME wpc[w] = "store", NEW j \in 1..Len(wtmp[w])
                 PROVE  FreshCell(f, wtmp[w][j])'
      OBVIOUS
    <3>1. PICK x : x = wtmp[w][j]
      OBVIOUS
    <3>2. FreshCell(f, x)
      BY <1>0, <2>2, <3>1 DEF WorkFresh
    <3>3. FreshCell(f, x)'
      BY <2>3, <3>2
    <3> QED
      BY <3>1, <3>3 DEF FreshCell
  <2> QED
    BY <1>0, <2>2, <2>3, <2>4 DEF WorkFresh
<1>2. CASE wpc[w] \notin Hands
  BY <1>2 DEF WorkFresh, Hands
<1> QED
  BY <1>1, <1>2

\* The worker's own steps that touch none of what others rely on.
LEMMA WorkQuiet ==
  ASSUME ServerInv, RepliesInv, NEW w \in Workers,
         Take(w) \/ Guard(w) \/ Check(w) \/ ReadNothing(w) \/ ReadFails(w)
           \/ Arm(w) \/ ClearBuf(w) \/ ClearLen(w) \/ Release(w)
           \/ Write(w) \/ ClearReply(w) \/ Rearm(w)
  PROVE  WorkFresh(w)'
<1>0. /\ wpc \in [Workers -> Steps] /\ wfd \in [Workers -> Fds \cup {0}]
      /\ WorkFresh(w) /\ FreshInv /\ queue \in Seq(TaskSet)
  BY DEF ServerInv, RepliesInv, FreshInv, TypeOK
<1>1. CASE Take(w)
  <2>1. /\ queue # <<>> /\ wfd'[w] = Head(queue).fd
        /\ wpc'[w] = IF Head(queue).ev = "in" THEN "guard" ELSE "write"
        /\ UNCHANGED <<clientVars, peer, buf, wbuf>>
    BY <1>0, <1>1 DEF Take, Goto, connVars
  <2>2. Head(queue) \in TaskSet /\ EventFresh(Head(queue))
    <3>1. Head(queue) = queue[1] /\ 1 \in 1..Len(queue) /\ Head(queue) \in TaskSet
      BY <1>0, <2>1, HeadTailProperties, EmptySeq
    <3> QED
      BY <1>0, <3>1 DEF FreshInv
  <2>3. PICK f : f = Head(queue).fd
    OBVIOUS
  <2>4. /\ HasInput(f)' <=> HasInput(f)
        /\ FreshReply(f)' <=> FreshReply(f)
    BY <2>1, NothingMoves
  <2>5. CASE Head(queue).ev = "in"
    BY <2>1, <2>2, <2>3, <2>4, <2>5 DEF EventFresh, WorkFresh, HasInput
  <2>6. CASE Head(queue).ev = "out"
    BY <2>1, <2>2, <2>3, <2>4, <2>6
    DEF EventFresh, WorkFresh, FreshReply, FreshCell, Unanswered, Ahead
  <2> QED
    BY <2>2, <2>5, <2>6 DEF TaskSet
<1>2. CASE Guard(w) \/ Check(w)
  <2>1. /\ wpc[w] \in {"guard", "check"} /\ wfd'[w] = wfd[w]
        /\ wpc'[w] \in {"check", "read", "release"}
        /\ UNCHANGED <<clientVars, peer>>
    BY <1>0, <1>2 DEF Guard, Check, At, Goto
  <2> QED
    BY <1>0, <2>1 DEF WorkFresh, HasInput, clientVars
<1>3. CASE ReadFails(w)
  <2>1. /\ wpc[w] = "read" /\ wfd'[w] = wfd[w]
        /\ UNCHANGED <<clientVars, peer, buf, wbuf>>
        /\ \/ wpc'[w] = "parse" /\ ~HasInput(wfd[w])
           \/ wpc'[w] = "release"
    BY <1>0, <1>3
    DEF ReadFails, At, Goto, HasInput, Source, SourceState, connVars
  <2> QED
    BY <1>0, <2>1 DEF WorkFresh, FreshBuf, FreshUpTo, FreshCell, Unanswered, clientVars
<1>4. CASE ReadNothing(w) \/ Arm(w) \/ ClearBuf(w) \/ ClearLen(w) \/ Release(w)
           \/ Write(w) \/ ClearReply(w) \/ Rearm(w)
  <2>1. wpc'[w] \in {"release", "clearbuf", "clearlen", "idle", "clearw", "rearm"}
    BY <1>0, <1>4 DEF ReadNothing, Arm, ClearBuf, ClearLen, Release, Write, ClearReply,
       Rearm, Goto
  <2> QED
    BY <2>1 DEF WorkFresh
<1> QED
  BY <1>1, <1>2, <1>3, <1>4

LEMMA WorkStep ==
  ASSUME ServerInv, RepliesInv, ~AddFails, NEW w \in Workers, WorkerStep(w)
  PROVE  WorkFresh(w)'
<1> DEFINE f == wfd[w]
<1>0. /\ wpc \in [Workers -> Steps] /\ wfd \in [Workers -> Fds \cup {0}]
      /\ WorkFresh(w) /\ TypeOK /\ TaskInHand /\ ExclusiveOwner
      /\ StreamInv /\ BufferInv /\ ConsumedInv /\ PrefixFilled /\ EndedInv /\ LateInv
      /\ GotInv /\ BufSize \in Nat \ {0} /\ NUL \notin Cells
      /\ wlen \in [Workers -> 0..BufSize]
  BY ChatServerAssumption DEF ServerInv, RepliesInv, BufferInv, FreshInv, TypeOK
<1>1. CASE ReadCells(w)
  <2>1. wpc[w] = "read" /\ wpc'[w] = "store" /\ wfd'[w] = f
        /\ peer' = peer /\ got' = got
    BY <1>0, <1>1 DEF ReadCells, At, Goto
  <2>2. f \in Fds /\ peer[f] \in Clients
    BY <1>0, <2>1, OwnerHasPeer DEF Hands
  <2>3. PICK c \in Clients : c = peer[f]
    BY <2>2
  <2>4. PICK k \in 1..Len(rx[c]) :
          /\ wtmp'[w] # <<>> /\ Len(wtmp'[w]) = k
          /\ \A j \in 1..k : wtmp'[w][j] = rx[c][j]
    BY <1>0, <1>1, <2>2, <2>3, CellsRead
  <2>5. \A j \in 1..k : j \in 1..Len(rx[c])
    BY <2>3, <2>4, StreamTypes, <1>0
  <2>6. \A j \in 1..k : rx[c][j].c = c /\ Unanswered(c, rx[c][j].n)
    BY <1>0, <2>5 DEF StreamInv, StreamOf, GotInv, Unanswered, Ahead
  <2>7. \A j \in 1..Len(wtmp'[w]) : wtmp'[w][j].c = c /\ Unanswered(c, wtmp'[w][j].n)
    BY <2>4, <2>6
  <2> QED
    BY <2>1, <2>3, <2>4, <2>7 DEF WorkFresh, FreshCell, Unanswered
<1>2. CASE Store(w)
  <2> DEFINE a == alllen[f]
             k == Len(wtmp[w])
  <2>1. /\ f \in Fds /\ a \in Nat /\ k \in Nat /\ a + k <= BufSize
        /\ wpc[w] = "store" /\ wpc'[w] = "count" /\ wlen'[w] = a + k
        /\ UNCHANGED <<wfd, wtmp>>
        /\ \A j \in 1..BufSize :
             buf'[f][j] = IF j \in a + 1..a + k THEN wtmp[w][j - a] ELSE buf[f][j]
    BY <1>2, StoredCells
  <2>2. peer' = peer /\ got' = got
    BY <1>2 DEF Store, clientVars
  <2>3. wtmp[w] # <<>> /\ wtmp[w] \in Seq(Cells)
        /\ \A j \in 1..k : FreshCell(f, wtmp[w][j])
    BY <1>0, <2>1 DEF WorkFresh, TypeOK, CellSeqs
  <2>4. k >= 1 /\ 1 \in 1..k
    <3>1. k # 0
      BY <2>3, EmptySeq
    <3> QED
      BY <2>1, <3>1
  <2>5. PrefixFilled'
    BY <1>0, <1>2, PrefixStep DEF Next, WorkerStep
  <2>6. buf'[f][1] # NUL => \A j \in 1..a + k : buf'[f][j] # NUL
    BY <2>1, <2>5 DEF PrefixFilled, Filled
  <2> HIDE DEF a, k
  <2>7. /\ buf'[f][a + 1] = wtmp[w][1] /\ a + 1 \in 1..BufSize /\ a + 1 \in 1..a + k
    <3>1. a + 1 \in a + 1..a + k /\ (a + 1) - a = 1 /\ a + 1 \in 1..BufSize
      BY <1>0, <2>1, <2>4
    <3> QED
      BY <2>1, <2>4, <3>1
  <2>8. FreshCell(f, wtmp[w][1])
    BY <2>3, <2>4
  <2>9. buf'[f][1] # NUL => \A i \in 1..a + 1 : buf'[f][i] # NUL
    <3>1. \A i \in 1..a + 1 : i \in 1..a + k
      BY <2>1, <2>4
    <3> QED
      BY <2>6, <3>1
  <2>10. PICK g \in Fds, m \in 1..BufSize, n \in Nat :
           g = f /\ m = a + 1 /\ n = a + k /\ m \in 1..n
    BY <2>1, <2>7
  <2> HIDE DEF f
  <2>11. FreshCell(g, buf[g][m])'
    BY <2>2, <2>7, <2>8, <2>10 DEF FreshCell, Unanswered
  <2>12. FreshUpTo(g, n)'
    <3>1. CASE buf'[g][1] = NUL
      BY <3>1 DEF FreshUpTo
    <3>2. CASE buf'[g][1] # NUL
      <4>1. \A i \in 1..m : buf'[g][i] # NUL
        BY <2>9, <2>10, <3>2
      <4> QED
        BY <2>10, <2>11, <4>1 DEF FreshUpTo
    <3> QED
      BY <3>1, <3>2
  <2>13. wfd'[w] = g /\ wlen'[w] = n
    BY <2>1, <2>10 DEF f
  <2> QED
    BY <2>1, <2>3, <2>12, <2>13 DEF WorkFresh, FreshUpTo, FreshCell, Unanswered
<1>2a. CASE Count(w)
  <2>1. /\ f \in Fds /\ wpc[w] = "count" /\ wpc'[w] = "end" /\ UNCHANGED <<wfd, buf>>
        /\ alllen'[f] = wlen'[w] /\ alllen'[f] \in {alllen[f] + Len(wtmp[w]), wlen[w]}
    BY <1>2a, CountedCells
  <2>2. FreshUpTo(f, wlen[w]) /\ UNCHANGED <<peer, got>>
    BY <1>0, <1>2a, <2>1 DEF WorkFresh, Count, clientVars
  <2>3. buf[f][1] # NUL => wlen'[w] = wlen[w]
    BY <1>0, <2>1 DEF EndedInv
  <2> QED
    BY <2>1, <2>2, <2>3 DEF WorkFresh, FreshUpTo, FreshCell, Unanswered
<1>2b. CASE Terminate(w)
  <2>1. /\ f \in Fds /\ wpc[w] = "end" /\ wpc'[w] = "read" /\ UNCHANGED <<wfd, alllen>>
    BY <1>2b, EndedCells
  <2>2. PICK p \in {alllen[f], wlen[w]} :
          /\ p \in Nat
          /\ \A j \in 1..BufSize : buf'[f][j] = IF j = p + 1 THEN NUL ELSE buf[f][j]
    BY <1>2b, EndedCells
  <2>3. FreshUpTo(f, wlen[w]) /\ UNCHANGED <<peer, got>>
    BY <1>0, <1>2b, <2>1 DEF WorkFresh, Terminate, clientVars
  <2>4. ASSUME buf'[f][1] # NUL
        PROVE  \E j \in 1..BufSize : /\ \A i \in 1..j : buf'[f][i] # NUL
                                     /\ FreshCell(f, buf'[f][j])
    <3>1. buf[f][1] # NUL
      BY <1>0, <2>2, <2>4
    <3>2. p = wlen[w] /\ wlen[w] \in 0..BufSize
      BY <1>0, <2>1, <3>1 DEF EndedInv
    <3>3. PICK j \in 1..wlen[w] : (\A i \in 1..j : buf[f][i] # NUL) /\ FreshCell(f, buf[f][j])
      BY <2>3, <3>1 DEF FreshUpTo
    <3>4. j \in 1..BufSize /\ \A i \in 1..j : i \in 1..BufSize /\ i # p + 1
      BY <1>0, <3>2, <3>3
    <3>5. \A i \in 1..j : buf'[f][i] = buf[f][i]
      BY <2>2, <3>4
    <3>6. j \in 1..j
      BY <3>4, <1>0
    <3> QED
      BY <3>3, <3>4, <3>5, <3>6
  <2>5. wfd'[w] = f
    BY <2>1
  <2> HIDE DEF f
  <2> QED
    BY <2>1, <2>3, <2>4, <2>5 DEF WorkFresh, FreshBuf, FreshUpTo, FreshCell, Unanswered
<1>3. CASE Parse(w)
  <2>1. /\ wpc[w] = "parse" /\ IsRequest(buf[f]) /\ wfd'[w] = f
        /\ UNCHANGED <<clientVars, peer>>
        /\ wpc'[w] = IF Answered(buf[f]) THEN "arm" ELSE "clearbuf"
    BY <1>0, <1>3 DEF Parse, At, Goto
  <2>2. f \in Fds /\ peer[f] \in Clients
    BY <1>0, <2>1, OwnerHasPeer DEF Hands
  <2>3. PICK g \in Fds : g = f
    BY <2>2
  <2>4. FreshBuf(g)
    BY <1>0, <2>1, <2>3 DEF WorkFresh
  <2>5. /\ buf[g][1] \in Cells /\ buf[g][1].c = peer[g]
        /\ Unanswered(peer[g], buf[g][1].n) /\ Ahead(peer[g], buf[g][1].n)
    BY <1>0, <2>1, <2>2, <2>3, <2>4, ParsesFresh
  <2>6. ASSUME Answered(buf[g]) PROVE FreshReply(g)'
    <3>1. Script[buf[g][1].c][buf[g][1].n] # "unknown"
      BY <2>6 DEF Answered
    <3>2. wbuf' = [wbuf EXCEPT ![g] = Reply(buf[g][1].c, buf[g][1].n)]
      BY <1>3, <2>3, <3>1, Zenon DEF Parse
    <3>3. wbuf'[g] = Reply(buf[g][1].c, buf[g][1].n)
      BY <1>0, <3>2 DEF TypeOK
    <3>4. wbuf'[g].c = peer[g] /\ wbuf'[g].n = buf[g][1].n
      BY <2>5, <3>3 DEF Reply
    <3> QED
      BY <2>1, <2>5, <3>4 DEF FreshReply, FreshCell, Unanswered, Ahead, clientVars
  <2>7. CASE ~Answered(buf[g])
    BY <2>1, <2>3, <2>7 DEF WorkFresh
  <2>8. CASE Answered(buf[g])
    <3>1. wpc'[w] = "arm" /\ wfd'[w] = g
      BY <2>1, <2>3, <2>8
    <3> QED
      BY <2>6, <2>8, <3>1 DEF WorkFresh, FreshReply, FreshCell, Unanswered, Ahead
  <2> QED
    BY <2>7, <2>8
<1>4. CASE ParseThrows(w) \/ (WriteFails(w) /\ wpc' = wpc)
  <2>1. UNCHANGED <<clientVars, peer, buf, wbuf, wpc, wfd, wtmp>>
        /\ wpc[w] \in {"parse", "write"}
    <3>1. CASE ParseThrows(w)
      BY <3>1 DEF ParseThrows, At, connVars, workVars
    <3>2. CASE WriteFails(w) /\ wpc' = wpc
      <4>1. wpc[w] = "write" /\ UNCHANGED <<clientVars, peer, buf, wbuf, wtmp>>
            /\ (Goto(w, "idle") \/ UNCHANGED wfd)
        BY <3>2 DEF WriteFails, At, connVars
      <4>2. ~Goto(w, "idle")
        BY <1>0, <3>2, <4>1 DEF Goto
      <4> QED
        BY <3>2, <4>1, <4>2
    <3> QED
      BY <1>4, <3>1, <3>2
  <2>2. PICK g : g = f
    OBVIOUS
  <2>3. (FreshBuf(g)' <=> FreshBuf(g)) /\ (FreshReply(g)' <=> FreshReply(g))
    BY <2>1, NothingMoves
  <2> QED
    BY <1>0, <2>1, <2>2, <2>3
    DEF WorkFresh, FreshBuf, FreshUpTo, FreshReply, FreshCell, Unanswered, Ahead, clientVars
<1>5. CASE WriteFails(w) /\ wpc' # wpc
  BY <1>0, <1>5 DEF WriteFails, Goto, WorkFresh
<1> QED
  BY <1>1, <1>2, <1>2a, <1>2b, <1>3, <1>4, <1>5, WorkQuiet, Zenon DEF WorkerStep

LEMMA FreshStep == ServerInv /\ RepliesInv /\ ~AddFails /\ Next => FreshInv'
<1> SUFFICES ASSUME ServerInv, RepliesInv, ~AddFails, Next PROVE FreshInv'
  OBVIOUS
<1>0. /\ TypeOK /\ ExclusiveOwner /\ wpc \in [Workers -> Steps]
      /\ wfd \in [Workers -> Fds \cup {0}] /\ wtmp \in [Workers -> CellSeqs]
  BY DEF ServerInv, TypeOK
<1>1. ASSUME NEW w \in Workers PROVE WorkFresh(w)'
  <2>1. CASE ClientStep \/ LoopStep
    <3>1. UNCHANGED <<wpc, wfd, wtmp, wlen>>
      BY <2>1 DEF ClientStep, Connect, Leave, Send, LoopStep, EpollWait, BeginAccept,
         AcceptEnd, Accept, Refuse, HangUp, Dispatch, workVars
    <3>2. wpc[w] \in Hands => Elsewhere(wfd[w])
      <4> SUFFICES ASSUME wpc[w] \in Hands PROVE Elsewhere(wfd[w])
        OBVIOUS
      <4>1. WorkedBy(w, wfd[w]) /\ wfd[w] \in Fds
        BY OwnerHasPeer DEF ServerInv
      <4>2. ~InBatch(wfd[w])
        BY <1>0, <4>1 DEF ExclusiveOwner, Worked
      <4>3. \A e \in EventSet : HangUp(e) => e.fd # wfd[w]
        BY <4>2 DEF HangUp, InBatch
      <4> QED
        BY <2>1, <4>3 DEF Elsewhere
    <3> QED
      BY <3>1, <3>2, WorkKept
  <2>2. ASSUME NEW v \in Workers, WorkerStep(v), v # w PROVE WorkFresh(w)'
    <3>1. wpc'[w] = wpc[w] /\ wfd'[w] = wfd[w] /\ wtmp'[w] = wtmp[w] /\ wlen'[w] = wlen[w]
      BY <1>0, <2>2, OthersKept
    <3>2. wpc[w] \in Hands => Elsewhere(wfd[w])
      BY <1>0, <2>2 DEF Elsewhere, WorkedBy, ExclusiveOwner
    <3> QED
      BY <3>1, <3>2, WorkKept
  <2> QED
    BY <2>1, <2>2, WorkStep, Zenon DEF Next
<1> QED
  BY <1>1, ArmedFresh, BatchFresh, QueueFresh DEF FreshInv
-----------------------------------------------------------------------------
(* Late wipes *)

\* Nobody takes up a connection that is left open with nobody to serve it.
LEMMA AttendedKept ==
  ASSUME ServerInv, Next, NEW f \in Fds, Attended(f)'
  PROVE  Attended(f)
<1> SUFFICES ASSUME peer[f] # NoClient, ~Armed(f), ~InBatch(f), ~Queued(f), ~Worked(f)
             PROVE  FALSE
  BY DEF Attended
<1> USE DEF clientVars, loopVars, workVars, connVars
<1>0. /\ TypeOK /\ TaskInHand /\ peer \in [Fds -> Clients \cup {NoClient}]
      /\ ep \in [Fds -> {"none", "off", "READ", "WRITE"}]
  BY DEF ServerInv, TypeOK
<1>1. ASSUME peer'[f] = peer[f], ep'[f] \in {ep[f], "none", "off"}, ~EpollWait PROVE FALSE
  <2>1. ~Armed(f)'
    BY <1>1 DEF Armed
  <2> QED
    BY <1>1, <2>1, HandsStep DEF Attended
<1>2. CASE ClientStep
  BY <1>1, <1>2 DEF ClientStep, Connect, Leave, Send, EpollWait, LoopAt
<1>3. CASE EpollWait
  <2>1. UNCHANGED <<peer, queue, wpc, wfd>> /\ batch' = Events /\ ep' = Disarm
    BY <1>3 DEF EpollWait
  <2>2. f \notin Ready
    BY DEF Ready, Armed
  <2>3. ~Armed(f)' /\ ~InBatch(f)'
    BY <1>0, <2>1, <2>2 DEF Armed, Disarm, InBatch, Events, Event, Listener, Fds
  <2> QED
    BY <2>1, <2>3 DEF Attended, Queued, Worked, WorkedBy
<1>4. CASE LoopStep /\ ~EpollWait
  <2>1. ASSUME NEW g \in Fds, Accept(g) PROVE FALSE
    <3>1. g # f
      BY <2>1 DEF Accept, Accepting, FreeFds
    <3> QED
      BY <1>0, <1>1, <1>4, <2>1, <3>1 DEF Accept
  <2>2. ASSUME NEW e \in EventSet, HangUp(e) PROVE FALSE
    <3>1. e.fd # f
      BY <2>2 DEF HangUp, InBatch
    <3> QED
      BY <1>0, <1>1, <1>4, <2>2, <3>1 DEF HangUp
  <2>3. CASE BeginAccept \/ AcceptEnd \/ (\E g \in Fds : Refuse(g))
             \/ \E e \in EventSet : Dispatch(e)
    BY <1>1, <1>4, <2>3 DEF BeginAccept, AcceptEnd, Refuse, Dispatch
  <2> QED
    BY <1>4, <2>1, <2>2, <2>3, Zenon DEF LoopStep
<1>5. ASSUME NEW w \in Workers, WorkerStep(w), ~EpollWait PROVE FALSE
  <2>1. CASE ReadNothing(w) \/ Arm(w) \/ Rearm(w)
    <3>1. wfd[w] # f \/ ReadNothing(w)
      BY <2>1 DEF Arm, Rearm, At, Worked, WorkedBy, Hands
    <3> QED
      BY <1>0, <1>1, <1>5, <2>1, <3>1 DEF ReadNothing, Arm, Rearm, UpdateEvents
  <2>2. CASE ~ReadNothing(w) /\ ~Arm(w) /\ ~Rearm(w)
    BY <1>1, <1>5, <2>2 DEF WorkerStep, Take, Guard, Check, ReadCells, ReadFails, Store,
       Count, Terminate, ParseThrows, Parse, ClearBuf, ClearLen, Release, Write, WriteFails,
       ClearReply
  <2> QED
    BY <2>1, <2>2
<1> QED
  BY <1>2, <1>3, <1>4, <1>5, Zenon DEF Next

\* A worker that does not step stands still.
LEMMA StandsStill ==
  ASSUME ServerInv, Next, NEW w \in Workers, ~WorkerStep(w)
  PROVE  wpc'[w] = wpc[w] /\ wfd'[w] = wfd[w]
<1>1. CASE ClientStep
  BY <1>1 DEF ClientStep, Connect, Leave, Send, workVars
<1>2. CASE LoopStep
  BY <1>2 DEF LoopStep, EpollWait, BeginAccept, AcceptEnd, Accept, Refuse, HangUp, Dispatch,
     workVars
<1>3. ASSUME NEW v \in Workers, WorkerStep(v)
      PROVE  wpc'[w] = wpc[w] /\ wfd'[w] = wfd[w]
  BY <1>3, OthersKept DEF ServerInv
<1> QED
  BY <1>1, <1>2, <1>3 DEF Next

\* Somebody is late with the object of f.
LateAt(w, f) == wpc[w] \in Late /\ wfd[w] = f

\* While somebody is, m_buf does not parse; and what does parse is held whole.
LEMMA ParsesAlone ==
  ASSUME ServerInv, RepliesInv, NEW v \in Workers, wpc[v] = "parse",
         IsRequest(buf[wfd[v]])
  PROVE  /\ \A w \in Workers : ~LateAt(w, wfd[v])
         /\ Headed(wfd[v])
<1> DEFINE f == wfd[v]
           size == HeadSize(f)
<1>0. /\ TypeOK /\ f \in Fds /\ BufSize \in Nat \ {0} /\ NUL \notin Cells
      /\ alllen[f] \in 0..BufSize /\ buf[f] \in [1..BufSize -> Cells \cup {NUL}]
      /\ PrefixFilled /\ EndedInv /\ ConsumedInv /\ LateInv
  BY ChatServerAssumption DEF ServerInv, TypeOK, TaskInHand, RepliesInv, BufferInv
<1>1. /\ buf[f][1] # NUL /\ size <= BufSize
      /\ \A j \in 1..size : buf[f][j] = Cell(buf[f][1].c, buf[f][1].n, j)
      /\ size < BufSize => buf[f][size + 1] = NUL
  BY DEF IsRequest, HeadSize
<1>2. buf[f][1] \in Cells /\ buf[f][1].c \in Clients /\ buf[f][1].n \in Nat
  BY <1>0, <1>1 DEF Cells
<1>3. Consumed(buf[f][1])
  BY <1>0, <1>1 DEF ConsumedInv
<1>4. size \in Nat \ {0}
  BY <1>2, <1>3, ScriptSizes DEF Consumed, Sent, HeadSize
<1> HIDE DEF size
<1>5. ASSUME NEW j \in 1..size PROVE buf[f][j] # NUL
  <2>1. buf[f][j] = Cell(buf[f][1].c, buf[f][1].n, j) /\ j \in Nat
    BY <1>1, <1>4
  <2>2. PICK c, n : c = buf[f][1].c /\ n = buf[f][1].n
    OBVIOUS
  <2>3. Cell(c, n, j) \in Cells
    BY <1>2, <2>1, <2>2 DEF Cell, Cells
  <2> QED
    BY <1>0, <2>1, <2>2, <2>3
<1>6. ASSUME NEW w \in Workers, LateAt(w, f) PROVE FALSE
  <2>1. size < alllen[f]
    BY <1>0, <1>1, <1>6 DEF LateInv, LateAt, InVain, Beyond, Late, size
  <2>2. size < BufSize /\ size + 1 \in 1..alllen[f]
    BY <1>0, <1>4, <2>1
  <2> QED
    BY <1>0, <1>1, <2>2 DEF PrefixFilled, Filled
<1>7. size <= alllen[f]
  <2> SUFFICES ASSUME alllen[f] < size PROVE FALSE
    BY <1>0, <1>4
  <2>1. \A u \in Workers : ~Unended(u, f)
    BY <1>0, OneReader DEF Unended, Hands
  <2>2. alllen[f] < BufSize /\ alllen[f] + 1 \in 1..size
    BY <1>0, <1>1, <1>4
  <2>3. buf[f][alllen[f] + 1] = NUL
    BY <1>0, <1>1, <2>1, <2>2 DEF EndedInv, Ended
  <2> QED
    BY <1>5, <2>2, <2>3
<1> QED
  BY <1>1, <1>6, <1>7 DEF Headed, size

LEMMA HeadSizes ==
  ASSUME ServerInv, RepliesInv, NEW f \in Fds, buf[f][1] # NUL
  PROVE  HeadSize(f) \in Nat \ {0}
<1>1. /\ buf[f] \in [1..BufSize -> Cells \cup {NUL}] /\ BufSize \in Nat \ {0}
      /\ ConsumedInv
  BY ChatServerAssumption DEF ServerInv, TypeOK, RepliesInv, BufferInv
<1>2. buf[f][1] \in Cells /\ Consumed(buf[f][1])
  BY <1>1 DEF ConsumedInv
<1> QED
  BY <1>2, ScriptSizes DEF Consumed, Sent, HeadSize, Cells

\* What is appended leaves the first cell alone, if it is not the first.
LEMMA AppendKept ==
  ASSUME ServerInv, RepliesInv, NEW v \in Workers, Buffering(v), alllen[wfd[v]] >= 1
  PROVE  /\ wfd[v] \in Fds /\ wpc[v] \in Hands /\ wpc'[v] \in Hands /\ wfd' = wfd
         /\ buf'[wfd[v]][1] = buf[wfd[v]][1]
         /\ alllen[wfd[v]] \in Nat /\ alllen'[wfd[v]] \in Nat
         /\ alllen'[wfd[v]] >= alllen[wfd[v]]
         /\ Count(v) => alllen'[wfd[v]] > alllen[wfd[v]]
<1>0. BufSize \in Nat \ {0} /\ 1 \in 1..BufSize
  BY ChatServerAssumption
<1>1. CASE Store(v)
  <2>1. wpc[v] = "store" /\ wpc'[v] = "count"
    BY <1>1, StoredCells
  <2> QED
    BY <1>0, <1>1, <2>1, StoredCells DEF Hands, Count, At
<1>2. CASE Count(v)
  <2>1. /\ wfd[v] \in Fds /\ wpc[v] = "count" /\ wpc'[v] = "end" /\ UNCHANGED <<wfd, buf>>
        /\ Len(wtmp[v]) \in Nat /\ alllen[wfd[v]] \in Nat /\ alllen'[wfd[v]] \in Nat
        /\ alllen'[wfd[v]] >= alllen[wfd[v]] + Len(wtmp[v])
    BY <1>2, CountedCells
  <2>2. Len(wtmp[v]) # 0
    <3>1. wtmp[v] # <<>> /\ wtmp[v] \in Seq(Cells)
      BY <2>1 DEF RepliesInv, FreshInv, WorkFresh, ServerInv, TypeOK, CellSeqs
    <3> QED
      BY <3>1, EmptySeq
  <2>3. alllen'[wfd[v]] >= alllen[wfd[v]] /\ alllen'[wfd[v]] > alllen[wfd[v]]
    BY <2>1, <2>2
  <2> QED
    BY <2>1, <2>3 DEF Hands
<1>3. CASE Terminate(v)
  <2>1. /\ wfd[v] \in Fds /\ wpc[v] = "end" /\ wpc'[v] = "read" /\ UNCHANGED <<wfd, alllen>>
    BY <1>3, EndedCells
  <2>2. PICK p \in {alllen[wfd[v]], wlen[v]} :
          /\ p \in Nat /\ p >= alllen[wfd[v]] /\ alllen[wfd[v]] \in Nat
          /\ \A j \in 1..BufSize : buf'[wfd[v]][j] = IF j = p + 1 THEN NUL
                                                                  ELSE buf[wfd[v]][j]
    BY <1>3, EndedCells
  <2>3. buf'[wfd[v]][1] = buf[wfd[v]][1]
    BY <1>0, <2>2
  <2> QED
    BY <2>1, <2>2, <2>3 DEF Hands, Count, At
<1> QED
  BY <1>1, <1>2, <1>3 DEF Buffering

\* A read that ends because it got nothing leaves its connection to nobody.
LEMMA NothingLeaves ==
  ASSUME ServerInv, NEW v \in Workers, ReadNothing(v)
  PROVE  ~Attended(wfd[v])'
<1> USE DEF loopVars
<1>0. TypeOK /\ TaskInHand /\ ExclusiveOwner
  BY DEF ServerInv
<1>1. /\ wpc[v] = "read" /\ wfd[v] \in Fds /\ wpc'[v] = "release"
      /\ UNCHANGED <<wfd, peer, batch, queue>> /\ ep' = [ep EXCEPT ![wfd[v]] = "none"]
      /\ \A u \in Workers \ {v} : wpc'[u] = wpc[u]
  BY <1>0 DEF ReadNothing, At, Goto, TypeOK, TaskInHand
<1>2. PICK f \in Fds : f = wfd[v]
  BY <1>1
<1>3. WorkedBy(v, f) /\ Worked(f)
  BY <1>1, <1>2 DEF WorkedBy, Worked, Hands
<1>4. peer'[f] # NoClient /\ ~InBatch(f)' /\ ~Queued(f)' /\ ~Armed(f)'
  BY <1>0, <1>1, <1>2, <1>3 DEF ExclusiveOwner, InBatch, Queued, Armed, TypeOK
<1>5. ~Worked(f)'
  BY <1>0, <1>1, <1>2 DEF Worked, WorkedBy, ExclusiveOwner, Hands
<1> QED
  BY <1>1, <1>2, <1>4, <1>5 DEF Attended, Armed, InBatch, Queued, Worked, WorkedBy

\* What happens to an object by somebody else while a worker is about to arm
\* its connection, or to wipe it.
LEMMA LateKept ==
  ASSUME ServerInv, RepliesInv, ~AddFails, Next,
         NEW w \in Workers, wpc[w] \in Late \cup {"arm"}, ~WorkerStep(w),
         NEW f \in Fds, f = wfd[w]
  PROVE  \/ buf'[f] = buf[f] /\ alllen'[f] = alllen[f]
         \/ /\ wpc[w] \in Late /\ Attended(f)
            /\ \E v \in Workers : Buffering(v) /\ wfd[v] = f
         \/ wpc[w] \in Late /\ buf'[f][1] = NUL /\ ~Attended(f)'
<1>0. TypeOK /\ TaskInHand /\ LateInv
  BY DEF ServerInv, RepliesInv
<1>1. ASSUME NEW v \in Workers, Buffering(v)
      PROVE  /\ wfd[v] \in Fds /\ wpc[v] \in Hands \ {"arm"}
             /\ \A g \in Fds : g # wfd[v] => buf'[g] = buf[g] /\ alllen'[g] = alllen[g]
  BY <1>1, StoredCells, CountedCells, EndedCells DEF Buffering, Hands
<1>2. ASSUME NEW v \in Workers, Buffering(v)
      PROVE  \/ buf'[f] = buf[f] /\ alllen'[f] = alllen[f]
             \/ wpc[w] \in Late /\ Attended(f) /\ wfd[v] = f
  <2>1. CASE wfd[v] # f
    BY <1>1, <1>2, <2>1
  <2>2. CASE wfd[v] = f
    <3>1. wpc[w] # "arm"
      BY <1>1, <1>2, <2>2, OneReader DEF Hands
    <3>2. Worked(f)
      BY <1>1, <1>2, <2>2 DEF Worked, WorkedBy
    <3> QED
      BY <2>2, <3>1, <3>2 DEF Attended
  <2> QED
    BY <2>1, <2>2
<1>3. ASSUME NEW v \in Workers, Wiping(v)
      PROVE  \/ buf'[f] = buf[f] /\ alllen'[f] = alllen[f]
             \/ wpc[w] \in Late /\ buf'[f][1] = NUL /\ ~Attended(f)'
  <2>0. v # w
    BY <1>3 DEF WorkerStep, Wiping
  <2>1. CASE wfd[v] # f
    BY <1>3, <2>1, WipedCells
  <2>2. CASE wfd[v] = f /\ ReadNothing(v)
    <3>1. wpc[v] = "read" /\ buf'[f][1] = NUL
      BY <2>2, <1>3, WipedCells DEF ClearLen, ReadNothing, At
    <3>2. wpc[w] # "arm"
      BY <2>0, <2>2, <3>1, OneReader DEF Hands
    <3>3. ~Attended(wfd[v])' /\ wfd'[v] = wfd[v]
      BY <2>2, NothingLeaves DEF ReadNothing
    <3>4. ~Attended(f)'
      BY <2>2, <3>3 DEF Attended, Armed, InBatch, Queued, Worked, WorkedBy
    <3> QED
      BY <3>1, <3>2, <3>4
  <2>3. CASE wfd[v] = f /\ (ClearBuf(v) \/ ClearLen(v))
    <3>1. wpc[v] \in Late
      BY <2>3 DEF ClearBuf, ClearLen, At, Late
    <3> QED
      BY <1>0, <2>0, <2>3, <3>1 DEF LateInv, InVain
  <2> QED
    BY <1>3, <2>1, <2>2, <2>3 DEF Wiping
<1> QED
  BY <1>2, <1>3, BufSteps

LEMMA WipesStep ==
  ASSUME ServerInv, RepliesInv, ~AddFails, Next, NEW w \in Workers
  PROVE  Wipes(w)'
<1>0. /\ TypeOK /\ TaskInHand /\ LateInv /\ Wipes(w) /\ wpc \in [Workers -> Steps]
      /\ wfd \in [Workers -> Fds \cup {0}] /\ alllen \in [Fds -> 0..BufSize]
      /\ BufSize \in Nat
  BY ChatServerAssumption DEF ServerInv, RepliesInv, LateInv, TypeOK
<1> SUFFICES ASSUME wpc'[w] \in Late \cup {"arm"} PROVE Wipes(w)'
  BY DEF Wipes, Late
<1>1. ASSUME NEW f \in Fds, Headed(f) PROVE alllen[f] >= 1
  BY <1>0, <1>1, HeadSizes DEF Headed
<1>2. CASE WorkerStep(w)
  <2>1. CASE Parse(w)
    <3>1. /\ wpc[w] = "parse" /\ IsRequest(buf[wfd[w]]) /\ wfd[w] \in Fds
          /\ UNCHANGED <<wfd, buf, alllen>> /\ wpc'[w] \in {"arm", "clearbuf"}
      BY <1>0, <2>1 DEF Parse, At, Goto, TaskInHand
    <3>2. Headed(wfd[w])
      BY <3>1, ParsesAlone
    <3> QED
      BY <3>1, <3>2 DEF Wipes, Headed, HeadSize
  <2>2. CASE Arm(w)
    <3>1. /\ wpc[w] = "arm" /\ wpc'[w] = "clearbuf" /\ UNCHANGED <<wfd, buf, alllen>>
      BY <1>0, <2>2 DEF Arm, At, Goto, connVars
    <3>2. Headed(wfd[w])
      BY <1>0, <3>1 DEF Wipes
    <3> QED
      BY <3>1, <3>2 DEF Wipes, Headed, HeadSize
  <2>3. CASE ClearBuf(w)
    <3>1. /\ wfd[w] \in Fds /\ wfd' = wfd /\ alllen' = alllen
          /\ wpc[w] = "clearbuf" /\ wpc'[w] = "clearlen" /\ buf'[wfd[w]][1] = NUL
      BY <2>3, WipedCells DEF Wiping, ClearLen, ClearBuf, At
    <3>2. PICK f \in Fds : f = wfd[w]
      BY <3>1
    <3>3. Attended(f)' => alllen[f] >= 1
      BY <1>0, <1>1, <3>1, <3>2, AttendedKept DEF Wipes
    <3>4. wfd'[w] = f /\ buf'[f][1] = NUL /\ alllen'[f] = alllen[f]
      BY <3>1, <3>2
    <3> QED
      BY <3>1, <3>3, <3>4 DEF Wipes, Attended, Armed, InBatch, Queued, Worked, WorkedBy
  <2>4. CASE Take(w) \/ Guard(w) \/ Check(w) \/ ReadCells(w) \/ ReadNothing(w)
             \/ ReadFails(w) \/ Store(w) \/ Count(w) \/ Terminate(w) \/ ParseThrows(w)
    BY <1>0, <2>4 DEF Take, Guard, Check, ReadCells, ReadNothing, ReadFails, Store, Count,
       Terminate, ParseThrows, At, Goto, Late, workVars
  <2>5. CASE ClearLen(w) \/ Release(w) \/ Write(w) \/ WriteFails(w) \/ ClearReply(w)
             \/ Rearm(w)
    BY <1>0, <2>5 DEF ClearLen, Release, Write, WriteFails, ClearReply, Rearm, At, Goto, Late
  <2> QED
    BY <1>2, <2>1, <2>2, <2>3, <2>4, <2>5, Zenon DEF WorkerStep
<1>3. CASE ~WorkerStep(w)
  <2>1. wpc'[w] = wpc[w] /\ wfd'[w] = wfd[w]
    BY <1>3, StandsStill
  <2>2. PICK f \in Fds : f = wfd[w]
    BY <1>0, <2>1 DEF TaskInHand, Late
  <2>3. wpc[w] = "arm" => Attended(f)'
    BY <2>1, <2>2 DEF Attended, Worked, WorkedBy, Hands
  <2>4. Attended(f)' => Attended(f)
    BY AttendedKept
  <2>5. \/ buf'[f] = buf[f] /\ alllen'[f] = alllen[f]
        \/ /\ wpc[w] \in Late /\ Attended(f)
           /\ \E v \in Workers : Buffering(v) /\ wfd[v] = f
        \/ wpc[w] \in Late /\ buf'[f][1] = NUL /\ ~Attended(f)'
    BY <1>3, <2>1, <2>2, LateKept
  <2>6. /\ wpc[w] = "arm" => Headed(f)
        /\ wpc[w] = "clearbuf" /\ Attended(f) => Headed(f)
        /\ wpc[w] = "clearlen" => buf[f][1] = NUL
        /\ wpc[w] = "clearlen" /\ Attended(f) => alllen[f] >= 1
    BY <1>0, <2>2 DEF Wipes
  <2>7. /\ wpc[w] = "arm" => Headed(f)'
        /\ wpc[w] = "clearbuf" /\ Attended(f)' => Headed(f)'
        /\ wpc[w] = "clearlen" => buf'[f][1] = NUL
        /\ wpc[w] = "clearlen" /\ Attended(f)' => alllen'[f] >= 1
    <3>1. CASE buf'[f] = buf[f] /\ alllen'[f] = alllen[f]
      BY <2>4, <2>6, <3>1 DEF Headed, HeadSize
    <3>2. ASSUME NEW v \in Workers, Buffering(v), wfd[v] = f, wpc[w] \in Late, Attended(f)
          PROVE  /\ wpc[w] = "arm" => Headed(f)'
                 /\ wpc[w] = "clearbuf" /\ Attended(f)' => Headed(f)'
                 /\ wpc[w] = "clearlen" => buf'[f][1] = NUL
                 /\ wpc[w] = "clearlen" /\ Attended(f)' => alllen'[f] >= 1
      <4>1. alllen[f] >= 1
        BY <1>1, <2>6, <3>2 DEF Late
      <4>2. /\ buf'[f][1] = buf[f][1] /\ alllen[f] \in Nat /\ alllen'[f] \in Nat
            /\ alllen'[f] >= alllen[f]
        BY <3>2, <4>1, AppendKept
      <4>3. Headed(f) => Headed(f)'
        BY <4>2, HeadSizes DEF Headed, HeadSize
      <4> QED
        BY <2>6, <3>2, <4>1, <4>2, <4>3 DEF Late
    <3>3. CASE wpc[w] \in Late /\ buf'[f][1] = NUL /\ ~Attended(f)'
      BY <3>3 DEF Late
    <3> QED
      BY <2>5, <3>1, <3>2, <3>3
  <2> QED
    BY <2>1, <2>2, <2>7
    DEF Wipes, Headed, HeadSize, Attended, Armed, InBatch, Queued, Worked, WorkedBy
<1> QED
  BY <1>2, <1>3

\* A worker whose connection somebody is late with reads and parses in vain.
LEMMA VainStep ==
  ASSUME ServerInv, RepliesInv, ~AddFails, Next, NEW v \in Workers, NEW w \in Workers,
         wpc'[w] \in Late, wfd'[v] = wfd'[w], v # w
  PROVE  wpc'[v] \notin Late /\ InVain(v)'
<1>0. /\ TypeOK /\ TaskInHand /\ LateInv /\ FreshInv /\ wpc \in [Workers -> Steps]
      /\ wfd \in [Workers -> Fds \cup {0}] /\ alllen \in [Fds -> 0..BufSize]
      /\ BufSize \in Nat
  BY ChatServerAssumption DEF ServerInv, RepliesInv, TypeOK
\* It is enough to have these of v, at the object f.
<1> DEFINE Vain(f) == /\ wpc'[v] \notin Late \cup {"arm"}
                      /\ wpc'[v] = "read" => HasInput(f)' \/ Beyond(f)'
                      /\ wpc'[v] \in {"end", "parse"} => Beyond(f)'
<1>1. ASSUME NEW f \in Fds, wfd'[v] = f, Vain(f) PROVE wpc'[v] \notin Late /\ InVain(v)'
  BY <1>1 DEF InVain, HasInput, Beyond, HeadSize, Late
<1>2. CASE WorkerStep(w)
  <2>1. wpc'[v] = wpc[v] /\ wfd'[v] = wfd[v]
    BY <1>0, <1>2, OthersKept
  <2>2. CASE Parse(w) \/ Arm(w)
    <3>1. /\ wpc[w] \in {"parse", "arm"} /\ wfd[w] \in Fds /\ wfd' = wfd
      BY <1>0, <2>2 DEF Parse, Arm, At, TaskInHand
    <3>2. wpc[v] \notin Hands
      BY <2>1, <3>1, OneReader DEF Hands
    <3>3. ~LateAt(v, wfd[w])
      <4>1. CASE Parse(w)
        BY <3>1, <4>1, ParsesAlone DEF Parse, At
      <4>2. CASE Arm(w)
        BY <1>0, <4>2 DEF Arm, At, LateInv, InVain, LateAt
      <4> QED
        BY <2>2, <4>1, <4>2
    <3>4. wpc[v] \notin Late
      BY <2>1, <3>1, <3>3 DEF LateAt
    <3> QED
      BY <1>1, <2>1, <3>1, <3>2, <3>4 DEF Hands
  <2>3. CASE ClearBuf(w)
    <3>1. /\ wfd[w] \in Fds /\ wfd' = wfd /\ wpc[w] = "clearbuf" /\ buf'[wfd[w]][1] = NUL
      BY <2>3, WipedCells DEF Wiping, ClearLen, ClearBuf, At
    <3>2. PICK f \in Fds : f = wfd[w]
      BY <3>1
    <3>3. wpc[v] \notin Late /\ wpc[v] # "arm"
      BY <1>0, <2>1, <3>1 DEF LateInv, InVain, Late
    <3>4. Beyond(f)'
      BY <3>1, <3>2 DEF Beyond
    <3> QED
      BY <1>1, <2>1, <3>1, <3>2, <3>3, <3>4
  <2>4. CASE Take(w) \/ Guard(w) \/ Check(w) \/ ReadCells(w) \/ ReadNothing(w)
             \/ ReadFails(w) \/ Store(w) \/ Count(w) \/ Terminate(w) \/ ParseThrows(w)
    BY <1>0, <2>4 DEF Take, Guard, Check, ReadCells, ReadNothing, ReadFails, Store, Count,
       Terminate, ParseThrows, At, Goto, Late, workVars
  <2>5. CASE ClearLen(w) \/ Release(w) \/ Write(w) \/ WriteFails(w) \/ ClearReply(w)
             \/ Rearm(w)
    BY <1>0, <2>5 DEF ClearLen, Release, Write, WriteFails, ClearReply, Rearm, At, Goto, Late
  <2> QED
    BY <1>2, <2>2, <2>3, <2>4, <2>5, Zenon DEF WorkerStep
<1>3. CASE WorkerStep(v)
  <2>1. wpc'[w] = wpc[w] /\ wfd'[w] = wfd[w] /\ wpc[w] \in Late
    BY <1>0, <1>3, OthersKept
  <2>2. PICK f \in Fds : f = wfd[w]
    BY <1>0, <2>1 DEF TaskInHand, Late
  <2>3. ASSUME wfd[v] = f
        PROVE  /\ wpc[v] \notin Late /\ wpc[v] # "arm"
               /\ wpc[v] = "read" => HasInput(f) \/ Beyond(f)
               /\ wpc[v] \in {"end", "parse"} => Beyond(f)
    BY <1>0, <2>1, <2>2, <2>3 DEF LateInv, InVain
  <2>4. ASSUME wfd[v] = f, wpc[v] \in Hands PROVE alllen[f] \in Nat /\ alllen[f] >= 1
    <3>1. Attended(f)
      BY <2>4 DEF Attended, Worked, WorkedBy
    <3>2. CASE wpc[w] = "clearbuf"
      BY <1>0, <2>1, <2>2, <3>1, <3>2, HeadSizes DEF LateInv, Wipes, Headed
    <3>3. CASE wpc[w] = "clearlen"
      BY <1>0, <2>1, <2>2, <3>1, <3>3 DEF LateInv, Wipes
    <3> QED
      BY <2>1, <3>2, <3>3 DEF Late
  <2>5. CASE Take(v) \/ Guard(v) \/ Release(v) \/ Write(v) \/ ClearReply(v) \/ Rearm(v)
             \/ ReadCells(v) \/ ReadNothing(v) \/ Store(v)
    <3>1. wpc'[v] \in {"guard", "write", "check", "idle", "clearw", "rearm", "store",
                       "release", "count"}
      BY <1>0, <2>5 DEF Take, Guard, Release, Write, ClearReply, Rearm, ReadCells,
         ReadNothing, Store, Goto
    <3> QED
      BY <1>1, <2>1, <2>2, <3>1 DEF Late
  <2>6. CASE Check(v)
    <3>1. /\ wpc[v] = "check" /\ wpc'[v] \in {"release", "read"} /\ wfd' = wfd
          /\ UNCHANGED <<clientVars, peer>>
      BY <1>0, <2>6 DEF Check, At, Goto
    <3>2. HasInput(f)'
      BY <1>0, <2>1, <2>2, <3>1 DEF FreshInv, WorkFresh, HasInput, clientVars
    <3> QED
      BY <1>1, <2>1, <2>2, <3>1, <3>2 DEF Late
  <2>7. CASE Count(v)
    <3>1. /\ wpc[v] = "count" /\ wpc'[v] = "end" /\ wfd' = wfd /\ buf' = buf
      BY <2>7, CountedCells
    <3>2. wfd[v] = f /\ alllen[f] \in Nat /\ alllen[f] >= 1
      BY <2>1, <2>2, <2>4, <3>1 DEF Hands
    <3>3. /\ alllen'[f] \in Nat /\ alllen'[f] > alllen[f]
      BY <2>7, <3>2, AppendKept DEF Buffering
    <3>4. Beyond(f)'
      <4>1. CASE wpc[w] = "clearbuf"
        <5>1. Headed(f) /\ HeadSize(f) \in Nat
          BY <1>0, <2>1, <2>2, <3>1, <3>2, <4>1, HeadSizes
          DEF LateInv, Wipes, Attended, Worked, WorkedBy, Hands, Headed
        <5> QED
          BY <3>1, <3>2, <3>3, <5>1 DEF Headed, Beyond, HeadSize
      <4>2. CASE wpc[w] = "clearlen"
        BY <1>0, <2>1, <2>2, <3>1, <4>2 DEF LateInv, Wipes, Beyond
      <4> QED
        BY <2>1, <4>1, <4>2 DEF Late
    <3> QED
      BY <1>1, <3>1, <3>2, <3>4 DEF Late
  <2>8. CASE Terminate(v)
    <3>1. /\ wpc[v] = "end" /\ wpc'[v] = "read" /\ wfd' = wfd /\ alllen' = alllen
      BY <2>8, EndedCells
    <3>2. wfd[v] = f /\ alllen[f] \in Nat /\ alllen[f] >= 1
      BY <2>1, <2>2, <2>4, <3>1 DEF Hands
    <3>3. buf'[f][1] = buf[f][1]
      BY <2>8, <3>2, AppendKept DEF Buffering
    <3>4. Beyond(f)'
      BY <2>3, <3>1, <3>2, <3>3 DEF Beyond, HeadSize
    <3> QED
      BY <1>1, <3>1, <3>2, <3>4 DEF Late
  <2>9. CASE ReadFails(v)
    <3>1. /\ wpc[v] = "read" /\ wfd' = wfd /\ UNCHANGED <<buf, alllen>>
          /\ \/ wpc'[v] = "parse" /\ ~HasInput(wfd[v])
             \/ wpc'[v] = "release"
      BY <1>0, <2>9 DEF ReadFails, At, Goto, HasInput, Source, SourceState, connVars
    <3>2. wpc'[v] = "parse" => Beyond(f)'
      BY <2>1, <2>2, <2>3, <3>1 DEF Beyond, HeadSize
    <3> QED
      BY <1>1, <2>1, <2>2, <3>1, <3>2 DEF Late
  <2>10. CASE Parse(v)
    <3>1. wpc[v] = "parse" /\ IsRequest(buf[wfd[v]]) /\ wfd' = wfd
      BY <2>10 DEF Parse, At
    <3> QED
      BY <2>1, <3>1, ParsesAlone DEF LateAt
  <2>11. CASE Arm(v) \/ ClearBuf(v) \/ ClearLen(v)
    <3>1. wpc[v] \in Late \cup {"arm"} /\ wfd' = wfd
      BY <2>11 DEF Arm, ClearBuf, ClearLen, At, Late
    <3> QED
      BY <2>1, <2>2, <2>3, <3>1
  <2>12. CASE ParseThrows(v) \/ WriteFails(v)
    <3>1. CASE ParseThrows(v)
      <4>1. UNCHANGED <<wpc, wfd, buf, alllen>> /\ wpc[v] = "parse"
        BY <3>1 DEF ParseThrows, At, workVars, connVars
      <4>2. Beyond(f)'
        BY <2>1, <2>2, <2>3, <4>1 DEF Beyond, HeadSize
      <4> QED
        BY <1>1, <2>1, <2>2, <4>1, <4>2 DEF Late
    <3>2. CASE WriteFails(v)
      <4>1. wpc'[v] \in {"write", "idle"}
        BY <1>0, <3>2 DEF WriteFails, At, Goto
      <4> QED
        BY <1>1, <2>1, <2>2, <4>1 DEF Late
    <3> QED
      BY <2>12, <3>1, <3>2
  <2> QED
    BY <1>3, <2>5, <2>6, <2>7, <2>8, <2>9, <2>10, <2>11, <2>12, Zenon DEF WorkerStep
<1>4. CASE ~WorkerStep(v) /\ ~WorkerStep(w)
  <2>1. /\ wpc'[w] = wpc[w] /\ wfd'[w] = wfd[w] /\ wpc'[v] = wpc[v] /\ wfd'[v] = wfd[v]
    BY <1>4, StandsStill
  <2>2. PICK f \in Fds : f = wfd[w] /\ f = wfd[v]
    BY <1>0, <2>1 DEF TaskInHand, Late
  <2>3. /\ wpc[v] \notin Late \cup {"arm"}
        /\ wpc[v] = "read" => HasInput(f) \/ Beyond(f)
        /\ wpc[v] \in {"end", "parse"} => Beyond(f)
    BY <1>0, <2>1, <2>2 DEF LateInv, InVain
  <2>4. ASSUME wpc[v] \in Hands
        PROVE  /\ HasInput(f) => HasInput(f)'
               /\ buf'[f] = buf[f] /\ alllen'[f] = alllen[f]
    <3>1. WorkedBy(v, f) /\ Worked(f) /\ peer[f] \in Clients
      BY <2>2, <2>4, OwnerHasPeer DEF ServerInv, Worked, WorkedBy
    <3>2. Elsewhere(f)
      <4>1. \A e \in EventSet : HangUp(e) => e.fd # f
        BY <3>1 DEF HangUp, ServerInv, ExclusiveOwner, InBatch
      <4>2. \A u \in Workers : WorkerStep(u) => ~WorkedBy(u, f)
        BY <1>4, <2>2, <2>4, OneReader DEF WorkedBy
      <4> QED
        BY <4>1, <4>2, Zenon DEF Elsewhere, Next
    <3>3. HasInput(f) => HasInput(f)'
      BY <3>1, <3>2, Undisturbed
    <3>4. ~\E u \in Workers : Buffering(u) /\ wfd[u] = f
      <4> SUFFICES ASSUME NEW u \in Workers, Buffering(u), wfd[u] = f PROVE FALSE
        OBVIOUS
      <4>1. wpc[u] \in Hands
        BY DEF Buffering, Store, Count, Terminate, At, Hands
      <4>2. u = v
        BY <2>2, <2>4, <4>1, OneReader
      <4> QED
        BY <1>4, <4>2, Zenon DEF Buffering, WorkerStep
    <3>5. Attended(f)'
      BY <2>1, <2>2, <2>4 DEF Attended, Worked, WorkedBy
    <3>6. buf'[f] = buf[f] /\ alllen'[f] = alllen[f]
      BY <1>4, <2>1, <2>2, <3>4, <3>5, LateKept
    <3> QED
      BY <3>3, <3>6
  <2>5. Vain(f)
    BY <2>1, <2>3, <2>4 DEF Hands, Beyond, HeadSize
  <2> QED
    BY <1>1, <2>1, <2>2, <2>5
<1> QED
  BY <1>2, <1>3, <1>4

LEMMA LateStep == ServerInv /\ RepliesInv /\ ~AddFails /\ Next => LateInv'
<1> SUFFICES ASSUME ServerInv, RepliesInv, ~AddFails, Next PROVE LateInv'
  OBVIOUS
<1>1. \A w \in Workers : Wipes(w)'
  BY WipesStep
<1>2. ASSUME NEW v \in Workers, NEW w \in Workers, wpc'[w] \in Late, wfd'[v] = wfd'[w], v # w
      PROVE  wpc'[v] \notin Late /\ InVain(v)'
  BY <1>2, VainStep
<1> QED
  BY <1>1, <1>2 DEF LateInv
-----------------------------------------------------------------------------
LEMMA RepliesInit == Init => RepliesInv
<1> SUFFICES ASSUME Init PROVE RepliesInv
  OBVIOUS
<1>0. /\ \A c \in Clients : Len(Script[c]) \in Nat
      /\ Len(<<>>) = 0 /\ BufSize \in Nat \ {0}
  BY ScriptSizes, ChatServerAssumption
<1>1. StreamInv
  <2> SUFFICES ASSUME NEW c \in Clients PROVE StreamOf(c)
    BY DEF StreamInv
  <2>1. next[c].n = 1 /\ next[c].i = 1 /\ rx[c] = <<>>
    BY DEF Init
  <2>2. 1 <= Len(Script[c]) => 1 \in 1..Len(Script[c])
    BY <1>0
  <2> QED
    BY <1>0, <2>1, <2>2, ScriptSizes DEF StreamOf
<1>2. ConsumedInv
  BY <1>0 DEF Init, Zeros, ConsumedInv
<1>3. PrefixFilled /\ EndedInv
  <2>1. \A f \in Fds : Filled(f, alllen[f]) /\ Ended(f)
    BY <1>0 DEF Init, Zeros, Filled, Ended
  <2>2. \A w \in Workers : wpc[w] = "idle"
    BY DEF Init
  <2> QED
    BY <2>1, <2>2 DEF PrefixFilled, EndedInv
<1>4. PeersInv
  BY <1>0, ChatServerAssumption DEF Init, PeersInv
<1>5. GotInv
  BY <1>0 DEF Init, GotInv
<1>6. FreshInv
  <2>1. \A f \in Fds : ep[f] # "WRITE"
    BY DEF Init
  <2>2. batch = {} /\ Len(queue) = 0
    BY <1>0 DEF Init
  <2>3. \A w \in Workers : wpc[w] = "idle"
    BY DEF Init
  <2> QED
    BY <2>1, <2>2, <2>3 DEF FreshInv, WorkFresh
<1>7. LateInv
  <2>1. \A w \in Workers : wpc[w] = "idle"
    BY DEF Init
  <2> QED
    BY <2>1 DEF LateInv, Wipes, Late
<1> QED
  BY <1>1, <1>2, <1>3, <1>4, <1>5, <1>6, <1>7 DEF RepliesInv, BufferInv

LEMMA RepliesStep ==
  ServerInv /\ RepliesInv /\ ~AddFails /\ [Next]_vars => RepliesInv'
<1>1. ASSUME ServerInv, RepliesInv, ~AddFails, Next PROVE RepliesInv'
  <2>1. /\ TypeOK /\ TaskInHand /\ ExclusiveOwner
        /\ StreamInv /\ ConsumedInv /\ PeersInv /\ BufferInv /\ LateInv
    BY <1>1 DEF ServerInv, RepliesInv, BufferInv
  <2>2. StreamInv' /\ PeersInv' /\ GotInv'
    BY <1>1, <2>1, StreamStep, PeersStep, GotStep
  <2>3. BufferInv'
    BY <1>1, <2>1, ConsumedStep, PrefixStep, EndedStep DEF BufferInv
  <2> QED
    BY <1>1, <2>2, <2>3, FreshStep, LateStep DEF RepliesInv
<1>2. ASSUME RepliesInv, UNCHANGED vars PROVE RepliesInv'
  <2> USE <1>2 DEF vars, clientVars, loopVars, workVars, connVars
  <2>1. StreamInv' /\ GotInv'
    BY DEF RepliesInv, StreamInv, StreamOf, GotInv, Sent, Ahead
  <2>2. BufferInv'
    <3>1. ConsumedInv' /\ PrefixFilled'
      BY DEF RepliesInv, BufferInv, ConsumedInv, Consumed, Sent, PrefixFilled, Filled
    <3>2. EndedInv'
      BY DEF RepliesInv, BufferInv, EndedInv, Ended, Unended
    <3> QED
      BY <3>1, <3>2 DEF BufferInv
  <2>3. PeersInv'
    BY DEF RepliesInv, PeersInv
  <2>4. FreshInv'
    BY DEF RepliesInv, FreshInv, EventFresh, WorkFresh, HasInput, FreshBuf, FreshUpTo,
       FreshReply, FreshCell, Unanswered, Ahead
  <2>5. LateInv'
    <3>1. \A f \in Fds : (Attended(f)' <=> Attended(f)) /\ (HasInput(f)' <=> HasInput(f))
                         /\ (Headed(f)' <=> Headed(f)) /\ (Beyond(f)' <=> Beyond(f))
      BY DEF Attended, Armed, InBatch, Queued, Worked, WorkedBy, HasInput, Headed, Beyond,
         HeadSize
    <3> QED
      BY <3>1 DEF RepliesInv, LateInv, Wipes, InVain, Attended, Armed, InBatch, Queued,
         Worked, WorkedBy, HasInput, Headed, Beyond, HeadSize
  <2> QED
    BY <2>1, <2>2, <2>3, <2>4, <2>5 DEF RepliesInv
<1> QED
  BY <1>1, <1>2

\* A client only gets replies to its own requests, each once and in the order
\* it asked, for all scripts, splittings, departures, descriptors, handles and
\* sizes, as long as EPOLL_CTL_ADD does not fail: when it does, the object that
\* is cleaned may be one a late read still wipes.
THEOREM RepliesInOrder == ~AddFails /\ Spec => []RepliesMatch
<1>1. TypeOK /\ RepliesInv => RepliesMatch
  <2> SUFFICES ASSUME TypeOK, RepliesInv, NEW c \in Clients, NEW k \in 1..Len(got[c])
               PROVE  got[c][k].c = c /\ (k > 1 => got[c][k - 1].n < got[c][k].n)
    BY DEF RepliesMatch
  <2>1. k > 1 => k - 1 \in 1..Len(got[c]) /\ k - 1 < k
    BY StreamTypes
  <2> QED
    BY <2>1 DEF RepliesInv, GotInv
<1>2. ServerInv => TypeOK
  BY DEF ServerInv
<1>3. ASSUME ~AddFails PROVE Spec => []RepliesMatch
  <2>1. ServerInv /\ RepliesInv /\ [Next]_vars => RepliesInv'
    BY <1>3, RepliesStep
  <2> QED
    BY Invariance, RepliesInit, <2>1, <1>1, <1>2, PTL DEF Spec
<1> QED
  BY <1>3
=============================================================================
