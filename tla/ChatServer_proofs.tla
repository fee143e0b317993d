-------------------------- MODULE ChatServer_proofs --------------------------
(***************************************************************************)
(* For every number of clients, workers, descriptors and handles: the      *)
(* running server keeps its types, gives a connection to one owner at a    *)
(* time, and never reads more than m_buf still has room for.  The three    *)
(* hold together or not at all; the inductive invariant is ServerInv.      *)
(* No handle is lost or held twice, by HandlesInv; and no connection is    *)
(* left without anybody to serve it but where NobodyAbandoned says so.     *)
(***************************************************************************)
EXTENDS ChatServer, FiniteSetTheorems, SequenceTheorems, TLAPS

\* What a worker read fits into m_buf, and alllen is at most what the worker
\* has in a register: meanwhile others only ever reset it.
Fits(w) ==
  /\ wpc[w] = "store" => alllen[wfd[w]] + Len(wtmp[w]) <= BufSize
  /\ wpc[w] = "count" => alllen[wfd[w]] + Len(wtmp[w]) <= wlen[w]
  /\ wpc[w] = "end"   => alllen[wfd[w]] <= wlen[w]

ServerInv ==
  TypeOK /\ TaskInHand /\ ExclusiveOwner /\ \A w \in Workers : Fits(w)

USE DEF NULL, InService

\* The initial states satisfy the invariant.
LEMMA ServerInit == Init => ServerInv
<1> SUFFICES ASSUME Init PROVE ServerInv
  OBVIOUS
<1>1. TypeOK
  <2>1. alive \in BOOLEAN
    BY Zenon DEF Init
  <2>2. /\ rx \in [Clients -> CellSeqs] /\ got \in [Clients -> Seq(Replies)]
        /\ backlog \in Seq(Clients) /\ queue \in Seq(TaskSet)
        /\ wtmp \in [Workers -> CellSeqs]
    BY EmptySeq DEF Init, CellSeqs
  <2>3. free \in Seq(Handles \cup {NULL})
    BY ChatServerAssumption DEF Init, Handles
  <2>4. buf \in [Fds -> [1..BufSize -> Cells \cup {NUL}]]
    BY DEF Init, Zeros
  <2>5. alllen \in [Fds -> 0..BufSize] /\ wlen \in [Workers -> 0..BufSize]
    BY ChatServerAssumption DEF Init
  <2>6. /\ cstate \in [Clients -> {"new", "open", "fin", "rst", "gone"}]
        /\ next \in [Clients -> [n : Nat, i : Nat]]
        /\ peer \in [Fds -> Clients \cup {NoClient}]
        /\ ep \in [Fds -> {"none", "off", "READ", "WRITE"}]
    BY DEF Init
  <2>7. /\ lpc \in {"wait", "batch", "accept"} /\ batch \subseteq EventSet
        /\ wpc \in [Workers -> Steps] /\ wfd \in [Workers -> Fds \cup {0}]
        /\ wold \in [Workers -> Handles \cup {NULL}]
        /\ wbuf \in [Fds -> Replies \cup {NoReply}]
        /\ msql \in [Fds -> Handles \cup {NULL}]
    BY DEF Init, Steps
  <2> QED
    BY <2>1, <2>2, <2>3, <2>4, <2>5, <2>6, <2>7, Zenon DEF TypeOK
<1>2. TaskInHand
  BY DEF Init, TaskInHand
<1>3. ExclusiveOwner
  <2>1. Len(queue) = 0
    BY EmptySeq DEF Init
  <2>2. /\ \A f \in Fds : ~Armed(f) /\ ~InBatch(f) /\ ~Queued(f) /\ ~Worked(f)
        /\ \A w \in Workers : wpc[w] \notin Hands
        /\ \A f \in Fds : ep[f] = "none"
        /\ batch = {}
    BY <2>1 DEF Init, Armed, InBatch, Queued, Worked, WorkedBy, Hands
  <2> QED
    BY <2>1, <2>2 DEF ExclusiveOwner
<1>4. \A w \in Workers : Fits(w)
  BY DEF Init, Fits
<1> QED
  BY <1>1, <1>2, <1>3, <1>4 DEF ServerInv

\* What the clients do keeps the types.
LEMMA ClientTypes == TypeOK /\ ClientStep => TypeOK'
<1> SUFFICES ASSUME TypeOK, ClientStep PROVE TypeOK'
  OBVIOUS
<1> PICK c \in Clients : Connect(c) \/ Leave(c) \/ \E k \in 1..BufSize : Send(c, k)
  BY Zenon DEF ClientStep
<1>1. alive' \in BOOLEAN
  BY Zenon DEF Connect, Leave, Send, TypeOK
<1>2. CASE Connect(c)
  <2>1. backlog' \in Seq(Clients)
    BY <1>2, AppendProperties DEF TypeOK, Connect
  <2> QED
    BY <1>1, <1>2, <2>1 DEF TypeOK, Connect, clientVars, loopVars, workVars, connVars
<1>3. CASE Leave(c)
  <2>1. <<>> \in CellSeqs
    BY EmptySeq DEF CellSeqs
  <2>2. /\ \/ cstate' = [cstate EXCEPT ![c] = "fin"]
           \/ cstate' = [cstate EXCEPT ![c] = "rst"]
        /\ rx' = rx \/ rx' = [rx EXCEPT ![c] = <<>>]
    BY <1>3, Zenon DEF Leave
  <2>3. cstate' \in [Clients -> {"new", "open", "fin", "rst", "gone"}]
    <3>1. cstate \in [Clients -> {"new", "open", "fin", "rst", "gone"}]
      BY Zenon DEF TypeOK
    <3> QED
      BY <2>2, <3>1
  <2>4. rx' \in [Clients -> CellSeqs]
    <3>1. rx \in [Clients -> CellSeqs]
      BY Zenon DEF TypeOK
    <3> QED
      BY <2>1, <2>2, <3>1
  <2>5. UNCHANGED <<next, got, backlog, peer, ep, loopVars, queue, workVars,
                    connVars, free>>
    BY <1>3, Zenon DEF Leave
  <2> QED
    BY <1>1, <2>3, <2>4, <2>5 DEF TypeOK, loopVars, workVars, connVars
<1>4. ASSUME NEW k \in 1..BufSize, Send(c, k) PROVE TypeOK'
  <2> DEFINE sent == [j \in 1..k |-> Cell(c, next[c].n, next[c].i + j - 1)]
  <2>1. next[c].n \in Nat /\ next[c].i \in Nat /\ k \in Nat
    BY ChatServerAssumption DEF TypeOK
  <2>2. sent \in Seq(Cells)
    <3>1. ASSUME NEW j \in 1..k PROVE Cell(c, next[c].n, next[c].i + j - 1) \in Cells
      <4>1. next[c].i + j - 1 \in Nat
        BY <2>1
      <4> QED
        BY <2>1, <4>1 DEF Cell, Cells
    <3>2. sent \in [1..k -> Cells]
      BY <3>1, Zenon
    <3> HIDE DEF sent
    <3> QED
      BY <2>1, <3>2
  <2>3. rx[c] \o sent \in CellSeqs
    BY <2>2, ConcatProperties DEF TypeOK, CellSeqs
  <2>4. rx' = [rx EXCEPT ![c] = rx[c] \o sent]
    BY <1>4, Zenon DEF Send
  <2>5. rx' \in [Clients -> CellSeqs]
    BY <2>3, <2>4 DEF TypeOK
  <2>6. next' \in [Clients -> [n : Nat, i : Nat]]
    <3>1. \E x \in {[n |-> next[c].n + 1, i |-> 1],
                    [n |-> next[c].n, i |-> next[c].i + k]} : next' = [next EXCEPT ![c] = x]
      BY <1>4, Zenon DEF Send
    <3> QED
      BY <2>1, <3>1 DEF TypeOK
  <2>7. UNCHANGED <<cstate, got, backlog, peer, ep, loopVars, queue, workVars,
                    connVars, free>>
    BY <1>4, Zenon DEF Send
  <2> QED
    BY <1>1, <2>5, <2>6, <2>7 DEF TypeOK, loopVars, workVars, connVars
<1> QED
  BY <1>2, <1>3, <1>4

\* What the event loop does keeps the types.
LEMMA LoopTypes == TypeOK /\ LoopStep => TypeOK'
<1> SUFFICES ASSUME TypeOK, LoopStep PROVE TypeOK'
  OBVIOUS
<1> USE DEF clientVars, loopVars, workVars, connVars
<1>0. alive' \in BOOLEAN
  BY Zenon DEF LoopStep, EpollWait, BeginAccept, AcceptEnd, Accept, Refuse, HangUp,
     Dispatch, TypeOK
<1>1. CASE EpollWait
  <2>1. Events \subseteq EventSet
    BY DEF Events, Event, EventSet, Ready, Listener
  <2>2. ep' \in [Fds -> {"none", "off", "READ", "WRITE"}]
    BY <1>1 DEF TypeOK, EpollWait, Disarm
  <2> QED
    BY <1>0, <1>1, <2>1, <2>2 DEF TypeOK, EpollWait
<1>2. CASE BeginAccept
  BY <1>0, <1>2 DEF TypeOK, BeginAccept, Handled
<1>3. CASE AcceptEnd
  BY <1>0, <1>3 DEF TypeOK, AcceptEnd
<1>4. ASSUME NEW f \in Fds, Accept(f) PROVE TypeOK'
  <2>1. Head(backlog) \in Clients /\ Tail(backlog) \in Seq(Clients)
    BY <1>4, HeadTailProperties DEF TypeOK, Accept, Accepting
  <2> QED
    BY <1>0, <1>4, <2>1 DEF TypeOK, Accept
<1>5. ASSUME NEW f \in Fds, Refuse(f) PROVE TypeOK'
  <2>1. Head(backlog) \in Clients /\ Tail(backlog) \in Seq(Clients)
    BY <1>5, HeadTailProperties DEF TypeOK, Refuse, Accepting
  <2>2. /\ buf' \in [Fds -> [1..BufSize -> Cells \cup {NUL}]]
        /\ alllen' \in [Fds -> 0..BufSize]
        /\ wbuf' \in [Fds -> Replies \cup {NoReply}]
    <3>1. Zeros \in [1..BufSize -> Cells \cup {NUL}] /\ 0 \in 0..BufSize
      BY ChatServerAssumption DEF Zeros
    <3>2. \/ UNCHANGED <<buf, wbuf, alllen>>
          \/ /\ buf' = [buf EXCEPT ![f] = Zeros]
             /\ wbuf' = [wbuf EXCEPT ![f] = NoReply]
             /\ alllen' = [alllen EXCEPT ![f] = 0]
      BY <1>5, Zenon DEF Refuse
    <3> QED
      <4>1. CASE UNCHANGED <<buf, wbuf, alllen>>
        BY <4>1 DEF TypeOK
      <4>2. CASE buf' = [buf EXCEPT ![f] = Zeros]
                 /\ wbuf' = [wbuf EXCEPT ![f] = NoReply]
                 /\ alllen' = [alllen EXCEPT ![f] = 0]
        <5>1. buf' \in [Fds -> [1..BufSize -> Cells \cup {NUL}]]
          BY <3>1, <4>2 DEF TypeOK
        <5>2. alllen' \in [Fds -> 0..BufSize]
          BY <3>1, <4>2 DEF TypeOK
        <5>3. wbuf' \in [Fds -> Replies \cup {NoReply}]
          BY <4>2 DEF TypeOK
        <5> QED
          BY <5>1, <5>2, <5>3
      <4> QED
        BY <3>2, <4>1, <4>2
  <2> QED
    BY <1>0, <1>5, <2>1, <2>2 DEF TypeOK, Refuse
<1>6. ASSUME NEW e \in EventSet, HangUp(e) PROVE TypeOK'
  BY <1>0, <1>6 DEF TypeOK, HangUp
<1>7. ASSUME NEW e \in EventSet, Dispatch(e) PROVE TypeOK'
  <2>1. e \in TaskSet
    BY <1>7 DEF Dispatch, EventSet, TaskSet, Listener
  <2>2. queue' \in Seq(TaskSet)
    BY <1>7, <2>1, AppendProperties DEF TypeOK, Dispatch
  <2> QED
    BY <1>0, <1>7, <2>2 DEF TypeOK, Dispatch, Handled
<1> QED
  BY <1>1, <1>2, <1>3, <1>4, <1>5, <1>6, <1>7, Zenon DEF LoopStep

\* What a worker does keeps the types: a connection's buffer does not overrun
\* because what it read fits.
LEMMA WorkerTypes ==
  ASSUME TypeOK, TaskInHand, ExclusiveOwner, NEW w \in Workers, Fits(w), WorkerStep(w)
  PROVE  TypeOK'
<1> USE DEF clientVars, loopVars, workVars, connVars
<1>0. alive' \in BOOLEAN
  BY Zenon DEF WorkerStep, Take, Guard, Check, ReadCells, ReadNothing, ReadFails,
     Store, Count, Terminate, ParseThrows, Parse, Arm, ClearBuf, ClearLen, Release,
     Write, WriteFails, ClearReply, Rearm, TypeOK
<1> DEFINE f == wfd[w]
<1>a. wpc[w] # "idle" => f \in Fds
  BY DEF TaskInHand
<1>d. wpc[w] \in Hands => f \in Fds /\ peer[f] \in Clients
  BY <1>a DEF Hands, TypeOK, ExclusiveOwner, Worked, WorkedBy
<1>b. BufSize \in Nat \ {0} /\ Zeros \in [1..BufSize -> Cells \cup {NUL}]
  BY ChatServerAssumption DEF Zeros
<1>c. ASSUME NEW mask \in {"READ", "WRITE"}, UpdateEvents(f, mask)
      PROVE  ep' \in [Fds -> {"none", "off", "READ", "WRITE"}]
  BY <1>c DEF TypeOK, UpdateEvents
<1>1. CASE Take(w)
  <2>1. Head(queue) \in TaskSet /\ Tail(queue) \in Seq(TaskSet)
    BY <1>1, HeadTailProperties DEF TypeOK, Take
  <2> QED
    BY <1>0, <1>1, <2>1 DEF TypeOK, Take, Goto, TaskSet, Steps
<1>2. CASE Guard(w)
  <2>1. /\ Head(free) \in Handles \cup {NULL}
        /\ Tail(free) \in Seq(Handles \cup {NULL})
    BY <1>2, HeadTailProperties DEF TypeOK, Guard
  <2>2. f \in Fds
    BY <1>2, <1>a DEF Guard, At
  <2> QED
    BY <1>0, <1>2, <2>1, <2>2 DEF TypeOK, Guard, Goto, Steps
<1>3. CASE Check(w)
  BY <1>0, <1>3 DEF TypeOK, Check, Goto, Steps
<1>4. CASE ReadCells(w)
  <2> DEFINE k == IF Len(Source(w)) < Room(w) THEN Len(Source(w)) ELSE Room(w)
  <2>1. f \in Fds /\ peer[f] \in Clients
    BY <1>4, <1>d DEF ReadCells, At, Hands
  <2>2. Source(w) \in Seq(Cells)
    BY <2>1 DEF TypeOK, Source, CellSeqs
  <2>3. k \in 0..Len(Source(w)) /\ Len(Source(w)) \in Nat
    BY <1>4, <1>b, <2>1, <2>2, LenProperties DEF TypeOK, ReadCells, Room
  <2>4. /\ \A i \in 1..k : Source(w)[i] \in Cells
        /\ \A i \in k + 1..Len(Source(w)) : Source(w)[i] \in Cells
    BY <2>2, <2>3, ElementOfSeq
  <2>5. /\ SubSeq(Source(w), 1, k) \in Seq(Cells)
        /\ SubSeq(Source(w), k + 1, Len(Source(w))) \in Seq(Cells)
    BY <2>3, <2>4, SubSeqProperties
  <2>6. /\ wtmp' = [wtmp EXCEPT ![w] = SubSeq(Source(w), 1, k)]
        /\ rx' = [rx EXCEPT ![peer[f]] = SubSeq(@, k + 1, Len(@))]
    BY <1>4, Zenon DEF ReadCells
  <2>7. wtmp' \in [Workers -> CellSeqs] /\ rx' \in [Clients -> CellSeqs]
    BY <2>1, <2>5, <2>6 DEF TypeOK, CellSeqs, Source
  <2> QED
    BY <1>0, <1>4, <2>7 DEF TypeOK, ReadCells, Goto, Steps
<1>5. CASE ReadNothing(w)
  <2>1. f \in Fds
    BY <1>5, <1>d DEF ReadNothing, At, Hands
  <2>2. alllen' \in [Fds -> 0..BufSize]
    BY <1>5, <1>b, <2>1 DEF TypeOK, ReadNothing
  <2> QED
    BY <1>0, <1>5, <1>b, <2>2 DEF TypeOK, ReadNothing, Goto, Steps
<1>6. CASE ReadFails(w)
  <2>1. wpc' \in [Workers -> Steps]
    BY <1>6 DEF TypeOK, ReadFails, Goto, Steps
  <2> QED
    BY <1>0, <1>6, <2>1 DEF TypeOK, ReadFails
<1>7. CASE Store(w)
  <2> DEFINE a == alllen[f]
             k == Len(wtmp[w])
  <2>1. f \in Fds /\ wpc[w] = "store"
    BY <1>7, <1>d DEF Store, At, Hands
  <2>2. wtmp[w] \in Seq(Cells) /\ a \in 0..BufSize /\ buf[f] \in [1..BufSize -> Cells \cup {NUL}]
    BY <2>1 DEF TypeOK, CellSeqs
  <2>3. k \in Nat /\ a \in Nat /\ a + k \in 0..BufSize
    BY <1>b, <2>1, <2>2, LenProperties DEF Fits
  <2>4. \A j \in a + 1..a + k : wtmp[w][j - a] \in Cells
    <3> SUFFICES ASSUME NEW j \in a + 1..a + k PROVE wtmp[w][j - a] \in Cells
      OBVIOUS
    <3>1. j - a \in 1..k
      BY <2>3
    <3> QED
      BY <2>2, <3>1, ElementOfSeq
  <2>5. [j \in 1..BufSize |-> IF j \in a + 1..a + k THEN wtmp[w][j - a] ELSE buf[f][j]]
          \in [1..BufSize -> Cells \cup {NUL}]
    BY <2>2, <2>4
  <2>6. buf' \in [Fds -> [1..BufSize -> Cells \cup {NUL}]]
    BY <1>7, <2>5, Zenon DEF TypeOK, Store
  <2>7. wlen' \in [Workers -> 0..BufSize]
    BY <1>7, <2>1, <2>3 DEF TypeOK, Store
  <2> QED
    BY <1>0, <1>7, <2>6, <2>7 DEF TypeOK, Store, Goto, Steps
<1>7a. CASE Count(w)
  <2> DEFINE a == alllen[f]
             k == Len(wtmp[w])
  <2>1. f \in Fds /\ wpc[w] = "count"
    BY <1>7a, <1>d DEF Count, At, Hands
  <2>2. wtmp[w] \in Seq(Cells) /\ a \in 0..BufSize /\ wlen[w] \in 0..BufSize
    BY <2>1 DEF TypeOK, CellSeqs
  <2>3. k \in Nat /\ a + k \in 0..BufSize
    BY <1>b, <2>1, <2>2, LenProperties DEF Fits
  <2>4. PICK n \in {a + k, wlen[w]} : /\ alllen' = [alllen EXCEPT ![f] = n]
                                      /\ wlen' = [wlen EXCEPT ![w] = n]
    BY <1>7a, Zenon DEF Count
  <2> HIDE DEF a, k
  <2>5. n \in 0..BufSize
    BY <2>2, <2>3
  <2>6. alllen' \in [Fds -> 0..BufSize] /\ wlen' \in [Workers -> 0..BufSize]
    BY <2>4, <2>5 DEF TypeOK
  <2>7. wtmp' \in [Workers -> CellSeqs]
    BY <1>7a, EmptySeq DEF TypeOK, Count, CellSeqs
  <2> QED
    BY <1>0, <1>7a, <2>6, <2>7 DEF TypeOK, Count, Goto, Steps
<1>7b. CASE Terminate(w)
  <2>1. f \in Fds
    BY <1>7b, <1>d DEF Terminate, At, Hands
  <2>2. PICK p \in {alllen[f], wlen[w]} :
          /\ buf' = [buf EXCEPT ![f] =
                       [j \in 1..BufSize |-> IF j = p + 1 THEN NUL ELSE buf[f][j]]]
          /\ wbuf' = IF p < BufSize THEN wbuf ELSE [wbuf EXCEPT ![f] = NoReply]
    BY <1>7b, Zenon DEF Terminate
  <2>3. [j \in 1..BufSize |-> IF j = p + 1 THEN NUL ELSE buf[f][j]]
          \in [1..BufSize -> Cells \cup {NUL}]
    <3> DEFINE b == buf[f]
    <3>1. b \in [1..BufSize -> Cells \cup {NUL}]
      BY <2>1 DEF TypeOK
    <3> HIDE DEF b
    <3>2. [j \in 1..BufSize |-> IF j = p + 1 THEN NUL ELSE b[j]]
            \in [1..BufSize -> Cells \cup {NUL}]
      BY <3>1
    <3> QED
      BY <3>2 DEF b
  <2>4. /\ buf' \in [Fds -> [1..BufSize -> Cells \cup {NUL}]]
        /\ wbuf' \in [Fds -> Replies \cup {NoReply}]
    <3> DEFINE b == [j \in 1..BufSize |-> IF j = p + 1 THEN NUL ELSE buf[f][j]]
    <3>1. b \in [1..BufSize -> Cells \cup {NUL}] /\ buf' = [buf EXCEPT ![f] = b]
      BY <2>2, <2>3
    <3>2. wbuf' = wbuf \/ wbuf' = [wbuf EXCEPT ![f] = NoReply]
      BY <2>2
    <3> HIDE DEF b
    <3> QED
      BY <3>1, <3>2 DEF TypeOK
  <2>5. wlen' \in [Workers -> 0..BufSize]
    BY <1>7b, <1>b DEF TypeOK, Terminate
  <2> QED
    BY <1>0, <1>7b, <2>4, <2>5 DEF TypeOK, Terminate, Goto, Steps
<1>8. CASE ParseThrows(w)
  BY <1>0, <1>8 DEF TypeOK, ParseThrows
<1>9. CASE Parse(w)
  <2> DEFINE b == buf[f]
  <2>1. f \in Fds
    BY <1>9, <1>d DEF Parse, At, Hands
  <2>2. b[1] \in Cells
    <3>1. 1 \in 1..BufSize
      BY <1>b
    <3>2. b[1] # NUL
      BY <1>9, Zenon DEF Parse, IsRequest
    <3>3. b \in [1..BufSize -> Cells \cup {NUL}]
      BY <2>1 DEF TypeOK
    <3> HIDE DEF b
    <3> QED
      BY <3>1, <3>2, <3>3
  <2>3. Reply(b[1].c, b[1].n) \in Replies
    BY <2>2 DEF Cells, Replies, Reply
  <2>4. wbuf' \in [Fds -> Replies \cup {NoReply}]
    <3>1. wbuf' = wbuf \/ wbuf' = [wbuf EXCEPT ![f] = Reply(b[1].c, b[1].n)]
      BY <1>9, Zenon DEF Parse
    <3> QED
      BY <2>3, <3>1 DEF TypeOK
  <2>5. wpc' \in [Workers -> Steps]
    BY <1>9 DEF TypeOK, Parse, Goto, Steps
  <2> QED
    BY <1>0, <1>9, <2>4, <2>5 DEF TypeOK, Parse
<1>10. CASE Arm(w)
  <2>1. ep' \in [Fds -> {"none", "off", "READ", "WRITE"}]
    BY <1>10, <1>c DEF Arm
  <2> QED
    BY <1>0, <1>10, <2>1 DEF TypeOK, Arm, Goto, Steps
<1>11. CASE ClearBuf(w)
  BY <1>0, <1>11, <1>b DEF TypeOK, ClearBuf, Goto, Steps
<1>12. CASE ClearLen(w)
  <2>1. alllen' \in [Fds -> 0..BufSize]
    <3>1. 0 \in 0..BufSize /\ alllen' = [alllen EXCEPT ![f] = 0]
      BY <1>12, <1>b DEF ClearLen
    <3> QED
      BY <3>1 DEF TypeOK
  <2> QED
    BY <1>0, <1>12, <2>1 DEF TypeOK, ClearLen, Goto, Steps
<1>13. CASE Release(w)
  <2>1. free' \in Seq(Handles \cup {NULL})
    BY <1>13, AppendProperties DEF TypeOK, Release, Returned
  <2> QED
    BY <1>0, <1>13, <2>1 DEF TypeOK, Release, Goto, Steps
<1>14. CASE Write(w)
  <2>1. f \in Fds /\ peer[f] \in Clients
    BY <1>14, <1>d DEF Write, At, Hands
  <2>2. got' \in [Clients -> Seq(Replies)]
    <3>1. CASE wbuf[f] # NoReply
      <4>1. Append(got[peer[f]], wbuf[f]) \in Seq(Replies)
        BY <2>1, <3>1, AppendProperties DEF TypeOK
      <4>2. got' = got \/ got' = [got EXCEPT ![peer[f]] = Append(got[peer[f]], wbuf[f])]
        BY <1>14, Zenon DEF Write
      <4> QED
        BY <4>1, <4>2 DEF TypeOK
    <3>2. CASE wbuf[f] = NoReply
      BY <1>14, <3>2 DEF TypeOK, Write
    <3> QED
      BY <3>1, <3>2
  <2>3. /\ cstate' \in [Clients -> {"new", "open", "fin", "rst", "gone"}]
        /\ rx' \in [Clients -> CellSeqs]
    <3>1. \/ cstate' = cstate /\ rx' = rx
          \/ /\ cstate' = [cstate EXCEPT ![peer[f]] = "rst"]
             /\ rx' = [rx EXCEPT ![peer[f]] = <<>>]
      BY <1>14, Zenon DEF Write
    <3>2. <<>> \in CellSeqs
      BY EmptySeq DEF CellSeqs
    <3>3. cstate' \in [Clients -> {"new", "open", "fin", "rst", "gone"}]
      BY <3>1 DEF TypeOK
    <3>4. rx' \in [Clients -> CellSeqs]
      BY <3>1, <3>2 DEF TypeOK
    <3> QED
      BY <3>3, <3>4
  <2> QED
    BY <1>0, <1>14, <2>2, <2>3 DEF TypeOK, Write, Goto, Steps
<1>15. CASE WriteFails(w)
  <2>1. wpc' \in [Workers -> Steps] /\ wfd' \in [Workers -> Fds \cup {0}]
    BY <1>15 DEF TypeOK, WriteFails, Goto, Steps
  <2> QED
    BY <1>0, <1>15, <2>1 DEF TypeOK, WriteFails
<1>16. CASE ClearReply(w)
  BY <1>0, <1>16 DEF TypeOK, ClearReply, Goto, Steps
<1>17. CASE Rearm(w)
  <2>1. ep' \in [Fds -> {"none", "off", "READ", "WRITE"}]
    BY <1>17, <1>c DEF Rearm
  <2> QED
    BY <1>0, <1>17, <2>1 DEF TypeOK, Rearm, Goto, Steps
<1> QED
  BY <1>1, <1>2, <1>3, <1>4, <1>5, <1>6, <1>7, <1>7a, <1>7b, <1>8, <1>9, <1>10, <1>11,
     <1>12, <1>13, <1>14, <1>15, <1>16, <1>17, Zenon DEF WorkerStep

\* A step that takes connections out of hands, or off epoll, and puts none
\* anywhere keeps the owner exclusive.
LEMMA OwnerKept ==
  ASSUME ExclusiveOwner, UNCHANGED <<peer, queue>>, batch' \subseteq batch,
         \A f \in Fds : ep'[f] \in {ep[f], "none"},
         \A v \in Workers : wpc'[v] \in Hands => wpc[v] \in Hands /\ wfd'[v] = wfd[v]
  PROVE  ExclusiveOwner'
<1>1. \A f \in Fds : /\ Armed(f)' => Armed(f)
                     /\ InBatch(f)' => InBatch(f)
                     /\ Queued(f)' <=> Queued(f)
                     /\ Worked(f)' => Worked(f)
  BY DEF Armed, InBatch, Queued, Worked, WorkedBy
<1>2. \A f \in Fds :
        /\ Armed(f)' => ~InBatch(f)' /\ ~Queued(f)' /\ ~Worked(f)'
        /\ InBatch(f)' => ~Queued(f)' /\ ~Worked(f)'
        /\ Queued(f)' => ~Worked(f)'
        /\ Armed(f)' \/ InBatch(f)' \/ Queued(f)' \/ Worked(f)' => peer'[f] # NoClient
        /\ peer'[f] = NoClient => ep'[f] = "none"
  BY <1>1 DEF ExclusiveOwner
<1>3. /\ \A d, e \in batch' : d.fd = e.fd => d = e
      /\ \A i, j \in 1..Len(queue') : queue'[i].fd = queue'[j].fd => i = j
  BY DEF ExclusiveOwner
<1>4. \A v, w \in Workers :
        wpc'[v] \in Hands /\ wpc'[w] \in Hands /\ wfd'[v] = wfd'[w] => v = w
  BY DEF ExclusiveOwner
<1> QED
  BY <1>2, <1>3, <1>4 DEF ExclusiveOwner

\* A worker that re-arms its connection, and lets go of it, hands it over.
LEMMA OwnerRearms ==
  ASSUME TypeOK, ExclusiveOwner, NEW w \in Workers, wpc[w] \in Hands, wfd[w] \in Fds,
         NEW mask \in {"READ", "WRITE"}, UpdateEvents(wfd[w], mask),
         UNCHANGED <<peer, batch, queue>>, wpc'[w] \notin Hands,
         \A v \in Workers \ {w} : wpc'[v] = wpc[v] /\ wfd'[v] = wfd[v]
  PROVE  ExclusiveOwner'
<1> PICK g \in Fds : g = wfd[w]
  OBVIOUS
<1>1. Worked(g) /\ WorkedBy(w, g)
  BY DEF Worked, WorkedBy
<1>2. ~InBatch(g) /\ ~Queued(g) /\ peer[g] # NoClient
  BY <1>1 DEF ExclusiveOwner
<1>3. ~Worked(g)'
  <2> SUFFICES ASSUME NEW v \in Workers, wpc'[v] \in Hands, wfd'[v] = g PROVE FALSE
    BY DEF Worked, WorkedBy
  <2>1. v # w /\ wpc[v] \in Hands /\ wfd[v] = wfd[w]
    OBVIOUS
  <2> QED
    BY <2>1 DEF ExclusiveOwner
<1>4. \A f \in Fds : /\ f # g => ep'[f] = ep[f]
                     /\ f # g => (Armed(f)' <=> Armed(f))
                     /\ InBatch(f)' <=> InBatch(f)
                     /\ Queued(f)' <=> Queued(f)
                     /\ Worked(f)' => Worked(f)
  BY DEF Armed, InBatch, Queued, Worked, WorkedBy, UpdateEvents, TypeOK
<1>5. \A f \in Fds :
        /\ Armed(f)' => ~InBatch(f)' /\ ~Queued(f)' /\ ~Worked(f)'
        /\ InBatch(f)' => ~Queued(f)' /\ ~Worked(f)'
        /\ Queued(f)' => ~Worked(f)'
        /\ Armed(f)' \/ InBatch(f)' \/ Queued(f)' \/ Worked(f)' => peer'[f] # NoClient
        /\ peer'[f] = NoClient => ep'[f] = "none"
  <2> SUFFICES ASSUME NEW f \in Fds
               PROVE  /\ Armed(f)' => ~InBatch(f)' /\ ~Queued(f)' /\ ~Worked(f)'
                      /\ InBatch(f)' => ~Queued(f)' /\ ~Worked(f)'
                      /\ Queued(f)' => ~Worked(f)'
                      /\ Armed(f)' \/ InBatch(f)' \/ Queued(f)' \/ Worked(f)'
                           => peer'[f] # NoClient
                      /\ peer'[f] = NoClient => ep'[f] = "none"
    OBVIOUS
  <2>1. CASE f = g
    BY <1>2, <1>3, <1>4, <2>1
  <2>2. CASE f # g
    BY <1>4, <2>2 DEF ExclusiveOwner
  <2> QED
    BY <2>1, <2>2
<1>6. /\ \A d, e \in batch' : d.fd = e.fd => d = e
      /\ \A i, j \in 1..Len(queue') : queue'[i].fd = queue'[j].fd => i = j
  BY DEF ExclusiveOwner
<1>7. \A u, v \in Workers :
        wpc'[u] \in Hands /\ wpc'[v] \in Hands /\ wfd'[u] = wfd'[v] => u = v
  BY DEF ExclusiveOwner
<1> QED
  BY <1>5, <1>6, <1>7 DEF ExclusiveOwner

\* The event loop keeps the owner exclusive: what epoll_wait reports is
\* disarmed, a descriptor it accepts or closes is in nobody else's hands.
LEMMA LoopOwner == TypeOK /\ ExclusiveOwner /\ LoopStep => ExclusiveOwner'
<1> SUFFICES ASSUME TypeOK, ExclusiveOwner, LoopStep PROVE ExclusiveOwner'
  OBVIOUS
<1> USE DEF clientVars, loopVars, workVars, connVars
<1>1. CASE EpollWait
  <2>1. \A e \in batch' : e.fd = 0 \/ e.fd \in Ready
    BY <1>1 DEF EpollWait, Events, Event, Listener
  <2>2. \A f \in Ready : f \in Fds /\ Armed(f)
    BY DEF Ready, Armed
  <2>3. \A f \in Fds : /\ f \notin Ready => ep'[f] = ep[f]
                       /\ f \in Ready => ep'[f] = "off"
    BY <1>1 DEF EpollWait, Disarm
  <2>4. \A f \in Fds : f # 0
    BY DEF Fds
  <2>5. \A f \in Fds : /\ InBatch(f)' => Armed(f)
                       /\ Armed(f)' => Armed(f) /\ f \notin Ready
                       /\ InBatch(f)' => f \in Ready
                       /\ Queued(f)' <=> Queued(f)
                       /\ Worked(f)' <=> Worked(f)
    BY <1>1, <2>1, <2>2, <2>3, <2>4
    DEF EpollWait, InBatch, Armed, Queued, Worked, WorkedBy
  <2>6. UNCHANGED <<peer, queue, wpc, wfd>>
    BY <1>1 DEF EpollWait
  <2>7. \A f \in Fds :
          /\ Armed(f)' => ~InBatch(f)' /\ ~Queued(f)' /\ ~Worked(f)'
          /\ InBatch(f)' => ~Queued(f)' /\ ~Worked(f)'
          /\ Queued(f)' => ~Worked(f)'
          /\ Armed(f)' \/ InBatch(f)' \/ Queued(f)' \/ Worked(f)' => peer'[f] # NoClient
          /\ peer'[f] = NoClient => ep'[f] = "none"
    BY <2>2, <2>3, <2>5, <2>6 DEF ExclusiveOwner
  <2>8. \A d, e \in batch' : d.fd = e.fd => d = e
    BY <1>1, <2>2, <2>4 DEF EpollWait, Events, Event, Listener
  <2>9. /\ \A i, j \in 1..Len(queue') : queue'[i].fd = queue'[j].fd => i = j
        /\ \A v, w \in Workers :
             wpc'[v] \in Hands /\ wpc'[w] \in Hands /\ wfd'[v] = wfd'[w] => v = w
    BY <2>6 DEF ExclusiveOwner
  <2> QED
    BY <2>7, <2>8, <2>9 DEF ExclusiveOwner
<1>2. CASE BeginAccept
  BY <1>2, OwnerKept DEF BeginAccept, Handled
<1>3. CASE AcceptEnd
  BY <1>3, OwnerKept DEF AcceptEnd
<1>4. ASSUME NEW g \in Fds, Accept(g) PROVE ExclusiveOwner'
  <2>1. peer[g] = NoClient
    BY <1>4 DEF Accept, Accepting, FreeFds
  <2>2. ~InBatch(g) /\ ~Queued(g) /\ ~Worked(g)
    BY <2>1 DEF ExclusiveOwner
  <2>3. peer'[g] # NoClient
    <3>1. Head(backlog) \in Clients
      BY <1>4, HeadTailProperties DEF Accept, Accepting, TypeOK
    <3> QED
      BY <1>4, <3>1, ChatServerAssumption DEF Accept, TypeOK
  <2>4. UNCHANGED <<batch, queue, wpc, wfd>>
    BY <1>4 DEF Accept
  <2>5. \A f \in Fds : /\ f # g => ep'[f] = ep[f] /\ peer'[f] = peer[f]
                       /\ f # g => (Armed(f)' <=> Armed(f))
                       /\ InBatch(f)' <=> InBatch(f)
                       /\ Queued(f)' <=> Queued(f)
                       /\ Worked(f)' <=> Worked(f)
    BY <1>4, <2>4 DEF Accept, TypeOK, Armed, InBatch, Queued, Worked, WorkedBy
  <2> QED
    BY <2>2, <2>3, <2>4, <2>5 DEF ExclusiveOwner
<1>5. ASSUME NEW g \in Fds, Refuse(g) PROVE ExclusiveOwner'
  BY <1>5, OwnerKept DEF Refuse
<1>6. ASSUME NEW e \in EventSet, HangUp(e) PROVE ExclusiveOwner'
  <2> DEFINE g == e.fd
  <2>1. g \in Fds /\ InBatch(g)
    BY <1>6 DEF HangUp, EventSet, Listener, InBatch
  <2>2. ~Queued(g) /\ ~Worked(g)
    BY <2>1 DEF ExclusiveOwner
  <2>3. UNCHANGED <<queue, wpc, wfd>> /\ batch' = {}
    BY <1>6 DEF HangUp
  <2>4. ep'[g] = "none" /\ peer'[g] = NoClient
    BY <1>6, <2>1 DEF HangUp, TypeOK
  <2>5. \A f \in Fds : /\ f # g => ep'[f] = ep[f] /\ peer'[f] = peer[f]
                       /\ Armed(f)' => Armed(f) /\ f # g
                       /\ ~InBatch(f)'
                       /\ Queued(f)' <=> Queued(f)
                       /\ Worked(f)' <=> Worked(f)
    BY <1>6, <2>3, <2>4 DEF HangUp, TypeOK, Armed, InBatch, Queued, Worked, WorkedBy
  <2> QED
    BY <2>2, <2>3, <2>4, <2>5 DEF ExclusiveOwner
<1>7. ASSUME NEW e \in EventSet, Dispatch(e) PROVE ExclusiveOwner'
  <2>1. e \in TaskSet /\ e \in batch /\ e.fd \in Fds
    BY <1>7 DEF Dispatch, EventSet, TaskSet, Listener
  <2>2. UNCHANGED <<peer, ep, wpc, wfd>> /\ batch' = batch \ {e}
    BY <1>7 DEF Dispatch, Handled
  <2>3. CASE queue' = queue
    BY <2>2, <2>3, OwnerKept
  <2>4. CASE queue' = Append(queue, e)
    <3>1. Len(queue) \in Nat
      BY LenProperties DEF TypeOK
    <3>2. /\ Len(queue') = Len(queue) + 1
          /\ \A i \in 1..Len(queue) : queue'[i] = queue[i]
          /\ queue'[Len(queue) + 1] = e
      BY <2>1, <2>4, AppendProperties DEF TypeOK
    <3>3. InBatch(e.fd) /\ ~Queued(e.fd) /\ ~Worked(e.fd) /\ ~Armed(e.fd)
      BY <2>1 DEF ExclusiveOwner, InBatch
    <3>4. \A f \in Fds : /\ Armed(f)' <=> Armed(f)
                         /\ InBatch(f)' => InBatch(f) /\ f # e.fd
                         /\ Queued(f)' => Queued(f) \/ f = e.fd
                         /\ Worked(f)' <=> Worked(f)
      <4>1. \A f \in Fds : InBatch(f)' => InBatch(f) /\ f # e.fd
        BY <2>1, <2>2 DEF InBatch, ExclusiveOwner
      <4>2. \A f \in Fds : Queued(f)' => Queued(f) \/ f = e.fd
        <5> SUFFICES ASSUME NEW f \in Fds, NEW i \in 1..Len(queue'), queue'[i].fd = f
                     PROVE  Queued(f) \/ f = e.fd
          BY DEF Queued
        <5>1. i \in 1..Len(queue) \/ i = Len(queue) + 1
          BY <3>1, <3>2
        <5> QED
          BY <3>2, <5>1 DEF Queued
      <4> QED
        BY <2>2, <4>1, <4>2 DEF Armed, Worked, WorkedBy
    <3>5. \A f \in Fds :
            /\ Armed(f)' => ~InBatch(f)' /\ ~Queued(f)' /\ ~Worked(f)'
            /\ InBatch(f)' => ~Queued(f)' /\ ~Worked(f)'
            /\ Queued(f)' => ~Worked(f)'
            /\ Armed(f)' \/ InBatch(f)' \/ Queued(f)' \/ Worked(f)' => peer'[f] # NoClient
            /\ peer'[f] = NoClient => ep'[f] = "none"
      BY <2>2, <3>3, <3>4 DEF ExclusiveOwner
    <3>6. \A i, j \in 1..Len(queue') : queue'[i].fd = queue'[j].fd => i = j
      <4>1. \A i \in 1..Len(queue) : queue[i].fd # e.fd
        BY <3>3 DEF Queued
      <4>2. \A i \in 1..Len(queue') : i \in 1..Len(queue) \/ i = Len(queue) + 1
        BY <3>1, <3>2
      <4> QED
        BY <3>2, <4>1, <4>2 DEF ExclusiveOwner
    <3>7. /\ \A d, b \in batch' : d.fd = b.fd => d = b
          /\ \A v, w \in Workers :
               wpc'[v] \in Hands /\ wpc'[w] \in Hands /\ wfd'[v] = wfd'[w] => v = w
      BY <2>2 DEF ExclusiveOwner
    <3> QED
      BY <3>5, <3>6, <3>7 DEF ExclusiveOwner
  <2> QED
    BY <1>7, <2>3, <2>4 DEF Dispatch
<1> QED
  BY <1>1, <1>2, <1>3, <1>4, <1>5, <1>6, <1>7, Zenon DEF LoopStep

\* A worker keeps the owner exclusive: it takes the only task there is for a
\* connection, and holds it until its last step re-arms or forgets it.
LEMMA WorkerOwner ==
  ASSUME TypeOK, TaskInHand, ExclusiveOwner, NEW w \in Workers, WorkerStep(w)
  PROVE  ExclusiveOwner'
<1> USE DEF clientVars, loopVars, workVars, connVars
<1>1. CASE Take(w)
  <2>0. Head(queue) \in TaskSet
    BY <1>1, HeadTailProperties DEF Take, TypeOK
  <2> PICK g \in Fds : g = Head(queue).fd
    BY <2>0 DEF TaskSet
  <2>1. /\ Len(queue) \in Nat \ {0} /\ queue[1].fd = g
        /\ Len(queue') = Len(queue) - 1
        /\ \A i \in 1..Len(queue') : queue'[i] = queue[i + 1]
    BY <1>1, HeadTailProperties, EmptySeq DEF Take, TypeOK
  <2>2. \A i \in 1..Len(queue') : i + 1 \in 1..Len(queue) /\ i + 1 # 1
    BY <2>1
  <2>3. Queued(g)
    BY <2>1 DEF Queued
  <2>4. /\ UNCHANGED <<peer, ep, batch>>
        /\ wfd'[w] = g
        /\ \A v \in Workers \ {w} : wfd'[v] = wfd[v] /\ wpc'[v] = wpc[v]
    BY <1>1 DEF Take, TypeOK, Goto
  <2>5. \A f \in Fds : Queued(f)' => Queued(f) /\ f # g
    <3> SUFFICES ASSUME NEW f \in Fds, NEW i \in 1..Len(queue'), queue'[i].fd = f
                 PROVE  Queued(f) /\ f # g
      BY DEF Queued
    <3>1. queue[i + 1].fd = f /\ i + 1 \in 1..Len(queue) /\ i + 1 # 1 /\ 1 \in 1..Len(queue)
      BY <2>1, <2>2
    <3> QED
      BY <2>1, <3>1 DEF Queued, ExclusiveOwner
  <2>6. \A f \in Fds : /\ Armed(f)' <=> Armed(f)
                       /\ InBatch(f)' <=> InBatch(f)
                       /\ Worked(f)' => Worked(f) \/ f = g
    BY <2>4 DEF Armed, InBatch, Worked, WorkedBy
  <2>7. \A f \in Fds :
          /\ Armed(f)' => ~InBatch(f)' /\ ~Queued(f)' /\ ~Worked(f)'
          /\ InBatch(f)' => ~Queued(f)' /\ ~Worked(f)'
          /\ Queued(f)' => ~Worked(f)'
          /\ Armed(f)' \/ InBatch(f)' \/ Queued(f)' \/ Worked(f)' => peer'[f] # NoClient
          /\ peer'[f] = NoClient => ep'[f] = "none"
    BY <2>3, <2>4, <2>5, <2>6 DEF ExclusiveOwner
  <2>8. \A i, j \in 1..Len(queue') : queue'[i].fd = queue'[j].fd => i = j
    <3> SUFFICES ASSUME NEW i \in 1..Len(queue'), NEW j \in 1..Len(queue'),
                        queue'[i].fd = queue'[j].fd
                 PROVE  i = j
      OBVIOUS
    <3>1. i + 1 = j + 1
      BY <2>1, <2>2 DEF ExclusiveOwner
    <3> QED
      BY <3>1
  <2>9. \A d, e \in batch' : d.fd = e.fd => d = e
    BY <2>4 DEF ExclusiveOwner
  <2>10. \A u, v \in Workers :
           wpc'[u] \in Hands /\ wpc'[v] \in Hands /\ wfd'[u] = wfd'[v] => u = v
    <3>1. \A v \in Workers : wpc[v] \in Hands => wfd[v] # g
      BY <2>3 DEF ExclusiveOwner, Worked, WorkedBy
    <3> QED
      BY <2>4, <3>1 DEF ExclusiveOwner
  <2> QED
    BY <2>7, <2>8, <2>9, <2>10 DEF ExclusiveOwner
<1>2. CASE Guard(w) \/ Check(w) \/ ReadCells(w) \/ ReadFails(w) \/ Parse(w)
  BY <1>2, OwnerKept DEF Guard, Check, ReadCells, ReadFails, Parse, At, Goto,
     Hands, TypeOK
<1>2a. CASE Store(w) \/ Count(w) \/ Terminate(w)
  BY <1>2a, OwnerKept DEF Store, Count, Terminate, At, Goto, Hands, TypeOK
<1>3. CASE ParseThrows(w)
  BY <1>3, OwnerKept DEF ParseThrows
<1>4. CASE ReadNothing(w)
  BY <1>4, OwnerKept DEF ReadNothing, At, Goto, Hands, TypeOK
<1>5. CASE ClearBuf(w) \/ ClearLen(w) \/ Release(w)
  BY <1>5, OwnerKept DEF ClearBuf, ClearLen, Release, At, Goto, Hands, TypeOK
<1>6. CASE Write(w) \/ ClearReply(w)
  BY <1>6, OwnerKept DEF Write, ClearReply, At, Goto, Hands, TypeOK
<1>7. CASE WriteFails(w)
  <2>1. \A v \in Workers : wpc'[v] \in Hands => wpc[v] \in Hands /\ wfd'[v] = wfd[v]
    BY <1>7 DEF WriteFails, Goto, Hands, TypeOK
  <2> QED
    BY <1>7, <2>1, OwnerKept DEF WriteFails
<1>8. CASE Arm(w)
  <2>1. wpc[w] \in Hands /\ wpc'[w] \notin Hands /\ wfd[w] \in Fds
    BY <1>8 DEF Arm, At, Goto, Hands, TypeOK, TaskInHand
  <2> QED
    BY <1>8, <2>1, OwnerRearms DEF Arm, Goto, TypeOK
<1>9. CASE Rearm(w)
  <2>1. wpc[w] \in Hands /\ wpc'[w] \notin Hands /\ wfd[w] \in Fds
    BY <1>9 DEF Rearm, At, Goto, Hands, TypeOK, TaskInHand
  <2> QED
    BY <1>9, <2>1, OwnerRearms DEF Rearm, Goto, TypeOK
<1> QED
  BY <1>1, <1>2, <1>2a, <1>3, <1>4, <1>5, <1>6, <1>7, <1>8, <1>9, Zenon DEF WorkerStep

\* A worker that is not idle has a connection after every worker step.
LEMMA TaskStep ==
  ASSUME TypeOK, TaskInHand, NEW w \in Workers, WorkerStep(w)
  PROVE  TaskInHand'
<1>1. CASE Take(w)
  <2>1. Head(queue) \in TaskSet
    BY <1>1, HeadTailProperties DEF Take, TypeOK
  <2>2. Head(queue).fd \in Fds
    BY <2>1 DEF TaskSet
  <2> QED
    BY <1>1, <2>2 DEF Take, Goto, TypeOK, TaskInHand
<1>2. CASE Guard(w) \/ Check(w) \/ ReadCells(w) \/ ReadNothing(w) \/ ReadFails(w)
           \/ Store(w) \/ Count(w) \/ Terminate(w) \/ ParseThrows(w) \/ Parse(w)
           \/ Arm(w) \/ ClearBuf(w) \/ ClearLen(w) \/ Write(w) \/ ClearReply(w)
  <2>1. wfd' = wfd /\ \A v \in Workers : wpc'[v] # "idle" => wpc[v] # "idle"
    BY <1>2 DEF Guard, Check, ReadCells, ReadNothing, ReadFails, Store, Count,
       Terminate, ParseThrows, Parse, Arm, ClearBuf, ClearLen, Write, ClearReply,
       At, Goto, TypeOK, workVars
  <2> QED
    BY <2>1 DEF TaskInHand
<1>3. CASE Release(w) \/ WriteFails(w) \/ Rearm(w)
  <2>1. \A v \in Workers : wpc'[v] # "idle" => wpc[v] # "idle" /\ wfd'[v] = wfd[v]
    BY <1>3 DEF Release, WriteFails, Rearm, Goto, TypeOK
  <2> QED
    BY <2>1 DEF TaskInHand
<1> QED
  BY <1>1, <1>2, <1>3, Zenon DEF WorkerStep

\* What worker v fetched still fits while the others only empty its buffer.
LEMMA FitsKept ==
  ASSUME TypeOK, TaskInHand, NEW v \in Workers, Fits(v),
         wpc'[v] \in {"store", "count", "end"} =>
           /\ wpc'[v] = wpc[v] /\ wfd'[v] = wfd[v]
           /\ wtmp'[v] = wtmp[v] /\ wlen'[v] = wlen[v]
           /\ alllen'[wfd[v]] \in {alllen[wfd[v]], 0}
  PROVE  Fits(v)'
<1> SUFFICES ASSUME wpc'[v] \in {"store", "count", "end"} PROVE Fits(v)'
  BY DEF Fits
<1> DEFINE old == alllen[wfd[v]]
           len == Len(wtmp[v])
<1>1. wpc[v] \in {"store", "count", "end"} /\ wfd[v] \in Fds
  BY DEF TaskInHand
<1>2. len \in Nat /\ old \in 0..BufSize /\ BufSize \in Nat /\ wlen[v] \in 0..BufSize
  BY <1>1, LenProperties, ChatServerAssumption DEF TypeOK, CellSeqs
<1>3. /\ wpc[v] = "store" => old + len <= BufSize
      /\ wpc[v] = "count" => old + len <= wlen[v]
      /\ wpc[v] = "end"   => old <= wlen[v]
  BY DEF Fits
<1>4. /\ wpc'[v] = wpc[v] /\ wfd'[v] = wfd[v] /\ wtmp'[v] = wtmp[v] /\ wlen'[v] = wlen[v]
      /\ alllen'[wfd'[v]] = old \/ alllen'[wfd'[v]] = 0
  OBVIOUS
<1> HIDE DEF old
<1> HIDE DEF len
<1>5. ASSUME NEW m, m = old \/ m = 0
      PROVE  /\ wpc[v] = "store" => m + len <= BufSize
             /\ wpc[v] = "count" => m + len <= wlen[v]
             /\ wpc[v] = "end"   => m <= wlen[v]
  <2>1. m \in Nat /\ m <= old
    BY <1>2, <1>5
  <2> QED
    BY <1>2, <1>3, <2>1
<1>6. Len(wtmp'[v]) = len
  BY <1>4 DEF len
<1> QED
  BY <1>4, <1>5, <1>6 DEF Fits

\* A worker fetches no more than fits, and alone adds to its buffer.
LEMMA FitsStep ==
  ASSUME TypeOK, TaskInHand, ExclusiveOwner, \A v \in Workers : Fits(v),
         NEW w \in Workers, WorkerStep(w)
  PROVE  \A v \in Workers : Fits(v)'
<1> USE DEF clientVars, loopVars, workVars, connVars
<1> DEFINE Storing == {"store", "count", "end"}
<1>0. ASSUME wpc[w] \in Storing, \A f \in Fds : f # wfd[w] => alllen'[f] = alllen[f],
             wfd' = wfd,
             \A v \in Workers \ {w} : /\ wpc'[v] = wpc[v] /\ wtmp'[v] = wtmp[v]
                                      /\ wlen'[v] = wlen[v]
      PROVE  \A v \in Workers \ {w} : Fits(v)'
  <2> SUFFICES ASSUME NEW v \in Workers \ {w} PROVE Fits(v)'
    OBVIOUS
  <2>1. wpc[v] \in Storing => wfd[v] \in Fds /\ wfd[v] # wfd[w]
    BY <1>0 DEF ExclusiveOwner, Hands, TaskInHand
  <2> QED
    BY <1>0, <2>1, FitsKept
<1>1. CASE ReadCells(w)
  <2> DEFINE k == IF Len(Source(w)) < Room(w) THEN Len(Source(w)) ELSE Room(w)
  <2>1. wpc[w] = "read" /\ wfd[w] \in Fds /\ peer[wfd[w]] \in Clients
    BY <1>1 DEF ReadCells, At, TaskInHand, TypeOK, ExclusiveOwner, Worked, WorkedBy, Hands
  <2>2. Source(w) \in Seq(Cells)
    BY <2>1 DEF TypeOK, Source, CellSeqs
  <2>3. alllen[wfd[w]] \in 0..BufSize /\ Len(Source(w)) \in Nat
    BY <2>1, <2>2, LenProperties DEF TypeOK
  <2>4. k \in 0..Len(Source(w)) /\ k <= Room(w) /\ Room(w) \in Nat
    BY <1>1, <2>3, ChatServerAssumption DEF ReadCells, Room
  <2>5. \A i \in 1..k : Source(w)[i] \in Cells
    BY <2>2, <2>3, <2>4, ElementOfSeq
  <2>6. Len(SubSeq(Source(w), 1, k)) = k
    BY <2>4, <2>5, SubSeqProperties
  <2>7. /\ wtmp' = [wtmp EXCEPT ![w] = SubSeq(Source(w), 1, k)]
        /\ UNCHANGED <<wfd, wlen, alllen>>
    BY <1>1, Zenon DEF ReadCells
  <2>8. wpc'[w] = "store" /\ \A v \in Workers \ {w} : wpc'[v] = wpc[v]
    BY <1>1 DEF ReadCells, Goto, TypeOK
  <2>9. Len(wtmp'[w]) = k
    BY <2>6, <2>7 DEF TypeOK
  <2>10. alllen'[wfd'[w]] + Len(wtmp'[w]) <= BufSize
    BY <2>3, <2>4, <2>7, <2>9, ChatServerAssumption DEF Room
  <2>11. \A v \in Workers \ {w} : wtmp'[v] = wtmp[v]
    BY <2>7 DEF TypeOK
  <2>12. \A v \in Workers \ {w} : Fits(v)'
    BY <2>7, <2>8, <2>11 DEF Fits
  <2>13. Fits(w)'
    BY <2>8, <2>10 DEF Fits
  <2> QED
    BY <2>12, <2>13
<1>2. CASE Store(w)
  <2> DEFINE n == alllen[wfd[w]] + Len(wtmp[w])
  <2>1. /\ wpc[w] = "store" /\ wpc'[w] = "count"
        /\ UNCHANGED <<wfd, wtmp, alllen>> /\ wlen' = [wlen EXCEPT ![w] = n]
        /\ \A v \in Workers \ {w} : wpc'[v] = wpc[v]
    BY <1>2 DEF Store, At, Goto, TypeOK
  <2>2. wlen'[w] = n /\ \A v \in Workers \ {w} : wlen'[v] = wlen[v]
    BY <2>1 DEF TypeOK
  <2>3. \A v \in Workers \ {w} : Fits(v)'
    BY <1>0, <2>1, <2>2
  <2>4. n \in Int
    BY <2>1, LenProperties DEF TypeOK, TaskInHand, CellSeqs
  <2>5. alllen'[wfd'[w]] + Len(wtmp'[w]) = n
    BY <2>1
  <2>6. Fits(w)'
    <3> HIDE DEF n
    <3>1. n <= n
      BY <2>4
    <3> QED
      BY <2>1, <2>2, <2>5, <3>1 DEF Fits
  <2> QED
    BY <2>3, <2>6
<1>3. CASE Count(w)
  <2>1. PICK n \in {alllen[wfd[w]] + Len(wtmp[w]), wlen[w]} :
          /\ alllen' = [alllen EXCEPT ![wfd[w]] = n]
          /\ wlen' = [wlen EXCEPT ![w] = n]
    BY <1>3, Zenon DEF Count
  <2>2. /\ wpc[w] = "count" /\ wpc'[w] = "end" /\ wfd' = wfd /\ wfd[w] \in Fds
        /\ wtmp' = [wtmp EXCEPT ![w] = <<>>]
        /\ \A v \in Workers \ {w} : wpc'[v] = wpc[v]
    BY <1>3 DEF Count, At, Goto, TypeOK, TaskInHand
  <2>3. n \in Int
    <3>1. Len(wtmp[w]) \in Int /\ alllen[wfd[w]] \in Int /\ wlen[w] \in Int
      BY <2>2, LenProperties DEF TypeOK, CellSeqs
    <3> QED
      BY <2>1, <3>1
  <2>4. /\ alllen'[wfd'[w]] = n /\ wlen'[w] = n
        /\ \A f \in Fds : f # wfd[w] => alllen'[f] = alllen[f]
        /\ \A v \in Workers \ {w} : wtmp'[v] = wtmp[v] /\ wlen'[v] = wlen[v]
    BY <2>1, <2>2 DEF TypeOK
  <2>5. \A v \in Workers \ {w} : Fits(v)'
    BY <1>0, <2>2, <2>4
  <2>6. Fits(w)'
    BY <2>2, <2>3, <2>4 DEF Fits
  <2> QED
    BY <2>5, <2>6
<1>4. CASE Terminate(w)
  <2>1. /\ wpc[w] = "end" /\ wpc'[w] = "read" /\ UNCHANGED <<wfd, wtmp, alllen>>
        /\ \A v \in Workers \ {w} : wpc'[v] = wpc[v] /\ wlen'[v] = wlen[v]
    BY <1>4 DEF Terminate, At, Goto, TypeOK
  <2>2. \A v \in Workers \ {w} : Fits(v)'
    BY <1>0, <2>1
  <2>3. Fits(w)'
    BY <2>1 DEF Fits
  <2> QED
    BY <2>2, <2>3
<1>5. CASE Take(w) \/ Guard(w) \/ Check(w) \/ ReadFails(w) \/ Parse(w) \/ Arm(w)
           \/ ClearBuf(w) \/ Release(w) \/ Write(w) \/ ClearReply(w) \/ Rearm(w)
  <2>1. \A v \in Workers : wpc'[v] \in Storing => wpc'[v] = wpc[v] /\ wfd'[v] = wfd[v]
    BY <1>5 DEF Take, Guard, Check, ReadFails, Parse, Arm, ClearBuf, Release, Write,
       ClearReply, Rearm, Goto, TypeOK
  <2>2. UNCHANGED <<alllen, wtmp, wlen>>
    BY <1>5 DEF Take, Guard, Check, ReadFails, Parse, Arm, ClearBuf, Release, Write,
       ClearReply, Rearm
  <2> QED
    BY <2>1, <2>2, FitsKept
<1>6. CASE ReadNothing(w) \/ ClearLen(w)
  <2>1. /\ \A v \in Workers : wpc'[v] \in Storing => wpc'[v] = wpc[v]
        /\ UNCHANGED <<wfd, wtmp, wlen>>
    BY <1>6 DEF ReadNothing, ClearLen, Goto, TypeOK
  <2>2. \A f \in Fds : alllen'[f] \in {alllen[f], 0}
    BY <1>6 DEF ReadNothing, ClearLen, TypeOK
  <2>3. \A v \in Workers : wpc[v] \in Storing => wfd[v] \in Fds
    BY DEF TaskInHand
  <2> QED
    BY <2>1, <2>2, <2>3, FitsKept
<1>7. CASE ParseThrows(w)
  BY <1>7, FitsKept DEF ParseThrows
<1>8. CASE WriteFails(w)
  <2>1. \A v \in Workers : wpc'[v] \in Storing => wpc'[v] = wpc[v] /\ wfd'[v] = wfd[v]
    BY <1>8 DEF WriteFails, Goto, TypeOK
  <2> QED
    BY <1>8, <2>1, FitsKept DEF WriteFails
<1> QED
  BY <1>1, <1>2, <1>3, <1>4, <1>5, <1>6, <1>7, <1>8, Zenon DEF WorkerStep

\* Every step of the server keeps the invariant.
LEMMA ServerStep == ServerInv /\ [Next]_vars => ServerInv'
<1> SUFFICES ASSUME ServerInv, [Next]_vars PROVE ServerInv'
  OBVIOUS
<1> USE DEF ServerInv, clientVars, loopVars, workVars, connVars
<1>1. CASE ClientStep
  <2>1. UNCHANGED <<peer, ep, batch, queue, wpc, wfd, wtmp, wlen, alllen>>
    BY <1>1 DEF ClientStep, Connect, Leave, Send
  <2>2. TypeOK'
    BY <1>1, ClientTypes
  <2>3. TaskInHand' /\ \A w \in Workers : Fits(w)'
    BY <2>1 DEF TaskInHand, Fits
  <2>4. ExclusiveOwner'
    BY <2>1, OwnerKept
  <2> QED
    BY <2>2, <2>3, <2>4
<1>2. CASE LoopStep
  <2>1. TypeOK' /\ ExclusiveOwner'
    BY <1>2, LoopTypes, LoopOwner
  <2>2. UNCHANGED <<wpc, wfd, wtmp, wlen>>
    BY <1>2 DEF LoopStep, EpollWait, BeginAccept, AcceptEnd, Accept, Refuse, HangUp,
       Dispatch
  <2>3. TaskInHand'
    BY <2>2 DEF TaskInHand
  <2>4. \A f \in Fds : alllen'[f] \in {alllen[f], 0}
    BY <1>2 DEF LoopStep, EpollWait, BeginAccept, AcceptEnd, Accept, Refuse, HangUp,
       Dispatch, TypeOK
  <2>5. ASSUME NEW w \in Workers PROVE Fits(w)'
    <3>1. wpc[w] \in {"store", "count", "end"} => wfd[w] \in Fds
      BY DEF TaskInHand
    <3> QED
      BY <2>2, <2>4, <3>1, FitsKept
  <2> QED
    BY <2>1, <2>3, <2>5
<1>3. ASSUME NEW w \in Workers, WorkerStep(w) PROVE ServerInv'
  BY <1>3, WorkerTypes, WorkerOwner, TaskStep, FitsStep
<1>4. CASE UNCHANGED vars
  <2>1. UNCHANGED <<peer, ep, batch, queue, wpc, wfd, wtmp, wlen, alllen>>
    BY <1>4 DEF vars
  <2>2. TypeOK'
    BY <1>4, Zenon DEF vars, TypeOK
  <2>3. TaskInHand' /\ \A w \in Workers : Fits(w)'
    BY <2>1 DEF TaskInHand, Fits
  <2>4. ExclusiveOwner'
    BY <2>1, OwnerKept
  <2> QED
    BY <2>2, <2>3, <2>4
<1> QED
  BY <1>1, <1>2, <1>3, <1>4, Zenon DEF Next

\* The server's invariant holds in every reachable state.
THEOREM Invariance == Spec => []ServerInv
BY ServerInit, ServerStep, PTL DEF Spec

\* Every variable of the server keeps its type; in particular alllen never
\* passes MAXREADLEN.
THEOREM TypeCorrect == Spec => []TypeOK
BY Invariance, PTL DEF ServerInv

\* EPOLLONESHOT gives a connection to one owner at a time (eventLoop,
\* read_once, sendData), and none keeps it past the close of its descriptor.
THEOREM OneOwner == Spec => []ExclusiveOwner
BY Invariance, PTL DEF ServerInv

\* What read() returned fits into m_buf when read_once copies it there.
THEOREM NoOverrun == Spec => []ReadFits
<1>1. ServerInv => ReadFits
  <2> SUFFICES ASSUME ServerInv, NEW w \in Workers, wpc[w] \in {"store", "count"}
               PROVE  alllen[wfd[w]] + Len(wtmp[w]) <= BufSize
    BY DEF ReadFits
  <2>1. /\ Len(wtmp[w]) \in Nat /\ alllen[wfd[w]] \in Nat
        /\ wlen[w] \in Nat /\ wlen[w] <= BufSize /\ BufSize \in Nat
    BY LenProperties, ChatServerAssumption DEF ServerInv, TypeOK, TaskInHand, CellSeqs
  <2>2. \/ alllen[wfd[w]] + Len(wtmp[w]) <= BufSize
        \/ alllen[wfd[w]] + Len(wtmp[w]) <= wlen[w]
    BY DEF ServerInv, Fits
  <2> QED
    BY <2>1, <2>2
<1> QED
  BY Invariance, <1>1, PTL
-----------------------------------------------------------------------------
(* The handles of the pool *)

\* A handle's places, kind by kind.
AtPool(h)   == \E i \in 1..Len(free) : free[i] = h
AtObject(h) == \E f \in Fds : msql[f] = h
Guarding    == {w \in Workers : wpc[w] \in Guarded}
AtGuard(h)  == \E w \in Guarding : wold[w] = h

\* Handle h is in exactly one place.
OnePlace(h) ==
  /\ AtPool(h) \/ AtObject(h) \/ AtGuard(h)
  /\ ~(AtPool(h) /\ AtObject(h)) /\ ~(AtPool(h) /\ AtGuard(h))
  /\ ~(AtObject(h) /\ AtGuard(h))
  /\ \A i, j \in 1..Len(free) : free[i] = h /\ free[j] = h => i = j
  /\ \A f, g \in Fds : msql[f] = h /\ msql[g] = h => f = g
  /\ \A v, w \in Guarding : wold[v] = h /\ wold[w] = h => v = w

HandlesInv ==
  /\ \A h \in Handles : OnePlace(h)
  /\ Len(free) + Cardinality(Guarding) = NumHandles

LEMMA GuardingFinite == IsFiniteSet(Guarding) /\ Cardinality(Guarding) \in Nat
<1>1. Guarding \subseteq Workers
  BY DEF Guarding
<1> QED
  BY <1>1, FS_Subset, FS_CardinalityType, ChatServerAssumption

\* One place is a set of places with one element.
LEMMA OnePlaceCounts ==
  ASSUME NEW h, OnePlace(h)
  PROVE  Cardinality(Places(h)) = 1
<1> DEFINE inPool   == {<<"pool", i>> : i \in {j \in 1..Len(free) : free[j] = h}}
           inObject == {<<"object", f>> : f \in {g \in Fds : msql[g] = h}}
           inGuard  == {<<"guard", w>> :
                          w \in {v \in Workers : wpc[v] \in Guarded /\ wold[v] = h}}
<1>1. /\ ~AtPool(h)   => inPool = {}
      /\ ~AtObject(h) => inObject = {}
      /\ ~AtGuard(h)  => inGuard = {}
  BY DEF AtPool, AtObject, AtGuard, Guarding
<1>2. Places(h) = inPool \cup inObject \cup inGuard
  BY Zenon DEF Places
<1>3. \E p : Places(h) = {p}
  <2>1. CASE AtPool(h)
    <3>1. PICK i \in 1..Len(free) : free[i] = h
      BY <2>1 DEF AtPool
    <3>2. inPool = {<<"pool", i>>}
      BY <3>1 DEF OnePlace
    <3>3. inObject = {} /\ inGuard = {}
      BY <1>1, <2>1 DEF OnePlace
    <3> HIDE DEF inPool, inObject, inGuard
    <3>4. Places(h) = {<<"pool", i>>}
      BY <1>2, <3>2, <3>3
    <3> QED
      BY <3>4
  <2>2. CASE AtObject(h)
    <3>1. PICK f \in Fds : msql[f] = h
      BY <2>2 DEF AtObject
    <3>2. inObject = {<<"object", f>>}
      BY <3>1 DEF OnePlace
    <3>3. inPool = {} /\ inGuard = {}
      BY <1>1, <2>2 DEF OnePlace
    <3> HIDE DEF inPool, inObject, inGuard
    <3>4. Places(h) = {<<"object", f>>}
      BY <1>2, <3>2, <3>3
    <3> QED
      BY <3>4
  <2>3. CASE AtGuard(h)
    <3>1. PICK w \in Guarding : wold[w] = h
      BY <2>3 DEF AtGuard
    <3>2. inGuard = {<<"guard", w>>}
      BY <3>1 DEF OnePlace, Guarding
    <3>3. inPool = {} /\ inObject = {}
      BY <1>1, <2>3 DEF OnePlace
    <3> HIDE DEF inPool, inObject, inGuard
    <3>4. Places(h) = {<<"guard", w>>}
      BY <1>2, <3>2, <3>3
    <3> QED
      BY <3>4
  <2> QED
    BY <2>1, <2>2, <2>3 DEF OnePlace
<1> QED
  BY <1>3, FS_Singleton

LEMMA HandlesInit == Init => HandlesInv
<1> SUFFICES ASSUME Init PROVE HandlesInv
  OBVIOUS
<1>1. Guarding = {} /\ Cardinality(Guarding) = 0
  BY FS_EmptySet DEF Init, Guarding, Guarded
<1>2. Len(free) = NumHandles /\ \A i \in 1..NumHandles : free[i] = i
  BY ChatServerAssumption DEF Init, Handles
<1>3. ASSUME NEW h \in Handles PROVE OnePlace(h)
  <2>1. h \in 1..NumHandles /\ h # 0 /\ \A f \in Fds : msql[f] # h
    BY ChatServerAssumption DEF Init, Handles
  <2> QED
    BY <1>1, <1>2, <2>1 DEF OnePlace, AtPool, AtObject, AtGuard
<1> QED
  BY <1>1, <1>2, <1>3, ChatServerAssumption DEF HandlesInv

\* A step that moves no handle and begins or ends no guard.
LEMMA HandlesKept ==
  ASSUME HandlesInv, UNCHANGED <<free, msql, wold>>,
         \A w \in Workers : wpc'[w] \in Guarded <=> wpc[w] \in Guarded
  PROVE  HandlesInv'
<1>1. Guarding' = Guarding
  BY DEF Guarding
<1>2. \A h \in Handles : OnePlace(h) => OnePlace(h)'
  BY <1>1 DEF OnePlace, AtPool, AtObject, AtGuard
<1> QED
  BY <1>1, <1>2 DEF HandlesInv

\* The guard takes the oldest handle of the pool into the object, and keeps
\* the one the object had.
LEMMA HandlesGuard ==
  ASSUME TypeOK, TaskInHand, HandlesInv, NEW w \in Workers, Guard(w)
  PROVE  HandlesInv'
<1> DEFINE f == wfd[w]
           new == Head(free)
           old == msql[f]
<1>0. /\ f \in Fds /\ free \in Seq(Handles \cup {NULL}) /\ free # <<>>
      /\ wpc \in [Workers -> Steps] /\ wold \in [Workers -> Handles \cup {NULL}]
      /\ msql \in [Fds -> Handles \cup {NULL}] /\ wpc[w] = "guard"
  BY DEF TypeOK, TaskInHand, Guard, At
<1>1. /\ Len(free) \in Nat \ {0} /\ new = free[1]
      /\ Len(free') = Len(free) - 1
      /\ \A i \in 1..Len(free') : free'[i] = free[i + 1]
  BY <1>0, HeadTailProperties, EmptySeq DEF Guard
<1>2. /\ msql' = [msql EXCEPT ![f] = new]
      /\ wold' = [wold EXCEPT ![w] = old]
      /\ wpc' = [wpc EXCEPT ![w] = "check"]
  BY DEF Guard, Goto
<1> HIDE DEF f, new, old
<1>3. Guarding' = Guarding \cup {w} /\ w \notin Guarding
  BY <1>0, <1>2 DEF Guarding, Guarded
<1>4. old = msql[f]
  BY DEF old
<1>5. ASSUME NEW h \in Handles PROVE OnePlace(h)'
  <2>1. OnePlace(h)
    BY DEF HandlesInv
  <2>2. \A i, j \in 1..Len(free') : free'[i] = h /\ free'[j] = h => i = j
    <3> SUFFICES ASSUME NEW i \in 1..Len(free'), NEW j \in 1..Len(free'),
                        free'[i] = h, free'[j] = h
                 PROVE  i = j
      OBVIOUS
    <3>1. i + 1 \in 1..Len(free) /\ j + 1 \in 1..Len(free)
      BY <1>1
    <3>2. i + 1 = j + 1
      BY <1>1, <2>1, <3>1 DEF OnePlace
    <3> QED
      BY <3>2
  <2>3. AtPool(h)' <=> AtPool(h) /\ h # new
    <3>1. ASSUME NEW i \in 1..Len(free'), free'[i] = h PROVE AtPool(h) /\ h # new
      <4>1. i + 1 \in 1..Len(free) /\ 1 \in 1..Len(free) /\ i + 1 # 1
        BY <1>1
      <4> QED
        BY <1>1, <2>1, <3>1, <4>1 DEF AtPool, OnePlace
    <3>2. ASSUME NEW i \in 1..Len(free), free[i] = h, h # new
          PROVE  \E j \in 1..Len(free') : free'[j] = h
      <4>1. i - 1 \in 1..Len(free') /\ (i - 1) + 1 = i
        BY <1>1, <3>2
      <4> QED
        BY <1>1, <3>2, <4>1
    <3> QED
      BY <3>1, <3>2 DEF AtPool
  <2>4. h = new => AtPool(h)
    BY <1>1 DEF AtPool
  <2>5. \A g \in Fds : msql'[g] = IF g = f THEN new ELSE msql[g]
    BY <1>0, <1>2
  <2>6. \A v \in Workers : wold'[v] = IF v = w THEN old ELSE wold[v]
    BY <1>0, <1>2
  <2>7. Guarding \subseteq Workers
    BY DEF Guarding
  <2>8. AtObject(h)' <=> h = new \/ (AtObject(h) /\ h # old)
    BY <1>0, <1>4, <2>1, <2>5 DEF AtObject, OnePlace
  <2>9. AtGuard(h)' <=> AtGuard(h) \/ h = old
    BY <1>3, <2>6, <2>7 DEF AtGuard
  <2>10. h = old => AtObject(h)
    BY <1>0, <1>4 DEF AtObject
  <2>11. \A d, g \in Fds : msql'[d] = h /\ msql'[g] = h => d = g
    BY <2>1, <2>4, <2>5 DEF OnePlace, AtObject
  <2>12. \A u, v \in Guarding' : wold'[u] = h /\ wold'[v] = h => u = v
    BY <1>3, <2>1, <2>6, <2>7, <2>10 DEF OnePlace, AtGuard
  <2> QED
    BY <2>1, <2>2, <2>3, <2>4, <2>8, <2>9, <2>10, <2>11, <2>12 DEF OnePlace
<1>6. Cardinality(Guarding') = Cardinality(Guarding) + 1
  BY <1>3, GuardingFinite, FS_AddElement
<1>7. Len(free') + Cardinality(Guarding') = NumHandles
  BY <1>1, <1>6, GuardingFinite, ChatServerAssumption DEF HandlesInv
<1> QED
  BY <1>5, <1>7 DEF HandlesInv

\* Its destructor gives back the handle that the object had before.
LEMMA HandlesRelease ==
  ASSUME TypeOK, HandlesInv, NEW w \in Workers, Release(w)
  PROVE  HandlesInv'
<1> DEFINE old == wold[w]
<1>0. /\ free \in Seq(Handles \cup {NULL}) /\ old \in Handles \cup {NULL}
      /\ wpc \in [Workers -> Steps] /\ wold \in [Workers -> Handles \cup {NULL}]
      /\ wpc[w] = "release"
  BY DEF TypeOK, Release, At
<1>1. /\ Len(free) \in Nat
      /\ Len(free') = Len(free) + 1
      /\ \A i \in 1..Len(free) : free'[i] = free[i]
      /\ free'[Len(free) + 1] = old
  BY <1>0, LenProperties, AppendProperties DEF Release, Returned
<1>2. /\ wold' = [wold EXCEPT ![w] = NULL]
      /\ wpc' = [wpc EXCEPT ![w] = "idle"]
      /\ msql' = msql
  BY DEF Release, Goto, connVars
<1> HIDE DEF old
<1>3. Guarding' = Guarding \ {w} /\ w \in Guarding
  BY <1>0, <1>2 DEF Guarding, Guarded
<1>4. old = wold[w]
  BY DEF old
<1>5. ASSUME NEW h \in Handles PROVE OnePlace(h)'
  <2>1. OnePlace(h)
    BY DEF HandlesInv
  <2>2. \A i \in 1..Len(free') : i \in 1..Len(free) \/ i = Len(free) + 1
    BY <1>1
  <2>3. 1..Len(free) \subseteq 1..Len(free') /\ Len(free) + 1 \in 1..Len(free')
    BY <1>1
  <2>4. AtPool(h)' <=> AtPool(h) \/ h = old
    BY <1>1, <2>2, <2>3 DEF AtPool
  <2>5. h = old => AtGuard(h)
    BY <1>3, <1>4 DEF AtGuard
  <2>6. \A v \in Guarding' : wold'[v] = wold[v] /\ v \in Guarding /\ v # w
    BY <1>0, <1>2, <1>3 DEF Guarding
  <2>7. AtGuard(h)' <=> AtGuard(h) /\ h # old
    BY <1>3, <1>4, <2>1, <2>6 DEF AtGuard, OnePlace
  <2>8. AtObject(h)' <=> AtObject(h)
    BY <1>2 DEF AtObject
  <2>9. \A i, j \in 1..Len(free') : free'[i] = h /\ free'[j] = h => i = j
    BY <1>1, <2>1, <2>2, <2>5 DEF OnePlace, AtPool
  <2>10. \A u, v \in Guarding' : wold'[u] = h /\ wold'[v] = h => u = v
    BY <2>1, <2>6 DEF OnePlace
  <2>11. \A d, g \in Fds : msql'[d] = h /\ msql'[g] = h => d = g
    BY <1>2, <2>1 DEF OnePlace
  <2> QED
    BY <2>1, <2>4, <2>5, <2>7, <2>8, <2>9, <2>10, <2>11 DEF OnePlace
<1>6. Cardinality(Guarding') = Cardinality(Guarding) - 1
  BY <1>3, GuardingFinite, FS_RemoveElement
<1>7. Len(free') + Cardinality(Guarding') = NumHandles
  BY <1>1, <1>6, GuardingFinite, ChatServerAssumption DEF HandlesInv
<1> QED
  BY <1>5, <1>7 DEF HandlesInv

\* Every step of the server keeps the handles.
LEMMA HandlesStep == ServerInv /\ HandlesInv /\ [Next]_vars => HandlesInv'
<1> SUFFICES ASSUME ServerInv, HandlesInv, [Next]_vars PROVE HandlesInv'
  OBVIOUS
<1> USE DEF loopVars, workVars, connVars
<1>0. TypeOK /\ TaskInHand /\ wpc \in [Workers -> Steps]
  BY DEF ServerInv, TypeOK
<1>1. CASE ClientStep
  BY <1>1, HandlesKept DEF ClientStep, Connect, Leave, Send
<1>2. CASE LoopStep
  BY <1>2, HandlesKept DEF LoopStep, EpollWait, BeginAccept, AcceptEnd, Accept, Refuse,
     HangUp, Dispatch
<1>3. ASSUME NEW w \in Workers, WorkerStep(w) PROVE HandlesInv'
  <2>1. CASE Guard(w)
    BY <1>0, <2>1, HandlesGuard
  <2>2. CASE Release(w)
    BY <1>0, <2>2, HandlesRelease
  <2>3. CASE Take(w) \/ Check(w) \/ ReadCells(w) \/ ReadNothing(w) \/ ReadFails(w)
             \/ Store(w) \/ Count(w) \/ Terminate(w) \/ ParseThrows(w) \/ Parse(w)
             \/ Arm(w) \/ ClearBuf(w) \/ ClearLen(w) \/ Write(w) \/ WriteFails(w)
             \/ ClearReply(w) \/ Rearm(w)
    <3>1. UNCHANGED <<free, msql, wold>>
      BY <2>3 DEF Take, Check, ReadCells, ReadNothing, ReadFails, Store, Count,
         Terminate, ParseThrows, Parse, Arm, ClearBuf, ClearLen, Write,
          WriteFails, ClearReply, Rearm
    <3>2. \A v \in Workers : wpc'[v] \in Guarded <=> wpc[v] \in Guarded
      BY <1>0, <2>3 DEF Take, Check, ReadCells, ReadNothing, ReadFails, Store, Count,
         Terminate, ParseThrows, Parse, Arm, ClearBuf, ClearLen, Write, WriteFails, ClearReply,
         Rearm, At, Goto, Guarded
    <3> QED
      BY <3>1, <3>2, HandlesKept
  <2> QED
    BY <1>3, <2>1, <2>2, <2>3, Zenon DEF WorkerStep
<1>4. CASE UNCHANGED vars
  BY <1>4, HandlesKept DEF vars
<1> QED
  BY <1>1, <1>2, <1>3, <1>4, Zenon DEF Next

\* No handle of the pool is lost, and none is with two connections, however
\* the guards of overlapping reads exchange the handles of one object.
THEOREM HandlesKeptApart == Spec => []HandlesConserved
<1>1. HandlesInv => HandlesConserved
  <2>1. Guarding = {w \in Workers : wpc[w] \in Guarded}
    BY DEF Guarding
  <2> QED
    BY <2>1, OnePlaceCounts DEF HandlesInv, HandlesConserved
<1> QED
  BY Invariance, HandlesInit, HandlesStep, <1>1, PTL DEF Spec
-----------------------------------------------------------------------------
(* Nobody is abandoned *)

\* A connection in somebody's hands is disarmed, but still registered, and
\* the loop waits only when it is done with its batch.
HeldInv ==
  /\ \A f \in Fds : InBatch(f) \/ Queued(f) \/ Worked(f) => ep[f] = "off"
  /\ lpc = "wait" => batch = {}

LEMMA HeldInit == Init => HeldInv
<1> SUFFICES ASSUME Init PROVE HeldInv
  OBVIOUS
<1>1. Len(queue) = 0
  BY EmptySeq DEF Init
<1>2. \A f \in Fds : ~InBatch(f) /\ ~Queued(f) /\ ~Worked(f)
  BY <1>1 DEF Init, InBatch, Queued, Worked, WorkedBy, Hands
<1> QED
  BY <1>2 DEF Init, HeldInv

\* Where the connections in hands go: from one pair of hands to the next, but
\* those of an event come from epoll.
LEMMA HandsStep ==
  ASSUME ServerInv, Next, ~EpollWait, NEW f \in Fds,
         InBatch(f)' \/ Queued(f)' \/ Worked(f)'
  PROVE  InBatch(f) \/ Queued(f) \/ Worked(f)
<1> USE DEF clientVars, loopVars, workVars, connVars
<1> SUFFICES ASSUME ~InBatch(f), ~Queued(f), ~Worked(f) PROVE FALSE
  OBVIOUS
<1>0. TypeOK
  BY DEF ServerInv
<1>1. ASSUME batch' \subseteq batch, queue' = queue,
             \A w \in Workers : wpc'[w] \in Hands => wpc[w] \in Hands /\ wfd'[w] = wfd[w]
      PROVE  FALSE
  BY <1>1 DEF InBatch, Queued, Worked, WorkedBy
<1>2. CASE ClientStep
  BY <1>1, <1>2 DEF ClientStep, Connect, Leave, Send
<1>3. CASE LoopStep
  <2>1. CASE BeginAccept \/ AcceptEnd \/ \E g \in Fds : Accept(g) \/ Refuse(g)
    BY <1>1, <2>1 DEF BeginAccept, AcceptEnd, Accept, Refuse, Handled
  <2>2. ASSUME NEW e \in EventSet, HangUp(e) PROVE FALSE
    BY <1>1, <2>2 DEF HangUp
  <2>3. ASSUME NEW e \in EventSet, Dispatch(e) PROVE FALSE
    <3>1. e \in batch /\ e \in TaskSet /\ batch' = batch \ {e} /\ UNCHANGED <<wpc, wfd>>
      BY <2>3 DEF Dispatch, Handled, EventSet, TaskSet, Listener
    <3>2. e.fd # f
      BY <3>1 DEF InBatch
    <3>3. CASE queue' = queue
      BY <1>1, <3>1, <3>3
    <3>4. CASE queue' = Append(queue, e)
      <4>1. /\ Len(queue) \in Nat /\ Len(queue') = Len(queue) + 1
            /\ \A i \in 1..Len(queue) : queue'[i] = queue[i]
            /\ queue'[Len(queue) + 1] = e
        BY <1>0, <3>1, <3>4, AppendProperties, LenProperties DEF TypeOK
      <4>2. \A i \in 1..Len(queue') : i \in 1..Len(queue) \/ i = Len(queue) + 1
        BY <4>1
      <4>3. ~Queued(f)'
        BY <3>2, <4>1, <4>2 DEF Queued
      <4> QED
        BY <3>1, <4>3 DEF InBatch, Worked, WorkedBy
    <3> QED
      BY <2>3, <3>3, <3>4 DEF Dispatch
  <2> QED
    BY <1>3, <2>1, <2>2, <2>3, Zenon DEF LoopStep
<1>4. ASSUME NEW w \in Workers, WorkerStep(w) PROVE FALSE
  <2>1. CASE Take(w)
    <3>1. /\ Len(queue) \in Nat \ {0} /\ Head(queue) = queue[1]
          /\ Len(queue') = Len(queue) - 1
          /\ \A i \in 1..Len(queue') : queue'[i] = queue[i + 1]
      BY <1>0, <2>1, HeadTailProperties, EmptySeq DEF Take, TypeOK
    <3>2. 1 \in 1..Len(queue) /\ \A i \in 1..Len(queue') : i + 1 \in 1..Len(queue)
      BY <3>1
    <3>3. ~Queued(f)' /\ Head(queue).fd # f
      BY <3>1, <3>2 DEF Queued
    <3>4. /\ batch' = batch /\ wfd'[w] = Head(queue).fd
          /\ \A v \in Workers \ {w} : wfd'[v] = wfd[v] /\ wpc'[v] = wpc[v]
      BY <1>0, <2>1 DEF Take, TypeOK, Goto
    <3> QED
      BY <3>3, <3>4 DEF InBatch, Worked, WorkedBy
  <2>2. CASE ~Take(w)
    <3>1. batch' = batch /\ queue' = queue
      BY <1>4, <2>2 DEF WorkerStep, Guard, Check, ReadCells, ReadNothing, ReadFails,
         Store, Count, Terminate, ParseThrows, Parse, Arm, ClearBuf, ClearLen, Release,
         Write, WriteFails, ClearReply, Rearm
    <3>2. CASE Guard(w) \/ Check(w) \/ ReadCells(w) \/ ReadFails(w) \/ Store(w) \/ Count(w)
               \/ Terminate(w) \/ Parse(w)
      BY <1>0, <1>1, <3>1, <3>2 DEF Guard, Check, ReadCells, ReadFails, Store, Count,
         Terminate, Parse, At, Goto, Hands, TypeOK
    <3>3. CASE ReadNothing(w) \/ ParseThrows(w) \/ Arm(w) \/ ClearBuf(w) \/ ClearLen(w)
               \/ Release(w) \/ Write(w) \/ WriteFails(w) \/ ClearReply(w) \/ Rearm(w)
      BY <1>0, <1>1, <3>1, <3>3 DEF ReadNothing, ParseThrows, Arm, ClearBuf, ClearLen,
         Release, Write, WriteFails, ClearReply, Rearm, At, Goto, Hands, TypeOK
    <3> QED
      BY <1>4, <2>2, <3>2, <3>3, Zenon DEF WorkerStep
  <2> QED
    BY <2>1, <2>2
<1> QED
  BY <1>2, <1>3, <1>4, Zenon DEF Next

\* epoll changes for a connection that is reported, armed again, or dropped.
LEMMA EpollKept ==
  ASSUME ServerInv, Next, ~EpollWait, NEW f \in Fds,
         InBatch(f)' \/ Queued(f)' \/ Worked(f)'
  PROVE  ep'[f] = ep[f]
<1> USE DEF clientVars, loopVars, workVars, connVars
<1>0. TypeOK /\ ExclusiveOwner /\ TaskInHand
  BY DEF ServerInv
<1>1. InBatch(f) \/ Queued(f) \/ Worked(f)
  BY HandsStep
<1>2. CASE ClientStep
  BY <1>2 DEF ClientStep, Connect, Leave, Send
<1>3. CASE LoopStep
  <2>1. ASSUME NEW g \in Fds, Accept(g) PROVE ep'[f] = ep[f]
    <3>1. peer[g] = NoClient /\ peer[f] # NoClient
      BY <1>0, <1>1, <2>1 DEF Accept, Accepting, FreeFds, ExclusiveOwner
    <3> QED
      BY <1>0, <2>1, <3>1 DEF Accept, TypeOK
  <2>2. ASSUME NEW e \in EventSet, HangUp(e) PROVE ep'[f] = ep[f]
    <3>1. InBatch(e.fd) /\ ~InBatch(f)' /\ UNCHANGED <<queue, wpc, wfd>>
      BY <2>2 DEF HangUp, InBatch
    <3>2. Queued(f) \/ Worked(f)
      BY <3>1 DEF Queued, Worked, WorkedBy
    <3>3. e.fd # f
      BY <1>0, <3>1, <3>2 DEF ExclusiveOwner
    <3> QED
      BY <1>0, <2>2, <3>3 DEF HangUp, TypeOK
  <2>3. CASE BeginAccept \/ AcceptEnd \/ (\E g \in Fds : Refuse(g))
             \/ \E e \in EventSet : Dispatch(e)
    BY <2>3 DEF BeginAccept, AcceptEnd, Refuse, Dispatch
  <2> QED
    BY <1>3, <2>1, <2>2, <2>3, Zenon DEF LoopStep
<1>4. ASSUME NEW w \in Workers, WorkerStep(w) PROVE ep'[f] = ep[f]
  <2>1. CASE ReadNothing(w) \/ Arm(w) \/ Rearm(w)
    <3>1. /\ wpc[w] \in Hands /\ wfd[w] \in Fds /\ wpc'[w] \notin Hands
          /\ batch' = batch /\ queue' = queue
          /\ \A v \in Workers \ {w} : wpc'[v] = wpc[v] /\ wfd'[v] = wfd[v]
          /\ \A g \in Fds : g # wfd[w] => ep'[g] = ep[g]
      BY <1>0, <2>1 DEF ReadNothing, Arm, Rearm, UpdateEvents, At, Goto, Hands, TypeOK,
         TaskInHand
    <3>2. Worked(wfd[w]) /\ WorkedBy(w, wfd[w])
      BY <3>1 DEF Worked, WorkedBy
    <3>3. ASSUME f = wfd[w] PROVE FALSE
      <4>1. ~InBatch(f) /\ ~Queued(f)
        BY <1>0, <3>2, <3>3 DEF ExclusiveOwner
      <4>2. ~InBatch(f)' /\ ~Queued(f)'
        BY <3>1, <4>1 DEF InBatch, Queued
      <4>3. PICK v \in Workers : wpc'[v] \in Hands /\ wfd'[v] = f
        BY <4>2 DEF Worked, WorkedBy
      <4>4. v # w /\ wpc[v] \in Hands /\ wfd[v] = wfd[w]
        BY <3>1, <3>3, <4>3
      <4> QED
        BY <1>0, <3>1, <4>4 DEF ExclusiveOwner
    <3> QED
      BY <3>1, <3>3
  <2>2. CASE ~ReadNothing(w) /\ ~Arm(w) /\ ~Rearm(w)
    BY <1>4, <2>2 DEF WorkerStep, Take, Guard, Check, ReadCells, ReadFails, Store, Count,
       Terminate, ParseThrows, Parse, ClearBuf, ClearLen, Release, Write, WriteFails,
       ClearReply
  <2> QED
    BY <2>1, <2>2
<1> QED
  BY <1>2, <1>3, <1>4, Zenon DEF Next

LEMMA HeldStep == ServerInv /\ HeldInv /\ [Next]_vars => HeldInv'
<1> SUFFICES ASSUME ServerInv, HeldInv, [Next]_vars PROVE HeldInv'
  OBVIOUS
<1> USE DEF clientVars, loopVars, workVars, connVars
<1>1. CASE EpollWait
  <2>1. /\ UNCHANGED <<queue, wpc, wfd>> /\ lpc' = "batch" /\ batch' = Events
        /\ ep' = Disarm
    BY <1>1 DEF EpollWait
  <2>2. ASSUME NEW f \in Fds, InBatch(f)' PROVE ep'[f] = "off"
    <3>1. \A e \in Events : e.fd = 0 \/ e.fd \in Ready
      BY DEF Events, Event, Listener
    <3>2. f \in Ready
      BY <2>1, <2>2, <3>1 DEF InBatch, Fds
    <3> QED
      BY <2>1, <3>2 DEF Disarm
  <2>3. ASSUME NEW f \in Fds, Queued(f) \/ Worked(f) PROVE ep'[f] = "off"
    <3>1. ep[f] = "off"
      BY <2>3 DEF HeldInv
    <3> QED
      BY <2>1, <3>1 DEF Disarm
  <2>4. \A f \in Fds : Queued(f)' \/ Worked(f)' => Queued(f) \/ Worked(f)
    BY <2>1 DEF Queued, Worked, WorkedBy
  <2> QED
    BY <2>1, <2>2, <2>3, <2>4 DEF HeldInv
<1>2. CASE Next /\ ~EpollWait
  <2>1. ASSUME NEW f \in Fds, InBatch(f)' \/ Queued(f)' \/ Worked(f)'
        PROVE  ep'[f] = "off"
    <3>1. ep'[f] = ep[f] /\ (InBatch(f) \/ Queued(f) \/ Worked(f))
      BY <1>2, <2>1, HandsStep, EpollKept
    <3> QED
      BY <3>1 DEF HeldInv
  <2>2. lpc' = "wait" => batch' = {}
    <3>1. CASE ClientStep
      BY <3>1 DEF ClientStep, Connect, Leave, Send, HeldInv
    <3>2. CASE LoopStep
      BY <1>2, <3>2 DEF LoopStep, BeginAccept, AcceptEnd, Accept, Refuse, HangUp,
         Dispatch, Handled, HeldInv
    <3>3. ASSUME NEW w \in Workers, WorkerStep(w) PROVE UNCHANGED <<lpc, batch>>
      BY <3>3 DEF WorkerStep, Take, Guard, Check, ReadCells, ReadNothing, ReadFails,
         Store, Count, Terminate, ParseThrows, Parse, Arm, ClearBuf, ClearLen, Release,
         Write, WriteFails, ClearReply, Rearm
    <3> QED
      BY <1>2, <3>1, <3>2, <3>3, Zenon DEF Next, HeldInv
  <2> QED
    BY <2>1, <2>2 DEF HeldInv
<1>3. CASE UNCHANGED vars
  <2>1. UNCHANGED <<ep, lpc, batch, queue, wpc, wfd>>
    BY <1>3 DEF vars
  <2> QED
    BY <2>1 DEF HeldInv, InBatch, Queued, Worked, WorkedBy
<1> QED
  BY <1>1, <1>2, <1>3

\* The event loop loses nothing but what a hang-up or a full queue costs.
LEMMA LoopAbandons ==
  ASSUME ServerInv, HeldInv, LoopStep, NEW f \in Fds, InService(f), ~InService(f)'
  PROVE  peer'[f] = NoClient \/ MayAbandon(f)
<1> USE DEF clientVars, loopVars, workVars, connVars
<1>0. TypeOK
  BY DEF ServerInv
<1>1. UNCHANGED <<wpc, wfd>>
  BY DEF LoopStep, EpollWait, BeginAccept, AcceptEnd, Accept, Refuse, HangUp, Dispatch
<1>2. ~Worked(f) /\ (queue' = queue => ~Queued(f))
  BY <1>1 DEF Worked, WorkedBy, Queued
<1>3. CASE EpollWait
  <2>1. queue' = queue /\ batch = {}
    BY <1>3 DEF EpollWait, LoopAt, HeldInv
  <2>2. Armed(f) /\ f \notin Ready
    <3>1. Armed(f)
      BY <1>2, <2>1 DEF InBatch
    <3>2. f \in Ready => Event(f) \in batch' /\ Event(f).fd = f
      BY <1>3, Zenon DEF EpollWait, Events, Event
    <3> QED
      BY <3>1, <3>2 DEF InBatch
  <2>3. ep'[f] = ep[f]
    BY <1>3, <2>2 DEF EpollWait, Disarm
  <2> QED
    BY <2>2, <2>3 DEF Armed
<1>4. CASE BeginAccept \/ AcceptEnd \/ \E g \in Fds : Refuse(g)
  <2>1. ep' = ep /\ queue' = queue /\ batch' \in {batch, batch \ {Listener}}
    BY <1>4 DEF BeginAccept, AcceptEnd, Refuse, Handled
  <2>2. InBatch(f) => InBatch(f)'
    BY <2>1 DEF InBatch, Listener, Fds
  <2> QED
    BY <1>2, <2>1, <2>2 DEF Armed
<1>5. ASSUME NEW g \in Fds, Accept(g) PROVE FALSE
  <2>1. batch' = batch /\ queue' = queue /\ ep' = [ep EXCEPT ![g] = "READ"]
    BY <1>5 DEF Accept
  <2>2. ep'[f] \in {ep[f], "READ"}
    BY <1>0, <2>1 DEF TypeOK
  <2> QED
    BY <1>2, <2>1, <2>2 DEF Armed, InBatch
<1>6. ASSUME NEW e \in EventSet, HangUp(e) PROVE peer'[f] = NoClient \/ MayAbandon(f)
  <2>1. /\ queue' = queue /\ e \in batch /\ e.ev = "hup" /\ e.fd \in Fds
        /\ peer' = [peer EXCEPT ![e.fd] = NoClient] /\ ep' = [ep EXCEPT ![e.fd] = "none"]
    BY <1>6 DEF HangUp, EventSet, Listener
  <2>2. CASE e.fd = f
    BY <1>0, <2>1, <2>2 DEF TypeOK
  <2>3. CASE e.fd # f
    <3>1. ep'[f] = ep[f]
      BY <1>0, <2>1, <2>3 DEF TypeOK
    <3>2. InBatch(f)
      BY <1>2, <2>1, <3>1 DEF Armed
    <3> QED
      BY <2>1, <3>2 DEF MayAbandon
  <2> QED
    BY <2>2, <2>3
<1>7. ASSUME NEW e \in EventSet, Dispatch(e) PROVE MayAbandon(f)
  <2>1. ep' = ep /\ batch' = batch \ {e} /\ e \in TaskSet
    BY <1>7 DEF Dispatch, Handled, EventSet, TaskSet, Listener
  <2>2. CASE TakenByPool
    <3>1. /\ Len(queue) \in Nat /\ Len(queue') = Len(queue) + 1
          /\ \A i \in 1..Len(queue) : queue'[i] = queue[i]
          /\ queue'[Len(queue) + 1] = e
      BY <1>0, <1>7, <2>1, <2>2, AppendProperties, LenProperties DEF TypeOK, Dispatch
    <3>2. Len(queue) + 1 \in 1..Len(queue') /\ \A i \in 1..Len(queue) : i \in 1..Len(queue')
      BY <3>1
    <3>3. (Queued(f) => Queued(f)') /\ (e.fd = f => Queued(f)')
      BY <3>1, <3>2 DEF Queued
    <3>4. e.fd # f => (InBatch(f) => InBatch(f)')
      BY <2>1 DEF InBatch
    <3> QED
      BY <1>2, <2>1, <3>3, <3>4 DEF Armed
  <2>3. CASE ~TakenByPool
    <3>1. queue' = queue
      BY <1>7, <2>3 DEF Dispatch
    <3>2. InBatch(f)
      BY <1>2, <2>1, <3>1 DEF Armed
    <3>3. Len(queue) >= MaxRequest
      BY <1>0, <2>3, LenProperties, ChatServerAssumption DEF TakenByPool, TypeOK
    <3> QED
      BY <3>2, <3>3 DEF MayAbandon
  <2> QED
    BY <2>2, <2>3
<1> QED
  BY <1>3, <1>4, <1>5, <1>6, <1>7, Zenon DEF LoopStep

\* A worker that lets go of a connection has armed it, or may abandon it.
LEMMA WorkAbandons ==
  ASSUME ServerInv, HeldInv, NEW w \in Workers, WorkerStep(w),
         NEW f \in Fds, InService(f), ~InService(f)'
  PROVE  MayAbandon(f)
<1> USE DEF clientVars, loopVars, workVars, connVars
<1>0. TypeOK /\ ExclusiveOwner /\ TaskInHand
  BY DEF ServerInv
<1>1. batch' = batch /\ ~InBatch(f)
  <2>1. batch' = batch
    BY DEF WorkerStep, Take, Guard, Check, ReadCells, ReadNothing, ReadFails,
       Store, Count, Terminate, ParseThrows, Parse, Arm, ClearBuf, ClearLen, Release,
       Write, WriteFails, ClearReply, Rearm
  <2> QED
    BY <2>1 DEF InBatch
<1>2. CASE Take(w)
  <2>1. /\ Len(queue) \in Nat \ {0} /\ Head(queue) = queue[1]
        /\ Len(queue') = Len(queue) - 1
        /\ \A i \in 1..Len(queue') : queue'[i] = queue[i + 1]
    BY <1>0, <1>2, HeadTailProperties, EmptySeq DEF Take, TypeOK
  <2>2. /\ ep' = ep /\ wpc[w] = "idle" /\ wpc'[w] \in Hands /\ wfd'[w] = queue[1].fd
        /\ \A v \in Workers \ {w} : wfd'[v] = wfd[v] /\ wpc'[v] = wpc[v]
    BY <1>0, <1>2, <2>1 DEF Take, TypeOK, Goto, At, Hands
  <2>3. Worked(f) => Worked(f)'
    BY <2>2 DEF Worked, WorkedBy, Hands
  <2>4. ASSUME NEW i \in 1..Len(queue), queue[i].fd = f PROVE FALSE
    <3>1. CASE i = 1
      BY <2>2, <2>4, <3>1 DEF Worked, WorkedBy
    <3>2. CASE i # 1
      <4>1. i - 1 \in 1..Len(queue') /\ (i - 1) + 1 = i
        BY <2>1, <3>2
      <4> QED
        BY <2>1, <2>4, <4>1 DEF Queued
    <3> QED
      BY <3>1, <3>2
  <2> QED
    BY <1>1, <2>2, <2>3, <2>4 DEF Armed, Queued
<1>3. CASE ~Take(w)
  <2>1. queue' = queue
    BY <1>3 DEF WorkerStep, Guard, Check, ReadCells, ReadNothing, ReadFails, Store, Count,
       Terminate, ParseThrows, Parse, Arm, ClearBuf, ClearLen, Release, Write, WriteFails,
       ClearReply, Rearm
  <2>2. ~Queued(f)
    BY <2>1 DEF Queued
  <2>3. \A v \in Workers \ {w} : wpc'[v] = wpc[v] /\ wfd'[v] = wfd[v]
    BY <1>0, <1>3 DEF WorkerStep, Guard, Check, ReadCells, ReadNothing, ReadFails, Store,
       Count, Terminate, ParseThrows, Parse, Arm, ClearBuf, ClearLen, Release, Write,
       WriteFails, ClearReply, Rearm, Goto, TypeOK
  <2>4. CASE ~WorkedBy(w, f)
    <3>1. ~Worked(f)
      BY <2>3, <2>4 DEF Worked, WorkedBy
    <3>2. Armed(f)
      BY <1>1, <2>2, <3>1
    <3>3. CASE wpc[w] \in Hands
      <4>1. wfd[w] # f
        BY <2>4, <3>3 DEF WorkedBy
      <4>2. ep'[f] = ep[f]
        BY <1>0, <1>3, <4>1 DEF WorkerStep, Guard, Check, ReadCells, ReadNothing,
           ReadFails, Store, Count, Terminate, ParseThrows, Parse, Arm, ClearBuf,
           ClearLen, Release, Write, WriteFails, ClearReply, Rearm, UpdateEvents, TypeOK
      <4> QED
        BY <3>2, <4>2 DEF Armed
    <3>4. CASE wpc[w] \notin Hands
      <4>1. ep' = ep
        BY <1>3, <3>4 DEF WorkerStep, Guard, Check, ReadCells, ReadNothing,
           ReadFails, Store, Count, Terminate, ParseThrows, Parse, Arm, ClearBuf,
           ClearLen, Release, Write, WriteFails, ClearReply, Rearm, At, Hands
      <4> QED
        BY <3>2, <4>1 DEF Armed
    <3> QED
      BY <3>3, <3>4
  <2>5. CASE WorkedBy(w, f)
    <3>1. wfd[w] = f /\ wpc[w] \in Hands /\ Worked(f) /\ ep[f] = "off"
      BY <2>5 DEF WorkedBy, Worked, HeldInv
    <3>2. ~(wpc'[w] \in Hands /\ wfd'[w] = f) /\ ~Armed(f)'
      BY DEF Worked, WorkedBy
    <3>3. CASE Guard(w) \/ ReadCells(w) \/ Store(w) \/ Count(w) \/ Terminate(w)
               \/ ParseThrows(w) \/ Write(w) \/ ClearReply(w)
      BY <1>0, <3>1, <3>2, <3>3 DEF Guard, ReadCells, Store, Count, Terminate, ParseThrows,
         Write, ClearReply, Goto, Hands, TypeOK
    <3>4. CASE ClearBuf(w) \/ ClearLen(w) \/ Release(w)
      BY <3>1, <3>4 DEF ClearBuf, ClearLen, Release, At, Hands
    <3>5. CASE Arm(w) \/ Rearm(w)
      BY <1>0, <3>1, <3>2, <3>5 DEF Arm, Rearm, UpdateEvents, Armed, TypeOK
    <3>6. CASE Check(w)
      <4>1. alllen[f] >= BufSize
        BY <1>0, <3>1, <3>2, <3>6 DEF Check, Goto, Hands, TypeOK
      <4> QED
        BY <3>1, <4>1 DEF MayAbandon
    <3>7. CASE ReadNothing(w)
      <4>1. Room(w) <= 0 => alllen[f] >= BufSize
        BY <1>0, <3>1, ChatServerAssumption DEF Room, TypeOK
      <4> QED
        BY <3>1, <3>7, <4>1 DEF ReadNothing, EndOfInput, SourceState, HungUp, MayAbandon
    <3>8. CASE ReadFails(w)
      <4>1. SourceState(w) = "rst"
        BY <1>0, <3>1, <3>2, <3>8 DEF ReadFails, Goto, Hands, TypeOK
      <4> QED
        BY <3>1, <4>1 DEF SourceState, HungUp, MayAbandon
    <3>9. CASE WriteFails(w)
      BY <3>1, <3>9 DEF WriteFails, HungUp, MayAbandon
    <3>10. CASE Parse(w)
      <4>1. /\ wpc[w] = "parse" /\ IsRequest(buf[f]) /\ wfd' = wfd
            /\ ~Answered(buf[f])
        BY <1>0, <3>1, <3>2, <3>10 DEF Parse, At, Goto, Hands, TypeOK
      <4> QED
        BY <3>1, <4>1 DEF Answered, AskedUnknown, MayAbandon
    <3> QED
      BY <1>3, <3>3, <3>4, <3>5, <3>6, <3>7, <3>8, <3>9, <3>10, Zenon DEF WorkerStep
  <2> QED
    BY <2>4, <2>5
<1> QED
  BY <1>2, <1>3

\* Every step of the server leaves only the connections it may leave.
LEMMA AbandonStep ==
  ASSUME ServerInv, HeldInv, [Next]_vars
  PROVE  \A f \in Fds : InService(f) /\ ~InService(f)' =>
           peer'[f] = NoClient \/ MayAbandon(f)
<1> SUFFICES ASSUME NEW f \in Fds, InService(f), ~InService(f)'
             PROVE  peer'[f] = NoClient \/ MayAbandon(f)
  OBVIOUS
<1> USE DEF clientVars, loopVars, workVars, connVars
<1>1. ASSUME UNCHANGED <<ep, batch, queue, wpc, wfd>> PROVE FALSE
  BY <1>1 DEF Armed, InBatch, Queued, Worked, WorkedBy
<1>2. CASE ClientStep
  BY <1>1, <1>2 DEF ClientStep, Connect, Leave, Send
<1>3. CASE LoopStep
  BY <1>3, LoopAbandons
<1>4. ASSUME NEW w \in Workers, WorkerStep(w) PROVE MayAbandon(f)
  BY <1>4, WorkAbandons
<1>5. CASE UNCHANGED vars
  BY <1>1, <1>5 DEF vars
<1> QED
  BY <1>2, <1>3, <1>4, <1>5, Zenon DEF Next

\* The hand-over of a connection, from epoll to the loop, the queue and a
\* worker and back (eventLoop, append, read_once, sendData), has no gap but
\* those NobodyAbandoned names.
THEOREM OnlyNamedGaps == Spec => NobodyAbandoned
<1>1. ServerInv /\ HeldInv /\ [Next]_vars =>
        [\A f \in Fds : InService(f) /\ ~InService(f)' =>
           peer'[f] = NoClient \/ MayAbandon(f)]_vars
  BY AbandonStep
<1> QED
  BY Invariance, HeldInit, HeldStep, <1>1, PTL DEF Spec, NobodyAbandoned
=============================================================================
