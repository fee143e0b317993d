------------------------ MODULE CommunicateQt_proofs ------------------------
(***************************************************************************)
(* For every number of clients and descriptors and every script: the       *)
(* threads of communicate_qt work on the connections they were made for,   *)
(* none is left open, and a client that sends line by line and waits gets  *)
(* the one right reply to each line, in order.                             *)
(*                                                                         *)
(* Two inductive invariants: ConnInv says where a client's connection is   *)
(* on its way from the backlog to a thread, TalkInv where the one line of  *)
(* a polite client is on its way from the socket to the reply.             *)
(***************************************************************************)
EXTENDS CommunicateQt, FiniteSetTheorems, SequenceTheorems, WellFoundedInduction,
        TLAPS

\* The connection main() is about to give to a thread.
Handing == main = "create" =>
  newFd \in Fds /\ peer[newFd] \in Clients /\ pc[peer[newFd]] = "none"

\* A client has one descriptor at most, none before it is accepted and none
\* after it is gone; a client in the backlog is there once.
OneFd == \A f, g \in Fds : peer[f] = peer[g] /\ peer[f] # NoClient => f = g

InBacklog(c) == \E i \in 1..Len(backlog) : backlog[i] = c
Once    == \A i, j \in 1..Len(backlog) : backlog[i] = backlog[j] => i = j
Waiting ==
  \A c \in Clients : InBacklog(c) =>
    /\ cstate[c] \in {"open", "fin", "rst"} /\ pc[c] = "none"
    /\ \A f \in Fds : peer[f] # c

Unconnected ==
  \A c \in Clients : cstate[c] \in {"new", "gone"} =>
    /\ \A f \in Fds : peer[f] # c
    /\ cstate[c] = "new" => pc[c] = "none"

\* The thread's descriptor: passed in the box, then its own.
Passed == \A c \in Clients : pc[c] = "start" => box[c] \in Fds /\ peer[box[c]] = c
Owned  == \A c \in Clients : pc[c] \in Working => cfd[c] \in Fds /\ peer[cfd[c]] = c

\* What is to be answered has been read.
Something == \A c \in Clients : pc[c] = "reply" => buffer[c] # <<>>

ConnInv ==
  /\ TypeOK /\ Handing /\ OneFd /\ Once /\ Waiting /\ Unconnected /\ Passed
  /\ Owned /\ Something /\ NoneLeftOpen

\* The cells of line n of client c.
Line(c, n) == [j \in 1..Script[c][n].size |-> Cell(c, n, j)]

\* A polite client has one line under way at most: not yet read, or read and
\* to be answered.  When its connection is over it gets no more replies.
Idle(c) == next[c].n = Len(got[c]) + 1 /\ rx[c] = <<>> /\ pc[c] # "reply"
UnderWay(c) ==
  /\ next[c].n = Len(got[c]) + 2
  /\ Len(got[c]) + 1 \in DOMAIN Script[c]
  /\ \/ rx[c] = Line(c, Len(got[c]) + 1) /\ pc[c] # "reply"
     \/ rx[c] = <<>> /\ pc[c] = "reply" /\ buffer[c] = Line(c, Len(got[c]) + 1)
Over(c) == cstate[c] \in {"fin", "rst", "gone"}

Right(c) == \A k \in 1..Len(got[c]) : got[c][k] = Owed(c, k)
Talk(c)  == Right(c) /\ next[c].i = 1 /\ (Idle(c) \/ UnderWay(c) \/ Over(c))

TalkInv == \A c \in Clients \ Rude : Talk(c)

-----------------------------------------------------------------------------
(* Least elements *)

\* A set of numbers that is not empty has a least element, and that is Min.
LEMMA MinLeast ==
  ASSUME NEW S, S \subseteq Nat, S # {}
  PROVE  Min(S) \in S /\ \A y \in S : Min(S) <= y
<1>1. PICK x \in S : \A y \in S : ~(<<y, x>> \in OpToRel(<, Nat))
  <2>1. IsWellFoundedOn(OpToRel(<, Nat), Nat)
    BY NatLessThanWellFounded, Zenon
  <2> QED
    BY <2>1, WFMin, Zenon
<1>2. \A y \in S : x <= y
  <2> SUFFICES ASSUME NEW y \in S, y < x PROVE FALSE
    OBVIOUS
  <2>1. <<y, x>> \in Nat \X Nat /\ <<y, x>>[1] < <<y, x>>[2]
    OBVIOUS
  <2>2. <<y, x>> \in OpToRel(<, Nat)
    BY <2>1, Zenon DEF OpToRel
  <2> QED
    BY <1>1, <2>2, Zenon
<1> QED
  BY <1>2 DEF Min

\* accept() finds a descriptor that is free.
LEMMA FreeFd == FreeFds # {} => Min(FreeFds) \in Fds /\ peer[Min(FreeFds)] = NoClient
<1>1. FreeFds \subseteq Nat
  BY CommunicateQtAssumption DEF FreeFds, Fds
<1> QED
  BY <1>1, MinLeast DEF FreeFds

\* What read() takes of a stream that holds something: a part of it, the
\* whole if that fits the buffer.
LEMMA AmountTaken ==
  ASSUME NEW c, Len(rx[Peer(c)]) \in Nat \ {0}
  PROVE  /\ Amount(c) \in 1..Len(rx[Peer(c)]) /\ Amount(c) <= BufSize
         /\ Len(rx[Peer(c)]) <= BufSize => Amount(c) = Len(rx[Peer(c)])
<1> DEFINE S == {BufSize, Len(rx[Peer(c)])}
<1>1. S \subseteq Nat \ {0} /\ S # {}
  BY CommunicateQtAssumption
<1>2. Min(S) \in S /\ \A y \in S : Min(S) <= y
  BY <1>1, MinLeast
<1>3. Amount(c) = Min(S)
  BY DEF Amount
<1> HIDE DEF S
<1>4. Amount(c) \in S /\ Amount(c) <= BufSize /\ Amount(c) <= Len(rx[Peer(c)])
  BY <1>2, <1>3 DEF S
<1> QED
  BY <1>1, <1>4 DEF S

-----------------------------------------------------------------------------
(* The connections *)

\* Initially no descriptor is given out and no client waits.
LEMMA ConnInit == Init => ConnInv
<1> SUFFICES ASSUME Init PROVE ConnInv
  OBVIOUS
<1>1. alive \in BOOLEAN
  BY Zenon DEF Init
<1>2. /\ Len(<<>>) = 0 /\ \A S : <<>> \in Seq(S)
      /\ \A c \in Clients : Len(buffer[c]) <= BufSize
  BY EmptySeq, CommunicateQtAssumption DEF Init
<1>3. TypeOK
  BY <1>1, <1>2 DEF Init, TypeOK
<1>4. \A f \in Fds : peer[f] \notin Clients /\ peer[f] = NoClient
  BY CommunicateQtAssumption DEF Init
<1>5. Handing /\ OneFd /\ Once /\ Waiting /\ Unconnected
  BY <1>2, <1>4 DEF Init, Handing, OneFd, Once, Waiting, InBacklog, Unconnected
<1>6. Passed /\ Owned /\ Something /\ NoneLeftOpen
  BY <1>4 DEF Init, Passed, Owned, Something, NoneLeftOpen, Working
<1> QED
  BY <1>3, <1>5, <1>6 DEF ConnInv

\* A client connects: it goes to the end of the backlog.
LEMMA ConnConnect ==
  ASSUME ConnInv, NEW c \in Clients, Connect(c)
  PROVE  ConnInv'
<1> USE DEF ConnInv
<1>1. /\ cstate[c] = "new" /\ cstate' = [cstate EXCEPT ![c] = "open"]
      /\ backlog' = Append(backlog, c)
      /\ UNCHANGED <<next, rx, got, peer, main, newFd, box, pc, cfd, buffer>>
  BY DEF Connect, mainVars, threadVars
<1>2. alive' \in BOOLEAN
  BY Zenon DEF Connect, TypeOK
<1>3. /\ backlog' \in Seq(Clients) /\ Len(backlog) \in Nat /\ Len(backlog') = Len(backlog) + 1
      /\ \A i \in 1..Len(backlog) : backlog'[i] = backlog[i] /\ backlog[i] \in Clients
      /\ backlog'[Len(backlog) + 1] = c
  BY <1>1, AppendProperties, LenProperties, ElementOfSeq DEF TypeOK
<1>4. TypeOK'
  BY <1>1, <1>2, <1>3 DEF TypeOK
<1>5. ~InBacklog(c) /\ pc[c] = "none" /\ \A f \in Fds : peer[f] # c
  BY <1>1 DEF Waiting, Unconnected
<1>8. Once'
  <2> SUFFICES ASSUME NEW i \in 1..Len(backlog) + 1, NEW j \in 1..Len(backlog) + 1,
                      backlog'[i] = backlog'[j]
               PROVE  i = j
    BY <1>3 DEF Once
  <2>1. /\ i \in 1..Len(backlog) \/ i = Len(backlog) + 1
        /\ j \in 1..Len(backlog) \/ j = Len(backlog) + 1
    BY <1>3
  <2> QED
    BY <2>1, <1>3, <1>5 DEF Once, InBacklog
<1>9. Waiting'
  <2> SUFFICES ASSUME NEW d \in Clients, InBacklog(d)'
               PROVE  /\ cstate'[d] \in {"open", "fin", "rst"} /\ pc'[d] = "none"
                      /\ \A f \in Fds : peer'[f] # d
    BY DEF Waiting
  <2>1. d = c \/ InBacklog(d)
    BY <1>3 DEF InBacklog
  <2> QED
    BY <1>1, <1>5, <2>1 DEF Waiting, TypeOK
<1>6. Handing' /\ OneFd' /\ Unconnected'
  BY <1>1 DEF Handing, OneFd, Unconnected, TypeOK
<1>7. Passed' /\ Owned' /\ Something' /\ NoneLeftOpen'
  BY <1>1 DEF Passed, Owned, Something, NoneLeftOpen, Working
<1> QED
  BY <1>4, <1>6, <1>7, <1>8, <1>9

\* It sends: the connections stay where they are.
LEMMA ConnSend ==
  ASSUME ConnInv, NEW c \in Clients, NEW k \in 1..BufSize, Send(c, k)
  PROVE  ConnInv'
<1> USE DEF ConnInv
<1> DEFINE n == next[c].n
           i == next[c].i
           new == [j \in 1..k |-> Cell(c, n, i + j - 1)]
<1>1. /\ rx' = [rx EXCEPT ![c] = @ \o new]
      /\ next' = [next EXCEPT ![c] = IF i + k - 1 = Script[c][n].size
                                     THEN [n |-> n + 1, i |-> 1]
                                     ELSE [n |-> n, i |-> i + k]]
      /\ UNCHANGED <<cstate, got, backlog, peer, main, newFd, box, pc, cfd, buffer>>
  BY DEF Send, mainVars, threadVars
<1>2. alive' \in BOOLEAN
  BY Zenon DEF Send, TypeOK
<1>3. k \in Nat /\ n \in Nat /\ i \in Nat /\ \A j \in 1..k : i + j - 1 \in Nat /\ i + k \in Nat
  BY CommunicateQtAssumption DEF TypeOK
<1>4. \A j \in 1..k : Cell(c, n, i + j - 1) \in Cells
  BY <1>3 DEF Cell, Cells
<1>5. new \in Seq(Cells)
  BY <1>3, <1>4, IsASeq
<1>6. rx[c] \o new \in Seq(Cells)
  BY <1>5, ConcatProperties DEF TypeOK
<1> HIDE DEF new, n, i
<1>7. rx' \in [Clients -> Seq(Cells)]
  BY <1>1, <1>6 DEF TypeOK
<1>8. next' \in [Clients -> [n : Nat, i : Nat]]
  BY <1>1, <1>3 DEF TypeOK
<1>9. TypeOK'
  BY <1>1, <1>2, <1>7, <1>8 DEF TypeOK
<1>10. Handing' /\ OneFd' /\ Once' /\ Waiting' /\ Unconnected'
  BY <1>1 DEF Handing, OneFd, Once, Waiting, InBacklog, Unconnected
<1>11. Passed' /\ Owned' /\ Something' /\ NoneLeftOpen'
  BY <1>1 DEF Passed, Owned, Something, NoneLeftOpen
<1> QED
  BY <1>9, <1>10, <1>11

\* It leaves: its connection is served on until the thread finds out.
LEMMA ConnLeave ==
  ASSUME ConnInv, NEW c \in Clients, Leave(c)
  PROVE  ConnInv'
<1> USE DEF ConnInv
<1>1. PICK s \in {"fin", "rst"} :
        /\ cstate[c] = "open" /\ cstate' = [cstate EXCEPT ![c] = s]
        /\ UNCHANGED <<next, rx, got, backlog, peer, main, newFd, box, pc, cfd, buffer>>
  BY DEF Leave, mainVars, threadVars
<1>2. alive' \in BOOLEAN
  BY Zenon DEF Leave, TypeOK
<1>3. TypeOK'
  BY <1>1, <1>2 DEF TypeOK
<1>5. Handing' /\ OneFd' /\ Once' /\ Waiting' /\ Unconnected'
  <2>1. Once' /\ \A d : InBacklog(d)' <=> InBacklog(d)
    BY <1>1 DEF Once, InBacklog
  <2>2. Waiting' /\ Unconnected'
    BY <1>1, <2>1 DEF Waiting, Unconnected, TypeOK
  <2> QED
    BY <1>1, <2>1, <2>2 DEF Handing, OneFd
<1>6. Passed' /\ Owned' /\ Something' /\ NoneLeftOpen'
  BY <1>1 DEF Passed, Owned, Something, NoneLeftOpen
<1> QED
  BY <1>3, <1>5, <1>6

\* main() takes the first of the backlog to a descriptor nobody has.
LEMMA ConnAccept ==
  ASSUME ConnInv, Accept
  PROVE  ConnInv'
<1> USE DEF ConnInv
<1>1. PICK f : f = Min(FreeFds)
  OBVIOUS
<1>2. PICK c : c = Head(backlog)
  OBVIOUS
<1>3. /\ main = "accept" /\ main' = "create" /\ newFd' = f
      /\ backlog # <<>> /\ backlog' = Tail(backlog)
      /\ peer' = [peer EXCEPT ![f] = c]
      /\ UNCHANGED <<cstate, next, rx, got, box, pc, cfd, buffer>>
  BY <1>1, <1>2 DEF Accept, clientVars, threadVars
<1>4. f \in Fds /\ peer[f] = NoClient
  BY <1>1, FreeFd DEF Accept
<1>5. alive' \in BOOLEAN
  BY Zenon DEF Accept, TypeOK
<1>6. /\ backlog' \in Seq(Clients) /\ Len(backlog') = Len(backlog) - 1
      /\ Len(backlog) \in Nat \ {0} /\ c = backlog[1] /\ c \in Clients
      /\ \A i \in 1..Len(backlog) - 1 : backlog'[i] = backlog[i + 1]
  BY <1>2, <1>3, HeadTailProperties, EmptySeq, LenProperties, ElementOfSeq DEF TypeOK
<1>7. /\ cstate[c] \in {"open", "fin", "rst"} /\ pc[c] = "none"
      /\ \A g \in Fds : peer[g] # c
  BY <1>6 DEF Waiting, InBacklog
<1>8. c # NoClient
  BY <1>6, CommunicateQtAssumption
<1>9. TypeOK'
  BY <1>3, <1>4, <1>5, <1>6 DEF TypeOK
<1>10. Handing' /\ OneFd' /\ Unconnected'
  BY <1>3, <1>4, <1>6, <1>7, <1>8 DEF Handing, OneFd, Unconnected, TypeOK
<1>11. Once'
  <2>1. \A i \in 1..Len(backlog) - 1 : i + 1 \in 1..Len(backlog)
    BY <1>6
  <2> QED
    BY <1>6, <2>1 DEF Once
<1>13. Waiting'
  <2> SUFFICES ASSUME NEW d \in Clients, InBacklog(d)'
               PROVE  /\ cstate'[d] \in {"open", "fin", "rst"} /\ pc'[d] = "none"
                      /\ \A g \in Fds : peer'[g] # d
    BY DEF Waiting
  <2>1. PICK i \in 1..Len(backlog) - 1 : backlog[i + 1] = d
    BY <1>6 DEF InBacklog
  <2>2. i + 1 \in 1..Len(backlog) /\ 1 \in 1..Len(backlog) /\ i + 1 # 1
    BY <1>6
  <2>3. InBacklog(d) /\ d # c
    BY <1>6, <2>1, <2>2 DEF InBacklog, Once
  <2> QED
    BY <1>3, <1>4, <2>3 DEF Waiting, TypeOK
<1>12. Passed' /\ Owned' /\ Something' /\ NoneLeftOpen'
  <2>1. \A g \in Fds : peer[g] # NoClient => peer'[g] = peer[g] /\ g # f
    BY <1>3, <1>4 DEF TypeOK
  <2>2. Passed' /\ Owned' /\ Something'
    BY <1>3, <2>1, CommunicateQtAssumption DEF Passed, Owned, Something, Working
  <2>3. NoneLeftOpen'
    BY <1>3, <1>4, <2>1 DEF NoneLeftOpen, TypeOK
  <2> QED
    BY <2>2, <2>3
<1> QED
  BY <1>9, <1>10, <1>11, <1>12, <1>13

\* pthread_create() succeeds: the thread finds the descriptor in its box.
LEMMA ConnCreate ==
  ASSUME ConnInv, NEW c \in Clients, Create(c)
  PROVE  ConnInv'
<1> USE DEF ConnInv
<1>1. /\ main = "create" /\ c = peer[newFd] /\ main' = "accept"
      /\ box' = [box EXCEPT ![c] = newFd] /\ pc' = [pc EXCEPT ![c] = "start"]
      /\ UNCHANGED <<cstate, next, rx, got, backlog, peer, newFd, cfd, buffer>>
  BY DEF Create, clientVars
<1>2. alive' \in BOOLEAN
  BY Zenon DEF Create, TypeOK
<1>3. newFd \in Fds /\ pc[c] = "none" /\ cstate[c] \notin {"new", "gone"}
  BY <1>1 DEF Handing, Unconnected
<1>4. TypeOK'
  BY <1>1, <1>2, <1>3 DEF TypeOK
<1>5. Handing' /\ OneFd' /\ Unconnected'
  BY <1>1, <1>3 DEF Handing, OneFd, Unconnected, TypeOK
<1>6. Once' /\ Waiting'
  <2>1. ~InBacklog(c)
    BY <1>1, <1>3 DEF Waiting
  <2> QED
    BY <1>1, <2>1 DEF Once, Waiting, InBacklog, TypeOK
<1>7. Passed' /\ Owned' /\ Something' /\ NoneLeftOpen'
  BY <1>1, <1>3, CommunicateQtAssumption
     DEF Passed, Owned, Something, NoneLeftOpen, Working, TypeOK
<1> QED
  BY <1>4, <1>5, <1>6, <1>7

\* It fails: main() closes the connection.
LEMMA ConnCreateFails ==
  ASSUME ConnInv, NEW c \in Clients, CreateFails(c)
  PROVE  ConnInv'
<1> USE DEF ConnInv
<1>1. /\ main = "create" /\ c = peer[newFd] /\ main' = "accept"
      /\ peer' = [peer EXCEPT ![newFd] = NoClient]
      /\ cstate' = [cstate EXCEPT ![c] = "gone"]
      /\ UNCHANGED <<next, rx, got, backlog, newFd, box, pc, cfd, buffer>>
  BY DEF CreateFails, threadVars
<1>2. alive' \in BOOLEAN
  BY Zenon DEF CreateFails, TypeOK
<1>3. newFd \in Fds /\ pc[c] = "none" /\ c # NoClient
  BY <1>1, CommunicateQtAssumption DEF Handing
<1>4. \A f \in Fds : /\ f = newFd => peer'[f] = NoClient
                     /\ f # newFd => peer'[f] = peer[f] /\ peer[f] # c
  BY <1>1, <1>3 DEF OneFd, TypeOK
<1>5. TypeOK'
  BY <1>1, <1>2, <1>3 DEF TypeOK
<1>6. Handing' /\ OneFd'
  BY <1>1, <1>3, <1>4, CommunicateQtAssumption DEF Handing, OneFd
<1>10. Unconnected'
  <2> SUFFICES ASSUME NEW d \in Clients, cstate'[d] \in {"new", "gone"}
               PROVE  (\A f \in Fds : peer'[f] # d) /\ (cstate'[d] = "new" => pc'[d] = "none")
    BY DEF Unconnected
  <2>1. CASE d = c
    BY <1>1, <1>3, <1>4, <2>1
  <2>2. CASE d # c
    <3>1. cstate[d] = cstate'[d]
      BY <1>1, <2>2 DEF TypeOK
    <3> QED
      BY <1>1, <1>4, <3>1, CommunicateQtAssumption DEF Unconnected
  <2> QED
    BY <2>1, <2>2
<1>7. Once' /\ Waiting'
  <2>1. ~InBacklog(c) /\ \A d \in Clients : d # NoClient
    BY <1>1, <1>3, CommunicateQtAssumption DEF Waiting
  <2>2. Once' /\ \A d : InBacklog(d)' <=> InBacklog(d)
    BY <1>1 DEF Once, InBacklog
  <2> QED
    BY <1>1, <1>4, <2>1, <2>2 DEF Waiting, TypeOK
<1>8. Passed' /\ Owned' /\ Something'
  BY <1>1, <1>3, <1>4 DEF Passed, Owned, Something, Working
<1>9. NoneLeftOpen'
  BY <1>1, <1>3, <1>4 DEF NoneLeftOpen
<1> QED
  BY <1>5, <1>6, <1>7, <1>8, <1>9, <1>10

-----------------------------------------------------------------------------
(* The threads *)

\* A thread's client: the one it was made for, neither new nor gone.
LEMMA PeerOfThread ==
  ASSUME ConnInv, NEW c \in Clients, pc[c] \in Working
  PROVE  /\ cfd[c] \in Fds /\ peer[cfd[c]] = c /\ Peer(c) = c
         /\ cstate[c] \in {"open", "fin", "rst"} /\ ~InBacklog(c)
<1>1. cfd[c] \in Fds /\ peer[cfd[c]] = c /\ Peer(c) = c
  BY DEF ConnInv, Owned, Peer
<1>2. cstate[c] \in {"open", "fin", "rst"}
  BY <1>1 DEF ConnInv, Unconnected, TypeOK
<1>3. ~InBacklog(c)
  BY <1>1 DEF ConnInv, Waiting
<1> QED
  BY <1>1, <1>2, <1>3

\* A thread goes from one stage of its work to another and the descriptors
\* and the state of the clients, but for a reset, are as they were.
LEMMA ConnWork ==
  ASSUME ConnInv, NEW c \in Clients, pc[c] \in Working,
         NEW stage \in Working, Goto(c, stage),
         UNCHANGED <<backlog, peer, mainVars, cfd>>,
         cstate' = cstate \/ cstate' = [cstate EXCEPT ![c] = "rst"]
  PROVE  /\ Handing' /\ OneFd' /\ Once' /\ Waiting' /\ Unconnected' /\ Passed' /\ Owned'
         /\ NoneLeftOpen'
<1>1. /\ pc' = [pc EXCEPT ![c] = stage]
      /\ UNCHANGED <<main, newFd, box>>
  BY DEF Goto, mainVars
<1> USE DEF ConnInv
<1>2. stage \notin {"none", "start"} /\ pc[c] \notin {"none", "start"}
  BY DEF Working
<1>3. cstate[c] \in {"open", "fin", "rst"} /\ ~InBacklog(c) /\ cfd[c] \in Fds /\ peer[cfd[c]] = c
  BY PeerOfThread
<1>4. Handing' /\ OneFd'
  BY <1>1, <1>2 DEF Handing, OneFd, TypeOK
<1>5. Once' /\ \A d : InBacklog(d)' <=> InBacklog(d)
  BY DEF Once, InBacklog
<1>6. \A d \in Clients : d # c => cstate'[d] = cstate[d] /\ pc'[d] = pc[d]
  BY <1>1 DEF TypeOK
<1>7. cstate'[c] \in {"open", "fin", "rst"} /\ pc'[c] = stage
  BY <1>1, <1>3 DEF TypeOK
<1>8. Waiting' /\ Unconnected'
  <2>1. Waiting'
    BY <1>3, <1>5, <1>6 DEF Waiting
  <2>2. Unconnected'
    BY <1>6, <1>7 DEF Unconnected
  <2> QED
    BY <2>1, <2>2
<1>9. Passed' /\ Owned'
  BY <1>1, <1>2, <1>3, <1>6, <1>7 DEF Passed, Owned
<1>10. NoneLeftOpen'
  <2> SUFFICES ASSUME NEW f \in Fds, peer[f] # NoClient
               PROVE  (main = "create" /\ newFd = f) \/ pc'[peer[f]] \in Working \cup {"start"}
    BY <1>1 DEF NoneLeftOpen
  <2>1. peer[f] \in Clients
    BY DEF TypeOK
  <2> QED
    BY <1>6, <1>7, <2>1 DEF NoneLeftOpen
<1> QED
  BY <1>4, <1>5, <1>8, <1>9, <1>10

\* It begins with the descriptor in its box.
LEMMA ConnStart ==
  ASSUME ConnInv, NEW c \in Clients, Start(c)
  PROVE  ConnInv'
<1> USE DEF ConnInv
<1>1. /\ pc[c] = "start" /\ pc' = [pc EXCEPT ![c] = "read"]
      /\ cfd' = [cfd EXCEPT ![c] = box[c]]
      /\ UNCHANGED <<cstate, next, rx, got, backlog, peer, main, newFd, box, buffer>>
  BY DEF Start, At, Goto, Argument, clientVars, mainVars
<1>2. alive' \in BOOLEAN
  BY Zenon DEF Start, TypeOK
<1>3. box[c] \in Fds /\ peer[box[c]] = c
  BY <1>1 DEF Passed
<1>4. TypeOK'
  BY <1>1, <1>2, <1>3 DEF TypeOK, Working
<1>5. Once' /\ \A d : InBacklog(d)' <=> InBacklog(d)
  BY <1>1 DEF Once, InBacklog
<1>6. Handing' /\ OneFd' /\ Waiting' /\ Unconnected'
  <2>1. ~InBacklog(c) /\ cstate[c] # "new"
    BY <1>1, <1>3 DEF Waiting, Unconnected
  <2>2. Waiting' /\ Unconnected'
    BY <1>1, <1>5, <2>1 DEF Waiting, Unconnected, TypeOK
  <2> QED
    BY <1>1, <2>2 DEF Handing, OneFd, TypeOK
<1>7. Passed' /\ Owned' /\ Something' /\ NoneLeftOpen'
  BY <1>1, <1>3, CommunicateQtAssumption
     DEF Passed, Owned, Something, NoneLeftOpen, Working, TypeOK
<1> QED
  BY <1>4, <1>5, <1>6, <1>7

\* It reads some of what its client sent.
LEMMA ConnRead ==
  ASSUME ConnInv, NEW c \in Clients, Read(c)
  PROVE  ConnInv'
<1>1. PICK k : k = Amount(c)
  OBVIOUS
<1>2. pc[c] = "read" /\ pc[c] \in Working
  BY DEF Read, At, Working
<1>3. Peer(c) = c
  BY <1>2, PeerOfThread
<1>4. /\ rx[c] # <<>> /\ Goto(c, "reply")
      /\ buffer' = [buffer EXCEPT ![c] = SubSeq(rx[c], 1, k)]
      /\ rx' = [rx EXCEPT ![c] = SubSeq(@, k + 1, Len(@))]
      /\ UNCHANGED <<cstate, next, got, backlog, peer, main, newFd, box, mainVars, cfd>>
  BY <1>1, <1>3 DEF Read, mainVars
<1> USE DEF ConnInv
<1>5. alive' \in BOOLEAN
  BY Zenon DEF Read, TypeOK
<1>6. rx[c] \in Seq(Cells) /\ Len(rx[c]) \in Nat \ {0}
  BY <1>4, EmptySeq, LenProperties DEF TypeOK
<1>7. k \in 1..Len(rx[c]) /\ k <= BufSize
  BY <1>1, <1>3, <1>6, AmountTaken
<1>8. /\ SubSeq(rx[c], 1, k) \in Seq(Cells) /\ Len(SubSeq(rx[c], 1, k)) = k
      /\ SubSeq(rx[c], k + 1, Len(rx[c])) \in Seq(Cells)
  <2>1. \A i \in 1..Len(rx[c]) : rx[c][i] \in Cells
    BY <1>6, ElementOfSeq
  <2>2. /\ \A i \in 1..k : rx[c][i] \in Cells
        /\ \A i \in k + 1..Len(rx[c]) : rx[c][i] \in Cells
    BY <1>6, <1>7, <2>1
  <2> QED
    BY <1>6, <1>7, <2>2, SubSeqProperties
<1>9. TypeOK'
  <2>1. buffer' \in [Clients -> Seq(Cells)] /\ rx' \in [Clients -> Seq(Cells)]
    BY <1>4, <1>8 DEF TypeOK
  <2>2. \A d \in Clients : Len(buffer'[d]) <= BufSize
    BY <1>4, <1>7, <1>8 DEF TypeOK
  <2>3. pc' \in [Clients -> Working \cup {"none", "start", "done"}]
    BY <1>4 DEF TypeOK, Goto, Working
  <2> QED
    BY <1>4, <1>5, <2>1, <2>2, <2>3 DEF TypeOK
<1>10. Something'
  <2>1. SubSeq(rx[c], 1, k) # <<>>
    BY <1>7, <1>8, EmptySeq
  <2> QED
    BY <1>4, <2>1 DEF Something, Goto, TypeOK
<1>11. "reply" \in Working
  BY DEF Working
<1> QED
  BY <1>2, <1>4, <1>9, <1>10, <1>11, ConnWork

\* It finds that its client has left.
LEMMA ConnReadEnds ==
  ASSUME ConnInv, NEW c \in Clients, ReadEnds(c)
  PROVE  ConnInv'
<1>1. /\ pc[c] \in Working /\ Goto(c, "close") /\ "close" \in Working
      /\ UNCHANGED <<cstate, next, rx, got, backlog, peer, main, newFd, box, mainVars,
                     cfd, buffer>>
  BY DEF ReadEnds, At, Working, clientVars, mainVars
<1> USE DEF ConnInv
<1>2. alive' \in BOOLEAN
  BY Zenon DEF ReadEnds, TypeOK
<1>3. TypeOK'
  BY <1>1, <1>2 DEF TypeOK, Goto
<1>4. Something'
  BY <1>1 DEF Something, Goto, TypeOK
<1> QED
  BY <1>1, <1>3, <1>4, ConnWork

\* Its answer is one of three, and about the first cell it read.
LEMMA AnswerType ==
  ASSUME ConnInv, NEW c \in Clients, pc[c] = "reply",
         NEW kind \in Kinds(c, Text(buffer[c]))
  PROVE  Answers(buffer[c][1].n, kind) \in Seq(Answer)
<1>1. kind \in {"line", "piece", "error"}
  BY DEF Kinds
<1>2. buffer[c][1].n \in Nat
  <2>1. buffer[c] \in Seq(Cells) /\ buffer[c] # <<>>
    BY DEF ConnInv, Something, TypeOK
  <2>2. buffer[c][1] \in Cells
    BY <2>1, EmptySeq, LenProperties, ElementOfSeq
  <2> QED
    BY <2>2 DEF Cells
<1> QED
  BY <1>1, <1>2, IsASeq DEF Answers, Answer

\* It answers: nothing but the client's replies and its reset is changed.
LEMMA ConnReply ==
  ASSUME ConnInv, NEW c \in Clients, Reply(c)
  PROVE  ConnInv'
<1>1. pc[c] = "reply" /\ pc[c] \in Working /\ "read" \in Working
  BY DEF Reply, At, Working
<1>2. Peer(c) = c /\ cstate[c] \in {"open", "fin", "rst"}
  BY <1>1, PeerOfThread
<1>3. /\ Goto(c, "read")
      /\ cstate' = cstate \/ cstate' = [cstate EXCEPT ![c] = "rst"]
      /\ UNCHANGED <<next, rx, backlog, peer, main, newFd, box, mainVars, cfd, buffer>>
  BY <1>2 DEF Reply, mainVars
<1>4. PICK kind \in Kinds(c, Text(buffer[c])) :
        got' = IF cstate[c] = "open"
               THEN [got EXCEPT ![c] = @ \o Answers(buffer[c][1].n, kind)] ELSE got
  BY <1>2 DEF Reply
<1>5. Answers(buffer[c][1].n, kind) \in Seq(Answer)
  BY <1>1, AnswerType
<1> USE DEF ConnInv
<1>6. alive' \in BOOLEAN
  <2>1. alive' \in IF cstate[c] = "rst" THEN BOOLEAN ELSE {TRUE}
    BY <1>2, Zenon DEF Reply
  <2> QED
    BY <2>1, Zenon
<1>7. got' \in [Clients -> Seq(Answer)]
  <2>1. got[c] \in Seq(Answer)
    BY DEF TypeOK
  <2>2. got[c] \o Answers(buffer[c][1].n, kind) \in Seq(Answer)
    BY <1>5, <2>1, ConcatProperties
  <2> QED
    BY <1>4, <2>2 DEF TypeOK
<1>8. TypeOK'
  BY <1>3, <1>6, <1>7 DEF TypeOK, Goto, Working
<1>9. Something'
  BY <1>3 DEF Something, Goto, TypeOK
<1> QED
  BY <1>1, <1>3, <1>8, <1>9, ConnWork

\* It closes its own connection, and no other.
LEMMA ConnClose ==
  ASSUME ConnInv, NEW c \in Clients, Close(c)
  PROVE  ConnInv'
<1>1. pc[c] = "close" /\ pc[c] \in Working
  BY DEF Close, At, Working
<1>2. PICK f \in Fds : f = cfd[c] /\ peer[f] = c /\ Peer(c) = c /\ ~InBacklog(c)
  BY <1>1, PeerOfThread
<1>3. /\ pc' = [pc EXCEPT ![c] = "done"] /\ peer' = [peer EXCEPT ![f] = NoClient]
      /\ cstate' = [cstate EXCEPT ![c] = "gone"]
      /\ UNCHANGED <<next, rx, got, backlog, main, newFd, box, cfd, buffer>>
  BY <1>2 DEF Close, Goto, mainVars
<1> USE DEF ConnInv
<1>4. alive' \in BOOLEAN
  BY Zenon DEF Close, TypeOK
<1>5. c # NoClient /\ \A d \in Clients : d # NoClient
  BY CommunicateQtAssumption
<1>6. \A g \in Fds : /\ g = f => peer'[g] = NoClient
                     /\ g # f => peer'[g] = peer[g] /\ peer[g] # c
  BY <1>2, <1>3, <1>5 DEF OneFd, TypeOK
<1>7. \A d \in Clients : d # c => cstate'[d] = cstate[d] /\ pc'[d] = pc[d]
  BY <1>3 DEF TypeOK
<1>8. pc'[c] = "done" /\ cstate'[c] = "gone"
  BY <1>3 DEF TypeOK
<1>9. TypeOK'
  BY <1>3, <1>4 DEF TypeOK
<1>10. Once' /\ \A d : InBacklog(d)' <=> InBacklog(d)
  BY <1>3 DEF Once, InBacklog
<1>11. Handing' /\ OneFd'
  BY <1>1, <1>2, <1>3, <1>5, <1>6, <1>7 DEF Handing, OneFd
<1>12. Waiting'
  BY <1>2, <1>5, <1>6, <1>7, <1>10 DEF Waiting
<1>13. Unconnected'
  BY <1>5, <1>6, <1>7, <1>8 DEF Unconnected
<1>14. Passed' /\ Owned' /\ Something'
  BY <1>2, <1>3, <1>5, <1>6, <1>7, <1>8 DEF Passed, Owned, Something, Working
<1>15. NoneLeftOpen'
  <2> SUFFICES ASSUME NEW g \in Fds, peer'[g] # NoClient
               PROVE  (main = "create" /\ newFd = g) \/ pc'[peer'[g]] \in Working \cup {"start"}
    BY <1>3 DEF NoneLeftOpen
  <2>1. peer'[g] = peer[g] /\ peer[g] # c /\ peer[g] \in Clients
    BY <1>6 DEF TypeOK
  <2> QED
    BY <1>7, <2>1 DEF NoneLeftOpen
<1> QED
  BY <1>9, <1>10, <1>11, <1>12, <1>13, <1>14, <1>15

\* Every step keeps the connections in order.
LEMMA ConnStep == ConnInv /\ [Next]_vars => ConnInv'
<1> SUFFICES ASSUME ConnInv, [Next]_vars PROVE ConnInv'
  OBVIOUS
<1>1. CASE Accept
  BY <1>1, ConnAccept
<1>2. ASSUME NEW c \in Clients, Create(c) \/ CreateFails(c)
      PROVE  ConnInv'
  BY <1>2, ConnCreate, ConnCreateFails
<1>3. ASSUME NEW c \in Clients, Handle(c)
      PROVE  ConnInv'
  BY <1>3, ConnStart, ConnRead, ConnReadEnds, ConnReply, ConnClose DEF Handle
<1>4. ASSUME NEW c \in Clients, ClientStep(c)
      PROVE  ConnInv'
  BY <1>4, ConnConnect, ConnLeave, ConnSend DEF ClientStep
<1>5. CASE UNCHANGED vars
  <2>1. /\ UNCHANGED <<cstate, next, rx, got, backlog, peer, main, newFd, box, pc, cfd,
                       buffer>>
    BY <1>5 DEF vars, clientVars, mainVars, threadVars
  <2>2. alive' \in BOOLEAN
    BY <1>5, Zenon DEF vars, ConnInv, TypeOK
  <2>3. TypeOK'
    BY <2>1, <2>2 DEF ConnInv, TypeOK
  <2>4. Handing' /\ OneFd' /\ Once' /\ Waiting' /\ Unconnected'
    BY <2>1 DEF ConnInv, Handing, OneFd, Once, Waiting, InBacklog, Unconnected
  <2>5. Passed' /\ Owned' /\ Something' /\ NoneLeftOpen'
    BY <2>1 DEF ConnInv, Passed, Owned, Something, NoneLeftOpen
  <2> QED
    BY <2>3, <2>4, <2>5 DEF ConnInv
<1> QED
  BY <1>1, <1>2, <1>3, <1>4, <1>5 DEF Next, MainStep

\* ConnInv holds in every reachable state.
LEMMA ConnAlways == Spec => []ConnInv
<1> QED
  BY ConnInit, ConnStep, PTL DEF Spec

\* Every variable of communicate_qt.cpp keeps its type: in particular a read
\* fits the buffer, and descriptors stay within the process's limit.
THEOREM TypesCorrect == Spec => []TypeOK
<1>1. ConnInv => TypeOK
  BY DEF ConnInv
<1> QED
  BY <1>1, ConnAlways, PTL

\* A thread of handle_client() works on the connection main() made it for,
\* although main() goes on to accept before the thread has its argument, and
\* descriptors are closed by one thread and given out again by main().
THEOREM ThreadsOwnConnection == Spec => []OwnConnection
<1>1. ConnInv => OwnConnection
  BY DEF ConnInv, Owned, OwnConnection, Peer
<1> QED
  BY <1>1, ConnAlways, PTL

\* Every open connection has a thread or is in the hands of main(), also when
\* pthread_create() fails.
THEOREM NoConnectionLeftOpen == Spec => []NoneLeftOpen
<1>1. ConnInv => NoneLeftOpen
  BY DEF ConnInv
<1> QED
  BY <1>1, ConnAlways, PTL

-----------------------------------------------------------------------------
(* The conversation of a polite client *)

\* Initially nothing has been said.
LEMMA TalkInit == Init => TalkInv
<1> SUFFICES ASSUME Init, NEW c \in Clients \ Rude PROVE Talk(c)
  BY DEF TalkInv
<1>1. /\ next[c] = [n |-> 1, i |-> 1] /\ got[c] = <<>> /\ rx[c] = <<>> /\ pc[c] = "none"
      /\ Len(<<>>) = 0
  BY EmptySeq DEF Init
<1> QED
  BY <1>1 DEF Talk, Right, Idle

\* A line of a polite client fits the buffer and a reply; its cells are in
\* order, and only the last has the newline.
LEMMA LineProperties ==
  ASSUME NEW c \in Clients \ Rude, NEW n \in DOMAIN Script[c]
  PROVE  /\ Line(c, n) \in Seq(Cells) /\ Len(Line(c, n)) = Script[c][n].size
         /\ Script[c][n].size \in Nat \ {0} /\ n \in Nat
         /\ Script[c][n].size <= BufSize /\ Script[c][n].size <= ReplyRoom
         /\ Script[c][n].utf8 \in BOOLEAN
         /\ \A j \in 1..Script[c][n].size : Line(c, n)[j] = Cell(c, n, j)
<1>1. Script[c] \in Seq([size : Nat \ {0}, utf8 : BOOLEAN])
  BY CommunicateQtAssumption
<1>2. n \in 1..Len(Script[c]) /\ n \in Nat
  BY <1>1, LenProperties
<1>3. Script[c][n] \in [size : Nat \ {0}, utf8 : BOOLEAN]
  BY <1>1, <1>2, ElementOfSeq
<1>4. /\ Script[c][n].size \in Nat \ {0} /\ Script[c][n].utf8 \in BOOLEAN
      /\ Script[c][n].size <= BufSize /\ Script[c][n].size <= ReplyRoom
  BY <1>3, CommunicateQtAssumption
<1>5. \A j \in 1..Script[c][n].size : Cell(c, n, j) \in Cells
  BY <1>2, <1>4 DEF Cell, Cells
<1>6. /\ Line(c, n) \in Seq(Cells) /\ Len(Line(c, n)) = Script[c][n].size
      /\ \A j \in 1..Script[c][n].size : Line(c, n)[j] = Cell(c, n, j)
  BY <1>4, <1>5, IsASeq DEF Line
<1> QED
  BY <1>2, <1>4, <1>6

\* A step that leaves alone what a client has said and heard.
LEMMA TalkKept ==
  ASSUME NEW c \in Clients, Talk(c),
         next'[c] = next[c], rx'[c] = rx[c], got'[c] = got[c],
         pc[c] = "reply" <=> pc'[c] = "reply",
         pc[c] = "reply" => buffer'[c] = buffer[c],
         Over(c) => Over(c)'
  PROVE  Talk(c)'
BY DEF Talk, Right, Idle, UnderWay

\* It sends its next line when it has the replies to all before.
LEMMA TalkSend ==
  ASSUME ConnInv, NEW c \in Clients \ Rude, Talk(c), NEW k \in 1..BufSize, Send(c, k)
  PROVE  Talk(c)'
<1>1. PICK n : n = next[c].n
  OBVIOUS
<1>2. /\ cstate[c] = "open" /\ Len(got[c]) = n - 1 /\ next[c].i = 1 /\ k = Script[c][n].size
      /\ n <= Len(Script[c]) /\ n \in Nat /\ Len(got[c]) \in Nat
  <2>1. next[c] \in [n : Nat, i : Nat] /\ got[c] \in Seq(Answer)
    BY DEF ConnInv, TypeOK
  <2> QED
    BY <1>1, <2>1, LenProperties DEF Send, Talk
<1>3. n = Len(got[c]) + 1 /\ Idle(c)
  BY <1>1, <1>2 DEF Talk, Idle, UnderWay, Over
<1>4. n \in DOMAIN Script[c]
  BY <1>2, <1>3, CommunicateQtAssumption, LenProperties
<1>5. rx'[c] = Line(c, n)
  <2>1. k \in Nat /\ \A j \in 1..k : 1 + j - 1 = j
    BY CommunicateQtAssumption
  <2>2. Line(c, n) = [j \in 1..k |-> Cell(c, n, 1 + j - 1)]
    BY <1>2, <2>1 DEF Line
  <2>3. rx'[c] = <<>> \o [j \in 1..k |-> Cell(c, n, 1 + j - 1)]
    BY <1>1, <1>2, <1>3 DEF Send, Idle, ConnInv, TypeOK
  <2>4. Line(c, n) \in Seq(Cells)
    BY <1>4, LineProperties
  <2> QED
    BY <2>2, <2>3, <2>4, ConcatEmptySeq
<1>6. next'[c] = [n |-> n + 1, i |-> 1]
  <2>1. 1 + k - 1 = k
    BY CommunicateQtAssumption
  <2> QED
    BY <1>1, <1>2, <2>1 DEF Send, ConnInv, TypeOK
<1>7. got' = got /\ pc' = pc /\ pc[c] # "reply"
  BY <1>3 DEF Send, threadVars, Idle
<1>8. UnderWay(c)'
  BY <1>2, <1>3, <1>4, <1>5, <1>6, <1>7 DEF UnderWay
<1> QED
  BY <1>6, <1>7, <1>8 DEF Talk, Right

\* Its thread reads the line, whole, and nothing else.
LEMMA TalkRead ==
  ASSUME ConnInv, NEW c \in Clients \ Rude, Talk(c), Read(c)
  PROVE  Talk(c)'
<1>1. PICK k : k = Amount(c)
  OBVIOUS
<1>2. PICK m : m = Len(got[c]) + 1
  OBVIOUS
<1>3. pc[c] = "read" /\ Peer(c) = c
  BY PeerOfThread DEF Read, At, Working
<1>4. /\ rx[c] # <<>> /\ pc'[c] = "reply" /\ cstate' = cstate /\ next' = next /\ got' = got
      /\ buffer'[c] = SubSeq(rx[c], 1, k) /\ rx'[c] = SubSeq(rx[c], k + 1, Len(rx[c]))
  BY <1>1, <1>3 DEF Read, Goto, ConnInv, TypeOK
<1>5. CASE Over(c)
  BY <1>4, <1>5 DEF Talk, Right, Over
<1>6. CASE ~Over(c)
  <2>1. rx[c] = Line(c, m) /\ m \in DOMAIN Script[c] /\ next[c].n = Len(got[c]) + 2
    BY <1>2, <1>3, <1>4, <1>6 DEF Talk, Idle, UnderWay
  <2>2. /\ Line(c, m) \in Seq(Cells) /\ Len(Line(c, m)) \in Nat \ {0}
        /\ Len(Line(c, m)) <= BufSize
    BY <2>1, LineProperties
  <2>3. k = Len(Line(c, m))
    BY <1>1, <1>3, <2>1, <2>2, AmountTaken
  <2>4. SubSeq(Line(c, m), 1, k) = Line(c, m) /\ SubSeq(Line(c, m), k + 1, k) = <<>>
    BY <2>2, <2>3, SubSeqFull, SubSeqEmpty
  <2>5. UnderWay(c)'
    BY <1>2, <1>4, <2>1, <2>3, <2>4 DEF UnderWay
  <2> QED
    BY <1>4, <2>5 DEF Talk, Right
<1> QED
  BY <1>5, <1>6

\* What is answered is the line, and the answer is what the client is owed.
LEMMA LineAnswered ==
  ASSUME NEW c \in Clients \ Rude, NEW m \in DOMAIN Script[c], Peer(c) = c,
         NEW kind \in Kinds(c, Text(Line(c, m)))
  PROVE  Answers(Line(c, m)[1].n, kind) = <<Owed(c, m)>>
<1>1. PICK size \in Nat \ {0} : size = Script[c][m].size
  BY LineProperties
<1>2. PICK b \in Seq(Cells) : b = Line(c, m)
  BY LineProperties
<1>3. /\ Len(b) = size /\ size <= ReplyRoom /\ Script[c][m].utf8 \in BOOLEAN
      /\ \A j \in 1..size : b[j] = Cell(c, m, j)
  BY <1>1, <1>2, LineProperties
<1>4. \A j \in 1..size : b[j].n = m /\ b[j].i = j /\ (b[j].newline <=> j = size)
  <2> SUFFICES ASSUME NEW j \in 1..size
               PROVE  b[j].n = m /\ b[j].i = j /\ (b[j].newline <=> j = size)
    OBVIOUS
  <2>1. b[j] = [n |-> m, i |-> j, newline |-> j = size]
    BY <1>1, <1>3, Zenon DEF Cell
  <2>2. b[j].n = m /\ b[j].i = j
    BY <2>1
  <2>3. b[j].newline <=> j = size
    <3>1. [n |-> m, i |-> j, newline |-> j = size].newline = (j = size)
      OBVIOUS
    <3> QED
      BY <2>1, <3>1, Zenon
  <2> QED
    BY <2>2, <2>3
<1>5. Newlines(b) = {size}
  BY <1>3, <1>4 DEF Newlines
<1>6. Min({size}) = size
  BY DEF Min
<1>7. Text(b) = b
  <2>1. Text(b) = SubSeq(b, 1, Len(b))
    BY <1>3, <1>5, <1>6 DEF Text
  <2> QED
    BY <2>1, SubSeqFull
<1>8. b[1].n = m /\ b[1].i = 1 /\ b[Len(b)].newline
  BY <1>3, <1>4
<1>9. kind \in IF ~Script[c][m].utf8 THEN {"error"} ELSE {"line"}
  <2>1. kind \in Kinds(c, b)
    BY <1>2, <1>7
  <2>2. ~(b[1].i > 1) /\ ~(Len(b) > ReplyRoom)
    BY <1>3, <1>8, CommunicateQtAssumption
  <2>3. Kinds(c, b) = IF ~Script[c][m].utf8 THEN {"error"} ELSE {"line"}
    BY <1>3, <1>8, <2>2 DEF Kinds
  <2> QED
    BY <2>1, <2>3
<1>10. kind = Owed(c, m).what
  BY <1>3, <1>9 DEF Owed
<1> QED
  BY <1>2, <1>8, <1>10 DEF Answers, Owed

\* Its thread answers the line.
LEMMA TalkReply ==
  ASSUME ConnInv, NEW c \in Clients \ Rude, Talk(c), Reply(c)
  PROVE  Talk(c)'
<1>1. PICK m : m = Len(got[c]) + 1
  OBVIOUS
<1>2. pc[c] = "reply" /\ Peer(c) = c /\ cstate[c] \in {"open", "fin", "rst"}
  BY PeerOfThread DEF Reply, At, Working
<1>3. /\ pc'[c] = "read" /\ next' = next /\ rx' = rx
      /\ cstate[c] = "fin" => cstate'[c] = "rst"
      /\ cstate[c] # "fin" => cstate'[c] = cstate[c]
  BY <1>2 DEF Reply, Goto, ConnInv, TypeOK
<1>4. PICK kind \in Kinds(c, Text(buffer[c])) :
        got' = IF cstate[c] = "open"
               THEN [got EXCEPT ![c] = @ \o Answers(buffer[c][1].n, kind)] ELSE got
  BY <1>2 DEF Reply
<1>5. CASE cstate[c] # "open"
  BY <1>2, <1>3, <1>4, <1>5 DEF Talk, Right, Over
<1>6. CASE cstate[c] = "open"
  <2>1. /\ m \in DOMAIN Script[c] /\ rx[c] = <<>> /\ buffer[c] = Line(c, m)
        /\ next[c].n = m + 1
    <3>1. UnderWay(c) /\ rx[c] = <<>> /\ buffer[c] = Line(c, m)
      BY <1>1, <1>2, <1>6 DEF Talk, Idle, UnderWay, Over
    <3>2. Len(got[c]) \in Nat
      BY LenProperties DEF ConnInv, TypeOK
    <3> QED
      BY <1>1, <3>1, <3>2 DEF UnderWay
  <2>2. got'[c] = got[c] \o <<Owed(c, m)>>
    BY <1>2, <1>4, <1>6, <2>1, LineAnswered DEF ConnInv, TypeOK
  <2>3. got[c] \in Seq(Answer) /\ Owed(c, m) \in Answer
    <3>1. m \in Nat
      BY <2>1, LineProperties
    <3> QED
      BY <3>1 DEF ConnInv, TypeOK, Owed, Answer
  <2>4. /\ Len(got'[c]) = m /\ got'[c][m] = Owed(c, m)
        /\ \A k \in 1..Len(got[c]) : got'[c][k] = got[c][k]
        /\ Len(got[c]) \in Nat
    <3>1. got'[c] = Append(got[c], Owed(c, m))
      BY <2>2, <2>3, AppendIsConcat
    <3> QED
      BY <1>1, <3>1, <2>3, AppendProperties, LenProperties
  <2>5. Right(c)'
    <3>1. \A k \in 1..m : k = m \/ k \in 1..Len(got[c])
      BY <1>1, <2>4
    <3> QED
      BY <2>4, <3>1 DEF Talk, Right, Owed
  <2>6. Idle(c)'
    BY <1>1, <1>3, <2>1, <2>4 DEF Idle
  <2> QED
    BY <1>3, <2>5, <2>6 DEF Talk
<1> QED
  BY <1>5, <1>6

\* Every step keeps the conversation of every polite client.
LEMMA TalkStep == ConnInv /\ TalkInv /\ [Next]_vars => TalkInv'
<1> SUFFICES ASSUME ConnInv, TalkInv, [Next]_vars, NEW d \in Clients \ Rude
             PROVE  Talk(d)'
  BY DEF TalkInv
<1>0. Talk(d)
  BY DEF TalkInv
<1>1. CASE Accept
  BY <1>0, <1>1, TalkKept DEF Accept, clientVars, threadVars, Over
<1>2. ASSUME NEW c \in Clients, Create(c)
      PROVE  Talk(d)'
  <2>1. pc[c] # "reply"
    BY <1>2 DEF Create, ConnInv, Handing
  <2> QED
    BY <1>0, <1>2, <2>1, TalkKept DEF Create, clientVars, Over, ConnInv, TypeOK
<1>3. ASSUME NEW c \in Clients, CreateFails(c)
      PROVE  Talk(d)'
  <2>1. Over(d) => Over(d)'
    BY <1>3 DEF CreateFails, Over, ConnInv, TypeOK
  <2> QED
    BY <1>0, <1>3, <2>1, TalkKept DEF CreateFails, threadVars
<1>4. ASSUME NEW c \in Clients, Start(c)
      PROVE  Talk(d)'
  BY <1>0, <1>4, TalkKept DEF Start, At, Goto, clientVars, Over, ConnInv, TypeOK
<1>5. ASSUME NEW c \in Clients, Read(c)
      PROVE  Talk(d)'
  <2>1. CASE c = d
    BY <1>0, <1>5, <2>1, TalkRead
  <2>2. CASE c # d
    <3>1. Peer(c) = c
      BY <1>5, PeerOfThread DEF Read, At, Working
    <3> QED
      BY <1>0, <1>5, <2>2, <3>1, TalkKept DEF Read, Goto, Over, ConnInv, TypeOK
  <2> QED
    BY <2>1, <2>2
<1>6. ASSUME NEW c \in Clients, ReadEnds(c)
      PROVE  Talk(d)'
  BY <1>0, <1>6, TalkKept DEF ReadEnds, At, Goto, clientVars, Over, ConnInv, TypeOK
<1>7. ASSUME NEW c \in Clients, Reply(c)
      PROVE  Talk(d)'
  <2>1. CASE c = d
    BY <1>0, <1>7, <2>1, TalkReply
  <2>2. CASE c # d
    <3>1. Peer(c) = c
      BY <1>7, PeerOfThread DEF Reply, At, Working
    <3>2. next' = next /\ rx' = rx /\ buffer' = buffer /\ pc'[d] = pc[d]
      BY <1>7, <2>2 DEF Reply, Goto, ConnInv, TypeOK
    <3>3. got'[d] = got[d]
      BY <1>7, <2>2, <3>1 DEF Reply
    <3>4. cstate'[d] = cstate[d]
      BY <1>7, <2>2, <3>1 DEF Reply
    <3> QED
      BY <1>0, <3>2, <3>3, <3>4, TalkKept DEF Over
  <2> QED
    BY <2>1, <2>2
<1>8. ASSUME NEW c \in Clients, Close(c)
      PROVE  Talk(d)'
  <2>1. Over(d) => Over(d)'
    BY <1>8 DEF Close, Over, ConnInv, TypeOK
  <2> QED
    BY <1>0, <1>8, <2>1, TalkKept DEF Close, At, Goto, ConnInv, TypeOK
<1>9. ASSUME NEW c \in Clients, Connect(c)
      PROVE  Talk(d)'
  <2>1. Over(d) => Over(d)'
    BY <1>9 DEF Connect, Over, ConnInv, TypeOK
  <2> QED
    BY <1>0, <1>9, <2>1, TalkKept DEF Connect, threadVars
<1>10. ASSUME NEW c \in Clients, Leave(c)
       PROVE  Talk(d)'
  <2>1. Over(d) => Over(d)'
    BY <1>10 DEF Leave, Over, ConnInv, TypeOK
  <2> QED
    BY <1>0, <1>10, <2>1, TalkKept DEF Leave, threadVars
<1>11. ASSUME NEW c \in Clients, NEW k \in 1..BufSize, Send(c, k)
       PROVE  Talk(d)'
  <2>1. CASE c = d
    BY <1>0, <1>11, <2>1, TalkSend
  <2>2. CASE c # d
    BY <1>0, <1>11, <2>2, TalkKept DEF Send, threadVars, Over, ConnInv, TypeOK
  <2> QED
    BY <2>1, <2>2
<1>12. CASE UNCHANGED vars
  BY <1>0, <1>12, TalkKept DEF vars, clientVars, threadVars, Over
<1> QED
  BY <1>1, <1>2, <1>3, <1>4, <1>5, <1>6, <1>7, <1>8, <1>9, <1>10, <1>11, <1>12
     DEF Next, MainStep, Handle, ClientStep

\* A client that sends line by line and waits for the reply gets exactly one
\* to each line, the right one, in order, whatever the others send, split,
\* join or reset, and however often descriptors are given out again.
THEOREM OneReplyPerLine == Spec => []LineByLine
<1>1. TalkInv => LineByLine
  BY DEF TalkInv, Talk, Right, LineByLine
<1> QED
  BY <1>1, ConnAlways, ConnStep, TalkInit, TalkStep, PTL DEF Spec

=============================================================================
