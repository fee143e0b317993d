---------------------------- MODULE CommunicateQt ----------------------------
(***************************************************************************)
(* The server for the Qt client (communicate_qt.cpp; the second program of *)
(* learn/servertest.cpp is the same on another port): main() accepts and   *)
(* gives every connection to a thread of its own, handle_client(), which   *)
(* answers the lines it reads.                                             *)
(*                                                                         *)
(* A line is a sequence of cells, the pieces TCP may deliver apart; its    *)
(* last cell carries the newline.  The program starts listening.           *)
(*                                                                         *)
(* A thread:  start -> (read -> reply)* -> close -> done                   *)
(***************************************************************************)
EXTENDS Integers, Sequences, FiniteSetsExt

CONSTANTS Clients,    \* the peers; each connects at most once
          Rude,       \* those that split, join, or do not wait for a reply
          NumFds,     \* descriptors the process may have for clients
          BufSize,    \* BUFFER_SIZE - 1, in cells
          ReplyRoom,  \* the cells of a line that fit a reply
          Script,     \* per client, the lines it sends
          NoClient

ASSUME CommunicateQtAssumption ==
  /\ Rude \subseteq Clients /\ NoClient \notin Clients
  /\ {NumFds, BufSize, ReplyRoom} \subseteq Nat \ {0}
  /\ Script \in [Clients -> Seq([size : Nat \ {0}, utf8 : BOOLEAN])]
  /\ \A c \in Clients \ Rude : \A n \in DOMAIN Script[c] :
       Script[c][n].size <= BufSize /\ Script[c][n].size <= ReplyRoom

Fds == 1..NumFds
Cell(c, n, i) == [n |-> n, i |-> i, newline |-> i = Script[c][n].size]

VARIABLES cstate,   \* per client: "new", "open", "fin", "rst" or "gone"
          next,     \* per client, the line and the cell it sends next
          rx,       \* per client, what the server has not read
          got,      \* per client, the replies it received
          backlog,  \* the connections to accept
          peer,     \* per descriptor, its client or NoClient
          main,     \* the main thread: in "accept", or about to "create"
          newFd,    \* new_fd
          box,      \* per thread, the malloc'ed *client_fd_ptr
          pc,       \* per thread (named for its client), its stage
          cfd,      \* per thread, client_fd
          buffer,   \* per thread, buffer
          alive     \* the process has not been ended

clientVars == <<cstate, next, rx, got>>
mainVars   == <<main, newFd, box>>
threadVars == <<pc, cfd, buffer>>
vars == <<clientVars, backlog, peer, mainVars, threadVars, alive>>

Init ==
  /\ cstate = [c \in Clients |-> "new"]
  /\ next = [c \in Clients |-> [n |-> 1, i |-> 1]]
  /\ rx = [c \in Clients |-> <<>>]
  /\ got = [c \in Clients |-> <<>>]
  /\ backlog = <<>>
  /\ peer = [f \in Fds |-> NoClient]
  /\ main = "accept" /\ newFd = 0 /\ box = [c \in Clients |-> 0]
  /\ pc = [c \in Clients |-> "none"]
  /\ cfd = [c \in Clients |-> 0]
  /\ buffer = [c \in Clients |-> <<>>]
  /\ alive = TRUE
-----------------------------------------------------------------------------
(* The clients *)

Connect(c) ==
  /\ alive /\ cstate[c] = "new"
  /\ cstate' = [cstate EXCEPT ![c] = "open"]
  /\ backlog' = Append(backlog, c)
  /\ UNCHANGED <<next, rx, got, peer, mainVars, threadVars, alive>>

\* A polite client sends a whole line when it has the last one's reply.
Send(c, k) ==
  LET n == next[c].n
      i == next[c].i
  IN  /\ alive /\ cstate[c] = "open"
      /\ n <= Len(Script[c])
      /\ i + k - 1 <= Script[c][n].size
      /\ c \notin Rude => k = Script[c][n].size /\ Len(got[c]) = n - 1
      /\ rx' = [rx EXCEPT ![c] = @ \o [j \in 1..k |-> Cell(c, n, i + j - 1)]]
      /\ next' = [next EXCEPT ![c] = IF i + k - 1 = Script[c][n].size
                                     THEN [n |-> n + 1, i |-> 1]
                                     ELSE [n |-> n, i |-> i + k]]
      /\ UNCHANGED <<cstate, got, backlog, peer, mainVars, threadVars, alive>>

\* A client closes, or resets its connection.
Leave(c) ==
  /\ alive /\ cstate[c] = "open"
  /\ \E s \in {"fin", "rst"} : cstate' = [cstate EXCEPT ![c] = s]
  /\ UNCHANGED <<next, rx, got, backlog, peer, mainVars, threadVars, alive>>
-----------------------------------------------------------------------------
(* main() *)

\* accept() gives the lowest free descriptor; it fails while there is none,
\* and is tried again.
FreeFds == {f \in Fds : peer[f] = NoClient}

Accept ==
  /\ alive /\ main = "accept"
  /\ backlog # <<>> /\ FreeFds # {}
  /\ newFd' = Min(FreeFds)
  /\ peer' = [peer EXCEPT ![newFd'] = Head(backlog)]
  /\ backlog' = Tail(backlog)
  /\ main' = "create"
  /\ UNCHANGED <<clientVars, box, threadVars, alive>>

\* pthread_create() succeeds, and the thread is detached.
Create(c) ==
  /\ alive /\ main = "create" /\ c = peer[newFd]
  /\ box' = [box EXCEPT ![c] = newFd]
  /\ pc' = [pc EXCEPT ![c] = "start"]
  /\ main' = "accept"
  /\ UNCHANGED <<clientVars, backlog, peer, newFd, cfd, buffer, alive>>

\* It fails: the connection is closed.  thread_id, which is detached all the
\* same, is that of an earlier thread or of none, which may end the process.
CreateFailsOpen(c) ==
  /\ alive /\ main = "create" /\ c = peer[newFd]
  /\ alive' \in BOOLEAN
  /\ main' = "accept"
  /\ UNCHANGED <<clientVars, backlog, peer, newFd, box, threadVars>>

CreateFails(c) ==
  /\ alive /\ main = "create" /\ c = peer[newFd]
  /\ peer' = [peer EXCEPT ![newFd] = NoClient]
  /\ cstate' = [cstate EXCEPT ![c] = "gone"]
  /\ alive' \in BOOLEAN
  /\ main' = "accept"
  /\ UNCHANGED <<next, rx, got, backlog, newFd, box, threadVars>>
-----------------------------------------------------------------------------
(* handle_client() *)

At(c, stage) == alive /\ pc[c] = stage
Goto(c, stage) == pc' = [pc EXCEPT ![c] = stage]

\* The client of the thread's descriptor.
Peer(c) == peer[cfd[c]]

ArgumentShared(c) == newFd
Argument(c) == box[c]

Start(c) ==
  /\ At(c, "start")
  /\ cfd' = [cfd EXCEPT ![c] = Argument(c)]
  /\ Goto(c, "read")
  /\ UNCHANGED <<clientVars, backlog, peer, mainVars, buffer, alive>>

\* read(client_fd, buffer, BUFFER_SIZE - 1): a terminating zero has room.
AmountOneMore(c) == Min({BufSize + 1, Len(rx[Peer(c)])})
Amount(c) == Min({BufSize, Len(rx[Peer(c)])})

Read(c) ==
  LET p == Peer(c)
      k == Amount(c)
  IN  /\ At(c, "read")
      /\ rx[p] # <<>>
      /\ buffer' = [buffer EXCEPT ![c] = SubSeq(rx[p], 1, k)]
      /\ rx' = [rx EXCEPT ![p] = SubSeq(@, k + 1, Len(@))]
      /\ Goto(c, "reply")
      /\ UNCHANGED <<cstate, next, got, backlog, peer, mainVars, cfd, alive>>

\* It returns 0 or, after a reset, perhaps with data unread, -1.
ReadEndsAtZero(c) ==
  /\ At(c, "read")
  /\ cstate[Peer(c)] = "fin" /\ rx[Peer(c)] = <<>>
  /\ Goto(c, "close")
  /\ UNCHANGED <<clientVars, backlog, peer, mainVars, cfd, buffer, alive>>

ReadEnds(c) ==
  /\ At(c, "read")
  /\ \/ cstate[Peer(c)] = "fin" /\ rx[Peer(c)] = <<>>
     \/ cstate[Peer(c)] = "rst"
  /\ Goto(c, "close")
  /\ UNCHANGED <<clientVars, backlog, peer, mainVars, cfd, buffer, alive>>

\* The text is cut at the first newline, the rest of the read is dropped.
Newlines(b) == {i \in 1..Len(b) : b[i].newline}
Text(b) == IF Newlines(b) = {} THEN b ELSE SubSeq(b, 1, Min(Newlines(b)))

\* What a text may be taken for.  A piece of a line need not be UTF-8 even if
\* the line is; a reply has room for part of a long text only.
Kinds(c, t) ==
  IF t[1].i > 1 \/ ~t[Len(t)].newline          THEN {"piece", "error"}
  ELSE IF ~Script[Peer(c)][t[1].n].utf8        THEN {"error"}
  ELSE IF Len(t) > ReplyRoom                   THEN {"piece"} ELSE {"line"}

\* The error message is the whole answer.
AnswersBoth(n, kind) == <<[n |-> n, what |-> "error"], [n |-> n, what |-> kind]>>
Answers(n, kind) == <<[n |-> n, what |-> kind]>>

\* send(): a peer that has closed resets; to one that has reset it fails, or
\* raises SIGPIPE, which ends the process.
Reply(c) ==
  LET p == Peer(c)
  IN  /\ At(c, "reply")
      /\ \E kind \in Kinds(c, Text(buffer[c])) :
           got' = IF cstate[p] = "open"
                  THEN [got EXCEPT ![p] = @ \o Answers(buffer[c][1].n, kind)] ELSE got
      /\ cstate' = IF cstate[p] = "fin" THEN [cstate EXCEPT ![p] = "rst"] ELSE cstate
      /\ alive' \in IF cstate[p] = "rst" THEN BOOLEAN ELSE {TRUE}
      /\ Goto(c, "read")
      /\ UNCHANGED <<next, rx, backlog, peer, mainVars, cfd, buffer>>

Close(c) ==
  /\ At(c, "close")
  /\ peer' = [peer EXCEPT ![cfd[c]] = NoClient]
  /\ cstate' = [cstate EXCEPT ![Peer(c)] = "gone"]
  /\ Goto(c, "done")
  /\ UNCHANGED <<next, rx, got, backlog, mainVars, cfd, buffer, alive>>

MainStep   == Accept \/ \E c \in Clients : Create(c) \/ CreateFails(c)
Handle(c)  == Start(c) \/ Read(c) \/ ReadEnds(c) \/ Reply(c) \/ Close(c)
ClientStep(c) == Connect(c) \/ Leave(c) \/ \E k \in 1..BufSize : Send(c, k)

Next == MainStep \/ \E c \in Clients : Handle(c) \/ ClientStep(c)

Spec == Init /\ [][Next]_vars

\* main() and the threads are scheduled; clients do what they like.
FairSpec == Spec /\ WF_vars(MainStep) /\ \A c \in Clients : WF_vars(Handle(c))
-----------------------------------------------------------------------------
Cells   == [n : Nat, i : Nat, newline : BOOLEAN]
Answer  == [n : Nat, what : {"line", "piece", "error"}]
Working == {"read", "reply", "close"}

TypeOK ==
  /\ cstate \in [Clients -> {"new", "open", "fin", "rst", "gone"}]
  /\ next \in [Clients -> [n : Nat, i : Nat]]
  /\ rx \in [Clients -> Seq(Cells)] /\ got \in [Clients -> Seq(Answer)]
  /\ backlog \in Seq(Clients)
  /\ peer \in [Fds -> Clients \cup {NoClient}]
  /\ main \in {"accept", "create"} /\ newFd \in Fds \cup {0}
  /\ box \in [Clients -> Fds \cup {0}]
  /\ pc \in [Clients -> Working \cup {"none", "start", "done"}]
  /\ cfd \in [Clients -> Fds \cup {0}]
  /\ buffer \in [Clients -> Seq(Cells)] /\ \A c \in Clients : Len(buffer[c]) <= BufSize
  /\ alive \in BOOLEAN

\* A thread works on the connection it was made for, although main() goes on
\* to accept before the thread has fetched its argument, and descriptors are
\* closed by one thread and given out again by main().
OwnConnection == \A c \in Clients : pc[c] \in Working => Peer(c) = c

\* Every open connection has a thread, or is in the hands of main(): none is
\* left open, whichever call failed.
NoneLeftOpen ==
  \A f \in Fds : peer[f] # NoClient =>
    \/ main = "create" /\ newFd = f
    \/ pc[peer[f]] \in Working \cup {"start"}

\* What a client that sends line by line and waits is owed for line n.
Owed(c, n) == [n |-> n, what |-> IF Script[c][n].utf8 THEN "line" ELSE "error"]

\* Such a client gets exactly one reply to each line, the right one, in
\* order, whatever the others send, split, join or reset.
LineByLine ==
  \A c \in Clients \ Rude : \A k \in 1..Len(got[c]) : got[c][k] = Owed(c, k)

\* A polite client, once it has a thread, is answered, unless it leaves or
\* the process ends; and a thread ends when its client leaves.
Served ==
  \A c \in Clients :
    /\ c \notin Rude => \A n \in DOMAIN Script[c] :
         next[c].n > n /\ pc[c] = "read" ~> Len(got[c]) >= n \/ cstate[c] # "open" \/ ~alive
    /\ cstate[c] \in {"fin", "rst"} /\ pc[c] \in Working ~> pc[c] = "done" \/ ~alive
=============================================================================
