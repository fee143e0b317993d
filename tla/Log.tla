--------------------------------- MODULE Log ---------------------------------
(***************************************************************************)
(* Log (log/log.h, log/log.cpp): threads write lines with the LOG_ macros, *)
(* write_log() followed by flush(), directly (synchronous) or through a    *)
(* block_queue that a thread of its own empties (asynchronous).            *)
(*                                                                         *)
(* m_mutex is held for one critical section at a time and released between *)
(* them, so that a critical section is one action.  The queue's operations *)
(* are atomic and keep what BoundedQueue promises (module BlockQueue).     *)
(* The model starts when init() has returned true.                         *)
(*                                                                         *)
(* A writer: idle -> count -> format -> direct -> flush -> idle            *)
(*                              (async: -> full -> push or direct)         *)
(***************************************************************************)
EXTENDS Integers, FiniteSets, SequencesExt

CONSTANTS Writers,     \* the threads that log
          MaxQueue,    \* max_queue_size, when asynchronous
          SplitLines,  \* m_split_lines
          MaxDay,      \* bound: days that pass
          Mday,        \* tm_mday: which day of its month a day is
          MaxLines,    \* bound: lines logged
          NoLine

Days == 1..MaxDay

\* Line n of writer w, stamped with the day its write_log() read.
Lines == [w : Writers, n : 1..MaxLines, day : Days]

ASSUME LogAssumption ==
  /\ IsFiniteSet(Writers)
  /\ MaxQueue \in Nat \ {0}
  /\ SplitLines \in Nat \ {0}
  /\ MaxDay \in Nat \ {0} /\ MaxLines \in Nat
  /\ Mday \in [Days -> Nat \ {0}]
  /\ NoLine \notin Lines

\* A file has the whole date in its name.
NULL  == [day |-> 0, part |-> 0]
Files == [day : Days, part : 0..MaxLines] \cup {NULL}

\* What reached a file, and whether its writer put it there itself.
Records == [line : Lines, file : Files, direct : BOOLEAN]

VARIABLES day,      \* the day it is
          isAsync,  \* m_is_async
          flusher,  \* the thread of flush_log_thread exists
          mFp,      \* m_fp: the file being written, or NULL
          mToday,   \* m_today, a day of the month
          mCount,   \* m_count
          mBuf,     \* m_buf: the line formatted last
          queue,    \* m_log_queue
          pc,       \* per writer, its stage in a LOG_ macro
          line,     \* per writer, the line it is logging
          str,      \* per writer, log_str
          single,   \* the flush thread's single_log
          stdio,    \* what is in the buffer of m_fp
          disk,     \* what has been flushed to files, in that order
          alive     \* the process has not been ended

fileVars  == <<mFp, mToday, mCount, stdio, disk>>
writeVars == <<pc, line, str, mBuf>>
vars == <<day, isAsync, flusher, fileVars, writeVars, queue, single, alive>>

Init ==
  /\ day = 1
  /\ isAsync \in BOOLEAN
  /\ flusher \in (IF isAsync THEN BOOLEAN ELSE {FALSE})
  /\ mFp = [day |-> day, part |-> 0]
  /\ mToday = Mday[day]
  /\ mCount = 0
  /\ mBuf = NoLine
  /\ queue = <<>>
  /\ pc = [w \in Writers |-> "idle"]
  /\ line = [w \in Writers |-> NoLine]
  /\ str = [w \in Writers |-> NoLine]
  /\ single = NoLine
  /\ stdio = <<>>
  /\ disk = <<>>
  /\ alive = TRUE
-----------------------------------------------------------------------------
At(w, stage)   == alive /\ pc[w] = stage
Goto(w, stage) == pc' = [pc EXCEPT ![w] = stage]

\* How many lines writer w has begun.
Begun(w) == IF line[w] = NoLine THEN 0 ELSE line[w].n
Logged   == {k \in Writers \X (1..MaxLines) : k[2] <= Begun(k[1])}

Midnight ==
  /\ day < MaxDay
  /\ day' = day + 1
  /\ UNCHANGED <<isAsync, flusher, fileVars, writeVars, queue, single, alive>>

\* write_log() reads the clock before it has the mutex.
Call(w) ==
  /\ At(w, "idle")
  /\ Cardinality(Logged) < MaxLines
  /\ line' = [line EXCEPT ![w] = [w |-> w, n |-> Begun(w) + 1, day |-> day]]
  /\ Goto(w, "count")
  /\ UNCHANGED <<day, isAsync, flusher, fileVars, str, mBuf, queue, single, alive>>

\* fflush and fclose of m_fp, which ends the process if it is NULL.
CloseFile == stdio' = <<>> /\ disk' = disk \o stdio

\* Only days of the month are compared.
NewDay(w) == mToday # Mday[line[w].day]

\* A new day starts its first file, SplitLines lines start the day's next
\* one; fopen may fail.
NextFileUnnumbered(w) == [day |-> line[w].day, part |-> 0]
NextFileOfToday(w) == [day  |-> day,
                       part |-> IF NewDay(w) THEN 0 ELSE (mCount + 1) \div SplitLines]
NextFile(w) == [day  |-> line[w].day,
                part |-> IF NewDay(w) THEN 0 ELSE (mCount + 1) \div SplitLines]
Rotates(w) == NewDay(w) \/ (mCount + 1) % SplitLines = 0

Count(w) ==
  /\ At(w, "count")
  /\ IF ~Rotates(w)
     THEN mCount' = mCount + 1 /\ UNCHANGED <<mFp, mToday, stdio, disk, alive>>
     ELSE /\ alive' = (mFp # NULL)
          /\ CloseFile
          /\ mFp' \in {NextFile(w), NULL}
          /\ mToday' = Mday[line[w].day]
          /\ mCount' = IF NewDay(w) THEN 0 ELSE mCount + 1
  /\ Goto(w, "format")
  /\ UNCHANGED <<day, isAsync, flusher, line, str, mBuf, queue, single>>

\* The line is formatted in m_buf, which all threads share, and copied.
Format(w) ==
  /\ At(w, "format")
  /\ mBuf' = line[w]
  /\ str' = [str EXCEPT ![w] = line[w]]
  /\ Goto(w, IF isAsync THEN "full" ELSE "direct")
  /\ UNCHANGED <<day, isAsync, flusher, fileVars, line, queue, single, alive>>

\* m_log_queue->full(), and then, in a step of its own, push(), whose answer
\* is ignored.
Full == Len(queue) >= MaxQueue
AcceptsAlways == TRUE
Accepts == Len(queue) < MaxQueue
InHandShared(w) == mBuf
InHand(w) == str[w]

AskFull(w) ==
  /\ At(w, "full")
  /\ Goto(w, IF Full THEN "direct" ELSE "push")
  /\ UNCHANGED <<day, isAsync, flusher, fileVars, line, str, mBuf, queue, single,
                 alive>>

HandedOver(w) == Goto(w, "flush") /\ str' = [str EXCEPT ![w] = NoLine]

Push(w) ==
  /\ At(w, "push")
  /\ queue' = IF Accepts THEN Append(queue, InHand(w)) ELSE queue
  /\ HandedOver(w)
  /\ UNCHANGED <<day, isAsync, flusher, fileVars, line, mBuf, single, alive>>

\* fputs(s, m_fp), which ends the process if m_fp is NULL.
Fputs(s, directly) ==
  IF mFp = NULL
  THEN alive' = FALSE /\ UNCHANGED stdio
  ELSE /\ stdio' = Append(stdio, [line |-> s, file |-> mFp, direct |-> directly])
       /\ UNCHANGED alive

Direct(w) ==
  /\ At(w, "direct")
  /\ Fputs(InHand(w), TRUE)
  /\ HandedOver(w)
  /\ UNCHANGED <<day, isAsync, flusher, mFp, mToday, mCount, disk, line, mBuf,
                 queue, single>>

\* flush(), the second half of the macro.
FlushNothing(w) ==
  /\ At(w, "flush")
  /\ Goto(w, "idle")
  /\ UNCHANGED <<day, isAsync, flusher, fileVars, line, str, mBuf, queue, single,
                 alive>>

Flush(w) ==
  /\ At(w, "flush")
  /\ CloseFile
  /\ Goto(w, "idle")
  /\ UNCHANGED <<day, isAsync, flusher, mFp, mToday, mCount, line, str, mBuf, queue,
                 single, alive>>

\* The flush thread: pop(single_log), then fputs under the mutex.
NextToPopNewest == Len(queue)
NextToPop == 1
MayTakeWhenFull == Full
MayTake == queue # <<>>

FlushPop ==
  /\ alive /\ flusher
  /\ single = NoLine
  /\ MayTake
  /\ single' = queue[NextToPop]
  /\ queue' = RemoveAt(queue, NextToPop)
  /\ UNCHANGED <<day, isAsync, flusher, fileVars, writeVars, alive>>

FlushPut ==
  /\ alive
  /\ single # NoLine
  /\ Fputs(single, FALSE)
  /\ single' = IF alive' THEN NoLine ELSE single
  /\ UNCHANGED <<day, isAsync, flusher, mFp, mToday, mCount, disk, writeVars, queue>>

WriterProgress(w) ==
  Count(w) \/ Format(w) \/ AskFull(w) \/ Push(w) \/ Direct(w) \/ Flush(w)

Next ==
  \/ Midnight \/ FlushPop \/ FlushPut
  \/ \E w \in Writers : Call(w) \/ WriterProgress(w)

Spec == Init /\ [][Next]_vars

\* Both kinds of thread are scheduled; logging and midnights are not owed.
FairSpec ==
  /\ Spec
  /\ WF_vars(FlushPop \/ FlushPut)
  /\ \A w \in Writers : WF_vars(WriterProgress(w))
-----------------------------------------------------------------------------
Stages == {"idle", "count", "format", "full", "push", "direct", "flush"}

TypeOK ==
  /\ day \in Days
  /\ isAsync \in BOOLEAN /\ flusher \in BOOLEAN /\ alive \in BOOLEAN
  /\ mFp \in Files
  /\ mToday \in {Mday[d] : d \in Days}
  /\ mCount \in 0..MaxLines
  /\ mBuf \in Lines \cup {NoLine}
  /\ queue \in Seq(Lines) /\ Len(queue) <= MaxQueue
  /\ pc \in [Writers -> Stages]
  /\ line \in [Writers -> Lines \cup {NoLine}]
  /\ str \in [Writers -> Lines \cup {NoLine}]
  /\ single \in Lines \cup {NoLine}
  /\ stdio \in Seq(Records) /\ disk \in Seq(Records)

\* What has been handed to a file.
Written == disk \o stdio

\* The lines handed over so far, those on their way to a file last.
OnTheWay == (IF single = NoLine THEN <<>> ELSE <<single>>) \o queue
Trail    == [i \in 1..Len(Written) |-> Written[i].line] \o OnTheWay

\* No line is written twice or in the place of another, although the threads
\* format in one m_buf and hand their lines over on two ways.
EachLineOnce ==
  \A i, j \in 1..Len(Trail) : Trail[i] = Trail[j] => i = j

Returned(w, n) == n < Begun(w) \/ (n = Begun(w) /\ pc[w] = "idle")

\* When a LOG_ macro of a synchronous log is over its line is on the disk,
\* whatever other threads rotated and flushed meanwhile.
ReturnedIsDurable ==
  ~isAsync => \A w \in Writers : \A n \in 1..Begun(w) :
    Returned(w, n) => \E i \in 1..Len(disk) : disk[i].line.w = w /\ disk[i].line.n = n

\* A thread's lines reach the file in the order it logged them, but for those
\* it wrote itself because the queue was full: these overtake queued ones.
OnlyDirectOvertakes ==
  \A i, j \in 1..Len(Trail) :
    /\ i < j
    /\ Trail[i].w = Trail[j].w
    /\ Trail[i].n > Trail[j].n
    => isAsync /\ i <= Len(Written) /\ Written[i].direct

\* Only one thread has logged so far.
LoneWriter == \A v, w \in Writers : Begun(v) > 0 /\ Begun(w) > 0 => v = w

\* Between full() and push() only another writer can take the room: a lone
\* one loses nothing, however slow the flush thread is.
LoneWriterLosesNothing ==
  LoneWriter => \A w \in Writers : \A n \in 1..Begun(w) :
    Returned(w, n) => \E i \in 1..Len(Trail) : Trail[i].w = w /\ Trail[i].n = n

Held(f) == Cardinality({i \in 1..Len(Written) : Written[i].file = f})

\* No line was written on the same day of another month as the one before
\* it (the first: as the log was opened).
Steady ==
  \A i \in 1..Len(Written) :
    LET last == IF i = 1 THEN 1 ELSE Written[i - 1].line.day
    IN  Mday[last] = Mday[Written[i].line.day] => last = Written[i].line.day

\* A lone writer's lines are filed under their day of the month, and under
\* their day in a log that never rests for exactly a month.
LoneWriterFiled ==
  LoneWriter /\ ~isAsync =>
    /\ \A i \in 1..Len(Written) : Mday[Written[i].file.day] = Mday[Written[i].line.day]
    /\ Steady => \A i \in 1..Len(Written) : Written[i].file.day = Written[i].line.day

\* The lines that may be past the rotation when it happens: one of each
\* thread that logs, and what the queue and the flush thread hold.
Active == {w \in Writers : Begun(w) > 0}
Late   == Cardinality(Active) + (IF isAsync THEN MaxQueue + 1 ELSE 0)

\* m_split_lines (log.h:54) bounds a file, but for late lines, as long as
\* threads cannot disagree about the day: m_split_lines itself for a lone
\* writer of a synchronous log.
FilesBounded ==
  LoneWriter \/ day = 1 => \A f \in Files : Held(f) < SplitLines + Late

\* Lines accepted by the queue are written, if there is a thread to do so.
AcceptedIsWritten ==
  flusher /\ OnTheWay # <<>> ~> OnTheWay = <<>> \/ ~alive

\* The log goes from one day's file to the same day's or a later one, as
\* m_today "records which day it is now" (log.h:57).
RotatesForward ==
  [][mFp # NULL /\ mFp' # NULL => mFp'.day >= mFp.day]_vars
=============================================================================
