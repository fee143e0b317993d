----------------------------- MODULE Log_proofs -----------------------------
(***************************************************************************)
(* For every number of writers, every queue and every number of lines to a *)
(* file: no line of a log is written twice, a synchronous log has a line   *)
(* on the disk when its writer goes on, only a line that met a full queue  *)
(* overtakes others, a lone writer loses none of its lines and has them    *)
(* filed by day, and files are bounded.                                    *)
(*                                                                         *)
(* What a writer has begun is followed from its stage to the trail (what   *)
(* has been handed to a file, and what is on the way to one): TrailInv.    *)
(***************************************************************************)
EXTENDS Log, FiniteSetTheorems, SequenceTheorems, TLAPS

-----------------------------------------------------------------------------
(* The invariants *)

\* A writer at work has a line of its own, which it copied when it formatted.
OwnLines ==
  \A w \in Writers :
    /\ line[w] # NoLine => line[w].w = w
    /\ pc[w] # "idle" => line[w] # NoLine
    /\ pc[w] \in {"full", "push", "direct"} => str[w] = line[w]

\* A synchronous log has nothing on its way.
Synchronous ==
  ~isAsync => /\ queue = <<>> /\ single = NoLine
              /\ \A w \in Writers : pc[w] \notin {"full", "push"}

\* The lines counted: those begun whose writer is past write_log()'s first
\* critical section.
Counted == {k \in Logged : ~(k[2] = Begun(k[1]) /\ pc[k[1]] = "count")}

Bounded ==
  /\ Cardinality(Logged) <= MaxLines
  /\ mCount <= Cardinality(Counted)

LinesInv == TypeOK /\ OwnLines /\ Synchronous /\ Bounded

\* A line that its writer has handed over.
Past(x) ==
  x.n < Begun(x.w) \/ (x.n = Begun(x.w) /\ pc[x.w] \in {"flush", "idle"})

\* Line x comes after line y of the same writer.
Later(x, y) == x.w = y.w /\ x.n > y.n

\* The lines on the trail have been handed over, and no two are the same.
TrailPast ==
  /\ \A i \in 1..Len(Written) : Past(Written[i].line)
  /\ \A i \in 1..Len(OnTheWay) : Past(OnTheWay[i])

Same(x, y) == x.w = y.w /\ x.n = y.n
TrailOnce ==
  /\ \A i, j \in 1..Len(Written) : Same(Written[i].line, Written[j].line) => i = j
  /\ \A i \in 1..Len(Written) : \A j \in 1..Len(OnTheWay) :
       ~Same(Written[i].line, OnTheWay[j])

\* The lines on the way are in the order of their writer; a written one that
\* is out of order was written directly.
TrailOrder ==
  /\ \A i, j \in 1..Len(OnTheWay) :
       i < j /\ OnTheWay[i].w = OnTheWay[j].w => OnTheWay[i].n < OnTheWay[j].n
  /\ \A i, j \in 1..Len(Written) :
       i < j /\ Later(Written[i].line, Written[j].line) => isAsync /\ Written[i].direct
  /\ \A i \in 1..Len(Written) : \A j \in 1..Len(OnTheWay) :
       Later(Written[i].line, OnTheWay[j]) => isAsync /\ Written[i].direct

TrailInv == TrailPast /\ TrailOnce /\ TrailOrder

\* Where line n of writer w is.
OnDisk(w, n)    == \E i \in 1..Len(disk) : disk[i].line.w = w /\ disk[i].line.n = n
InWritten(w, n) ==
  \E i \in 1..Len(Written) : Written[i].line.w = w /\ Written[i].line.n = n
InTrail(w, n) ==
  InWritten(w, n) \/ \E i \in 1..Len(OnTheWay) : OnTheWay[i].w = w /\ OnTheWay[i].n = n

\* Of a synchronous log: what is flushed next has been written.
DurableInv ==
  ~isAsync => \A w \in Writers :
    /\ \A n \in 1..Begun(w) : Returned(w, n) => OnDisk(w, n)
    /\ alive /\ pc[w] = "flush" => InWritten(w, Begun(w))

\* Of a lone writer: the room it found in the queue is there when it pushes.
LoneInv ==
  LoneWriter => \A w \in Writers :
    /\ \A n \in 1..Begun(w) : Returned(w, n) => InTrail(w, n)
    /\ alive /\ pc[w] = "flush" => InTrail(w, Begun(w))
    /\ pc[w] = "push" => Len(queue) < MaxQueue

\* Of a lone writer of a synchronous log: m_fp is a file of the day of the
\* month m_today, opened by the line that goes to it next or, if the log is
\* steady, on the day of the last one written.
Pending     == {w \in Writers : pc[w] \in {"format", "full", "push", "direct"}}
LastWritten == IF Len(Written) = 0 THEN 1 ELSE Written[Len(Written)].line.day

Filed ==
  /\ mFp # NULL =>
       /\ mFp.day \in Days /\ Mday[mFp.day] = mToday
       /\ \/ \E w \in Pending : mFp.day = line[w].day
          \/ Steady => mFp.day = LastWritten
  /\ \A w \in Pending : Mday[line[w].day] = mToday
  /\ \A i \in 1..Len(Written) : Mday[Written[i].file.day] = Mday[Written[i].line.day]
  /\ Steady => \A i \in 1..Len(Written) : Written[i].file.day = Written[i].line.day

FiledInv == LoneWriter /\ ~isAsync => Filed

\* As long as threads agree about the day: no line is in a file later than
\* m_fp, and m_fp has a line for each line counted since it was opened, but
\* for those on their way and the late ones.
Agreed     == LoneWriter \/ day = 1
Holding(f) == {i \in 1..Len(Written) : Written[i].file = f}
Onward     == Cardinality(Pending) + Len(OnTheWay)

InTurn ==
  /\ mFp.part = mCount \div SplitLines
  /\ mFp.day \in Days /\ mFp.day <= day /\ Mday[mFp.day] = mToday
  /\ \A w \in Writers : pc[w] = "count" => mFp.day <= line[w].day
  /\ \A i \in 1..Len(Written) :
       \/ Written[i].file.day < mFp.day
       \/ Written[i].file.day = mFp.day /\ Written[i].file.part <= mFp.part
  /\ Cardinality(Holding(mFp)) + Onward <= (mCount % SplitLines) + Late

DaysPast == \A w \in Writers : line[w] # NoLine => line[w].day <= day

Turned ==
  /\ alive /\ mFp # NULL => InTurn
  /\ \A f \in Files : Cardinality(Holding(f)) < SplitLines + Late

TurnInv == DaysPast /\ (Agreed => Turned)

-----------------------------------------------------------------------------
(* Numbers *)

\* A quotient is determined by its remainder's range.
LEMMA Quotient ==
  ASSUME NEW s \in Nat \ {0}, NEW q \in Int, NEW r \in Int, NEW p \in Int, NEW t \in Int,
         0 <= r, r < s, 0 <= t, t < s, s * q + r = s * p + t
  PROVE  q = p
<1>1. s * (q - p) = t - r
  OBVIOUS
<1>2. PICK d \in Int : d = q - p
  OBVIOUS
<1>3. s * d < s /\ s * d > -s
  BY <1>1, <1>2
<1>4. d >= 1 => s * d >= s
  BY SMT
<1>5. d <= -1 => s * d <= -s
  BY SMT
<1> QED
  BY <1>2, <1>3, <1>4, <1>5

\* Quotient and remainder of natural numbers.
LEMMA DivMod ==
  ASSUME NEW s \in Nat \ {0}, NEW a \in Nat
  PROVE  /\ a \div s \in Nat /\ a % s \in 0..s-1 /\ a \div s <= a
         /\ a = s * (a \div s) + (a % s)
<1>1. PICK q \in Int : q = a \div s
  OBVIOUS
<1>2. PICK r \in Int : r = a % s
  OBVIOUS
<1>3. a = s * q + r /\ 0 <= r /\ r < s
  BY <1>1, <1>2
<1>4. q >= 0
  <2>1. q <= -1 => s * q <= -s
    BY SMT
  <2> QED
    BY <1>3, <2>1
<1>5. s * q >= q
  BY <1>4, SMT
<1>6. q <= a
  BY <1>3, <1>5
<1>7. a \div s \in Nat /\ a \div s <= a
  BY <1>1, <1>4, <1>6
<1>8. a % s \in 0..s-1 /\ a = s * (a \div s) + (a % s)
  BY <1>1, <1>2, <1>3
<1> QED
  BY <1>7, <1>8

\* The quotient of the next number is the same, or the remainder starts anew.
LEMMA NextDiv ==
  ASSUME NEW s \in Nat \ {0}, NEW a \in Nat
  PROVE  /\ (a + 1) % s # 0 => (a + 1) % s = (a % s) + 1 /\ (a + 1) \div s = a \div s
         /\ (a + 1) % s = 0 => (a + 1) \div s = (a \div s) + 1
<1>1. PICK q \in Nat : q = a \div s
  BY DivMod
<1>2. PICK r \in 0..s-1 : r = a % s
  BY DivMod
<1>3. PICK p \in Nat : p = (a + 1) \div s
  BY DivMod
<1>4. PICK t \in 0..s-1 : t = (a + 1) % s
  BY DivMod
<1>5. a = s * q + r /\ a + 1 = s * p + t
  BY <1>1, <1>2, <1>3, <1>4, DivMod
<1>6. CASE r + 1 < s
  <2>1. s * q + (r + 1) = s * p + t
    BY <1>5
  <2>2. q = p
    BY <1>6, <2>1, Quotient
  <2>3. t = r + 1
    BY <2>1, <2>2
  <2> QED
    BY <1>1, <1>2, <1>3, <1>4, <2>2, <2>3
<1>7. CASE r + 1 = s
  <2>1. s * (q + 1) + 0 = s * p + t
    BY <1>5, <1>7
  <2>2. q + 1 = p
    BY <2>1, Quotient
  <2>3. t = 0
    BY <2>1, <2>2
  <2> QED
    BY <1>1, <1>2, <1>3, <1>4, <2>2, <2>3
<1> QED
  BY <1>6, <1>7

-----------------------------------------------------------------------------
(* The lines begun and counted *)

\* They are finitely many.
LEMMA LoggedFinite ==
  /\ IsFiniteSet(Logged) /\ Cardinality(Logged) \in Nat
  /\ IsFiniteSet(Counted) /\ Cardinality(Counted) \in Nat
  /\ Cardinality(Counted) <= Cardinality(Logged)
<1>1. IsFiniteSet(1..MaxLines)
  BY FS_Interval, LogAssumption
<1>2. IsFiniteSet(Writers \X (1..MaxLines))
  BY <1>1, FS_Product, LogAssumption
<1>3. Logged \in SUBSET (Writers \X (1..MaxLines)) /\ Counted \in SUBSET Logged
  BY DEF Logged, Counted
<1>4. IsFiniteSet(Logged)
  BY <1>2, <1>3, FS_Subset
<1> QED
  BY <1>3, <1>4, FS_Subset, FS_CardinalityType

\* A writer's lines are among them.
LEMMA BegunBound ==
  ASSUME TypeOK, NEW w \in Writers
  PROVE  Begun(w) \in 0..MaxLines /\ Begun(w) <= Cardinality(Logged)
<1>1. PICK n \in 0..MaxLines : n = Begun(w)
  <2>1. line[w] \in Lines \cup {NoLine}
    BY DEF TypeOK
  <2> QED
    BY <2>1, LogAssumption DEF Begun, Lines
<1>2. {w} \X (1..n) \in SUBSET Logged
  BY <1>1, LogAssumption DEF Logged
<1>3. IsFiniteSet({w}) /\ Cardinality({w}) = 1
  BY FS_Singleton
<1>4. IsFiniteSet(1..n) /\ Cardinality(1..n) = n
  BY FS_Interval, LogAssumption
<1>5. Cardinality({w} \X (1..n)) = n
  <2>1. Cardinality({w} \X (1..n)) = Cardinality({w}) * Cardinality(1..n)
    BY <1>3, <1>4, FS_Product, Zenon
  <2> QED
    BY <1>3, <1>4, <2>1
<1>6. Cardinality({w} \X (1..n)) <= Cardinality(Logged)
  BY <1>2, FS_Subset, LoggedFinite
<1> QED
  BY <1>1, <1>5, <1>6

\* They are the same after a step that neither begins nor counts one.
LEMMA LoggedKept ==
  ASSUME line' = line, \A w \in Writers : pc[w] = "count" <=> pc'[w] = "count"
  PROVE  Logged' = Logged /\ Counted' = Counted /\ \A w : Begun(w)' = Begun(w)
<1>1. \A w : Begun(w)' = Begun(w)
  BY DEF Begun
<1>2. Logged' = Logged
  BY <1>1 DEF Logged
<1>3. Counted' = Counted
  <2>1. \A k \in Logged : k[1] \in Writers
    BY DEF Logged
  <2> QED
    BY <1>1, <1>2, <2>1 DEF Counted
<1> QED
  BY <1>1, <1>2, <1>3

\* A line that a writer begins is one more.
LEMMA LoggedCall ==
  ASSUME LinesInv, NEW w \in Writers, Call(w)
  PROVE  /\ line'[w] \in Lines /\ line'[w].w = w /\ Begun(w)' = Begun(w) + 1
         /\ line'[w].n = Begun(w) + 1 /\ line'[w].day = day
         /\ \A v \in Writers : v # w => line'[v] = line[v] /\ Begun(v)' = Begun(v)
         /\ Cardinality(Logged') = Cardinality(Logged) + 1 /\ Counted' = Counted
<1> USE DEF LinesInv
<1>1. PICK n \in 0..MaxLines : n = Begun(w)
  BY BegunBound
<1>2. n < MaxLines
  BY <1>1, BegunBound, LoggedFinite, LogAssumption DEF Call
<1>3. line'[w] = [w |-> w, n |-> n + 1, day |-> day]
  BY <1>1 DEF Call, TypeOK
<1>4. line'[w] \in Lines
  BY <1>2, <1>3, LogAssumption DEF Lines, TypeOK
<1>5. Begun(w)' = n + 1
  <2>1. line'[w] # NoLine
    BY <1>4, LogAssumption
  <2> QED
    BY <1>3, <2>1 DEF Begun
<1>6. \A v \in Writers : v # w => line'[v] = line[v] /\ Begun(v)' = Begun(v)
  BY DEF Call, TypeOK, Begun
<1>7. Logged' = Logged \cup {<<w, n + 1>>} /\ <<w, n + 1>> \notin Logged
  <2>1. Begun(w)' = n + 1 /\ Begun(w) = n
    BY <1>1, <1>5
  <2>2. \A v \in Writers, i \in 1..MaxLines :
          i <= Begun(v)' <=> i <= Begun(v) \/ (v = w /\ i = n + 1)
    <3> SUFFICES ASSUME NEW v \in Writers, NEW i \in 1..MaxLines
                 PROVE  i <= Begun(v)' <=> i <= Begun(v) \/ (v = w /\ i = n + 1)
      OBVIOUS
    <3>1. CASE v = w
      BY <2>1, <3>1, LogAssumption
    <3>2. CASE v # w
      BY <1>6, <3>2
    <3> QED
      BY <3>1, <3>2
  <2>3. <<w, n + 1>> \in Writers \X (1..MaxLines)
    BY <1>2, LogAssumption
  <2>4. ASSUME NEW k \in Writers \X (1..MaxLines)
        PROVE  k \in Logged' <=> k \in Logged \/ k = <<w, n + 1>>
    <3>1. PICK v \in Writers, i \in 1..MaxLines : k = <<v, i>>
      OBVIOUS
    <3>2. k \in Logged' <=> i <= Begun(v)'
      BY <3>1 DEF Logged
    <3>3. k \in Logged <=> i <= Begun(v)
      BY <3>1 DEF Logged
    <3> QED
      BY <2>2, <3>1, <3>2, <3>3
  <2>5. Logged \subseteq Writers \X (1..MaxLines) /\ Logged' \subseteq Writers \X (1..MaxLines)
    BY DEF Logged
  <2>6. <<w, n + 1>> \notin Logged
    BY <1>1 DEF Logged
  <2> QED
    BY <2>3, <2>4, <2>5, <2>6
<1>8. Cardinality(Logged') = Cardinality(Logged) + 1
  BY <1>7, LoggedFinite, FS_AddElement
<1>9. pc'[w] = "count" /\ pc[w] = "idle" /\ \A v \in Writers : v # w => pc'[v] = pc[v]
  BY DEF Call, At, Goto, TypeOK
<1>10. Counted' = Counted
  <2>1. <<w, n + 1>> \notin Counted' /\ <<w, n + 1>> \notin Counted
    BY <1>5, <1>7, <1>9 DEF Counted
  <2>2. ASSUME NEW k \in Logged
        PROVE  k \in Counted' <=> k \in Counted
    <3>1. PICK v \in Writers, i \in 1..MaxLines : k = <<v, i>> /\ i <= Begun(v)
      BY DEF Logged
    <3>2. k \in Logged'
      BY <1>7
    <3>3. k \in Counted' <=> ~(i = Begun(v)' /\ pc'[v] = "count")
      BY <3>1, <3>2 DEF Counted
    <3>4. k \in Counted <=> ~(i = Begun(v) /\ pc[v] = "count")
      BY <3>1 DEF Counted
    <3>5. CASE v = w
      BY <1>1, <1>5, <1>9, <3>1, <3>3, <3>4, <3>5
    <3>6. CASE v # w
      BY <1>6, <1>9, <3>3, <3>4, <3>6
    <3> QED
      BY <3>5, <3>6
  <2>3. Counted \subseteq Logged /\ Counted' \subseteq Logged'
    BY DEF Counted
  <2> QED
    BY <1>7, <2>1, <2>2, <2>3
<1> QED
  BY <1>1, <1>3, <1>4, <1>5, <1>6, <1>8, <1>10

\* The line that a writer counts had not been counted.
LEMMA CountedOne ==
  ASSUME LinesInv, NEW w \in Writers, Count(w)
  PROVE  /\ Logged' = Logged /\ Cardinality(Counted') = Cardinality(Counted) + 1
         /\ Cardinality(Counted) < MaxLines
<1> USE DEF LinesInv
<1>1. PICK n \in 1..MaxLines : n = Begun(w)
  <2>1. line[w] \in Lines
    BY DEF Count, At, OwnLines, TypeOK
  <2> QED
    BY <2>1, LogAssumption DEF Begun, Lines
<1>2. /\ pc[w] = "count" /\ pc'[w] = "format" /\ line' = line
      /\ \A v \in Writers : v # w => pc'[v] = pc[v]
  BY DEF Count, At, Goto, TypeOK
<1>3. \A v : Begun(v)' = Begun(v)
  BY <1>2 DEF Begun
<1>4. Logged' = Logged
  BY <1>3 DEF Logged
<1>5. <<w, n>> \in Logged /\ <<w, n>> \notin Counted
  BY <1>1, <1>2 DEF Logged, Counted
<1>6. Counted' = Counted \cup {<<w, n>>}
  <2>1. ASSUME NEW k \in Logged
        PROVE  k \in Counted' <=> k \in Counted \/ k = <<w, n>>
    <3>1. PICK v \in Writers, i \in 1..MaxLines : k = <<v, i>>
      BY DEF Logged
    <3>2. k \in Counted' <=> ~(i = Begun(v) /\ pc'[v] = "count")
      BY <1>3, <1>4, <3>1 DEF Counted
    <3>3. k \in Counted <=> ~(i = Begun(v) /\ pc[v] = "count")
      BY <3>1 DEF Counted
    <3>4. CASE v = w
      BY <1>1, <1>2, <3>1, <3>2, <3>3, <3>4
    <3>5. CASE v # w
      BY <1>2, <3>1, <3>2, <3>3, <3>5
    <3> QED
      BY <3>4, <3>5
  <2>2. Counted \subseteq Logged /\ Counted' \subseteq Logged
    BY <1>4 DEF Counted
  <2> QED
    BY <1>5, <2>1, <2>2
<1>7. Cardinality(Counted') = Cardinality(Counted) + 1
  BY <1>5, <1>6, LoggedFinite, FS_AddElement
<1>8. Cardinality(Counted) < MaxLines
  <2>1. Counted \cup {<<w, n>>} \in SUBSET Logged
    BY <1>5 DEF Counted
  <2>2. Cardinality(Counted \cup {<<w, n>>}) <= Cardinality(Logged)
    BY <2>1, LoggedFinite, FS_Subset
  <2> QED
    BY <1>6, <1>7, <2>2, LoggedFinite, LogAssumption DEF Bounded
<1> QED
  BY <1>4, <1>7, <1>8

-----------------------------------------------------------------------------
(* The types, and where a writer's line is *)

LEMMA LinesInit == Init => LinesInv
<1> SUFFICES ASSUME Init PROVE LinesInv
  OBVIOUS
<1>1. /\ isAsync \in BOOLEAN /\ alive \in BOOLEAN
      /\ flusher \in IF isAsync THEN BOOLEAN ELSE {FALSE}
  BY Zenon DEF Init
<1>2. flusher \in BOOLEAN
  BY <1>1, Zenon
<1>3. Len(<<>>) = 0 /\ \A S : <<>> \in Seq(S)
  BY EmptySeq
<1>4. TypeOK
  BY <1>1, <1>2, <1>3, LogAssumption DEF Init, TypeOK, Days, Files, NULL, Stages
<1>5. OwnLines /\ Synchronous
  BY DEF Init, OwnLines, Synchronous
<1>6. Bounded
  <2>1. Logged = {}
    BY DEF Init, Begun, Logged
  <2>2. Counted = {}
    BY <2>1 DEF Counted
  <2> QED
    BY <2>1, <2>2, FS_EmptySet, LogAssumption DEF Bounded, Init
<1> QED
  BY <1>4, <1>5, <1>6 DEF LinesInv

\* What is written is the disk's lines and then the buffer's.
LEMMA WrittenParts ==
  ASSUME TypeOK
  PROVE  /\ Written \in Seq(Records) /\ Len(disk) \in Nat /\ Len(stdio) \in Nat
         /\ Len(Written) = Len(disk) + Len(stdio) /\ Len(Written) \in Nat
         /\ \A i \in 1..Len(disk) : Written[i] = disk[i]
         /\ \A i \in 1..Len(Written) : Written[i] \in Records
BY ConcatProperties, LenProperties, ElementOfSeq DEF TypeOK, Written

\* fflush and fclose leave what is written as it is.
LEMMA CloseKeeps ==
  ASSUME TypeOK, CloseFile
  PROVE  /\ Written' = Written /\ disk' = Written /\ stdio' = <<>>
         /\ stdio' \in Seq(Records) /\ disk' \in Seq(Records)
<1>1. disk' = Written /\ stdio' = <<>>
  BY DEF CloseFile, Written
<1>2. Written \in Seq(Records)
  BY WrittenParts
<1>3. Written' = Written
  BY <1>1, <1>2, ConcatEmptySeq DEF Written
<1> QED
  BY <1>1, <1>2, <1>3, EmptySeq

\* fputs to a file adds a record; without a file it ends the process.
LEMMA FputsAdds ==
  ASSUME TypeOK, NEW s \in Lines, NEW directly \in BOOLEAN, Fputs(s, directly), disk' = disk
  PROVE  /\ alive' \in {alive, FALSE} /\ stdio' \in Seq(Records)
         /\ mFp # NULL => /\ [line |-> s, file |-> mFp, direct |-> directly] \in Records
                          /\ Written' = Append(Written, [line |-> s, file |-> mFp,
                                                         direct |-> directly])
                          /\ alive' = alive
         /\ mFp = NULL => Written' = Written /\ alive' = FALSE
<1>1. CASE mFp = NULL
  <2>1. alive' = FALSE
    BY <1>1, Zenon DEF Fputs
  <2>2. stdio' = stdio
    BY <1>1 DEF Fputs
  <2>3. Written' = Written
    BY <2>2 DEF Written
  <2> QED
    BY <1>1, <2>1, <2>2, <2>3, Zenon DEF TypeOK
<1>2. CASE mFp # NULL
  <2> DEFINE r == [line |-> s, file |-> mFp, direct |-> directly]
  <2>1. r \in Records
    BY DEF Records, TypeOK
  <2>2. stdio' = Append(stdio, r) /\ alive' = alive
    BY <1>2, Zenon DEF Fputs
  <2> HIDE DEF r
  <2>3. stdio \in Seq(Records) /\ disk \in Seq(Records)
    BY DEF TypeOK
  <2>4. stdio' \in Seq(Records) /\ <<r>> \in Seq(Records)
    BY <2>1, <2>2, <2>3, AppendProperties
  <2>5. Written' = Append(Written, r)
    <3>1. disk \o (stdio \o <<r>>) = (disk \o stdio) \o <<r>>
      BY <2>3, <2>4, ConcatAssociative
    <3>2. stdio' = stdio \o <<r>>
      BY <2>1, <2>2, <2>3, AppendIsConcat
    <3>3. Append(Written, r) = Written \o <<r>>
      BY <2>1, WrittenParts, AppendIsConcat
    <3> QED
      BY <3>1, <3>2, <3>3 DEF Written
  <2> QED
    BY <1>2, <2>1, <2>2, <2>4, <2>5, Zenon DEF r
<1> QED
  BY <1>1, <1>2

\* The flush thread takes the first line of the queue.
LEMMA PopTakesFirst ==
  ASSUME TypeOK, FlushPop
  PROVE  /\ single = NoLine /\ queue # <<>> /\ single' = queue[1] /\ single' \in Lines
         /\ queue' = Tail(queue) /\ queue' \in Seq(Lines)
         /\ Len(queue) \in Nat \ {0} /\ Len(queue') = Len(queue) - 1
         /\ \A i \in 1..Len(queue) - 1 : queue'[i] = queue[i + 1]
<1>1. /\ single = NoLine /\ queue # <<>> /\ single' = queue[1]
      /\ queue' = SubSeq(queue, 1, 0) \o SubSeq(queue, 2, Len(queue))
  BY DEF FlushPop, MayTake, NextToPop, RemoveAt
<1>2. queue \in Seq(Lines) /\ Len(queue) \in Nat \ {0}
  BY <1>1, EmptySeq, LenProperties DEF TypeOK
<1>3. Tail(queue) \in Seq(Lines) /\ Tail(queue) = SubSeq(queue, 2, Len(queue))
  BY <1>1, <1>2, HeadTailProperties, TailIsSubSeq
<1>4. queue' = Tail(queue)
  BY <1>1, <1>2, <1>3, SubSeqEmpty, ConcatEmptySeq
<1>5. queue[1] \in Lines
  BY <1>2, ElementOfSeq
<1> QED
  BY <1>1, <1>2, <1>3, <1>4, <1>5, HeadTailProperties

\* What holds of a step that moves one writer from one stage to another, and
\* neither begins nor counts a line.
LEMMA LinesMoved ==
  ASSUME LinesInv, NEW w \in Writers, NEW stage \in Stages, Goto(w, stage),
         UNCHANGED <<isAsync, line>>,
         pc[w] \notin {"idle", "count"}, stage # "count",
         stage \in {"full", "push"} => isAsync,
         stage \in {"full", "push", "direct"} => str'[w] = line[w],
         \A v \in Writers : v # w => str'[v] = str[v],
         ~isAsync => queue' = queue /\ single' = single,
         mCount' = mCount
  PROVE  OwnLines' /\ Synchronous' /\ Bounded' /\ pc' \in [Writers -> Stages]
<1> USE DEF LinesInv
<1>1. /\ pc' \in [Writers -> Stages] /\ pc'[w] = stage
      /\ \A v \in Writers : v # w => pc'[v] = pc[v]
  BY DEF Goto, TypeOK
<1>2. OwnLines'
  <2> SUFFICES ASSUME NEW v \in Writers
               PROVE  /\ line[v] # NoLine => line[v].w = v
                      /\ pc'[v] # "idle" => line[v] # NoLine
                      /\ pc'[v] \in {"full", "push", "direct"} => str'[v] = line[v]
    BY DEF OwnLines
  <2>1. CASE v = w
    BY <1>1, <2>1 DEF OwnLines
  <2>2. CASE v # w
    BY <1>1, <2>2 DEF OwnLines
  <2> QED
    BY <2>1, <2>2
<1>3. Synchronous'
  <2> SUFFICES ASSUME ~isAsync
               PROVE  /\ queue' = <<>> /\ single' = NoLine
                      /\ \A v \in Writers : pc'[v] \notin {"full", "push"}
    BY DEF Synchronous
  <2> QED
    BY <1>1 DEF Synchronous
<1>4. Logged' = Logged /\ Counted' = Counted
  BY <1>1, LoggedKept
<1>5. Bounded'
  BY <1>4 DEF Bounded
<1> QED
  BY <1>1, <1>2, <1>3, <1>5

LEMMA LinesMidnight == LinesInv /\ Midnight => LinesInv'
<1> SUFFICES ASSUME LinesInv, Midnight PROVE LinesInv'
  OBVIOUS
<1> USE DEF LinesInv
<1>1. /\ day < MaxDay /\ day' = day + 1
      /\ UNCHANGED <<mFp, mToday, mCount, stdio, disk, pc, line, str, mBuf, queue, single>>
  BY DEF Midnight, fileVars, writeVars
<1>2. isAsync' = isAsync /\ flusher' = flusher /\ alive' = alive
  BY Zenon DEF Midnight
<1>3. isAsync' \in BOOLEAN /\ flusher' \in BOOLEAN /\ alive' \in BOOLEAN
  BY <1>2, Zenon DEF TypeOK
<1>4. day' \in Days
  BY <1>1, LogAssumption DEF TypeOK, Days
<1>5. TypeOK'
  BY <1>1, <1>3, <1>4 DEF TypeOK
<1>6. OwnLines' /\ Synchronous'
  BY <1>1, <1>2 DEF OwnLines, Synchronous
<1>7. Logged' = Logged /\ Counted' = Counted
  BY <1>1, LoggedKept
<1>8. Bounded'
  BY <1>1, <1>7 DEF Bounded
<1> QED
  BY <1>5, <1>6, <1>8

LEMMA LinesCall ==
  ASSUME LinesInv, NEW w \in Writers, Call(w)
  PROVE  LinesInv'
<1> USE DEF LinesInv
<1>1. /\ pc[w] = "idle" /\ pc' = [pc EXCEPT ![w] = "count"]
      /\ line' = [line EXCEPT ![w] = [w |-> w, n |-> Begun(w) + 1, day |-> day]]
      /\ Cardinality(Logged) < MaxLines
      /\ UNCHANGED <<day, mFp, mToday, mCount, stdio, disk, str, mBuf, queue, single>>
  BY DEF Call, At, Goto, fileVars
<1>2. isAsync' = isAsync /\ flusher' = flusher /\ alive' = alive
  BY Zenon DEF Call
<1>3. isAsync' \in BOOLEAN /\ flusher' \in BOOLEAN /\ alive' \in BOOLEAN
  BY <1>2, Zenon DEF TypeOK
<1>4. line' \in [Writers -> Lines \cup {NoLine}]
  BY <1>1, LoggedCall DEF TypeOK
<1>5. pc' \in [Writers -> Stages]
  BY <1>1 DEF TypeOK, Stages
<1>6. TypeOK'
  BY <1>1, <1>3, <1>4, <1>5 DEF TypeOK
<1>7. OwnLines'
  <2>1. line'[w] # NoLine /\ line'[w].w = w
    BY LoggedCall, LogAssumption
  <2> QED
    BY <1>1, <2>1 DEF OwnLines, TypeOK
<1>8. Synchronous'
  BY <1>1, <1>2 DEF Synchronous, TypeOK
<1>9. Bounded'
  <2>1. Cardinality(Logged') <= MaxLines
    BY <1>1, LoggedCall, LoggedFinite, LogAssumption
  <2> QED
    BY <1>1, <2>1, LoggedCall DEF Bounded
<1> QED
  BY <1>6, <1>7, <1>8, <1>9

LEMMA LinesCount ==
  ASSUME LinesInv, NEW w \in Writers, Count(w)
  PROVE  LinesInv'
<1> USE DEF LinesInv
<1>1. /\ pc[w] = "count" /\ pc' = [pc EXCEPT ![w] = "format"]
      /\ UNCHANGED <<day, line, str, mBuf, queue, single>>
  BY DEF Count, At, Goto
<1>2. isAsync' = isAsync /\ flusher' = flusher
  BY Zenon DEF Count
<1>3. isAsync' \in BOOLEAN /\ flusher' \in BOOLEAN
  BY <1>2, Zenon DEF TypeOK
<1>4. line[w] \in Lines
  BY <1>1 DEF OwnLines, TypeOK
<1>5. mCount \in Nat /\ mCount < MaxLines /\ Cardinality(Counted) \in Nat
  BY CountedOne, LoggedFinite, LogAssumption DEF Bounded, TypeOK
<1>6. mCount' \in {0, mCount + 1}
  BY DEF Count
<1>7. mCount' \in 0..MaxLines
  BY <1>5, <1>6, LogAssumption
<1>8. pc' \in [Writers -> Stages]
  BY <1>1 DEF TypeOK, Stages
<1>9. alive' \in BOOLEAN
  <2>1. CASE Rotates(w)
    <3>1. alive' = (mFp # NULL)
      BY <2>1, Zenon DEF Count
    <3> QED
      BY <3>1, Zenon
  <2>2. CASE ~Rotates(w)
    <3>1. alive' = alive
      BY <2>2, Zenon DEF Count
    <3> QED
      BY <3>1, Zenon DEF TypeOK
  <2> QED
    BY <2>1, <2>2
<1>10. mFp' \in Files /\ mToday' \in {Mday[d] : d \in Days}
      /\ stdio' \in Seq(Records) /\ disk' \in Seq(Records)
  <2>1. CASE ~Rotates(w)
    BY <2>1 DEF Count, TypeOK
  <2>2. CASE Rotates(w)
    <3>1. CloseFile /\ mFp' \in {NextFile(w), NULL} /\ mToday' = Mday[line[w].day]
      BY <2>2 DEF Count
    <3>2. line[w].day \in Days
      BY <1>4 DEF Lines
    <3>3. (mCount + 1) \div SplitLines \in 0..MaxLines
      <4>1. PICK a \in 1..MaxLines : a = mCount + 1
        BY <1>5, LogAssumption
      <4>2. a \div SplitLines \in Nat /\ a \div SplitLines <= a
        BY DivMod, LogAssumption
      <4> QED
        BY <4>1, <4>2, LogAssumption
    <3>4. NextFile(w) \in Files
      BY <3>2, <3>3, LogAssumption DEF NextFile, Files
    <3>5. stdio' \in Seq(Records) /\ disk' \in Seq(Records)
      BY <3>1, CloseKeeps
    <3> QED
      BY <3>1, <3>2, <3>4, <3>5 DEF Files
  <2> QED
    BY <2>1, <2>2
<1>11. TypeOK'
  BY <1>1, <1>3, <1>7, <1>8, <1>9, <1>10 DEF TypeOK
<1>12. OwnLines' /\ Synchronous'
  BY <1>1, <1>2 DEF OwnLines, Synchronous, TypeOK
<1>13. Bounded'
  <2>1. mCount + 1 <= Cardinality(Counted')
    BY <1>5, CountedOne DEF Bounded
  <2>2. mCount' <= Cardinality(Counted')
    BY <1>5, <1>6, <2>1, CountedOne
  <2> QED
    BY <2>2, CountedOne DEF Bounded
<1> QED
  BY <1>11, <1>12, <1>13

LEMMA LinesFormat ==
  ASSUME LinesInv, NEW w \in Writers, Format(w)
  PROVE  LinesInv'
<1> USE DEF LinesInv
<1>1. /\ pc[w] = "format" /\ str' = [str EXCEPT ![w] = line[w]] /\ mBuf' = line[w]
      /\ UNCHANGED <<day, mFp, mToday, mCount, stdio, disk, line, queue, single>>
  BY DEF Format, At, fileVars
<1>2. /\ "full" \in Stages /\ "direct" \in Stages
      /\ str'[w] = line[w] /\ \A v \in Writers : v # w => str'[v] = str[v]
  BY <1>1 DEF Stages, TypeOK
<1>3. isAsync' = isAsync /\ flusher' = flusher /\ alive' = alive
  BY Zenon DEF Format
<1>4. isAsync' \in BOOLEAN /\ flusher' \in BOOLEAN /\ alive' \in BOOLEAN
  BY <1>3, Zenon DEF TypeOK
<1>5. OwnLines' /\ Synchronous' /\ Bounded' /\ pc' \in [Writers -> Stages]
  <2>1. CASE isAsync
    <3>1. Goto(w, "full")
      BY <2>1, Zenon DEF Format
    <3> QED
      BY <1>1, <1>2, <1>3, <2>1, <3>1, LinesMoved
  <2>2. CASE ~isAsync
    <3>1. Goto(w, "direct")
      BY <2>2, Zenon DEF Format
    <3> QED
      BY <1>1, <1>2, <1>3, <3>1, LinesMoved
  <2> QED
    BY <2>1, <2>2
<1>6. TypeOK'
  BY <1>1, <1>4, <1>5 DEF TypeOK
<1> QED
  BY <1>5, <1>6

LEMMA LinesAskFull ==
  ASSUME LinesInv, NEW w \in Writers, AskFull(w)
  PROVE  LinesInv'
<1> USE DEF LinesInv
<1>1. PICK stage \in {"push", "direct"} : stage = IF Full THEN "direct" ELSE "push"
  OBVIOUS
<1>2. /\ pc[w] = "full" /\ Goto(w, stage) /\ stage \in Stages
      /\ UNCHANGED <<day, mFp, mToday, mCount, stdio, disk, line, str, mBuf, queue, single>>
  BY <1>1 DEF AskFull, At, Stages, fileVars
<1>3. isAsync' = isAsync /\ flusher' = flusher /\ alive' = alive
  BY Zenon DEF AskFull
<1>4. isAsync' \in BOOLEAN /\ flusher' \in BOOLEAN /\ alive' \in BOOLEAN
  BY <1>3, Zenon DEF TypeOK
<1>5. OwnLines' /\ Synchronous' /\ Bounded' /\ pc' \in [Writers -> Stages]
  <2>1. isAsync /\ str[w] = line[w]
    BY <1>2 DEF Synchronous, OwnLines
  <2> QED
    BY <1>1, <1>2, <1>3, <2>1, LinesMoved
<1>6. TypeOK'
  BY <1>2, <1>4, <1>5 DEF TypeOK
<1> QED
  BY <1>5, <1>6

\* A line that is handed over is the writer's own.
LEMMA InHandOwn ==
  ASSUME LinesInv, NEW w \in Writers, pc[w] \in {"full", "push", "direct"}
  PROVE  /\ InHand(w) = line[w] /\ line[w] \in Lines /\ line[w].w = w
         /\ Begun(w) = line[w].n
BY DEF LinesInv, OwnLines, TypeOK, InHand, Begun

LEMMA LinesPush ==
  ASSUME LinesInv, NEW w \in Writers, Push(w)
  PROVE  LinesInv'
<1> USE DEF LinesInv
<1>1. /\ pc[w] = "push" /\ Goto(w, "flush") /\ "flush" \in Stages
      /\ str' = [str EXCEPT ![w] = NoLine]
      /\ queue' = IF Accepts THEN Append(queue, InHand(w)) ELSE queue
      /\ UNCHANGED <<day, mFp, mToday, mCount, stdio, disk, line, mBuf, single>>
  BY DEF Push, HandedOver, At, Stages, fileVars
<1>2. isAsync' = isAsync /\ flusher' = flusher /\ alive' = alive
  BY Zenon DEF Push
<1>3. isAsync' \in BOOLEAN /\ flusher' \in BOOLEAN /\ alive' \in BOOLEAN
  BY <1>2, Zenon DEF TypeOK
<1>4. isAsync
  BY <1>1 DEF Synchronous
<1>5. OwnLines' /\ Synchronous' /\ Bounded' /\ pc' \in [Writers -> Stages]
  <2>1. \A v \in Writers : v # w => str'[v] = str[v]
    BY <1>1 DEF TypeOK
  <2> QED
    BY <1>1, <1>2, <1>4, <2>1, LinesMoved
<1>6. queue' \in Seq(Lines) /\ Len(queue') <= MaxQueue
  BY <1>1, InHandOwn, AppendProperties, LenProperties, LogAssumption DEF TypeOK, Accepts
<1>7. TypeOK'
  BY <1>1, <1>3, <1>5, <1>6 DEF TypeOK
<1> QED
  BY <1>5, <1>7

LEMMA LinesDirect ==
  ASSUME LinesInv, NEW w \in Writers, Direct(w)
  PROVE  LinesInv'
<1> USE DEF LinesInv
<1>1. /\ pc[w] = "direct" /\ Goto(w, "flush") /\ "flush" \in Stages
      /\ str' = [str EXCEPT ![w] = NoLine] /\ Fputs(line[w], TRUE)
      /\ UNCHANGED <<day, mFp, mToday, mCount, disk, line, mBuf, queue, single>>
  BY InHandOwn DEF Direct, HandedOver, At, Stages
<1>2. isAsync' = isAsync /\ flusher' = flusher
  BY Zenon DEF Direct
<1>3. alive' \in {alive, FALSE} /\ stdio' \in Seq(Records)
  BY <1>1, InHandOwn, FputsAdds
<1>4. isAsync' \in BOOLEAN /\ flusher' \in BOOLEAN /\ alive' \in BOOLEAN
  BY <1>2, <1>3, Zenon DEF TypeOK
<1>5. OwnLines' /\ Synchronous' /\ Bounded' /\ pc' \in [Writers -> Stages]
  <2>1. \A v \in Writers : v # w => str'[v] = str[v]
    BY <1>1 DEF TypeOK
  <2> QED
    BY <1>1, <1>2, <2>1, LinesMoved
<1>6. TypeOK'
  BY <1>1, <1>3, <1>4, <1>5 DEF TypeOK
<1> QED
  BY <1>5, <1>6

LEMMA LinesFlush ==
  ASSUME LinesInv, NEW w \in Writers, Flush(w)
  PROVE  LinesInv'
<1> USE DEF LinesInv
<1>1. /\ pc[w] = "flush" /\ Goto(w, "idle") /\ "idle" \in Stages /\ CloseFile
      /\ UNCHANGED <<day, mFp, mToday, mCount, line, str, mBuf, queue, single>>
  BY DEF Flush, At, Stages
<1>2. isAsync' = isAsync /\ flusher' = flusher /\ alive' = alive
  BY Zenon DEF Flush
<1>3. isAsync' \in BOOLEAN /\ flusher' \in BOOLEAN /\ alive' \in BOOLEAN
  BY <1>2, Zenon DEF TypeOK
<1>4. OwnLines' /\ Synchronous' /\ Bounded' /\ pc' \in [Writers -> Stages]
  BY <1>1, <1>2, LinesMoved
<1>5. TypeOK'
  BY <1>1, <1>3, <1>4, CloseKeeps DEF TypeOK
<1> QED
  BY <1>4, <1>5

LEMMA LinesFlushPop == LinesInv /\ FlushPop => LinesInv'
<1> SUFFICES ASSUME LinesInv, FlushPop PROVE LinesInv'
  OBVIOUS
<1> USE DEF LinesInv
<1>1. UNCHANGED <<day, mFp, mToday, mCount, stdio, disk, pc, line, str, mBuf>>
  BY DEF FlushPop, fileVars, writeVars
<1>2. isAsync' = isAsync /\ flusher' = flusher /\ alive' = alive
  BY Zenon DEF FlushPop
<1>3. isAsync' \in BOOLEAN /\ flusher' \in BOOLEAN /\ alive' \in BOOLEAN
  BY <1>2, Zenon DEF TypeOK
<1>4. /\ single' \in Lines /\ queue' \in Seq(Lines) /\ queue # <<>>
      /\ Len(queue') <= MaxQueue
  BY PopTakesFirst, LogAssumption DEF TypeOK
<1>5. TypeOK'
  BY <1>1, <1>3, <1>4 DEF TypeOK
<1>6. OwnLines' /\ Synchronous'
  BY <1>1, <1>2, <1>4 DEF OwnLines, Synchronous
<1>7. Logged' = Logged /\ Counted' = Counted
  BY <1>1, LoggedKept
<1>8. Bounded'
  BY <1>1, <1>7 DEF Bounded
<1> QED
  BY <1>5, <1>6, <1>8

LEMMA LinesFlushPut == LinesInv /\ FlushPut => LinesInv'
<1> SUFFICES ASSUME LinesInv, FlushPut PROVE LinesInv'
  OBVIOUS
<1> USE DEF LinesInv
<1>1. /\ single # NoLine /\ Fputs(single, FALSE) /\ single' \in {single, NoLine}
      /\ UNCHANGED <<day, mFp, mToday, mCount, disk, pc, line, str, mBuf, queue>>
  BY DEF FlushPut, writeVars
<1>2. isAsync' = isAsync /\ flusher' = flusher
  BY Zenon DEF FlushPut
<1>3. alive' \in {alive, FALSE} /\ stdio' \in Seq(Records)
  BY <1>1, FputsAdds DEF TypeOK
<1>4. isAsync' \in BOOLEAN /\ flusher' \in BOOLEAN /\ alive' \in BOOLEAN
  BY <1>2, <1>3, Zenon DEF TypeOK
<1>5. TypeOK'
  BY <1>1, <1>3, <1>4 DEF TypeOK
<1>6. OwnLines' /\ Synchronous'
  BY <1>1, <1>2 DEF OwnLines, Synchronous
<1>7. Logged' = Logged /\ Counted' = Counted
  BY <1>1, LoggedKept
<1>8. Bounded'
  BY <1>1, <1>7 DEF Bounded
<1> QED
  BY <1>5, <1>6, <1>8

LEMMA LinesStutter == LinesInv /\ UNCHANGED vars => LinesInv'
<1> SUFFICES ASSUME LinesInv, UNCHANGED vars PROVE LinesInv'
  OBVIOUS
<1> USE DEF LinesInv
<1>1. UNCHANGED <<day, mFp, mToday, mCount, stdio, disk, pc, line, str, mBuf, queue, single>>
  BY DEF vars, fileVars, writeVars
<1>2. isAsync' = isAsync /\ flusher' = flusher /\ alive' = alive
  BY Zenon DEF vars
<1>3. isAsync' \in BOOLEAN /\ flusher' \in BOOLEAN /\ alive' \in BOOLEAN
  BY <1>2, Zenon DEF TypeOK
<1>4. TypeOK'
  BY <1>1, <1>3 DEF TypeOK
<1>5. OwnLines' /\ Synchronous'
  BY <1>1, <1>2 DEF OwnLines, Synchronous
<1>6. Logged' = Logged /\ Counted' = Counted
  BY <1>1, LoggedKept
<1>7. Bounded'
  BY <1>1, <1>6 DEF Bounded
<1> QED
  BY <1>4, <1>5, <1>7

\* Every step keeps LinesInv.
LEMMA LinesStep == LinesInv /\ [Next]_vars => LinesInv'
<1> SUFFICES ASSUME LinesInv, [Next]_vars PROVE LinesInv'
  OBVIOUS
<1>1. CASE Midnight \/ FlushPop \/ FlushPut \/ UNCHANGED vars
  BY <1>1, LinesMidnight, LinesFlushPop, LinesFlushPut, LinesStutter
<1>2. ASSUME NEW w \in Writers, Call(w) \/ WriterProgress(w)
      PROVE  LinesInv'
  BY <1>2, LinesCall, LinesCount, LinesFormat, LinesAskFull, LinesPush, LinesDirect,
     LinesFlush DEF WriterProgress
<1> QED
  BY <1>1, <1>2 DEF Next

LEMMA LinesAlways == Spec => []LinesInv
<1> QED
  BY LinesInit, LinesStep, PTL DEF Spec

\* Every variable of Log keeps its type: m_count counts lines begun, the
\* queue never holds more than max_queue_size, and only lines go to files.
THEOREM TypesCorrect == Spec => []TypeOK
<1>1. LinesInv => TypeOK
  BY DEF LinesInv
<1> QED
  BY <1>1, LinesAlways, PTL

-----------------------------------------------------------------------------
(* The trail *)

\* What is on the way: the flush thread's line, then the queue.
LEMMA WayParts ==
  ASSUME TypeOK
  PROVE  /\ OnTheWay \in Seq(Lines) /\ Len(OnTheWay) \in Nat
         /\ single = NoLine => OnTheWay = queue
         /\ single # NoLine => /\ Len(OnTheWay) = Len(queue) + 1 /\ OnTheWay[1] = single
                               /\ \A i \in 1..Len(queue) : OnTheWay[i + 1] = queue[i]
         /\ \A i \in 1..Len(OnTheWay) : OnTheWay[i] \in Lines
<1>1. queue \in Seq(Lines) /\ Len(queue) \in Nat
  BY LenProperties DEF TypeOK
<1>2. CASE single = NoLine
  <2>1. OnTheWay = queue
    BY <1>1, <1>2, ConcatEmptySeq DEF OnTheWay
  <2> QED
    BY <1>1, <1>2, <2>1, ElementOfSeq
<1>3. CASE single # NoLine
  <2>1. single \in Lines /\ OnTheWay = <<single>> \o queue
    BY <1>3 DEF TypeOK, OnTheWay
  <2>2. <<single>> \in Seq(Lines) /\ Len(<<single>>) = 1 /\ <<single>>[1] = single
    BY <2>1
  <2>3. /\ OnTheWay \in Seq(Lines) /\ Len(OnTheWay) = Len(queue) + 1
        /\ \A i \in 1..Len(OnTheWay) :
             OnTheWay[i] = IF i <= 1 THEN <<single>>[i] ELSE queue[i - 1]
    BY <1>1, <2>1, <2>2, ConcatProperties
  <2>4. OnTheWay[1] = single
    BY <1>1, <2>2, <2>3
  <2>5. \A i \in 1..Len(queue) : OnTheWay[i + 1] = queue[i]
    <3> TAKE i \in 1..Len(queue)
    <3>1. i + 1 \in 1..Len(OnTheWay) /\ ~(i + 1 <= 1) /\ (i + 1) - 1 = i
      BY <1>1, <2>3
    <3> QED
      BY <2>3, <3>1
  <2> QED
    BY <1>1, <1>3, <2>3, <2>4, <2>5, ElementOfSeq
<1> QED
  BY <1>2, <1>3

\* What stays on the way when neither the queue nor single_log changes.
LEMMA WayKept == UNCHANGED <<queue, single>> => OnTheWay' = OnTheWay
BY DEF OnTheWay

\* Taking a line from the queue leaves it on its way.
LEMMA WayPop ==
  ASSUME TypeOK, TypeOK', FlushPop
  PROVE  OnTheWay' = OnTheWay
<1>1. /\ single = NoLine /\ queue # <<>> /\ single' = queue[1] /\ single' \in Lines
      /\ queue' = Tail(queue)
  BY PopTakesFirst
<1>2. OnTheWay = queue
  BY <1>1, WayParts
<1>3. single' # NoLine
  BY <1>1, LogAssumption
<1>4. OnTheWay' = <<Head(queue)>> \o Tail(queue)
  BY <1>1, <1>3 DEF OnTheWay
<1>5. queue \in Seq(Lines)
  BY DEF TypeOK
<1>6. <<Head(queue)>> \o Tail(queue) = queue
  <2>1. PICK h \in Lines : h = Head(queue) /\ h = queue[1]
    BY <1>1
  <2>2. PICK t \in Seq(Lines) : t = Tail(queue)
    BY <1>1, <1>5, HeadTailProperties
  <2>3. Len(queue) \in Nat \ {0} /\ Len(t) = Len(queue) - 1
    BY <1>1, <1>5, <2>2, EmptySeq, LenProperties, HeadTailProperties
  <2>4. \A i \in 1..Len(t) : t[i] = queue[i + 1]
    BY <1>1, <1>5, <2>2, HeadTailProperties
  <2>5. /\ <<h>> \o t \in Seq(Lines) /\ Len(<<h>> \o t) = Len(queue)
        /\ \A i \in 1..Len(queue) : (<<h>> \o t)[i] = IF i <= 1 THEN <<h>>[i] ELSE t[i - 1]
    <3>1. <<h>> \in Seq(Lines) /\ Len(<<h>>) = 1
      OBVIOUS
    <3> QED
      BY <2>3, <3>1, ConcatProperties
  <2>6. \A i \in 1..Len(queue) : (<<h>> \o t)[i] = queue[i]
    <3> TAKE i \in 1..Len(queue)
    <3>1. CASE i = 1
      BY <2>1, <2>5, <3>1
    <3>2. CASE i # 1
      <4>1. i - 1 \in 1..Len(t) /\ ~(i <= 1) /\ (i - 1) + 1 = i
        BY <2>3, <3>2
      <4> QED
        BY <2>4, <2>5, <4>1
    <3> QED
      BY <3>1, <3>2
  <2> QED
    BY <1>5, <2>1, <2>2, <2>5, <2>6, SeqEqual
<1> QED
  BY <1>2, <1>4, <1>6

\* Pushing a line adds it to the end.
LEMMA WayPush ==
  ASSUME TypeOK, NEW x \in Lines, queue' = Append(queue, x), single' = single
  PROVE  OnTheWay' = Append(OnTheWay, x)
<1>1. queue \in Seq(Lines) /\ <<x>> \in Seq(Lines)
  BY DEF TypeOK
<1>2. PICK s \in Seq(Lines) : s = IF single = NoLine THEN <<>> ELSE <<single>>
  <2>1. CASE single = NoLine
    BY <2>1, EmptySeq
  <2>2. CASE single # NoLine
    <3>1. single \in Lines
      BY <2>2 DEF TypeOK
    <3>2. <<single>> \in Seq(Lines)
      BY <3>1
    <3> QED
      BY <2>2, <3>2
  <2> QED
    BY <2>1, <2>2
<1>3. OnTheWay = s \o queue /\ OnTheWay' = s \o Append(queue, x)
  BY <1>2 DEF OnTheWay
<1>4. Append(queue, x) = queue \o <<x>> /\ Append(OnTheWay, x) = OnTheWay \o <<x>>
  BY <1>1, WayParts, AppendIsConcat
<1>5. s \o (queue \o <<x>>) = (s \o queue) \o <<x>>
  BY <1>1, <1>2, ConcatAssociative
<1> QED
  BY <1>3, <1>4, <1>5

\* A line handed over stays so.
LEMMA PastKept ==
  ASSUME LinesInv, [Next]_vars, NEW x \in Lines, Past(x)
  PROVE  Past(x)'
<1>1. x.w \in Writers /\ x.n \in Nat
  BY LogAssumption DEF Lines
<1>2. Begun(x.w) \in Nat
  BY <1>1, BegunBound, LogAssumption DEF LinesInv
<1>3. ASSUME line' = line, pc'[x.w] = pc[x.w] \/ pc[x.w] \notin {"idle", "flush"}
                                              \/ pc'[x.w] \in {"idle", "flush"}
      PROVE  Past(x)'
  BY <1>3 DEF Past, Begun
<1>4. CASE Midnight
  BY <1>3, <1>4 DEF Midnight, writeVars
<1>5. CASE FlushPop
  BY <1>3, <1>5 DEF FlushPop, writeVars
<1>6. CASE FlushPut
  BY <1>3, <1>6 DEF FlushPut, writeVars
<1>7. CASE UNCHANGED vars
  BY <1>3, <1>7 DEF vars, writeVars
<1>8. ASSUME NEW w \in Writers, Call(w)
      PROVE  Past(x)'
  <2>1. CASE w = x.w
    BY <1>1, <1>2, <1>8, <2>1, LoggedCall DEF Past
  <2>2. CASE w # x.w
    <3>1. Begun(x.w)' = Begun(x.w)
      BY <1>1, <1>8, <2>2, LoggedCall
    <3>2. pc'[x.w] = pc[x.w]
      BY <1>1, <1>8, <2>2 DEF Call, Goto, LinesInv, TypeOK
    <3> QED
      BY <3>1, <3>2 DEF Past
  <2> QED
    BY <2>1, <2>2
<1>9. ASSUME NEW w \in Writers, WriterProgress(w)
      PROVE  Past(x)'
  <2>1. line' = line
    BY <1>9 DEF WriterProgress, Count, Format, AskFull, Push, Direct, Flush
  <2>2. /\ \A v \in Writers : v # w => pc'[v] = pc[v]
        /\ pc[w] \notin {"idle", "flush"} \/ pc'[w] \in {"idle", "flush"}
    BY <1>9 DEF WriterProgress, Count, Format, AskFull, Push, Direct, Flush, At, Goto,
                HandedOver, LinesInv, TypeOK
  <2> QED
    BY <1>1, <1>3, <2>1, <2>2
<1> QED
  BY <1>4, <1>5, <1>6, <1>7, <1>8, <1>9 DEF Next


\* The invariant of the trail where nothing is added to it.
LEMMA TrailKept ==
  ASSUME LinesInv, TrailInv, [Next]_vars,
         Written' = Written, OnTheWay' = OnTheWay, isAsync' = isAsync
  PROVE  TrailInv'
<1> USE DEF LinesInv
<1>1. \A x \in Lines : Past(x) => Past(x)'
  BY PastKept
<1>2. /\ \A i \in 1..Len(Written) : Written[i].line \in Lines
      /\ \A i \in 1..Len(OnTheWay) : OnTheWay[i] \in Lines
  BY WrittenParts, WayParts DEF Records
<1>3. TrailPast'
  BY <1>1, <1>2 DEF TrailInv, TrailPast
<1>4. TrailOnce' /\ TrailOrder'
  BY DEF TrailInv, TrailOnce, TrailOrder
<1> QED
  BY <1>3, <1>4 DEF TrailInv

\* A line that is handed over comes after all lines of its writer so far.
LEMMA NewestInHand ==
  ASSUME LinesInv, TrailInv, NEW w \in Writers, pc[w] \in {"push", "direct"}
  PROVE  /\ \A i \in 1..Len(Written) :
              Written[i].line.w = w => Written[i].line.n < line[w].n
         /\ \A i \in 1..Len(OnTheWay) : OnTheWay[i].w = w => OnTheWay[i].n < line[w].n
<1>1. PICK n \in Nat : n = line[w].n /\ n = Begun(w)
  BY InHandOwn, LogAssumption DEF Lines
<1>2. ASSUME NEW x \in Lines, Past(x), x.w = w
      PROVE  x.n < n
  BY <1>1, <1>2, LogAssumption DEF Past, Lines
<1>3. /\ \A i \in 1..Len(Written) : Written[i].line \in Lines /\ Past(Written[i].line)
      /\ \A i \in 1..Len(OnTheWay) : OnTheWay[i] \in Lines /\ Past(OnTheWay[i])
  BY WrittenParts, WayParts DEF Records, LinesInv, TrailInv, TrailPast
<1> QED
  BY <1>1, <1>2, <1>3

\* A line pushed goes to the end of the trail.
LEMMA TrailPush ==
  ASSUME LinesInv, TrailInv, NEW w \in Writers, Push(w)
  PROVE  TrailInv'
<1> USE DEF LinesInv
<1>1. /\ pc[w] = "push" /\ UNCHANGED <<stdio, disk, single, isAsync>>
      /\ queue' = IF Accepts THEN Append(queue, line[w]) ELSE queue
      /\ pc'[w] = "flush" /\ line' = line
  BY InHandOwn DEF Push, At, HandedOver, Goto, fileVars, TypeOK
<1>2. Written' = Written
  BY <1>1 DEF Written
<1>3. [Next]_vars
  BY DEF Next, WriterProgress
<1>4. CASE ~Accepts
  BY <1>1, <1>2, <1>3, <1>4, TrailKept, WayKept
<1>5. CASE Accepts
  <2>1. PICK x \in Lines : x = line[w] /\ x.w = w /\ x.n = Begun(w)
    BY <1>1, InHandOwn
  <2>2. OnTheWay' = Append(OnTheWay, x)
    BY <1>1, <1>5, <2>1, WayPush
  <2>3. PICK m \in Nat : m = Len(OnTheWay)
    BY WayParts
  <2>4. /\ Len(OnTheWay') = m + 1 /\ OnTheWay'[m + 1] = x
        /\ \A i \in 1..m : OnTheWay'[i] = OnTheWay[i] /\ OnTheWay[i] \in Lines
    BY <2>2, <2>3, WayParts, AppendProperties
  <2>5. \A i \in 1..m + 1 : i \in 1..m \/ i = m + 1
    BY <2>3
  <2>6. /\ \A i \in 1..Len(Written) : Written[i].line.w = w => Written[i].line.n < x.n
        /\ \A i \in 1..m : OnTheWay[i].w = w => OnTheWay[i].n < x.n
    BY <1>1, <2>1, <2>3, NewestInHand
  <2>7. /\ \A i \in 1..Len(Written) : Written[i].line \in Lines /\ Written[i].line.n \in Nat
        /\ \A i \in 1..m : OnTheWay[i] \in Lines /\ OnTheWay[i].n \in Nat
        /\ x.n \in Nat
    <3>1. \A y \in Lines : y.n \in Nat
      BY LogAssumption DEF Lines
    <3>2. \A i \in 1..Len(Written) : Written[i].line \in Lines
      BY WrittenParts DEF Records
    <3> QED
      BY <2>1, <2>3, <3>1, <3>2, WayParts
  <2>8. TrailPast'
    <3>1. \A y \in Lines : Past(y) => Past(y)'
      BY <1>3, PastKept
    <3>2. Past(x)'
      BY <1>1, <2>1 DEF Past, Begun
    <3>3. ASSUME NEW i \in 1..m + 1
          PROVE  Past(OnTheWay[i])'
      BY <2>3, <2>4, <2>5, <3>1, <3>2 DEF TrailInv, TrailPast
    <3> QED
      BY <1>2, <2>4, <2>7, <3>1, <3>3 DEF TrailInv, TrailPast
  <2>9. TrailOnce'
    <3>1. \A i \in 1..Len(Written) : ~Same(Written[i].line, x)
      BY <2>1, <2>6, <2>7 DEF Same
    <3>2. \A i \in 1..Len(Written) : \A j \in 1..m + 1 : ~Same(Written[i].line, OnTheWay'[j])
      BY <2>3, <2>4, <2>5, <3>1 DEF TrailInv, TrailOnce
    <3> QED
      BY <1>2, <2>4, <3>2 DEF TrailInv, TrailOnce
  <2>10. TrailOrder'
    <3>1. ASSUME NEW i \in 1..m + 1, NEW j \in 1..m + 1, i < j,
                 OnTheWay'[i].w = OnTheWay'[j].w
          PROVE  OnTheWay'[i].n < OnTheWay'[j].n
      <4>1. i \in 1..m
        BY <2>3, <3>1
      <4>2. CASE j = m + 1
        BY <2>1, <2>4, <2>6, <3>1, <4>1, <4>2
      <4>3. CASE j \in 1..m
        BY <2>3, <2>4, <3>1, <4>1, <4>3 DEF TrailInv, TrailOrder
      <4> QED
        BY <2>5, <4>2, <4>3
    <3>2. ASSUME NEW i \in 1..Len(Written), NEW j \in 1..m + 1,
                 Later(Written[i].line, OnTheWay'[j])
          PROVE  isAsync /\ Written[i].direct
      <4>1. CASE j = m + 1
        BY <2>1, <2>4, <2>6, <2>7, <3>2, <4>1 DEF Later
      <4>2. CASE j \in 1..m
        BY <2>3, <2>4, <3>2, <4>2 DEF TrailInv, TrailOrder
      <4> QED
        BY <2>5, <4>1, <4>2
    <3> QED
      BY <1>1, <1>2, <2>4, <3>1, <3>2 DEF TrailInv, TrailOrder
  <2> QED
    BY <2>8, <2>9, <2>10 DEF TrailInv
<1> QED
  BY <1>4, <1>5

\* A line written directly goes in front of what is on the way.
LEMMA TrailDirect ==
  ASSUME LinesInv, TrailInv, NEW w \in Writers, Direct(w)
  PROVE  TrailInv'
<1> USE DEF LinesInv
<1>1. /\ pc[w] = "direct" /\ Fputs(line[w], TRUE) /\ UNCHANGED <<disk, queue, single>>
      /\ pc'[w] = "flush" /\ line' = line /\ isAsync' = isAsync
  BY InHandOwn DEF Direct, At, HandedOver, Goto, TypeOK
<1>2. OnTheWay' = OnTheWay
  BY <1>1, WayKept
<1>3. [Next]_vars
  BY DEF Next, WriterProgress
<1>4. PICK x \in Lines : x = line[w] /\ x.w = w /\ x.n = Begun(w)
  BY <1>1, InHandOwn
<1>5. CASE mFp = NULL
  <2>1. Written' = Written
    BY <1>1, <1>4, <1>5, FputsAdds
  <2> QED
    BY <1>1, <1>2, <1>3, <2>1, TrailKept
<1>6. CASE mFp # NULL
  <2>1. PICK r \in Records : /\ r = [line |-> x, file |-> mFp, direct |-> TRUE]
                             /\ Written' = Append(Written, r)
    BY <1>1, <1>4, <1>6, FputsAdds
  <2>2. PICK m \in Nat : m = Len(Written)
    BY WrittenParts
  <2>3. /\ Len(Written') = m + 1 /\ Written'[m + 1] = r
        /\ \A i \in 1..m : Written'[i] = Written[i]
    BY <2>1, <2>2, WrittenParts, AppendProperties
  <2>4. r.line = x /\ r.direct
    <3>1. r.line = x
      BY <2>1
    <3>2. r.direct = TRUE
      BY <2>1
    <3> QED
      BY <3>1, <3>2, Zenon
  <2>5. \A i \in 1..m + 1 : i \in 1..m \/ i = m + 1
    BY <2>2
  <2>6. /\ \A i \in 1..m : Written[i].line.w = w => Written[i].line.n < x.n
        /\ \A i \in 1..Len(OnTheWay) : OnTheWay[i].w = w => OnTheWay[i].n < x.n
    BY <1>1, <1>4, <2>2, NewestInHand
  <2>7. /\ \A i \in 1..m : Written[i].line \in Lines /\ Written[i].line.n \in Nat
        /\ \A i \in 1..Len(OnTheWay) : OnTheWay[i] \in Lines /\ OnTheWay[i].n \in Nat
        /\ x.n \in Nat
    <3>1. \A y \in Lines : y.n \in Nat
      BY LogAssumption DEF Lines
    <3>2. \A i \in 1..m : Written[i].line \in Lines
      BY <2>2, WrittenParts DEF Records
    <3> QED
      BY <1>4, <3>1, <3>2, WayParts
  <2>8. TrailPast'
    <3>1. \A y \in Lines : Past(y) => Past(y)'
      BY <1>3, PastKept
    <3>2. Past(x)'
      BY <1>1, <1>4 DEF Past, Begun
    <3>3. ASSUME NEW i \in 1..m + 1
          PROVE  Past(Written[i].line)'
      BY <2>2, <2>3, <2>4, <2>5, <2>7, <3>1, <3>2 DEF TrailInv, TrailPast
    <3> QED
      BY <1>2, <2>3, <2>7, <3>1, <3>3 DEF TrailInv, TrailPast
  <2>9. TrailOnce'
    <3>1. \A i \in 1..m : ~Same(Written[i].line, x) /\ ~Same(x, Written[i].line)
      BY <1>4, <2>6, <2>7 DEF Same
    <3>2. \A j \in 1..Len(OnTheWay) : ~Same(x, OnTheWay[j])
      BY <1>4, <2>6, <2>7 DEF Same
    <3>3. \A i, j \in 1..m + 1 : Same(Written'[i].line, Written'[j].line) => i = j
      BY <2>2, <2>3, <2>4, <2>5, <3>1 DEF TrailInv, TrailOnce
    <3>4. \A i \in 1..m + 1 : \A j \in 1..Len(OnTheWay) :
            ~Same(Written'[i].line, OnTheWay[j])
      BY <2>2, <2>3, <2>4, <2>5, <3>2 DEF TrailInv, TrailOnce
    <3> QED
      BY <1>2, <2>3, <3>3, <3>4 DEF TrailOnce
  <2>10. TrailOrder'
    <3>1. ASSUME NEW i \in 1..m + 1, NEW j \in 1..m + 1, i < j,
                 Later(Written'[i].line, Written'[j].line)
          PROVE  isAsync /\ Written'[i].direct
      <4>1. i \in 1..m
        BY <2>2, <3>1
      <4>2. CASE j = m + 1
        BY <1>4, <2>3, <2>4, <2>6, <2>7, <3>1, <4>1, <4>2 DEF Later
      <4>3. CASE j \in 1..m
        BY <2>2, <2>3, <3>1, <4>1, <4>3 DEF TrailInv, TrailOrder
      <4> QED
        BY <2>5, <4>2, <4>3
    <3>2. ASSUME NEW i \in 1..m + 1, NEW j \in 1..Len(OnTheWay),
                 Later(Written'[i].line, OnTheWay[j])
          PROVE  isAsync /\ Written'[i].direct
      <4>1. CASE i = m + 1
        <5>1. isAsync
          BY WayParts DEF Synchronous
        <5> QED
          BY <2>3, <2>4, <4>1, <5>1
      <4>2. CASE i \in 1..m
        BY <2>2, <2>3, <3>2, <4>2 DEF TrailInv, TrailOrder
      <4> QED
        BY <2>5, <4>1, <4>2
    <3> QED
      BY <1>1, <1>2, <2>3, <3>1, <3>2 DEF TrailInv, TrailOrder
  <2> QED
    BY <2>8, <2>9, <2>10 DEF TrailInv
<1> QED
  BY <1>5, <1>6


\* The flush thread writes the first of what is on the way.
LEMMA TrailPut ==
  ASSUME LinesInv, TrailInv, FlushPut
  PROVE  TrailInv'
<1> USE DEF LinesInv
<1>1. single # NoLine /\ Fputs(single, FALSE) /\ UNCHANGED <<disk, queue, isAsync>>
  BY DEF FlushPut
<1>2. [Next]_vars
  BY DEF Next
<1>3. PICK x \in Lines : x = single
  BY <1>1 DEF TypeOK
<1>4. CASE mFp = NULL
  <2>1. Written' = Written /\ alive' = FALSE
    BY <1>1, <1>3, <1>4, FputsAdds
  <2>2. single' = single
    BY <2>1 DEF FlushPut
  <2> QED
    BY <1>1, <1>2, <2>1, <2>2, TrailKept, WayKept
<1>5. CASE mFp # NULL
  <2>1. PICK r \in Records : /\ r = [line |-> x, file |-> mFp, direct |-> FALSE]
                             /\ Written' = Append(Written, r)
    BY <1>1, <1>3, <1>5, FputsAdds
  <2>2. alive' = alive
    BY <1>1, <1>3, <1>5, FputsAdds
  <2>3. single' = NoLine
    <3>1. alive'
      BY <2>2, Zenon DEF FlushPut
    <3> QED
      BY <3>1, Zenon DEF FlushPut
  <2>4. PICK m \in Nat : m = Len(Written)
    BY WrittenParts
  <2>5. /\ Len(Written') = m + 1 /\ Written'[m + 1] = r /\ r.line = x
        /\ \A i \in 1..m : Written'[i] = Written[i]
    BY <2>1, <2>4, WrittenParts, AppendProperties
  <2>6. \A i \in 1..m + 1 : i \in 1..m \/ i = m + 1
    BY <2>4
  <2>7. /\ OnTheWay' = queue /\ Len(queue) \in Nat /\ Len(OnTheWay) = Len(queue) + 1
        /\ OnTheWay[1] = x /\ \A i \in 1..Len(queue) : OnTheWay[i + 1] = queue[i]
    <3>1. queue \in Seq(Lines) /\ OnTheWay' = <<>> \o queue
      BY <1>1, <2>3 DEF OnTheWay, TypeOK
    <3>2. OnTheWay' = queue /\ Len(queue) \in Nat
      BY <3>1, ConcatEmptySeq, LenProperties
    <3> QED
      BY <1>1, <1>3, <3>2, WayParts
  <2>8. /\ 1 \in 1..Len(OnTheWay)
        /\ \A i \in 1..Len(queue) : i + 1 \in 1..Len(OnTheWay) /\ i + 1 # 1 /\ 1 < i + 1
    BY <2>7
  <2>9. TrailPast'
    <3>1. \A y \in Lines : Past(y) => Past(y)'
      BY <1>2, PastKept
    <3>2. \A i \in 1..m : Written[i].line \in Lines /\ Past(Written[i].line)
      BY <2>4, WrittenParts DEF Records, TrailInv, TrailPast
    <3>3. \A i \in 1..Len(OnTheWay) : OnTheWay[i] \in Lines /\ Past(OnTheWay[i])
      BY WayParts DEF TrailInv, TrailPast
    <3>4. \A i \in 1..m + 1 : Past(Written[i].line)'
      BY <2>5, <2>6, <2>7, <2>8, <3>1, <3>2, <3>3
    <3>5. \A i \in 1..Len(queue) : Past(OnTheWay[i])'
      BY <2>7, <2>8, <3>1, <3>3
    <3> QED
      BY <2>5, <2>7, <3>4, <3>5 DEF TrailPast
  <2>10. \A y \in Lines : y.n \in Nat
    BY LogAssumption DEF Lines
  <2>11. TrailOnce'
    <3>1. \A i \in 1..m : ~Same(Written[i].line, x) /\ ~Same(x, Written[i].line)
      BY <2>4, <2>7, <2>8 DEF Same, TrailInv, TrailOnce
    <3>2. \A j \in 1..Len(queue) : ~Same(x, queue[j])
      <4> TAKE j \in 1..Len(queue)
      <4>1. x.w = queue[j].w => x.n < queue[j].n
        BY <2>7, <2>8 DEF TrailInv, TrailOrder
      <4> QED
        BY <2>10, <4>1 DEF Same
    <3>3. \A i, j \in 1..m + 1 : Same(Written'[i].line, Written'[j].line) => i = j
      BY <2>4, <2>5, <2>6, <3>1 DEF TrailInv, TrailOnce
    <3>4. \A i \in 1..m + 1 : \A j \in 1..Len(queue) : ~Same(Written'[i].line, queue[j])
      BY <2>4, <2>5, <2>6, <2>7, <2>8, <3>2 DEF TrailInv, TrailOnce
    <3> QED
      BY <2>5, <2>7, <3>3, <3>4 DEF TrailOnce
  <2>12. TrailOrder'
    <3>1. ASSUME NEW i \in 1..Len(queue), NEW j \in 1..Len(queue), i < j,
                 queue[i].w = queue[j].w
          PROVE  queue[i].n < queue[j].n
      <4>1. i + 1 < j + 1
        BY <3>1
      <4> QED
        BY <2>7, <2>8, <3>1, <4>1 DEF TrailInv, TrailOrder
    <3>2. ASSUME NEW i \in 1..m + 1, NEW j \in 1..m + 1, i < j,
                 Later(Written'[i].line, Written'[j].line)
          PROVE  isAsync /\ Written'[i].direct
      <4>1. i \in 1..m
        BY <2>4, <3>2
      <4>2. CASE j = m + 1
        BY <2>4, <2>5, <2>7, <2>8, <3>2, <4>1, <4>2 DEF TrailInv, TrailOrder
      <4>3. CASE j \in 1..m
        BY <2>4, <2>5, <3>2, <4>1, <4>3 DEF TrailInv, TrailOrder
      <4> QED
        BY <2>6, <4>2, <4>3
    <3>3. ASSUME NEW i \in 1..m + 1, NEW j \in 1..Len(queue),
                 Later(Written'[i].line, queue[j])
          PROVE  isAsync /\ Written'[i].direct
      <4>1. CASE i = m + 1
        <5>1. x.w = queue[j].w => x.n < queue[j].n
          BY <2>7, <2>8 DEF TrailInv, TrailOrder
        <5>2. queue[j] \in Lines
          BY <2>7, <2>8, WayParts
        <5> QED
          BY <2>5, <2>10, <3>3, <4>1, <5>1, <5>2 DEF Later
      <4>2. CASE i \in 1..m
        BY <2>4, <2>5, <2>7, <2>8, <3>3, <4>2 DEF TrailInv, TrailOrder
      <4> QED
        BY <2>6, <4>1, <4>2
    <3> QED
      BY <1>1, <2>5, <2>7, <3>1, <3>2, <3>3 DEF TrailOrder
  <2> QED
    BY <2>9, <2>11, <2>12 DEF TrailInv
<1> QED
  BY <1>4, <1>5

LEMMA TrailInit == Init => TrailInv
<1> SUFFICES ASSUME Init PROVE TrailInv
  OBVIOUS
<1>1. Written = <<>> /\ OnTheWay = <<>> /\ Len(<<>>) = 0
  <2>1. <<>> \o <<>> = <<>>
    BY EmptySeq, ConcatEmptySeq
  <2> QED
    BY <2>1, EmptySeq DEF Init, Written, OnTheWay
<1> QED
  BY <1>1 DEF TrailInv, TrailPast, TrailOnce, TrailOrder

\* Every step keeps the trail in order.
LEMMA TrailStep == LinesInv /\ TrailInv /\ [Next]_vars => TrailInv'
<1> SUFFICES ASSUME LinesInv, TrailInv, [Next]_vars PROVE TrailInv'
  OBVIOUS
<1>0. TypeOK /\ TypeOK'
  BY LinesStep DEF LinesInv
<1>1. CASE Midnight
  BY <1>1, TrailKept, WayKept DEF Midnight, fileVars, Written
<1>2. CASE FlushPop
  <2>1. OnTheWay' = OnTheWay
    BY <1>0, <1>2, WayPop
  <2> QED
    BY <1>2, <2>1, TrailKept DEF FlushPop, fileVars, Written
<1>3. CASE FlushPut
  BY <1>3, TrailPut
<1>4. ASSUME NEW w \in Writers, Call(w)
      PROVE  TrailInv'
  BY <1>4, TrailKept, WayKept DEF Call, fileVars, Written
<1>5. ASSUME NEW w \in Writers, Count(w)
      PROVE  TrailInv'
  <2>1. Written' = Written
    <3>1. CASE Rotates(w)
      BY <1>0, <1>5, <3>1, CloseKeeps DEF Count
    <3>2. CASE ~Rotates(w)
      BY <1>5, <3>2 DEF Count, Written
    <3> QED
      BY <3>1, <3>2
  <2>2. UNCHANGED <<queue, single, isAsync>>
    BY <1>5 DEF Count
  <2> QED
    BY <2>1, <2>2, TrailKept, WayKept
<1>6. ASSUME NEW w \in Writers, Format(w) \/ AskFull(w)
      PROVE  TrailInv'
  <2>1. UNCHANGED <<queue, single, isAsync, stdio, disk>>
    BY <1>6 DEF Format, AskFull, fileVars
  <2> QED
    BY <2>1, TrailKept, WayKept DEF Written
<1>7. ASSUME NEW w \in Writers, Push(w) \/ Direct(w)
      PROVE  TrailInv'
  BY <1>7, TrailPush, TrailDirect
<1>8. ASSUME NEW w \in Writers, Flush(w)
      PROVE  TrailInv'
  <2>1. Written' = Written
    BY <1>0, <1>8, CloseKeeps DEF Flush
  <2>2. UNCHANGED <<queue, single, isAsync>>
    BY <1>8 DEF Flush
  <2> QED
    BY <2>1, <2>2, TrailKept, WayKept
<1>9. CASE UNCHANGED vars
  BY <1>9, TrailKept, WayKept DEF vars, fileVars, Written
<1> QED
  BY <1>1, <1>2, <1>3, <1>4, <1>5, <1>6, <1>7, <1>8, <1>9 DEF Next, WriterProgress

LEMMA TrailAlways == Spec => [](LinesInv /\ TrailInv)
<1> QED
  BY LinesInit, LinesStep, TrailInit, TrailStep, PTL DEF Spec

\* A line on the trail is a written one's or one on the way.
LEMMA TrailParts ==
  ASSUME TypeOK
  PROVE  /\ Len(Trail) = Len(Written) + Len(OnTheWay)
         /\ Len(Written) \in Nat /\ Len(OnTheWay) \in Nat
         /\ \A i \in 1..Len(Trail) :
              Trail[i] = IF i <= Len(Written) THEN Written[i].line
                         ELSE OnTheWay[i - Len(Written)]
<1> DEFINE s == [i \in 1..Len(Written) |-> Written[i].line]
<1>1. \A i \in 1..Len(Written) : Written[i].line \in Lines
  BY WrittenParts DEF Records
<1>2. s \in Seq(Lines) /\ Len(s) = Len(Written)
  BY <1>1, WrittenParts, IsASeq
<1>3. Trail = s \o OnTheWay
  BY DEF Trail
<1>4. \A i \in 1..Len(Written) : s[i] = Written[i].line
  OBVIOUS
<1> HIDE DEF s
<1>5. /\ Len(Trail) = Len(Written) + Len(OnTheWay)
      /\ \A i \in 1..Len(Written) + Len(OnTheWay) :
           Trail[i] = IF i <= Len(Written) THEN s[i] ELSE OnTheWay[i - Len(Written)]
  BY <1>2, <1>3, WayParts, ConcatProperties
<1> QED
  BY <1>4, <1>5, WrittenParts, WayParts

\* No line is written twice, or once and kept on its way, although threads
\* format in one m_buf and lines go two ways.
THEOREM LinesWrittenOnce == Spec => []EachLineOnce
<1>1. LinesInv /\ TrailInv => EachLineOnce
  <2> SUFFICES ASSUME LinesInv, TrailInv, NEW i \in 1..Len(Trail), NEW j \in 1..Len(Trail),
                      Trail[i] = Trail[j]
               PROVE  i = j
    BY DEF EachLineOnce
  <2> USE DEF LinesInv
  <2>1. PICK m \in Nat, k \in Nat : m = Len(Written) /\ k = Len(OnTheWay) /\ Len(Trail) = m + k
    BY TrailParts
  <2>2. \A a \in 1..m + k : Trail[a] = IF a <= m THEN Written[a].line ELSE OnTheWay[a - m]
    BY <2>1, TrailParts
  <2>3. \A a \in 1..m + k : a \in 1..m \/ (~(a <= m) /\ a - m \in 1..k)
    BY <2>1
  <2>4. \A a \in 1..m : \A b \in 1..k : Written[a].line # OnTheWay[b]
    BY <2>1 DEF TrailInv, TrailOnce, Same
  <2>5. CASE i \in 1..m /\ j \in 1..m
    BY <2>1, <2>2, <2>5 DEF TrailInv, TrailOnce, Same
  <2>6. CASE i \in 1..m /\ j - m \in 1..k
    BY <2>1, <2>2, <2>4, <2>6
  <2>7. CASE j \in 1..m /\ i - m \in 1..k
    BY <2>1, <2>2, <2>4, <2>7
  <2>8. CASE i - m \in 1..k /\ j - m \in 1..k
    <3>1. PICK a \in 1..k, b \in 1..k : a = i - m /\ b = j - m
      BY <2>8
    <3>2. ~(i <= m) /\ ~(j <= m)
      BY <2>1, <3>1
    <3>3. OnTheWay[a] = OnTheWay[b]
      BY <2>1, <2>2, <3>1, <3>2
    <3>4. OnTheWay[a].n \in Nat
      <4>1. OnTheWay[a] \in Lines
        BY <2>1, WayParts
      <4> QED
        BY <4>1, LogAssumption DEF Lines
    <3>5. ~(a < b) /\ ~(b < a)
      BY <2>1, <3>3, <3>4 DEF TrailInv, TrailOrder
    <3> QED
      BY <2>1, <3>1, <3>5
  <2> QED
    BY <2>1, <2>3, <2>5, <2>6, <2>7, <2>8
<1> QED
  BY <1>1, TrailAlways, PTL

\* A thread's lines reach the file in the order it logged them, but for those
\* it wrote itself because the queue was full.
THEOREM OvertakingIsDirect == Spec => []OnlyDirectOvertakes
<1>1. LinesInv /\ TrailInv => OnlyDirectOvertakes
  <2> SUFFICES ASSUME LinesInv, TrailInv, NEW i \in 1..Len(Trail), NEW j \in 1..Len(Trail),
                      i < j, Trail[i].w = Trail[j].w, Trail[i].n > Trail[j].n
               PROVE  isAsync /\ i <= Len(Written) /\ Written[i].direct
    BY DEF OnlyDirectOvertakes
  <2> USE DEF LinesInv
  <2>1. PICK m \in Nat, k \in Nat : m = Len(Written) /\ k = Len(OnTheWay) /\ Len(Trail) = m + k
    BY TrailParts
  <2>2. \A a \in 1..m + k : Trail[a] = IF a <= m THEN Written[a].line ELSE OnTheWay[a - m]
    BY <2>1, TrailParts
  <2>3. \A a \in 1..m + k : a \in 1..m \/ (~(a <= m) /\ a - m \in 1..k)
    BY <2>1
  <2>4. CASE i \in 1..m /\ j \in 1..m
    BY <2>1, <2>2, <2>4 DEF TrailInv, TrailOrder, Later
  <2>5. CASE i \in 1..m /\ j - m \in 1..k
    <3>1. PICK b \in 1..k : b = j - m
      BY <2>5
    <3>2. i <= m /\ ~(j <= m)
      BY <2>1, <2>5, <3>1
    <3>3. Trail[i] = Written[i].line /\ Trail[j] = OnTheWay[b]
      BY <2>1, <2>2, <3>1, <3>2
    <3> QED
      BY <2>1, <2>5, <3>2, <3>3 DEF TrailInv, TrailOrder, Later
  <2>6. CASE i - m \in 1..k
    <3>1. PICK a \in 1..k, b \in 1..k : a = i - m /\ b = j - m /\ a < b
      BY <2>1, <2>6
    <3>2. ~(i <= m) /\ ~(j <= m)
      BY <2>1, <3>1
    <3>3. Trail[i] = OnTheWay[a] /\ Trail[j] = OnTheWay[b]
      BY <2>1, <2>2, <3>1, <3>2
    <3>4. OnTheWay[a].n \in Nat /\ OnTheWay[b].n \in Nat
      <4>1. OnTheWay[a] \in Lines /\ OnTheWay[b] \in Lines
        BY <2>1, WayParts
      <4> QED
        BY <4>1, LogAssumption DEF Lines
    <3>5. OnTheWay[a].n < OnTheWay[b].n
      BY <2>1, <3>1, <3>3 DEF TrailInv, TrailOrder
    <3> QED
      BY <3>3, <3>4, <3>5
  <2> QED
    BY <2>1, <2>3, <2>4, <2>5, <2>6
<1> QED
  BY <1>1, TrailAlways, PTL

-----------------------------------------------------------------------------
(* What has returned has been written *)

\* What a step adds to what is written, and what it flushes.
LEMMA WrittenGrows ==
  ASSUME LinesInv, [Next]_vars
  PROVE  /\ disk' = disk \/ disk' = Written
         /\ Written' = Written \/ \E r \in Records : Written' = Append(Written, r)
<1> USE DEF LinesInv
<1>1. ASSUME NEW w \in Writers, Direct(w)
      PROVE  /\ disk' = disk
             /\ Written' = Written \/ \E r \in Records : Written' = Append(Written, r)
  <2>1. Fputs(line[w], TRUE) /\ disk' = disk /\ line[w] \in Lines
    BY <1>1, InHandOwn DEF Direct, At
  <2> QED
    BY <2>1, FputsAdds
<1>2. CASE FlushPut
  <2>1. Fputs(single, FALSE) /\ disk' = disk /\ single \in Lines
    BY <1>2 DEF FlushPut, TypeOK
  <2> QED
    BY <2>1, FputsAdds
<1>3. ASSUME NEW w \in Writers, Count(w) \/ Flush(w)
      PROVE  Written' = Written /\ (disk' = disk \/ disk' = Written)
  <2>1. CASE UNCHANGED <<disk, stdio>>
    BY <2>1 DEF Written
  <2>2. CASE CloseFile
    BY <2>2, CloseKeeps
  <2> QED
    BY <1>3, <2>1, <2>2 DEF Count, Flush
<1>4. ASSUME NEW w \in Writers, Call(w) \/ Format(w) \/ AskFull(w) \/ Push(w)
      PROVE  disk' = disk /\ Written' = Written
  BY <1>4 DEF Call, Format, AskFull, Push, fileVars, Written
<1>5. CASE Midnight \/ FlushPop \/ UNCHANGED vars
  BY <1>5 DEF Midnight, FlushPop, vars, fileVars, Written
<1> QED
  BY <1>1, <1>2, <1>3, <1>4, <1>5 DEF Next, WriterProgress

\* A line that is written stays so, and so does one on the disk.
LEMMA WrittenStays ==
  ASSUME LinesInv, [Next]_vars, NEW w, NEW n
  PROVE  /\ InWritten(w, n) => InWritten(w, n)'
         /\ OnDisk(w, n) => OnDisk(w, n)'
         /\ disk' = Written /\ InWritten(w, n) => OnDisk(w, n)'
<1> USE DEF LinesInv
<1>1. ASSUME InWritten(w, n)
      PROVE  InWritten(w, n)'
  <2>1. PICK i \in 1..Len(Written) : Written[i].line.w = w /\ Written[i].line.n = n
    BY <1>1 DEF InWritten
  <2>2. Written'[i] = Written[i] /\ i \in 1..Len(Written')
    BY WrittenGrows, WrittenParts, AppendProperties
  <2> QED
    BY <2>1, <2>2 DEF InWritten
<1>2. ASSUME OnDisk(w, n)
      PROVE  OnDisk(w, n)'
  <2>1. PICK i \in 1..Len(disk) : disk[i].line.w = w /\ disk[i].line.n = n
    BY <1>2 DEF OnDisk
  <2>2. disk'[i] = disk[i] /\ i \in 1..Len(disk')
    BY WrittenGrows, WrittenParts
  <2> QED
    BY <2>1, <2>2 DEF OnDisk
<1>3. disk' = Written /\ InWritten(w, n) => OnDisk(w, n)'
  BY DEF InWritten, OnDisk
<1> QED
  BY <1>1, <1>2, <1>3

\* The lines a writer has begun do not get fewer.  A line has returned from
\* its macro already, or does so now, after its flush.
LEMMA ReturnedKept ==
  ASSUME LinesInv, [Next]_vars, NEW v \in Writers
  PROVE  /\ Begun(v) \in Nat /\ Begun(v)' \in Nat /\ Begun(v) <= Begun(v)'
         /\ \A n \in 1..Begun(v)' : Returned(v, n)' =>
              \/ n \in 1..Begun(v) /\ Returned(v, n)
              \/ n = Begun(v) /\ n \in 1..Begun(v) /\ Flush(v)
<1> USE DEF LinesInv
<1>1. Begun(v) \in Nat
  BY BegunBound, LogAssumption
<1>2. ASSUME line' = line, pc'[v] = pc[v] \/ pc'[v] # "idle" \/ Flush(v)
      PROVE  /\ Begun(v)' \in Nat /\ Begun(v) <= Begun(v)'
             /\ \A n \in 1..Begun(v)' : Returned(v, n)' =>
                  \/ n \in 1..Begun(v) /\ Returned(v, n)
                  \/ n = Begun(v) /\ n \in 1..Begun(v) /\ Flush(v)
  <2>1. Begun(v)' = Begun(v)
    BY <1>2 DEF Begun
  <2> QED
    BY <1>1, <1>2, <2>1 DEF Returned
<1>3. CASE Call(v)
  <2>1. Begun(v)' = Begun(v) + 1 /\ pc[v] = "idle" /\ pc'[v] = "count"
    BY <1>3, LoggedCall DEF Call, At, Goto, TypeOK
  <2>2. \A n \in 1..Begun(v)' : Returned(v, n)' => n \in 1..Begun(v) /\ Returned(v, n)
    BY <1>1, <2>1 DEF Returned
  <2> QED
    BY <1>1, <2>1, <2>2
<1>4. ASSUME NEW w \in Writers, Call(w), w # v
      PROVE  /\ Begun(v)' \in Nat /\ Begun(v) <= Begun(v)'
             /\ \A n \in 1..Begun(v)' : Returned(v, n)' => n \in 1..Begun(v) /\ Returned(v, n)
  <2>1. Begun(v)' = Begun(v) /\ pc'[v] = pc[v]
    BY <1>4, LoggedCall DEF Call, Goto, TypeOK
  <2> QED
    BY <1>1, <2>1 DEF Returned
<1>5. ASSUME NEW w \in Writers, WriterProgress(w)
      PROVE  line' = line /\ (pc'[v] = pc[v] \/ pc'[v] # "idle" \/ Flush(v))
  <2>1. line' = line
    BY <1>5 DEF WriterProgress, Count, Format, AskFull, Push, Direct, Flush
  <2>2. CASE w = v
    <3>1. CASE ~Flush(v)
      BY <1>5, <2>2, <3>1 DEF WriterProgress, Count, Format, AskFull, Push, Direct,
                              HandedOver, Goto, TypeOK
    <3> QED
      BY <2>1, <3>1
  <2>3. CASE w # v
    <3>1. pc'[v] = pc[v]
      BY <1>5, <2>3 DEF WriterProgress, Count, Format, AskFull, Push, Direct, Flush,
                        HandedOver, Goto, TypeOK
    <3> QED
      BY <2>1, <3>1
  <2> QED
    BY <2>2, <2>3
<1>6. CASE Midnight \/ FlushPop \/ FlushPut \/ UNCHANGED vars
  <2>1. line' = line /\ pc' = pc
    BY <1>6 DEF Midnight, FlushPop, FlushPut, vars, writeVars
  <2>2. pc'[v] = pc[v]
    BY <2>1
  <2> QED
    BY <1>1, <1>2, <2>1, <2>2
<1> QED
  BY <1>1, <1>2, <1>3, <1>4, <1>5, <1>6 DEF Next

\* A writer that is about to flush was so before, or has just handed its line
\* over; the number of its lines is the same.
LEMMA FlushNext ==
  ASSUME LinesInv, [Next]_vars, NEW v \in Writers, alive', pc'[v] = "flush"
  PROVE  /\ alive /\ Begun(v)' = Begun(v)
         /\ pc[v] = "flush" \/ Push(v) \/ Direct(v)
<1> USE DEF LinesInv
<1>0. ASSUME NEW w \in Writers, Call(w) \/ WriterProgress(w)
      PROVE  alive
  BY <1>0, Zenon DEF Call, WriterProgress, Count, Format, AskFull, Push, Direct, Flush, At
<1>1. alive
  <2>1. CASE Midnight
    BY <2>1, Zenon DEF Midnight
  <2>2. CASE FlushPop \/ FlushPut
    BY <2>2, Zenon DEF FlushPop, FlushPut
  <2>3. CASE UNCHANGED vars
    BY <2>3, Zenon DEF vars
  <2> QED
    BY <1>0, <2>1, <2>2, <2>3, Zenon DEF Next
<1>2. ASSUME NEW w \in Writers, Call(w)
      PROVE  Begun(v)' = Begun(v) /\ pc[v] = "flush"
  <2>1. w # v /\ pc'[v] = pc[v]
    BY <1>2 DEF Call, Goto, TypeOK
  <2> QED
    BY <1>2, <2>1, LoggedCall
<1>3. ASSUME NEW w \in Writers, WriterProgress(w)
      PROVE  Begun(v)' = Begun(v) /\ (pc[v] = "flush" \/ Push(v) \/ Direct(v))
  <2>1. Begun(v)' = Begun(v)
    BY <1>3 DEF WriterProgress, Count, Format, AskFull, Push, Direct, Flush, Begun
  <2>2. CASE w # v
    <3>1. pc'[v] = pc[v]
      BY <1>3, <2>2 DEF WriterProgress, Count, Format, AskFull, Push, Direct, Flush,
                        HandedOver, Goto, TypeOK
    <3> QED
      BY <2>1, <3>1
  <2>3. CASE w = v /\ ~Push(v) /\ ~Direct(v)
    <3>1. pc'[v] # "flush"
      BY <1>3, <2>3 DEF WriterProgress, Count, Format, AskFull, Flush, Goto, TypeOK
    <3> QED
      BY <3>1
  <2> QED
    BY <2>1, <2>2, <2>3
<1>4. CASE Midnight \/ FlushPop \/ FlushPut \/ UNCHANGED vars
  BY <1>1, <1>4 DEF Midnight, FlushPop, FlushPut, vars, writeVars, Begun
<1> QED
  BY <1>1, <1>2, <1>3, <1>4 DEF Next

\* A line written directly is written, unless that ends the process.
LEMMA DirectWrites ==
  ASSUME LinesInv, NEW w \in Writers, Direct(w), alive'
  PROVE  \A n : n = Begun(w) => InWritten(w, n)'
<1> USE DEF LinesInv
<1>1. Fputs(line[w], TRUE) /\ disk' = disk /\ pc[w] = "direct"
  BY InHandOwn DEF Direct, At
<1>2. line[w] \in Lines /\ line[w].w = w /\ line[w].n = Begun(w)
  BY <1>1, InHandOwn
<1>3. mFp # NULL
  <2> SUFFICES ASSUME mFp = NULL PROVE FALSE
    OBVIOUS
  <2>1. alive' = FALSE
    BY <1>1, <1>2, FputsAdds
  <2> QED
    BY <2>1, Zenon
<1>4. PICK r \in Records : r.line = line[w] /\ Written' = Append(Written, r)
  BY <1>1, <1>2, <1>3, FputsAdds
<1>5. Len(Written) + 1 \in 1..Len(Written') /\ Written'[Len(Written) + 1] = r
  BY <1>4, WrittenParts, AppendProperties
<1> QED
  BY <1>2, <1>4, <1>5 DEF InWritten

LEMMA DurableInit == Init => DurableInv
<1> SUFFICES ASSUME Init PROVE DurableInv
  OBVIOUS
<1>1. \A w \in Writers : Begun(w) = 0 /\ pc[w] = "idle"
  BY DEF Init, Begun
<1> QED
  BY <1>1 DEF DurableInv

\* Every step keeps what a synchronous log owes its writers.
LEMMA DurableStep == LinesInv /\ DurableInv /\ [Next]_vars => DurableInv'
<1> SUFFICES ASSUME LinesInv, DurableInv, [Next]_vars PROVE DurableInv'
  OBVIOUS
<1>1. isAsync' = isAsync
  <2>1. ASSUME NEW w \in Writers, Call(w) \/ WriterProgress(w)
        PROVE  isAsync' = isAsync
    BY <2>1, Zenon DEF Call, WriterProgress, Count, Format, AskFull, Push, Direct, Flush
  <2> QED
    BY <2>1, Zenon DEF Next, Midnight, FlushPop, FlushPut, vars
<1> SUFFICES ASSUME ~isAsync, NEW v \in Writers
             PROVE  /\ \A n \in 1..Begun(v)' : Returned(v, n)' => OnDisk(v, n)'
                    /\ alive' /\ pc'[v] = "flush" => InWritten(v, Begun(v))'
  BY <1>1 DEF DurableInv
<1>2. ASSUME NEW n \in 1..Begun(v)', Returned(v, n)'
      PROVE  OnDisk(v, n)'
  <2>1. CASE n \in 1..Begun(v) /\ Returned(v, n)
    BY <2>1, WrittenStays DEF DurableInv
  <2>2. CASE n = Begun(v) /\ n \in 1..Begun(v) /\ Flush(v)
    <3>1. alive /\ pc[v] = "flush" /\ CloseFile
      BY <2>2 DEF Flush, At
    <3>2. InWritten(v, n)
      BY <2>2, <3>1 DEF DurableInv
    <3>3. disk' = Written
      BY <3>1, CloseKeeps DEF LinesInv
    <3> QED
      BY <3>2, <3>3, WrittenStays
  <2> QED
    BY <1>2, <2>1, <2>2, ReturnedKept
<1>3. ASSUME alive', pc'[v] = "flush"
      PROVE  InWritten(v, Begun(v))'
  <2>1. PICK n : n = Begun(v)
    OBVIOUS
  <2>2. alive /\ Begun(v)' = n /\ (pc[v] = "flush" \/ Push(v) \/ Direct(v))
    BY <1>3, <2>1, FlushNext
  <2>3. ~Push(v)
    BY DEF Push, At, LinesInv, Synchronous
  <2>4. InWritten(v, n)'
    <3>1. CASE pc[v] = "flush"
      BY <2>1, <2>2, <3>1, WrittenStays DEF DurableInv
    <3>2. CASE Direct(v)
      BY <1>3, <2>1, <3>2, DirectWrites
    <3> QED
      BY <2>2, <2>3, <3>1, <3>2
  <2> QED
    BY <2>2, <2>4 DEF InWritten
<1> QED
  BY <1>2, <1>3

\* When a LOG_ macro of a synchronous log is over its line is on the disk,
\* whatever other threads rotated and flushed meanwhile.
THEOREM SynchronousIsDurable == Spec => []ReturnedIsDurable
<1>1. DurableInv => ReturnedIsDurable
  BY DEF DurableInv, ReturnedIsDurable, OnDisk
<1> QED
  BY <1>1, LinesInit, LinesStep, DurableInit, DurableStep, PTL DEF Spec

-----------------------------------------------------------------------------
(* What a lone writer logs is not lost *)

\* A line on its way stays so, or is written.
LEMMA WayNext ==
  ASSUME LinesInv, [Next]_vars, NEW i \in 1..Len(OnTheWay)
  PROVE  \/ \E j \in 1..Len(OnTheWay') : OnTheWay'[j] = OnTheWay[i]
         \/ \E j \in 1..Len(Written') : Written'[j].line = OnTheWay[i]
<1> USE DEF LinesInv
<1>0. TypeOK /\ TypeOK'
  BY LinesStep DEF LinesInv
<1>1. ASSUME UNCHANGED <<queue, single>>
      PROVE  \E j \in 1..Len(OnTheWay') : OnTheWay'[j] = OnTheWay[i]
  BY <1>1, WayKept
<1>2. CASE FlushPop
  BY <1>0, <1>2, WayPop
<1>3. CASE FlushPut
  <2>1. single # NoLine /\ Fputs(single, FALSE) /\ UNCHANGED <<disk, queue>> /\ single \in Lines
    BY <1>3 DEF FlushPut, TypeOK
  <2>2. CASE mFp = NULL
    <3>1. alive' = FALSE
      BY <2>1, <2>2, FputsAdds
    <3>2. single' = single
      BY <1>3, <3>1 DEF FlushPut
    <3> QED
      BY <1>1, <2>1, <3>2
  <2>3. CASE mFp # NULL
    <3>1. PICK r \in Records : r.line = single /\ Written' = Append(Written, r)
      BY <2>1, <2>3, FputsAdds
    <3>2. Len(Written) + 1 \in 1..Len(Written') /\ Written'[Len(Written) + 1] = r
      BY <3>1, WrittenParts, AppendProperties
    <3>3. single' = NoLine
      <4>1. alive' = alive /\ alive
        BY <1>3, <2>1, <2>3, FputsAdds, Zenon DEF FlushPut
      <4> QED
        BY <1>3, <4>1, Zenon DEF FlushPut
    <3>4. OnTheWay' = queue
      <4>1. queue \in Seq(Lines) /\ OnTheWay' = <<>> \o queue
        BY <2>1, <3>3 DEF OnTheWay, TypeOK
      <4> QED
        BY <4>1, ConcatEmptySeq
    <3>5. CASE i = 1
      BY <2>1, <3>1, <3>2, <3>5, WayParts
    <3>6. CASE i # 1
      <4>1. PICK j \in 1..Len(queue) : i = j + 1
        <5>1. Len(queue) \in Nat /\ Len(OnTheWay) = Len(queue) + 1
          BY <2>1, WayParts, LenProperties DEF TypeOK
        <5>2. i - 1 \in 1..Len(queue) /\ i = (i - 1) + 1
          BY <3>6, <5>1
        <5> QED
          BY <5>2
      <4> QED
        BY <2>1, <3>4, <4>1, WayParts
    <3> QED
      BY <3>5, <3>6
  <2> QED
    BY <2>2, <2>3
<1>4. ASSUME NEW w \in Writers, Push(w)
      PROVE  \E j \in 1..Len(OnTheWay') : OnTheWay'[j] = OnTheWay[i]
  <2>1. /\ queue' = IF Accepts THEN Append(queue, line[w]) ELSE queue
        /\ single' = single /\ line[w] \in Lines
    BY <1>4, InHandOwn DEF Push, At
  <2>2. CASE Accepts
    <3>1. OnTheWay' = Append(OnTheWay, line[w])
      BY <2>1, <2>2, WayPush
    <3>2. i \in 1..Len(OnTheWay') /\ OnTheWay'[i] = OnTheWay[i]
      BY <2>1, <3>1, WayParts, AppendProperties
    <3> QED
      BY <3>2
  <2>3. CASE ~Accepts
    BY <1>1, <2>1, <2>3
  <2> QED
    BY <2>2, <2>3
<1>5. ASSUME NEW w \in Writers, Call(w) \/ Count(w) \/ Format(w) \/ AskFull(w) \/ Direct(w)
                                \/ Flush(w)
      PROVE  UNCHANGED <<queue, single>>
  BY <1>5 DEF Call, Count, Format, AskFull, Direct, Flush
<1>6. CASE Midnight \/ UNCHANGED vars
  BY <1>1, <1>6 DEF Midnight, vars
<1> QED
  BY <1>1, <1>2, <1>3, <1>4, <1>5, <1>6 DEF Next, WriterProgress

\* So a line on the trail stays there.
LEMMA TrailStays ==
  ASSUME LinesInv, [Next]_vars, NEW w, NEW n, InTrail(w, n)
  PROVE  InTrail(w, n)'
<1>1. CASE InWritten(w, n)
  BY <1>1, WrittenStays DEF InTrail
<1>2. ASSUME NEW i \in 1..Len(OnTheWay), OnTheWay[i].w = w, OnTheWay[i].n = n
      PROVE  InTrail(w, n)'
  <2>1. PICK x : x = OnTheWay[i]
    OBVIOUS
  <2>2. CASE \E j \in 1..Len(OnTheWay') : OnTheWay'[j] = x
    BY <1>2, <2>1, <2>2 DEF InTrail
  <2>3. CASE \E j \in 1..Len(Written') : Written'[j].line = x
    BY <1>2, <2>1, <2>3 DEF InTrail, InWritten
  <2> QED
    BY <2>1, <2>2, <2>3, WayNext
<1> QED
  BY <1>1, <1>2 DEF InTrail

\* A line pushed to a queue that has room is on its way.
LEMMA PushTrails ==
  ASSUME LinesInv, NEW w \in Writers, Push(w), Len(queue) < MaxQueue
  PROVE  \A n : n = Begun(w) => InTrail(w, n)'
<1> USE DEF LinesInv
<1>1. /\ queue' = Append(queue, line[w]) /\ single' = single
      /\ line[w] \in Lines /\ line[w].w = w /\ line[w].n = Begun(w)
  BY InHandOwn DEF Push, At, Accepts
<1>2. OnTheWay' = Append(OnTheWay, line[w])
  BY <1>1, WayPush
<1>3. Len(OnTheWay) + 1 \in 1..Len(OnTheWay') /\ OnTheWay'[Len(OnTheWay) + 1] = line[w]
  BY <1>1, <1>2, WayParts, AppendProperties
<1> QED
  BY <1>1, <1>3 DEF InTrail

\* A writer that is alone was so before.
LEMMA LoneBefore ==
  ASSUME LinesInv, [Next]_vars, LoneWriter'
  PROVE  LoneWriter
<1> SUFFICES ASSUME NEW v \in Writers, NEW w \in Writers, Begun(v) > 0, Begun(w) > 0
             PROVE  v = w
  BY DEF LoneWriter
<1>1. Begun(v)' > 0 /\ Begun(w)' > 0
  BY ReturnedKept
<1> QED
  BY <1>1 DEF LoneWriter

\* A writer at work has begun a line.
LEMMA AtWork ==
  ASSUME LinesInv, NEW w \in Writers, pc[w] # "idle"
  PROVE  Begun(w) > 0
<1>1. line[w] \in Lines
  BY DEF LinesInv, OwnLines, TypeOK
<1> QED
  BY <1>1, LogAssumption DEF Begun, Lines

\* Only a writer's push makes the queue longer; a writer comes to push when
\* the queue has room.
LEMMA RoomNext ==
  ASSUME LinesInv, [Next]_vars, NEW v \in Writers, pc'[v] = "push"
  PROVE  \/ Len(queue') < MaxQueue
         \/ pc[v] = "push" /\ (Len(queue') <= Len(queue) \/ \E w \in Writers : Push(w) /\ w # v)
<1> USE DEF LinesInv
<1>0. Len(queue) \in Nat /\ MaxQueue \in Nat
  BY LenProperties, LogAssumption DEF TypeOK
<1>1. CASE AskFull(v)
  BY <1>0, <1>1 DEF AskFull, Full, Goto, TypeOK
<1>2. CASE Push(v)
  BY <1>2 DEF Push, HandedOver, Goto, TypeOK
<1>3. ASSUME NEW w \in Writers, Push(w), w # v
      PROVE  pc[v] = "push"
  BY <1>3 DEF Push, HandedOver, Goto, TypeOK
<1>4. ASSUME NEW w \in Writers, Call(w) \/ Count(w) \/ Format(w) \/ Direct(w) \/ Flush(w)
      PROVE  pc[v] = "push" /\ queue' = queue
  <2>1. queue' = queue
    BY <1>4 DEF Call, Count, Format, Direct, Flush
  <2>2. pc[v] = "push"
    BY <1>4 DEF Call, Count, Format, Direct, HandedOver, Flush, Goto, TypeOK
  <2> QED
    BY <2>1, <2>2
<1>5. ASSUME NEW w \in Writers, AskFull(w), w # v
      PROVE  pc[v] = "push" /\ queue' = queue
  BY <1>5 DEF AskFull, Goto, TypeOK
<1>6. CASE FlushPop
  <2>1. Len(queue') <= Len(queue)
    BY <1>6, PopTakesFirst
  <2> QED
    BY <1>6, <2>1 DEF FlushPop, writeVars
<1>7. CASE Midnight \/ FlushPut \/ UNCHANGED vars
  <2>1. pc' = pc /\ queue' = queue
    BY <1>7 DEF Midnight, FlushPut, vars, writeVars
  <2> QED
    BY <1>0, <2>1
<1> QED
  BY <1>0, <1>1, <1>2, <1>3, <1>4, <1>5, <1>6, <1>7 DEF Next, WriterProgress

LEMMA LoneInit == Init => LoneInv
<1> SUFFICES ASSUME Init PROVE LoneInv
  OBVIOUS
<1>1. \A w \in Writers : Begun(w) = 0 /\ pc[w] = "idle"
  BY DEF Init, Begun
<1> QED
  BY <1>1 DEF LoneInv

\* Every step keeps what a lone writer is owed.
LEMMA LoneStep == LinesInv /\ LoneInv /\ [Next]_vars => LoneInv'
<1> SUFFICES ASSUME LinesInv, LoneInv, [Next]_vars, LoneWriter', NEW v \in Writers
             PROVE  /\ \A n \in 1..Begun(v)' : Returned(v, n)' => InTrail(v, n)'
                    /\ alive' /\ pc'[v] = "flush" => InTrail(v, Begun(v))'
                    /\ pc'[v] = "push" => Len(queue') < MaxQueue
  BY DEF LoneInv
<1>1. LoneWriter
  BY LoneBefore
<1>2. ASSUME NEW n \in 1..Begun(v)', Returned(v, n)'
      PROVE  InTrail(v, n)'
  <2>1. CASE n \in 1..Begun(v) /\ Returned(v, n)
    BY <1>1, <2>1, TrailStays DEF LoneInv
  <2>2. CASE n = Begun(v) /\ n \in 1..Begun(v) /\ Flush(v)
    <3>1. alive /\ pc[v] = "flush"
      BY <2>2 DEF Flush, At
    <3> QED
      BY <1>1, <2>2, <3>1, TrailStays DEF LoneInv
  <2> QED
    BY <1>2, <2>1, <2>2, ReturnedKept
<1>3. ASSUME alive', pc'[v] = "flush"
      PROVE  InTrail(v, Begun(v))'
  <2>1. PICK n : n = Begun(v)
    OBVIOUS
  <2>2. alive /\ Begun(v)' = n /\ (pc[v] = "flush" \/ Push(v) \/ Direct(v))
    BY <1>3, <2>1, FlushNext
  <2>3. InTrail(v, n)'
    <3>1. CASE pc[v] = "flush"
      BY <1>1, <2>1, <2>2, <3>1, TrailStays DEF LoneInv
    <3>2. CASE Push(v)
      <4>1. Len(queue) < MaxQueue
        BY <1>1, <3>2 DEF LoneInv, Push, At
      <4> QED
        BY <2>1, <3>2, <4>1, PushTrails
    <3>3. CASE Direct(v)
      BY <1>3, <2>1, <3>3, DirectWrites DEF InTrail
    <3> QED
      BY <2>2, <3>1, <3>2, <3>3
  <2> QED
    BY <2>2, <2>3 DEF InTrail, InWritten
<1>4. ASSUME pc'[v] = "push"
      PROVE  Len(queue') < MaxQueue
  <2>1. ASSUME NEW w \in Writers, Push(w), pc[v] = "push"
        PROVE  w = v
    <3>1. Begun(w) > 0 /\ Begun(v) > 0
      BY <2>1, AtWork DEF Push, At
    <3> QED
      BY <1>1, <3>1 DEF LoneWriter
  <2>2. CASE pc[v] = "push" /\ Len(queue') <= Len(queue)
    <3>1. Len(queue) < MaxQueue
      BY <1>1, <2>2 DEF LoneInv
    <3>2. Len(queue) \in Nat /\ Len(queue') \in Nat /\ MaxQueue \in Nat
      BY LinesStep, LenProperties, LogAssumption DEF LinesInv, TypeOK
    <3> QED
      BY <2>2, <3>1, <3>2
  <2> QED
    BY <1>4, <2>1, <2>2, RoomNext
<1> QED
  BY <1>2, <1>3, <1>4

\* A lone writer loses nothing: between full() and push() only another writer
\* could take the room.
THEOREM LoneLosesNothing == Spec => []LoneWriterLosesNothing
<1>1. LinesInv /\ LoneInv => LoneWriterLosesNothing
  <2> SUFFICES ASSUME LinesInv, LoneInv, LoneWriter, NEW w \in Writers,
                      NEW n \in 1..Begun(w), Returned(w, n)
               PROVE  \E i \in 1..Len(Trail) : Trail[i].w = w /\ Trail[i].n = n
    BY DEF LoneWriterLosesNothing
  <2>1. InTrail(w, n)
    BY DEF LoneInv
  <2>2. PICK m \in Nat, k \in Nat : m = Len(Written) /\ k = Len(OnTheWay) /\ Len(Trail) = m + k
    BY TrailParts DEF LinesInv
  <2>3. \A a \in 1..m + k : Trail[a] = IF a <= m THEN Written[a].line ELSE OnTheWay[a - m]
    BY <2>2, TrailParts DEF LinesInv
  <2>4. ASSUME NEW i \in 1..m, Written[i].line.w = w, Written[i].line.n = n
        PROVE  i \in 1..Len(Trail) /\ Trail[i].w = w /\ Trail[i].n = n
    BY <2>2, <2>3, <2>4
  <2>5. ASSUME NEW i \in 1..k, OnTheWay[i].w = w, OnTheWay[i].n = n
        PROVE  m + i \in 1..Len(Trail) /\ Trail[m + i].w = w /\ Trail[m + i].n = n
    <3>1. m + i \in 1..m + k /\ ~(m + i <= m) /\ (m + i) - m = i
      BY <2>2
    <3> QED
      BY <2>2, <2>3, <2>5, <3>1
  <2> QED
    BY <2>1, <2>2, <2>4, <2>5 DEF InTrail, InWritten
<1> QED
  BY <1>1, LinesInit, LinesStep, LoneInit, LoneStep, PTL DEF Spec

-----------------------------------------------------------------------------
(* A lone writer's lines are filed by day, SplitLines to a file *)

\* The records in a file are finitely many.
LEMMA HoldingFinite ==
  ASSUME TypeOK, NEW f
  PROVE  IsFiniteSet(Holding(f)) /\ Cardinality(Holding(f)) \in Nat
<1>1. Len(Written) \in Nat
  BY WrittenParts
<1>2. IsFiniteSet(1..Len(Written))
  BY <1>1, FS_Interval
<1>3. Holding(f) \in SUBSET (1..Len(Written))
  BY DEF Holding
<1> QED
  BY <1>2, <1>3, FS_Subset, FS_CardinalityType

\* A file with no record of its own day and part has none.
LEMMA HoldingNone ==
  ASSUME NEW f, \A i \in 1..Len(Written) : Written[i].file # f
  PROVE  Cardinality(Holding(f)) = 0
<1>1. Holding(f) = {}
  BY DEF Holding
<1> QED
  BY <1>1, FS_EmptySet

\* A line written is one more in its file.
LEMMA HoldingAppend ==
  ASSUME TypeOK, NEW r \in Records, Written' = Append(Written, r), NEW f
  PROVE  /\ f # r.file => Holding(f)' = Holding(f)
         /\ f = r.file => Cardinality(Holding(f)') = Cardinality(Holding(f)) + 1
<1>1. Len(Written) \in Nat /\ Written \in Seq(Records)
  BY WrittenParts
<1>2. PICK m \in Nat : m = Len(Written)
  BY <1>1
<1>3. /\ Len(Written') = m + 1 /\ Written'[m + 1] = r
      /\ \A i \in 1..m : Written'[i] = Written[i]
  BY <1>1, <1>2, AppendProperties
<1>4. 1..m + 1 = (1..m) \cup {m + 1} /\ m + 1 \notin 1..m
  OBVIOUS
<1>5. f # r.file => Holding(f)' = Holding(f)
  BY <1>2, <1>3, <1>4 DEF Holding
<1>6. f = r.file => Holding(f)' = Holding(f) \cup {m + 1}
  BY <1>2, <1>3, <1>4 DEF Holding
<1>7. m + 1 \notin Holding(f)
  BY <1>2 DEF Holding
<1> QED
  BY <1>5, <1>6, <1>7, HoldingFinite, FS_AddElement

\* A writer at work is alone with what it has begun.
LEMMA OnlyOneWorks ==
  ASSUME LinesInv, LoneWriter, NEW w \in Writers, pc[w] # "idle"
  PROVE  \A v \in Writers : v # w => pc[v] = "idle"
<1> SUFFICES ASSUME NEW v \in Writers, v # w, pc[v] # "idle" PROVE FALSE
  OBVIOUS
<1>1. Begun(v) > 0 /\ Begun(w) > 0
  BY AtWork
<1> QED
  BY <1>1 DEF LoneWriter

\* The writers with a line between the count and the file are finitely many,
\* each has begun a line, and so have those behind the lines on the way.
LEMMA OnwardLate ==
  ASSUME LinesInv
  PROVE  /\ IsFiniteSet(Pending) /\ Cardinality(Pending) \in Nat
         /\ Len(OnTheWay) \in Nat /\ Onward \in Nat /\ Late \in Nat
         /\ Onward <= Late
         /\ \A W \in SUBSET Writers : (\A w \in W : pc[w] # "idle")
              => Cardinality(W) \in Nat /\ Cardinality(W) + Len(OnTheWay) <= Late
<1> USE DEF LinesInv
<1>1. IsFiniteSet(Active) /\ Cardinality(Active) \in Nat
  BY FS_Subset, FS_CardinalityType, LogAssumption DEF Active
<1>2. PICK a \in Nat : a = Cardinality(Active)
  BY <1>1
<1>3. PICK q \in Nat : q = IF isAsync THEN MaxQueue + 1 ELSE 0
  BY LogAssumption
<1>4. Late = a + q
  BY <1>2, <1>3 DEF Late
<1>5. PICK n \in Nat : n = Len(OnTheWay)
  BY WayParts
<1>6. n <= q
  <2>1. Len(queue) \in Nat /\ Len(queue) <= MaxQueue /\ MaxQueue \in Nat
    BY LenProperties, LogAssumption DEF TypeOK
  <2>2. n = Len(queue) \/ (single # NoLine /\ n = Len(queue) + 1)
    BY <1>5, WayParts
  <2>3. CASE isAsync
    BY <1>3, <2>1, <2>2, <2>3
  <2>4. CASE ~isAsync
    <3>1. queue = <<>> /\ single = NoLine
      BY <2>4 DEF Synchronous
    <3>2. n = 0
      BY <2>2, <3>1, EmptySeq
    <3> QED
      BY <3>2
  <2> QED
    BY <2>3, <2>4
<1>7. ASSUME NEW W \in SUBSET Writers, \A w \in W : pc[w] # "idle"
      PROVE  /\ IsFiniteSet(W) /\ Cardinality(W) \in Nat
             /\ Cardinality(W) <= a
  <2>1. W \in SUBSET Active
    BY <1>7, AtWork DEF Active
  <2> QED
    BY <1>1, <1>2, <2>1, FS_Subset, FS_CardinalityType
<1>8. Pending \in SUBSET Writers /\ \A w \in Pending : pc[w] # "idle"
  BY DEF Pending
<1>9. PICK p \in Nat : p = Cardinality(Pending)
  BY <1>7, <1>8
<1>10. p <= a /\ Onward = p + n
  BY <1>5, <1>7, <1>8, <1>9 DEF Onward
<1>11. \A W \in SUBSET Writers : (\A w \in W : pc[w] # "idle")
         => Cardinality(W) \in Nat /\ Cardinality(W) + Len(OnTheWay) <= Late
  BY <1>4, <1>5, <1>6, <1>7
<1> QED
  BY <1>4, <1>5, <1>6, <1>7, <1>8, <1>9, <1>10, <1>11

\* They may become more.
LEMMA LateGrows ==
  ASSUME LinesInv, [Next]_vars
  PROVE  /\ isAsync' = isAsync /\ Late \in Nat /\ Late' \in Nat /\ Late <= Late'
         /\ day \in Nat /\ day' \in Days /\ day <= day'
<1> USE DEF LinesInv
<1>1. isAsync' = isAsync
  <2>1. ASSUME NEW w \in Writers, Call(w) \/ WriterProgress(w)
        PROVE  isAsync' = isAsync
    BY <2>1, Zenon DEF Call, WriterProgress, Count, Format, AskFull, Push, Direct, Flush
  <2> QED
    BY <2>1, Zenon DEF Next, Midnight, FlushPop, FlushPut, vars
<1>2. IsFiniteSet(Active') /\ Active \in SUBSET Active'
  <2>1. Active' \in SUBSET Writers
    BY DEF Active
  <2>2. \A w \in Writers : Begun(w) \in Nat /\ Begun(w)' \in Nat /\ Begun(w) <= Begun(w)'
    BY ReturnedKept
  <2>3. \A w \in Writers : Begun(w) > 0 => Begun(w)' > 0
    BY <2>2
  <2> QED
    BY <2>1, <2>3, FS_Subset, LogAssumption DEF Active
<1>3. /\ Cardinality(Active) \in Nat /\ Cardinality(Active') \in Nat
      /\ Cardinality(Active) <= Cardinality(Active')
  BY <1>2, FS_Subset, FS_CardinalityType
<1>4. PICK q \in Nat : q = IF isAsync THEN MaxQueue + 1 ELSE 0
  BY LogAssumption
<1>5. (IF isAsync' THEN MaxQueue + 1 ELSE 0) = q
  BY <1>1, <1>4
<1>6. Late = Cardinality(Active) + q /\ Late' = Cardinality(Active') + q
  BY <1>4, <1>5 DEF Late
<1>7. day \in Nat /\ day' \in Days /\ day <= day'
  <2>1. day' \in Days
    BY LinesStep DEF TypeOK
  <2>2. day' = day \/ day' = day + 1
    BY DEF Next, Midnight, FlushPop, FlushPut, WriterProgress, Call, Count, Format, AskFull,
           Push, Direct, Flush, vars
  <2> QED
    BY <2>1, <2>2, LogAssumption DEF TypeOK, Days
<1> QED
  BY <1>1, <1>3, <1>6, <1>7

\* Threads that agree about the day did so before.
LEMMA AgreedBefore ==
  ASSUME LinesInv, [Next]_vars, Agreed'
  PROVE  Agreed
<1>1. CASE LoneWriter'
  BY <1>1, LoneBefore DEF Agreed
<1>2. CASE day' = 1
  <2>1. day \in Days /\ day <= 1
    BY <1>2, LateGrows DEF LinesInv, TypeOK
  <2> QED
    BY <2>1, LogAssumption DEF Agreed, Days
<1> QED
  BY <1>1, <1>2 DEF Agreed

\* The steps that neither count a line nor hand one over.
Quiet(w) == Call(w) \/ Format(w) \/ AskFull(w) \/ Flush(w)

LEMMA QuietStep ==
  ASSUME LinesInv, NEW w, Midnight \/ UNCHANGED vars \/ FlushPop \/ (w \in Writers /\ Quiet(w))
  PROVE  /\ UNCHANGED <<mFp, mToday, mCount>> /\ Written' = Written /\ Pending' = Pending
         /\ Len(OnTheWay') = Len(OnTheWay)
         /\ \A v \in Pending : line'[v] = line[v]
         /\ alive' = alive
<1> USE DEF LinesInv
<1>0. TypeOK'
  BY LinesStep DEF Next, WriterProgress, Quiet
<1>1. CASE Midnight \/ UNCHANGED vars
  BY <1>1, WayKept, Zenon DEF Midnight, vars, fileVars, writeVars, Written, Pending
<1>2. CASE FlushPop
  <2>1. OnTheWay' = OnTheWay
    BY <1>0, <1>2, WayPop
  <2> QED
    BY <1>2, <2>1, Zenon DEF FlushPop, fileVars, writeVars, Written, Pending
<1>3. CASE w \in Writers /\ Call(w)
  <2>1. /\ UNCHANGED <<mFp, mToday, mCount, disk, stdio, queue, single>>
        /\ pc[w] = "idle" /\ pc' = [pc EXCEPT ![w] = "count"]
        /\ \A v \in Writers : v # w => line'[v] = line[v]
    BY <1>3 DEF Call, At, Goto, fileVars, TypeOK
  <2>2. Pending' = Pending /\ w \notin Pending
    BY <1>3, <2>1 DEF Pending, TypeOK
  <2>3. alive' = alive
    BY <1>3, Zenon DEF Call
  <2>4. OnTheWay' = OnTheWay
    BY <2>1, WayKept
  <2>5. \A v \in Pending : line'[v] = line[v]
    BY <2>1, <2>2 DEF Pending
  <2>6. Written' = Written
    BY <2>1 DEF Written
  <2> QED
    BY <2>1, <2>2, <2>3, <2>4, <2>5, <2>6, Zenon
<1>4. CASE w \in Writers /\ (Format(w) \/ AskFull(w))
  <2>1. /\ UNCHANGED <<mFp, mToday, mCount, disk, stdio, queue, single, line>>
        /\ pc[w] \in {"format", "full"}
        /\ \E s \in {"full", "push", "direct"} : pc' = [pc EXCEPT ![w] = s]
    BY <1>4 DEF Format, AskFull, At, Goto, fileVars
  <2>2. Pending' = Pending
    BY <1>4, <2>1 DEF Pending, TypeOK
  <2>3. alive' = alive
    BY <1>4, Zenon DEF Format, AskFull
  <2>4. OnTheWay' = OnTheWay
    BY <2>1, WayKept
  <2>5. Written' = Written
    BY <2>1 DEF Written
  <2> QED
    BY <2>1, <2>2, <2>3, <2>4, <2>5, Zenon
<1>5. CASE w \in Writers /\ Flush(w)
  <2>1. /\ UNCHANGED <<mFp, mToday, mCount, queue, single, line>> /\ CloseFile
        /\ pc[w] = "flush" /\ pc' = [pc EXCEPT ![w] = "idle"]
    BY <1>5 DEF Flush, At, Goto
  <2>2. Pending' = Pending
    BY <1>5, <2>1 DEF Pending, TypeOK
  <2>3. alive' = alive
    BY <1>5, Zenon DEF Flush
  <2>4. OnTheWay' = OnTheWay
    BY <2>1, WayKept
  <2>5. Written' = Written
    BY <2>1, CloseKeeps
  <2> QED
    BY <2>1, <2>2, <2>3, <2>4, <2>5, Zenon
<1> QED
  BY <1>1, <1>2, <1>3, <1>4, <1>5 DEF Quiet

-----------------------------------------------------------------------------
(* A lone writer's lines are filed by day *)

LEMMA FiledInit == Init => FiledInv
<1> SUFFICES ASSUME Init PROVE Filed
  BY DEF FiledInv
<1>1. Pending = {}
  BY DEF Init, Pending
<1>2. Written = <<>> /\ Len(Written) = 0
  BY EmptySeq, ConcatEmptySeq DEF Init, Written
<1>3. day = 1 /\ mToday = Mday[1] /\ mFp = [day |-> 1, part |-> 0]
  BY DEF Init
<1>4. mFp.day = 1 /\ 1 \in Days /\ LastWritten = 1
  BY <1>2, <1>3, LogAssumption DEF Days, LastWritten
<1> QED
  BY <1>1, <1>2, <1>3, <1>4 DEF Filed

\* Filed is kept by a step that leaves the files alone.
LEMMA FiledKept ==
  ASSUME Filed, UNCHANGED <<mFp, mToday>>, Written' = Written, Pending' = Pending,
         \A v \in Pending : line'[v] = line[v]
  PROVE  Filed'
<1>1. (Steady' <=> Steady) /\ LastWritten' = LastWritten
  BY DEF Steady, LastWritten
<1> QED
  BY <1>1 DEF Filed

\* A lone writer that counts its line stays in the file, or goes on to one
\* of its line's day.
LEMMA FiledCount ==
  ASSUME LinesInv, Filed, LoneWriter, NEW w \in Writers, Count(w)
  PROVE  Filed'
<1> USE DEF LinesInv
<1>1. pc[w] = "count" /\ pc' = [pc EXCEPT ![w] = "format"] /\ line' = line
  BY DEF Count, At, Goto
<1>2. \A v \in Writers : v # w => pc[v] = "idle"
  BY <1>1, OnlyOneWorks
<1>3. Pending = {} /\ Pending' = {w}
  BY <1>1, <1>2 DEF Pending, TypeOK
<1>4. line[w] \in Lines /\ line[w].day \in Days
  BY <1>1 DEF OwnLines, TypeOK, Lines
<1>5. Written' = Written
  <2>1. CASE Rotates(w)
    BY <2>1, CloseKeeps DEF Count
  <2>2. CASE ~Rotates(w)
    BY <2>2 DEF Count, Written
  <2> QED
    BY <2>1, <2>2
<1>6. (Steady' <=> Steady) /\ LastWritten' = LastWritten
  BY <1>5 DEF Steady, LastWritten
<1>7. CASE ~Rotates(w)
  <2>1. mFp' = mFp /\ mToday' = mToday /\ Mday[line[w].day] = mToday
    BY <1>7 DEF Count, Rotates, NewDay
  <2> QED
    BY <1>1, <1>3, <1>5, <1>6, <2>1 DEF Filed
<1>8. CASE Rotates(w)
  <2>1. mFp' \in {NextFile(w), NULL} /\ mToday' = Mday[line[w].day]
    BY <1>8 DEF Count
  <2>2. NextFile(w).day = line[w].day
    BY DEF NextFile
  <2>3. mFp' # NULL => mFp'.day = line'[w].day
    BY <1>1, <2>1, <2>2
  <2> QED
    BY <1>1, <1>3, <1>4, <1>5, <1>6, <2>1, <2>3 DEF Filed
<1> QED
  BY <1>7, <1>8

\* A steady log was so before its last line.
LEMMA SteadyBefore ==
  ASSUME TypeOK, NEW r \in Records, Written' = Append(Written, r)
  PROVE  /\ LastWritten' = r.line.day
         /\ Steady' => /\ Steady
                       /\ Mday[LastWritten] = Mday[r.line.day] => LastWritten = r.line.day
<1>1. PICK m \in Nat : m = Len(Written)
  BY WrittenParts
<1>2. /\ Len(Written') = m + 1 /\ Written'[m + 1] = r
      /\ \A i \in 1..m : Written'[i] = Written[i]
  BY <1>1, WrittenParts, AppendProperties
<1>3. LastWritten' = r.line.day
  <2>1. Len(Written') # 0
    BY <1>2
  <2> QED
    BY <1>2, <2>1 DEF LastWritten
<1>4. ASSUME Steady', NEW i \in 1..m
      PROVE  LET last == IF i = 1 THEN 1 ELSE Written[i - 1].line.day
             IN  Mday[last] = Mday[Written[i].line.day] => last = Written[i].line.day
  <2>1. i \in 1..m + 1 /\ (i # 1 => i - 1 \in 1..m)
    OBVIOUS
  <2> QED
    BY <1>2, <1>4, <2>1, Zenon DEF Steady
<1>5. ASSUME Steady'
      PROVE  Mday[LastWritten] = Mday[r.line.day] => LastWritten = r.line.day
  <2>1. m + 1 \in 1..Len(Written')
    BY <1>2
  <2>2. CASE m = 0
    <3>1. m + 1 = 1
      BY <2>2
    <3> QED
      BY <1>1, <1>2, <1>5, <2>1, <2>2, <3>1, Zenon DEF Steady, LastWritten
  <2>3. CASE m # 0
    <3>1. m + 1 # 1 /\ (m + 1) - 1 = m /\ m \in 1..m
      BY <2>3
    <3>2. LastWritten = Written[m].line.day
      BY <1>1, <2>3 DEF LastWritten
    <3>3. PICK k : k = m + 1 /\ k - 1 = m /\ k # 1 /\ k \in 1..Len(Written')
      BY <2>1, <3>1
    <3>4. Mday[Written'[k - 1].line.day] = Mday[Written'[k].line.day]
            => Written'[k - 1].line.day = Written'[k].line.day
      BY <1>5, <3>3, Zenon DEF Steady
    <3> QED
      BY <1>2, <3>1, <3>2, <3>3, <3>4
  <2> QED
    BY <2>2, <2>3
<1>6. Steady' => Steady
  BY <1>1, <1>4, Zenon DEF Steady
<1> QED
  BY <1>3, <1>5, <1>6

\* Its line goes to the file it was counted for.
LEMMA FiledDirect ==
  ASSUME LinesInv, Filed, LoneWriter, NEW w \in Writers, Direct(w)
  PROVE  Filed'
<1> USE DEF LinesInv
<1>1. /\ pc[w] = "direct" /\ pc' = [pc EXCEPT ![w] = "flush"]
      /\ UNCHANGED <<mFp, mToday, disk, line>>
  BY DEF Direct, At, HandedOver, Goto
<1>2. \A v \in Writers : v # w => pc[v] = "idle"
  BY <1>1, OnlyOneWorks
<1>3. Pending = {w} /\ Pending' = {}
  BY <1>1, <1>2 DEF Pending, TypeOK
<1>4. PICK x \in Lines : x = line[w] /\ Fputs(x, TRUE)
  BY <1>1, InHandOwn DEF Direct
<1>5. Mday[x.day] = mToday
  BY <1>3, <1>4 DEF Filed
<1>6. CASE mFp = NULL
  <2>1. Written' = Written
    BY <1>1, <1>4, <1>6, FputsAdds
  <2>2. Steady' <=> Steady
    BY <2>1 DEF Steady
  <2> QED
    BY <1>1, <1>3, <1>6, <2>1, <2>2 DEF Filed
<1>7. CASE mFp # NULL
  <2>1. PICK r \in Records : r.line = x /\ r.file = mFp /\ Written' = Append(Written, r)
    BY <1>1, <1>4, <1>7, FputsAdds
  <2>2. /\ mFp.day \in Days /\ Mday[mFp.day] = mToday
        /\ mFp.day = x.day \/ (Steady => mFp.day = LastWritten)
    BY <1>3, <1>4, <1>7 DEF Filed
  <2>3. /\ LastWritten' = x.day
        /\ Steady' => Steady /\ (Mday[LastWritten] = Mday[x.day] => LastWritten = x.day)
    BY <2>1, SteadyBefore
  <2>4. Steady' => mFp.day = x.day
    BY <1>5, <2>2, <2>3
  <2>5. PICK m \in Nat : m = Len(Written)
    BY WrittenParts
  <2>6. /\ Len(Written') = m + 1 /\ Written'[m + 1] = r
        /\ \A i \in 1..m : Written'[i] = Written[i]
    BY <2>1, <2>5, WrittenParts, AppendProperties
  <2>7. \A i \in 1..Len(Written') : i \in 1..m \/ i = m + 1
    BY <2>6
  <2>8. \A i \in 1..Len(Written') :
          Mday[Written'[i].file.day] = Mday[Written'[i].line.day]
    BY <1>5, <2>1, <2>2, <2>5, <2>6, <2>7 DEF Filed
  <2>9. Steady' => \A i \in 1..Len(Written') : Written'[i].file.day = Written'[i].line.day
    BY <2>1, <2>3, <2>4, <2>5, <2>6, <2>7 DEF Filed
  <2>10. Steady' => mFp'.day = LastWritten'
    BY <1>1, <2>3, <2>4
  <2> QED
    BY <1>1, <1>3, <2>2, <2>8, <2>9, <2>10 DEF Filed
<1> QED
  BY <1>6, <1>7

\* Every step keeps a lone writer's files.
LEMMA FiledStep == LinesInv /\ FiledInv /\ [Next]_vars => FiledInv'
<1> SUFFICES ASSUME LinesInv, FiledInv, [Next]_vars, LoneWriter', ~isAsync'
             PROVE  Filed'
  BY DEF FiledInv
<1>1. LoneWriter /\ ~isAsync /\ Filed
  <2>1. ~isAsync
    BY LateGrows, Zenon
  <2>2. LoneWriter
    BY LoneBefore
  <2> QED
    BY <2>1, <2>2, Zenon DEF FiledInv
<1>2. ~FlushPop /\ ~FlushPut
  <2>1. queue = <<>> /\ single = NoLine
    BY <1>1 DEF LinesInv, Synchronous
  <2> QED
    BY <2>1 DEF FlushPop, FlushPut, MayTake
<1>3. ASSUME NEW w \in Writers, Call(w) \/ WriterProgress(w)
      PROVE  Filed'
  <2>1. ~Push(w)
    BY <1>1 DEF LinesInv, Synchronous, Push, At
  <2>2. CASE Quiet(w)
    BY <1>1, <2>2, QuietStep, FiledKept
  <2>3. CASE Count(w)
    BY <1>1, <2>3, FiledCount
  <2>4. CASE Direct(w)
    BY <1>1, <2>4, FiledDirect
  <2> QED
    BY <1>3, <2>1, <2>2, <2>3, <2>4 DEF WriterProgress, Quiet
<1>4. CASE Midnight \/ UNCHANGED vars
  BY <1>1, <1>4, QuietStep, FiledKept
<1> QED
  BY <1>2, <1>3, <1>4 DEF Next

\* A lone writer's lines are filed under their day of the month, and under
\* their day as long as none comes exactly months after the one before it.
THEOREM LoneLinesFiled == Spec => []LoneWriterFiled
<1>1. FiledInv => LoneWriterFiled
  BY DEF FiledInv, Filed, LoneWriterFiled
<1> QED
  BY <1>1, LinesInit, LinesStep, FiledInit, FiledStep, PTL DEF Spec

-----------------------------------------------------------------------------
(* Files are bounded *)

LEMMA TurnInit == Init => TurnInv
<1> SUFFICES ASSUME Init PROVE TurnInv
  OBVIOUS
<1>1. LinesInv
  BY LinesInit
<1>2. \A w \in Writers : pc[w] = "idle" /\ line[w] = NoLine
  BY DEF Init
<1>3. Written = <<>> /\ Len(Written) = 0
  BY EmptySeq, ConcatEmptySeq DEF Init, Written
<1>4. mCount = 0 /\ day = 1 /\ mToday = Mday[1] /\ mFp = [day |-> 1, part |-> 0]
  BY DEF Init
<1>5. 0 \div SplitLines = 0 /\ 0 % SplitLines = 0
  <2>1. PICK q \in Nat, t \in 0..SplitLines-1 :
          q = 0 \div SplitLines /\ t = 0 % SplitLines /\ q <= 0 /\ 0 = SplitLines * q + t
    BY DivMod, LogAssumption
  <2>2. q = 0
    BY <2>1
  <2>3. t = 0
    BY <2>1, <2>2, LogAssumption
  <2> QED
    BY <2>1, <2>2, <2>3
<1>6. \A f : Cardinality(Holding(f)) = 0
  <2>1. \A f : Holding(f) = {}
    BY <1>3 DEF Holding
  <2> QED
    BY <2>1, FS_EmptySet
<1>7. Onward \in Nat /\ Late \in Nat /\ Onward <= Late
  BY <1>1, OnwardLate
<1>8. mFp.day = 1 /\ mFp.part = 0 /\ 1 \in Days /\ 1 <= 1
  BY <1>4, LogAssumption DEF Days
<1>9. InTurn
  BY <1>2, <1>3, <1>4, <1>5, <1>6, <1>7, <1>8 DEF InTurn
<1>10. DaysPast
  BY <1>2 DEF DaysPast
<1> QED
  BY <1>6, <1>7, <1>9, <1>10, LogAssumption DEF TurnInv, Turned

\* A line is not of a day to come.
LEMMA DaysStep == LinesInv /\ DaysPast /\ [Next]_vars => DaysPast'
<1> SUFFICES ASSUME LinesInv, DaysPast, [Next]_vars, NEW v \in Writers, line'[v] # NoLine
             PROVE  line'[v].day <= day'
  BY DEF DaysPast
<1> USE DEF LinesInv
<1>1. day \in Nat /\ day' \in Nat /\ day <= day'
  BY LateGrows, LogAssumption DEF Days
<1>2. \/ line'[v] = line[v]
      \/ \E w \in Writers : Call(w)
  BY DEF Next, Midnight, FlushPop, FlushPut, WriterProgress, Count, Format, AskFull, Push,
         Direct, Flush, vars, writeVars
<1>3. CASE line'[v] = line[v]
  <2>1. line[v] \in Lines /\ line[v].day <= day
    BY <1>3 DEF DaysPast, TypeOK
  <2>2. line[v].day \in Nat
    BY <2>1, LogAssumption DEF Lines, Days
  <2> QED
    BY <1>1, <1>3, <2>1, <2>2
<1>4. ASSUME NEW w \in Writers, Call(w)
      PROVE  line'[v] = line[v] \/ line'[v].day = day
  BY <1>4, LoggedCall
<1> QED
  BY <1>1, <1>2, <1>3, <1>4

\* A line that begins is of today.
LEMMA CountsToday ==
  ASSUME LinesInv, [Next]_vars, NEW w \in Writers, pc'[w] = "count"
  PROVE  (pc[w] = "count" /\ line'[w] = line[w]) \/ line'[w].day = day
<1> USE DEF LinesInv
<1>1. ASSUME NEW v \in Writers, Call(v)
      PROVE  (pc[w] = "count" /\ line'[w] = line[w]) \/ line'[w].day = day
  <2>1. CASE v = w
    BY <1>1, <2>1, LoggedCall
  <2>2. CASE v # w
    BY <1>1, <2>2 DEF Call, Goto, TypeOK
  <2> QED
    BY <2>1, <2>2
<1>2. ASSUME NEW v \in Writers,
             Count(v) \/ Format(v) \/ AskFull(v) \/ Push(v) \/ Direct(v) \/ Flush(v)
      PROVE  pc[w] = "count" /\ line'[w] = line[w]
  BY <1>2 DEF Count, Format, AskFull, Push, Direct, HandedOver, Flush, Goto, TypeOK
<1>3. CASE Midnight \/ FlushPop \/ FlushPut \/ UNCHANGED vars
  BY <1>3 DEF Midnight, FlushPop, FlushPut, vars, writeVars
<1> QED
  BY <1>1, <1>2, <1>3 DEF Next, WriterProgress

LEMMA Remainder ==
  ASSUME LinesInv
  PROVE  /\ mCount \in Nat /\ SplitLines \in Nat \ {0} /\ mCount \div SplitLines \in Nat
         /\ mCount % SplitLines \in Nat /\ mCount % SplitLines < SplitLines
<1>1. mCount \in Nat /\ SplitLines \in Nat \ {0}
  BY LogAssumption DEF LinesInv, TypeOK
<1> QED
  BY <1>1, DivMod

\* A step that leaves the files alone, and adds no line on its way to one.
LEMMA TurnKept ==
  ASSUME LinesInv, [Next]_vars, Turned, UNCHANGED <<mFp, mToday, mCount>>, Written' = Written,
         Onward' \in Nat, Onward' <= Onward, alive' => alive
  PROVE  Turned'
<1> USE DEF LinesInv
<1>1. \A f : Holding(f)' = Holding(f)
  BY DEF Holding
<1>2. Late \in Nat /\ Late' \in Nat /\ Late <= Late' /\ day \in Nat /\ day' \in Nat /\ day <= day'
  BY LateGrows, LogAssumption DEF Days
<1>3. \A f \in Files : Cardinality(Holding(f)') < SplitLines + Late'
  <2> SUFFICES ASSUME NEW f \in Files PROVE Cardinality(Holding(f)) < SplitLines + Late'
    BY <1>1
  <2>1. Cardinality(Holding(f)) \in Nat /\ Cardinality(Holding(f)) < SplitLines + Late
    BY HoldingFinite DEF Turned
  <2> QED
    BY <1>2, <2>1, LogAssumption
<1>4. ASSUME alive', mFp # NULL
      PROVE  InTurn'
  <2>1. InTurn
    BY <1>4 DEF Turned
  <2>2. mFp.day \in Nat /\ mFp.day \in Days /\ mFp.day <= day
    BY <2>1, LogAssumption DEF InTurn, Days
  <2>3. ASSUME NEW w \in Writers, pc'[w] = "count"
        PROVE  mFp.day <= line'[w].day
    <3>1. (pc[w] = "count" /\ line'[w] = line[w]) \/ line'[w].day = day
      BY <2>3, CountsToday
    <3> QED
      BY <2>1, <2>2, <3>1 DEF InTurn
  <2>4. PICK c \in Nat : c = Cardinality(Holding(mFp))
    BY HoldingFinite
  <2>5. PICK t \in Nat : t = mCount % SplitLines
    BY Remainder
  <2>6. Onward \in Nat
    BY OnwardLate
  <2>7. c + Onward <= t + Late
    BY <2>1, <2>4, <2>5 DEF InTurn
  <2>8. c + Onward' <= t + Late'
    BY <1>2, <2>4, <2>5, <2>6, <2>7
  <2>9. Cardinality(Holding(mFp)') + Onward' <= (mCount' % SplitLines) + Late'
    BY <1>1, <2>4, <2>5, <2>8
  <2>10. mFp.day <= day'
    BY <1>2, <2>2
  <2> QED
    BY <2>1, <2>3, <2>9, <2>10 DEF InTurn
<1> QED
  BY <1>3, <1>4 DEF Turned

\* A writer that leaves the stages between the count and the file.
LEMMA PendingLess ==
  ASSUME LinesInv, NEW w \in Pending, Goto(w, "flush")
  PROVE  /\ Cardinality(Pending) \in Nat /\ Cardinality(Pending') \in Nat
         /\ Cardinality(Pending) = Cardinality(Pending') + 1
<1>1. Pending' = Pending \ {w}
  BY DEF Pending, Goto, LinesInv, TypeOK
<1>2. IsFiniteSet(Pending)
  BY OnwardLate
<1>3. /\ Cardinality(Pending) \in Nat /\ Cardinality(Pending') \in Nat
      /\ Cardinality(Pending') = Cardinality(Pending) - 1
  BY <1>1, <1>2, FS_RemoveElement, FS_CardinalityType
<1> QED
  BY <1>3

LEMMA TurnPush ==
  ASSUME LinesInv, [Next]_vars, Turned, NEW w \in Writers, Push(w)
  PROVE  Turned'
<1>0. LinesInv'
  BY LinesStep
<1> USE DEF LinesInv
<1>1. /\ UNCHANGED <<mFp, mToday, mCount, disk, stdio, single>>
      /\ pc[w] = "push" /\ Goto(w, "flush")
      /\ queue' = IF Accepts THEN Append(queue, line[w]) ELSE queue
  BY InHandOwn DEF Push, At, HandedOver, fileVars
<1>2. Cardinality(Pending) = Cardinality(Pending') + 1 /\ Cardinality(Pending') \in Nat
  BY <1>1, PendingLess DEF Pending
<1>3. Len(OnTheWay') \in Nat /\ Len(OnTheWay) \in Nat /\ Len(OnTheWay') <= Len(OnTheWay) + 1
  <2>1. CASE Accepts
    <3>1. line[w] \in Lines
      BY <1>1, InHandOwn
    <3>2. OnTheWay' = Append(OnTheWay, line[w])
      BY <1>1, <2>1, <3>1, WayPush
    <3> QED
      BY <3>1, <3>2, WayParts, AppendProperties
  <2>2. CASE ~Accepts
    <3>1. OnTheWay' = OnTheWay
      BY <1>1, <2>2, WayKept
    <3> QED
      BY <3>1, WayParts
  <2> QED
    BY <2>1, <2>2
<1>4. Onward' \in Nat /\ Onward' <= Onward
  BY <1>2, <1>3 DEF Onward
<1>5. Written' = Written
  BY <1>1 DEF Written
<1>6. alive' = alive
  BY Zenon DEF Push
<1>7. alive' => alive
  BY <1>6, Zenon
<1> QED
  BY <1>1, <1>4, <1>5, <1>7, TurnKept

LEMMA OneMore ==
  \A c, o, t, l, k \in Nat : c + (o + 1) <= t + l /\ l <= k => (c + 1) + o <= t + k
OBVIOUS

\* A line on its way reaches m_fp.
LEMMA TurnPut ==
  ASSUME LinesInv, [Next]_vars, Turned, alive, mFp # NULL,
         NEW r \in Records, r.file = mFp, Written' = Append(Written, r),
         UNCHANGED <<mFp, mToday, mCount>>, Onward' \in Nat, Onward = Onward' + 1
  PROVE  Turned'
<1> USE DEF LinesInv
<1>1. InTurn
  BY DEF Turned
<1>2. Late \in Nat /\ Late' \in Nat /\ Late <= Late' /\ day \in Nat /\ day' \in Nat /\ day <= day'
  BY LateGrows, LogAssumption DEF Days
<1>3. mFp.day \in Nat /\ mFp.day \in Days /\ mFp.day <= day
  BY <1>1, LogAssumption DEF InTurn, Days
<1>4. PICK c \in Nat : c = Cardinality(Holding(mFp))
  BY HoldingFinite
<1>5. PICK t \in Nat : t = mCount % SplitLines /\ t < SplitLines
  BY Remainder
<1>6. Cardinality(Holding(mFp)') = c + 1 /\ \A f : f # mFp => Holding(f)' = Holding(f)
  BY <1>4, HoldingAppend
<1>7. (c + 1) + Onward' <= t + Late'
  <2>1. c + Onward <= t + Late
    BY <1>1, <1>4, <1>5 DEF InTurn
  <2>2. PICK o \in Nat : o = Onward' /\ Onward = o + 1
    OBVIOUS
  <2>3. PICK l \in Nat, k \in Nat : l = Late /\ k = Late' /\ l <= k
    BY <1>2
  <2>4. c + (o + 1) <= t + l
    BY <2>1, <2>2, <2>3
  <2>5. (c + 1) + o <= t + k
    BY <2>3, <2>4, OneMore, Zenon
  <2> QED
    BY <2>2, <2>3, <2>5
<1>8. c + 1 < SplitLines + Late'
  BY <1>2, <1>4, <1>5, <1>7, LogAssumption
<1>9. \A f \in Files : Cardinality(Holding(f)') < SplitLines + Late'
  <2> SUFFICES ASSUME NEW f \in Files PROVE Cardinality(Holding(f)') < SplitLines + Late'
    OBVIOUS
  <2>1. CASE f = mFp
    <3>1. Holding(f)' = Holding(mFp)'
      BY <2>1 DEF Holding
    <3> QED
      BY <1>6, <1>8, <3>1
  <2>2. CASE f # mFp
    <3>1. Cardinality(Holding(f)) \in Nat /\ Cardinality(Holding(f)) < SplitLines + Late
      BY HoldingFinite DEF Turned
    <3>2. Holding(f)' = Holding(f)
      BY <1>6, <2>2
    <3> QED
      BY <1>2, <3>1, <3>2, LogAssumption
  <2> QED
    BY <2>1, <2>2
<1>10. ASSUME NEW w \in Writers, pc'[w] = "count"
       PROVE  mFp.day <= line'[w].day
  <2>1. (pc[w] = "count" /\ line'[w] = line[w]) \/ line'[w].day = day
    BY <1>10, CountsToday
  <2> QED
    BY <1>1, <1>3, <2>1 DEF InTurn
<1>11. PICK m \in Nat : m = Len(Written)
  BY WrittenParts
<1>12. /\ Len(Written') = m + 1 /\ Written'[m + 1] = r
       /\ \A i \in 1..m : Written'[i] = Written[i]
  BY <1>11, WrittenParts, AppendProperties
<1>13. \A i \in 1..Len(Written') : i \in 1..m \/ i = m + 1
  BY <1>12
<1>14. mFp.part \in Nat
  BY <1>1, Remainder DEF InTurn
<1>15. \A i \in 1..Len(Written') :
         \/ Written'[i].file.day < mFp.day
         \/ Written'[i].file.day = mFp.day /\ Written'[i].file.part <= mFp.part
  BY <1>1, <1>11, <1>12, <1>13, <1>14 DEF InTurn
<1>16. Cardinality(Holding(mFp)') + Onward' <= (mCount' % SplitLines) + Late'
  BY <1>5, <1>6, <1>7
<1>17. mFp.day <= day'
  BY <1>2, <1>3
<1>18. InTurn'
  BY <1>1, <1>10, <1>15, <1>16, <1>17 DEF InTurn
<1> QED
  BY <1>9, <1>18 DEF Turned

\* Without a file the process ends, and nothing is written.
LEMMA TurnDead ==
  ASSUME LinesInv, [Next]_vars, Turned, ~alive', Written' = Written
  PROVE  Turned'
<1> USE DEF LinesInv
<1>1. Late \in Nat /\ Late' \in Nat /\ Late <= Late'
  BY LateGrows
<1>2. ASSUME NEW f \in Files
      PROVE  Cardinality(Holding(f)') < SplitLines + Late'
  <2>1. Cardinality(Holding(f)) \in Nat /\ Cardinality(Holding(f)) < SplitLines + Late
    BY HoldingFinite DEF Turned
  <2>2. Holding(f)' = Holding(f)
    BY DEF Holding
  <2> QED
    BY <1>1, <2>1, <2>2, LogAssumption
<1> QED
  BY <1>2, Zenon DEF Turned

LEMMA TurnDirect ==
  ASSUME LinesInv, [Next]_vars, Turned, NEW w \in Writers, Direct(w)
  PROVE  Turned'
<1> USE DEF LinesInv
<1>1. /\ UNCHANGED <<mFp, mToday, mCount, disk, queue, single>>
      /\ pc[w] = "direct" /\ Goto(w, "flush") /\ Fputs(line[w], TRUE) /\ line[w] \in Lines
  BY InHandOwn DEF Direct, At, HandedOver
<1>2. alive
  BY Zenon DEF Direct, At
<1>3. CASE mFp = NULL
  <2>1. Written' = Written
    BY <1>1, <1>3, FputsAdds
  <2>2. ~alive'
    BY <1>1, <1>3, FputsAdds, Zenon
  <2> QED
    BY <2>1, <2>2, TurnDead
<1>4. CASE mFp # NULL
  <2>1. PICK r \in Records : r.file = mFp /\ Written' = Append(Written, r)
    BY <1>1, <1>4, FputsAdds
  <2>2. Cardinality(Pending) = Cardinality(Pending') + 1 /\ Cardinality(Pending') \in Nat
    BY <1>1, PendingLess DEF Pending
  <2>3. OnTheWay' = OnTheWay /\ Len(OnTheWay) \in Nat
    BY <1>1, WayKept, WayParts
  <2>4. Onward' \in Nat /\ Onward = Onward' + 1
    BY <2>2, <2>3 DEF Onward
  <2> QED
    BY <1>1, <1>2, <1>4, <2>1, <2>4, TurnPut
<1> QED
  BY <1>3, <1>4

LEMMA TurnFlushPut ==
  ASSUME LinesInv, [Next]_vars, Turned, FlushPut
  PROVE  Turned'
<1> USE DEF LinesInv
<1>1. /\ UNCHANGED <<mFp, mToday, mCount, disk, queue, pc>>
      /\ single # NoLine /\ Fputs(single, FALSE) /\ single \in Lines
  BY DEF FlushPut, writeVars, TypeOK
<1>2. alive
  BY Zenon DEF FlushPut
<1>3. CASE mFp = NULL
  <2>1. Written' = Written
    BY <1>1, <1>3, FputsAdds
  <2>2. ~alive'
    BY <1>1, <1>3, FputsAdds, Zenon
  <2> QED
    BY <2>1, <2>2, TurnDead
<1>4. CASE mFp # NULL
  <2>1. PICK r \in Records : r.file = mFp /\ Written' = Append(Written, r)
    BY <1>1, <1>4, FputsAdds
  <2>2. alive'
    BY <1>1, <1>2, <1>4, FputsAdds, Zenon
  <2>3. single' = NoLine
    BY <2>2, Zenon DEF FlushPut
  <2>4. TypeOK'
    BY LinesStep
  <2>5. Len(OnTheWay') \in Nat /\ Len(OnTheWay) = Len(OnTheWay') + 1
    <3>1. Len(OnTheWay) = Len(queue) + 1 /\ Len(queue) \in Nat
      BY <1>1, WayParts, LenProperties DEF TypeOK
    <3>2. OnTheWay' = queue
      BY <1>1, <2>3, <2>4, ConcatEmptySeq DEF OnTheWay, TypeOK
    <3> QED
      BY <3>1, <3>2
  <2>6. Pending' = Pending /\ Cardinality(Pending) \in Nat
    BY <1>1, OnwardLate DEF Pending
  <2>7. Onward' \in Nat /\ Onward = Onward' + 1
    BY <2>5, <2>6 DEF Onward
  <2> QED
    BY <1>1, <1>2, <1>4, <2>1, <2>7, TurnPut
<1> QED
  BY <1>3, <1>4

\* A line counted is on its way, to the same file or to one that has none.
LEMMA TurnCount ==
  ASSUME LinesInv, [Next]_vars, DaysPast, Agreed, Turned, NEW w \in Writers, Count(w)
  PROVE  Turned'
<1> USE DEF LinesInv
<1>1. /\ pc[w] = "count" /\ pc' = [pc EXCEPT ![w] = "format"]
      /\ UNCHANGED <<day, line, queue, single>>
  BY DEF Count, At, Goto
<1>2. alive
  BY Zenon DEF Count, At
<1>3. Written' = Written /\ \A f : Holding(f)' = Holding(f)
  <2>1. CASE Rotates(w)
    BY <2>1, CloseKeeps DEF Count, Holding
  <2>2. CASE ~Rotates(w)
    BY <2>2 DEF Count, Written, Holding
  <2> QED
    BY <2>1, <2>2
<1>4. Late \in Nat /\ Late' \in Nat /\ Late <= Late'
  BY LateGrows
<1>5. Onward \in Nat /\ Onward' = Onward + 1 /\ Onward' <= Late
  <2>1. Pending' = Pending \cup {w} /\ w \notin Pending
    BY <1>1 DEF Pending, TypeOK
  <2>2. Cardinality(Pending') = Cardinality(Pending) + 1
    BY <2>1, OnwardLate, FS_AddElement
  <2>3. OnTheWay' = OnTheWay
    BY <1>1, WayKept
  <2>4. Cardinality(Pending') + Len(OnTheWay) <= Late
    <3>1. Pending \cup {w} \in SUBSET Writers /\ \A v \in Pending \cup {w} : pc[v] # "idle"
      BY <1>1 DEF Pending
    <3> QED
      BY <2>1, <3>1, OnwardLate
  <2> QED
    BY <2>2, <2>3, <2>4, OnwardLate DEF Onward
<1>6. \A f \in Files : Cardinality(Holding(f)') < SplitLines + Late'
  <2> SUFFICES ASSUME NEW f \in Files PROVE Cardinality(Holding(f)) < SplitLines + Late'
    BY <1>3
  <2>1. Cardinality(Holding(f)) \in Nat /\ Cardinality(Holding(f)) < SplitLines + Late
    BY HoldingFinite DEF Turned
  <2> QED
    BY <1>4, <2>1, LogAssumption
<1>7. PICK n \in Nat, q \in Nat, t \in Nat :
        n = mCount /\ q = mCount \div SplitLines /\ t = mCount % SplitLines
  BY Remainder
<1>8. /\ (n + 1) % SplitLines # 0 => (n + 1) % SplitLines = t + 1 /\ (n + 1) \div SplitLines = q
      /\ (n + 1) % SplitLines = 0 => (n + 1) \div SplitLines = q + 1
  BY <1>7, NextDiv, LogAssumption
<1>9. PICK d \in Days : d = line[w].day /\ d <= day
  BY <1>1 DEF OwnLines, TypeOK, Lines, DaysPast
<1>10. d \in Nat /\ day \in Nat
  BY <1>9, LogAssumption DEF Days, TypeOK
<1>11. ASSUME mFp # NULL
       PROVE  /\ InTurn /\ mFp.day \in Nat /\ mFp.day <= d /\ mFp.part = q
              /\ Mday[mFp.day] = mToday
  <2>1. InTurn
    BY <1>2, <1>11 DEF Turned
  <2> QED
    BY <1>1, <1>7, <1>9, <2>1, LogAssumption DEF InTurn, Days
<1>12. CASE ~Rotates(w)
  <2>1. /\ mFp' = mFp /\ mToday' = mToday /\ mCount' = n + 1 /\ (n + 1) % SplitLines # 0
    BY <1>7, <1>12 DEF Count, Rotates
  <2>2. ASSUME mFp # NULL
        PROVE  InTurn'
    <3>1. PICK c \in Nat : c = Cardinality(Holding(mFp))
      BY HoldingFinite
    <3>2. c + Onward <= t + Late
      BY <1>7, <1>11, <2>2, <3>1 DEF InTurn
    <3>3. c + Onward' <= (t + 1) + Late'
      BY <1>4, <1>5, <1>7, <3>1, <3>2
    <3>4. mFp'.part = mCount' \div SplitLines /\ mCount' % SplitLines = t + 1
      BY <1>8, <1>11, <2>1, <2>2
    <3>5. Holding(mFp)' = Holding(mFp)
      BY <1>3, <2>1
    <3>6. Cardinality(Holding(mFp)') + Onward' <= (mCount' % SplitLines) + Late'
      BY <3>1, <3>3, <3>4, <3>5
    <3>7. \A v \in Writers : pc'[v] = "count" => pc[v] = "count"
      BY <1>1 DEF TypeOK
    <3> QED
      BY <1>1, <1>3, <1>11, <2>1, <2>2, <3>4, <3>6, <3>7 DEF InTurn
  <2> QED
    BY <1>6, <2>1, <2>2 DEF Turned
<1>13. CASE Rotates(w)
  <2>1. /\ mFp' \in {NextFile(w), NULL} /\ mToday' = Mday[d]
        /\ mCount' = IF NewDay(w) THEN 0 ELSE n + 1
    BY <1>7, <1>9, <1>13 DEF Count
  <2>2. CASE mFp = NULL
    <3>1. ~alive'
      BY <1>13, <2>2, Zenon DEF Count
    <3> QED
      BY <1>3, <3>1, TurnDead
  <2>3. CASE mFp # NULL /\ mFp' = NULL
    BY <1>6, <2>3 DEF Turned
  <2>4. CASE mFp # NULL /\ mFp' = NextFile(w)
    <3>1. PICK p \in Nat : /\ p = mCount' \div SplitLines
                           /\ mFp' = [day |-> d, part |-> p]
                           /\ mFp.day < d \/ (mFp.day <= d /\ q < p)
      <4>1. CASE NewDay(w)
        <5>1. mFp.day # d
          BY <1>9, <1>11, <2>4, <4>1 DEF NewDay
        <5>2. mFp.day < d
          BY <1>10, <1>11, <2>4, <5>1
        <5>3. PICK k \in Nat : k = 0 \div SplitLines /\ k <= 0
          BY DivMod, LogAssumption
        <5>4. mCount' \div SplitLines = 0
          BY <2>1, <4>1, <5>3
        <5>5. mFp' = [day |-> d, part |-> 0]
          BY <1>9, <2>4, <4>1 DEF NextFile
        <5>6. 0 \in Nat
          OBVIOUS
        <5> QED
          BY <5>2, <5>4, <5>5, <5>6
      <4>2. CASE ~NewDay(w)
        <5>1. (n + 1) % SplitLines = 0
          BY <1>7, <1>13, <4>2 DEF Rotates
        <5>2. mFp' = [day |-> d, part |-> (n + 1) \div SplitLines]
          BY <1>7, <1>9, <2>4, <4>2 DEF NextFile
        <5>3. (n + 1) \div SplitLines = q + 1 /\ q + 1 \in Nat /\ q < q + 1
          BY <1>7, <1>8, <5>1
        <5>4. mCount' = n + 1
          BY <2>1, <4>2
        <5> QED
          BY <1>11, <2>4, <5>2, <5>3, <5>4
      <4> QED
        BY <4>1, <4>2
    <3>2. mFp'.day = d /\ mFp'.part = p
      BY <3>1
    <3>3. \A i \in 1..Len(Written) :
            /\ Written[i].file # mFp'
            /\ \/ Written[i].file.day < d
               \/ Written[i].file.day = d /\ Written[i].file.part <= p
      <4> SUFFICES ASSUME NEW i \in 1..Len(Written)
                   PROVE  /\ Written[i].file # mFp'
                          /\ \/ Written[i].file.day < d
                             \/ Written[i].file.day = d /\ Written[i].file.part <= p
        OBVIOUS
      <4>1. Written[i] \in Records
        BY WrittenParts
      <4>2. Written[i].file.day \in Nat /\ Written[i].file.part \in Nat
        BY <4>1, LogAssumption DEF Records, Files, NULL, Days
      <4>3. \/ Written[i].file.day < mFp.day
            \/ Written[i].file.day = mFp.day /\ Written[i].file.part <= q
        BY <1>11, <2>4 DEF InTurn
      <4>4. \/ Written[i].file.day < d
            \/ Written[i].file.day = d /\ Written[i].file.part < p
        BY <1>7, <1>10, <1>11, <2>4, <3>1, <4>2, <4>3
      <4> QED
        BY <1>10, <3>1, <3>2, <4>2, <4>4
    <3>4. \A v \in Writers : pc'[v] = "count" => d <= line'[v].day
      <4> SUFFICES ASSUME NEW v \in Writers, pc'[v] = "count" PROVE d <= line[v].day
        BY <1>1
      <4>1. v # w /\ pc[v] = "count"
        BY <1>1 DEF TypeOK
      <4>2. day = 1
        BY <1>1, <4>1, OnlyOneWorks DEF Agreed
      <4>3. line[v].day \in Days
        BY <4>1 DEF OwnLines, TypeOK, Lines
      <4> QED
        BY <1>9, <1>10, <4>2, <4>3, LogAssumption DEF Days
    <3>5. Cardinality(Holding(mFp)') = 0
      <4>1. PICK f : f = mFp'
        OBVIOUS
      <4>2. Cardinality(Holding(f)) = 0
        BY <3>3, <4>1, HoldingNone
      <4>3. Holding(mFp)' = Holding(f)'
        BY <4>1 DEF Holding
      <4> QED
        BY <1>3, <4>2, <4>3
    <3>6. mCount' % SplitLines \in Nat
      <4>1. PICK k \in Nat : k = mCount'
        BY <1>7, <2>1
      <4>2. k % SplitLines \in 0..SplitLines-1 /\ SplitLines \in Nat
        BY DivMod, LogAssumption
      <4>3. k % SplitLines \in Nat
        BY <4>2
      <4> QED
        BY <4>1, <4>3
    <3>7. Cardinality(Holding(mFp)') + Onward' <= (mCount' % SplitLines) + Late'
      BY <1>4, <1>5, <3>5, <3>6
    <3>8. InTurn'
      BY <1>1, <1>3, <1>9, <2>1, <3>1, <3>2, <3>3, <3>4, <3>7 DEF InTurn
    <3> QED
      BY <1>6, <3>8 DEF Turned
  <2> QED
    BY <2>1, <2>2, <2>3, <2>4
<1> QED
  BY <1>12, <1>13

LEMMA TurnStep == LinesInv /\ TurnInv /\ [Next]_vars => TurnInv'
<1> SUFFICES ASSUME LinesInv, TurnInv, [Next]_vars, Agreed'
             PROVE  Turned'
  BY DaysStep DEF TurnInv
<1>1. Agreed /\ Turned /\ DaysPast
  BY AgreedBefore DEF TurnInv
<1>2. ASSUME NEW w, Midnight \/ UNCHANGED vars \/ FlushPop \/ (w \in Writers /\ Quiet(w))
      PROVE  Turned'
  <2>1. /\ UNCHANGED <<mFp, mToday, mCount>> /\ Written' = Written /\ Pending' = Pending
        /\ Len(OnTheWay') = Len(OnTheWay)
    BY <1>2, QuietStep
  <2>2. alive' => alive
    BY <1>2, QuietStep, Zenon
  <2>3. Onward' = Onward /\ Onward \in Nat
    BY <2>1, OnwardLate DEF Onward
  <2>4. Onward' \in Nat /\ Onward' <= Onward
    BY <2>3
  <2> QED
    BY <1>1, <2>1, <2>2, <2>4, TurnKept
<1>3. ASSUME NEW w \in Writers, Call(w) \/ WriterProgress(w)
      PROVE  Turned'
  <2>1. CASE Quiet(w)
    BY <1>2, <2>1
  <2>2. CASE Count(w)
    BY <1>1, <2>2, TurnCount
  <2>3. CASE Direct(w)
    BY <1>1, <2>3, TurnDirect
  <2>4. CASE Push(w)
    BY <1>1, <2>4, TurnPush
  <2> QED
    BY <1>3, <2>1, <2>2, <2>3, <2>4 DEF WriterProgress, Quiet
<1>4. CASE FlushPut
  BY <1>1, <1>4, TurnFlushPut
<1> QED
  BY <1>2, <1>3, <1>4 DEF Next

\* As long as the threads agree about the day, a file has at most
\* m_split_lines lines and one for each that can be late.
THEOREM FilesHoldSplitLines == Spec => []FilesBounded
<1>1. TurnInv => FilesBounded
  BY DEF TurnInv, Turned, Agreed, FilesBounded, Held, Holding
<1> QED
  BY <1>1, LinesInit, LinesStep, TurnInit, TurnStep, PTL DEF Spec

=============================================================================
