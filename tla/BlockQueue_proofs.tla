-------------------------- MODULE BlockQueue_proofs --------------------------
(***************************************************************************)
(* Theorems about BlockQueue, for any threads, any values and any size:    *)
(* the types, which bound m_size, the shape of the ring, that nobody       *)
(* sleeps beside an element, and that every step is one of BoundedQueue.   *)
(* The inductive invariant is RingInv; the refinement adds CallInv.        *)
(***************************************************************************)
EXTENDS BlockQueue, SequenceTheorems, TLAPS

\* An element has a cell: RingConsistent alone allows m_back = -1 beside one.
BackIsCell == size > 0 => back >= 0

RingInv == TypeOK /\ RingConsistent /\ BackIsCell /\ NobodySleepsOnElements

\* Three indexes of a ring of n cells: going round, and staying in it.
LEMMA Wrapping ==
  ASSUME NEW n \in Nat \ {0}, NEW x \in -1..n - 1
  PROVE  (x + 1) % n = IF x + 1 = n THEN 0 ELSE x + 1
<1>1. CASE x + 1 = n
  BY <1>1
<1>2. CASE x + 1 # n
  BY <1>2
<1> QED
  BY <1>1, <1>2

\* A multiple of the size of the ring stays one over a turn.
LEMMA Turn ==
  ASSUME NEW n \in Nat \ {0}, NEW x \in Int, x % n = 0
  PROVE  (x + n) % n = 0 /\ (x - n) % n = 0
<1> DEFINE k == x \div n
<1>1. k \in Int /\ x = n * k
  OBVIOUS
<1>2. ASSUME NEW j \in Int PROVE (n * j) % n = 0
  OBVIOUS
<1> HIDE DEF k
<1>3. x + n = n * (k + 1) /\ x - n = n * (k - 1)
  BY <1>1
<1> QED
  BY <1>1, <1>2, <1>3

\* The cell after a cell is a cell.
LEMMA AfterType ==
  ASSUME NEW i \in -1..MaxSize - 1
  PROVE  After(i) \in 0..MaxSize - 1 /\ (After(i) = i + 1 \/ After(i) = i + 1 - MaxSize)
BY BlockQueueAssumption, Wrapping DEF After

\* The initial states satisfy the invariant.
LEMMA RingInit == Init => RingInv
<1> SUFFICES ASSUME Init PROVE RingInv
  OBVIOUS
<1>1. <<>> \in Seq(Cells)
  BY EmptySeq
<1>2. TypeOK
  BY <1>1, BlockQueueAssumption DEF Init, TypeOK, Stages, Cells
<1>3. RingConsistent
  BY BlockQueueAssumption DEF Init, RingConsistent
<1>4. NobodySleepsOnElements
  BY DEF Init, NobodySleepsOnElements
<1>5. BackIsCell
  BY DEF Init, BackIsCell
<1> QED
  BY <1>2, <1>3, <1>4, <1>5 DEF RingInv

\* The return of a call keeps what is per thread in its types.
LEMMA AnswerTypes ==
  ASSUME TypeOK, NEW t \in Threads, NEW s \in Seq(Cells), Answer(t, s)
  PROVE  /\ op' \in [Threads -> Ops \cup {"none"}]
         /\ arg' \in [Threads -> Cells]
         /\ ret' \in [Threads -> Seq(Cells)]
BY DEF TypeOK, Answer, Cells

LEMMA ReturnTypes ==
  ASSUME TypeOK, NEW t \in Threads, NEW s \in Seq(Cells), Return(t, s)
  PROVE  /\ pc' \in [Threads -> Stages]
         /\ op' \in [Threads -> Ops \cup {"none"}]
         /\ arg' \in [Threads -> Cells]
         /\ ret' \in [Threads -> Seq(Cells)]
         /\ \A u \in Threads : pc'[u] = "asleep" => pc[u] = "asleep"
BY AnswerTypes DEF TypeOK, Return, Stages

\* A successful pop moves front one cell on and leaves the array.
LEMMA TakeStep ==
  ASSUME RingInv, NEW t \in Threads, size > 0, TakeOldest(t)
  PROVE  RingInv'
<1> USE BlockQueueAssumption
<1>1. After(front) \in 0..MaxSize - 1
  BY AfterType DEF RingInv, TypeOK
<1>2. <<array[After(front)]>> \in Seq(Cells)
  BY <1>1 DEF RingInv, TypeOK
<1>3. /\ pc' \in [Threads -> Stages]
      /\ op' \in [Threads -> Ops \cup {"none"}]
      /\ arg' \in [Threads -> Cells]
      /\ ret' \in [Threads -> Seq(Cells)]
      /\ \A u \in Threads : pc'[u] = "asleep" => pc[u] = "asleep"
  BY <1>2, ReturnTypes DEF TakeOldest, RingInv
<1>4. /\ size' = size - 1 /\ front' = After(front)
      /\ UNCHANGED <<array, back>>
  BY DEF TakeOldest
<1>5. TypeOK'
  BY <1>1, <1>3, <1>4 DEF RingInv, TypeOK
<1>6. RingConsistent'
  <2>1. /\ size \in Int /\ front \in -1..MaxSize - 1 /\ back \in Int
        /\ (back - front - size) % MaxSize = 0
    BY DEF RingInv, TypeOK, RingConsistent
  <2>2. front' = front + 1 \/ front' = front + 1 - MaxSize
    BY <1>4, <2>1, AfterType
  <2>3. \/ back' - front' - size' = back - front - size
        \/ back' - front' - size' = (back - front - size) + MaxSize
    BY <1>4, <2>1, <2>2
  <2> QED
    BY <2>1, <2>3, Turn DEF RingConsistent
<1>7. NobodySleepsOnElements'
  BY <1>3 DEF RingInv, NobodySleepsOnElements
<1>8. BackIsCell'
  BY <1>4 DEF RingInv, TypeOK, BackIsCell
<1> QED
  BY <1>5, <1>6, <1>7, <1>8 DEF RingInv

\* A push fills the cell after back and wakes every sleeper.
LEMMA PushStep ==
  ASSUME RingInv, NEW t \in Threads, Push(t)
  PROVE  RingInv'
<1> USE BlockQueueAssumption
<1>0. /\ size \in 0..MaxSize /\ front \in -1..MaxSize - 1 /\ back \in -1..MaxSize - 1
      /\ (back - front - size) % MaxSize = 0
  BY DEF RingInv, TypeOK, RingConsistent
<1>1. After(back) \in 0..MaxSize - 1
  BY <1>0, AfterType
<1>2. arg[t] \in Cells /\ <<arg[t]>> \in Seq(Cells) /\ <<>> \in Seq(Cells)
  BY EmptySeq DEF RingInv, TypeOK
<1>3. pc' \in [Threads -> Stages] /\ \A u \in Threads : pc'[u] # "asleep"
  BY DEF Push, Broadcast, RingInv, TypeOK, Stages
<1>4. NobodySleepsOnElements'
  BY <1>3 DEF NobodySleepsOnElements
<1>5. CASE IsFull
  <2>1. Answer(t, <<>>) /\ UNCHANGED ring
    BY <1>5 DEF Push
  <2>2. TypeOK'
    BY <1>2, <1>3, <2>1, AnswerTypes DEF RingInv, TypeOK, ring
  <2> QED
    BY <1>4, <2>1, <2>2 DEF RingInv, RingConsistent, BackIsCell, ring
<1>6. CASE ~IsFull
  <2>1. /\ back' = After(back) /\ size' = size + 1 /\ front' = front
        /\ array' = [array EXCEPT ![After(back)] = arg[t]]
        /\ Answer(t, <<arg[t]>>)
    BY <1>6 DEF Push
  <2>2. size' \in 0..MaxSize
    BY <1>0, <1>6, <2>1 DEF IsFull
  <2>3. array' \in [0..MaxSize - 1 -> Cells]
    BY <1>1, <1>2, <2>1 DEF RingInv, TypeOK
  <2>4. TypeOK'
    <3>1. front' \in -1..MaxSize - 1 /\ back' \in -1..MaxSize - 1
      BY <1>0, <1>1, <2>1
    <3>2. /\ op' \in [Threads -> Ops \cup {"none"}]
          /\ arg' \in [Threads -> Cells]
          /\ ret' \in [Threads -> Seq(Cells)]
      BY <1>2, <2>1, AnswerTypes DEF RingInv
    <3> QED
      BY <1>3, <2>2, <2>3, <3>1, <3>2 DEF TypeOK
  <2>5. \/ back' - front' - size' = back - front - size
        \/ back' - front' - size' = (back - front - size) - MaxSize
    BY <1>0, <2>1, AfterType
  <2>6. RingConsistent'
    BY <1>0, <2>5, Turn DEF RingConsistent
  <2>7. BackIsCell'
    BY <1>1, <2>1 DEF BackIsCell
  <2> QED
    BY <1>4, <2>4, <2>6, <2>7 DEF RingInv
<1> QED
  BY <1>5, <1>6

\* A call that returns and leaves the ring alone.
LEMMA PlainReturn ==
  ASSUME RingInv, NEW t \in Threads, NEW s \in Seq(Cells), Return(t, s), UNCHANGED ring
  PROVE  RingInv'
<1>1. TypeOK'
  BY ReturnTypes DEF RingInv, TypeOK, ring
<1>2. NobodySleepsOnElements'
  BY ReturnTypes DEF RingInv, NobodySleepsOnElements, ring
<1> QED
  BY <1>1, <1>2 DEF RingInv, RingConsistent, BackIsCell, ring

\* Every step keeps the invariant.
LEMMA RingStep == RingInv /\ [Next]_vars => RingInv'
<1> SUFFICES ASSUME RingInv, [Next]_vars PROVE RingInv'
  OBVIOUS
<1>0. <<>> \in Seq(Cells)
  BY EmptySeq
<1>1. ASSUME NEW t \in Threads, NEW o \in Ops, NEW v \in Cells, Call(t, o, v)
      PROVE  RingInv'
  <2>1. TypeOK'
    BY <1>0, <1>1 DEF Call, RingInv, TypeOK, Stages, ring
  <2>2. NobodySleepsOnElements'
    BY <1>1 DEF Call, RingInv, TypeOK, NobodySleepsOnElements, ring
  <2> QED
    BY <1>1, <2>1, <2>2 DEF Call, RingInv, RingConsistent, BackIsCell, ring
<1>2. ASSUME NEW t \in Threads, Pop(t) PROVE RingInv'
  BY <1>2, TakeStep DEF Pop
<1>3. ASSUME NEW t \in Threads, PopTimed(t) PROVE RingInv'
  BY <1>0, <1>3, TakeStep, PlainReturn DEF PopTimed
<1>4. ASSUME NEW t \in Threads, Sleep(t) PROVE RingInv'
  <2>1. size = 0 /\ pc' = [pc EXCEPT ![t] = "asleep"] /\ UNCHANGED <<op, arg, ret, ring>>
    BY <1>4 DEF Sleep, RingInv, TypeOK
  <2>2. TypeOK'
    BY <2>1 DEF RingInv, TypeOK, Stages, ring
  <2> QED
    BY <2>1, <2>2
    DEF RingInv, RingConsistent, BackIsCell, NobodySleepsOnElements, ring
<1>5. ASSUME NEW t \in Threads, TimeOut(t) PROVE RingInv'
  BY <1>0, <1>5, PlainReturn DEF TimeOut
<1>6. ASSUME NEW t \in Threads, WakeUp(t) PROVE RingInv'
  <2>1. TypeOK'
    BY <1>6 DEF WakeUp, RingInv, TypeOK, Stages, ring
  <2>2. NobodySleepsOnElements'
    BY <1>6 DEF WakeUp, RingInv, TypeOK, NobodySleepsOnElements, ring
  <2> QED
    BY <1>6, <2>1, <2>2 DEF WakeUp, RingInv, RingConsistent, BackIsCell, ring
<1>7. ASSUME NEW t \in Threads, Clear(t) PROVE RingInv'
  <2>1. size' = 0 /\ front' = -1 /\ back' = -1 /\ UNCHANGED array /\ Return(t, <<>>)
    BY <1>7 DEF Clear
  <2>2. TypeOK'
    <3>1. size' \in 0..MaxSize /\ front' \in -1..MaxSize - 1 /\ back' \in -1..MaxSize - 1
      BY <2>1, BlockQueueAssumption
    <3> QED
      BY <1>0, <2>1, <3>1, ReturnTypes DEF RingInv, TypeOK
  <2>3. RingConsistent'
    BY <2>1, BlockQueueAssumption DEF RingConsistent
  <2> QED
    BY <2>1, <2>2, <2>3 DEF RingInv, BackIsCell, NobodySleepsOnElements
<1>8. ASSUME NEW t \in Threads, Front(t) PROVE RingInv'
  <2>1. UNCHANGED ring
    BY <1>8 DEF Front
  <2>2. CASE Return(t, <<>>)
    BY <1>0, <2>1, <2>2, PlainReturn
  <2>3. CASE front >= 0 /\ Return(t, <<array[front]>>)
    <3>1. array[front] \in Cells
      BY <2>3, BlockQueueAssumption DEF RingInv, TypeOK
    <3>2. <<array[front]>> \in Seq(Cells)
      BY <3>1
    <3> QED
      BY <2>1, <2>3, <3>2, PlainReturn
  <2>4. ASSUME NEW x \in Cells, Return(t, <<x>>) PROVE RingInv'
    <3>1. <<x>> \in Seq(Cells)
      OBVIOUS
    <3> QED
      BY <2>1, <2>4, <3>1, PlainReturn
  <2> QED
    BY <1>8, <2>2, <2>3, <2>4 DEF Front
<1>9. ASSUME NEW t \in Threads, Back(t) PROVE RingInv'
  <2>1. Return(t, IF size = 0 THEN <<>> ELSE <<array[back]>>) /\ UNCHANGED ring
    BY <1>9 DEF Back
  <2>2. CASE size = 0
    BY <1>0, <2>1, <2>2, PlainReturn
  <2>3. CASE size # 0
    <3>1. array[back] \in Cells
      BY <2>3, BlockQueueAssumption DEF RingInv, TypeOK, BackIsCell
    <3>2. <<array[back]>> \in Seq(Cells)
      BY <3>1
    <3> QED
      BY <2>1, <2>3, <3>2, PlainReturn
  <2> QED
    BY <2>2, <2>3
<1>10. ASSUME NEW t \in Threads, Query(t) PROVE RingInv'
  BY <1>0, <1>10, PlainReturn DEF Query
<1>11. CASE UNCHANGED vars
  BY <1>11 DEF vars, RingInv, TypeOK, RingConsistent, BackIsCell, NobodySleepsOnElements
<1>12. ASSUME NEW t \in Threads, Body(t) PROVE RingInv'
  BY <1>2, <1>3, <1>4, <1>7, <1>8, <1>9, <1>10, <1>12, PushStep, Zenon DEF Body
<1>13. ASSUME NEW t \in Threads,
              \/ \E v \in Values : Call(t, "push", v)
              \/ \E o \in Ops \ {"push"} : Call(t, o, NoValue)
       PROVE  RingInv'
  <2>1. "push" \in Ops /\ NoValue \in Cells /\ \A v \in Values : v \in Cells
    BY DEF Ops, Cells
  <2> QED
    BY <1>1, <1>13, <2>1
<1> QED
  BY <1>5, <1>6, <1>11, <1>12, <1>13, Zenon DEF Next

\* m_size never leaves its bounds, and what the threads hold has its types.
THEOREM TypeCorrect == Spec => []TypeOK
<1>1. RingInv => TypeOK
  BY DEF RingInv
<1> QED
  BY <1>1, RingInit, RingStep, PTL DEF Spec

\* m_front, m_back and m_size always describe one ring.
THEOREM OneRing == Spec => []RingConsistent
<1>1. RingInv => RingConsistent
  BY DEF RingInv
<1> QED
  BY <1>1, RingInit, RingStep, PTL DEF Spec

\* No popper sleeps while the queue holds an element.
THEOREM NoLostWakeUp == Spec => []NobodySleepsOnElements
<1>1. RingInv => NobodySleepsOnElements
  BY DEF RingInv
<1> QED
  BY <1>1, RingInit, RingStep, PTL DEF Spec

-----------------------------------------------------------------------------
(* The refinement: the cells from front to back are a sequence *)

\* A remainder of what is less than two turns.
LEMMA WrapOnce ==
  ASSUME NEW n \in Nat \ {0}, NEW x \in 0..2*n - 1
  PROVE  (x % n) = IF x < n THEN x ELSE x - n
<1>1. PICK q \in Int, r \in 0..n-1 : r = (x % n) /\ x = n * q + r
  <2>1. x = n * (x \div n) + (x % n) /\ (x % n) \in 0..n-1 /\ (x \div n) \in Int
    OBVIOUS
  <2> QED
    BY <2>1
<1>2. q >= 0
  <2>1. q <= -1 => n * q <= -n
    BY SMT
  <2> QED
    BY <1>1, <2>1
<1>3. q <= 1
  <2>1. q >= 2 => n * q >= 2 * n
    BY SMT
  <2> QED
    BY <1>1, <2>1
<1>4. q = 0 \/ q = 1
  BY <1>2, <1>3
<1> QED
  BY <1>1, <1>4

\* The multiples of n that a difference of indexes can be.
LEMMA Multiples ==
  ASSUME NEW n \in Nat \ {0}, NEW x \in Int, x % n = 0, -(2*n) <= x, x <= n
  PROVE  x = -(2*n) \/ x = -n \/ x = 0 \/ x = n
<1>1. PICK k \in Int : x = n * k
  <2>1. x = n * (x \div n) /\ (x \div n) \in Int
    OBVIOUS
  <2> QED
    BY <2>1
<1>2. k <= 1
  <2>1. k >= 2 => n * k >= 2 * n
    BY SMT
  <2> QED
    BY <1>1, <2>1
<1>3. k >= -2
  <2>1. k <= -3 => n * k <= -(3 * n)
    BY SMT
  <2> QED
    BY <1>1, <2>1
<1>4. k = -2 \/ k = -1 \/ k = 0 \/ k = 1
  BY <1>2, <1>3
<1> QED
  BY <1>1, <1>4

\* The cell of the i-th element.
Cell(i) == (front + i) % MaxSize

LEMMA CellIs ==
  ASSUME RingInv, NEW i \in 1..MaxSize
  PROVE  /\ Cell(i) = IF front + i < MaxSize THEN front + i ELSE front + i - MaxSize
         /\ Cell(i) \in 0..MaxSize - 1
<1>1. front \in -1..MaxSize - 1 /\ MaxSize \in Nat \ {0}
  BY BlockQueueAssumption DEF RingInv, TypeOK
<1>2. PICK x \in 0..2*MaxSize - 1 : x = front + i
  BY <1>1
<1>3. (x % MaxSize) = IF x < MaxSize THEN x ELSE x - MaxSize
  BY <1>1, WrapOnce
<1> QED
  BY <1>1, <1>2, <1>3 DEF Cell

\* back is where the newest element is, and the next one goes behind it.
LEMMA EndOfRing ==
  ASSUME RingInv
  PROVE  /\ size > 0 => Cell(size) = back
         /\ size < MaxSize => After(back) = Cell(size + 1)
<1>1. /\ front \in -1..MaxSize - 1 /\ back \in -1..MaxSize - 1 /\ size \in 0..MaxSize
      /\ MaxSize \in Nat \ {0} /\ (back - front - size) % MaxSize = 0
      /\ size > 0 => back >= 0
  BY BlockQueueAssumption DEF RingInv, TypeOK, RingConsistent, BackIsCell
<1>2. PICK x \in Int : x = back - front - size
  BY <1>1
<1>3. x = -(2*MaxSize) \/ x = -MaxSize \/ x = 0 \/ x = MaxSize
  <2>1. -(2*MaxSize) <= x /\ x <= MaxSize
    BY <1>1, <1>2
  <2> QED
    BY <1>1, <1>2, <2>1, Multiples
<1>4. After(back) = IF back + 1 = MaxSize THEN 0 ELSE back + 1
  BY <1>1, Wrapping DEF After
<1>5. ASSUME size > 0 PROVE Cell(size) = back
  <2>1. Cell(size) = IF front + size < MaxSize THEN front + size ELSE front + size - MaxSize
    BY <1>1, <1>5, CellIs
  <2> QED
    BY <1>1, <1>2, <1>3, <1>5, <2>1
<1>6. ASSUME size < MaxSize PROVE After(back) = Cell(size + 1)
  <2>1. PICK k \in 1..MaxSize : k = size + 1
    BY <1>1, <1>6
  <2>2. Cell(k) = IF front + k < MaxSize THEN front + k ELSE front + k - MaxSize
    BY CellIs
  <2> QED
    BY <1>1, <1>2, <1>3, <1>4, <1>6, <2>1, <2>2
<1> QED
  BY <1>5, <1>6

LEMMA ElementsIs ==
  ASSUME RingInv
  PROVE  /\ Elements \in Seq(Cells) /\ Len(Elements) = size /\ size \in Nat
         /\ \A i \in 1..size : Elements[i] = array[Cell(i)] /\ Cell(i) \in 0..MaxSize - 1
<1>1. size \in 0..MaxSize /\ MaxSize \in Nat /\ array \in [0..MaxSize - 1 -> Cells]
  BY BlockQueueAssumption DEF RingInv, TypeOK
<1>2. \A i \in 1..size : Cell(i) \in 0..MaxSize - 1
  BY <1>1, CellIs
<1>3. Elements = [i \in 1..size |-> array[Cell(i)]]
  BY DEF Elements, Cell
<1>4. Elements \in Seq(Cells)
  BY <1>1, <1>2, <1>3
<1> QED
  BY <1>1, <1>2, <1>3, <1>4

\* A push appends.
LEMMA ElementsPush ==
  ASSUME RingInv, NEW x \in Cells, size < MaxSize, size' = size + 1, front' = front,
         array' = [array EXCEPT ![After(back)] = x]
  PROVE  Elements' = Append(Elements, x)
<1>1. /\ front \in -1..MaxSize - 1 /\ MaxSize \in Nat \ {0}
      /\ array \in [0..MaxSize - 1 -> Cells]
  BY BlockQueueAssumption DEF RingInv, TypeOK
<1>2. PICK n \in 0..MaxSize - 1 : n = size
  BY BlockQueueAssumption DEF RingInv, TypeOK
<1>3. After(back) = Cell(n + 1) /\ Cell(n + 1) \in 0..MaxSize - 1
  BY <1>1, <1>2, EndOfRing, CellIs
<1>4. \A i \in 1..n : Cell(i) # Cell(n + 1)
  <2> SUFFICES ASSUME NEW i \in 1..n PROVE Cell(i) # Cell(n + 1)
    OBVIOUS
  <2>1. i \in 1..MaxSize /\ n + 1 \in 1..MaxSize
    BY <1>1
  <2>2. Cell(i) = IF front + i < MaxSize THEN front + i ELSE front + i - MaxSize
    BY <2>1, CellIs
  <2>3. PICK k \in 1..MaxSize : k = n + 1
    BY <2>1
  <2>4. Cell(k) = IF front + k < MaxSize THEN front + k ELSE front + k - MaxSize
    BY CellIs
  <2> QED
    BY <1>1, <2>2, <2>3, <2>4
<1>5. \A i : Cell(i)' = Cell(i)
  BY DEF Cell
<1>6. /\ Elements \in Seq(Cells) /\ Len(Elements) = n
      /\ \A i \in 1..n : Elements[i] = array[Cell(i)] /\ Cell(i) \in 0..MaxSize - 1
  BY <1>2, ElementsIs
<1>7. /\ Elements' \in Seq(Cells) /\ Len(Elements') = n + 1
      /\ \A i \in 1..n + 1 : Elements'[i] = array'[Cell(i)]
  <2>1. Elements' = [i \in 1..n + 1 |-> array'[Cell(i)]]
    BY <1>2 DEF Elements, Cell
  <2>2. array' \in [0..MaxSize - 1 -> Cells] /\ \A i \in 1..n + 1 : Cell(i) \in 0..MaxSize - 1
    BY <1>1, <1>3, CellIs
  <2> QED
    BY <2>1, <2>2
<1>8. \A i \in 1..n : Elements'[i] = Elements[i]
  BY <1>1, <1>3, <1>4, <1>6, <1>7
<1>9. Elements'[n + 1] = x
  BY <1>1, <1>3, <1>7
<1>10. /\ Append(Elements, x) \in Seq(Cells) /\ Len(Append(Elements, x)) = n + 1
       /\ Append(Elements, x)[n + 1] = x
       /\ \A i \in 1..n : Append(Elements, x)[i] = Elements[i]
  BY <1>6, AppendProperties
<1>11. \A i \in 1..n + 1 : i \in 1..n \/ i = n + 1
  OBVIOUS
<1>12. \A i \in 1..n + 1 : Elements'[i] = Append(Elements, x)[i]
  BY <1>8, <1>9, <1>10, <1>11
<1> QED
  BY <1>7, <1>10, <1>12, SeqEqual

\* A pop takes the first.
LEMMA ElementsTake ==
  ASSUME RingInv, size > 0, size' = size - 1, front' = After(front), array' = array
  PROVE  /\ Elements # <<>> /\ Elements' = Tail(Elements)
         /\ array[After(front)] = Head(Elements)
<1>1. front \in -1..MaxSize - 1 /\ MaxSize \in Nat \ {0}
  BY BlockQueueAssumption DEF RingInv, TypeOK
<1>2. PICK n \in 1..MaxSize : n = size
  BY BlockQueueAssumption DEF RingInv, TypeOK
<1>3. After(front) = IF front + 1 = MaxSize THEN 0 ELSE front + 1
  BY <1>1, Wrapping DEF After
<1>4. \A i \in 1..n - 1 : Cell(i)' = Cell(i + 1)
  <2> SUFFICES ASSUME NEW i \in 1..n - 1 PROVE Cell(i)' = Cell(i + 1)
    OBVIOUS
  <2>1. PICK k \in 1..MaxSize : k = i + 1
    BY <1>1
  <2>2. Cell(k) = IF front + k < MaxSize THEN front + k ELSE front + k - MaxSize
    BY CellIs
  <2>3. PICK y \in 0..2*MaxSize - 1 : y = After(front) + i
    BY <1>1, <1>3
  <2>4. (y % MaxSize) = IF y < MaxSize THEN y ELSE y - MaxSize
    BY <1>1, WrapOnce
  <2>5. Cell(i)' = (y % MaxSize)
    BY <2>3 DEF Cell
  <2> QED
    BY <1>1, <1>3, <2>1, <2>2, <2>3, <2>4, <2>5
<1>5. /\ Elements \in Seq(Cells) /\ Len(Elements) = n
      /\ \A i \in 1..n : Elements[i] = array[Cell(i)]
  BY <1>2, ElementsIs
<1>6. /\ Elements' \in Seq(Cells) /\ Len(Elements') = n - 1
      /\ \A i \in 1..n - 1 : Elements'[i] = array[Cell(i + 1)]
  <2>1. Elements' = [i \in 1..n - 1 |-> array[Cell(i)']]
    BY <1>2 DEF Elements, Cell
  <2>2. Elements' = [i \in 1..n - 1 |-> array[Cell(i + 1)]]
    BY <1>4, <2>1
  <2>3. /\ array \in [0..MaxSize - 1 -> Cells]
        /\ \A i \in 1..n - 1 : Cell(i + 1) \in 0..MaxSize - 1
    BY <1>1, CellIs DEF RingInv, TypeOK
  <2> QED
    BY <2>2, <2>3
<1>7. \A i \in 1..n - 1 : Elements'[i] = Elements[i + 1]
  BY <1>5, <1>6
<1>8. Elements # <<>>
  BY <1>5, EmptySeq
<1>9. /\ Tail(Elements) \in Seq(Cells) /\ Len(Tail(Elements)) = n - 1
      /\ \A i \in 1..n - 1 : Tail(Elements)[i] = Elements[i + 1]
      /\ Head(Elements) = Elements[1]
  BY <1>5, <1>8, HeadTailProperties
<1>10. Elements' = Tail(Elements)
  BY <1>6, <1>7, <1>9, SeqEqual
<1>11. After(front) = Cell(1)
  BY DEF After, Cell
<1> QED
  BY <1>5, <1>8, <1>9, <1>10, <1>11

\* What a call in progress is: waiting only in a pop, with a value to push,
\* and with no answer yet.
CallInv ==
  /\ OnlyPopsWait
  /\ \A t \in Threads :
       /\ op[t] = "push" => arg[t] \in Values
       /\ op[t] # "none" => ret[t] = <<>>

\* The return of a thread keeps it for all threads.
LEMMA CallReturns ==
  ASSUME RingInv, CallInv, NEW t \in Threads, NEW s, Answer(t, s), pc'[t] = "idle",
         \A u \in Threads : u # t =>
           pc'[u] = pc[u] \/ (pc[u] = "asleep" /\ pc'[u] = "woken")
  PROVE  CallInv'
<1>1. /\ op'[t] = "none"
      /\ \A u \in Threads : u # t => op'[u] = op[u] /\ arg'[u] = arg[u] /\ ret'[u] = ret[u]
  BY DEF Answer, RingInv, TypeOK
<1>2. OnlyPopsWait'
  <2> SUFFICES ASSUME NEW u \in Threads
               PROVE  /\ pc'[u] \in {"asleep", "woken"} => op'[u] \in Pops
                      /\ pc'[u] = "idle" <=> op'[u] = "none"
    BY DEF OnlyPopsWait
  <2>1. CASE u = t
    BY <1>1, <2>1
  <2>2. CASE u # t
    BY <1>1, <2>2 DEF CallInv, OnlyPopsWait
  <2> QED
    BY <2>1, <2>2
<1>3. \A u \in Threads : /\ op'[u] = "push" => arg'[u] \in Values
                         /\ op'[u] # "none" => ret'[u] = <<>>
  BY <1>1 DEF CallInv
<1> QED
  BY <1>2, <1>3 DEF CallInv

LEMMA CallInit == Init => CallInv
BY DEF Init, CallInv, OnlyPopsWait, Pops

LEMMA CallStep == RingInv /\ CallInv /\ [Next]_vars => CallInv'
<1> SUFFICES ASSUME RingInv, CallInv, [Next]_vars PROVE CallInv'
  OBVIOUS
<1>1. ASSUME NEW t \in Threads, NEW o \in Ops, NEW v \in Cells, Call(t, o, v),
             o = "push" => v \in Values
      PROVE  CallInv'
  <2>1. /\ pc'[t] = "lock" /\ op'[t] = o /\ o # "none" /\ arg'[t] = v /\ ret'[t] = <<>>
        /\ \A u \in Threads : u # t =>
             pc'[u] = pc[u] /\ op'[u] = op[u] /\ arg'[u] = arg[u] /\ ret'[u] = ret[u]
    BY <1>1 DEF Call, Ops, Pops, RingInv, TypeOK
  <2>2. OnlyPopsWait'
    <3> SUFFICES ASSUME NEW u \in Threads
                 PROVE  /\ pc'[u] \in {"asleep", "woken"} => op'[u] \in Pops
                        /\ pc'[u] = "idle" <=> op'[u] = "none"
      BY DEF OnlyPopsWait
    <3>1. CASE u = t
      BY <2>1, <3>1
    <3>2. CASE u # t
      BY <2>1, <3>2 DEF CallInv, OnlyPopsWait
    <3> QED
      BY <3>1, <3>2
  <2>3. \A u \in Threads : /\ op'[u] = "push" => arg'[u] \in Values
                           /\ op'[u] # "none" => ret'[u] = <<>>
    BY <1>1, <2>1 DEF CallInv
  <2> QED
    BY <2>2, <2>3 DEF CallInv
<1>2. ASSUME NEW t \in Threads, NEW s, Return(t, s)
      PROVE  CallInv'
  BY <1>2, CallReturns DEF Return, RingInv, TypeOK
<1>3. ASSUME NEW t \in Threads, Push(t)
      PROVE  CallInv'
  <2>1. PICK s : Answer(t, s)
    BY <1>3 DEF Push
  <2>2. pc'[t] = "idle" /\ \A u \in Threads : u # t =>
          pc'[u] = pc[u] \/ (pc[u] = "asleep" /\ pc'[u] = "woken")
    BY <1>3 DEF Push, Broadcast, RingInv, TypeOK
  <2> QED
    BY <2>1, <2>2, CallReturns
<1>4. ASSUME NEW t \in Threads, Sleep(t) \/ WakeUp(t)
      PROVE  CallInv'
  <2>1. /\ UNCHANGED <<op, arg, ret>> /\ op[t] \in Pops
        /\ pc[t] # "idle" /\ pc'[t] \in {"asleep", "woken"}
        /\ \A u \in Threads : u # t => pc'[u] = pc[u]
    <3>1. CASE Sleep(t)
      BY <3>1 DEF Sleep, Enters, Pops, RingInv, TypeOK
    <3>2. CASE WakeUp(t)
      BY <3>2 DEF WakeUp, CallInv, OnlyPopsWait, RingInv, TypeOK
    <3> QED
      BY <1>4, <3>1, <3>2
  <2>2. \A u \in Threads : /\ pc'[u] \in {"asleep", "woken"} => op[u] \in Pops
                           /\ pc'[u] = "idle" <=> op[u] = "none"
    BY <2>1 DEF CallInv, OnlyPopsWait, Pops
  <2> QED
    BY <2>1, <2>2 DEF CallInv, OnlyPopsWait
<1>5. ASSUME NEW t \in Threads,
             Pop(t) \/ PopTimed(t) \/ Clear(t) \/ Front(t) \/ Back(t) \/ Query(t) \/ TimeOut(t)
      PROVE  \E s : Return(t, s)
  <2>1. CASE Pop(t) \/ PopTimed(t)
    BY <2>1 DEF Pop, PopTimed, TakeOldest
  <2>2. CASE Clear(t) \/ Back(t) \/ Query(t) \/ TimeOut(t)
    BY <2>2 DEF Clear, Back, Query, TimeOut
  <2>3. CASE Front(t)
    BY <2>3 DEF Front
  <2> QED
    BY <1>5, <2>1, <2>2, <2>3
<1>6. ASSUME NEW t \in Threads, Body(t) \/ TimeOut(t) \/ WakeUp(t)
      PROVE  CallInv'
  BY <1>2, <1>3, <1>4, <1>5, <1>6, Zenon DEF Body
<1>7. ASSUME NEW t \in Threads,
             \/ \E v \in Values : Call(t, "push", v)
             \/ \E o \in Ops \ {"push"} : Call(t, o, NoValue)
      PROVE  CallInv'
  <2>1. "push" \in Ops /\ NoValue \in Cells /\ \A v \in Values : v \in Cells
    BY DEF Ops, Cells
  <2> QED
    BY <1>1, <1>7, <2>1
<1>8. CASE UNCHANGED vars
  BY <1>8 DEF vars, CallInv, OnlyPopsWait
<1> QED
  BY <1>6, <1>7, <1>8, Zenon DEF Next

\* A thread that is in no pop may come and go without being seen to wait; one
\* that returns from a pop has left.
LEMMA PoppingEnds ==
  ASSUME RingInv, NEW t \in Threads, op' = [op EXCEPT ![t] = "none"],
         NEW ops \in SUBSET Ops
  PROVE  Popping(ops)' = Popping(ops) \ {t}
<1>1. "none" \notin ops
  BY DEF Ops, Pops
<1>2. op'[t] = "none" /\ \A u \in Threads : u # t => op'[u] = op[u]
  BY DEF RingInv, TypeOK
<1> QED
  BY <1>1, <1>2 DEF Popping

\* A step that touches no member and no operation.
LEMMA BoundedStutter ==
  UNCHANGED <<op, ret, ring>> => UNCHANGED Bounded!boundedVars
<1> SUFFICES ASSUME UNCHANGED <<op, ret, ring>> PROVE UNCHANGED Bounded!boundedVars
  OBVIOUS
<1>1. Elements' = Elements
  BY DEF ring, Elements
<1>2. \A ops : Popping(ops)' = Popping(ops)
  BY DEF Popping
<1> QED
  BY <1>1, <1>2 DEF Bounded!boundedVars

\* The beginning of a call.
LEMMA BoundedCall ==
  ASSUME RingInv, CallInv, NEW t \in Threads, NEW o \in Ops, NEW v, Call(t, o, v)
  PROVE  Bounded!Ask(t) \/ Bounded!Glance(t)
<1>1. op[t] = "none" /\ op' = [op EXCEPT ![t] = o] /\ ret' = [ret EXCEPT ![t] = <<>>]
  BY DEF Call, CallInv, OnlyPopsWait
<1>2. Elements' = Elements
  BY DEF Call, ring, Elements
<1>3. op'[t] = o /\ \A u \in Threads : u # t => op'[u] = op[u]
  BY <1>1 DEF RingInv, TypeOK
<1>4. \A ops \in SUBSET Ops : t \notin Popping(ops) /\
         Popping(ops)' = IF o \in ops THEN Popping(ops) \cup {t} ELSE Popping(ops)
  <2> SUFFICES ASSUME NEW ops \in SUBSET Ops
               PROVE  t \notin Popping(ops) /\
                 Popping(ops)' = IF o \in ops THEN Popping(ops) \cup {t} ELSE Popping(ops)
    OBVIOUS
  <2>1. op[t] \notin ops
    BY <1>1 DEF Ops, Pops
  <2> QED
    BY <1>3, <2>1 DEF Popping
<1>5. Pops \in SUBSET Ops /\ {"popTimed"} \in SUBSET Ops
  BY DEF Ops, Pops
<1>6. Bounded!Answer(t, <<>>)
  BY <1>1 DEF Bounded!Answer
<1>7. CASE o \in Pops
  <2>1. /\ t \notin Popping(Pops) /\ Popping(Pops)' = Popping(Pops) \cup {t}
        /\ Popping({"popTimed"})' \in {Popping({"popTimed"}), Popping({"popTimed"}) \cup {t}}
    BY <1>4, <1>5, <1>7
  <2> QED
    BY <1>2, <1>6, <2>1 DEF Bounded!Ask
<1>8. CASE o \notin Pops
  <2>1. o \notin {"popTimed"}
    BY <1>8 DEF Pops
  <2>2. /\ t \notin Popping(Pops) /\ Popping(Pops)' = Popping(Pops)
        /\ Popping({"popTimed"})' = Popping({"popTimed"})
    BY <1>4, <1>5, <1>8, <2>1
  <2> QED
    BY <1>2, <1>6, <2>2 DEF Bounded!Glance
<1> QED
  BY <1>7, <1>8

\* The end of a call that is no pop leaves the waiting threads as they are.
LEMMA NoPopReturns ==
  ASSUME RingInv, NEW t \in Threads, NEW s, Answer(t, s), op[t] \notin Pops
  PROVE  /\ t \notin Popping(Pops) /\ Popping(Pops)' = Popping(Pops)
         /\ Popping({"popTimed"})' = Popping({"popTimed"})
         /\ Bounded!Answer(t, s)
<1>1. Pops \in SUBSET Ops /\ {"popTimed"} \in SUBSET Ops
  BY DEF Ops, Pops
<1>2. t \notin Popping(Pops) /\ t \notin Popping({"popTimed"})
  BY DEF Popping, Pops
<1>3. /\ Popping(Pops)' = Popping(Pops) \ {t}
      /\ Popping({"popTimed"})' = Popping({"popTimed"}) \ {t}
  BY <1>1, PoppingEnds DEF Answer
<1>4. Bounded!Answer(t, s)
  BY DEF Answer, Bounded!Answer
<1> QED
  BY <1>2, <1>3, <1>4

\* The end of a pop.
LEMMA PopReturns ==
  ASSUME RingInv, NEW t \in Threads, NEW s, Answer(t, s), op[t] \in Pops
  PROVE  /\ t \in Popping(Pops) /\ Bounded!Leave(t) /\ Bounded!Answer(t, s)
         /\ op[t] = "popTimed" => t \in Popping({"popTimed"})
<1>1. Pops \in SUBSET Ops /\ {"popTimed"} \in SUBSET Ops
  BY DEF Ops, Pops
<1>2. /\ Popping(Pops)' = Popping(Pops) \ {t}
      /\ Popping({"popTimed"})' = Popping({"popTimed"}) \ {t}
  BY <1>1, PoppingEnds DEF Answer
<1>3. t \in Popping(Pops) /\ (op[t] = "popTimed" => t \in Popping({"popTimed"}))
  BY DEF Popping
<1>4. Bounded!Answer(t, s)
  BY DEF Answer, Bounded!Answer
<1> QED
  BY <1>2, <1>3, <1>4 DEF Bounded!Leave

\* Every step of the ring is a step of the bounded queue or a stutter.
LEMMA BoundedStep ==
  RingInv /\ CallInv /\ [Next]_vars => [Bounded!BoundedNext]_(Bounded!boundedVars)
<1> SUFFICES ASSUME RingInv, CallInv, [Next]_vars
             PROVE  Bounded!BoundedNext \/ UNCHANGED Bounded!boundedVars
  OBVIOUS
<1>0. size \in 0..MaxSize /\ Len(Elements) = size /\ MaxSize \in Nat \ {0}
  BY ElementsIs, BlockQueueAssumption DEF RingInv, TypeOK
<1>00. UNCHANGED ring => Elements' = Elements
  BY DEF ring, Elements
<1>1. ASSUME NEW t \in Threads, Push(t)
      PROVE  \E v \in Values : Bounded!Offer(t, v)
  <2>1. op[t] = "push" /\ op[t] \notin Pops
    BY <1>1 DEF Push, Enters, Pops
  <2>2. PICK v \in Values : v = arg[t]
    BY <2>1 DEF CallInv
  <2>3. CASE IsFull
    <3>1. Answer(t, <<>>) /\ UNCHANGED ring
      BY <1>1, <2>3 DEF Push
    <3>2. Len(Elements) = MaxSize /\ Elements' = Elements
      BY <1>0, <1>00, <2>3, <3>1 DEF IsFull
    <3>3. Bounded!Offer(t, v)
      BY <2>1, <3>1, <3>2, NoPopReturns DEF Bounded!Offer
    <3> QED
      BY <3>3
  <2>4. CASE ~IsFull
    <3>1. /\ size' = size + 1 /\ front' = front /\ array' = [array EXCEPT ![After(back)] = v]
          /\ Answer(t, <<v>>) /\ size < MaxSize /\ v \in Cells
      BY <1>0, <1>1, <2>2, <2>4 DEF Push, IsFull, Cells
    <3>2. Elements' = Append(Elements, v) /\ Len(Elements) < MaxSize
      BY <1>0, <3>1, ElementsPush
    <3>3. Bounded!Offer(t, v)
      BY <2>1, <3>1, <3>2, NoPopReturns DEF Bounded!Offer
    <3> QED
      BY <3>3
  <2> QED
    BY <2>3, <2>4
<1>2. ASSUME NEW t \in Threads, op[t] \in Pops, size > 0, TakeOldest(t)
      PROVE  Bounded!Take(t)
  <2>1. /\ size' = size - 1 /\ front' = After(front) /\ array' = array
        /\ Answer(t, <<array[After(front)]>>)
    BY <1>2 DEF TakeOldest, Return
  <2>2. /\ Elements # <<>> /\ Elements' = Tail(Elements)
        /\ array[After(front)] = Head(Elements)
    BY <1>2, <2>1, ElementsTake
  <2>3. /\ t \in Popping(Pops) /\ Bounded!Leave(t)
        /\ Bounded!Answer(t, <<array[After(front)]>>)
    BY <1>2, <2>1, PopReturns
  <2> QED
    BY <2>2, <2>3 DEF Bounded!Take
<1>3. ASSUME NEW t \in Threads, op[t] = "popTimed", Return(t, <<>>), UNCHANGED ring
      PROVE  Bounded!GiveUp(t)
  <2>1. op[t] \in Pops /\ Answer(t, <<>>)
    BY <1>3 DEF Pops, Return
  <2> QED
    BY <1>00, <1>3, <2>1, PopReturns DEF Bounded!GiveUp
<1>4. ASSUME NEW t \in Threads, NEW s \in {<<>>} \cup {<<a>> : a \in Cells}, Return(t, s),
             UNCHANGED ring, op[t] \notin Pops
      PROVE  Bounded!Glance(t)
  <2>1. Answer(t, s)
    BY <1>4 DEF Return
  <2> QED
    BY <1>00, <1>4, <2>1, NoPopReturns DEF Bounded!Glance
<1>5. ASSUME NEW t \in Threads, Pop(t) \/ PopTimed(t)
      PROVE  Bounded!Take(t) \/ Bounded!GiveUp(t)
  BY <1>2, <1>3, <1>5 DEF Pop, PopTimed, Enters, Pops
<1>6. ASSUME NEW t \in Threads, Clear(t)
      PROVE  Bounded!Empty
  <2>1. op[t] = "clear" /\ op[t] \notin Pops /\ op[t] # "none" /\ size' = 0 /\ Answer(t, <<>>)
    BY <1>6 DEF Clear, Enters, Return, Pops
  <2>2. Elements' = <<>>
    BY <2>1 DEF Elements
  <2>3. ret' = ret
    <3>1. ret[t] = <<>>
      BY <2>1 DEF CallInv
    <3> QED
      BY <2>1, <3>1 DEF Answer, RingInv, TypeOK
  <2> QED
    BY <2>1, <2>2, <2>3, NoPopReturns DEF Bounded!Empty
<1>7. ASSUME NEW t \in Threads, Front(t)
      PROVE  Bounded!Glance(t)
  <2>1. op[t] \notin Pops /\ UNCHANGED ring
    BY <1>7 DEF Front, Enters, Pops
  <2>2. PICK s : Return(t, s) /\ s \in {<<>>} \cup {<<a>> : a \in Cells}
    <3>1. front >= 0 => array[front] \in Cells
      BY BlockQueueAssumption DEF RingInv, TypeOK
    <3> QED
      BY <1>7, <3>1 DEF Front
  <2> QED
    BY <1>4, <2>1, <2>2
<1>8. ASSUME NEW t \in Threads, Back(t)
      PROVE  Bounded!Newest(t)
  <2>1. /\ op[t] \notin Pops /\ UNCHANGED ring
        /\ Answer(t, IF size = 0 THEN <<>> ELSE <<array[back]>>)
    BY <1>8 DEF Back, Enters, Pops, Return
  <2>2. (IF size = 0 THEN <<>> ELSE <<array[back]>>)
          = (IF Elements = <<>> THEN <<>> ELSE <<Elements[Len(Elements)]>>)
    <3>1. Elements = <<>> <=> size = 0
      BY <1>0, ElementsIs, EmptySeq
    <3>2. size > 0 => array[back] = Elements[Len(Elements)]
      BY <1>0, ElementsIs, EndOfRing
    <3> QED
      BY <1>0, <3>1, <3>2
  <2>3. /\ t \notin Popping(Pops) /\ Popping(Pops)' = Popping(Pops)
        /\ Popping({"popTimed"})' = Popping({"popTimed"})
        /\ Bounded!Answer(t, IF Elements = <<>> THEN <<>> ELSE <<Elements[Len(Elements)]>>)
    BY <2>1, <2>2, NoPopReturns
  <2> QED
    BY <1>00, <2>1, <2>3 DEF Bounded!Newest
<1>9. ASSUME NEW t \in Threads, Query(t)
      PROVE  Bounded!Glance(t)
  BY <1>4, <1>9 DEF Query, Enters, Pops
<1>10. ASSUME NEW t \in Threads, TimeOut(t)
       PROVE  Bounded!GiveUp(t)
  BY <1>3, <1>10 DEF TimeOut
<1>11. ASSUME NEW t \in Threads, Sleep(t) \/ WakeUp(t)
       PROVE  UNCHANGED Bounded!boundedVars
  <2>1. UNCHANGED <<op, ret, ring>>
    BY <1>11 DEF Sleep, WakeUp
  <2> QED
    BY <2>1, BoundedStutter
<1>12. CASE UNCHANGED vars
  <2>1. UNCHANGED <<op, ret, ring>>
    BY <1>12 DEF vars, ring
  <2> QED
    BY <2>1, BoundedStutter
<1>13. ASSUME NEW t \in Threads,
              \/ \E v \in Values : Call(t, "push", v)
              \/ \E o \in Ops \ {"push"} : Call(t, o, NoValue)
       PROVE  Bounded!Ask(t) \/ Bounded!Glance(t)
  <2>1. "push" \in Ops
    BY DEF Ops
  <2> QED
    BY <1>13, <2>1, BoundedCall
<1>14. ASSUME NEW t \in Threads, Body(t) \/ TimeOut(t) \/ WakeUp(t)
       PROVE  Bounded!BoundedNext \/ UNCHANGED Bounded!boundedVars
  BY <1>1, <1>5, <1>6, <1>7, <1>8, <1>9, <1>10, <1>11, <1>14, Zenon
  DEF Body, Bounded!BoundedNext
<1> QED
  BY <1>12, <1>13, <1>14, Zenon DEF Next, Bounded!BoundedNext

\* The ring implements the safety part of the bounded queue: an accepted push
\* is popped once and in order, through any number of turns, and is refused
\* only by a full queue; only a timed pop gives up.
THEOREM Refinement == Spec => Bounded!BoundedSafety
<1>1. Init => Bounded!BoundedInit
  <2> SUFFICES ASSUME Init PROVE Bounded!BoundedInit
    OBVIOUS
  <2>1. Elements = <<>>
    BY DEF Init, Elements
  <2>2. \A ops \in SUBSET Ops : Popping(ops) = {}
    BY DEF Init, Popping, Ops, Pops
  <2>3. Popping(Pops) = {} /\ Popping({"popTimed"}) = {}
    BY <2>2 DEF Ops, Pops
  <2> QED
    BY <2>1, <2>3 DEF Init, Bounded!BoundedInit
<1> QED
  BY <1>1, RingInit, RingStep, CallInit, CallStep, BoundedStep, PTL
  DEF Spec, Bounded!BoundedSafety
=============================================================================
