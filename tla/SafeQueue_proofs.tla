--------------------------- MODULE SafeQueue_proofs ---------------------------
(***************************************************************************)
(* For every number of threads and every set of values: SafeQueue keeps its *)
(* types, its semaphore counts its elements, and pop_b never meets an empty *)
(* list.  The inductive invariant is QueueInv.                              *)
(***************************************************************************)
EXTENDS SafeQueue, FiniteSetTheorems, SequenceTheorems, TLAPS

\* Claiming and Posting are finite, so their cardinalities are numbers.
LEMMA CountersFinite ==
  /\ IsFiniteSet(Claiming) /\ Cardinality(Claiming) \in Nat
  /\ IsFiniteSet(Posting) /\ Cardinality(Posting) \in Nat
<1>1. Claiming \in SUBSET Threads /\ Posting \in SUBSET Threads
  BY DEF Claiming, Posting
<1>2. IsFiniteSet(Claiming) /\ IsFiniteSet(Posting)
  BY <1>1, FS_Subset, SafeQueueAssumption
<1> QED
  BY <1>2, FS_CardinalityType

\* SubSeq of a queue and the rest of it are sequences of the same elements.
LEMMA SplitType ==
  ASSUME NEW s \in Seq(Values), NEW k \in 0..Len(s)
  PROVE  /\ SubSeq(s, 1, k) \in Seq(Values)
         /\ SubSeq(s, k + 1, Len(s)) \in Seq(Values)
<1>1. Len(s) \in Nat /\ k \in Int /\ k + 1 \in Int
  BY LenProperties
<1>2. \A i \in 1..k : s[i] \in Values
  BY <1>1, ElementOfSeq
<1>3. \A i \in k + 1..Len(s) : s[i] \in Values
  BY <1>1, ElementOfSeq
<1> QED
  BY <1>1, <1>2, <1>3, SubSeqProperties

\* pop(int num) never takes more elements than the list holds.
LEMMA PopCountRange ==
  ASSUME NEW num \in Int, list \in Seq(Values)
  PROVE  PopCount(num) \in 0..Len(list)
BY LenProperties DEF PopCount

\* The initial states satisfy the invariant.
LEMMA QueueInit == Init => QueueInv
<1> SUFFICES ASSUME Init PROVE QueueInv
  OBVIOUS
<1>1. list \in Seq(Values) /\ Len(list) = 0 /\ <<>> \in Seq(Values)
  BY EmptySeq DEF Init
<1>2. TypeOK
  <2>0. sem \in Nat
    BY DEF Init
  <2>1. isblock \in BOOLEAN
    BY Zenon DEF Init
  <2>2. ret \in [Threads -> Seq(Values)]
    BY <1>1 DEF Init
  <2>3. /\ pc \in [Threads -> Stages]
        /\ op \in [Threads -> Ops \cup {"none"}]
        /\ arg \in [Threads -> Values \cup Counts \cup {0}]
        /\ thrown \in [Threads -> Errors]
    BY DEF Init, Stages, Errors
  <2>4. \A t \in Threads : op[t] # "none" => arg[t] \in Args(op[t])
    BY DEF Init
  <2>5. mutex \in Threads \cup {NoThread}
    BY DEF Init
  <2>6. family \in {"plain", "blocking"}
    BY DEF Init
  <2> QED
    BY <1>1, <2>0, <2>1, <2>2, <2>3, <2>4, <2>5, <2>6 DEF TypeOK
<1>3. StageOfOp /\ OneFamily /\ SemCountsElements /\ PopBFindsElement
  BY DEF Init, StageOfOp, OneFamily, SemCountsElements, PopBFindsElement
<1> QED
  BY <1>2, <1>3 DEF QueueInv

\* Every step keeps the types.
LEMMA TypeStep == TypeOK /\ [Next]_vars => TypeOK'
<1> SUFFICES ASSUME TypeOK, [Next]_vars PROVE TypeOK'
  OBVIOUS
<1> USE DEF TypeOK, Stages
<1> DEFINE ArgsOK == \A t \in Threads : op[t] # "none" => arg[t] \in Args(op[t])
<1>1. ASSUME NEW t \in Threads, NEW o \in Ops, NEW a \in Args(o), Begin(t, o, a)
      PROVE  TypeOK'
  <2>1. a \in Values \cup Counts \cup {0}
    BY <1>1 DEF Args
  <2>2. <<>> \in Seq(Values)
    BY EmptySeq
  <2>3. /\ op' \in [Threads -> Ops \cup {"none"}]
        /\ arg' \in [Threads -> Values \cup Counts \cup {0}]
        /\ pc' \in [Threads -> Stages]
        /\ ret' \in [Threads -> Seq(Values)]
    BY <1>1, <2>1, <2>2 DEF Begin
  <2>4. thrown' \in [Threads -> Errors]
    BY <1>1 DEF Begin, Errors
  <2>5. ArgsOK'
    BY <1>1 DEF Begin
  <2>6. UNCHANGED <<family, list, mutex, sem, isblock>>
    BY <1>1 DEF Begin
  <2> QED
    BY <2>3, <2>4, <2>5, <2>6
<1>2. ASSUME NEW t \in Threads, SemWait(t) \/ Lock(t) \/ SemPost(t) PROVE TypeOK'
  <2>1. sem' \in Nat
    BY <1>2 DEF SemWait, Lock, SemPost
  <2>2. mutex' \in Threads \cup {NoThread} /\ pc' \in [Threads -> Stages]
    BY <1>2 DEF SemWait, Lock, SemPost
  <2>3. UNCHANGED <<family, list, isblock, op, arg, ret, thrown>>
    BY <1>2 DEF SemWait, Lock, SemPost
  <2> QED
    BY <2>1, <2>2, <2>3
<1>3. ASSUME NEW t \in Threads, NEW s \in {"idle", "post"}, Unlock(t, s)
      PROVE  /\ family' = family
             /\ mutex' \in Threads \cup {NoThread}
             /\ pc' \in [Threads -> Stages]
             /\ op' \in [Threads -> Ops \cup {"none"}]
             /\ arg' \in [Threads -> Values \cup Counts \cup {0}]
             /\ ArgsOK'
  BY <1>3 DEF Unlock
<1>4. ASSUME NEW t \in Threads, NEW s \in Seq(Values), Return(t, s)
      PROVE  ret' \in [Threads -> Seq(Values)] /\ thrown' \in [Threads -> Errors]
  BY <1>4 DEF Return
<1>5. ASSUME NEW t \in Threads, NEW e \in Errors, Throw(t, e)
      PROVE  ret' \in [Threads -> Seq(Values)] /\ thrown' \in [Threads -> Errors]
  BY <1>5 DEF Throw
<1>6. list # <<>> => /\ Head(list) \in Values /\ Tail(list) \in Seq(Values)
                     /\ <<Head(list)>> \in Seq(Values)
  BY HeadTailProperties
<1>7. <<>> \in Seq(Values)
  BY EmptySeq
<1>a. family \in {"plain", "blocking"}
  OBVIOUS
<1>8. ASSUME NEW t \in Threads, Push(t) PROVE TypeOK'
  <2>1. arg[t] \in Values
    BY <1>8 DEF Push, InCrit, Pushes, Args
  <2>2. list' \in Seq(Values)
    BY <1>8, <2>1, AppendProperties DEF Push
  <2>3. AfterPush(op[t]) \in {"idle", "post"}
    BY DEF AfterPush
  <2> QED
    BY <1>3, <1>8, <2>2, <2>3 DEF Push
<1>9. ASSUME NEW t \in Threads, Pop(t) \/ PopB(t) \/ Front(t) PROVE TypeOK'
  <2>1. CASE Pop(t)
    BY <1>3, <1>4, <1>6, <1>7, <2>1 DEF Pop
  <2>2. CASE PopB(t)
    <3>1. "list is empty" \in Errors
      BY DEF Errors
    <3> QED
      BY <1>3, <1>4, <1>5, <1>6, <1>7, <2>2, <3>1 DEF PopB
  <2>3. CASE Front(t)
    BY <1>3, <1>4, <1>6, <1>7, <2>3 DEF Front
  <2> QED
    BY <1>9, <2>1, <2>2, <2>3
<1>10. ASSUME NEW t \in Threads, PopN(t) PROVE TypeOK'
  <2>1. arg[t] \in Int
    BY <1>10, SafeQueueAssumption DEF PopN, InCrit, Args, Pushes
  <2>2. PopCount(arg[t]) \in 0..Len(list)
    BY <2>1, PopCountRange
  <2> QED
    BY <1>3, <1>4, <1>10, <2>2, SplitType DEF PopN
<1>11. ASSUME NEW t \in Threads, SetBlock(t) PROVE TypeOK'
  <2>1. "already enabled" \in Errors /\ "sem_init failed" \in Errors
    BY DEF Errors
  <2>2. Unlock(t, "idle") /\ list' = list
    BY <1>11 DEF SetBlock
  <2>7. sem' = sem \/ sem' = 0
    BY <1>11, Zenon DEF SetBlock
  <2>3. sem' \in Nat
    BY <2>7
  <2>5. isblock' \in BOOLEAN
    BY <1>11, Zenon DEF SetBlock
  <2>6. \/ Throw(t, "already enabled")
        \/ Throw(t, "sem_init failed")
        \/ UNCHANGED <<ret, thrown>>
    BY <1>11 DEF SetBlock
  <2>4. ret' \in [Threads -> Seq(Values)] /\ thrown' \in [Threads -> Errors]
    BY <1>5, <2>1, <2>6
  <2> QED
    BY <1>3, <2>2, <2>3, <2>4, <2>5
<1>12. ASSUME NEW t \in Threads, Query(t) PROVE TypeOK'
  BY <1>3, <1>12 DEF Query
<1>13. ASSUME UNCHANGED vars PROVE TypeOK'
  BY <1>13 DEF vars
<1> QED
  BY <1>1, <1>2, <1>8, <1>9, <1>10, <1>11, <1>12, <1>13 DEF Next, Step, Body

\* Every step keeps a thread's operation and its stage in agreement.
LEMMA StageStep ==
  TypeOK /\ StageOfOp /\ [Next]_vars => StageOfOp'
<1> SUFFICES ASSUME TypeOK, StageOfOp, [Next]_vars PROVE StageOfOp'
  OBVIOUS
<1> USE DEF StageOfOp
<1>0. pc \in [Threads -> Stages] /\ op \in [Threads -> Ops \cup {"none"}]
  BY DEF TypeOK
<1>1. ASSUME NEW t \in Threads, NEW o \in Ops, NEW a \in Args(o), Begin(t, o, a)
      PROVE  StageOfOp'
  BY <1>0, <1>1 DEF Begin, Ops, Pushes
<1>2. ASSUME NEW t \in Threads, SemWait(t) \/ Lock(t) \/ SemPost(t)
      PROVE  StageOfOp'
  BY <1>0, <1>2 DEF SemWait, Lock, SemPost
<1>3. ASSUME NEW t \in Threads, NEW s \in {"idle", "post"}, Unlock(t, s)
      PROVE  StageOfOp'
  BY <1>0, <1>3 DEF Unlock
<1>4. ASSUME NEW t \in Threads, Push(t) PROVE StageOfOp'
  <2>1. AfterPush(op[t]) \in {"idle", "post"}
    BY DEF AfterPush
  <2> QED
    BY <1>3, <1>4, <2>1 DEF Push
<1>5. ASSUME NEW t \in Threads,
             Pop(t) \/ PopN(t) \/ PopB(t) \/ SetBlock(t) \/ Front(t) \/ Query(t)
      PROVE  StageOfOp'
  <2>1. Unlock(t, "idle")
    BY <1>5 DEF Pop, PopN, PopB, SetBlock, Front, Query
  <2> QED
    BY <1>3, <2>1
<1>6. CASE UNCHANGED vars
  BY <1>6 DEF vars
<1> QED
  BY <1>1, <1>2, <1>4, <1>5, <1>6 DEF Next, Step, Body

\* Every step keeps the callers in one family.
LEMMA FamilyStep ==
  TypeOK /\ StageOfOp /\ OneFamily /\ [Next]_vars => OneFamily'
<1> SUFFICES ASSUME TypeOK, StageOfOp, OneFamily, [Next]_vars PROVE OneFamily'
  OBVIOUS
<1> USE DEF OneFamily, Blocking
<1>0. /\ list \in Seq(Values)
      /\ pc \in [Threads -> Stages] /\ op \in [Threads -> Ops \cup {"none"}]
  BY DEF TypeOK
<1>1. ASSUME NEW t \in Threads, NEW o \in Ops, NEW a \in Args(o), Begin(t, o, a)
      PROVE  OneFamily'
  <2>1. UNCHANGED <<family, list, isblock>> /\ op' = [op EXCEPT ![t] = o]
    BY <1>1 DEF Begin
  <2>2. \A u \in Threads : pc'[u] = "post" => pc[u] = "post"
    BY <1>0, <1>1 DEF Begin
  <2>3. /\ o \in {"push", "pop", "popN"} => ~Blocking
        /\ o \in {"push_b", "pop_b"} => isblock
    BY <1>1 DEF Begin, Allowed
  <2>4. \A u \in Threads : op'[u] = IF u = t THEN o ELSE op[u]
    BY <1>0, <2>1
  <2>5. o = "setblock" => Blocking
    BY <1>1 DEF Begin, Allowed
  <2> QED
    BY <2>1, <2>2, <2>3, <2>4, <2>5
<1>2. ASSUME NEW t \in Threads, SemWait(t) \/ Lock(t) \/ SemPost(t)
      PROVE  OneFamily'
  BY <1>0, <1>2 DEF SemWait, Lock, SemPost
<1>3. ASSUME NEW t \in Threads, Unlock(t, "idle"), UNCHANGED isblock,
             Blocking /\ ~isblock => list' = <<>>
      PROVE  OneFamily'
  BY <1>0, <1>3 DEF Unlock
<1>4. ASSUME NEW t \in Threads, Push(t) PROVE OneFamily'
  <2>1. op[t] \in {"push", "push_b"} /\ UNCHANGED isblock
    BY <1>4 DEF Push, InCrit, Pushes
  <2>2. CASE op[t] = "push"
    <3>1. ~Blocking /\ Unlock(t, "idle")
      BY <1>4, <2>2 DEF Push, AfterPush
    <3> QED
      BY <1>3, <2>1, <3>1
  <2>3. CASE op[t] = "push_b"
    <3>1. isblock /\ Unlock(t, "post")
      BY <1>4, <2>3 DEF Push, AfterPush
    <3> QED
      BY <1>0, <2>1, <3>1 DEF Unlock
  <2> QED
    BY <2>1, <2>2, <2>3
<1>5. ASSUME NEW t \in Threads, Pop(t) \/ PopN(t) \/ PopB(t) PROVE OneFamily'
  <2>1. Unlock(t, "idle") /\ UNCHANGED isblock
    BY <1>5 DEF Pop, PopN, PopB
  <2>2. op[t] \in {"pop", "popN", "pop_b"}
    BY <1>5 DEF Pop, PopN, PopB, InCrit
  <2>3. ~(Blocking /\ ~isblock)
    BY <2>2
  <2> QED
    BY <1>3, <2>1, <2>3
<1>6. ASSUME NEW t \in Threads, Front(t) \/ Query(t) PROVE OneFamily'
  <2>1. Unlock(t, "idle") /\ UNCHANGED <<isblock, list>>
    BY <1>6 DEF Front, Query
  <2> QED
    BY <1>3, <2>1
<1>7. ASSUME NEW t \in Threads, SetBlock(t) PROVE OneFamily'
  <2>1. Unlock(t, "idle") /\ UNCHANGED list
    BY <1>7 DEF SetBlock
  <2>2. UNCHANGED isblock \/ isblock' = TRUE
    BY <1>7, Zenon DEF SetBlock
  <2>3. CASE UNCHANGED isblock
    BY <1>3, <2>1, <2>3
  <2>4. CASE isblock' = TRUE
    <3>1. Blocking /\ family' = family
      BY <1>7, <2>1 DEF SetBlock, InCrit, Unlock
    <3>2. \A u \in Threads : op'[u] = IF u = t THEN "none" ELSE op[u]
      BY <1>0, <2>1 DEF Unlock
    <3> QED
      BY <2>4, <3>1, <3>2
  <2> QED
    BY <2>2, <2>3, <2>4
<1>8. CASE UNCHANGED vars
  BY <1>8 DEF vars
<1> QED
  BY <1>1, <1>2, <1>4, <1>5, <1>6, <1>7, <1>8 DEF Next, Step, Body

\* How the two sets of threads in flight change when one thread moves.
LEMMA CountersMove ==
  ASSUME TypeOK, NEW t \in Threads,
         \A u \in Threads \ {t} : pc'[u] = pc[u] /\ op'[u] = op[u]
  PROVE  /\ Cardinality(Claiming)' =
              Cardinality(Claiming)
                - (IF t \in Claiming THEN 1 ELSE 0)
                + (IF t \in Claiming' THEN 1 ELSE 0)
         /\ Cardinality(Posting)' =
              Cardinality(Posting)
                - (IF t \in Posting THEN 1 ELSE 0)
                + (IF t \in Posting' THEN 1 ELSE 0)
<1>1. ASSUME NEW A, NEW B, IsFiniteSet(A), A \ {t} = B \ {t}
      PROVE  Cardinality(B) = Cardinality(A) - (IF t \in A THEN 1 ELSE 0)
                                             + (IF t \in B THEN 1 ELSE 0)
  <2>1. /\ IsFiniteSet(A \ {t}) /\ Cardinality(A) \in Nat
        /\ Cardinality(A \ {t}) =
             IF t \in A THEN Cardinality(A) - 1 ELSE Cardinality(A)
    BY <1>1, FS_RemoveElement, FS_CardinalityType
  <2>2. CASE t \in B
    <3>1. B = (A \ {t}) \cup {t} /\ t \notin A \ {t}
      BY <1>1, <2>2
    <3>2. Cardinality(B) = Cardinality(A \ {t}) + 1
      BY <2>1, <3>1, FS_AddElement
    <3> QED
      BY <2>1, <2>2, <3>2
  <2>3. CASE t \notin B
    <3>1. B = A \ {t}
      BY <1>1, <2>3
    <3> QED
      BY <2>1, <2>3, <3>1
  <2> QED
    BY <2>2, <2>3
<1>2. Claiming \ {t} = Claiming' \ {t} /\ Posting \ {t} = Posting' \ {t}
  BY DEF Claiming, Posting
<1> QED
  BY <1>1, <1>2, CountersFinite

\* A thread that has claimed an element finds one.
LEMMA ClaimFindsElement ==
  ASSUME TypeOK, SemCountsElements, isblock, NEW t \in Claiming
  PROVE  list # <<>>
<1>1. Cardinality(Claiming) # 0
  BY CountersFinite, FS_EmptySet
<1>2. Len(list) # 0
  BY <1>1, CountersFinite DEF SemCountsElements, TypeOK
<1> QED
  BY <1>2, EmptySeq

\* Every step keeps the semaphore in balance with the list.
LEMMA CountStep ==
  TypeOK /\ StageOfOp /\ OneFamily /\ SemCountsElements /\ [Next]_vars
    => SemCountsElements'
<1> SUFFICES ASSUME TypeOK, StageOfOp, OneFamily, SemCountsElements,
                    [Next]_vars, isblock'
             PROVE  Len(list') = sem' + Cardinality(Claiming)'
                                      + Cardinality(Posting)'
  BY DEF SemCountsElements
<1>0. /\ list \in Seq(Values) /\ Len(list) \in Nat /\ sem \in Nat
      /\ pc \in [Threads -> Stages] /\ op \in [Threads -> Ops \cup {"none"}]
      /\ arg \in [Threads -> Values \cup Counts \cup {0}]
      /\ Cardinality(Claiming) \in Nat /\ Cardinality(Posting) \in Nat
  BY CountersFinite, LenProperties DEF TypeOK
<1>1. isblock => Len(list) = sem + Cardinality(Claiming) + Cardinality(Posting)
  BY DEF SemCountsElements
<1>2. ASSUME NEW t \in Threads, NEW o \in Ops, NEW a \in Args(o), Begin(t, o, a)
      PROVE  Len(list') = sem' + Cardinality(Claiming)' + Cardinality(Posting)'
  <2>1. \A u \in Threads \ {t} : pc'[u] = pc[u] /\ op'[u] = op[u]
    BY <1>0, <1>2 DEF Begin
  <2>2. t \notin Claiming /\ t \notin Posting
    BY <1>2 DEF Begin, Claiming, Posting
  <2>3. t \notin Claiming' /\ t \notin Posting'
    BY <1>0, <1>2 DEF Begin, Claiming, Posting
  <2>4. UNCHANGED <<list, sem, isblock>>
    BY <1>2 DEF Begin
  <2> QED
    BY <1>0, <1>1, <2>1, <2>2, <2>3, <2>4, CountersMove
<1>3. ASSUME NEW t \in Threads, SemWait(t)
      PROVE  Len(list') = sem' + Cardinality(Claiming)' + Cardinality(Posting)'
  <2>1. \A u \in Threads \ {t} : pc'[u] = pc[u] /\ op'[u] = op[u]
    BY <1>0, <1>3 DEF SemWait
  <2>2. t \notin Claiming /\ t \notin Posting
    BY <1>3 DEF SemWait, Claiming, Posting
  <2>3. t \in Claiming' /\ t \notin Posting'
    BY <1>0, <1>3 DEF SemWait, Claiming, Posting, StageOfOp
  <2>4. UNCHANGED <<list, isblock>> /\ sem' = sem - 1
    BY <1>3 DEF SemWait
  <2>5. Len(list) = sem + Cardinality(Claiming) + Cardinality(Posting)
    BY <1>1, <2>4, Zenon
  <2>6. /\ Cardinality(Claiming)' = Cardinality(Claiming) + 1
        /\ Cardinality(Posting)' = Cardinality(Posting)
    BY <1>0, <2>1, <2>2, <2>3, CountersMove
  <2>7. Len(list') = Len(list)
    BY <2>4
  <2> QED
    BY <1>0, <2>4, <2>5, <2>6, <2>7
<1>4. ASSUME NEW t \in Threads, Lock(t)
      PROVE  Len(list') = sem' + Cardinality(Claiming)' + Cardinality(Posting)'
  <2>1. \A u \in Threads \ {t} : pc'[u] = pc[u] /\ op'[u] = op[u]
    BY <1>0, <1>4 DEF Lock
  <2>2. t \in Claiming <=> t \in Claiming'
    BY <1>0, <1>4 DEF Lock, Claiming
  <2>3. t \notin Posting /\ t \notin Posting'
    BY <1>0, <1>4 DEF Lock, Posting
  <2>4. UNCHANGED <<list, sem, isblock>>
    BY <1>4 DEF Lock
  <2> QED
    BY <1>0, <1>1, <2>1, <2>2, <2>3, <2>4, CountersMove
<1>5. ASSUME NEW t \in Threads, SemPost(t)
      PROVE  Len(list') = sem' + Cardinality(Claiming)' + Cardinality(Posting)'
  <2>1. \A u \in Threads \ {t} : pc'[u] = pc[u] /\ op'[u] = op[u]
    BY <1>0, <1>5 DEF SemPost
  <2>2. t \notin Claiming /\ t \in Posting
    BY <1>5 DEF SemPost, Claiming, Posting
  <2>3. t \notin Claiming' /\ t \notin Posting'
    BY <1>0, <1>5 DEF SemPost, Claiming, Posting
  <2>4. UNCHANGED <<list, isblock>> /\ sem' = sem + 1
    BY <1>5 DEF SemPost
  <2>5. Len(list) = sem + Cardinality(Claiming) + Cardinality(Posting)
    BY <1>1, <2>4, Zenon
  <2>6. /\ Cardinality(Claiming)' = Cardinality(Claiming)
        /\ Cardinality(Posting)' = Cardinality(Posting) - 1
    BY <1>0, <2>1, <2>2, <2>3, CountersMove
  <2>7. Len(list') = Len(list)
    BY <2>4
  <2> QED
    BY <1>0, <2>4, <2>5, <2>6, <2>7
<1>6. ASSUME NEW t \in Threads, NEW s \in {"idle", "post"}, Unlock(t, s)
      PROVE  /\ \A u \in Threads \ {t} : pc'[u] = pc[u] /\ op'[u] = op[u]
             /\ t \notin Claiming'
             /\ t \in Posting' <=> s = "post"
  BY <1>0, <1>6 DEF Unlock, Claiming, Posting
<1>7. ASSUME NEW t \in Threads, pc[t] = "crit"
      PROVE  t \notin Posting /\ (t \in Claiming <=> op[t] = "pop_b")
  BY <1>7 DEF Claiming, Posting
<1>8. ASSUME NEW t \in Threads, Push(t)
      PROVE  Len(list') = sem' + Cardinality(Claiming)' + Cardinality(Posting)'
  <2>1. op[t] \in {"push", "push_b"} /\ UNCHANGED <<isblock, sem>> /\ pc[t] = "crit"
    BY <1>8 DEF Push, InCrit, Pushes
  <2>2. op[t] = "push_b" /\ isblock
    BY <2>1 DEF OneFamily
  <2>3. Unlock(t, "post")
    BY <1>8, <2>2 DEF Push, AfterPush
  <2>4. Len(list') = Len(list) + 1
    <3>1. arg[t] \in Values \cup Counts \cup {0} /\ list' = Append(list, arg[t])
      BY <1>0, <1>8 DEF Push
    <3>2. list \in Seq(Values \cup Counts \cup {0})
      BY <1>0, SeqMonotonic
    <3> QED
      BY <3>1, <3>2, AppendProperties
  <2>5. /\ Cardinality(Claiming)' = Cardinality(Claiming)
        /\ Cardinality(Posting)' = Cardinality(Posting) + 1
    BY <1>0, <1>6, <1>7, <2>1, <2>2, <2>3, CountersMove
  <2>6. Len(list) = sem + Cardinality(Claiming) + Cardinality(Posting)
    BY <1>1, <2>2, Zenon
  <2> QED
    BY <1>0, <2>1, <2>4, <2>5, <2>6
<1>9. ASSUME NEW t \in Threads, PopB(t)
      PROVE  Len(list') = sem' + Cardinality(Claiming)' + Cardinality(Posting)'
  <2>1. /\ op[t] = "pop_b" /\ pc[t] = "crit" /\ UNCHANGED <<isblock, sem>>
        /\ Unlock(t, "idle")
    BY <1>9 DEF PopB, InCrit
  <2>2. isblock /\ t \in Claiming
    BY <2>1 DEF OneFamily, Claiming
  <2>4. list # <<>>
    BY <2>2, ClaimFindsElement
  <2>5. Len(list') = Len(list) - 1
    BY <1>0, <1>9, <2>4, HeadTailProperties DEF PopB
  <2> QED
    <3>1. /\ Cardinality(Claiming)' = Cardinality(Claiming) - 1
          /\ Cardinality(Posting)' = Cardinality(Posting)
      BY <1>0, <1>6, <1>7, <2>1, CountersMove
    <3> QED
      BY <1>0, <1>1, <2>1, <2>2, <2>5, <3>1
<1>10. ASSUME NEW t \in Threads, Pop(t) \/ PopN(t)
       PROVE  Len(list') = sem' + Cardinality(Claiming)' + Cardinality(Posting)'
  <2>1. op[t] \in {"pop", "popN"} /\ isblock
    BY <1>10 DEF Pop, PopN, InCrit
  <2> QED
    BY <2>1 DEF OneFamily
<1>11. ASSUME NEW t \in Threads, Front(t) \/ Query(t)
       PROVE  Len(list') = sem' + Cardinality(Claiming)' + Cardinality(Posting)'
  <2>1. /\ op[t] # "pop_b" /\ pc[t] = "crit" /\ UNCHANGED <<isblock, list, sem>>
        /\ Unlock(t, "idle")
    BY <1>11 DEF Front, Query, InCrit
  <2>2. /\ Cardinality(Claiming)' = Cardinality(Claiming)
        /\ Cardinality(Posting)' = Cardinality(Posting)
    BY <1>0, <1>6, <1>7, <2>1, CountersMove
  <2> QED
    BY <1>0, <1>1, <2>1, <2>2
<1>12. ASSUME NEW t \in Threads, SetBlock(t)
       PROVE  Len(list') = sem' + Cardinality(Claiming)' + Cardinality(Posting)'
  <2>1. /\ op[t] = "setblock" /\ pc[t] = "crit" /\ UNCHANGED list
        /\ Unlock(t, "idle")
    BY <1>12 DEF SetBlock, InCrit
  <2>2. Blocking
    BY <2>1 DEF OneFamily
  <2>3. CASE isblock
    <3>1. UNCHANGED <<isblock, sem>>
      BY <1>12, <2>3, Zenon DEF SetBlock
    <3> QED
      BY <1>0, <1>1, <1>6, <1>7, <2>1, <2>3, <3>1, CountersMove
  <2>4. CASE ~isblock
    <3>1. sem' = 0
      BY <1>12, <2>4, Zenon DEF SetBlock
    <3>2. Len(list) = 0
      BY <2>2, <2>4, EmptySeq DEF OneFamily
    <3>3. Claiming = {} /\ Posting = {}
      BY <2>4 DEF OneFamily, Claiming, Posting
    <3>4. Cardinality(Claiming) = 0 /\ Cardinality(Posting) = 0
      BY <3>3, FS_EmptySet
    <3> QED
      BY <1>6, <1>7, <2>1, <3>1, <3>2, <3>4, CountersMove
  <2> QED
    BY <2>3, <2>4
<1>13. CASE UNCHANGED vars
  BY <1>1, <1>13 DEF vars, Claiming, Posting
<1> QED
  BY <1>2, <1>3, <1>4, <1>5, <1>8, <1>9, <1>10, <1>11, <1>12, <1>13
     DEF Next, Step, Body

\* No step makes pop_b throw: a thread in its critical section has claimed
\* an element, so the list is not empty.
LEMMA FoundStep ==
  TypeOK /\ OneFamily /\ SemCountsElements /\ PopBFindsElement /\ [Next]_vars
    => PopBFindsElement'
<1> SUFFICES ASSUME TypeOK, OneFamily, SemCountsElements, PopBFindsElement,
                    [Next]_vars
             PROVE  PopBFindsElement'
  OBVIOUS
<1> USE DEF PopBFindsElement
<1>0. /\ list \in Seq(Values) /\ Len(list) \in Nat /\ sem \in Nat
      /\ thrown \in [Threads -> Errors]
      /\ Cardinality(Claiming) \in Nat /\ Cardinality(Posting) \in Nat
  BY CountersFinite, LenProperties DEF TypeOK
<1>1. ASSUME NEW t \in Threads, NEW o \in Ops, NEW a \in Args(o), Begin(t, o, a)
      PROVE  PopBFindsElement'
  BY <1>0, <1>1 DEF Begin
<1>2. ASSUME UNCHANGED thrown PROVE PopBFindsElement'
  BY <1>2
<1>3. ASSUME NEW t \in Threads, PopB(t) PROVE PopBFindsElement'
  <2>1. isblock /\ t \in Claiming
    BY <1>3 DEF PopB, InCrit, OneFamily, Claiming
  <2>3. list # <<>>
    BY <2>1, ClaimFindsElement
  <2>4. UNCHANGED thrown
    BY <1>3, <2>3 DEF PopB, Return
  <2> QED
    BY <1>2, <2>4
<1>4. ASSUME NEW t \in Threads, SetBlock(t) PROVE PopBFindsElement'
  <2>1. \/ UNCHANGED thrown
        \/ Throw(t, "already enabled") \/ Throw(t, "sem_init failed")
    BY <1>4, Zenon DEF SetBlock
  <2> QED
    BY <1>0, <2>1 DEF Throw
<1>5. ASSUME NEW t \in Threads,
             \/ SemWait(t) \/ Lock(t) \/ SemPost(t)
             \/ Push(t) \/ Pop(t) \/ PopN(t) \/ Front(t) \/ Query(t)
      PROVE  UNCHANGED thrown
  BY <1>5 DEF SemWait, Lock, SemPost, Push, Pop, PopN, Front, Query, Return
<1>6. CASE UNCHANGED vars
  BY <1>2, <1>6 DEF vars
<1> QED
  BY <1>1, <1>2, <1>3, <1>4, <1>5, <1>6 DEF Next, Step, Body

\* The inductive invariant.
THEOREM Invariance == Spec => []QueueInv
<1>1. QueueInv /\ [Next]_vars => QueueInv'
  BY TypeStep, StageStep, FamilyStep, CountStep, FoundStep DEF QueueInv
<1> QED
  BY QueueInit, <1>1, PTL DEF Spec

\* The type invariant of the queue.
THEOREM TypeCorrect == Spec => []TypeOK
<1>1. QueueInv => TypeOK
  BY DEF QueueInv
<1> QED
  BY Invariance, <1>1, PTL

\* The semaphore counts the elements: every element of a blocking queue is
\* covered by one unit, one claimed unit or one pending post.
THEOREM SemAccounting == Spec => []SemCountsElements
<1>1. QueueInv => SemCountsElements
  BY DEF QueueInv
<1> QED
  BY Invariance, <1>1, PTL

\* pop_b never reaches its throw "list is empty!".
THEOREM PopBNeverThrows == Spec => []PopBFindsElement
<1>1. QueueInv => PopBFindsElement
  BY DEF QueueInv
<1> QED
  BY Invariance, <1>1, PTL

-----------------------------------------------------------------------------
\* A step that changes neither the list, nor who is taking, nor a result is
\* a stuttering step of the abstract queue.
LEMMA TakingMove ==
  ASSUME TypeOK, NEW t \in Threads,
         \A u \in Threads \ {t} : pc'[u] = pc[u] /\ op'[u] = op[u]
  PROVE  /\ t \in Taking /\ t \in Taking' => Taking' = Taking
         /\ t \notin Taking /\ t \notin Taking' => Taking' = Taking
         /\ t \notin Taking /\ t \in Taking' => Taking' = Taking \cup {t}
         /\ t \in Taking /\ t \notin Taking' => Taking' = Taking \ {t}
<1>1. \A u \in Threads \ {t} : u \in Taking <=> u \in Taking'
  BY DEF Taking, Claiming
<1>2. Taking \subseteq Threads /\ Taking' \subseteq Threads
  BY DEF Taking, Claiming
<1> QED
  BY <1>1, <1>2

\* Every step of SafeQueue is a step of the abstract queue or a stutter.
LEMMA FifoStep ==
  QueueInv /\ [Next]_vars => [FifoImpl!FifoNext]_(FifoImpl!fifoVars)
<1> SUFFICES ASSUME QueueInv, [Next]_vars
             PROVE  FifoImpl!FifoNext \/ UNCHANGED FifoImpl!fifoVars
  OBVIOUS
<1>0. /\ TypeOK /\ StageOfOp /\ OneFamily /\ SemCountsElements
      /\ list \in Seq(Values) /\ Len(list) \in Nat
      /\ pc \in [Threads -> Stages] /\ op \in [Threads -> Ops \cup {"none"}]
  BY LenProperties DEF QueueInv, TypeOK
<1>1. ASSUME NEW t \in Threads, NEW o \in Ops, NEW a \in Args(o), Begin(t, o, a)
      PROVE  FifoImpl!Ask(t) \/ FifoImpl!Forget(t)
  <2>1. \A u \in Threads \ {t} : pc'[u] = pc[u] /\ op'[u] = op[u]
    BY <1>0, <1>1 DEF Begin
  <2>2. t \notin Taking
    BY <1>1 DEF Begin, Taking, Claiming
  <2>3. /\ o = "pop_b" => t \in Taking'
        /\ o # "pop_b" => t \notin Taking'
    BY <1>0, <1>1 DEF Begin, Taking, Claiming
  <2>4. list' = list /\ ret' = [ret EXCEPT ![t] = <<>>]
    BY <1>1 DEF Begin
  <2>5. Taking' = Taking \cup {t} \/ Taking' = Taking
    BY <1>0, <2>1, <2>2, <2>3, TakingMove
  <2> QED
    BY <2>2, <2>4, <2>5 DEF FifoImpl!Ask, FifoImpl!Forget
<1>2. ASSUME NEW t \in Threads, SemWait(t) \/ Lock(t) \/ SemPost(t)
      PROVE  UNCHANGED FifoImpl!fifoVars
  <2>1. \A u \in Threads \ {t} : pc'[u] = pc[u] /\ op'[u] = op[u]
    BY <1>0, <1>2 DEF SemWait, Lock, SemPost
  <2>2. t \in Taking <=> t \in Taking'
    BY <1>0, <1>2 DEF SemWait, Lock, SemPost, Taking, Claiming, StageOfOp
  <2>3. UNCHANGED <<list, ret>>
    BY <1>2 DEF SemWait, Lock, SemPost
  <2> QED
    BY <1>0, <2>1, <2>2, <2>3, TakingMove DEF FifoImpl!fifoVars
<1>3. ASSUME NEW t \in Threads, pc[t] = "crit", op[t] # "pop_b",
             NEW s \in {"idle", "post"}, Unlock(t, s)
      PROVE  t \notin Taking /\ Taking' = Taking
  <2>1. \A u \in Threads \ {t} : pc'[u] = pc[u] /\ op'[u] = op[u]
    BY <1>0, <1>3 DEF Unlock
  <2>2. t \notin Taking /\ t \notin Taking'
    BY <1>0, <1>3 DEF Unlock, Taking, Claiming
  <2> QED
    BY <1>0, <2>1, <2>2, TakingMove
<1>4. ASSUME NEW t \in Threads, Push(t) PROVE \E v \in Values : FifoImpl!Put(v)
  <2>1. /\ pc[t] = "crit" /\ op[t] \in Pushes /\ arg[t] \in Values
        /\ AfterPush(op[t]) \in {"idle", "post"}
    BY <1>0, <1>4 DEF Push, InCrit, Pushes, TypeOK, Args, AfterPush
  <2>2. Taking' = Taking
    BY <1>3, <1>4, <2>1 DEF Push, Pushes
  <2>3. list' = Append(list, arg[t]) /\ ret' = ret
    BY <1>4 DEF Push
  <2> QED
    BY <2>1, <2>2, <2>3 DEF FifoImpl!Put
<1>5. ASSUME NEW t \in Threads, Pop(t) \/ PopN(t)
      PROVE  \E k \in 0..Len(list) : FifoImpl!TakeNow(t, k)
  <2>1. t \notin Taking /\ Taking' = Taking
    BY <1>3, <1>5 DEF Pop, PopN, InCrit
  <2>2. CASE Pop(t) /\ list = <<>>
    <3>1. list' = <<>> /\ ret' = [ret EXCEPT ![t] = <<>>]
      BY <2>2 DEF Pop, Return
    <3>2. Len(list) = 0 /\ SubSeq(list, 1, 0) = <<>> /\ SubSeq(list, 0 + 1, Len(list)) = <<>>
      BY <2>2, SubSeqEmpty
    <3>3. 0 <= Len(list) /\ list' = SubSeq(list, 0 + 1, Len(list))
      BY <1>0, <3>1, <3>2
    <3>4. FifoImpl!TakeNow(t, 0)
      BY <2>1, <3>1, <3>2, <3>3, Zenon DEF FifoImpl!TakeNow
    <3> QED
      BY <3>2, <3>4
  <2>3. CASE Pop(t) /\ list # <<>>
    <3>1. list' = Tail(list) /\ ret' = [ret EXCEPT ![t] = <<Head(list)>>]
      BY <2>3 DEF Pop, Return
    <3>2. 1 \in 1..Len(list)
      BY <1>0, <2>3, EmptySeq
    <3>3. Tail(list) = SubSeq(list, 1 + 1, Len(list))
      BY <1>0, <2>3, TailIsSubSeq
    <3>4. SubSeq(list, 1, 1) = <<list[1]>> \o SubSeq(list, 2, 1)
      BY <1>0, <3>2, SubSeqRecursiveFirst
    <3>5. SubSeq(list, 2, 1) = <<>> /\ Head(list) = list[1]
      BY SubSeqEmpty, <1>0, <2>3
    <3>6. SubSeq(list, 1, 1) = <<Head(list)>>
      <4>1. list[1] \in Values /\ <<list[1]>> \in Seq(Values)
        BY <1>0, <3>2, ElementOfSeq
      <4> QED
        BY <3>4, <3>5, <4>1, ConcatEmptySeq
    <3>8. 1 <= Len(list)
      BY <1>0, <3>2
    <3>7. FifoImpl!TakeNow(t, 1)
      BY <2>1, <3>1, <3>3, <3>6, <3>8, Zenon DEF FifoImpl!TakeNow
    <3> QED
      BY <1>0, <3>2, <3>7
  <2>4. CASE PopN(t)
    <3> DEFINE k == PopCount(arg[t])
    <3>1. arg[t] \in Int
      BY <1>0, <2>4, SafeQueueAssumption DEF PopN, InCrit, Args, Pushes, TypeOK
    <3>2. k \in 0..Len(list)
      BY <1>0, <3>1, PopCountRange
    <3>3. /\ ret' = [ret EXCEPT ![t] = SubSeq(list, 1, k)]
          /\ list' = SubSeq(list, k + 1, Len(list))
      BY <2>4 DEF PopN, Return
    <3> HIDE DEF k
    <3>4. FifoImpl!TakeNow(t, k)
      BY <1>0, <2>1, <3>2, <3>3 DEF FifoImpl!TakeNow
    <3> QED
      BY <3>2, <3>4
  <2> QED
    BY <1>5, <2>2, <2>3, <2>4
<1>6. ASSUME NEW t \in Threads, PopB(t) PROVE FifoImpl!Take(t)
  <2>1. /\ op[t] = "pop_b" /\ pc[t] = "crit" /\ Unlock(t, "idle")
    BY <1>6 DEF PopB, InCrit
  <2>2. isblock /\ t \in Claiming /\ t \in Taking
    BY <1>0, <2>1 DEF OneFamily, Claiming, Taking
  <2>3. list # <<>>
    BY <1>0, <2>2, ClaimFindsElement
  <2>4. list' = Tail(list) /\ ret' = [ret EXCEPT ![t] = <<Head(list)>>]
    BY <1>6, <2>3 DEF PopB, Return
  <2>5. \A u \in Threads \ {t} : pc'[u] = pc[u] /\ op'[u] = op[u]
    BY <1>0, <2>1 DEF Unlock
  <2>6. t \notin Taking'
    BY <1>0, <2>1 DEF Unlock, Taking, Claiming
  <2>7. Taking' = Taking \ {t}
    BY <1>0, <2>2, <2>5, <2>6, TakingMove
  <2> QED
    BY <2>2, <2>3, <2>4, <2>7 DEF FifoImpl!Take
<1>7. ASSUME NEW t \in Threads, SetBlock(t) PROVE UNCHANGED FifoImpl!fifoVars
  <2>1. op[t] # "pop_b" /\ pc[t] = "crit" /\ Unlock(t, "idle") /\ list' = list
    BY <1>7 DEF SetBlock, InCrit
  <2>2. ret' = ret
    BY <1>7, Zenon DEF SetBlock, Throw
  <2> QED
    BY <1>3, <2>1, <2>2 DEF FifoImpl!fifoVars
<1>8. ASSUME NEW t \in Threads, Front(t) PROVE FifoImpl!Peek(t)
  <2>1. t \notin Taking /\ Taking' = Taking
    BY <1>3, <1>8 DEF Front, InCrit
  <2> QED
    BY <1>8, <2>1 DEF Front, Return, FifoImpl!Peek
<1>9. ASSUME NEW t \in Threads, Query(t) PROVE UNCHANGED FifoImpl!fifoVars
  BY <1>3, <1>9 DEF Query, InCrit, FifoImpl!fifoVars
<1>10. CASE UNCHANGED vars
  BY <1>10 DEF vars, FifoImpl!fifoVars, Taking, Claiming
<1> QED
  BY <1>0, <1>1, <1>2, <1>4, <1>5, <1>6, <1>7, <1>8, <1>9, <1>10
     DEF Next, Step, Body, FifoImpl!FifoNext

\* SafeQueue implements the safety part of the abstract FIFO: every
\* operation takes effect in one step, in the order of the list, and a
\* blocking take never completes on an empty queue.
THEOREM Refinement == Spec => FifoImpl!FifoSafety
<1>1. Init => FifoImpl!FifoInit
  BY DEF Init, FifoImpl!FifoInit, Taking, Claiming
<1> QED
  BY Invariance, <1>1, FifoStep, PTL DEF Spec, FifoImpl!FifoSafety
=============================================================================
