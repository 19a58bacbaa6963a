------------------------ MODULE WorkStealing_proofs ------------------------
(***************************************************************************)
(* The work stealing scheduler, for every DAG, number of threads and       *)
(* sequence of calls.  First what the rest is built on: the constants, the *)
(* dealing out of the ready tasks, the bound on the heads, the types, and  *)
(* what a step does to the locals of the threads and to the pool (the      *)
(* conjuncts TypeOK, Locals and Pool of the invariant).  Then the steps in *)
(* an open vector and in a closed one, and the theorems.                   *)
(***************************************************************************)
EXTENDS WorkStealingInv, FiniteSetTheorems, SequenceTheorems, TLAPS

-----------------------------------------------------------------------------
(***************************************************************************)
(* The constants.                                                          *)
(***************************************************************************)
\* The threads: the caller of compute and the workers.
LEMMA ThreadNumbers ==
  /\ fStaticNumThreads \in Nat /\ fStaticNumThreads >= 1
  /\ Threads = 0 .. fStaticNumThreads - 1
  /\ NumThreads \in 1 .. fStaticNumThreads
BY WorkStealingAssumption

\* Thread 0 is the caller, the others are the workers.
LEMMA Master ==
  /\ MASTER_THREAD = 0 /\ MASTER_THREAD \in Threads
  /\ Workers \subseteq Threads
  /\ \A t : t \in Workers <=> t \in Threads /\ t # MASTER_THREAD
BY WorkStealingAssumption DEF Workers, MASTER_THREAD

\* Sizes are natural numbers, and a vector is not empty.
LEMMA Samples ==
  /\ VecSize \in Nat /\ VecSize >= 1
  /\ Counts \subseteq Nat
  /\ MaxComputes \in Nat
BY WorkStealingAssumption

\* The task numbers: the tasks, the last task, and 0 for no task.
LEMMA TaskNumbers ==
  /\ \A k : k \in Counted <=> k \in Task \/ k = LAST_TASK_INDEX
  /\ LAST_TASK_INDEX \notin Task
  /\ WORK_STEALING_INDEX \notin Counted
  /\ WORK_STEALING_INDEX \notin Task
  /\ WORK_STEALING_INDEX # LAST_TASK_INDEX
  /\ NoSlot \notin Task
BY WorkStealingAssumption, TaskQueueAssumption
   DEF LAST_TASK_INDEX, WORK_STEALING_INDEX, Counted

\* The tasks a task waits for: a finite set of tasks, and Inputs is its size.
LEMMA InputsType ==
  ASSUME NEW k \in Counted
  PROVE  /\ Preds(k) \subseteq Task /\ IsFiniteSet(Preds(k))
         /\ Inputs(k) = Cardinality(Preds(k))
         /\ Inputs(k) \in Nat
<1>1. Preds(k) \subseteq Task
  BY WorkStealingAssumption, TaskNumbers DEF Preds, LastStage
<1>2. IsFiniteSet(Task)
  BY WorkStealingAssumption
<1>3. IsFiniteSet(Preds(k))
  BY <1>1, <1>2, FS_Subset
<1>4. Inputs(k) = Cardinality(Preds(k))
  BY DEF Inputs, Preds
<1> QED
  BY <1>1, <1>3, <1>4, FS_CardinalityType

\* A task without inputs is ready, one with inputs is not.
LEMMA ReadyInputs ==
  ASSUME NEW k \in Task
  PROVE  /\ (Inputs(k) = 0) <=> (Preds(k) = {})
         /\ Preds(k) = Back[k]
         /\ k \notin Back[k]
<1>1. k \in Counted /\ k # LAST_TASK_INDEX
  BY TaskNumbers
<1>2. IsFiniteSet(Preds(k)) /\ Inputs(k) = Cardinality(Preds(k))
  BY <1>1, InputsType
<1>3. Preds(k) = Back[k]
  BY <1>1 DEF Preds
<1>4. k \notin Back[k]
  <2>0. \A S \in (SUBSET Task) \ {{}} : \E m \in S : \A c \in S : m \notin Back[c]
    BY WorkStealingAssumption
  <2>1. {k} \in (SUBSET Task) \ {{}}
    OBVIOUS
  <2>2. PICK m \in {k} : \A c \in {k} : m \notin Back[c]
    BY <2>0, <2>1
  <2> QED
    BY <2>2
<1> QED
  BY <1>2, <1>3, <1>4, FS_EmptySet

\* The slots of a queue that hold different tasks are no more than the tasks.
LEMMA HeadBound ==
  ASSUME NEW f, NEW h \in Nat,
         \A j \in 0 .. h - 1 : f[j] \in Task,
         \A j, l \in 0 .. h - 1 : f[j] = f[l] => j = l
  PROVE  h \in Slots /\ h <= Cardinality(Task)
<1> DEFINE g == [j \in 0 .. h - 1 |-> f[j]]
<1>1. IsFiniteSet(Task) /\ Cardinality(Task) \in Nat /\ QueueSize = Cardinality(Task) + 2
  BY WorkStealingAssumption, FS_CardinalityType
<1>2. g \in Injection(0 .. h - 1, Task)
  BY DEF Injection, IsInjective
<1>3. Cardinality(0 .. h - 1) <= Cardinality(Task)
  BY <1>1, <1>2, FS_Injection
<1>4. Cardinality(0 .. h - 1) = h
  BY FS_Interval
<1> QED
  BY <1>1, <1>3, <1>4 DEF Slots

-----------------------------------------------------------------------------
(***************************************************************************)
(* InitTaskList deals out each ready task once, to a queue of the call.    *)
(***************************************************************************)
\* Quotient and remainder, as the slices of InitTaskListAll use them.
LEMMA Division ==
  ASSUME NEW a \in Nat, NEW d \in Nat, d >= 1
  PROVE  a \div d \in Nat /\ a % d \in Nat /\ a % d < d /\ a = d * (a \div d) + (a % d)
<1>1. a \div d \in Int /\ a % d \in Int
  OBVIOUS
<1>2. a \div d >= 0
  OBVIOUS
<1>3. 0 <= a % d
  OBVIOUS
<1>4. a % d < d
  OBVIOUS
<1>5. a = d * (a \div d) + (a % d)
  OBVIOUS
<1> QED
  BY <1>1, <1>2, <1>3, <1>4, <1>5

\* A product grows with its factor.
LEMMA TimesMonotonic ==
  ASSUME NEW a \in Nat, NEW b \in Nat, NEW s \in Nat, a >= b
  PROVE  a * s >= b * s
OBVIOUS

\* The elements of d - 1 slices are in slices 0 .. d - 2.
LEMMA SliceBound ==
  ASSUME NEW a \in Nat, NEW d \in Nat, NEW s \in Nat, s >= 1, d >= 1, a < (d - 1) * s
  PROVE  a \div s < d - 1
<1>1. a \div s \in Nat /\ a % s \in Nat /\ a = s * (a \div s) + (a % s)
  BY Division
<1>2. ASSUME a \div s >= d - 1 PROVE FALSE
  <2>1. d - 1 \in Nat
    OBVIOUS
  <2>2. (a \div s) * s >= (d - 1) * s
    BY <1>1, <1>2, <2>1, TimesMonotonic
  <2>3. s * (a \div s) = (a \div s) * s
    BY <1>1
  <2> QED
    BY <2>2, <2>3, <1>1
<1> QED
  BY <1>1, <1>2

\* What InitTaskList makes: pushes of different ready tasks on queues in Q.
Deal(J, Q) ==
  /\ J \in Seq(Q \X Task)
  /\ \A j \in DOMAIN J : J[j][1] \in Q /\ J[j][2] \in Task /\ Back[J[j][2]] = {}
  /\ \A j, l \in DOMAIN J : J[j][2] = J[l][2] => j = l

\* The ready tasks are tasks without inputs, each once in the list.
LEMMA ReadyList ==
  /\ fReadyTaskList \in Seq(Task)
  /\ Len(fReadyTaskList) \in Nat
  /\ DOMAIN fReadyTaskList = 1 .. Len(fReadyTaskList)
  /\ \A j \in DOMAIN fReadyTaskList : fReadyTaskList[j] \in Task /\ Back[fReadyTaskList[j]] = {}
  /\ \A j, l \in DOMAIN fReadyTaskList : fReadyTaskList[j] = fReadyTaskList[l] => j = l
<1>1. fReadyTaskList \in Seq(Task)
  BY WorkStealingAssumption
<1>2. {fReadyTaskList[j] : j \in DOMAIN fReadyTaskList} = {k \in Task : Back[k] = {}}
  BY WorkStealingAssumption
<1>3. \A j, l \in DOMAIN fReadyTaskList : fReadyTaskList[j] = fReadyTaskList[l] => j = l
  BY WorkStealingAssumption
<1>4. Len(fReadyTaskList) \in Nat /\ DOMAIN fReadyTaskList = 1 .. Len(fReadyTaskList)
  BY <1>1, LenProperties
<1>5. \A j \in DOMAIN fReadyTaskList : fReadyTaskList[j] \in {k \in Task : Back[k] = {}}
  BY <1>2
<1> QED
  BY <1>1, <1>3, <1>4, <1>5

\* InitTaskList(t), t >= 0: all ready tasks go to queue t.
LEMMA DealOne ==
  ASSUME NEW t
  PROVE  Deal(InitTaskListOne(t), {t})
<1> DEFINE J == InitTaskListOne(t)
<1>1. DOMAIN J = 1 .. Len(fReadyTaskList)
      /\ \A j \in DOMAIN J : J[j] = <<t, fReadyTaskList[j]>>
  BY ReadyList DEF InitTaskListOne
<1>2. \A j \in DOMAIN J : J[j] \in {t} \X Task
  <2> SUFFICES ASSUME NEW j \in DOMAIN J PROVE J[j] \in {t} \X Task
    OBVIOUS
  <2>1. J[j] = <<t, fReadyTaskList[j]>>
    BY <1>1
  <2>2. fReadyTaskList[j] \in Task /\ t \in {t}
    BY <1>1, ReadyList
  <2> QED
    BY <2>1, <2>2
<1>3. J \in [1 .. Len(fReadyTaskList) -> {t} \X Task]
  <2>1. J = [j \in 1 .. Len(fReadyTaskList) |-> J[j]]
    BY <1>1 DEF InitTaskListOne
  <2> QED
    BY <1>1, <1>2, <2>1
<1>4. J \in Seq({t} \X Task)
  BY <1>3, SeqDef, ReadyList
<1> QED
  BY <1>1, <1>4, ReadyList DEF Deal

\* InitTaskList(-1): slices, and the remainder to queue 0.
LEMMA DealAll ==
  ASSUME fDynamicNumThreads \in 1 .. fStaticNumThreads
  PROVE  Deal(InitTaskListAll, Used)
<1> DEFINE R == fReadyTaskList
           size == Len(R)
           D == fDynamicNumThreads
           slice == size \div D
           rest == size % D
           last == (D - 1) * slice
           m == D * slice
           A == [j \in 1 .. slice |-> <<0, R[j]>>]
           B == [j \in 1 .. rest |-> <<0, R[m + j]>>]
           C == [j \in 1 .. last |-> <<1 + ((j - 1) \div slice), R[slice + j]>>]
           J == InitTaskListAll
<1>0. J = (A \o B) \o C
  BY DEF InitTaskListAll
<1>1. size \in Nat /\ D \in Nat /\ D >= 1 /\ fStaticNumThreads \in Nat
  BY ReadyList, ThreadNumbers
<1>2. slice \in Nat /\ rest \in Nat /\ size = m + rest
  BY <1>1, Division
<1>3. m \in Nat /\ last = m - slice /\ slice <= m /\ last \in Nat
  <2>1. last = m - slice /\ m \in Int
    BY <1>1, <1>2
  <2>2. 1 * slice <= D * slice
    BY <1>1, <1>2, TimesMonotonic
  <2> QED
    BY <1>1, <1>2, <2>1, <2>2
<1> HIDE DEF size, slice, rest, last, m
<1>4. \A j \in 1 .. size : R[j] \in Task /\ Back[R[j]] = {}
  BY ReadyList DEF size
<1>5. \A j, l \in 1 .. size : R[j] = R[l] => j = l
  BY ReadyList DEF size
<1>6. 0 \in Used
  BY <1>1 DEF Used
<1>7. \A j \in 1 .. last : 1 + ((j - 1) \div slice) \in Used
  <2> SUFFICES ASSUME NEW j \in 1 .. last PROVE 1 + ((j - 1) \div slice) \in Used
    OBVIOUS
  <2>1. slice >= 1
    BY <1>1, <1>2, <1>3 DEF last
  <2>2. j - 1 \in Nat /\ j - 1 < (D - 1) * slice
    BY <1>3 DEF last
  <2>3. (j - 1) \div slice < D - 1
    BY <1>1, <1>2, <2>1, <2>2, SliceBound
  <2>4. (j - 1) \div slice \in Nat
    BY <1>2, <2>1, <2>2, Division
  <2> QED
    BY <1>1, <2>3, <2>4 DEF Used
<1>8. /\ A \in Seq(Used \X Task) /\ Len(A) = slice
      /\ \A j \in 1 .. slice : A[j][1] \in Used /\ A[j][2] = R[j]
  <2>1. \A j \in 1 .. slice : j \in 1 .. size
    BY <1>2, <1>3
  <2>2. A \in [1 .. slice -> Used \X Task]
    BY <1>4, <1>6, <1>7, <2>1
  <2>3. \A j \in 1 .. slice : A[j][1] \in Used /\ A[j][2] = R[j]
    BY <1>6, <1>7
  <2> HIDE DEF A
  <2>4. A \in Seq(Used \X Task)
    BY <1>2, <1>3, <2>2, SeqDef
  <2> QED
    BY <1>2, <1>3, <2>2, <2>3, <2>4, LenProperties
<1>9. /\ B \in Seq(Used \X Task) /\ Len(B) = rest
      /\ \A j \in 1 .. rest : B[j][1] \in Used /\ B[j][2] = R[m + j]
  <2>1. \A j \in 1 .. rest : m + j \in 1 .. size
    BY <1>2, <1>3
  <2>2. B \in [1 .. rest -> Used \X Task]
    BY <1>4, <1>6, <1>7, <2>1
  <2>3. \A j \in 1 .. rest : B[j][1] \in Used /\ B[j][2] = R[m + j]
    BY <1>6, <1>7
  <2> HIDE DEF B
  <2>4. B \in Seq(Used \X Task)
    BY <1>2, <1>3, <2>2, SeqDef
  <2> QED
    BY <1>2, <1>3, <2>2, <2>3, <2>4, LenProperties
<1>10. /\ C \in Seq(Used \X Task) /\ Len(C) = last
      /\ \A j \in 1 .. last : C[j][1] \in Used /\ C[j][2] = R[slice + j]
  <2>1. \A j \in 1 .. last : slice + j \in 1 .. size
    BY <1>2, <1>3
  <2>2. C \in [1 .. last -> Used \X Task]
    BY <1>4, <1>6, <1>7, <2>1
  <2>3. \A j \in 1 .. last : C[j][1] \in Used /\ C[j][2] = R[slice + j]
    BY <1>6, <1>7
  <2> HIDE DEF C
  <2>4. C \in Seq(Used \X Task)
    BY <1>2, <1>3, <2>2, SeqDef
  <2>5. DOMAIN C = 1 .. last
    BY <2>2
  <2>6. Len(C) = last
    BY <1>3, <2>4, <2>5, LenProperties
  <2> QED
    BY <2>3, <2>4, <2>6
<1> HIDE DEF A, B, C, R, D
<1> DEFINE pos(j) == IF j <= slice THEN j
                     ELSE IF j <= slice + rest THEN m + (j - slice) ELSE j - rest
<1>11. J \in Seq(Used \X Task) /\ DOMAIN J = 1 .. size
       /\ \A j \in 1 .. size : J[j] = IF j <= slice THEN A[j]
                                      ELSE IF j <= slice + rest THEN B[j - slice]
                                      ELSE C[j - (slice + rest)]
  <2>1. A \o B \in Seq(Used \X Task) /\ Len(A \o B) = slice + rest
        /\ \A j \in 1 .. slice + rest : (A \o B)[j] = IF j <= slice THEN A[j] ELSE B[j - slice]
    <3>1. /\ A \o B \in Seq(Used \X Task)
          /\ Len(A \o B) = Len(A) + Len(B)
          /\ \A j \in 1 .. Len(A) + Len(B) :
               (A \o B)[j] = IF j <= Len(A) THEN A[j] ELSE B[j - Len(A)]
      BY <1>8, <1>9, ConcatProperties
    <3> QED
      BY <1>8, <1>9, <3>1
  <2>2. J \in Seq(Used \X Task) /\ Len(J) = (slice + rest) + last
        /\ \A j \in 1 .. (slice + rest) + last :
             J[j] = IF j <= slice + rest THEN (A \o B)[j] ELSE C[j - (slice + rest)]
    <3> DEFINE AB == A \o B
    <3>1. AB \in Seq(Used \X Task) /\ Len(AB) = slice + rest
      BY <2>1
    <3> HIDE DEF AB
    <3>2. J = AB \o C
      BY <1>0 DEF AB
    <3> HIDE DEF J
    <3>3. /\ AB \o C \in Seq(Used \X Task)
          /\ Len(AB \o C) = Len(AB) + Len(C)
          /\ \A j \in 1 .. Len(AB) + Len(C) :
               (AB \o C)[j] = IF j <= Len(AB) THEN AB[j] ELSE C[j - Len(AB)]
      BY <1>10, <3>1, ConcatProperties
    <3> QED
      BY <1>10, <3>1, <3>2, <3>3 DEF AB
  <2>3. (slice + rest) + last = size
    BY <1>2, <1>3
  <2>4. DOMAIN J = 1 .. size
    BY <2>2, <2>3, LenProperties
  <2> QED
    BY <1>2, <2>1, <2>2, <2>3, <2>4, SMTT(30)
<1>12. \A j \in 1 .. size : pos(j) \in 1 .. size /\ J[j][2] = R[pos(j)] /\ J[j][1] \in Used
  <2> SUFFICES ASSUME NEW j \in 1 .. size
               PROVE  pos(j) \in 1 .. size /\ J[j][2] = R[pos(j)] /\ J[j][1] \in Used
    OBVIOUS
  <2>1. CASE j <= slice
    <3>1. J[j] = A[j] /\ pos(j) = j /\ j \in 1 .. slice
      BY <1>2, <1>11, <2>1
    <3> HIDE DEF J, pos
    <3> QED
      BY <1>8, <3>1
  <2>2. CASE j > slice /\ j <= slice + rest
    <3>1. j - slice \in 1 .. rest
      BY <1>2, <1>3, <2>2
    <3> QED
      <4>1. J[j] = B[j - slice]
        BY <1>2, <1>11, <2>2
      <4>2. pos(j) = m + (j - slice) /\ pos(j) \in 1 .. size
        BY <1>2, <1>3, <2>2
      <4> HIDE DEF J, pos
      <4> QED
        BY <1>9, <3>1, <4>1, <4>2
  <2>3. CASE j > slice + rest
    <3>1. j - (slice + rest) \in 1 .. last
      BY <1>2, <1>3, <2>3
    <3>2. slice + (j - (slice + rest)) = j - rest
      BY <1>2
    <3>3. J[j] = C[j - (slice + rest)] /\ pos(j) = j - rest
      <4>1. J[j] = C[j - (slice + rest)]
        BY <1>2, <1>11, <2>3
      <4> QED
        BY <1>2, <2>3, <4>1
    <3>4. J[j][2] = R[j - rest] /\ J[j][1] \in Used
      BY <3>1, <3>2, <3>3, <1>10
    <3>5. j - rest \in 1 .. size
      BY <1>2, <1>3, <2>3
    <3> QED
      BY <3>3, <3>4, <3>5
  <2> QED
    BY <1>2, <2>1, <2>2, <2>3
<1>13. \A j, l \in 1 .. size : pos(j) = pos(l) => j = l
  BY <1>2, <1>3
<1> HIDE DEF J, pos
<1>14. \A j \in DOMAIN J : J[j][1] \in Used /\ J[j][2] \in Task /\ Back[J[j][2]] = {}
  <2> SUFFICES ASSUME NEW j \in 1 .. size
               PROVE  J[j][1] \in Used /\ J[j][2] \in Task /\ Back[J[j][2]] = {}
    BY <1>11
  <2>1. pos(j) \in 1 .. size /\ J[j][2] = R[pos(j)] /\ J[j][1] \in Used
    BY <1>12
  <2> QED
    BY <1>4, <2>1
<1>15. \A j, l \in DOMAIN J : J[j][2] = J[l][2] => j = l
  BY <1>5, <1>11, <1>12, <1>13
<1>16. Deal(J, Used)
  BY <1>11, <1>14, <1>15 DEF Deal
<1> QED
  BY <1>16 DEF J

-----------------------------------------------------------------------------
(***************************************************************************)
(* Types.                                                                  *)
(***************************************************************************)
LEMMA OpTypes ==
  /\ \A t \in Threads : IdleOp(t) \in Op
  /\ \A at \in {"incLoad", "incStore"}, q \in Threads, h \in Nat :
       \A k \in Task \cup {WORK_STEALING_INDEX} : PushOp(at, q, h, k) \in Op
  /\ \A at \in {"cas", "retry", "load"}, q \in Threads, end \in {HeadEnd, TailEnd} :
       \A h, l \in Nat : PopOp(at, q, end, h, l) \in Op
BY DEF IdleOp, PushOp, PopOp, Op, HeadEnd

\* No operation on the queues leaves the types.
LEMMA QueueTypes ==
  ASSUME QueueTypeOK, NEW t \in Threads
  PROVE  /\ \A q \in Threads : InitOne(q) => QueueTypeOK'
         /\ \A q \in Threads, k \in Task : PushHead(t, q, k) => QueueTypeOK'
         /\ \A q \in Threads, end \in {HeadEnd, TailEnd} :
              PopEmpty(t, q, end) \/ PopRead(t, q, end) => QueueTypeOK'
         /\ PopLoad(t) => QueueTypeOK'
         /\ (op[t].at = "cas" => op[t].tail < op[t].head) /\ QueueStep(t) => QueueTypeOK'
<1>0. /\ fTaskList \in [Threads -> [Slots -> Task \cup {NoSlot}]]
      /\ fHead \in [Threads -> Nat] /\ fTail \in [Threads -> Nat] /\ op \in [Threads -> Op]
  BY DEF QueueTypeOK
<1>1. /\ op[t].q \in Threads /\ op[t].head \in Nat /\ op[t].tail \in Nat
      /\ op[t].end \in {HeadEnd, TailEnd} /\ op[t].item \in Task \cup {WORK_STEALING_INDEX}
  BY <1>0 DEF Op
<1>2. ASSUME NEW q \in Threads, InitOne(q) PROVE QueueTypeOK'
  BY <1>0, <1>2 DEF InitOne, QueueTypeOK
<1>3. ASSUME NEW q \in Threads, NEW k \in Task, PushHead(t, q, k) PROVE QueueTypeOK'
  <2>1. PushOp("incLoad", q, 0, k) \in Op
    BY OpTypes
  <2>2. op' \in [Threads -> Op]
    BY <1>0, <1>3, <2>1 DEF PushHead
  <2>3. fTaskList' \in [Threads -> [Slots -> Task \cup {NoSlot}]]
    BY <1>0, <1>3 DEF PushHead
  <2> QED
    BY <1>0, <1>3, <2>2, <2>3 DEF PushHead, QueueTypeOK
<1>4. ASSUME NEW q \in Threads, NEW end \in {HeadEnd, TailEnd},
             PopEmpty(t, q, end) \/ PopRead(t, q, end)
      PROVE  QueueTypeOK'
  <2>1. IdleOp(t) \in Op /\ PopOp("cas", q, end, fHead[q], fTail[q]) \in Op
    BY <1>0, OpTypes
  <2> QED
    BY <1>0, <1>4, <2>1 DEF PopEmpty, PopRead, QueueTypeOK
<1>5. ASSUME PopLoad(t) PROVE QueueTypeOK'
  <2>1. IdleOp(t) \in Op
    BY OpTypes
  <2> QED
    BY <1>0, <1>5, <2>1 DEF PopLoad, QueueTypeOK
<1>6. ASSUME op[t].at = "cas" => op[t].tail < op[t].head, QueueStep(t) PROVE QueueTypeOK'
  <2>1. CASE IncHeadLoad(t)
    <3>1. PushOp("incStore", op[t].q, fHead[op[t].q], op[t].item) \in Op
      BY <1>0, <1>1, OpTypes
    <3> QED
      BY <1>0, <2>1, <3>1 DEF IncHeadLoad, QueueTypeOK
  <2>2. CASE IncHeadStore(t)
    <3>1. IdleOp(t) \in Op
      BY OpTypes
    <3> QED
      BY <1>0, <1>1, <2>2, <3>1 DEF IncHeadStore, QueueTypeOK
  <2>3. CASE PopCAS(t)
    <3>1. PopOp("load", op[t].q, op[t].end, op[t].head, op[t].tail) \in Op
      BY <1>1, OpTypes
    <3>2. op[t].head - 1 \in Nat /\ op[t].tail + 1 \in Nat
      BY <1>1, <1>6, <2>3 DEF PopCAS
    <3>3. fHead' \in [Threads -> Nat] /\ fTail' \in [Threads -> Nat]
      BY <1>0, <1>1, <2>3, <3>2 DEF PopCAS
    <3> QED
      BY <1>0, <2>3, <3>1, <3>3 DEF PopCAS, QueueTypeOK
  <2>4. CASE PopCASFails(t)
    <3>1. PopOp("retry", op[t].q, op[t].end, 0, 0) \in Op
      BY <1>1, OpTypes
    <3> QED
      BY <1>0, <2>4, <3>1 DEF PopCASFails, QueueTypeOK
  <2> QED
    BY <1>6, <2>1, <2>2, <2>3, <2>4 DEF QueueStep
<1> QED
  BY <1>2, <1>3, <1>4, <1>5, <1>6

\* A task is only loaded, or stored, while a vector is open.
LEMMA PoppedIsTask ==
  ASSUME Inv, NEW t \in Threads, op[t].at = "load"
  PROVE  Open /\ PoppedTask(t) \in Task
<1>1. Open
  BY DEF Inv, ClosedInv
<1> QED
  BY <1>1 DEF Inv, OpInv

\* The steps of the caller outside computeThread, and of the pool, keep the types.
LEMMA ComputeTypes ==
  ASSUME Inv,
         \/ \E n \in Counts : Compute(n)
         \/ ResetIndex \/ SignalAll
         \/ \E t \in Workers : Wake(t)
         \/ Delete \/ StopAll \/ Deleted
  PROVE  TypeOK'
<1>0. TypeOK /\ QueueTypeOK
  BY DEF Inv, TypeOK
<1>a. /\ fStaticNumThreads \in Nat /\ fStaticNumThreads >= 1
      /\ 0 \in 0 .. fStaticNumThreads /\ 1 \in 0 .. fStaticNumThreads
  BY ThreadNumbers
<1>b. MASTER_THREAD \in Threads /\ Workers \subseteq Threads
  BY Master
<1>c. i \in [Threads -> 0 .. fStaticNumThreads]
  BY <1>0 DEF TypeOK
<1>1. /\ MASTER_THREAD \in Threads /\ fStaticNumThreads \in Nat /\ fStaticNumThreads >= 1
      /\ i \in [Threads -> 0 .. fStaticNumThreads]
      /\ 0 \in 0 .. fStaticNumThreads /\ 1 \in 0 .. fStaticNumThreads
      /\ Workers \subseteq Threads
  BY <1>a, <1>b, <1>c
<1>2. CASE \E n \in Counts : Compute(n)
  <2> PICK n \in Counts : Compute(n)
    BY <1>2
  <2>1. n \in Nat /\ computes' \in 0 .. MaxComputes
    BY <1>0, Samples DEF Compute, TypeOK
  <2> QED
  BY <1>0, <1>1, <2>1
     DEF Compute, Goto, TypeOK, QueueTypeOK, queueVars, poolVars, taskVars, outputVars, loopVars
<1>3. CASE ResetIndex
  BY <1>0, <1>3, <1>1
     DEF ResetIndex, Goto, TypeOK, QueueTypeOK, queueVars, poolVars, taskVars, outputVars,
         loopVars, history
<1>4. CASE SignalAll
  <2>1. i[MASTER_THREAD] \in Nat /\ fDynamicNumThreads \in 1 .. fStaticNumThreads
    BY <1>0, <1>1 DEF TypeOK
  <2>2. i[MASTER_THREAD] + 1 < fDynamicNumThreads =>
          i[MASTER_THREAD] + 1 \in Workers /\ i[MASTER_THREAD] + 1 \in 0 .. fStaticNumThreads
    BY <2>1, <1>1, ThreadNumbers, Master, SMTT(30)
  <2>3. i' \in [Threads -> 0 .. fStaticNumThreads]
    BY <1>1, <1>4, <2>1, <2>2 DEF SignalAll
  <2>4. fSemaphore' \in [Workers -> Nat]
    <3>1. fSemaphore \in [Workers -> Nat]
      BY <1>0 DEF TypeOK
    <3> QED
      BY <1>4, <2>2, <3>1 DEF SignalAll
  <2> QED
    BY <1>0, <1>4, <2>3, <2>4, <1>1
       DEF SignalAll, Goto, TypeOK, QueueTypeOK, queueVars, callVars, taskVars, outputVars, history
<1>5. CASE \E t \in Workers : Wake(t)
  <2>1. fSemaphore' \in [Workers -> Nat]
    <3>1. fSemaphore \in [Workers -> Nat]
      BY <1>0 DEF TypeOK
    <3> QED
      BY <1>5, <3>1 DEF Wake
  <2> QED
    BY <1>0, <1>5, <2>1, <1>1, ZenonT(60)
       DEF Wake, Goto, TypeOK, QueueTypeOK, queueVars, callVars, taskVars, outputVars, loopVars,
           history
<1>6. CASE Delete
  BY <1>0, <1>6, <1>1
     DEF Delete, Goto, TypeOK, QueueTypeOK, queueVars, callVars, poolVars, taskVars, outputVars,
         history
<1>7. CASE StopAll
  <2>1. i[MASTER_THREAD] \in Nat
    BY <1>0, <1>1 DEF TypeOK
  <2>2. i' \in [Threads -> 0 .. fStaticNumThreads]
    BY <1>1, <1>7, <2>1 DEF StopAll
  <2> QED
    BY <1>0, <1>7, <2>2, <1>1
       DEF StopAll, Goto, TypeOK, QueueTypeOK, queueVars, callVars, poolVars, taskVars, outputVars,
           history
<1>8. CASE Deleted
  BY <1>0, <1>8
     DEF Deleted, TypeOK, QueueTypeOK, vars, queueVars, callVars, poolVars, locals, taskVars,
         outputVars, loopVars, history
<1> QED
  BY <1>2, <1>3, <1>4, <1>5, <1>6, <1>7, <1>8

\* The steps of a thread inside computeThread keep the types.
LEMMA RunTypes ==
  ASSUME Inv, NEW t \in Threads, Run(t)
  PROVE  TypeOK'
<1>0. TypeOK /\ QueueTypeOK
  BY DEF Inv, TypeOK
<1>f. fStaticNumThreads \in Nat /\ 0 \in 0 .. fStaticNumThreads
  BY ThreadNumbers
<1>e. /\ fStaticNumThreads \in Nat /\ 0 \in 0 .. fStaticNumThreads
      /\ i \in [Threads -> 0 .. fStaticNumThreads] /\ num \in [Threads -> 0 .. fStaticNumThreads]
  BY <1>0, <1>f DEF TypeOK
<1>a. /\ i[t] \in Nat /\ num[t] \in 0 .. fStaticNumThreads
      /\ fDynamicNumThreads \in 1 .. fStaticNumThreads
      /\ fIndex \in Nat /\ fFullcount \in Nat
      /\ fTaskGraph \in [Counted -> Int]
      /\ jobs[t] \in Seq(Threads \X Task)
  BY <1>0, <1>e DEF TypeOK
<1>b. TaskLocal(t) /\ OutputLocal(t) /\ LoopLocal(t) /\ OpLocal(t)
  BY DEF Inv, Locals
<1>c. /\ Task \subseteq Counted /\ LAST_TASK_INDEX \in Counted
      /\ LastStage \subseteq Task /\ \A k : Outputs(k) \subseteq Task
      /\ fStaticNumThreads \in Nat /\ Threads = 0 .. fStaticNumThreads - 1
  BY TaskNumbers, ThreadNumbers DEF LastStage, Outputs
<1>d. jobs[t] # << >> => /\ Head(jobs[t])[1] \in Threads /\ Head(jobs[t])[2] \in Task
                         /\ Tail(jobs[t]) \in Seq(Threads \X Task)
  BY <1>a, HeadTailProperties
<1> USE DEF Goto, Set, queueVars, callVars, poolVars, locals, taskVars, outputVars, loopVars,
            history
<1>1. CASE InitGraph(t)
  <2>1. fTaskGraph' \in [Counted -> Int]
    <3>1. \A k \in Counted : Inputs(k) \in Int
      BY InputsType
    <3> QED
      BY <1>a, <1>1, <3>1 DEF InitGraph, InitTasks
  <2> QED
    <3>1. num' \in [Threads -> 0 .. fStaticNumThreads]
      BY <1>a, <1>e, <1>1 DEF InitGraph
    <3> QED
      BY <1>0, <1>1, <2>1, <3>1 DEF InitGraph, TypeOK, QueueTypeOK
<1>2. CASE InitAll(t)
  <2>1. i[t] \in Threads /\ i[t] + 1 \in 0 .. fStaticNumThreads
    BY <1>a, <1>b, <1>c, <1>2 DEF InitAll, LoopLocal
  <2>2. QueueTypeOK'
    BY <1>0, <1>2, <2>1, QueueTypes DEF InitAll
  <2>3. InitTaskListOne(t) \in Seq(Threads \X Task)
    <3>1. InitTaskListOne(t) \in Seq({t} \X Task)
      BY DealOne DEF Deal
    <3>2. {t} \X Task \subseteq Threads \X Task
      OBVIOUS
    <3> QED
      BY <3>1, <3>2, SeqMonotonic
  <2>4. InitTaskListAll \in Seq(Threads \X Task)
    <3>1. InitTaskListAll \in Seq(Used \X Task)
      BY <1>a, DealAll DEF Deal
    <3>2. Used \subseteq Threads
      BY <1>a, <1>c DEF Used
    <3>3. Used \X Task \subseteq Threads \X Task
      BY <3>2
    <3> QED
      BY <3>1, <3>3, SeqMonotonic
  <2>5. jobs' \in [Threads -> Seq(Threads \X Task)]
    BY <1>0, <1>2, <2>3, <2>4 DEF InitAll, TypeOK
  <2>6. i' \in [Threads -> 0 .. fStaticNumThreads] /\ num' \in [Threads -> 0 .. fStaticNumThreads]
    BY <1>e, <1>2, <2>1 DEF InitAll, EndLoop
  <2>7. pc' = pc \/ pc' = [pc EXCEPT ![t] = "push"]
    BY <1>2 DEF InitAll
  <2> QED
    BY <1>0, <1>2, <2>2, <2>5, <2>6, <2>7 DEF InitAll, TypeOK
<1>3. CASE PushReady(t)
  <2>1. QueueTypeOK'
    BY <1>0, <1>3, <1>d, QueueTypes DEF PushReady
  <2> QED
    BY <1>0, <1>3, <1>d, <2>1 DEF PushReady, TypeOK
<1>4. CASE ReadyPushed(t)
  BY <1>0, <1>4 DEF ReadyPushed, TypeOK, QueueTypeOK
<1>5. CASE Dispatch(t)
  <2>1. Min(VecSize, fFullcount - fIndex) \in Nat
    BY <1>a, <1>5, Samples DEF Dispatch, Min
  <2>2. num' \in [Threads -> 0 .. fStaticNumThreads]
    BY <1>e, <1>5, <1>a DEF Dispatch
  <2>3. base' \in [Threads -> Nat] /\ count' \in [Threads -> Nat]
    BY <1>0, <1>5, <1>a, <2>1 DEF Dispatch, TypeOK
  <2> QED
    BY <1>0, <1>5, <2>2, <2>3 DEF Dispatch, TypeOK, QueueTypeOK
<1>6. CASE Return(t)
  <2>1. fDynamicNumThreads' \in 1 .. fStaticNumThreads
    BY <1>0, <1>6, <1>a, <1>c DEF Return, StopMeasure
  <2> QED
    BY <1>0, <1>6, <2>1 DEF Return, TypeOK, QueueTypeOK
<1>7. CASE StealEmpty(t)
  <2>1. i[t] \in Threads /\ i[t] + 1 \in 0 .. fStaticNumThreads
    BY <1>a, <1>b, <1>c, <1>7 DEF StealEmpty, LoopLocal
  <2>2. QueueTypeOK'
    BY <1>0, <1>7, <2>1, QueueTypes DEF StealEmpty
  <2>3. i' \in [Threads -> 0 .. fStaticNumThreads] /\ num' \in [Threads -> 0 .. fStaticNumThreads]
    BY <1>e, <1>7, <2>1 DEF StealEmpty, EndLoop
  <2>4. pc' = pc \/ pc' = [pc EXCEPT ![t] = "loop"]
    BY <1>7 DEF StealEmpty
  <2> QED
    BY <1>0, <1>7, <2>2, <2>3, <2>4 DEF StealEmpty, TypeOK
<1>8. CASE StealRead(t)
  <2>1. i[t] \in Threads
    BY <1>a, <1>b, <1>c, <1>8 DEF StealRead, LoopLocal
  <2>2. QueueTypeOK'
    BY <1>0, <1>8, <2>1, QueueTypes DEF StealRead
  <2> QED
    BY <1>0, <1>8, <2>2 DEF StealRead, TypeOK
<1>9. CASE PopHeadEmpty(t)
  <2>1. QueueTypeOK'
    BY <1>0, <1>9, QueueTypes DEF PopHeadEmpty
  <2> QED
    BY <1>0, <1>9, <2>1 DEF PopHeadEmpty, TypeOK
<1>10. CASE PopHeadRead(t)
  <2>1. QueueTypeOK'
    BY <1>0, <1>10, QueueTypes DEF PopHeadRead
  <2> QED
    BY <1>0, <1>10, <2>1 DEF PopHeadRead, TypeOK
<1>11. CASE Popped(t)
  <2>1. QueueTypeOK'
    BY <1>0, <1>11, QueueTypes DEF Popped
  <2>2. PoppedTask(t) \in Counted
    BY <1>11, <1>c, PoppedIsTask DEF Popped, PopLoad
  <2> QED
    <3>1. i' \in [Threads -> 0 .. fStaticNumThreads] /\ num' \in [Threads -> 0 .. fStaticNumThreads]
      BY <1>e, <1>11 DEF Popped, EndLoop
    <3> QED
      BY <1>0, <1>11, <2>1, <2>2, <3>1 DEF Popped, TypeOK
<1>12. CASE LastTask(t)
  <2>1. fIndex' \in Nat
    BY <1>a, <1>12, Samples DEF LastTask
  <2> QED
    BY <1>0, <1>12, <2>1 DEF LastTask, TypeOK, QueueTypeOK
<1>13. CASE NextVector(t)
  BY <1>0, <1>13 DEF NextVector, TypeOK, QueueTypeOK
<1>14. CASE EndOfTask(t)
  <2> DEFINE k == tasknum[t]
             outputs == IF k \in LastStage THEN {LAST_TASK_INDEX} ELSE Outputs(k)
  <2>1. outputs \subseteq Counted /\ (Cardinality(outputs) > 1 => outputs \subseteq Task)
    <3>1. Cardinality({LAST_TASK_INDEX}) = 1
      BY FS_Singleton
    <3> QED
      BY <1>c, <3>1
  <2>2. done' \in [Task -> Nat]
    <3>1. count[t] \in Nat /\ done \in [Task -> Nat]
      BY <1>0 DEF TypeOK
    <3>2. k \in Task
      BY <1>14, <1>b DEF EndOfTask, TaskLocal
    <3> QED
      BY <1>14, <3>1, <3>2 DEF EndOfTask
  <2>a. /\ tasknum \in [Threads -> Counted \cup {WORK_STEALING_INDEX}]
        /\ todo \in [Threads -> SUBSET Counted]
        /\ keep \in [Threads -> Task \cup {WORK_STEALING_INDEX}]
    BY <1>0 DEF TypeOK
  <2>b. \/ \E c \in outputs : Set(t, c) /\ UNCHANGED <<todo, keep>>
        \/ todo' = [todo EXCEPT ![t] = outputs] /\ UNCHANGED <<tasknum, keep>>
        \/ Set(t, WORK_STEALING_INDEX) /\ todo' = [todo EXCEPT ![t] = outputs] /\ UNCHANGED keep
        \/ /\ Cardinality(outputs) > 1
           /\ \E c \in outputs : /\ UNCHANGED tasknum
                                 /\ todo' = [todo EXCEPT ![t] = outputs \ {c}]
                                 /\ keep' = [keep EXCEPT ![t] = c]
    BY <1>14 DEF EndOfTask
  <2> HIDE DEF outputs
  <2>3. tasknum' \in [Threads -> Counted \cup {WORK_STEALING_INDEX}]
    BY <2>a, <2>b, <2>1
  <2>4. todo' \in [Threads -> SUBSET Counted]
    BY <2>a, <2>b, <2>1
  <2>5. keep' \in [Threads -> Task \cup {WORK_STEALING_INDEX}]
    BY <2>a, <2>b, <2>1
  <2>6. \E w \in {"loop", "one", "activate"} : pc' = [pc EXCEPT ![t] = w]
    BY <1>14 DEF EndOfTask
  <2>7. /\ base' = [base EXCEPT ![t] = 0] /\ count' = [count EXCEPT ![t] = 0]
        /\ UNCHANGED <<queueVars, fTaskGraph, callVars, poolVars, loopVars, computes, leftover>>
    BY <1>14 DEF EndOfTask
  <2> QED
    BY <1>0, <2>2, <2>3, <2>4, <2>5, <2>6, <2>7 DEF TypeOK, QueueTypeOK
<1>15. CASE ActivateOneOutputTask(t)
  <2> PICK c \in todo[t] : /\ fTaskGraph' = [fTaskGraph EXCEPT ![c] = @ - 1]
                           /\ IF DecIsZero(c)
                              THEN Set(t, c) /\ Goto(t, "loop")
                              ELSE UNCHANGED tasknum /\ Goto(t, "pop")
    BY <1>15 DEF ActivateOneOutputTask
  <2>1. c \in Counted
    BY <1>0 DEF TypeOK
  <2>2. fTaskGraph' \in [Counted -> Int]
    BY <1>a, <2>1
  <2>3. \E w \in {"loop", "pop"} : pc' = [pc EXCEPT ![t] = w]
    OBVIOUS
  <2>4. tasknum' \in [Threads -> Counted \cup {WORK_STEALING_INDEX}]
    BY <1>0, <2>1, ZenonT(60) DEF TypeOK
  <2> QED
    BY <1>0, <1>15, <2>2, <2>3, <2>4, ZenonT(60) DEF ActivateOneOutputTask, TypeOK, QueueTypeOK
<1>16. CASE PushOutput(t)
  <2> PICK c \in todo[t] : /\ PushHead(t, t, c)
                           /\ todo' = [todo EXCEPT ![t] = @ \ {c}]
    BY <1>16 DEF PushOutput
  <2>1. c \in Task
    BY <1>16, <1>b DEF PushOutput, OutputLocal
  <2>2. QueueTypeOK'
    BY <1>0, <2>1, QueueTypes
  <2>3. todo' \in [Threads -> SUBSET Counted]
    BY <1>0 DEF TypeOK
  <2> QED
    BY <1>0, <1>16, <2>2, <2>3 DEF PushOutput, TypeOK
<1>17. CASE ActivateOutputTask(t)
  <2> PICK c \in todo[t] :
         /\ fTaskGraph' = [fTaskGraph EXCEPT ![c] = @ - 1]
         /\ todo' = [todo EXCEPT ![t] = @ \ {c}]
         /\ IF ~ DecIsZero(c)
            THEN UNCHANGED <<tasknum, jobs>>
            ELSE IF keep[t] = WORK_STEALING_INDEX /\ tasknum[t] = WORK_STEALING_INDEX
            THEN Set(t, c) /\ UNCHANGED jobs
            ELSE jobs' = [jobs EXCEPT ![t] = << <<t, c>> >>] /\ UNCHANGED tasknum
    BY <1>17 DEF ActivateOutputTask
  <2>1. c \in Task /\ c \in Counted
    BY <1>17, <1>b, <1>c DEF ActivateOutputTask, OutputLocal
  <2>2. fTaskGraph' \in [Counted -> Int]
    BY <1>a, <2>1
  <2>3. todo' \in [Threads -> SUBSET Counted]
    BY <1>0 DEF TypeOK
  <2>4. tasknum' \in [Threads -> Counted \cup {WORK_STEALING_INDEX}]
    BY <1>0, <2>1 DEF TypeOK
  <2>5. jobs' \in [Threads -> Seq(Threads \X Task)]
    <3>1. << <<t, c>> >> \in Seq(Threads \X Task)
      BY <2>1
    <3> QED
      BY <1>0, <3>1 DEF TypeOK
  <2> QED
    BY <1>0, <1>17, <2>2, <2>3, <2>4, <2>5 DEF ActivateOutputTask, TypeOK, QueueTypeOK
<1>18. CASE PushActivated(t)
  <2>1. QueueTypeOK'
    BY <1>0, <1>18, <1>d, QueueTypes DEF PushActivated
  <2>2. jobs' \in [Threads -> Seq(Threads \X Task)]
    BY <1>0, <1>18 DEF PushActivated, TypeOK
  <2> QED
    BY <1>0, <1>18, <2>1, <2>2 DEF PushActivated, TypeOK
<1>19. CASE Activated(t)
  BY <1>0, <1>19, <1>c DEF Activated, TypeOK, QueueTypeOK
<1>20. CASE QueueOp(t)
  <2>1. QueueTypeOK'
    BY <1>0, <1>20, <1>b, QueueTypes DEF QueueOp, OpLocal
  <2> QED
    BY <1>0, <1>20, <2>1 DEF QueueOp, TypeOK
<1> QED
  BY <1>1, <1>2, <1>3, <1>4, <1>5, <1>6, <1>7, <1>8, <1>9, <1>10, <1>11, <1>12, <1>13, <1>14,
     <1>15, <1>16, <1>17, <1>18, <1>19, <1>20
  DEF Run

-----------------------------------------------------------------------------
(***************************************************************************)
(* Frames: what a step leaves alone.                                       *)
(***************************************************************************)
SameThread(u) ==
  /\ pc'[u] = pc[u] /\ tasknum'[u] = tasknum[u] /\ base'[u] = base[u] /\ count'[u] = count[u]
  /\ todo'[u] = todo[u] /\ keep'[u] = keep[u] /\ jobs'[u] = jobs[u]
  /\ i'[u] = i[u] /\ num'[u] = num[u] /\ op'[u] = op[u]

\* computeThread writes its own locals only.
LEMMA RunFrame ==
  ASSUME Inv, NEW t \in Threads, Run(t), NEW u \in Threads, u # t
  PROVE  SameThread(u)
<1>a. PICK S : pc \in [Threads -> S]
  BY DEF Inv, TypeOK
<1>0. /\ pc \in [Threads -> S] /\ op \in [Threads -> Op]
      /\ tasknum \in [Threads -> Counted \cup {WORK_STEALING_INDEX}]
      /\ base \in [Threads -> Nat] /\ count \in [Threads -> Nat]
      /\ todo \in [Threads -> SUBSET Counted]
      /\ keep \in [Threads -> Task \cup {WORK_STEALING_INDEX}]
      /\ jobs \in [Threads -> Seq(Threads \X Task)]
      /\ i \in [Threads -> 0 .. fStaticNumThreads] /\ num \in [Threads -> 0 .. fStaticNumThreads]
  BY <1>a DEF Inv, TypeOK, QueueTypeOK
<1> USE DEF SameThread, Goto, Set, EndLoop, queueVars, callVars, poolVars, locals, taskVars,
            outputVars, loopVars, history
<1>1. CASE InitGraph(t) \/ InitAll(t) \/ PushReady(t) \/ ReadyPushed(t)
  BY <1>0, <1>1 DEF InitGraph, InitAll, PushReady, ReadyPushed, InitOne, PushHead
<1>2. CASE Dispatch(t) \/ Return(t) \/ LastTask(t) \/ NextVector(t)
  BY <1>0, <1>2 DEF Dispatch, Return, LastTask, NextVector
<1>3. CASE StealEmpty(t) \/ StealRead(t) \/ PopHeadEmpty(t) \/ PopHeadRead(t) \/ Popped(t)
  BY <1>0, <1>3 DEF StealEmpty, StealRead, PopHeadEmpty, PopHeadRead, Popped, PopEmpty, PopRead,
                    PopLoad
<1>4. CASE EndOfTask(t)
  <2>1. /\ \E f : base' = [base EXCEPT ![t] = f]
        /\ \E f : count' = [count EXCEPT ![t] = f]
        /\ UNCHANGED <<queueVars, loopVars>>
        /\ \E f : pc' = [pc EXCEPT ![t] = f]
    BY <1>4 DEF EndOfTask
  <2>2. /\ tasknum' = tasknum \/ \E f : tasknum' = [tasknum EXCEPT ![t] = f]
        /\ todo' = todo \/ \E f : todo' = [todo EXCEPT ![t] = f]
        /\ keep' = keep \/ \E f : keep' = [keep EXCEPT ![t] = f]
    BY <1>4 DEF EndOfTask
  <2> QED
    BY <1>0, <2>1, <2>2
<1>5. CASE ActivateOneOutputTask(t) \/ PushOutput(t) \/ ActivateOutputTask(t) \/ PushActivated(t)
           \/ Activated(t)
  BY <1>0, <1>5 DEF ActivateOneOutputTask, PushOutput, ActivateOutputTask, PushActivated,
                    Activated, PushHead
<1>6. CASE QueueOp(t)
  BY <1>0, <1>6 DEF QueueOp, QueueStep, IncHeadLoad, IncHeadStore, PopCAS, PopCASFails
<1> QED
  BY <1>1, <1>2, <1>3, <1>4, <1>5, <1>6 DEF Run

\* What a step of computeThread does to the call.
LEMMA RunCall ==
  ASSUME Inv, NEW t \in Threads, Run(t)
  PROVE  /\ pc[t] \notin {"wait", "outside", "index", "signal", "stop", "stopped"}
         /\ fFullcount' = fFullcount /\ fSemaphore' = fSemaphore /\ computes' = computes
         /\ ~ LastTask(t) => fIndex' = fIndex
         /\ ~ Return(t) => fDynamicNumThreads' = fDynamicNumThreads
         /\ t # MASTER_THREAD => fDynamicNumThreads' = fDynamicNumThreads
         /\ ~ InitAll(t) /\ ~ (Return(t) /\ t = MASTER_THREAD) => leftover' = leftover
<1>0. OpLocal(t)
  BY DEF Inv, Locals
<1> USE DEF queueVars, callVars, poolVars, locals, taskVars, outputVars, loopVars, history
<1>1. CASE InitGraph(t) \/ InitAll(t) \/ PushReady(t) \/ ReadyPushed(t)
  BY <1>1 DEF InitGraph, InitAll, PushReady, ReadyPushed
<1>2. CASE Dispatch(t) \/ Return(t) \/ LastTask(t) \/ NextVector(t)
  BY <1>2 DEF Dispatch, Return, LastTask, NextVector
<1>3. CASE StealEmpty(t) \/ StealRead(t) \/ PopHeadEmpty(t) \/ PopHeadRead(t)
  BY <1>3 DEF StealEmpty, StealRead, PopHeadEmpty, PopHeadRead
<1>4. CASE EndOfTask(t)
  <2>1. /\ pc[t] = "run"
        /\ UNCHANGED <<queueVars, fTaskGraph, callVars, poolVars, loopVars, computes, leftover>>
    BY <1>4 DEF EndOfTask
  <2> QED
    BY <2>1
<1>5. CASE ActivateOneOutputTask(t) \/ PushOutput(t) \/ ActivateOutputTask(t) \/ PushActivated(t)
           \/ Activated(t)
  BY <1>5 DEF ActivateOneOutputTask, PushOutput, ActivateOutputTask, PushActivated, Activated
<1>6. CASE QueueOp(t)
  <2>1. op[t].at # "idle" /\ op[t].at \in {"incLoad", "incStore", "cas"}
    BY <1>6 DEF QueueOp, QueueStep, IncHeadLoad, IncHeadStore, PopCAS, PopCASFails
  <2>2. pc[t] \in {"push", "activate", "steal", "pop", "stopped"}
    BY <1>0, <2>1 DEF OpLocal
  <2>3. pc[t] # "stopped"
    BY DEF Run
  <2> QED
    BY <1>6, <2>2, <2>3 DEF QueueOp
<1>7. CASE Popped(t)
  <2>1. op[t].at = "load"
    BY <1>7 DEF Popped, PopLoad
  <2>2. pc[t] \in {"steal", "pop", "stopped"}
    BY <1>0, <2>1 DEF OpLocal
  <2>3. pc[t] # "stopped"
    BY DEF Run
  <2> QED
    BY <1>7, <2>2, <2>3 DEF Popped
<1> QED
  BY <1>1, <1>2, <1>3, <1>4, <1>5, <1>6, <1>7 DEF Run

-----------------------------------------------------------------------------
(***************************************************************************)
(* The phases.                                                             *)
(***************************************************************************)
\* While compute prepares its first vector nobody else runs.
LEMMA SetupAlone ==
  ASSUME Inv, Setup, NEW u \in Workers
  PROVE  /\ pc[u] = "wait" /\ fSemaphore[u] = 0 /\ ~ Run(u)
         /\ op[u].at = "idle" /\ jobs[u] = << >> /\ todo[u] = {} /\ keep[u] = WORK_STEALING_INDEX
<1>0. u \in Threads
  BY Master
<1>1. pc[u] = "wait" /\ fSemaphore[u] = 0
  BY DEF Inv, Pool
<1>2. ~ Run(u)
  BY <1>0, <1>1, RunCall
<1>3. OpLocal(u) /\ JobsLocal(u) /\ OutputLocal(u) /\ op[u] \in Op
  BY <1>0 DEF Inv, Locals, TypeOK, QueueTypeOK
<1>4. op[u].at = "idle"
  BY <1>1, <1>3 DEF OpLocal, Op
<1> QED
  BY <1>1, <1>2, <1>3, <1>4 DEF JobsLocal, OutputLocal

\* In a vector, a thread in computeThread owns one of the queues of the call.
LEMMA RunnerUsed ==
  ASSUME Inv, NEW t \in Threads, pc[t] \notin {"wait", "outside", "stop", "stopped"},
         fIndex < fFullcount \/ InCall
  PROVE  t \in Used
<1>1. InCall
  BY DEF Inv, Pool, TypeOK, InCall
<1>2. fDynamicNumThreads \in Nat /\ fDynamicNumThreads >= 1 /\ t \in Nat
  BY ThreadNumbers DEF Inv, TypeOK
<1>3. CASE t = MASTER_THREAD
  BY <1>2, <1>3, Master DEF Used
<1>4. CASE t # MASTER_THREAD
  <2>1. t < fDynamicNumThreads
    BY <1>1, <1>4, Master DEF Inv, Pool, Awake
  <2> QED
    BY <1>2, <2>1 DEF Used
<1> QED
  BY <1>3, <1>4

\* computeThread returns when the vector is closed.
LEMMA ReturnClosed ==
  ASSUME Inv, NEW t \in Threads, pc[t] = "loop", fIndex >= fFullcount
  PROVE  ~ Open /\ ~ Setup
<1>1. ~ Setup
  <2>1. CASE t = MASTER_THREAD
    BY <2>1 DEF Setup
  <2>2. CASE t # MASTER_THREAD
    BY <2>2, SetupAlone, Master
  <2> QED
    BY <2>1, <2>2
<1>2. fIndex \in Nat /\ fFullcount \in Nat
  BY DEF Inv, TypeOK
<1> QED
  BY <1>1, <1>2 DEF Open, Dealing, Setup

\* In a closed vector there is no push to come.
LEMMA ClosedJobs ==
  ASSUME Inv, ~ Open, NEW u \in Threads
  PROVE  /\ jobs[u] = << >> /\ todo[u] = {} /\ keep[u] = WORK_STEALING_INDEX
         /\ op[u].at \notin {"incLoad", "incStore", "load"}
         /\ pc[u] \notin {"run", "one", "last"}
         /\ pc[u] \in {"loop", "activate"} => tasknum[u] = WORK_STEALING_INDEX
<1>1. \A k \in Counted : ~ Has(u, k)
  BY DEF Inv, ClosedInv
<1>2. /\ jobs[u] \in Seq(Threads \X Task) /\ keep[u] \in Task \cup {WORK_STEALING_INDEX}
      /\ tasknum[u] \in Counted \cup {WORK_STEALING_INDEX}
  BY DEF Inv, TypeOK
<1>3. \A k \in Task : k \in Counted
  BY TaskNumbers
<1>4. TaskLocal(u) /\ OutputLocal(u)
  BY DEF Inv, Locals
<1>5. jobs[u] = << >>
  <2>1. CASE jobs[u] # << >>
    <3>1. 1 \in DOMAIN jobs[u] /\ jobs[u][1][2] \in Task
      BY <1>2, <2>1
    <3> QED
      BY <1>1, <1>3, <3>1 DEF Has, ToPush, AtJobs
  <2> QED
    BY <2>1
<1>6. todo[u] = {} /\ op[u].at \notin {"incLoad", "incStore", "load"}
  BY DEF Inv, ClosedInv
<1>7. keep[u] = WORK_STEALING_INDEX
  BY <1>1, <1>2, <1>3 DEF Has, AtKeep
<1>8. pc[u] \notin {"run", "last"}
  BY <1>1, <1>3, <1>4, TaskNumbers DEF Has, AtHand, TaskLocal
<1>9. pc[u] # "one"
  BY <1>4, <1>6 DEF OutputLocal
<1>10. pc[u] \in {"loop", "activate"} => tasknum[u] = WORK_STEALING_INDEX
  BY <1>1, <1>2, <1>7 DEF Has, AtHand
<1> QED
  BY <1>5, <1>6, <1>7, <1>8, <1>9, <1>10

-----------------------------------------------------------------------------
(***************************************************************************)
(* The locals of a thread.                                                 *)
(***************************************************************************)
ThreadOK(t) ==
  TaskLocal(t) /\ OutputLocal(t) /\ JobsLocal(t) /\ OpLocal(t) /\ LoopLocal(t) /\ Apart(t)

\* A thread that a step leaves alone stays as it should be.
LEMMA ThreadKept ==
  ASSUME Inv, NEW u \in Threads, SameThread(u), TypeOK',
         pc[u] = "steal" => (fIndex' < fFullcount' => /\ fIndex < fFullcount
                                                     /\ fDynamicNumThreads' = fDynamicNumThreads),
         pc[u] = "reset" => fDynamicNumThreads' = fDynamicNumThreads,
         jobs[u] # << >> => /\ fDynamicNumThreads' = fDynamicNumThreads
                            /\ u = MASTER_THREAD => (Dealing => Dealing')
  PROVE  ThreadOK(u)'
<1>0. ThreadOK(u)
  BY DEF Inv, Locals, ThreadOK
<1>1. TaskLocal(u)' /\ OutputLocal(u)'
  BY <1>0 DEF ThreadOK, TaskLocal, OutputLocal, SameThread
<1>2. JobsLocal(u)'
  <2>1. CASE jobs[u] = << >>
    BY <2>1 DEF JobsLocal, SameThread
  <2>2. CASE jobs[u] # << >>
    <3>1. \A j \in DOMAIN jobs[u] : Dealing' \/ jobs[u][j][1] = u
      <4>1. CASE u = MASTER_THREAD
        BY <1>0, <2>2, <4>1 DEF ThreadOK, JobsLocal
      <4>2. CASE u # MASTER_THREAD
        <5>1. ~ Setup
          BY <2>2, <4>2, SetupAlone, Master
        <5> QED
          BY <1>0, <5>1 DEF ThreadOK, JobsLocal, Setup, Dealing
      <4> QED
        BY <4>1, <4>2
    <3>2. Used' = Used
      BY <2>2 DEF Used
    <3> QED
      BY <1>0, <3>1, <3>2 DEF ThreadOK, JobsLocal, SameThread
  <2> QED
    BY <2>1, <2>2
<1>3. OpLocal(u)'
  BY <1>0 DEF ThreadOK, OpLocal, SameThread
<1>4. LoopLocal(u)'
  BY <1>0 DEF ThreadOK, LoopLocal, SameThread
<1>5. Apart(u)'
  <2>1. \A k \in Counted : /\ AtPush(u, k)' = AtPush(u, k) /\ AtHand(u, k)' = AtHand(u, k)
                           /\ AtKeep(u, k)' = AtKeep(u, k) /\ AtTodo(u, k)' = AtTodo(u, k)
                           /\ AtJobs(u, k)' = AtJobs(u, k)
    BY DEF AtPush, AtHand, AtKeep, AtTodo, AtJobs, SameThread
  <2> QED
    BY <1>0, <2>1 DEF ThreadOK, Apart
<1> QED
  BY <1>1, <1>2, <1>3, <1>4, <1>5 DEF ThreadOK

\* computeThread leaves the others as they should be.
LEMMA OthersKept ==
  ASSUME Inv, NEW t \in Threads, Run(t), NEW u \in Threads, u # t
  PROVE  ThreadOK(u)'
<1>1. SameThread(u) /\ TypeOK'
  BY RunFrame, RunTypes
<1>2. fIndex \in Nat /\ VecSize \in Nat /\ fFullcount \in Nat
  BY Samples DEF Inv, TypeOK
<1>3. /\ fFullcount' = fFullcount
      /\ ~ LastTask(t) => fIndex' = fIndex
      /\ ~ Return(t) => fDynamicNumThreads' = fDynamicNumThreads
  BY RunCall
<1>4. fIndex' < fFullcount' => fIndex < fFullcount
  BY <1>2, <1>3 DEF LastTask
<1>5. Return(t) => ~ Open /\ ~ Setup /\ ~ (fIndex < fFullcount)
  BY <1>2, ReturnClosed DEF Return
<1>6. pc[u] = "reset" => ~ Return(t)
  <2>1. pc[u] = "reset" /\ ~ Setup => fIndex < fFullcount
    BY DEF Inv, Locals, TaskLocal, Pool, Setup
  <2> QED
    BY <1>5, <2>1
<1>7. jobs[u] # << >> => ~ Return(t)
  BY <1>5, ClosedJobs
<1>8. u = MASTER_THREAD => (Dealing => Dealing')
  BY <1>1 DEF Dealing, SameThread
<1> QED
  BY <1>1, <1>3, <1>4, <1>5, <1>6, <1>7, <1>8, ThreadKept

\* What the program counter of t says of its locals, after a step of t.
LEMMA SelfTypes ==
  ASSUME Inv, NEW t \in Threads
  PROVE  /\ \E S : pc \in [Threads -> S]
         /\ op \in [Threads -> Op] /\ op[t] \in Op
         /\ tasknum \in [Threads -> Counted \cup {WORK_STEALING_INDEX}]
         /\ base \in [Threads -> Nat] /\ count \in [Threads -> Nat]
         /\ todo \in [Threads -> SUBSET Counted]
         /\ keep \in [Threads -> Task \cup {WORK_STEALING_INDEX}]
         /\ jobs \in [Threads -> Seq(Threads \X Task)]
         /\ \E I : i \in [Threads -> I] /\ num \in [Threads -> I]
         /\ i[t] \in Nat /\ num[t] \in Nat
         /\ fDynamicNumThreads \in Nat /\ fDynamicNumThreads >= 1
         /\ fIndex \in Nat /\ fFullcount \in Nat
<1>1. fStaticNumThreads \in Nat
  BY ThreadNumbers
<1>2. /\ i \in [Threads -> 0 .. fStaticNumThreads] /\ num \in [Threads -> 0 .. fStaticNumThreads]
      /\ \E S : pc \in [Threads -> S]
      /\ fDynamicNumThreads \in 1 .. fStaticNumThreads
  BY DEF Inv, TypeOK
<1>3. /\ i[t] \in Nat /\ num[t] \in Nat
      /\ fDynamicNumThreads \in Nat /\ fDynamicNumThreads >= 1
      /\ \E I : i \in [Threads -> I] /\ num \in [Threads -> I]
  BY <1>1, <1>2
<1> QED
  BY <1>2, <1>3 DEF Inv, TypeOK, QueueTypeOK

\* The locals of a thread after a step that neither ends nor activates a task.
LEMMA SelfSimple ==
  ASSUME Inv, NEW t \in Threads, Run(t),
         \/ InitGraph(t) \/ ReadyPushed(t) \/ Dispatch(t) \/ Return(t)
         \/ LastTask(t) \/ NextVector(t) \/ StealEmpty(t) \/ StealRead(t)
         \/ PopHeadEmpty(t) \/ PopHeadRead(t) \/ Popped(t) \/ Activated(t)
         \/ QueueOp(t)
  PROVE  ThreadOK(t)'
<1>a. PICK S : pc \in [Threads -> S]
  BY SelfTypes
<1>b. PICK I : i \in [Threads -> I] /\ num \in [Threads -> I]
  BY SelfTypes
<1>0. /\ op \in [Threads -> Op] /\ op[t] \in Op
      /\ tasknum \in [Threads -> Counted \cup {WORK_STEALING_INDEX}]
      /\ todo \in [Threads -> SUBSET Counted]
      /\ keep \in [Threads -> Task \cup {WORK_STEALING_INDEX}]
      /\ jobs \in [Threads -> Seq(Threads \X Task)]
      /\ i[t] \in Nat /\ num[t] \in Nat
      /\ fDynamicNumThreads \in Nat /\ fDynamicNumThreads >= 1
      /\ fIndex \in Nat /\ fFullcount \in Nat
  BY SelfTypes
<1>1. TaskLocal(t) /\ OutputLocal(t) /\ JobsLocal(t) /\ OpLocal(t) /\ LoopLocal(t) /\ Apart(t)
  BY DEF Inv, Locals
<1>2. /\ LAST_TASK_INDEX \notin Task /\ WORK_STEALING_INDEX \notin Task
      /\ WORK_STEALING_INDEX # LAST_TASK_INDEX /\ WORK_STEALING_INDEX \notin Counted
      /\ \A k : k \in Counted <=> k \in Task \/ k = LAST_TASK_INDEX
  BY TaskNumbers
<1>3. MASTER_THREAD \in Threads /\ (t \in Workers <=> t # MASTER_THREAD)
  BY Master
<1> USE DEF Goto, Set, queueVars, callVars, poolVars, locals, taskVars, outputVars, loopVars,
            history
<1>4. TaskLocal(t)'
  <2>1. CASE InitGraph(t) \/ ReadyPushed(t) \/ Dispatch(t) \/ Return(t)
    BY <1>a, <1>0, <1>1, <1>2, <1>3, <2>1
       DEF TaskLocal, InitGraph, ReadyPushed, Dispatch, Return
  <2>2. CASE LastTask(t) \/ NextVector(t) \/ Activated(t)
    BY <1>a, <1>0, <1>1, <1>2, <1>3, <2>2
       DEF TaskLocal, LastTask, NextVector, Activated
  <2>3. CASE StealEmpty(t) \/ StealRead(t) \/ PopHeadEmpty(t) \/ PopHeadRead(t) \/ Popped(t)
    BY <1>a, <1>0, <1>1, <1>2, <1>3, <2>3
       DEF TaskLocal, StealEmpty, StealRead, PopHeadEmpty, PopHeadRead, Popped
  <2>4. CASE QueueOp(t)
    BY <1>1, <2>4 DEF TaskLocal, QueueOp
  <2> QED
    BY <2>1, <2>2, <2>3, <2>4
<1>5. OutputLocal(t)' /\ jobs' = jobs /\ todo' = todo
  <2>1. CASE InitGraph(t) \/ ReadyPushed(t) \/ Dispatch(t) \/ Return(t)
    BY <1>a, <1>0, <1>1, <1>2, <2>1
       DEF OutputLocal, InitGraph, ReadyPushed, Dispatch, Return
  <2>2. CASE LastTask(t) \/ NextVector(t)
    BY <1>a, <1>0, <1>1, <1>2, <2>2
       DEF OutputLocal, LastTask, NextVector
  <2>5. CASE Activated(t)
    BY <1>a, <1>0, <1>1, <1>2, <2>5
       DEF OutputLocal, Activated
  <2>3. CASE StealEmpty(t) \/ StealRead(t) \/ PopHeadEmpty(t) \/ PopHeadRead(t) \/ Popped(t)
    <3>1. /\ pc[t] \in {"steal", "pop"} /\ UNCHANGED <<todo, keep, jobs>>
          /\ pc'[t] \in {"steal", "pop", "loop"}
      <4>1. pc[t] \in {"steal", "pop"}
        BY <1>1, <2>3 DEF StealEmpty, StealRead, PopHeadEmpty, PopHeadRead, Popped, PopLoad,
                          OpLocal, Run
      <4> QED
        BY <1>a, <4>1, <2>3 DEF StealEmpty, StealRead, PopHeadEmpty, PopHeadRead, Popped
    <3> QED
      BY <1>1, <3>1 DEF OutputLocal
  <2>4. CASE QueueOp(t)
    BY <1>1, <2>4 DEF OutputLocal, QueueOp
  <2> QED
    BY <2>1, <2>2, <2>3, <2>4, <2>5
<1>6. OpLocal(t)'
  <2>1. CASE InitGraph(t) \/ Dispatch(t) \/ Return(t) \/ LastTask(t) \/ NextVector(t)
             \/ ReadyPushed(t) \/ Activated(t)
    BY <1>a, <1>0, <1>1, <2>1
       DEF OpLocal, InitGraph, ReadyPushed, Dispatch, Return, Ready, Activated, LastTask, NextVector,
           Op
  <2>2. CASE StealEmpty(t) \/ PopHeadEmpty(t) \/ Popped(t)
    BY <1>a, <1>b, <1>0, <1>1, <2>2
       DEF OpLocal, StealEmpty, PopHeadEmpty, Popped, PopEmpty, PopLoad, IdleOp
  <2>3. CASE StealRead(t) \/ PopHeadRead(t)
    <3>1. \A q \in Threads : fHead[q] \in Nat /\ fTail[q] \in Nat /\ fTail[q] <= fHead[q]
      BY DEF Inv, TypeOK, QueueTypeOK, WordInv
    <3>2. pc[t] = "steal" => i[t] \in Threads
      <4>1. num[t] \in 0 .. fStaticNumThreads
        BY DEF Inv, TypeOK
      <4> QED
        BY <1>0, <1>1, <4>1, ThreadNumbers DEF LoopLocal
    <3> QED
      BY <1>a, <1>b, <1>0, <1>1, <2>3, <3>1, <3>2, SMTT(30)
         DEF OpLocal, StealRead, PopHeadRead, PopRead, PopOp
  <2>4. CASE QueueOp(t)
    BY <1>0, <1>1, <2>4
       DEF OpLocal, QueueOp, QueueStep, IncHeadLoad, IncHeadStore, PopCAS, PopCASFails, PushOp, PopOp,
           IdleOp
  <2> QED
    BY <2>1, <2>2, <2>3, <2>4
<1>7. LoopLocal(t)'
  <2>1. CASE InitGraph(t) \/ ReadyPushed(t)
    BY <1>a, <1>b, <1>0, <1>1, <2>1 DEF LoopLocal, InitGraph, ReadyPushed
  <2>2. CASE Dispatch(t) \/ Return(t)
    BY <1>a, <1>b, <1>0, <1>1, <2>2 DEF LoopLocal, Dispatch, Return
  <2>3. CASE LastTask(t) \/ NextVector(t) \/ Activated(t)
    BY <1>a, <1>b, <1>0, <1>1, <2>3 DEF LoopLocal, LastTask, NextVector, Activated
  <2>4. CASE StealEmpty(t) \/ Popped(t)
    BY <1>a, <1>b, <1>0, <1>1, <2>4 DEF LoopLocal, StealEmpty, Popped, EndLoop
  <2>5. CASE StealRead(t) \/ PopHeadEmpty(t) \/ PopHeadRead(t) \/ QueueOp(t)
    BY <1>a, <1>b, <1>0, <1>1, <2>5 DEF LoopLocal, StealRead, PopHeadEmpty, PopHeadRead, QueueOp
  <2> QED
    BY <2>1, <2>2, <2>3, <2>4, <2>5
<1>8. JobsLocal(t)'
  <2>1. CASE jobs[t] = << >>
    BY <1>5, <2>1 DEF JobsLocal
  <2>2. CASE jobs[t] # << >>
    <3>1. pc[t] \in {"push", "activate"}
      BY <1>1, <2>2 DEF JobsLocal
    <3>2. QueueOp(t)
      <4>1. ~ Popped(t)
        BY <1>1, <3>1 DEF Popped, PopLoad, OpLocal
      <4> QED
        BY <2>2, <3>1, <4>1
         DEF InitGraph, ReadyPushed, Dispatch, Return, LastTask, NextVector, StealEmpty, StealRead,
             PopHeadEmpty, PopHeadRead, Activated
    <3> QED
      BY <1>1, <3>2 DEF JobsLocal, QueueOp, Used, Dealing
  <2> QED
    BY <2>1, <2>2
<1>9. Apart(t)'
  <2>1. CASE QueueOp(t)
    <3>1. \A k \in Counted : AtPush(t, k)' => AtPush(t, k)
      BY <1>0, <2>1 DEF AtPush, QueueOp, QueueStep, IncHeadLoad, IncHeadStore, PopCAS, PopCASFails,
                         PushOp, PopOp, IdleOp
    <3>2. \A k \in Counted : /\ AtHand(t, k)' = AtHand(t, k) /\ AtKeep(t, k)' = AtKeep(t, k)
                             /\ AtTodo(t, k)' = AtTodo(t, k) /\ AtJobs(t, k)' = AtJobs(t, k)
      BY <2>1 DEF QueueOp, AtHand, AtKeep, AtTodo, AtJobs
    <3> QED
      BY <1>1, <3>1, <3>2 DEF Apart
  <2>2. CASE ~ QueueOp(t)
    <3>1. jobs[t] = << >> /\ todo[t] = {}
      <4>1. CASE pc[t] \in {"push", "activate"}
        <5>1. ~ Popped(t)
          BY <1>1, <4>1 DEF Popped, PopLoad, OpLocal
        <5> QED
          BY <1>1, <2>2, <4>1, <5>1
            DEF InitGraph, ReadyPushed, Dispatch, Return, LastTask, NextVector, StealEmpty, StealRead,
                PopHeadEmpty, PopHeadRead, Activated, OutputLocal
      <4>2. CASE pc[t] \notin {"push", "activate"}
        <5>1. pc[t] # "one"
          BY <1>1, <2>2, <4>2
              DEF InitGraph, ReadyPushed, Dispatch, Return, LastTask, NextVector, StealEmpty,
                  StealRead, PopHeadEmpty, PopHeadRead, Activated, Popped, PopLoad, OpLocal
        <5> QED
          BY <1>1, <4>2, <5>1 DEF JobsLocal, OutputLocal
      <4> QED
        BY <4>1, <4>2
    <3>2. op'[t].at \notin {"incLoad", "incStore"}
      <4>1. CASE InitGraph(t) \/ Dispatch(t) \/ Return(t) \/ LastTask(t) \/ NextVector(t)
                 \/ ReadyPushed(t) \/ Activated(t)
        BY <1>0, <1>1, <4>1
           DEF OpLocal, InitGraph, ReadyPushed, Dispatch, Return, Ready, Activated, LastTask,
               NextVector, Op
      <4>2. CASE StealEmpty(t) \/ StealRead(t) \/ PopHeadEmpty(t) \/ PopHeadRead(t) \/ Popped(t)
        BY <1>0, <4>2
           DEF StealEmpty, StealRead, PopHeadEmpty, PopHeadRead, Popped, PopEmpty, PopRead, PopLoad,
               IdleOp, PopOp
      <4> QED
        BY <2>2, <4>1, <4>2
    <3> QED
      BY <1>5, <3>1, <3>2 DEF Apart, AtPush, AtJobs, AtTodo
  <2> QED
    BY <2>1, <2>2
<1> QED
  BY <1>4, <1>5, <1>6, <1>7, <1>8, <1>9 DEF ThreadOK

(***************************************************************************)
(* The outputs of a task, and what the end of its body does with them.     *)
(***************************************************************************)
Succs(k) == {c \in Counted : k \in Preds(c)}

\* What a task activates: the last task from the last stage, its outputs otherwise.
LEMMA SuccsFacts ==
  ASSUME NEW k \in Task
  PROVE  /\ Succs(k) = IF k \in LastStage THEN {LAST_TASK_INDEX} ELSE Outputs(k)
         /\ k \notin Succs(k) /\ k \in Counted
         /\ \A c \in Succs(k) : Inputs(c) \in Nat /\ Inputs(c) >= 1
         /\ \A c \in Succs(k) : Inputs(c) = 1 => Preds(c) = {k}
<1>1. Succs(k) = IF k \in LastStage THEN {LAST_TASK_INDEX} ELSE Outputs(k)
  BY TaskNumbers DEF Succs, Preds, LastStage, Outputs
<1>2. k \notin Succs(k) /\ k \in Counted
  BY ReadyInputs, TaskNumbers DEF Succs
<1>3. ASSUME NEW c \in Succs(k)
      PROVE  Inputs(c) \in Nat /\ Inputs(c) >= 1 /\ (Inputs(c) = 1 => Preds(c) = {k})
  <2>1. c \in Counted /\ k \in Preds(c)
    BY DEF Succs
  <2>2. IsFiniteSet(Preds(c)) /\ Inputs(c) = Cardinality(Preds(c)) /\ Inputs(c) \in Nat
    BY <2>1, InputsType
  <2>3. Inputs(c) # 0
    BY <2>1, <2>2, FS_EmptySet
  <2>4. Inputs(c) = 1 => \E x : Preds(c) = {x}
    BY <2>2, FS_Singleton
  <2> QED
    BY <2>1, <2>2, <2>3, <2>4
<1> QED
  BY <1>1, <1>2, <1>3

\* What the end of a task does, by the shape of the graph below it
\* (generateDAGLoopWSSAux3 chooses the case).
LEMMA EndEffect ==
  ASSUME Inv, NEW t \in Threads, EndOfTask(t)
  PROVE  LET k == tasknum[t] IN
         /\ k \in Task /\ pc[t] = "run"
         /\ done' = [done EXCEPT ![k] = @ + count[t]]
         /\ base' = [base EXCEPT ![t] = 0] /\ count' = [count EXCEPT ![t] = 0]
         /\ UNCHANGED <<queueVars, fTaskGraph, callVars, poolVars, loopVars, computes>>
         /\ \/ \E c \in Succs(k) :
                 /\ Inputs(c) = 1 /\ Succs(k) = {c}
                 /\ Set(t, c) /\ Goto(t, "loop") /\ UNCHANGED <<todo, keep>>
            \/ \E c \in Succs(k) :
                 /\ Inputs(c) > 1 /\ Succs(k) = {c}
                 /\ todo' = [todo EXCEPT ![t] = {c}]
                 /\ Goto(t, "one") /\ UNCHANGED <<tasknum, keep>>
            \/ /\ Succs(k) \subseteq Task /\ \A c \in Succs(k) : Inputs(c) > 1
               /\ Set(t, WORK_STEALING_INDEX) /\ todo' = [todo EXCEPT ![t] = Succs(k)]
               /\ Goto(t, "activate") /\ UNCHANGED keep
            \/ \E c \in Succs(k) :
                 /\ Succs(k) \subseteq Task /\ Inputs(c) = 1
                 /\ todo' = [todo EXCEPT ![t] = Succs(k) \ {c}]
                 /\ keep' = [keep EXCEPT ![t] = c]
                 /\ Goto(t, "activate") /\ UNCHANGED tasknum
<1> DEFINE k == tasknum[t]
           direct == {c \in Succs(k) : Inputs(c) = 1}
<1>1. pc[t] = "run"
  BY DEF EndOfTask
<1>2. k \in Task
  BY <1>1 DEF Inv, Locals, TaskLocal
<1>3. Succs(k) = IF k \in LastStage THEN {LAST_TASK_INDEX} ELSE Outputs(k)
  BY <1>2, SuccsFacts
<1>4. /\ done' = [done EXCEPT ![k] = @ + count[t]]
      /\ base' = [base EXCEPT ![t] = 0] /\ count' = [count EXCEPT ![t] = 0]
      /\ UNCHANGED <<queueVars, fTaskGraph, callVars, poolVars, loopVars, computes>>
  BY DEF EndOfTask
<1>5. \/ /\ Cardinality(Succs(k)) = 1 /\ direct = Succs(k)
         /\ \E c \in Succs(k) : Set(t, c)
         /\ Goto(t, "loop") /\ UNCHANGED <<todo, keep>>
      \/ /\ Cardinality(Succs(k)) = 1 /\ direct = {}
         /\ todo' = [todo EXCEPT ![t] = Succs(k)]
         /\ Goto(t, "one") /\ UNCHANGED <<tasknum, keep>>
      \/ /\ Cardinality(Succs(k)) > 1 /\ direct = {}
         /\ Set(t, WORK_STEALING_INDEX)
         /\ todo' = [todo EXCEPT ![t] = Succs(k)]
         /\ UNCHANGED keep /\ Goto(t, "activate")
      \/ /\ Cardinality(Succs(k)) > 1
         /\ \E c \in direct : /\ UNCHANGED tasknum
                              /\ todo' = [todo EXCEPT ![t] = Succs(k) \ {c}]
                              /\ keep' = [keep EXCEPT ![t] = c]
         /\ Goto(t, "activate")
  <2>1. direct = {c \in (IF k \in LastStage THEN {LAST_TASK_INDEX} ELSE Outputs(k)) : Inputs(c) = 1}
    BY <1>3
  <2> HIDE DEF direct
  <2> QED
    BY <1>3, <2>1 DEF EndOfTask
<1>6. /\ IsFiniteSet(Succs(k)) /\ (Cardinality(Succs(k)) = 1 => \E x : Succs(k) = {x})
      /\ (Cardinality(Succs(k)) > 1 => Succs(k) \subseteq Task)
  <2>1. IsFiniteSet(Outputs(k)) /\ Outputs(k) \subseteq Task
    <3>1. Outputs(k) \subseteq Task
      BY DEF Outputs
    <3> QED
      BY <3>1, FS_Subset, WorkStealingAssumption
  <2>2. IsFiniteSet({LAST_TASK_INDEX}) /\ Cardinality({LAST_TASK_INDEX}) = 1
    BY FS_Singleton
  <2>3. IsFiniteSet(Succs(k))
    BY <1>3, <2>1, <2>2
  <2>4. Cardinality(Succs(k)) = 1 => \E x : Succs(k) = {x}
    BY <2>3, FS_Singleton
  <2>5. Cardinality(Succs(k)) > 1 => Succs(k) \subseteq Task
    BY <1>3, <2>1, <2>2
  <2> QED
    BY <2>3, <2>4, <2>5
<1>7. \A c \in Succs(k) : Inputs(c) # 1 => Inputs(c) > 1
  BY <1>2, SuccsFacts
<1> HIDE DEF k
<1>8. \/ \E c \in Succs(k) :
           /\ Inputs(c) = 1 /\ Succs(k) = {c}
           /\ Set(t, c) /\ Goto(t, "loop") /\ UNCHANGED <<todo, keep>>
      \/ \E c \in Succs(k) :
           /\ Inputs(c) > 1 /\ Succs(k) = {c}
           /\ todo' = [todo EXCEPT ![t] = {c}]
           /\ Goto(t, "one") /\ UNCHANGED <<tasknum, keep>>
      \/ /\ Succs(k) \subseteq Task /\ \A c \in Succs(k) : Inputs(c) > 1
         /\ Set(t, WORK_STEALING_INDEX) /\ todo' = [todo EXCEPT ![t] = Succs(k)]
         /\ Goto(t, "activate") /\ UNCHANGED keep
      \/ \E c \in Succs(k) :
           /\ Succs(k) \subseteq Task /\ Inputs(c) = 1
           /\ todo' = [todo EXCEPT ![t] = Succs(k) \ {c}]
           /\ keep' = [keep EXCEPT ![t] = c]
           /\ Goto(t, "activate") /\ UNCHANGED tasknum
  BY <1>5, <1>6, <1>7, Zenon
<1> QED
  BY <1>1, <1>2, <1>4, <1>8 DEF k

\* An output that a thread has still to activate: nobody has it.
LEMMA TodoFacts ==
  ASSUME Inv, NEW t \in Threads, NEW c \in todo[t]
  PROVE  /\ Open /\ c \in Counted /\ t \in Used /\ fIndex < fFullcount
         /\ Inputs(c) > 1 => /\ ~ Released(c) /\ ~ Ended(c)
                             /\ \A u \in Threads : ~ Has(u, c)
<1>1. Open
  BY ClosedJobs
<1>2. c \in Counted
  BY DEF Inv, TypeOK
<1>3. pc[t] \in {"one", "activate"}
  BY DEF Inv, Locals, OutputLocal
<1>4. ~ Setup
  <2>1. CASE t = MASTER_THREAD
    BY <1>3, <2>1 DEF Setup
  <2>2. CASE t # MASTER_THREAD
    BY <2>2, <1>3, SetupAlone, Master
  <2> QED
    BY <2>1, <2>2
<1>5. fIndex < fFullcount
  BY <1>1, <1>4 DEF Open, Setup, Dealing
<1>6. t \in Used
  BY <1>3, <1>5, RunnerUsed
<1>7. Inputs(c) > 1 => ~ Released(c)
  BY DEF Released, Activators
<1>8. /\ \A k \in Task : Ended(k) => Released(k)
      /\ \A u \in Threads, k \in Counted : Has(u, k) => Released(k)
  BY <1>1 DEF Inv, ReleaseInv
<1> QED
  BY <1>1, <1>2, <1>5, <1>6, <1>7, <1>8 DEF Ended

\* The locals of a thread after a step that ends a task or activates its outputs.
LEMMA SelfOutputs ==
  ASSUME Inv, NEW t \in Threads, Run(t),
         \/ EndOfTask(t) \/ ActivateOneOutputTask(t) \/ PushOutput(t) \/ ActivateOutputTask(t)
         \/ PushActivated(t)
  PROVE  ThreadOK(t)'
<1>a. PICK S : pc \in [Threads -> S]
  BY SelfTypes
<1>0. /\ op \in [Threads -> Op] /\ op[t] \in Op
      /\ tasknum \in [Threads -> Counted \cup {WORK_STEALING_INDEX}]
      /\ todo \in [Threads -> SUBSET Counted]
      /\ keep \in [Threads -> Task \cup {WORK_STEALING_INDEX}]
      /\ jobs \in [Threads -> Seq(Threads \X Task)]
      /\ i[t] \in Nat /\ num[t] \in Nat
  BY SelfTypes
<1>1. TaskLocal(t) /\ OutputLocal(t) /\ JobsLocal(t) /\ OpLocal(t) /\ LoopLocal(t) /\ Apart(t)
  BY DEF Inv, Locals
<1>2. /\ LAST_TASK_INDEX \notin Task /\ WORK_STEALING_INDEX \notin Task
      /\ WORK_STEALING_INDEX # LAST_TASK_INDEX /\ WORK_STEALING_INDEX \notin Counted
      /\ \A k : k \in Counted <=> k \in Task \/ k = LAST_TASK_INDEX
  BY TaskNumbers
<1> USE DEF Goto, Set, queueVars, callVars, poolVars, locals, taskVars, outputVars, loopVars,
            history
<1>3. CASE EndOfTask(t)
  <2> DEFINE k == tasknum[t]
  <2>0. /\ k \in Task /\ pc[t] = "run"
        /\ \A c \in Succs(k) : Inputs(c) \in Nat /\ Inputs(c) >= 1 /\ c \in Counted
    <3>1. k \in Task /\ pc[t] = "run"
      BY <1>3, EndEffect
    <3> QED
      BY <3>1, SuccsFacts DEF Succs
  <2>1. /\ UNCHANGED <<op, jobs, i, num, fIndex, fFullcount, fDynamicNumThreads>>
        /\ \/ \E c \in Succs(k) :
                 /\ Inputs(c) = 1 /\ Succs(k) = {c}
                 /\ Set(t, c) /\ Goto(t, "loop") /\ UNCHANGED <<todo, keep>>
           \/ \E c \in Succs(k) :
                 /\ Inputs(c) > 1 /\ Succs(k) = {c}
                 /\ todo' = [todo EXCEPT ![t] = {c}]
                 /\ Goto(t, "one") /\ UNCHANGED <<tasknum, keep>>
           \/ /\ Succs(k) \subseteq Task /\ \A c \in Succs(k) : Inputs(c) > 1
              /\ Set(t, WORK_STEALING_INDEX) /\ todo' = [todo EXCEPT ![t] = Succs(k)]
              /\ Goto(t, "activate") /\ UNCHANGED keep
           \/ \E c \in Succs(k) :
                 /\ Succs(k) \subseteq Task /\ Inputs(c) = 1
                 /\ todo' = [todo EXCEPT ![t] = Succs(k) \ {c}]
                 /\ keep' = [keep EXCEPT ![t] = c]
                 /\ Goto(t, "activate") /\ UNCHANGED tasknum
    BY <1>3, EndEffect
  <2>2. jobs[t] = << >> /\ op[t].at = "idle" /\ todo[t] = {} /\ keep[t] = WORK_STEALING_INDEX
        /\ i[t] = 0
    BY <1>0, <1>1, <2>0 DEF JobsLocal, OpLocal, OutputLocal, LoopLocal, Op
  <2>3. TaskLocal(t)'
    BY <1>a, <1>0, <2>1 DEF TaskLocal
  <2>4. OutputLocal(t)'
    <3>1. CASE \E c \in Succs(k) : Set(t, c) /\ Goto(t, "loop") /\ UNCHANGED <<todo, keep>>
      BY <1>a, <1>0, <2>2, <3>1 DEF OutputLocal
    <3>2. CASE \E c \in Succs(k) :
                 /\ Inputs(c) > 1 /\ Succs(k) = {c}
                 /\ todo' = [todo EXCEPT ![t] = {c}]
                 /\ Goto(t, "one") /\ UNCHANGED <<tasknum, keep>>
      BY <1>a, <1>0, <2>0, <2>2, <3>2 DEF OutputLocal
    <3>3. CASE /\ Succs(k) \subseteq Task /\ \A c \in Succs(k) : Inputs(c) > 1
               /\ Set(t, WORK_STEALING_INDEX) /\ todo' = [todo EXCEPT ![t] = Succs(k)]
               /\ Goto(t, "activate") /\ UNCHANGED keep
      BY <1>a, <1>0, <2>0, <2>2, <3>3 DEF OutputLocal
    <3>4. CASE \E c \in Succs(k) :
                 /\ Succs(k) \subseteq Task /\ Inputs(c) = 1
                 /\ todo' = [todo EXCEPT ![t] = Succs(k) \ {c}]
                 /\ keep' = [keep EXCEPT ![t] = c]
                 /\ Goto(t, "activate") /\ UNCHANGED tasknum
      BY <1>a, <1>0, <1>2, <2>0, <2>2, <3>4 DEF OutputLocal
    <3> QED
      BY <2>1, <3>1, <3>2, <3>3, <3>4
  <2>5. JobsLocal(t)' /\ OpLocal(t)' /\ LoopLocal(t)'
    BY <1>a, <2>1, <2>2 DEF JobsLocal, OpLocal, LoopLocal
  <2>6. Apart(t)'
    <3>1. \A c \in Counted : ~ AtPush(t, c)' /\ ~ AtJobs(t, c)'
      BY <2>1, <2>2 DEF AtPush, AtJobs
    <3>2. \A c \in Counted : AtTodo(t, c)' => ~ AtHand(t, c)' /\ ~ AtKeep(t, c)'
      <4> SUFFICES ASSUME NEW c \in Counted, c \in todo'[t], Inputs(c) = 1
                   PROVE  ~ AtHand(t, c)' /\ ~ AtKeep(t, c)'
        BY DEF AtTodo
      <4>1. \E d \in Succs(k) :
                 /\ todo' = [todo EXCEPT ![t] = Succs(k) \ {d}]
                 /\ keep' = [keep EXCEPT ![t] = d]
                 /\ Goto(t, "activate") /\ UNCHANGED tasknum
        BY <1>0, <2>1, <2>2
      <4> QED
        BY <1>a, <1>0, <1>2, <4>1, <2>0 DEF AtHand, AtKeep
    <3> QED
      BY <3>1, <3>2 DEF Apart
  <2> QED
    BY <2>3, <2>4, <2>5, <2>6 DEF ThreadOK
<1>4. CASE ActivateOneOutputTask(t)
  <2>1. pc[t] = "one" /\ jobs[t] = << >> /\ op[t].at = "idle" /\ keep[t] = WORK_STEALING_INDEX
        /\ i[t] = 0
    BY <1>0, <1>1, <1>4 DEF ActivateOneOutputTask, JobsLocal, OpLocal, OutputLocal, LoopLocal, Op
  <2>2. /\ UNCHANGED <<op, jobs, i, num, keep, fIndex, fFullcount, fDynamicNumThreads>>
        /\ todo' = [todo EXCEPT ![t] = {}]
        /\ pc' = [pc EXCEPT ![t] = "pop"] \/ pc' = [pc EXCEPT ![t] = "loop"]
    BY <1>4 DEF ActivateOneOutputTask
  <2>3. TaskLocal(t)' /\ OutputLocal(t)'
    BY <1>a, <1>0, <2>1, <2>2 DEF TaskLocal, OutputLocal
  <2>4. JobsLocal(t)' /\ OpLocal(t)' /\ LoopLocal(t)'
    BY <1>a, <2>1, <2>2 DEF JobsLocal, OpLocal, LoopLocal
  <2>5. Apart(t)'
    BY <1>a, <1>0, <2>1, <2>2 DEF Apart, AtPush, AtJobs, AtTodo
  <2> QED
    BY <2>3, <2>4, <2>5 DEF ThreadOK
<1>5. CASE PushOutput(t)
  <2> PICK c \in todo[t] : /\ Inputs(c) = 1
                           /\ PushHead(t, t, c)
                           /\ todo' = [todo EXCEPT ![t] = @ \ {c}]
    BY <1>5 DEF PushOutput
  <2>1. /\ pc[t] = "activate" /\ op[t].at = "idle"
        /\ UNCHANGED <<pc, tasknum, keep, jobs, i, num, fIndex, fFullcount, fDynamicNumThreads>>
        /\ op' = [op EXCEPT ![t] = PushOp("incLoad", t, 0, c)]
    BY <1>5 DEF PushOutput, Ready, PushHead
  <2>2. TaskLocal(t)' /\ OutputLocal(t)' /\ LoopLocal(t)'
    BY <1>0, <1>1, <2>1 DEF TaskLocal, OutputLocal, LoopLocal
  <2>3. JobsLocal(t)'
    BY <1>1, <2>1 DEF JobsLocal, Used, Dealing
  <2>4. OpLocal(t)'
    BY <1>0, <2>1 DEF OpLocal, PushOp
  <2>5. Apart(t)'
    <3>1. \A k \in Counted : /\ AtHand(t, k)' = AtHand(t, k) /\ AtKeep(t, k)' = AtKeep(t, k)
                             /\ AtJobs(t, k)' = AtJobs(t, k)
                             /\ AtTodo(t, k)' <=> AtTodo(t, k) /\ k # c
                             /\ AtPush(t, k)' <=> k = c
      BY <1>0, <2>1 DEF AtHand, AtKeep, AtJobs, AtTodo, AtPush, PushOp
    <3>2. AtTodo(t, c)
      BY DEF AtTodo
    <3> QED
      BY <1>1, <3>1, <3>2 DEF Apart
  <2> QED
    BY <2>2, <2>3, <2>4, <2>5 DEF ThreadOK
<1>6. CASE ActivateOutputTask(t)
  <2> PICK c \in todo[t] :
         /\ Inputs(c) > 1
         /\ todo' = [todo EXCEPT ![t] = @ \ {c}]
         /\ IF ~ DecIsZero(c)
            THEN UNCHANGED <<tasknum, jobs>>
            ELSE IF keep[t] = WORK_STEALING_INDEX /\ tasknum[t] = WORK_STEALING_INDEX
            THEN Set(t, c) /\ UNCHANGED jobs
            ELSE jobs' = [jobs EXCEPT ![t] = << <<t, c>> >>] /\ UNCHANGED tasknum
    BY <1>6 DEF ActivateOutputTask
  <2>1. /\ pc[t] = "activate" /\ op[t].at = "idle" /\ jobs[t] = << >>
        /\ UNCHANGED <<op, pc, keep, i, num, fIndex, fFullcount, fDynamicNumThreads>>
    BY <1>6 DEF ActivateOutputTask, Ready
  <2>2. t \in Used /\ c \in Task /\ ~ Has(t, c) /\ c \in Counted
    BY <1>1, <2>1, TodoFacts DEF OutputLocal
  <2>3. TaskLocal(t)' /\ LoopLocal(t)' /\ OpLocal(t)'
    BY <1>0, <1>1, <2>1 DEF TaskLocal, LoopLocal, OpLocal
  <2>4. OutputLocal(t)'
    BY <1>0, <1>1, <2>1, <2>2 DEF OutputLocal
  <2>5. jobs'[t] = << >> \/ jobs'[t] = << <<t, c>> >>
    BY <1>0, <2>1
  <2>6. JobsLocal(t)'
    <3>1. DOMAIN << <<t, c>> >> = {1} /\ Len(<< <<t, c>> >>) = 1
      OBVIOUS
    <3>2. Used' = Used
      BY <2>1 DEF Used
    <3>3. CASE jobs'[t] = << >>
      BY <3>3 DEF JobsLocal
    <3>4. CASE jobs'[t] = << <<t, c>> >>
      BY <2>1, <2>2, <3>1, <3>2, <3>4 DEF JobsLocal
    <3> QED
      BY <2>5, <3>3, <3>4
  <2>7. Apart(t)'
    <3>1. \A k \in Counted : /\ ~ AtPush(t, k)'
                             /\ AtKeep(t, k)' = AtKeep(t, k)
                             /\ AtTodo(t, k)' = AtTodo(t, k)
                             /\ AtJobs(t, k)' => k = c
                             /\ AtHand(t, k)' => AtHand(t, k) \/ (k = c /\ jobs'[t] = << >>)
      BY <1>0, <2>1, <2>5 DEF AtPush, AtKeep, AtTodo, AtJobs, AtHand
    <3>2. \A k \in Counted : AtJobs(t, k)' => jobs'[t] # << >>
      BY DEF AtJobs
    <3>3. ~ AtHand(t, c) /\ ~ AtKeep(t, c) /\ ~ AtTodo(t, c)
      BY <2>2 DEF Has, ToPush
    <3> QED
      BY <1>1, <3>1, <3>2, <3>3 DEF Apart
  <2> QED
    BY <2>3, <2>4, <2>6, <2>7 DEF ThreadOK
<1>7. CASE PushActivated(t)
  <2> DEFINE c == jobs[t][1][2]
  <2>1. /\ pc[t] = "activate" /\ op[t].at = "idle" /\ jobs[t] # << >>
        /\ UNCHANGED <<pc, tasknum, keep, todo, i, num, fIndex, fFullcount, fDynamicNumThreads>>
        /\ \E q : op' = [op EXCEPT ![t] = PushOp("incLoad", q, 0, Head(jobs[t])[2])]
        /\ jobs' = [jobs EXCEPT ![t] = << >>]
    BY <1>7 DEF PushActivated, Ready, PushHead
  <2>2. /\ 1 \in DOMAIN jobs[t] /\ Head(jobs[t]) = jobs[t][1] /\ jobs[t][1][2] \in Task
        /\ jobs'[t] = << >>
    BY <1>0, <2>1
  <2>3. TaskLocal(t)' /\ OutputLocal(t)' /\ LoopLocal(t)'
    BY <1>1, <2>1 DEF TaskLocal, OutputLocal, LoopLocal
  <2>4. JobsLocal(t)'
    BY <2>2 DEF JobsLocal
  <2>5. OpLocal(t)'
    BY <1>0, <2>1 DEF OpLocal, PushOp
  <2>6. Apart(t)'
    <3>1. \A k \in Counted : /\ AtHand(t, k)' = AtHand(t, k) /\ AtKeep(t, k)' = AtKeep(t, k)
                             /\ ~ AtJobs(t, k)' /\ AtTodo(t, k)' = AtTodo(t, k)
                             /\ AtPush(t, k)' => k = c
      BY <1>0, <2>1, <2>2 DEF AtHand, AtKeep, AtJobs, AtTodo, AtPush, PushOp
    <3>2. AtJobs(t, c) /\ c \in Counted
      BY <1>2, <2>2 DEF AtJobs
    <3> QED
      BY <1>1, <3>1, <3>2 DEF Apart
  <2> QED
    BY <2>3, <2>4, <2>5, <2>6 DEF ThreadOK
<1> QED
  BY <1>3, <1>4, <1>5, <1>6, <1>7

\* The locals of a thread after a step of InitAll or of the pushes of the ready tasks.
LEMMA SelfDeal ==
  ASSUME Inv, NEW t \in Threads, Run(t), InitAll(t) \/ PushReady(t)
  PROVE  ThreadOK(t)'
<1>a. PICK S : pc \in [Threads -> S]
  BY SelfTypes
<1>b. PICK I : i \in [Threads -> I] /\ num \in [Threads -> I]
  BY SelfTypes
<1>0. /\ op \in [Threads -> Op] /\ op[t] \in Op
      /\ jobs \in [Threads -> Seq(Threads \X Task)] /\ jobs[t] \in Seq(Threads \X Task)
      /\ i[t] \in Nat /\ num[t] \in Nat
      /\ keep[t] \in Task \cup {WORK_STEALING_INDEX}
  BY SelfTypes
<1>1. TaskLocal(t) /\ OutputLocal(t) /\ JobsLocal(t) /\ OpLocal(t) /\ LoopLocal(t) /\ Apart(t)
  BY DEF Inv, Locals
<1> USE DEF Goto, Set, queueVars, callVars, poolVars, locals, taskVars, outputVars, loopVars,
            history
<1>2. CASE InitAll(t)
  <2>1. /\ pc[t] = "reset" /\ op[t].at = "idle" /\ todo[t] = {} /\ jobs[t] = << >>
        /\ keep[t] = WORK_STEALING_INDEX
    BY <1>0, <1>1, <1>2 DEF InitAll, OutputLocal, JobsLocal, OpLocal, Op
  <2>2. UNCHANGED <<op, tasknum, todo, keep, fIndex, fFullcount, fDynamicNumThreads>>
    BY <1>2 DEF InitAll, InitOne
  <2>3. CASE i[t] + 1 < num[t]
    <3>1. i' = [i EXCEPT ![t] = @ + 1] /\ UNCHANGED <<pc, num, jobs>>
      BY <1>2, <2>3 DEF InitAll
    <3>2. TaskLocal(t)' /\ OutputLocal(t)' /\ JobsLocal(t)' /\ OpLocal(t)'
      BY <1>1, <2>1, <2>2, <3>1 DEF TaskLocal, OutputLocal, JobsLocal, OpLocal
    <3>3. LoopLocal(t)'
      BY <1>b, <1>0, <1>1, <2>1, <2>2, <2>3, <3>1 DEF LoopLocal
    <3>4. Apart(t)'
      BY <2>1, <2>2, <3>1 DEF Apart, AtPush, AtJobs, AtTodo
    <3> QED
      BY <3>2, <3>3, <3>4 DEF ThreadOK
  <2>4. CASE ~ (i[t] + 1 < num[t])
    <3>1. /\ pc' = [pc EXCEPT ![t] = "push"] /\ i' = [i EXCEPT ![t] = 0]
          /\ num' = [num EXCEPT ![t] = 0]
          /\ jobs' = [jobs EXCEPT ![t] = IF tasknum[t] = LAST_TASK_INDEX
                                         THEN InitTaskListOne(t) ELSE InitTaskListAll]
      BY <1>2, <2>4 DEF InitAll, EndLoop
    <3>2. TaskLocal(t)' /\ OutputLocal(t)' /\ OpLocal(t)' /\ LoopLocal(t)'
      BY <1>a, <1>b, <1>1, <2>1, <2>2, <3>1 DEF TaskLocal, OutputLocal, OpLocal, LoopLocal
    <3>3. JobsLocal(t)'
      <4>1. Used' = Used /\ pc'[t] = "push"
        BY <1>a, <2>2, <3>1 DEF Used
      <4>2. CASE tasknum[t] = LAST_TASK_INDEX
        <5>1. jobs'[t] = InitTaskListOne(t)
          BY <1>0, <3>1, <4>2
        <5>2. fIndex < fFullcount
          BY <2>1, <4>2 DEF Inv, Pool
        <5>3. t \in Used
          BY <2>1, <5>2, RunnerUsed
        <5>4. /\ \A j \in DOMAIN jobs'[t] : jobs'[t][j][1] = t
              /\ \A j, l \in DOMAIN jobs'[t] : jobs'[t][j][2] = jobs'[t][l][2] => j = l
          BY <5>1, DealOne DEF Deal
        <5> QED
          BY <4>1, <5>3, <5>4 DEF JobsLocal
      <4>3. CASE tasknum[t] # LAST_TASK_INDEX
        <5>1. jobs'[t] = InitTaskListAll
          BY <1>0, <3>1, <4>3
        <5>2. t = MASTER_THREAD /\ tasknum[t] = WORK_STEALING_INDEX
          BY <1>1, <2>1, <4>3 DEF TaskLocal
        <5>3. Dealing'
          BY <2>2, <4>1, <5>2 DEF Dealing
        <5>4. fDynamicNumThreads \in 1 .. fStaticNumThreads
          BY DEF Inv, TypeOK
        <5>5. /\ \A j \in DOMAIN jobs'[t] : jobs'[t][j][1] \in Used
              /\ \A j, l \in DOMAIN jobs'[t] : jobs'[t][j][2] = jobs'[t][l][2] => j = l
          BY <5>1, <5>4, DealAll DEF Deal
        <5> QED
          BY <4>1, <5>3, <5>5 DEF JobsLocal
      <4> QED
        BY <4>2, <4>3
    <3>4. Apart(t)'
      <4>1. \A k \in Counted : ~ AtPush(t, k)' /\ ~ AtTodo(t, k)' /\ ~ AtHand(t, k)'
        BY <1>a, <2>1, <2>2, <3>1 DEF AtPush, AtTodo, AtHand
      <4>2. \A k \in Counted : ~ AtKeep(t, k)'
        BY <2>1, <2>2, TaskNumbers DEF AtKeep
      <4> QED
        BY <4>1, <4>2 DEF Apart
    <3> QED
      BY <3>2, <3>3, <3>4 DEF ThreadOK
  <2> QED
    BY <2>3, <2>4
<1>3. CASE PushReady(t)
  <2> PICK c : c = jobs[t][1][2]
    OBVIOUS
  <2>1. /\ pc[t] = "push" /\ op[t].at = "idle" /\ jobs[t] # << >> /\ todo[t] = {}
        /\ UNCHANGED <<pc, tasknum, keep, todo, i, num, fIndex, fFullcount, fDynamicNumThreads>>
        /\ \E q : op' = [op EXCEPT ![t] = PushOp("incLoad", q, 0, Head(jobs[t])[2])]
        /\ jobs' = [jobs EXCEPT ![t] = Tail(@)]
    BY <1>1, <1>3 DEF PushReady, Ready, PushHead, OutputLocal
  <2>2. /\ 1 \in DOMAIN jobs[t] /\ Head(jobs[t]) = jobs[t][1] /\ jobs[t][1][2] \in Task
        /\ jobs'[t] = Tail(jobs[t])
        /\ \A j \in DOMAIN Tail(jobs[t]) : /\ j \in Nat /\ j >= 1 /\ j + 1 \in DOMAIN jobs[t]
                                           /\ Tail(jobs[t])[j] = jobs[t][j + 1]
    BY <1>0, <2>1
  <2>3. TaskLocal(t)' /\ OutputLocal(t)' /\ LoopLocal(t)'
    BY <1>1, <2>1 DEF TaskLocal, OutputLocal, LoopLocal
  <2>4. JobsLocal(t)'
    <3>1. Used' = Used /\ Dealing' = Dealing
      BY <2>1 DEF Used, Dealing
    <3>2. \A j \in DOMAIN jobs'[t] :
            /\ j \in Nat /\ j + 1 \in DOMAIN jobs[t] /\ jobs'[t][j] = jobs[t][j + 1]
      BY <2>2
    <3>3. /\ \A j \in DOMAIN jobs[t] : jobs[t][j][1] \in Used /\ (Dealing \/ jobs[t][j][1] = t)
          /\ \A j, l \in DOMAIN jobs[t] : jobs[t][j][2] = jobs[t][l][2] => j = l
      BY <1>1 DEF JobsLocal
    <3>4. \A j \in DOMAIN jobs'[t] : jobs'[t][j][1] \in Used /\ (Dealing \/ jobs'[t][j][1] = t)
      BY <3>2, <3>3
    <3>5. \A j, l \in DOMAIN jobs'[t] : jobs'[t][j][2] = jobs'[t][l][2] => j = l
      <4> SUFFICES ASSUME NEW j \in DOMAIN jobs'[t], NEW l \in DOMAIN jobs'[t],
                          jobs'[t][j][2] = jobs'[t][l][2]
                   PROVE  j = l
        OBVIOUS
      <4>1. j \in Nat /\ l \in Nat /\ j + 1 = l + 1
        BY <3>2, <3>3
      <4> QED
        BY <4>1
    <3> QED
      BY <2>1, <3>1, <3>4, <3>5 DEF JobsLocal
  <2>5. OpLocal(t)'
    BY <1>0, <2>1 DEF OpLocal, PushOp
  <2>6. Apart(t)'
    <3>1. \A k \in Counted : /\ ~ AtHand(t, k)' /\ ~ AtTodo(t, k)'
                             /\ AtPush(t, k)' => k = c
      BY <1>0, <2>1, <2>2 DEF AtHand, AtTodo, AtPush, PushOp
    <3>2. \A k \in Counted : ~ AtKeep(t, k)'
      BY <1>1, <2>1, TaskNumbers DEF AtKeep, OutputLocal
    <3>3. ~ AtJobs(t, c)'
      <4>1. \A j \in DOMAIN jobs[t] : jobs[t][j][2] = c => j = 1
        BY <1>1, <2>2 DEF JobsLocal
      <4>2. \A j \in DOMAIN jobs'[t] :
              /\ j \in Nat /\ j >= 1 /\ j + 1 \in DOMAIN jobs[t] /\ jobs'[t][j] = jobs[t][j + 1]
        BY <2>2
      <4>3. \A j \in DOMAIN jobs'[t] : j + 1 # 1
        BY <4>2
      <4> QED
        BY <4>1, <4>2, <4>3 DEF AtJobs
    <3> QED
      BY <3>1, <3>2, <3>3 DEF Apart
  <2> QED
    BY <2>3, <2>4, <2>5, <2>6 DEF ThreadOK
<1> QED
  BY <1>2, <1>3

\* Between calls the vector is closed.
LEMMA OutsideClosed ==
  ASSUME Inv, ~ InCall
  PROVE  ~ Open /\ ~ Setup /\ ~ (fIndex < fFullcount)
<1>1. fIndex \in Nat /\ fFullcount \in Nat /\ fIndex >= fFullcount
  BY DEF Inv, Pool, TypeOK
<1> QED
  BY <1>1 DEF InCall, Open, Setup, Dealing

\* The steps of compute outside computeThread and of the life of the pool.
LEMMA ComputeLocals ==
  ASSUME Inv, ~ BackToBack,
         \/ \E n \in Counts : Compute(n)
         \/ ResetIndex \/ SignalAll
         \/ \E t \in Workers : Wake(t)
         \/ Delete \/ StopAll
  PROVE  Locals'
<1> DEFINE M == MASTER_THREAD
<1>a. PICK S : pc \in [Threads -> S]
  BY Master, SelfTypes
<1>b. PICK I : i \in [Threads -> I] /\ num \in [Threads -> I]
  BY Master, SelfTypes
<1>0. M \in Threads /\ \A u : u \in Workers <=> u \in Threads /\ u # M
  BY Master
<1>1. TypeOK'
  BY ComputeTypes
<1>2. \A u \in Threads : /\ TaskLocal(u) /\ OutputLocal(u) /\ JobsLocal(u) /\ OpLocal(u)
                         /\ LoopLocal(u) /\ Apart(u) /\ op[u] \in Op /\ i[u] \in Nat
  BY SelfTypes DEF Inv, Locals
<1> USE DEF Goto, queueVars, callVars, poolVars, taskVars, outputVars, loopVars, history
<1> SUFFICES ASSUME NEW u \in Threads PROVE ThreadOK(u)'
  BY DEF Locals, ThreadOK
<1>k. ASSUME SameThread(u), fDynamicNumThreads' = fDynamicNumThreads,
             pc[u] = "steal" => (fIndex' < fFullcount' => fIndex < fFullcount),
             u = M => (Dealing => Dealing')
      PROVE  ThreadOK(u)'
  BY <1>1, <1>k, ThreadKept
\* A thread with nothing in its hands that moves to a place of the same kind.
<1>m. ASSUME /\ pc[u] \in {"outside", "index", "signal", "wait", "loop", "stop"}
             /\ pc'[u] \in {"outside", "index", "signal", "init", "loop", "stop", "stopped"}
             /\ tasknum'[u] = tasknum[u] /\ todo'[u] = todo[u] /\ keep'[u] = keep[u]
             /\ jobs'[u] = jobs[u] /\ op'[u] = op[u]
             /\ tasknum[u] = WORK_STEALING_INDEX
             /\ pc'[u] \in {"outside", "index", "signal", "init", "stop"} => u = M
             /\ pc'[u] \in {"outside", "index", "init", "loop"} => i'[u] = 0
             /\ pc'[u] = "stop" => i'[u] >= 1
      PROVE  ThreadOK(u)'
  <2>1. jobs[u] = << >> /\ todo[u] = {} /\ keep[u] = WORK_STEALING_INDEX /\ op[u].at = "idle"
    BY <1>2, <1>m DEF JobsLocal, OutputLocal, OpLocal, Op
  <2>2. TaskLocal(u)' /\ OutputLocal(u)' /\ JobsLocal(u)' /\ OpLocal(u)' /\ LoopLocal(u)'
    BY <1>m, <2>1 DEF TaskLocal, OutputLocal, JobsLocal, OpLocal, LoopLocal
  <2>3. Apart(u)'
    BY <1>m, <2>1 DEF Apart, AtPush, AtJobs, AtTodo
  <2> QED
    BY <2>2, <2>3 DEF ThreadOK
<1>3. CASE \E n \in Counts : Compute(n)
  <2>1. /\ pc[M] = "outside" /\ pc' = [pc EXCEPT ![M] = "index"]
        /\ \A w \in Workers : pc[w] = "wait"
        /\ UNCHANGED <<op, i, num, jobs, todo, keep, tasknum, base, count, fDynamicNumThreads>>
    BY <1>3 DEF Compute
  <2>2. CASE u = M
    <3>1. tasknum[u] = WORK_STEALING_INDEX /\ i[u] = 0 /\ pc[u] = "outside" /\ pc'[u] = "index"
      BY <1>a, <1>2, <2>1, <2>2 DEF TaskLocal, LoopLocal
    <3>2. i'[u] = 0 /\ tasknum'[u] = tasknum[u] /\ todo'[u] = todo[u] /\ keep'[u] = keep[u]
          /\ jobs'[u] = jobs[u] /\ op'[u] = op[u]
      BY <2>1, <3>1
    <3> QED
      BY <1>m, <2>2, <3>1, <3>2
  <2>3. CASE u # M
    BY <1>a, <1>0, <1>k, <2>1, <2>3 DEF SameThread
  <2> QED
    BY <2>2, <2>3
<1>4. CASE ResetIndex
  <2>1. pc[M] = "index" /\ pc' = [pc EXCEPT ![M] = "init"] /\ Setup
        /\ UNCHANGED <<op, i, num, jobs, todo, keep, tasknum, base, count, fDynamicNumThreads>>
    BY <1>4 DEF ResetIndex, Setup
  <2>2. CASE u = M
    BY <1>a, <1>2, <1>m, <2>1, <2>2 DEF TaskLocal, LoopLocal
  <2>3. CASE u # M
    <3>1. pc[u] = "wait"
      BY <1>0, <2>1, <2>3, SetupAlone
    <3> QED
      BY <1>a, <1>0, <1>k, <2>1, <2>3, <3>1 DEF SameThread
  <2> QED
    BY <2>2, <2>3
<1>5. CASE SignalAll
  <2>1. /\ pc[M] = "signal"
        /\ \/ UNCHANGED pc /\ i' = [i EXCEPT ![M] = @ + 1]
           \/ pc' = [pc EXCEPT ![M] = "loop"] /\ i' = [i EXCEPT ![M] = 0]
        /\ UNCHANGED <<op, num, jobs, todo, keep, tasknum, base, count, fDynamicNumThreads,
                       fIndex, fFullcount>>
    BY <1>5 DEF SignalAll
  <2>2. CASE u = M
    BY <1>a, <1>b, <1>2, <1>m, <2>1, <2>2 DEF TaskLocal
  <2>3. CASE u # M
    BY <1>a, <1>b, <1>0, <1>k, <2>1, <2>3 DEF SameThread
  <2> QED
    BY <2>2, <2>3
<1>6. CASE \E t \in Workers : Wake(t)
  <2> PICK t \in Workers : Wake(t)
    BY <1>6
  <2>1. /\ pc[t] = "wait" /\ pc' = [pc EXCEPT ![t] = "loop"] /\ t \in Threads
        /\ UNCHANGED <<op, i, num, jobs, todo, keep, tasknum, base, count, fDynamicNumThreads,
                       fIndex, fFullcount>>
    BY <1>0 DEF Wake
  <2>2. CASE u = t
    BY <1>a, <1>2, <1>m, <2>1, <2>2 DEF TaskLocal, LoopLocal
  <2>3. CASE u # t
    <3>1. SameThread(u) /\ (u = M => Dealing' = Dealing)
      BY <1>a, <2>1, <2>3 DEF SameThread, Dealing
    <3> QED
      BY <1>k, <2>1, <3>1
  <2> QED
    BY <2>2, <2>3
<1>7. CASE Delete
  <2>1. /\ pc[M] = "outside" /\ pc' = [pc EXCEPT ![M] = "stop"] /\ i' = [i EXCEPT ![M] = 1]
        /\ UNCHANGED <<op, num, jobs, todo, keep, tasknum, base, count, fDynamicNumThreads,
                       fIndex, fFullcount>>
    BY <1>7 DEF Delete
  <2>2. CASE u = M
    BY <1>a, <1>b, <1>2, <1>m, <2>1, <2>2 DEF TaskLocal
  <2>3. CASE u # M
    BY <1>a, <1>b, <1>0, <1>k, <2>1, <2>3 DEF SameThread
  <2> QED
    BY <2>2, <2>3
<1>8. CASE StopAll
  <2>1. /\ pc[M] = "stop" /\ i[M] >= 1 /\ i[M] \in Nat
        /\ \/ pc' = [pc EXCEPT ![i[M]] = "stopped"] /\ i' = [i EXCEPT ![M] = @ + 1]
           \/ pc' = [pc EXCEPT ![M] = "stopped"] /\ i' = i
        /\ UNCHANGED <<op, num, jobs, todo, keep, tasknum, base, count, fDynamicNumThreads,
                       fIndex, fFullcount>>
    BY <1>0, <1>2, <1>8 DEF StopAll, LoopLocal
  <2>2. ~ InCall /\ i[M] # M
    BY <2>1, Master DEF InCall
  <2>3. CASE u = M
    BY <1>a, <1>b, <1>2, <1>m, <2>1, <2>2, <2>3 DEF TaskLocal
  <2>4. CASE u # M /\ pc'[u] = pc[u]
    BY <1>a, <1>b, <1>0, <1>k, <2>1, <2>4 DEF SameThread
  <2>5. CASE u # M /\ pc'[u] # pc[u]
    <3>1. pc'[u] = "stopped" /\ i'[u] = i[u]
      BY <1>a, <1>b, <2>1, <2>5
    <3>2. jobs[u] = << >> /\ todo[u] = {} /\ keep[u] = WORK_STEALING_INDEX
          /\ op[u].at \notin {"incLoad", "incStore", "load"}
      BY <2>2, OutsideClosed, ClosedJobs
    <3>3. TaskLocal(u)' /\ OutputLocal(u)' /\ JobsLocal(u)' /\ LoopLocal(u)'
      BY <2>1, <3>1, <3>2 DEF TaskLocal, OutputLocal, JobsLocal, LoopLocal
    <3>4. OpLocal(u)'
      BY <1>2, <2>1, <3>1, <3>2 DEF OpLocal
    <3>5. Apart(u)'
      BY <2>1, <3>1, <3>2 DEF Apart, AtPush, AtJobs, AtTodo
    <3> QED
      BY <3>3, <3>4, <3>5 DEF ThreadOK
  <2> QED
    BY <2>3, <2>4, <2>5
<1> QED
  BY <1>3, <1>4, <1>5, <1>6, <1>7, <1>8

\* A step of a thread keeps the locals of all threads consistent.
LEMMA RunLocals ==
  ASSUME Inv, NEW t \in Threads, Run(t)
  PROVE  Locals'
<1>1. ThreadOK(t)'
  BY SelfSimple, SelfOutputs, SelfDeal DEF Run
<1>2. \A u \in Threads : u # t => ThreadOK(u)'
  BY OthersKept
<1> QED
  BY <1>1, <1>2 DEF Locals, ThreadOK

-----------------------------------------------------------------------------
(***************************************************************************)
(* The pool.                                                               *)
(***************************************************************************)
\* From where a step of computeThread reaches the places between two vectors.
LEMMA RunPhase ==
  ASSUME Inv, NEW t \in Threads, Run(t)
  PROVE  /\ pc'[t] \notin {"index", "stop", "stopped"}
         /\ pc'[t] = "init" => NextVector(t) /\ tasknum'[t] = tasknum[t] /\ fIndex < fFullcount
         /\ pc'[t] = "reset" => pc[t] \in {"init", "reset"} /\ tasknum'[t] = tasknum[t]
         /\ pc'[t] = "push" => pc[t] \in {"reset", "push"} /\ tasknum'[t] = tasknum[t]
         /\ pc'[t] = "next" => LastTask(t)
         /\ pc'[t] \in {"outside", "wait"} => Return(t)
         /\ pc'[t] = "signal" => ReadyPushed(t) /\ tasknum[t] # LAST_TASK_INDEX
         /\ pc'[t] = "last" => Dispatch(t)
<1>a. PICK S : pc \in [Threads -> S]
  BY SelfTypes
<1>b. pc[t] \notin {"wait", "outside", "index", "signal", "stop", "stopped"} /\ OpLocal(t)
  BY RunCall DEF Inv, Locals
<1> USE DEF Goto, queueVars, callVars, poolVars, locals, taskVars, outputVars, loopVars, history
<1>1. CASE InitGraph(t) \/ InitAll(t) \/ PushReady(t) \/ ReadyPushed(t)
  BY <1>a, <1>1 DEF InitGraph, InitAll, PushReady, ReadyPushed
<1>2. CASE Dispatch(t) \/ Return(t) \/ LastTask(t) \/ NextVector(t)
  BY <1>a, <1>2 DEF Dispatch, Return, LastTask, NextVector
<1>3. CASE StealEmpty(t) \/ StealRead(t) \/ PopHeadEmpty(t) \/ PopHeadRead(t) \/ Popped(t)
  BY <1>a, <1>3 DEF StealEmpty, StealRead, PopHeadEmpty, PopHeadRead, Popped
<1>4. CASE EndOfTask(t)
  <2>1. pc'[t] \in {"loop", "one", "activate"}
    BY <1>a, <1>4 DEF EndOfTask
  <2> QED
    BY <2>1
<1>5. CASE ActivateOneOutputTask(t) \/ PushOutput(t) \/ ActivateOutputTask(t) \/ PushActivated(t)
           \/ Activated(t)
  BY <1>a, <1>5 DEF ActivateOneOutputTask, PushOutput, ActivateOutputTask, PushActivated, Activated
<1>6. CASE QueueOp(t)
  <2>1. UNCHANGED <<pc, tasknum>>
    BY <1>6 DEF QueueOp
  <2>2. pc[t] \in {"push", "activate", "steal", "pop", "stopped"}
    BY <1>6, <1>b DEF QueueOp, QueueStep, IncHeadLoad, IncHeadStore, PopCAS, PopCASFails, OpLocal
  <2> QED
    BY <1>b, <2>1, <2>2
<1> QED
  BY <1>1, <1>2, <1>3, <1>4, <1>5, <1>6 DEF Run

\* The last task is run while the vector is open.
LEMMA LastOpen ==
  ASSUME Inv, NEW t \in Threads, pc[t] \in {"last", "run", "one"}
  PROVE  Open /\ ~ Setup /\ fIndex < fFullcount /\ t \in Used /\ \A u \in Threads : ~ Closing(u)
<1>1. Open
  BY ClosedJobs
<1>2. ~ Setup
  <2>1. CASE t = MASTER_THREAD
    BY <2>1 DEF Setup
  <2>2. CASE t # MASTER_THREAD
    BY <2>2, SetupAlone, Master
  <2> QED
    BY <2>1, <2>2
<1>3. fIndex < fFullcount
  BY <1>1, <1>2 DEF Open, Setup, Dealing
<1>4. t \in Used
  BY <1>3, RunnerUsed
<1> QED
  BY <1>1, <1>2, <1>3, <1>4 DEF Open

\* Only the caller prepares a call, and no thread can begin to.
LEMMA RunSetup ==
  ASSUME Inv, NEW t \in Threads, Run(t)
  PROVE  /\ Setup' => Setup /\ t = MASTER_THREAD /\ pc[MASTER_THREAD] # "index"
                      /\ pc'[MASTER_THREAD] # "index"
         /\ Setup => t = MASTER_THREAD
         /\ Dealing' => Setup /\ t = MASTER_THREAD
<1> DEFINE M == MASTER_THREAD
<1>1. Setup => t = M
  BY SetupAlone, Master
<1>2. t # M => pc'[M] = pc[M] /\ tasknum'[M] = tasknum[M]
  BY Master, RunFrame DEF SameThread
<1>3. t # M => ~ Setup'
  BY <1>1, <1>2 DEF Setup
<1>4. ASSUME t = M, Setup' PROVE Setup /\ pc[M] # "index" /\ pc'[M] # "index"
  <2>1. pc[M] # "index" /\ pc'[M] # "index"
    BY <1>4, RunCall, RunPhase
  <2>2. pc'[M] \in {"init", "reset", "push"} /\ tasknum'[M] = WORK_STEALING_INDEX
    BY <1>4, <2>1 DEF Setup
  <2>3. pc'[M] # "init"
    <3>1. pc'[M] = "init" => pc[M] = "next" /\ tasknum[M] = WORK_STEALING_INDEX
      BY <1>4, <2>2, RunPhase DEF NextVector
    <3>2. pc[M] = "next" => tasknum[M] = LAST_TASK_INDEX
      BY Master DEF Inv, Locals, TaskLocal
    <3> QED
      BY <3>1, <3>2, TaskNumbers
  <2>4. pc[M] \in {"init", "reset", "push"} /\ tasknum[M] = WORK_STEALING_INDEX
    BY <1>4, <2>2, <2>3, RunPhase
  <2> QED
    BY <2>1, <2>4 DEF Setup
<1>5. Dealing' => Setup'
  BY DEF Dealing, Setup
<1> QED
  BY <1>1, <1>3, <1>4, <1>5

\* A step inside computeThread keeps what the pool relies on: who is awake, and which
\* workers have a signal to come.
LEMMA RunPool ==
  ASSUME Inv, NEW t \in Threads, Run(t)
  PROVE  Pool'
<1> DEFINE M == MASTER_THREAD
<1>a. /\ fIndex \in Nat /\ fFullcount \in Nat /\ VecSize \in Nat /\ M \in Threads
      /\ \A w : w \in Workers <=> w \in Threads /\ w # M
  BY Samples, Master DEF Inv, TypeOK
<1>b. /\ pc[t] \notin {"wait", "outside", "index", "signal", "stop", "stopped"}
      /\ fFullcount' = fFullcount /\ fSemaphore' = fSemaphore
      /\ ~ LastTask(t) => fIndex' = fIndex
      /\ ~ Return(t) => fDynamicNumThreads' = fDynamicNumThreads
      /\ t # M => fDynamicNumThreads' = fDynamicNumThreads
  BY RunCall
<1>c. \A u \in Threads : u # t => pc'[u] = pc[u] /\ tasknum'[u] = tasknum[u]
  BY RunFrame DEF SameThread
<1>d. /\ Setup => \A w \in Workers : pc[w] = "wait" /\ fSemaphore[w] = 0
      /\ InCall => \A w \in Workers : Awake(w) => w < fDynamicNumThreads
      /\ Setup /\ pc[MASTER_THREAD] # "index" => fIndex = 0
      /\ ~ InCall => fIndex >= fFullcount
      /\ \A w \in Workers : pc[w] = "stopped" => pc[M] \in {"stop", "stopped"}
      /\ \A u \in Threads : pc[u] \in {"init", "reset"} /\ tasknum[u] = LAST_TASK_INDEX =>
           fIndex < fFullcount
      /\ \A u, v \in Threads : Closing(u) /\ Closing(v) => u = v
      /\ ~ fDynAdapt => fDynamicNumThreads = NumThreads
  BY DEF Inv, Pool
<1>e. LastTask(t) => (\A u \in Threads : ~ Closing(u)) /\ fIndex' = fIndex + VecSize
  BY LastOpen DEF LastTask
<1>1. (Setup => \A w \in Workers : pc[w] = "wait" /\ fSemaphore[w] = 0)'
  BY <1>a, <1>b, <1>c, <1>d, RunSetup
<1>2. (InCall => \A w \in Workers : Awake(w) => w < fDynamicNumThreads)'
  <2> SUFFICES ASSUME InCall', NEW w \in Workers, Awake(w)' PROVE w < fDynamicNumThreads'
    OBVIOUS
  <2>1. InCall
    BY <1>a, <1>b, <1>c DEF InCall
  <2>2. Awake(w)
    BY <1>a, <1>b, <1>c DEF Awake
  <2>3. fDynamicNumThreads' = fDynamicNumThreads
    <3>1. CASE t = M
      <4>1. ~ Return(t)
        <5>1. Return(t) => pc' = [pc EXCEPT ![t] = "outside"]
          BY <1>a, <3>1 DEF Return, Goto
        <5>2. \E S : pc \in [Threads -> S]
          BY SelfTypes
        <5> QED
          BY <3>1, <5>1, <5>2 DEF InCall
      <4> QED
        BY <4>1, <1>b
    <3>2. CASE t # M
      BY <1>b, <3>2
    <3> QED
      BY <3>1, <3>2
  <2> QED
    BY <1>d, <2>1, <2>2, <2>3
<1>3. (Setup /\ pc[MASTER_THREAD] # "index" => fIndex = 0)'
  <2> SUFFICES ASSUME Setup', pc'[M] # "index" PROVE fIndex' = 0
    OBVIOUS
  <2>1. Setup /\ pc[M] # "index" /\ t = M
    BY RunSetup
  <2>2. ~ LastTask(t)
    BY <2>1 DEF LastTask, Setup
  <2> QED
    BY <1>b, <1>d, <2>1, <2>2
<1>4. (~ InCall => fIndex >= fFullcount)'
  <2> SUFFICES ASSUME ~ InCall' PROVE fIndex' >= fFullcount'
    OBVIOUS
  <2>1. CASE t = M
    <3>1. Return(t)
      BY <2>1, RunPhase DEF InCall
    <3> QED
      BY <1>b, <3>1 DEF Return, LastTask, callVars
  <2>2. CASE t # M
    <3>1. fIndex >= fFullcount
      BY <1>a, <1>c, <1>d, <2>2 DEF InCall
    <3> QED
      BY <1>a, <1>b, <1>e, <3>1
  <2> QED
    BY <2>1, <2>2
<1>5. (\A w \in Workers : pc[w] = "stopped" => pc[M] \in {"stop", "stopped"})'
  <2> SUFFICES ASSUME NEW w \in Workers, pc'[w] = "stopped" PROVE pc'[M] \in {"stop", "stopped"}
    OBVIOUS
  <2>1. w # t
    BY RunPhase
  <2> QED
    BY <1>a, <1>b, <1>c, <1>d, <2>1
<1>6. (\A u \in Threads : pc[u] \in {"init", "reset"} /\ tasknum[u] = LAST_TASK_INDEX =>
           fIndex < fFullcount)'
  <2> SUFFICES ASSUME NEW u \in Threads, pc'[u] \in {"init", "reset"},
                      tasknum'[u] = LAST_TASK_INDEX
               PROVE  fIndex' < fFullcount'
    OBVIOUS
  <2>1. CASE u = t
    <3>1. fIndex < fFullcount
      BY <1>d, <2>1, RunPhase
    <3>2. ~ LastTask(t)
      BY <2>1, RunPhase DEF LastTask, NextVector
    <3> QED
      BY <1>b, <3>1, <3>2
  <2>2. CASE u # t
    <3>1. Closing(u) /\ fIndex < fFullcount
      BY <1>c, <1>d, <2>2 DEF Closing
    <3> QED
      BY <1>b, <1>e, <3>1
  <2> QED
    BY <2>1, <2>2
<1>7. (\A u, v \in Threads : Closing(u) /\ Closing(v) => u = v)'
  <2>1. \A u \in Threads : u # t => (Closing(u)' <=> Closing(u))
    BY <1>c DEF Closing
  <2>2. Closing(t)' => Closing(t) \/ LastTask(t)
    BY RunPhase DEF Closing, NextVector
  <2> QED
    BY <1>d, <1>e, <2>1, <2>2
<1>8. (~ fDynAdapt => fDynamicNumThreads = NumThreads)'
  <2>1. ~ fDynAdapt => fDynamicNumThreads' = fDynamicNumThreads
    BY <1>b DEF Return, StopMeasure
  <2> QED
    BY <1>d, <2>1
<1> QED
  BY <1>1, <1>2, <1>3, <1>4, <1>5, <1>6, <1>7, <1>8 DEF Pool

\* So do the steps of the caller and of the pool, when a call comes after the workers
\* have gone to sleep.
LEMMA ComputePool ==
  ASSUME Inv, ~ BackToBack,
         \/ \E n \in Counts : Compute(n)
         \/ ResetIndex \/ SignalAll
         \/ \E t \in Workers : Wake(t)
         \/ Delete \/ StopAll
  PROVE  Pool'
<1> DEFINE M == MASTER_THREAD
<1>a. PICK S : pc \in [Threads -> S]
  BY Master, SelfTypes
<1>b. /\ fIndex \in Nat /\ fFullcount \in Nat /\ M \in Threads /\ M = 0
      /\ \A w : w \in Workers <=> w \in Threads /\ w # M
      /\ fSemaphore \in [Workers -> Nat] /\ i[M] \in Nat
      /\ TaskLocal(M) /\ LoopLocal(M) /\ fDynamicNumThreads \in Nat
  BY Master, SelfTypes DEF Inv, TypeOK, Locals
<1>d. /\ Setup => \A w \in Workers : pc[w] = "wait" /\ fSemaphore[w] = 0
      /\ InCall => \A w \in Workers : Awake(w) => w < fDynamicNumThreads
      /\ Setup /\ pc[MASTER_THREAD] # "index" => fIndex = 0
      /\ ~ InCall => fIndex >= fFullcount
      /\ \A w \in Workers : pc[w] = "stopped" => pc[M] \in {"stop", "stopped"}
      /\ \A u \in Threads : pc[u] \in {"init", "reset"} /\ tasknum[u] = LAST_TASK_INDEX =>
           fIndex < fFullcount
      /\ \A u, v \in Threads : Closing(u) /\ Closing(v) => u = v
      /\ ~ fDynAdapt => fDynamicNumThreads = NumThreads
  BY DEF Inv, Pool
<1>t. WORK_STEALING_INDEX # LAST_TASK_INDEX
  BY TaskNumbers
<1> USE DEF Goto, queueVars, callVars, poolVars, taskVars, outputVars, loopVars, history
<1>1. CASE \E n \in Counts : Compute(n)
  <2>1. /\ pc[M] = "outside" /\ pc' = [pc EXCEPT ![M] = "index"]
        /\ \A w \in Workers : pc[w] = "wait" /\ fSemaphore[w] = 0
        /\ UNCHANGED <<tasknum, fSemaphore, fIndex, fDynamicNumThreads>>
    BY <1>1 DEF Compute
  <2>2. pc'[M] = "index" /\ \A w \in Workers : pc'[w] = "wait" /\ fSemaphore'[w] = 0
    BY <1>a, <1>b, <2>1
  <2> QED
    BY <1>b, <1>d, <2>1, <2>2 DEF Pool, Setup, InCall, Awake, Closing
<1>2. CASE ResetIndex
  <2>1. /\ pc[M] = "index" /\ pc' = [pc EXCEPT ![M] = "init"] /\ fIndex' = 0
        /\ UNCHANGED <<tasknum, fSemaphore, fFullcount, fDynamicNumThreads>>
    BY <1>2 DEF ResetIndex
  <2>2. /\ pc'[M] = "init" /\ tasknum[M] = WORK_STEALING_INDEX
        /\ \A w \in Workers : pc'[w] = "wait" /\ fSemaphore'[w] = 0
    BY <1>a, <1>b, <1>d, <2>1 DEF Setup, TaskLocal
  <2> QED
    BY <1>b, <1>d, <1>t, <2>1, <2>2 DEF Pool, Setup, InCall, Awake, Closing
<1>3. CASE SignalAll
  <2>1. /\ pc[M] = "signal" /\ ~ Setup
        /\ \/ UNCHANGED pc
           \/ pc' = [pc EXCEPT ![M] = "loop"]
        /\ UNCHANGED <<tasknum, fIndex, fFullcount, fDynamicNumThreads>>
    BY <1>3 DEF SignalAll, Setup
  <2>2. pc'[M] \in {"signal", "loop"} /\ \A w \in Workers : pc'[w] = pc[w]
    BY <1>a, <1>b, <2>1
  <2>3. \A w \in Workers : \/ fSemaphore'[w] = fSemaphore[w]
                           \/ w < fDynamicNumThreads
    BY <1>b, <1>3 DEF SignalAll
  <2>4. \A w \in Workers : Awake(w)' => w < fDynamicNumThreads'
    BY <1>d, <2>1, <2>2, <2>3 DEF Awake, InCall
  <2>5. \A u \in Threads : /\ pc'[u] \in {"init", "reset"} => pc[u] = pc'[u]
                           /\ Closing(u)' <=> Closing(u)
    BY <1>b, <2>1, <2>2 DEF Closing
  <2> QED
    BY <1>b, <1>d, <2>1, <2>2, <2>4, <2>5 DEF Pool, Setup, InCall
<1>4. CASE \E t \in Workers : Wake(t)
  <2> PICK t \in Workers : Wake(t)
    BY <1>4
  <2>1. /\ pc[t] = "wait" /\ pc' = [pc EXCEPT ![t] = "loop"] /\ fSemaphore[t] > 0
        /\ fSemaphore' = [fSemaphore EXCEPT ![t] = @ - 1]
        /\ UNCHANGED <<tasknum, fIndex, fFullcount, fDynamicNumThreads>>
    BY DEF Wake
  <2>2. /\ pc'[t] = "loop" /\ \A u \in Threads : u # t => pc'[u] = pc[u]
        /\ \A w \in Workers : w # t => fSemaphore'[w] = fSemaphore[w]
        /\ t # M /\ t \in Threads /\ pc'[M] = pc[M]
    BY <1>a, <1>b, <2>1
  <2>3. \A w \in Workers : Awake(w)' => Awake(w)
    BY <1>b, <2>1, <2>2 DEF Awake
  <2>4. ~ Setup /\ ~ Setup'
    BY <1>b, <1>d, <2>1, <2>2 DEF Setup
  <2>5. \A u \in Threads : /\ pc'[u] \in {"init", "reset", "stopped"} => pc[u] = pc'[u]
                           /\ Closing(u)' <=> Closing(u)
    BY <1>b, <2>1, <2>2 DEF Closing
  <2>6. InCall' <=> InCall
    BY <2>2 DEF InCall
  <2> QED
    BY <1>b, <1>d, <2>1, <2>2, <2>3, <2>4, <2>5, <2>6 DEF Pool
<1>5. CASE Delete
  <2>1. /\ pc[M] = "outside" /\ pc' = [pc EXCEPT ![M] = "stop"]
        /\ UNCHANGED <<tasknum, fSemaphore, fIndex, fFullcount, fDynamicNumThreads>>
    BY <1>5 DEF Delete
  <2>2. pc'[M] = "stop" /\ \A w \in Workers : pc'[w] = pc[w]
    BY <1>a, <1>b, <2>1
  <2>3. ~ InCall /\ ~ InCall' /\ ~ Setup'
    BY <2>1, <2>2 DEF InCall, Setup
  <2>5. \A u \in Threads : /\ pc'[u] \in {"init", "reset"} => pc[u] = pc'[u]
                           /\ Closing(u)' <=> Closing(u)
    BY <1>b, <2>1, <2>2 DEF Closing
  <2> QED
    BY <1>b, <1>d, <2>1, <2>2, <2>3, <2>5 DEF Pool
<1>6. CASE StopAll
  <2>1. /\ pc[M] = "stop" /\ i[M] >= 1
        /\ \/ pc' = [pc EXCEPT ![i[M]] = "stopped"]
           \/ pc' = [pc EXCEPT ![M] = "stopped"]
        /\ UNCHANGED <<tasknum, fSemaphore, fIndex, fFullcount, fDynamicNumThreads>>
    BY <1>6, <1>b DEF StopAll, LoopLocal
  <2>2. pc'[M] \in {"stop", "stopped"} /\ \A u \in Threads : pc'[u] \in {pc[u], "stopped"}
    BY <1>a, <1>b, <2>1
  <2>3. ~ InCall /\ ~ InCall' /\ ~ Setup'
    BY <2>1, <2>2 DEF InCall, Setup
  <2>5. \A u \in Threads : /\ pc'[u] \in {"init", "reset"} => pc[u] = pc'[u]
                           /\ Closing(u)' => Closing(u)
    BY <2>2 DEF Closing
  <2> QED
    BY <1>b, <1>d, <2>1, <2>2, <2>3, <2>5 DEF Pool
<1> QED
  BY <1>1, <1>2, <1>3, <1>4, <1>5, <1>6

-----------------------------------------------------------------------------
(***************************************************************************)
(* A step of thread t in an open vector.                                   *)
(***************************************************************************)
\* Nothing but t and the queues move, and only t works while compute prepares.
Frame(t) ==
  /\ \A u \in Threads : u # t => SameThread(u)
  /\ Setup => t = MASTER_THREAD
  /\ UNCHANGED <<fIndex, fFullcount, fDynamicNumThreads, leftover>>
  /\ TypeOK'

\* The queues of others only lose tasks at their tails; no slot below a head is
\* overwritten.
QueueFrame(t) ==
  /\ \A q \in Threads : q # t /\ ~ Setup => fTaskList'[q] = fTaskList[q] /\ fHead'[q] = fHead[q]
  /\ \A q \in Threads : fTail'[q] >= fTail[q]
  /\ \A q \in Threads : \A j \in 0 .. fHead[q] - 1 : fTaskList'[q][j] = fTaskList[q][j]

\* While compute prepares its first vector the other threads have nothing.
LEMMA SetupNothing ==
  ASSUME Inv, NEW t \in Threads, Setup => t = MASTER_THREAD, Setup,
         NEW u \in Threads, u # t
  PROVE  op[u].at = "idle" /\ pc[u] = "wait" /\ jobs[u] = << >> /\ todo[u] = {}
<1>1. u \in Workers
  BY Master
<1> QED
  BY <1>1, SetupAlone

\* What a thread is loading does not change under its hands.
LEMMA OthersLoad ==
  ASSUME Inv, Open, NEW t \in Threads, Frame(t), QueueFrame(t),
         NEW u \in Threads, u # t, op[u].at = "load"
  PROVE  PoppedTask(u)' = PoppedTask(u)
<1>1. op'[u] = op[u]
  BY DEF Frame, SameThread
<1>2. ~ Setup
  BY SetupNothing DEF Frame
<1>3. op[u] \in Op /\ fHead \in [Threads -> Nat] /\ fTail \in [Threads -> Nat]
  BY DEF Inv, TypeOK, QueueTypeOK
<1>4. op[u].q \in Threads /\ op[u].end \in {HeadEnd, TailEnd} /\ op[u].tail \in Nat
  BY <1>3 DEF Op
<1>5. /\ op[u].end = HeadEnd => op[u].q = u
      /\ op[u].end = TailEnd => op[u].tail < fTail[op[u].q]
  BY DEF Inv, OpInv
<1>6. fTail[op[u].q] <= fHead[op[u].q]
  BY <1>4 DEF Inv, WordInv
<1>7. CASE op[u].end = HeadEnd
  BY <1>1, <1>2, <1>4, <1>5, <1>7 DEF PoppedTask, PoppedSlot, QueueFrame
<1>8. CASE op[u].end = TailEnd
  <2>1. op[u].tail \in 0 .. fHead[op[u].q] - 1
    BY <1>3, <1>4, <1>5, <1>6, <1>8
  <2>2. fTaskList'[op[u].q][op[u].tail] = fTaskList[op[u].q][op[u].tail]
    BY <1>4, <2>1 DEF QueueFrame
  <2> QED
    BY <1>1, <1>8, <2>2 DEF PoppedTask, PoppedSlot, HeadEnd, TailEnd
<1> QED
  BY <1>4, <1>7, <1>8

\* The other threads keep the tasks they have.
LEMMA OthersHave ==
  ASSUME Inv, Open, NEW t \in Threads, Frame(t), QueueFrame(t), NEW u \in Threads, u # t,
         NEW k
  PROVE  (Has(u, k)' <=> Has(u, k)) /\ (ToPush(u, k)' <=> ToPush(u, k))
<1>1. SameThread(u)
  BY DEF Frame
<1>2. ToPush(u, k)' <=> ToPush(u, k)
  BY <1>1 DEF ToPush, AtTodo, AtJobs, AtPush, SameThread
<1>3. AtLoad(u, k)' <=> AtLoad(u, k)
  <2>1. CASE op[u].at = "load"
    BY <2>1, <1>1, OthersLoad DEF AtLoad, SameThread
  <2>2. CASE op[u].at # "load"
    BY <2>2, <1>1 DEF AtLoad, SameThread
  <2> QED
    BY <2>1, <2>2
<1>4. (AtHand(u, k)' <=> AtHand(u, k)) /\ (AtKeep(u, k)' <=> AtKeep(u, k))
  BY <1>1 DEF AtHand, AtKeep, SameThread
<1> QED
  BY <1>2, <1>3, <1>4 DEF Has

\* The operation of thread t on a queue, as OpInv has it.
OpOK(t) ==
  /\ op[t].at \in {"incLoad", "incStore"} =>
       /\ op[t].q \in Used
       /\ op[t].q = t \/ Dealing
       /\ fTaskList[op[t].q][fHead[op[t].q]] = op[t].item
       /\ op[t].item \in Task
  /\ op[t].at = "incStore" => op[t].head = fHead[op[t].q]
  /\ op[t].at = "load" =>
       /\ op[t].q \in Used
       /\ op[t].end = HeadEnd => op[t].q = t /\ fHead[t] = op[t].head - 1
       /\ op[t].end = TailEnd => op[t].tail < fTail[op[t].q]
       /\ PoppedTask(t) \in Task

\* The operations of the others go on.
LEMMA OthersOp ==
  ASSUME Inv, Open, NEW t \in Threads, Frame(t), QueueFrame(t), NEW u \in Threads, u # t
  PROVE  OpOK(u)'
<1>1. op'[u] = op[u] /\ Used' = Used
  BY DEF Frame, SameThread, Used
<1>2. OpOK(u)
  BY DEF Inv, OpInv, OpOK
<1>3. CASE op[u].at \in {"incLoad", "incStore", "load"}
  <2>1. ~ Setup /\ ~ Dealing
    <3>1. ~ Setup
      BY <1>3, SetupNothing DEF Frame
    <3> QED
      BY <3>1 DEF Dealing, Setup
  <2>2. /\ op[u] \in Op /\ fTail \in [Threads -> Nat] /\ fTail' \in [Threads -> Nat]
        /\ fHead \in [Threads -> Nat]
    BY DEF Inv, TypeOK, QueueTypeOK, Frame
  <2>3. op[u].q \in Threads /\ op[u].tail \in Nat
    BY <2>2 DEF Op
  <2>4. fHead'[u] = fHead[u] /\ fTaskList'[u] = fTaskList[u]
    BY <2>1 DEF QueueFrame
  <2>5. fTail'[op[u].q] >= fTail[op[u].q]
    BY <2>3 DEF QueueFrame
  <2>6. op[u].at = "load" => PoppedTask(u)' = PoppedTask(u)
    BY OthersLoad
  <2>7. op[u].at = "load" => (op'[u].end = TailEnd => op'[u].tail < fTail'[op'[u].q])
    BY <1>1, <1>2, <2>2, <2>3, <2>5 DEF OpOK
  <2>8. op[u].at \in {"incLoad", "incStore"} => op[u].q = u
    BY <1>2, <2>1 DEF OpOK
  <2> QED
    BY <1>1, <1>2, <2>4, <2>6, <2>7, <2>8 DEF OpOK
<1>4. CASE op[u].at \notin {"incLoad", "incStore", "load"}
  BY <1>1, <1>4 DEF OpOK
<1> QED
  BY <1>3, <1>4

\* A step that ends no task and activates none leaves the graph as it is.
SameGraph(t) ==
  /\ UNCHANGED <<done, fTaskGraph>>
  /\ \A c \in Counted : Inputs(c) > 1 => (c \in todo'[t] <=> c \in todo[t])

\* Such a step changes neither what is ended nor what is released.
LEMMA GraphKept ==
  ASSUME Inv, NEW t \in Threads, Frame(t), SameGraph(t)
  PROVE  /\ \A k \in Counted : (Ended(k)' <=> Ended(k)) /\ (Released(k)' <=> Released(k))
         /\ Open => (Open' => DoneInv' /\ CounterInv')
<1>1. \A k : Ended(k)' <=> Ended(k)
  BY DEF Frame, SameGraph, Ended
<1>2. \A k : Waiting(k)' = Waiting(k)
  BY <1>1 DEF Waiting, Preds
<1>3. \A k \in Counted : Inputs(k) > 1 => Activators(k)' = Activators(k)
  BY DEF Activators, Frame, SameGraph, SameThread
<1>4. \A k \in Counted : Released(k)' <=> Released(k)
  BY <1>2, <1>3 DEF Released
<1>5. Open => DoneInv'
  BY DEF Inv, DoneInv, Frame, SameGraph
<1>6. Open => CounterInv'
  BY <1>2, <1>3 DEF Inv, CounterInv, SameGraph
<1> QED
  BY <1>1, <1>4, <1>5, <1>6

\* Task k is with nobody and in no queue.
Free(k) ==
  /\ \A u \in Threads : ~ Has(u, k)
  /\ \A q \in Used : \A j \in 0 .. fHead[q] - 1 : fTaskList[q][j] # k

\* A task that has not been released is free.
LEMMA UnreleasedFree ==
  ASSUME Inv, Open, NEW k \in Counted, ~ Released(k)
  PROVE  Free(k)
BY DEF Inv, ReleaseInv, SlotInv, Free

(***************************************************************************)
(* Thread t ends a task that it has, or gets one that was released just    *)
(* now or that it takes out of a queue: the tasks stay where they are      *)
(* allowed to be.                                                          *)
(***************************************************************************)
LEMMA TasksKept ==
  ASSUME Inv, Open, NEW t \in Threads, Frame(t), QueueFrame(t),
         \A q \in Threads : fHead'[q] <= fHead[q],
         \A k \in Counted : Released(k) => Released(k)',
         \A k \in Counted : Ended(k)' => Ended(k) \/ (Has(t, k) /\ ~ Has(t, k)'),
         \A k \in Counted : Has(t, k)' =>
           \/ Has(t, k)
           \/ /\ Released(k)' /\ ~ Ended(k)' /\ \A u \in Threads : ~ Has(u, k)
              /\ \A q \in Used : \A j \in Live(q)' : fTaskList[q][j] # k,
         \A k \in Counted : ToPush(t, k)' => ToPush(t, k) \/ Free(k)
  PROVE  ReleaseInv' /\ OwnerInv' /\ SlotInv' /\ LiveInv'
<1>1. \A u \in Threads : \A k : u # t => (Has(u, k)' <=> Has(u, k)) /\ (ToPush(u, k)' <=> ToPush(u, k))
  BY OthersHave
<1>2. /\ \A k \in Task : Ended(k) => Released(k)
      /\ \A u \in Threads, k \in Counted : Has(u, k) => Released(k) /\ ~ Ended(k)
  BY DEF Inv, ReleaseInv
<1>3. \A u, v \in Threads, k \in Counted : Has(u, k) /\ Has(v, k) => u = v
  BY DEF Inv, OwnerInv
<1>4. \A k \in Task : k \in Counted
  BY TaskNumbers
<1>5. \A k : Ended(k)' => k \in Task
  BY DEF Ended
<1>6. Used' = Used /\ Used \subseteq Threads
  <2>1. fDynamicNumThreads \in 1 .. fStaticNumThreads
    BY DEF Inv, TypeOK
  <2> QED
    BY <2>1, ThreadNumbers DEF Frame, Used
<1>7. \A q \in Used : /\ fHead[q] \in Nat /\ fHead'[q] \in Nat /\ fTail[q] \in Nat /\ fTail'[q] \in Nat
                      /\ fHead'[q] <= fHead[q] /\ fTail'[q] >= fTail[q]
  BY <1>6 DEF Inv, TypeOK, QueueTypeOK, Frame, QueueFrame
<1>8. \A q \in Used : \A j \in 0 .. fHead'[q] - 1 :
        j \in 0 .. fHead[q] - 1 /\ fTaskList'[q][j] = fTaskList[q][j]
  BY <1>6, <1>7 DEF QueueFrame
<1>9. \A q \in Used : \A j \in Live(q)' : j \in Live(q) /\ j \in 0 .. fHead[q] - 1
                                          /\ fTaskList'[q][j] = fTaskList[q][j]
  BY <1>7, <1>8 DEF Live
<1>10. \A q \in Used : /\ \A j \in 0 .. fHead[q] - 1 :
                            /\ fTaskList[q][j] \in Task /\ Released(fTaskList[q][j])
                            /\ \A u \in Threads : ~ ToPush(u, fTaskList[q][j])
                       /\ \A j, l \in 0 .. fHead[q] - 1 : fTaskList[q][j] = fTaskList[q][l] => j = l
  BY DEF Inv, SlotInv
<1>11. \A q \in Used : \A j \in Live(q) :
         /\ ~ Ended(fTaskList[q][j])
         /\ \A u \in Threads : ~ Has(u, fTaskList[q][j])
         /\ \A r \in Used : \A l \in Live(r) : fTaskList[q][j] = fTaskList[r][l] => q = r
  BY DEF Inv, LiveInv
<1>12. ReleaseInv'
  <2>1. \A k \in Task : Ended(k)' => Released(k)'
    BY <1>2, <1>4
  <2>2. \A u \in Threads, k \in Counted : Has(u, k)' => Released(k)' /\ ~ Ended(k)'
    BY <1>1, <1>2, <1>3
  <2> QED
    BY <2>1, <2>2 DEF ReleaseInv
<1>13. OwnerInv'
  BY <1>1, <1>3 DEF OwnerInv
<1>14. SlotInv'
  <2> SUFFICES ASSUME NEW q \in Used
               PROVE  (/\ \A j \in 0 .. fHead[q] - 1 :
                            /\ fTaskList[q][j] \in Task
                            /\ Released(fTaskList[q][j])
                            /\ \A u \in Threads : ~ ToPush(u, fTaskList[q][j])
                       /\ \A j, l \in 0 .. fHead[q] - 1 :
                            fTaskList[q][j] = fTaskList[q][l] => j = l)'
    BY <1>6 DEF SlotInv
  <2>1. ASSUME NEW j \in 0 .. fHead'[q] - 1
        PROVE  (/\ fTaskList[q][j] \in Task
                /\ Released(fTaskList[q][j])
                /\ \A u \in Threads : ~ ToPush(u, fTaskList[q][j]))'
    <3>1. PICK k : k = fTaskList[q][j]
      OBVIOUS
    <3>2. k \in Task /\ k \in Counted /\ Released(k) /\ \A u \in Threads : ~ ToPush(u, k)
      BY <1>4, <1>8, <1>10, <3>1
    <3>3. fTaskList'[q][j] = k /\ Released(k)'
      BY <1>8, <3>1, <3>2
    <3>4. ~ Free(k)
      BY <1>8, <3>1 DEF Free
    <3>5. \A u \in Threads : ~ ToPush(u, k)'
      BY <1>1, <3>2, <3>4
    <3> QED
      BY <3>2, <3>3, <3>5
  <2> QED
    BY <1>8, <1>10, <2>1
<1>15. LiveInv'
  <2> SUFFICES ASSUME NEW q \in Used, NEW j \in Live(q)'
               PROVE  (/\ ~ Ended(fTaskList[q][j])
                       /\ \A u \in Threads : ~ Has(u, fTaskList[q][j])
                       /\ \A r \in Used : \A l \in Live(r) :
                            fTaskList[q][j] = fTaskList[r][l] => q = r)'
    BY <1>6 DEF LiveInv
  <2>1. PICK k : k = fTaskList[q][j]
    OBVIOUS
  <2>2. k \in Task /\ k \in Counted /\ ~ Ended(k) /\ \A u \in Threads : ~ Has(u, k)
    BY <1>4, <1>9, <1>10, <1>11, <2>1
  <2>3. ~ Ended(k)' /\ \A u \in Threads : ~ Has(u, k)'
    BY <1>1, <2>1, <2>2
  <2>4. fTaskList'[q][j] = k
    BY <1>9, <2>1
  <2>5. \A r \in Used : \A l \in Live(r)' : fTaskList'[q][j] = fTaskList'[r][l] => q = r
    BY <1>9, <1>11
  <2> QED
    BY <1>6, <2>3, <2>4, <2>5
<1> QED
  BY <1>12, <1>13, <1>14, <1>15

\* The sample counts that thread t has latched, as LatchInv has them.
LatchOK(t) ==
  pc[t] = "run" => base[t] = fIndex /\ count[t] = Min(VecSize, fFullcount - fIndex)

\* What is left to show of a step in an open vector.
LEMMA OpenInv ==
  ASSUME Inv, Open, Open', NEW t \in Threads, Frame(t), QueueFrame(t), computes' = computes,
         Locals', Pool', WordInv', OpOK(t)', LatchOK(t)',
         \A q \in Threads \ Used : EmptyQueue(q) => EmptyQueue(q)',
         DoneInv', CounterInv', ReleaseInv', OwnerInv', SlotInv', LiveInv'
  PROVE  Inv'
<1>1. TypeOK' /\ Used' = Used
  BY DEF Frame, Used
<1>2. OpInv'
  <2>1. \A u \in Threads : OpOK(u)'
    BY OthersOp
  <2> QED
    BY <2>1 DEF OpInv, OpOK
<1>3. LatchInv'
  <2>1. \A u \in Threads : u # t => LatchOK(u)'
    BY DEF Inv, LatchInv, IndexIsLatched, LatchOK, Frame, SameThread
  <2> QED
    BY <2>1 DEF LatchInv, IndexIsLatched, LatchOK
<1>4. ClosedInv' /\ ClosedDone' /\ ClosedQueues'
  BY DEF ClosedInv, ClosedDone, ClosedQueues
<1>5. RestInv'
  <2>1. InCall
    <3>1. fIndex \in Nat /\ fFullcount \in Nat
      BY DEF Inv, TypeOK
    <3> QED
      BY <3>1 DEF Inv, Pool, Open, Dealing, InCall
  <2> QED
    BY <1>1, <2>1 DEF Inv, RestInv, Frame
<1>6. LeftInv'
  <2>1. InCall' /\ pc'[MASTER_THREAD] \notin {"index", "init", "reset"}
    <3>1. fIndex' \in Nat /\ fFullcount' \in Nat
      BY <1>1 DEF TypeOK
    <3>2. ~ Closing(MASTER_THREAD)'
      BY Master DEF Open
    <3> QED
      BY <3>1, <3>2 DEF Pool, Open, Dealing, InCall, Closing
  <2> QED
    BY <1>1, <2>1 DEF Inv, LeftInv, Left, Frame
<1> QED
  BY <1>1, <1>2, <1>3, <1>4, <1>5, <1>6 DEF Inv

(***************************************************************************)
(* The steps that only move a task from one place of thread t to another:  *)
(* no word of a queue, no counter and no sample changes.                   *)
(***************************************************************************)
LEMMA QuietInv ==
  ASSUME Inv, Open, Open', NEW t \in Threads, Frame(t), QueueFrame(t), SameGraph(t),
         UNCHANGED <<fHead, fTail, computes>>, Locals', Pool', OpOK(t)', LatchOK(t)',
         \A k \in Counted : Has(t, k)' => Has(t, k),
         \A k \in Counted : ToPush(t, k)' => ToPush(t, k)
  PROVE  Inv'
<1>1. fHead \in [Threads -> Nat]
  BY DEF Inv, TypeOK, QueueTypeOK
<1>2. \A k \in Counted : (Ended(k)' <=> Ended(k)) /\ (Released(k)' <=> Released(k))
  BY GraphKept
<1>3. DoneInv' /\ CounterInv'
  BY GraphKept
<1>4. \A q \in Threads : fHead'[q] <= fHead[q]
  BY <1>1
<1>5. ReleaseInv' /\ OwnerInv' /\ SlotInv' /\ LiveInv'
  BY <1>2, <1>4, TasksKept
<1>6. WordInv' /\ \A q \in Threads \ Used : EmptyQueue(q) => EmptyQueue(q)'
  BY DEF Inv, WordInv, EmptyQueue
<1> QED
  BY <1>3, <1>5, <1>6, OpenInv

\* What a step of computeThread leaves alone in an open vector.
LEMMA RunOpen ==
  ASSUME Inv, Open, NEW t \in Threads, Run(t), ~ LastTask(t)
  PROVE  /\ Frame(t) /\ Locals' /\ Pool' /\ computes' = computes
         /\ Open' \/ (Dealing /\ ~ Dealing')
<1>0. fIndex \in Nat /\ fFullcount \in Nat
  BY DEF Inv, TypeOK
<1>1. ~ Return(t)
  BY <1>0, ReturnClosed DEF Return
<1>2. Frame(t) /\ computes' = computes
  <2>1. ~ InitAll(t)
    BY DEF Open, Closing, InitAll
  <2> QED
    BY <1>1, <2>1, RunCall, RunFrame, RunTypes, RunSetup DEF Frame
<1>3. Locals' /\ Pool'
  BY RunLocals, RunPool
<1>4. \A u \in Threads : ~ Closing(u)'
  <2>1. \A u \in Threads : ~ Closing(u)
    BY DEF Open
  <2>2. ~ Closing(t)'
    BY <2>1, RunPhase DEF Closing, NextVector
  <2> QED
    BY <1>2, <2>1, <2>2 DEF Closing, Frame, SameThread
<1>5. Open' \/ (Dealing /\ ~ Dealing')
  BY <1>2, <1>4 DEF Open, Frame
<1> QED
  BY <1>2, <1>3, <1>5

-----------------------------------------------------------------------------
(***************************************************************************)
(* The quiet steps.                                                        *)
(***************************************************************************)
\* Reading the word of a queue, or giving up on it.
LEMMA ReadSteps ==
  ASSUME Inv, Open, Open', NEW t \in Threads, Run(t),
         \/ StealEmpty(t) \/ StealRead(t) \/ PopHeadEmpty(t) \/ PopHeadRead(t)
         \/ (QueueOp(t) /\ PopCASFails(t))
  PROVE  Inv'
<1>a. PICK S : pc \in [Threads -> S]
  BY SelfTypes
<1>b. /\ op \in [Threads -> Op] /\ tasknum \in [Threads -> Counted \cup {WORK_STEALING_INDEX}]
  BY SelfTypes
<1>c. WORK_STEALING_INDEX \notin Counted
  BY TaskNumbers
<1> USE DEF Goto, Set, queueVars, callVars, poolVars, locals, taskVars, outputVars, loopVars, history
<1>1. /\ pc[t] \in {"steal", "pop"}
      /\ UNCHANGED <<fTaskList, fHead, fTail, fTaskGraph, done, todo, keep, jobs>>
      /\ pc'[t] = pc[t] \/ (pc'[t] = "loop" /\ tasknum'[t] = WORK_STEALING_INDEX)
      /\ op'[t].at \in {"idle", "cas", "retry"}
  <2>1. CASE StealEmpty(t) \/ PopHeadEmpty(t)
    <3>1. tasknum[t] = WORK_STEALING_INDEX \/ pc[t] # "steal"
      BY DEF Inv, Locals, TaskLocal
    <3> QED
      BY <1>a, <1>b, <2>1, <3>1 DEF StealEmpty, PopHeadEmpty, PopEmpty, IdleOp
  <2>2. CASE StealRead(t) \/ PopHeadRead(t)
    BY <1>a, <1>b, <2>2 DEF StealRead, PopHeadRead, PopRead, PopOp
  <2>3. CASE QueueOp(t) /\ PopCASFails(t)
    <3>1. pc[t] \in {"steal", "pop", "stopped"}
      BY <2>3 DEF Inv, Locals, OpLocal, PopCASFails
    <3>2. pc[t] # "stopped"
      BY DEF Run
    <3> QED
      BY <1>b, <2>3, <3>1, <3>2 DEF QueueOp, PopCASFails, PopOp
  <2> QED
    BY <2>1, <2>2, <2>3
<1>2. ~ LastTask(t)
  BY <1>1 DEF LastTask
<1>3. Frame(t) /\ Locals' /\ Pool' /\ computes' = computes
  BY <1>2, RunOpen
<1>4. QueueFrame(t)
  <2>1. fTail \in [Threads -> Nat]
    BY DEF Inv, TypeOK, QueueTypeOK
  <2> QED
    BY <1>1, <2>1 DEF QueueFrame
<1>5. SameGraph(t)
  BY <1>1 DEF SameGraph
<1>6. OpOK(t)' /\ LatchOK(t)'
  BY <1>1 DEF OpOK, LatchOK
<1>7. \A k \in Counted : (Has(t, k)' => Has(t, k)) /\ (ToPush(t, k)' => ToPush(t, k))
  BY <1>1, <1>c DEF Has, ToPush, AtHand, AtKeep, AtLoad, AtTodo, AtJobs, AtPush
<1> QED
  BY <1>1, <1>3, <1>4, <1>5, <1>6, <1>7, QuietInv

\* Going on with a task: from the queue, from keep, or at the top of the loop.
LEMMA TakeSteps ==
  ASSUME Inv, Open, Open', NEW t \in Threads, Run(t),
         Popped(t) \/ Activated(t) \/ ReadyPushed(t) \/ Dispatch(t)
  PROVE  Inv'
<1>a. PICK S : pc \in [Threads -> S]
  BY SelfTypes
<1>b. /\ op \in [Threads -> Op] /\ tasknum \in [Threads -> Counted \cup {WORK_STEALING_INDEX}]
      /\ keep \in [Threads -> Task \cup {WORK_STEALING_INDEX}]
      /\ base \in [Threads -> Nat] /\ count \in [Threads -> Nat]
  BY SelfTypes
<1>c. /\ WORK_STEALING_INDEX \notin Counted /\ \A k : k \in Counted <=> k \in Task \/ k = LAST_TASK_INDEX
      /\ LAST_TASK_INDEX # WORK_STEALING_INDEX /\ LAST_TASK_INDEX \notin Task
  BY TaskNumbers
<1>d. OpLocal(t) /\ OutputLocal(t) /\ TaskLocal(t)
  BY DEF Inv, Locals
<1> USE DEF Goto, Set, queueVars, callVars, poolVars, locals, taskVars, outputVars, loopVars, history
<1>1. /\ UNCHANGED <<fTaskList, fHead, fTail, fTaskGraph, done, todo, jobs>>
      /\ op'[t].at = "idle" /\ pc[t] # "last"
  <2>1. CASE Popped(t)
    BY <1>b, <1>d, <2>1 DEF Popped, PopLoad, IdleOp, OpLocal
  <2>2. CASE Activated(t) \/ ReadyPushed(t) \/ Dispatch(t)
    BY <2>2 DEF Activated, ReadyPushed, Dispatch, Ready
  <2> QED
    BY <2>1, <2>2
<1>2. ~ LastTask(t)
  BY <1>1 DEF LastTask
<1>3. Frame(t) /\ Locals' /\ Pool' /\ computes' = computes
  BY <1>2, RunOpen
<1>4. QueueFrame(t)
  <2>1. fTail \in [Threads -> Nat]
    BY DEF Inv, TypeOK, QueueTypeOK
  <2> QED
    BY <1>1, <2>1 DEF QueueFrame
<1>5. SameGraph(t)
  BY <1>1 DEF SameGraph
<1>6. OpOK(t)'
  BY <1>1 DEF OpOK
<1>7. LatchOK(t)'
  <2>1. CASE Popped(t) \/ Activated(t) \/ ReadyPushed(t)
    <3>1. pc'[t] # "run"
      BY <1>a, <2>1 DEF Popped, Activated, ReadyPushed
    <3> QED
      BY <3>1 DEF LatchOK
  <2>2. CASE Dispatch(t)
    <3>1. tasknum'[t] = tasknum[t] /\ UNCHANGED <<fIndex, fFullcount>>
      BY <2>2 DEF Dispatch
    <3>2. pc'[t] = "run" => tasknum[t] \in Task
      BY <1>3, <3>1 DEF Locals, TaskLocal
    <3>3. tasknum[t] \in Task => base'[t] = fIndex /\ count'[t] = Min(VecSize, fFullcount - fIndex)
      BY <1>b, <2>2 DEF Dispatch
    <3> QED
      BY <3>1, <3>2, <3>3 DEF LatchOK
  <2> QED
    BY <2>1, <2>2
<1>8. \A k : ToPush(t, k)' => ToPush(t, k)
  BY <1>1 DEF ToPush, AtTodo, AtJobs, AtPush
<1>9. \A k \in Counted : AtHand(t, k)' \/ AtKeep(t, k)' => Has(t, k)
  <2>1. CASE Popped(t)
    <3>1. tasknum' = [tasknum EXCEPT ![t] = PoppedTask(t)] /\ UNCHANGED keep /\ op[t].at = "load"
      BY <2>1 DEF Popped, PopLoad
    <3> QED
      BY <1>b, <3>1 DEF AtHand, AtKeep, AtLoad, Has
  <2>2. CASE Activated(t)
    <3>1. CASE keep[t] # WORK_STEALING_INDEX
      BY <1>b, <1>c, <2>2, <3>1 DEF Activated, AtHand, AtKeep, Has
    <3>2. CASE keep[t] = WORK_STEALING_INDEX
      BY <1>b, <1>c, <2>2, <3>2 DEF Activated, AtHand, AtKeep, Has
    <3> QED
      BY <3>1, <3>2
  <2>3. CASE ReadyPushed(t)
    BY <1>b, <1>c, <2>3 DEF ReadyPushed, AtHand, AtKeep, Has
  <2>4. CASE Dispatch(t)
    BY <1>b, <1>c, <2>4 DEF Dispatch, AtHand, AtKeep, Has
  <2> QED
    BY <2>1, <2>2, <2>3, <2>4
<1>10. \A k \in Counted : Has(t, k)' => Has(t, k)
  BY <1>1, <1>8, <1>9 DEF Has, AtLoad
<1> QED
  BY <1>1, <1>3, <1>4, <1>5, <1>6, <1>7, <1>8, <1>10, QuietInv

\* There is always room for another push.
LEMMA HeadSlot ==
  ASSUME Inv, Open, NEW q \in Used
  PROVE  q \in Threads /\ fHead[q] \in Nat /\ fHead[q] \in Slots
<1>1. q \in Threads
  <2>1. fDynamicNumThreads \in 1 .. fStaticNumThreads
    BY DEF Inv, TypeOK
  <2> QED
    BY <2>1, ThreadNumbers DEF Used
<1>2. fHead[q] \in Nat
  BY <1>1 DEF Inv, TypeOK, QueueTypeOK
<1>3. /\ \A j \in 0 .. fHead[q] - 1 : fTaskList[q][j] \in Task
      /\ \A j, l \in 0 .. fHead[q] - 1 : fTaskList[q][j] = fTaskList[q][l] => j = l
  BY DEF Inv, SlotInv
<1>4. fHead[q] \in Slots
  BY <1>2, <1>3, HeadBound
<1> QED
  BY <1>1, <1>2, <1>4

\* The first access of a push: the task is in the slot above the queue.
LEMMA PushSteps ==
  ASSUME Inv, Open, Open', NEW t \in Threads, Run(t),
         PushReady(t) \/ PushOutput(t) \/ PushActivated(t)
  PROVE  Inv'
<1>b. /\ op \in [Threads -> Op] /\ todo \in [Threads -> SUBSET Counted]
      /\ jobs \in [Threads -> Seq(Threads \X Task)]
  BY SelfTypes
<1>c. OutputLocal(t) /\ JobsLocal(t) /\ TaskLocal(t) /\ \A k \in Task : k \in Counted
  BY TaskNumbers DEF Inv, Locals
<1> USE DEF queueVars, callVars, poolVars, locals, taskVars, outputVars, loopVars, history
<1>1. /\ pc[t] \in {"push", "activate"} /\ UNCHANGED <<pc, tasknum, keep, done, fTaskGraph>>
      /\ Dealing' <=> Dealing
  BY DEF PushReady, PushOutput, PushActivated, Dealing
<1>2. ~ LastTask(t)
  BY <1>1 DEF LastTask
<1>3. Frame(t) /\ Locals' /\ Pool' /\ computes' = computes
  BY <1>2, RunOpen
<1>4. ASSUME jobs[t] # << >>
      PROVE  /\ Head(jobs[t])[1] \in Used /\ (Head(jobs[t])[1] = t \/ Dealing)
             /\ Head(jobs[t])[2] \in Task /\ AtJobs(t, Head(jobs[t])[2])
  <2>1. /\ Head(jobs[t]) = jobs[t][1] /\ 1 \in DOMAIN jobs[t] /\ jobs[t][1] \in Threads \X Task
    BY <1>b, <1>4
  <2>2. jobs[t][1][2] \in Task
    BY <2>1
  <2> QED
    BY <1>c, <2>1, <2>2 DEF JobsLocal, AtJobs
<1>5. PICK q, k : /\ PushHead(t, q, k) /\ q \in Used /\ (q = t \/ Dealing) /\ k \in Task
                  /\ ToPush(t, k)
                  /\ \A c : AtTodo(t, c)' \/ AtJobs(t, c)' => ToPush(t, c)
                  /\ \A c \in Counted : Inputs(c) > 1 => (c \in todo'[t] <=> c \in todo[t])
  <2>1. CASE PushReady(t)
    <3>1. /\ jobs[t] # << >> /\ PushHead(t, Head(jobs[t])[1], Head(jobs[t])[2])
          /\ jobs' = [jobs EXCEPT ![t] = Tail(@)] /\ UNCHANGED todo
      BY <2>1 DEF PushReady
    <3>2. \A c : AtJobs(t, c)' => AtJobs(t, c)
      <4> SUFFICES ASSUME NEW c, NEW j \in DOMAIN jobs'[t], jobs'[t][j][2] = c PROVE AtJobs(t, c)
        BY DEF AtJobs
      <4>1. jobs'[t] = Tail(jobs[t]) /\ jobs[t] \in Seq(Threads \X Task)
        BY <1>b, <3>1
      <4>2. \A l \in DOMAIN Tail(jobs[t]) :
              l + 1 \in DOMAIN jobs[t] /\ Tail(jobs[t])[l] = jobs[t][l + 1]
        BY <1>b, <3>1
      <4> QED
        BY <4>1, <4>2 DEF AtJobs
    <3> QED
      BY <1>4, <3>1, <3>2 DEF ToPush, AtTodo
  <2>2. CASE PushActivated(t)
    <3>1. /\ jobs[t] # << >> /\ PushHead(t, Head(jobs[t])[1], Head(jobs[t])[2])
          /\ jobs' = [jobs EXCEPT ![t] = << >>] /\ UNCHANGED todo
      BY <2>2 DEF PushActivated
    <3>2. \A c : ~ AtJobs(t, c)'
      BY <1>b, <3>1 DEF AtJobs
    <3> QED
      BY <1>4, <3>1, <3>2 DEF ToPush, AtTodo
  <2>3. CASE PushOutput(t)
    <3>1. PICK c \in todo[t] : /\ Inputs(c) = 1 /\ PushHead(t, t, c)
                               /\ todo' = [todo EXCEPT ![t] = @ \ {c}] /\ UNCHANGED jobs
      BY <2>3 DEF PushOutput
    <3>2. t \in Used /\ c \in Task
      BY <1>c, <2>3, TodoFacts DEF OutputLocal, PushOutput
    <3> QED
      BY <1>b, <3>1, <3>2 DEF ToPush, AtTodo, AtJobs
  <2> QED
    BY <2>1, <2>2, <2>3
<1>6. q \in Threads /\ fHead[q] \in Nat /\ fHead[q] \in Slots
  BY <1>5, HeadSlot
<1>7. /\ op'[t] = PushOp("incLoad", q, 0, k) /\ UNCHANGED <<fHead, fTail>>
      /\ fTaskList' = [fTaskList EXCEPT ![q][fHead[q]] = k]
  BY <1>b, <1>5 DEF PushHead
<1>8. fTaskList \in [Threads -> [Slots -> Task \cup {NoSlot}]]
  BY DEF Inv, TypeOK, QueueTypeOK
<1>9. /\ fTaskList'[q][fHead[q]] = k
      /\ \A r \in Threads : r # q => fTaskList'[r] = fTaskList[r]
      /\ \A j : j # fHead[q] => fTaskList'[q][j] = fTaskList[q][j]
  BY <1>6, <1>7, <1>8
<1>10. QueueFrame(t)
  <2>1. fTail \in [Threads -> Nat]
    BY DEF Inv, TypeOK, QueueTypeOK
  <2>2. q = t \/ Setup
    BY <1>5 DEF Dealing, Setup
  <2>3. \A r \in Threads : r # t /\ ~ Setup => fTaskList'[r] = fTaskList[r] /\ fHead'[r] = fHead[r]
    BY <1>7, <1>9, <2>2
  <2>4. \A r \in Threads : \A j \in 0 .. fHead[r] - 1 : fTaskList'[r][j] = fTaskList[r][j]
    BY <1>6, <1>9
  <2>5. \A r \in Threads : fTail'[r] >= fTail[r]
    BY <1>7, <2>1
  <2> QED
    BY <2>3, <2>4, <2>5 DEF QueueFrame
<1>11. SameGraph(t)
  BY <1>1, <1>5 DEF SameGraph
<1>12. OpOK(t)'
  <2>1. Used' = Used
    BY <1>3 DEF Frame, Used
  <2> QED
    BY <1>1, <1>5, <1>7, <1>9, <2>1 DEF OpOK, PushOp
<1>13. LatchOK(t)'
  BY <1>1 DEF LatchOK
<1>14. \A c : ToPush(t, c)' => ToPush(t, c)
  BY <1>5, <1>7 DEF ToPush, AtPush, PushOp
<1>15. \A c : Has(t, c)' => Has(t, c)
  BY <1>1, <1>7, <1>14 DEF Has, AtHand, AtKeep, AtLoad, PushOp
<1> QED
  BY <1>3, <1>7, <1>10, <1>11, <1>12, <1>13, <1>14, <1>15, QuietInv

\* IncHead reads the head that it is about to store.
LEMMA IncHeadLoadStep ==
  ASSUME Inv, Open, Open', NEW t \in Threads, Run(t), QueueOp(t), IncHeadLoad(t)
  PROVE  Inv'
<1>b. op \in [Threads -> Op]
  BY SelfTypes
<1> USE DEF queueVars, callVars, poolVars, locals, taskVars, outputVars, loopVars, history
<1>1. /\ UNCHANGED <<fTaskList, fHead, fTail, fTaskGraph, done, todo, keep, jobs, pc, tasknum>>
      /\ op[t].at = "incLoad"
      /\ op'[t] = PushOp("incStore", op[t].q, fHead[op[t].q], op[t].item)
  BY <1>b DEF QueueOp, IncHeadLoad
<1>2. pc[t] \in {"push", "activate"} /\ ~ LastTask(t)
  BY <1>1 DEF Inv, Locals, OpLocal, LastTask
<1>3. Frame(t) /\ Locals' /\ Pool' /\ computes' = computes
  BY <1>2, RunOpen
<1>4. QueueFrame(t)
  <2>1. fTail \in [Threads -> Nat]
    BY DEF Inv, TypeOK, QueueTypeOK
  <2> QED
    BY <1>1, <2>1 DEF QueueFrame
<1>5. SameGraph(t)
  BY <1>1 DEF SameGraph
<1>6. OpOK(t)'
  <2>1. Used' = Used /\ (Dealing' <=> Dealing)
    BY <1>1, <1>3 DEF Frame, Used, Dealing
  <2>2. OpOK(t)
    BY DEF Inv, OpInv, OpOK
  <2> QED
    BY <1>1, <2>1, <2>2 DEF OpOK, PushOp
<1>7. LatchOK(t)'
  BY <1>1, <1>2 DEF LatchOK
<1>8. \A k : (Has(t, k)' => Has(t, k)) /\ (ToPush(t, k)' => ToPush(t, k))
  BY <1>1 DEF Has, ToPush, AtHand, AtKeep, AtLoad, AtTodo, AtJobs, AtPush, PushOp
<1> QED
  BY <1>1, <1>3, <1>4, <1>5, <1>6, <1>7, <1>8, QuietInv

\* compute wakes the workers.
LEMMA WakeSteps ==
  ASSUME Inv, Open, Open', Locals', Pool', SignalAll \/ \E t \in Workers : Wake(t)
  PROVE  Inv'
<1>a. PICK S : pc \in [Threads -> S]
  BY Master, SelfTypes
<1>b. \E I : i \in [Threads -> I]
  BY Master, SelfTypes
<1> USE DEF Goto, queueVars, callVars, poolVars, locals, taskVars, outputVars, loopVars, history
<1>1. /\ UNCHANGED <<queueVars, fTaskGraph, done, todo, keep, jobs, tasknum, base, count, num>>
      /\ UNCHANGED <<fIndex, fFullcount, fDynamicNumThreads, computes, leftover>>
  BY DEF SignalAll, Wake
<1>2. PICK t \in Threads : /\ t = MASTER_THREAD \/ (t \in Workers /\ fSemaphore[t] > 0)
                           /\ \A u \in Threads : u # t => pc'[u] = pc[u] /\ i'[u] = i[u]
                           /\ pc'[t] \in {"signal", "loop"} /\ pc[t] \in {"signal", "wait"}
  <2>1. CASE SignalAll
    BY <1>a, <1>b, <2>1, Master DEF SignalAll
  <2>2. CASE \E w \in Workers : Wake(w)
    BY <1>a, <1>b, <2>2, Master DEF Wake
  <2> QED
    BY <2>1, <2>2
<1>3. tasknum[t] = WORK_STEALING_INDEX /\ WORK_STEALING_INDEX \notin Counted
  BY <1>2, TaskNumbers DEF Inv, Locals, TaskLocal
<1>4. Frame(t)
  <2>1. \A u \in Threads : u # t => SameThread(u)
    BY <1>1, <1>2 DEF SameThread
  <2>2. Setup => t = MASTER_THREAD
    <3>1. t \in Workers /\ Setup => fSemaphore[t] = 0
      BY SetupAlone
    <3> QED
      BY <1>2, <3>1
  <2>3. TypeOK'
    BY ComputeTypes
  <2> QED
    BY <1>1, <2>1, <2>2, <2>3 DEF Frame
<1>5. QueueFrame(t)
  <2>1. fTail \in [Threads -> Nat]
    BY DEF Inv, TypeOK, QueueTypeOK
  <2> QED
    BY <1>1, <2>1 DEF QueueFrame
<1>6. SameGraph(t)
  BY <1>1 DEF SameGraph
<1>7. op[t].at = "idle"
  <2>1. op[t] \in Op /\ OpLocal(t)
    BY DEF Inv, TypeOK, QueueTypeOK, Locals
  <2> QED
    BY <1>2, <2>1 DEF Op, OpLocal
<1>8. OpOK(t)' /\ LatchOK(t)'
  BY <1>1, <1>2, <1>7 DEF OpOK, LatchOK
<1>9. \A k \in Counted : (Has(t, k)' => Has(t, k)) /\ (ToPush(t, k)' => ToPush(t, k))
  BY <1>1, <1>2, <1>3, <1>7 DEF Has, ToPush, AtHand, AtKeep, AtLoad, AtTodo, AtJobs, AtPush
<1> QED
  BY <1>1, <1>4, <1>5, <1>6, <1>8, <1>9, QuietInv

-----------------------------------------------------------------------------
(***************************************************************************)
(* The two steps that change the word of a queue.                          *)
(***************************************************************************)
\* In an open vector a thread that steals or pops looks at a queue of the call.
LEMMA PopUsed ==
  ASSUME Inv, Open, NEW t \in Threads, pc[t] \in {"steal", "pop"}, op[t].at # "idle"
  PROVE  op[t].q \in Used /\ fIndex < fFullcount /\ ~ Setup
<1>1. ~ Setup
  <2>1. CASE t = MASTER_THREAD
    BY <2>1 DEF Setup
  <2>2. CASE t # MASTER_THREAD
    BY <2>2, SetupAlone, Master
  <2> QED
    BY <2>1, <2>2
<1>2. fIndex < fFullcount
  BY <1>1 DEF Open, Setup, Dealing
<1>3. OpLocal(t) /\ LoopLocal(t)
  BY DEF Inv, Locals
<1>4. CASE pc[t] = "pop"
  <2>1. op[t].q = t /\ t \in Used
    BY <1>2, <1>3, <1>4, RunnerUsed DEF OpLocal
  <2> QED
    BY <1>1, <1>2, <2>1
<1>5. CASE pc[t] = "steal"
  <2>1. op[t].q = i[t] /\ i[t] < fDynamicNumThreads
    BY <1>2, <1>3, <1>5 DEF OpLocal, LoopLocal
  <2>2. i[t] \in Nat /\ fDynamicNumThreads \in Nat
    BY SelfTypes
  <2> QED
    BY <1>1, <1>2, <2>1, <2>2 DEF Used
<1> QED
  BY <1>4, <1>5

\* The CAS of a pop takes the task out of the queue, and its thread has it.
LEMMA PopCASStep ==
  ASSUME Inv, Open, Open', NEW t \in Threads, Run(t), QueueOp(t), PopCAS(t)
  PROVE  Inv'
<1>b. op \in [Threads -> Op] /\ fHead \in [Threads -> Nat] /\ fTail \in [Threads -> Nat]
  BY DEF Inv, TypeOK, QueueTypeOK
<1> USE DEF queueVars, callVars, poolVars, locals, taskVars, outputVars, loopVars, history
<1>1. PICK q : q = op[t].q
  OBVIOUS
<1>2. PICK s : s = PoppedSlot(t)
  OBVIOUS
<1>3. op[t].at = "cas" /\ op[t].tail < op[t].head /\ fHead[q] = op[t].head /\ fTail[q] = op[t].tail
  BY <1>1 DEF PopCAS, WordIsOld, Inv, Locals, OpLocal
<1>4. pc[t] \in {"steal", "pop"} /\ ~ LastTask(t)
  <2>1. pc[t] \in {"steal", "pop", "stopped"}
    BY <1>3 DEF Inv, Locals, OpLocal
  <2> QED
    BY <2>1 DEF Run, LastTask
<1>5. q \in Used /\ fIndex < fFullcount /\ ~ Setup /\ q \in Threads
  <2>1. q \in Used /\ fIndex < fFullcount /\ ~ Setup
    BY <1>1, <1>3, <1>4, PopUsed
  <2> QED
    BY <2>1, HeadSlot
<1>6. /\ op[t].end \in {HeadEnd, TailEnd} /\ op[t].head \in Nat /\ op[t].tail \in Nat
      /\ op[t].end = HeadEnd => q = t /\ s = op[t].head - 1
      /\ op[t].end = TailEnd => s = op[t].tail
  <2>1. op[t] \in Op
    BY <1>b
  <2>2. op[t].end = HeadEnd => q = t
    BY <1>1, <1>3, <1>4 DEF Inv, Locals, OpLocal, HeadEnd, TailEnd
  <2> QED
    BY <1>2, <2>1, <2>2 DEF Op, PoppedSlot, HeadEnd, TailEnd
<1>7. /\ UNCHANGED <<fTaskList, fTaskGraph, done, todo, keep, jobs, pc, tasknum>>
      /\ op'[t] = PopOp("load", q, op[t].end, op[t].head, op[t].tail)
  BY <1>b, <1>1 DEF QueueOp, PopCAS
<1>8. /\ op[t].end = HeadEnd => fHead' = [fHead EXCEPT ![q] = op[t].head - 1] /\ fTail' = fTail
      /\ op[t].end = TailEnd => fTail' = [fTail EXCEPT ![q] = op[t].tail + 1] /\ fHead' = fHead
  BY <1>1 DEF PopCAS, HeadEnd, TailEnd
<1>9. Frame(t) /\ Locals' /\ Pool' /\ computes' = computes
  BY <1>4, RunOpen
<1>10. /\ \A r \in Threads : r # q => fHead'[r] = fHead[r] /\ fTail'[r] = fTail[r]
       /\ op[t].end = HeadEnd => fHead'[q] = fHead[q] - 1 /\ fTail'[q] = fTail[q]
       /\ op[t].end = TailEnd => fHead'[q] = fHead[q] /\ fTail'[q] = fTail[q] + 1
       /\ fTail[q] < fHead[q] /\ fTail[q] \in Nat /\ fHead[q] \in Nat
  BY <1>b, <1>3, <1>5, <1>6, <1>8
<1>11. /\ \A r \in Threads : fHead'[r] <= fHead[r] /\ fTail'[r] >= fTail[r]
       /\ \A r \in Threads : fTail'[r] <= fHead'[r]
  BY <1>b, <1>5, <1>6, <1>10 DEF Inv, WordInv
<1>12. QueueFrame(t)
  <2>1. \A r \in Threads : r # t => fHead'[r] = fHead[r]
    BY <1>6, <1>10
  <2> QED
    BY <1>7, <1>11, <2>1 DEF QueueFrame
<1>13. /\ s \in 0 .. fHead[q] - 1 /\ s \in Live(q) /\ s \notin Live(q)'
       /\ \A r \in Threads : \A j \in Live(r)' : j \in Live(r) /\ j \in 0 .. fHead[r] - 1
  BY <1>b, <1>3, <1>5, <1>6, <1>10 DEF Live
<1>14. SameGraph(t)
  BY <1>7 DEF SameGraph
<1>15. PICK k : k = fTaskList[q][s]
  OBVIOUS
<1>16. /\ k \in Task /\ Released(k) /\ ~ Ended(k) /\ \A u \in Threads : ~ Has(u, k)
       /\ \A r \in Used : \A j \in Live(r)' : fTaskList[r][j] # k
  <2>1. k \in Task /\ Released(k)
    BY <1>5, <1>13, <1>15 DEF Inv, SlotInv
  <2>2. ~ Ended(k) /\ \A u \in Threads : ~ Has(u, k)
    BY <1>5, <1>13, <1>15 DEF Inv, LiveInv
  <2>3. ASSUME NEW r \in Used, NEW j \in Live(r)', fTaskList[r][j] = k PROVE FALSE
    <3>1. j \in Live(r) /\ j \in 0 .. fHead[r] - 1
      BY <1>13, HeadSlot
    <3>2. r = q
      BY <1>5, <1>13, <1>15, <2>3, <3>1 DEF Inv, LiveInv
    <3>3. j = s
      BY <1>5, <1>13, <1>15, <2>3, <3>1, <3>2 DEF Inv, SlotInv
    <3> QED
      BY <1>13, <3>2, <3>3
  <2> QED
    BY <2>1, <2>2, <2>3
<1>17. PoppedTask(t)' = k
  BY <1>1, <1>2, <1>7, <1>15 DEF PoppedTask, PoppedSlot, PopOp
<1>18. \A c : ToPush(t, c)' => ToPush(t, c)
  BY <1>7 DEF ToPush, AtTodo, AtJobs, AtPush, PopOp
<1>19. \A c : Has(t, c)' => Has(t, c) \/ c = k
  BY <1>7, <1>17, <1>18 DEF Has, AtHand, AtKeep, AtLoad
<1>20. \A c \in Counted : (Ended(c)' <=> Ended(c)) /\ (Released(c)' <=> Released(c))
  BY <1>9, <1>14, GraphKept
<1>21. DoneInv' /\ CounterInv'
  BY <1>9, <1>14, GraphKept
<1>22. k \in Counted
  BY <1>16, TaskNumbers
<1>23. ReleaseInv' /\ OwnerInv' /\ SlotInv' /\ LiveInv'
  <2>1. \A c \in Counted : Has(t, c)' =>
          \/ Has(t, c)
          \/ /\ Released(c)' /\ ~ Ended(c)' /\ \A u \in Threads : ~ Has(u, c)
             /\ \A r \in Used : \A j \in Live(r)' : fTaskList[r][j] # c
    BY <1>16, <1>19, <1>20
  <2> QED
    BY <1>9, <1>11, <1>12, <1>18, <1>20, <2>1, TasksKept
<1>24. WordInv' /\ \A r \in Threads \ Used : EmptyQueue(r) => EmptyQueue(r)'
  BY <1>5, <1>10, <1>11 DEF WordInv, EmptyQueue
<1>25. LatchOK(t)'
  BY <1>4, <1>7 DEF LatchOK
<1>26. OpOK(t)'
  <2>1. Used' = Used
    BY <1>9 DEF Frame, Used
  <2>2. op[t].end = TailEnd => op[t].tail < fTail'[q]
    BY <1>3, <1>6, <1>10
  <2>3. op[t].end = HeadEnd => q = t /\ fHead'[t] = op[t].head - 1
    BY <1>3, <1>6, <1>10
  <2> QED
    BY <1>5, <1>7, <1>16, <1>17, <2>1, <2>2, <2>3 DEF OpOK, PopOp
<1> QED
  BY <1>9, <1>12, <1>21, <1>23, <1>24, <1>25, <1>26, OpenInv

\* The store of IncHead puts the task into the queue, and its thread has it no
\* more.
LEMMA IncHeadStoreStep ==
  ASSUME Inv, Open, Open', NEW t \in Threads, Run(t), QueueOp(t), IncHeadStore(t)
  PROVE  Inv'
<1>b. op \in [Threads -> Op] /\ fHead \in [Threads -> Nat] /\ fTail \in [Threads -> Nat]
  BY DEF Inv, TypeOK, QueueTypeOK
<1> USE DEF queueVars, callVars, poolVars, locals, taskVars, outputVars, loopVars, history
<1>1. PICK q : q = op[t].q
  OBVIOUS
<1>2. PICK k : k = op[t].item
  OBVIOUS
<1>3. /\ op[t].at = "incStore" /\ q \in Used /\ (q = t \/ Dealing)
      /\ fTaskList[q][fHead[q]] = k /\ k \in Task /\ op[t].head = fHead[q]
  BY <1>1, <1>2 DEF IncHeadStore, Inv, OpInv
<1>4. q \in Threads /\ fHead[q] \in Nat
  BY <1>3, HeadSlot
<1>5. /\ UNCHANGED <<fTaskList, fTail, fTaskGraph, done, todo, keep, jobs, pc, tasknum>>
      /\ op'[t] = IdleOp(t) /\ fHead' = [fHead EXCEPT ![q] = fHead[q] + 1]
  BY <1>b, <1>1, <1>3 DEF QueueOp, IncHeadStore
<1>6. pc[t] \in {"push", "activate"} /\ ~ LastTask(t)
  BY <1>3 DEF Inv, Locals, OpLocal, LastTask
<1>7. Frame(t) /\ Locals' /\ Pool' /\ computes' = computes
  BY <1>6, RunOpen
<1>8. fHead'[q] = fHead[q] + 1 /\ \A r \in Threads : r # q => fHead'[r] = fHead[r]
  BY <1>b, <1>4, <1>5
<1>9. QueueFrame(t)
  <2>1. q = t \/ Setup
    BY <1>3 DEF Dealing, Setup
  <2> QED
    BY <1>b, <1>5, <1>8, <2>1 DEF QueueFrame
<1>10. SameGraph(t)
  BY <1>5 DEF SameGraph
<1>11. \A c \in Counted : (Ended(c)' <=> Ended(c)) /\ (Released(c)' <=> Released(c))
  BY <1>7, <1>10, GraphKept
<1>12. DoneInv' /\ CounterInv'
  BY <1>7, <1>10, GraphKept
<1>13. k \in Counted /\ \A c \in Task : c \in Counted
  BY <1>3, TaskNumbers
<1>14. ToPush(t, k) /\ Has(t, k)
  BY <1>2, <1>3 DEF Has, ToPush, AtPush
<1>15. \A c \in Counted : Has(t, c)' => Has(t, c) /\ c # k
  <2>1. ~ AtHand(t, k) /\ ~ AtKeep(t, k) /\ ~ AtTodo(t, k) /\ ~ AtJobs(t, k)
    BY <1>2, <1>3, <1>13 DEF Inv, Locals, Apart, AtPush
  <2>2. ~ Has(t, k)'
    BY <1>5, <2>1 DEF Has, ToPush, AtHand, AtKeep, AtLoad, AtTodo, AtJobs, AtPush, IdleOp
  <2>3. \A c : Has(t, c)' => Has(t, c)
    BY <1>5 DEF Has, ToPush, AtHand, AtKeep, AtLoad, AtTodo, AtJobs, AtPush, IdleOp
  <2> QED
    BY <2>2, <2>3
<1>16. \A c \in Counted : ToPush(t, c)' => ToPush(t, c) /\ c # k
  <2>1. \A c : ToPush(t, c)' => ToPush(t, c)
    BY <1>5 DEF ToPush, AtTodo, AtJobs, AtPush, IdleOp
  <2>2. \A c : ToPush(t, c)' => Has(t, c)'
    BY DEF Has
  <2> QED
    BY <1>15, <2>1, <2>2
<1>17. \A u \in Threads : \A c : u # t => (Has(u, c)' <=> Has(u, c)) /\ (ToPush(u, c)' <=> ToPush(u, c))
  BY <1>7, <1>9, OthersHave
<1>18. /\ \A c \in Task : Ended(c) => Released(c)
       /\ \A u \in Threads, c \in Counted : Has(u, c) => Released(c) /\ ~ Ended(c)
  BY DEF Inv, ReleaseInv
<1>19. \A u, v \in Threads, c \in Counted : Has(u, c) /\ Has(v, c) => u = v
  BY DEF Inv, OwnerInv
<1>20. \A u \in Threads : \A c : ToPush(u, c) => Has(u, c)
  BY DEF Has
<1>21. \A u \in Threads : ~ Has(u, k)' /\ ~ ToPush(u, k)'
  BY <1>13, <1>14, <1>15, <1>16, <1>17, <1>19, <1>20
<1>22. ReleaseInv' /\ OwnerInv'
  BY <1>11, <1>13, <1>15, <1>17, <1>18, <1>19 DEF ReleaseInv, OwnerInv
<1>23. Used' = Used
  BY <1>7 DEF Frame, Used
<1>24. \A r \in Used : /\ \A j \in 0 .. fHead[r] - 1 :
                            /\ fTaskList[r][j] \in Task /\ Released(fTaskList[r][j])
                            /\ \A u \in Threads : ~ ToPush(u, fTaskList[r][j])
                       /\ \A j, l \in 0 .. fHead[r] - 1 : fTaskList[r][j] = fTaskList[r][l] => j = l
  BY DEF Inv, SlotInv
<1>25. \A r \in Used : \A j \in Live(r) :
         /\ ~ Ended(fTaskList[r][j])
         /\ \A u \in Threads : ~ Has(u, fTaskList[r][j])
         /\ \A p \in Used : \A l \in Live(p) : fTaskList[r][j] = fTaskList[p][l] => r = p
  BY DEF Inv, LiveInv
<1>26. /\ \A r \in Used : \A j \in 0 .. fHead'[r] - 1 :
            j \in 0 .. fHead[r] - 1 \/ (r = q /\ j = fHead[q])
       /\ \A r \in Used : \A j \in Live(r)' : /\ j \in Live(r) \/ (r = q /\ j = fHead[q])
                                              /\ j \in 0 .. fHead'[r] - 1
  <2> SUFFICES ASSUME NEW r \in Used
               PROVE  /\ \A j \in 0 .. fHead'[r] - 1 :
                           j \in 0 .. fHead[r] - 1 \/ (r = q /\ j = fHead[q])
                      /\ \A j \in Live(r)' : /\ j \in Live(r) \/ (r = q /\ j = fHead[q])
                                             /\ j \in 0 .. fHead'[r] - 1
    OBVIOUS
  <2>1. r \in Threads /\ fHead[r] \in Nat /\ fTail[r] \in Nat /\ fTail'[r] = fTail[r]
    BY <1>b, <1>5, HeadSlot
  <2> QED
    BY <1>4, <1>8, <2>1 DEF Live
<1>27. SlotInv'
  <2> SUFFICES ASSUME NEW r \in Used
               PROVE  (/\ \A j \in 0 .. fHead[r] - 1 :
                            /\ fTaskList[r][j] \in Task
                            /\ Released(fTaskList[r][j])
                            /\ \A u \in Threads : ~ ToPush(u, fTaskList[r][j])
                       /\ \A j, l \in 0 .. fHead[r] - 1 :
                            fTaskList[r][j] = fTaskList[r][l] => j = l)'
    BY <1>23 DEF SlotInv
  <2>1. ASSUME NEW j \in 0 .. fHead'[r] - 1
        PROVE  (/\ fTaskList[r][j] \in Task
                /\ Released(fTaskList[r][j])
                /\ \A u \in Threads : ~ ToPush(u, fTaskList[r][j]))'
    <3>1. PICK c : c = fTaskList[r][j]
      OBVIOUS
    <3>2. fTaskList'[r][j] = c
      BY <1>5, <3>1
    <3>3. c \in Task /\ Released(c) /\ \A u \in Threads : ~ ToPush(u, c)'
      <4>1. CASE j \in 0 .. fHead[r] - 1
        BY <1>13, <1>16, <1>17, <1>24, <3>1, <4>1
      <4>2. CASE r = q /\ j = fHead[q]
        BY <1>3, <1>13, <1>14, <1>18, <1>21, <3>1, <4>2
      <4> QED
        BY <1>26, <4>1, <4>2
    <3> QED
      BY <1>11, <1>13, <3>2, <3>3
  <2>2. \A j \in 0 .. fHead[r] - 1 : fTaskList[r][j] # k
    BY <1>14, <1>24
  <2>3. \A j, l \in 0 .. fHead'[r] - 1 : fTaskList[r][j] = fTaskList[r][l] => j = l
    BY <1>3, <1>24, <1>26, <2>2
  <2> QED
    BY <1>5, <2>1, <2>3
<1>28. LiveInv'
  <2> SUFFICES ASSUME NEW r \in Used, NEW j \in Live(r)'
               PROVE  (/\ ~ Ended(fTaskList[r][j])
                       /\ \A u \in Threads : ~ Has(u, fTaskList[r][j])
                       /\ \A p \in Used : \A l \in Live(p) :
                            fTaskList[r][j] = fTaskList[p][l] => r = p)'
    BY <1>23 DEF LiveInv
  <2>1. PICK c : c = fTaskList[r][j]
    OBVIOUS
  <2>2. fTaskList'[r][j] = c
    BY <1>5, <2>1
  <2>3. c \in Counted /\ ~ Ended(c) /\ \A u \in Threads : ~ Has(u, c)'
    <3>1. CASE j \in Live(r)
      <4>1. j \in 0 .. fHead[r] - 1
        <5>1. fHead[r] \in Nat /\ fTail[r] \in Nat
          BY <1>b, HeadSlot
        <5> QED
          BY <3>1, <5>1 DEF Live
      <4> QED
        BY <1>13, <1>15, <1>17, <1>24, <1>25, <2>1, <3>1, <4>1
    <3>2. CASE r = q /\ j = fHead[q]
      BY <1>3, <1>13, <1>14, <1>18, <1>21, <2>1, <3>2
    <3> QED
      BY <1>26, <3>1, <3>2
  <2>4. \A p \in Used : \A l \in Live(p) : fTaskList[p][l] # k
    BY <1>14, <1>25
  <2>5. \A p \in Used : \A l \in Live(p)' : fTaskList[r][j] = fTaskList[p][l] => r = p
    BY <1>3, <1>25, <1>26, <2>4
  <2> QED
    BY <1>5, <1>11, <1>23, <2>2, <2>3, <2>5
<1>29. WordInv' /\ \A r \in Threads \ Used : EmptyQueue(r) => EmptyQueue(r)'
  <2>1. \A r \in Threads : fTail[r] <= fHead[r] /\ fTail[r] \in Nat /\ fHead[r] \in Nat
    BY <1>b DEF Inv, WordInv
  <2> QED
    BY <1>3, <1>5, <1>8, <2>1 DEF WordInv, EmptyQueue
<1>30. LatchOK(t)' /\ OpOK(t)'
  BY <1>5, <1>6 DEF LatchOK, OpOK, IdleOp
<1> QED
  BY <1>7, <1>9, <1>12, <1>22, <1>27, <1>28, <1>29, <1>30, OpenInv

-----------------------------------------------------------------------------
(***************************************************************************)
(* The steps that change the graph.                                        *)
(***************************************************************************)
LEMMA FiniteCounts ==
  ASSUME NEW k \in Counted
  PROVE  /\ IsFiniteSet(Waiting(k)) /\ IsFiniteSet(Activators(k))
         /\ Cardinality(Waiting(k)) \in Nat /\ Cardinality(Activators(k)) \in Nat
<1>1. IsFiniteSet(Threads)
  BY ThreadNumbers, FS_Interval
<1>2. Activators(k) \subseteq Threads /\ Waiting(k) \subseteq Preds(k) /\ IsFiniteSet(Preds(k))
  BY InputsType DEF Activators, Waiting
<1>3. IsFiniteSet(Waiting(k)) /\ IsFiniteSet(Activators(k))
  BY <1>1, <1>2, FS_Subset
<1> QED
  BY <1>3, FS_CardinalityType

\* A decrement by thread t: the thread whose decrement gives zero gets the task.
LEMMA ActivateInv ==
  ASSUME Inv, Open, Open', NEW t \in Threads, Frame(t), Locals', Pool', computes' = computes,
         NEW c \in todo[t], Inputs(c) > 1,
         UNCHANGED <<fTaskList, fHead, fTail, done>>,
         fTaskGraph' = [fTaskGraph EXCEPT ![c] = @ - 1],
         todo'[t] = todo[t] \ {c}, OpOK(t)', LatchOK(t)',
         \A k \in Counted : Has(t, k)' => Has(t, k) \/ (k = c /\ fTaskGraph[c] - 1 = 0),
         \A k \in Counted : ToPush(t, k)' => ToPush(t, k) \/ k = c
  PROVE  Inv'
<1>1. /\ c \in Counted /\ ~ Released(c) /\ ~ Ended(c)
      /\ fTaskGraph \in [Counted -> Int] /\ fHead \in [Threads -> Nat] /\ fTail \in [Threads -> Nat]
  BY TodoFacts DEF Inv, TypeOK, QueueTypeOK
<1>2. Free(c)
  BY <1>1, UnreleasedFree
<1>3. \A k : (Ended(k)' <=> Ended(k)) /\ Waiting(k)' = Waiting(k)
  <2>1. \A k : Ended(k)' <=> Ended(k)
    BY DEF Frame, Ended
  <2> QED
    BY <2>1 DEF Waiting, Preds
<1>4. /\ Activators(c)' = Activators(c) \ {t} /\ t \in Activators(c)
      /\ \A k : k # c => Activators(k)' = Activators(k)
  BY DEF Activators, Frame, SameThread
<1>5. /\ IsFiniteSet(Activators(c)) /\ Cardinality(Waiting(c)) \in Nat
      /\ Cardinality(Activators(c)) \in Nat /\ IsFiniteSet(Waiting(c))
  BY <1>1, FiniteCounts
<1>6. Cardinality(Activators(c)') = Cardinality(Activators(c)) - 1 /\ IsFiniteSet(Activators(c)')
  BY <1>4, <1>5, FS_RemoveElement
<1>7. \A k \in Counted :
        Inputs(k) > 1 => fTaskGraph[k] = Cardinality(Waiting(k)) + Cardinality(Activators(k))
  BY DEF Inv, CounterInv
<1>8. CounterInv'
  <2> SUFFICES ASSUME NEW k \in Counted, Inputs(k) > 1
               PROVE  fTaskGraph'[k] = Cardinality(Waiting(k)') + Cardinality(Activators(k)')
    BY DEF CounterInv, Inputs, LastStage, Outputs
  <2>1. CASE k = c
    BY <1>1, <1>3, <1>5, <1>6, <1>7, <2>1
  <2>2. CASE k # c
    BY <1>1, <1>3, <1>4, <1>7, <2>2
  <2> QED
    BY <2>1, <2>2
<1>9. fTaskGraph[c] - 1 = 0 => Released(c)'
  <2> SUFFICES ASSUME fTaskGraph[c] - 1 = 0 PROVE Waiting(c)' = {} /\ Activators(c)' = {}
    BY DEF Released
  <2>1. fTaskGraph[c] = Cardinality(Waiting(c)) + Cardinality(Activators(c)) /\ fTaskGraph[c] \in Int
    BY <1>1, <1>7
  <2>2. Cardinality(Activators(c)') \in Nat
    BY <1>6, FS_CardinalityType
  <2>3. Cardinality(Waiting(c)) = 0 /\ Cardinality(Activators(c)') = 0
    BY <1>5, <1>6, <2>1, <2>2
  <2> QED
    BY <1>3, <1>5, <1>6, <2>3, FS_EmptySet
<1>10. \A k \in Counted : Released(k) => Released(k)'
  <2> SUFFICES ASSUME NEW k \in Counted, Released(k) PROVE Released(k)'
    OBVIOUS
  <2>1. k # c
    BY <1>1
  <2> QED
    BY <1>3, <1>4, <2>1 DEF Released
<1>11. QueueFrame(t)
  BY <1>1 DEF QueueFrame
<1>12. ReleaseInv' /\ OwnerInv' /\ SlotInv' /\ LiveInv'
  <2>0. \A q \in Threads : fHead'[q] <= fHead[q]
    BY <1>1
  <2>1. \A k \in Counted : Has(t, k)' =>
          \/ Has(t, k)
          \/ /\ Released(k)' /\ ~ Ended(k)' /\ \A u \in Threads : ~ Has(u, k)
             /\ \A q \in Used : \A j \in Live(q)' : fTaskList[q][j] # k
    <3>1. \A u \in Threads : ~ Has(u, c)
      BY <1>2 DEF Free
    <3>2. \A q \in Used : \A j \in Live(q)' : fTaskList[q][j] # c
      <4> SUFFICES ASSUME NEW q \in Used, NEW j \in Live(q)' PROVE fTaskList[q][j] # c
        OBVIOUS
      <4>1. q \in Threads /\ fHead[q] \in Nat /\ fTail[q] \in Nat
        BY <1>1, HeadSlot
      <4>2. j \in 0 .. fHead[q] - 1
        BY <4>1 DEF Live
      <4> QED
        BY <1>2, <4>2 DEF Free
    <3> QED
      BY <1>1, <1>3, <1>9, <3>1, <3>2
  <2>2. \A k \in Counted : Ended(k)' => Ended(k)
    BY <1>3
  <2>3. \A k \in Counted : ToPush(t, k)' => ToPush(t, k) \/ Free(k)
    BY <1>2
  <2> QED
    BY <1>10, <1>11, <2>0, <2>1, <2>2, <2>3, TasksKept
<1>13. DoneInv'
  BY DEF Inv, DoneInv, Frame
<1>14. WordInv' /\ \A q \in Threads \ Used : EmptyQueue(q) => EmptyQueue(q)'
  BY DEF Inv, WordInv, EmptyQueue
<1> QED
  BY <1>8, <1>11, <1>12, <1>13, <1>14, OpenInv

\* activateOutputTask and ActivateOneOutputTask, where atomic_xadd returns the
\* new value.
LEMMA ActivateSteps ==
  ASSUME Inv, XaddReturnsNew, Open, Open', NEW t \in Threads, Run(t),
         ActivateOneOutputTask(t) \/ ActivateOutputTask(t)
  PROVE  Inv'
<1>a. PICK S : pc \in [Threads -> S]
  BY SelfTypes
<1>b. /\ op \in [Threads -> Op] /\ tasknum \in [Threads -> Counted \cup {WORK_STEALING_INDEX}]
      /\ keep \in [Threads -> Task \cup {WORK_STEALING_INDEX}]
      /\ todo \in [Threads -> SUBSET Counted] /\ jobs \in [Threads -> Seq(Threads \X Task)]
  BY SelfTypes
<1>c. OpLocal(t) /\ OutputLocal(t) /\ JobsLocal(t) /\ WORK_STEALING_INDEX \notin Counted
  BY TaskNumbers DEF Inv, Locals
<1> USE DEF Goto, Set, queueVars, callVars, poolVars, locals, taskVars, outputVars, loopVars, history
<1>1. PICK c \in todo[t] :
        /\ Inputs(c) > 1 /\ fTaskGraph' = [fTaskGraph EXCEPT ![c] = @ - 1]
        /\ todo'[t] = todo[t] \ {c} /\ pc[t] \in {"one", "activate"} /\ pc'[t] \in {"loop", "pop", "activate"}
        /\ \A k \in Counted : AtHand(t, k)' \/ AtJobs(t, k)' =>
             AtHand(t, k) \/ AtJobs(t, k) \/ (k = c /\ fTaskGraph[c] - 1 = 0)
        /\ \A k \in Counted : AtJobs(t, k)' => AtJobs(t, k) \/ k = c
  <2>1. CASE ActivateOneOutputTask(t)
    <3>1. PICK c \in todo[t] :
            /\ pc[t] = "one" /\ fTaskGraph' = [fTaskGraph EXCEPT ![c] = @ - 1]
            /\ \/ /\ fTaskGraph[c] - 1 = 0 /\ tasknum' = [tasknum EXCEPT ![t] = c]
                  /\ pc' = [pc EXCEPT ![t] = "loop"]
               \/ UNCHANGED tasknum /\ pc' = [pc EXCEPT ![t] = "pop"]
            /\ todo' = [todo EXCEPT ![t] = {}] /\ UNCHANGED <<keep, jobs>>
      BY <2>1 DEF ActivateOneOutputTask, DecIsZero
    <3>2. todo[t] = {c} /\ Inputs(c) > 1
      BY <1>c, <3>1 DEF OutputLocal
    <3>3. todo'[t] = todo[t] \ {c} /\ pc'[t] \in {"loop", "pop", "activate"}
      BY <1>a, <1>b, <3>1, <3>2
    <3>4. \A k \in Counted : AtHand(t, k)' => k = c /\ fTaskGraph[c] - 1 = 0
      BY <1>a, <1>b, <3>1 DEF AtHand
    <3>5. \A k : AtJobs(t, k)' => AtJobs(t, k)
      BY <3>1 DEF AtJobs
    <3> QED
      BY <3>1, <3>2, <3>3, <3>4, <3>5
  <2>2. CASE ActivateOutputTask(t)
    <3>1. PICK c \in todo[t] :
            /\ pc[t] = "activate" /\ Inputs(c) > 1 /\ fTaskGraph' = [fTaskGraph EXCEPT ![c] = @ - 1]
            /\ todo' = [todo EXCEPT ![t] = @ \ {c}] /\ UNCHANGED <<pc, keep>>
            /\ \/ UNCHANGED <<tasknum, jobs>>
               \/ /\ fTaskGraph[c] - 1 = 0 /\ keep[t] = WORK_STEALING_INDEX
                  /\ tasknum' = [tasknum EXCEPT ![t] = c] /\ UNCHANGED jobs
               \/ /\ fTaskGraph[c] - 1 = 0 /\ jobs' = [jobs EXCEPT ![t] = << <<t, c>> >>]
                  /\ UNCHANGED tasknum
      BY <2>2 DEF ActivateOutputTask, DecIsZero
    <3>2. todo'[t] = todo[t] \ {c}
      BY <1>b, <3>1
    <3>3. \A k : AtHand(t, k)' => AtHand(t, k) \/ (k = c /\ fTaskGraph[c] - 1 = 0)
      BY <1>b, <3>1 DEF AtHand
    <3>4. \A k : AtJobs(t, k)' => AtJobs(t, k) \/ (k = c /\ fTaskGraph[c] - 1 = 0)
      <4>1. CASE UNCHANGED jobs
        BY <4>1 DEF AtJobs
      <4>2. CASE fTaskGraph[c] - 1 = 0 /\ jobs' = [jobs EXCEPT ![t] = << <<t, c>> >>]
        <5>1. jobs'[t] = << <<t, c>> >>
          BY <1>b, <4>2
        <5>2. \A j \in DOMAIN jobs'[t] : jobs'[t][j][2] = c
          BY <5>1
        <5> QED
          BY <4>2, <5>2 DEF AtJobs
      <4> QED
        BY <3>1, <4>1, <4>2
    <3> QED
      BY <3>1, <3>2, <3>3, <3>4
  <2> QED
    BY <2>1, <2>2
<1>2. UNCHANGED <<fTaskList, fHead, fTail, op, done, keep>>
  BY DEF ActivateOneOutputTask, ActivateOutputTask
<1>3. ~ LastTask(t)
  BY <1>1 DEF LastTask
<1>4. Frame(t) /\ Locals' /\ Pool' /\ computes' = computes
  BY <1>3, RunOpen
<1>5. op[t].at = "idle"
  <2>1. CASE ActivateOutputTask(t)
    BY <2>1 DEF ActivateOutputTask, Ready
  <2>2. CASE ActivateOneOutputTask(t)
    BY <1>b, <1>c, <2>2 DEF ActivateOneOutputTask, OpLocal, Op
  <2> QED
    BY <2>1, <2>2
<1>6. OpOK(t)' /\ LatchOK(t)'
  BY <1>1, <1>2, <1>5 DEF OpOK, LatchOK
<1>7. \A k : (AtKeep(t, k)' => AtKeep(t, k)) /\ ~ AtLoad(t, k)' /\ ~ AtPush(t, k)'
              /\ (AtTodo(t, k)' => AtTodo(t, k))
  BY <1>1, <1>2, <1>5 DEF AtKeep, AtLoad, AtPush, AtTodo
<1>8. \A k \in Counted : Has(t, k)' => Has(t, k) \/ (k = c /\ fTaskGraph[c] - 1 = 0)
  BY <1>1, <1>7 DEF Has, ToPush
<1>9. \A k \in Counted : ToPush(t, k)' => ToPush(t, k) \/ k = c
  BY <1>1, <1>7 DEF ToPush
<1> QED
  BY <1>1, <1>2, <1>4, <1>6, <1>8, <1>9, ActivateInv

\* The task thread t runs: it has rendered the vectors before and will have
\* rendered this one.
LEMMA EndSamples ==
  ASSUME Inv, NEW t \in Threads, EndOfTask(t)
  PROVE  LET k == tasknum[t] IN
         /\ Open /\ fIndex < fFullcount /\ k \in Task /\ done[k] = fIndex
         /\ Has(t, k) /\ Released(k) /\ ~ Ended(k)
         /\ done[k] + count[t] = Min(fIndex + VecSize, fFullcount)
         /\ done[k] + count[t] > fIndex
<1>1. PICK k : k = tasknum[t]
  OBVIOUS
<1>2. k \in Task /\ pc[t] = "run" /\ k \in Counted
  BY <1>1, EndEffect, TaskNumbers
<1>3. Open /\ fIndex < fFullcount
  BY <1>2, LastOpen
<1>4. Has(t, k)
  BY <1>1, <1>2 DEF Has, AtHand
<1>5. Released(k) /\ ~ Ended(k)
  BY <1>2, <1>3, <1>4 DEF Inv, ReleaseInv
<1>6. fIndex \in Nat /\ fFullcount \in Nat /\ VecSize \in Nat /\ VecSize >= 1 /\ done[k] \in Nat
  BY <1>2, Samples DEF Inv, TypeOK
<1>7. done[k] \in {fIndex, Min(fIndex + VecSize, fFullcount)}
  BY <1>2, <1>3 DEF Inv, DoneInv
<1>8. count[t] = Min(VecSize, fFullcount - fIndex)
  BY <1>2 DEF Inv, LatchInv, IndexIsLatched
<1>9. ~ (done[k] > fIndex)
  BY <1>2, <1>5 DEF Ended
<1>10. /\ done[k] = fIndex /\ done[k] + count[t] = Min(fIndex + VecSize, fFullcount)
       /\ done[k] + count[t] > fIndex
  BY <1>3, <1>6, <1>7, <1>8, <1>9 DEF Min
<1> QED
  BY <1>1, <1>2, <1>3, <1>4, <1>5, <1>10

\* The end of a task: what waited for it alone is released, and goes to the
\* thread; what waits for more has one more activation to come.
LEMMA EndStep ==
  ASSUME Inv, Open', NEW t \in Threads, Run(t), EndOfTask(t)
  PROVE  Inv'
<1>a. PICK S : pc \in [Threads -> S]
  BY SelfTypes
<1>b. /\ op \in [Threads -> Op] /\ tasknum \in [Threads -> Counted \cup {WORK_STEALING_INDEX}]
      /\ keep \in [Threads -> Task \cup {WORK_STEALING_INDEX}]
      /\ todo \in [Threads -> SUBSET Counted] /\ done \in [Task -> Nat]
      /\ fHead \in [Threads -> Nat] /\ fTail \in [Threads -> Nat]
  BY SelfTypes DEF Inv, TypeOK, QueueTypeOK
<1>c. OpLocal(t) /\ OutputLocal(t) /\ JobsLocal(t)
  BY DEF Inv, Locals
<1>d. WORK_STEALING_INDEX \notin Counted /\ \A c \in Task : c \in Counted
  BY TaskNumbers
<1> USE DEF Goto, Set, queueVars, callVars, poolVars, locals, taskVars, outputVars, loopVars, history
<1>1. PICK k : k = tasknum[t]
  OBVIOUS
<1>2. /\ Open /\ fIndex < fFullcount /\ k \in Task /\ done[k] = fIndex
      /\ Has(t, k) /\ Released(k) /\ ~ Ended(k)
      /\ done[k] + count[t] = Min(fIndex + VecSize, fFullcount)
      /\ done[k] + count[t] > fIndex
  BY <1>1, EndSamples
<1>3. /\ pc[t] = "run" /\ done' = [done EXCEPT ![k] = @ + count[t]]
      /\ UNCHANGED <<fTaskList, fHead, fTail, op, fTaskGraph, jobs>>
  BY <1>1, EndEffect
<1>4. /\ \/ \E c \in Succs(k) :
              /\ Inputs(c) = 1 /\ Succs(k) = {c}
              /\ Set(t, c) /\ Goto(t, "loop") /\ UNCHANGED <<todo, keep>>
         \/ \E c \in Succs(k) :
              /\ Inputs(c) > 1 /\ Succs(k) = {c}
              /\ todo' = [todo EXCEPT ![t] = {c}]
              /\ Goto(t, "one") /\ UNCHANGED <<tasknum, keep>>
         \/ /\ Succs(k) \subseteq Task /\ \A c \in Succs(k) : Inputs(c) > 1
            /\ Set(t, WORK_STEALING_INDEX) /\ todo' = [todo EXCEPT ![t] = Succs(k)]
            /\ Goto(t, "activate") /\ UNCHANGED keep
         \/ \E c \in Succs(k) :
              /\ Succs(k) \subseteq Task /\ Inputs(c) = 1
              /\ todo' = [todo EXCEPT ![t] = Succs(k) \ {c}]
              /\ keep' = [keep EXCEPT ![t] = c]
              /\ Goto(t, "activate") /\ UNCHANGED tasknum
  BY <1>1, EndEffect
<1>5. /\ k \notin Succs(k) /\ \A c \in Succs(k) : c \in Counted /\ Inputs(c) \in Nat /\ Inputs(c) >= 1
      /\ \A c \in Succs(k) : Inputs(c) = 1 => Preds(c) = {k}
  BY <1>2, SuccsFacts DEF Succs
<1>6. todo[t] = {} /\ keep[t] = WORK_STEALING_INDEX /\ jobs[t] = << >> /\ op[t].at = "idle"
  BY <1>b, <1>c, <1>3 DEF OutputLocal, JobsLocal, OpLocal, Op
<1>7. ~ LastTask(t)
  BY <1>3 DEF LastTask
<1>8. Frame(t) /\ Locals' /\ Pool' /\ computes' = computes
  BY <1>2, <1>7, RunOpen
<1>9. /\ pc'[t] # "run"
      /\ \A c \in Counted : Inputs(c) > 1 => (c \in todo'[t] <=> c \in Succs(k))
      /\ \A c \in Counted : Has(t, c)' => c \in Succs(k) /\ Inputs(c) = 1
  <2>0. \A c \in Counted : ~ AtJobs(t, c)' /\ ~ AtPush(t, c)' /\ ~ AtLoad(t, c)'
    BY <1>3, <1>6 DEF AtJobs, AtPush, AtLoad
  <2>1. CASE \E c \in Succs(k) :
              /\ Inputs(c) = 1 /\ Succs(k) = {c}
              /\ Set(t, c) /\ Goto(t, "loop") /\ UNCHANGED <<todo, keep>>
    <3>1. PICK c \in Succs(k) :
              /\ Inputs(c) = 1 /\ Succs(k) = {c} /\ tasknum'[t] = c /\ pc'[t] = "loop"
              /\ todo'[t] = {} /\ keep'[t] = WORK_STEALING_INDEX
      BY <1>a, <1>b, <1>6, <2>1
    <3>2. \A x \in Counted : Has(t, x)' => x = c
      BY <1>d, <2>0, <3>1 DEF Has, ToPush, AtHand, AtKeep, AtTodo
    <3> QED
      BY <3>1, <3>2
  <2>2. CASE \E c \in Succs(k) :
              /\ Inputs(c) > 1 /\ Succs(k) = {c}
              /\ todo' = [todo EXCEPT ![t] = {c}]
              /\ Goto(t, "one") /\ UNCHANGED <<tasknum, keep>>
    <3>1. PICK c \in Succs(k) :
              /\ Inputs(c) > 1 /\ Succs(k) = {c} /\ pc'[t] = "one"
              /\ todo'[t] = {c} /\ keep'[t] = WORK_STEALING_INDEX
      BY <1>a, <1>b, <1>6, <2>2
    <3>2. \A x \in Counted : ~ Has(t, x)'
      BY <1>d, <2>0, <3>1 DEF Has, ToPush, AtHand, AtKeep, AtTodo
    <3> QED
      BY <3>1, <3>2
  <2>3. CASE /\ Succs(k) \subseteq Task /\ \A c \in Succs(k) : Inputs(c) > 1
             /\ Set(t, WORK_STEALING_INDEX) /\ todo' = [todo EXCEPT ![t] = Succs(k)]
             /\ Goto(t, "activate") /\ UNCHANGED keep
    <3>1. /\ tasknum'[t] = WORK_STEALING_INDEX /\ pc'[t] = "activate"
          /\ todo'[t] = Succs(k) /\ keep'[t] = WORK_STEALING_INDEX
      BY <1>a, <1>b, <1>6, <2>3
    <3>2. \A x \in Counted : ~ Has(t, x)'
      BY <1>d, <2>0, <2>3, <3>1 DEF Has, ToPush, AtHand, AtKeep, AtTodo
    <3> QED
      BY <3>1, <3>2
  <2>4. CASE \E c \in Succs(k) :
              /\ Succs(k) \subseteq Task /\ Inputs(c) = 1
              /\ todo' = [todo EXCEPT ![t] = Succs(k) \ {c}]
              /\ keep' = [keep EXCEPT ![t] = c]
              /\ Goto(t, "activate") /\ UNCHANGED tasknum
    <3>1. PICK c \in Succs(k) :
              /\ Inputs(c) = 1 /\ c \in Task
              /\ todo'[t] = Succs(k) \ {c} /\ keep'[t] = c /\ pc'[t] = "activate"
      BY <1>a, <1>b, <2>4
    <3>2. \A x \in Counted : Has(t, x)' => x \in Succs(k) /\ Inputs(x) = 1
      BY <1>d, <2>0, <3>1 DEF Has, ToPush, AtHand, AtKeep, AtTodo
    <3> QED
      BY <3>1, <3>2
  <2> QED
    BY <1>4, <2>1, <2>2, <2>3, <2>4
<1>10. /\ \A c \in Task : c # k => done'[c] = done[c]
       /\ done'[k] = Min(fIndex + VecSize, fFullcount) /\ done'[k] > fIndex
  BY <1>b, <1>2, <1>3
<1>11. \A c : Ended(c)' <=> Ended(c) \/ c = k
  BY <1>2, <1>8, <1>10 DEF Ended, Frame
<1>12. \A c : Waiting(c)' = Waiting(c) \ {k}
  BY <1>11 DEF Waiting, Preds
<1>13. \A c \in Counted : c \in Succs(k) <=> k \in Waiting(c)
  BY <1>2 DEF Succs, Waiting
<1>14. \A c \in Counted : Inputs(c) > 1 =>
         /\ t \notin Activators(c)
         /\ Activators(c)' = IF c \in Succs(k) THEN Activators(c) \cup {t} ELSE Activators(c)
  BY <1>6, <1>8, <1>9 DEF Activators, Frame, SameThread
<1>15. CounterInv'
  <2> SUFFICES ASSUME NEW c \in Counted, Inputs(c) > 1
               PROVE  fTaskGraph'[c] = Cardinality(Waiting(c)') + Cardinality(Activators(c)')
    BY DEF CounterInv, Inputs, LastStage, Outputs
  <2>1. /\ IsFiniteSet(Waiting(c)) /\ IsFiniteSet(Activators(c))
        /\ Cardinality(Waiting(c)) \in Nat /\ Cardinality(Activators(c)) \in Nat
    BY FiniteCounts
  <2>2. fTaskGraph'[c] = Cardinality(Waiting(c)) + Cardinality(Activators(c))
    BY <1>2, <1>3 DEF Inv, CounterInv
  <2>3. CASE c \in Succs(k)
    <3>1. Cardinality(Waiting(c)') = Cardinality(Waiting(c)) - 1
      BY <1>12, <1>13, <2>1, <2>3, FS_RemoveElement
    <3>2. Cardinality(Activators(c)') = Cardinality(Activators(c)) + 1
      BY <1>14, <2>1, <2>3, FS_AddElement
    <3> QED
      BY <2>1, <2>2, <3>1, <3>2
  <2>4. CASE c \notin Succs(k)
    <3>1. Waiting(c)' = Waiting(c) /\ Activators(c)' = Activators(c)
      BY <1>12, <1>13, <1>14, <2>4
    <3> QED
      BY <2>2, <3>1
  <2> QED
    BY <2>3, <2>4
<1>16. \A c \in Counted : Released(c) => Released(c)' /\ c \notin Succs(k)
  BY <1>12, <1>13, <1>14 DEF Released
<1>17. \A c \in Succs(k) : Inputs(c) = 1 => Released(c)' /\ ~ Ended(c)' /\ Free(c)
  <2> SUFFICES ASSUME NEW c \in Succs(k), Inputs(c) = 1 PROVE Released(c)' /\ ~ Ended(c)' /\ Free(c)
    OBVIOUS
  <2>1. Waiting(c)' = {}
    BY <1>5, <1>12 DEF Waiting
  <2>2. ~ Released(c) /\ c \in Counted /\ c # k
    BY <1>5, <1>16
  <2>3. ~ Ended(c)
    BY <1>2, <2>2 DEF Inv, ReleaseInv, Ended
  <2>4. Free(c)
    BY <1>2, <2>2, UnreleasedFree
  <2>5. Released(c)'
    BY <2>1 DEF Released, Inputs, LastStage, Outputs
  <2> QED
    BY <1>11, <2>2, <2>3, <2>4, <2>5
<1>18. QueueFrame(t)
  BY <1>b, <1>3 DEF QueueFrame
<1>19. ReleaseInv' /\ OwnerInv' /\ SlotInv' /\ LiveInv'
  <2>0. \A q \in Threads : fHead'[q] <= fHead[q]
    BY <1>b, <1>3
  <2>1. \A c \in Counted : Has(t, c)' =>
           /\ Released(c)' /\ ~ Ended(c)' /\ \A u \in Threads : ~ Has(u, c)
           /\ \A q \in Used : \A j \in Live(q)' : fTaskList[q][j] # c
    <3> SUFFICES ASSUME NEW c \in Counted, Has(t, c)'
                 PROVE  /\ Released(c)' /\ ~ Ended(c)' /\ \A u \in Threads : ~ Has(u, c)
                        /\ \A q \in Used : \A j \in Live(q)' : fTaskList[q][j] # c
      OBVIOUS
    <3>1. Released(c)' /\ ~ Ended(c)' /\ Free(c)
      BY <1>9, <1>17
    <3>2. ASSUME NEW q \in Used, NEW j \in Live(q)' PROVE fTaskList[q][j] # c
      <4>1. q \in Threads /\ fHead[q] \in Nat /\ fTail[q] \in Nat
        BY <1>b, <1>2, HeadSlot
      <4>2. j \in 0 .. fHead[q] - 1
        BY <1>3, <4>1 DEF Live
      <4> QED
        BY <3>1, <4>2 DEF Free
    <3> QED
      BY <3>1, <3>2 DEF Free
  <2>2. \A c \in Counted : Ended(c)' => Ended(c) \/ (Has(t, c) /\ ~ Has(t, c)')
    BY <1>2, <1>5, <1>9, <1>11
  <2>3. \A c \in Counted : ToPush(t, c)' => Free(c)
    BY <1>9, <1>17 DEF Has
  <2> QED
    BY <1>2, <1>8, <1>16, <1>18, <2>0, <2>1, <2>2, <2>3, TasksKept
<1>20. DoneInv'
  <2>1. \A c \in Task : done[c] \in {fIndex, Min(fIndex + VecSize, fFullcount)}
    BY <1>2 DEF Inv, DoneInv
  <2>2. \A c \in Task : done'[c] \in {fIndex, Min(fIndex + VecSize, fFullcount)}
    BY <1>10, <2>1
  <2> QED
    BY <1>8, <2>2 DEF DoneInv, Frame
<1>21. WordInv' /\ \A q \in Threads \ Used : EmptyQueue(q) => EmptyQueue(q)'
  BY <1>3 DEF Inv, WordInv, EmptyQueue
<1>22. OpOK(t)' /\ LatchOK(t)'
  BY <1>3, <1>6, <1>9 DEF OpOK, LatchOK
<1> QED
  BY <1>2, <1>8, <1>15, <1>18, <1>19, <1>20, <1>21, <1>22, OpenInv

-----------------------------------------------------------------------------
(***************************************************************************)
(* Between two vectors.                                                    *)
(***************************************************************************)
\* What is left to show of a step that ends in a closed vector.
LEMMA ClosedStep ==
  ASSUME ~ Open', TypeOK', Locals', Pool', ClosedInv', ClosedDone', ClosedQueues', WordInv', RestInv',
         LeftInv'
  PROVE  Inv'
<1>1. \A t \in Threads, k \in Counted : ~ Has(t, k)'
  BY DEF ClosedInv
<1>2. OwnerInv'
  BY <1>1 DEF OwnerInv
<1>3. LatchInv'
  <2> SUFFICES ASSUME NEW t \in Threads, pc'[t] = "run" PROVE FALSE
    BY DEF LatchInv, IndexIsLatched
  <2>1. tasknum'[t] \in Task /\ tasknum'[t] \in Counted
    BY TaskNumbers DEF Locals, TaskLocal
  <2>2. PICK k : k = tasknum'[t]
    OBVIOUS
  <2>3. Has(t, k)'
    BY <2>2 DEF Has, AtHand
  <2> QED
    BY <1>1, <2>1, <2>2, <2>3
<1>4. DoneInv' /\ CounterInv' /\ ReleaseInv' /\ SlotInv' /\ LiveInv' /\ OpInv'
  BY DEF DoneInv, CounterInv, ReleaseInv, SlotInv, LiveInv, OpInv
<1> QED
  BY <1>2, <1>3, <1>4 DEF Inv

\* A thread that has nothing.
Idle(t) ==
  /\ keep[t] = WORK_STEALING_INDEX /\ todo[t] = {} /\ jobs[t] = << >>
  /\ op[t].at \notin {"incLoad", "incStore", "load"}
  /\ pc[t] \in {"loop", "run", "last", "activate"} => tasknum[t] = WORK_STEALING_INDEX

\* When all threads are idle the vector is closed.
LEMMA IdleClosed ==
  ASSUME \A t \in Threads : Idle(t)'
  PROVE  ClosedInv'
<1>1. ASSUME NEW t \in Threads PROVE \A k \in Counted : ~ Has(t, k)'
  <2>1. Idle(t)'
    OBVIOUS
  <2> QED
    BY <2>1, TaskNumbers DEF Idle, Has, ToPush, AtHand, AtKeep, AtLoad, AtTodo, AtJobs, AtPush
<1>2. \A t \in Threads : todo'[t] = {} /\ op'[t].at \notin {"incLoad", "incStore", "load"}
  BY DEF Idle
<1> QED
  BY <1>1, <1>2 DEF ClosedInv

\* When the vector is closed every thread is idle.
LEMMA ClosedIdle ==
  ASSUME Inv, ~ Open, NEW u \in Threads
  PROVE  Idle(u)
<1>1. /\ jobs[u] = << >> /\ todo[u] = {} /\ keep[u] = WORK_STEALING_INDEX
      /\ op[u].at \notin {"incLoad", "incStore", "load"}
      /\ pc[u] \notin {"run", "one", "last"}
      /\ pc[u] \in {"loop", "activate"} => tasknum[u] = WORK_STEALING_INDEX
  BY ClosedJobs
<1> QED
  BY <1>1 DEF Idle

\* In a closed vector no queue that a thread looks into has a task to take.
LEMMA ClosedRun ==
  ASSUME Inv, ~ Open, NEW t \in Threads, Run(t)
  PROVE  \/ InitGraph(t) \/ InitAll(t) \/ ReadyPushed(t) \/ Dispatch(t) \/ Return(t) \/ NextVector(t)
         \/ StealEmpty(t) \/ PopHeadEmpty(t) \/ Activated(t) \/ (QueueOp(t) /\ PopCASFails(t))
<1>1. Idle(t) /\ pc[t] \notin {"run", "one", "last"}
  BY ClosedIdle, ClosedJobs
<1>2. /\ pc[t] = "steal" => \A q \in 0 .. num[t] - 1 : fHead[q] = fTail[q]
      /\ pc[t] = "pop" => fHead[t] = fTail[t]
  BY DEF Inv, ClosedQueues, EmptyQueue
<1>3. LoopLocal(t) /\ OpLocal(t) /\ i[t] \in Nat /\ num[t] \in Nat
  BY SelfTypes DEF Inv, Locals
<1>4. ~ StealRead(t) /\ ~ PopHeadRead(t)
  BY <1>2, <1>3 DEF StealRead, PopHeadRead, PopRead, LoopLocal
<1>5. ~ PushReady(t) /\ ~ PushOutput(t) /\ ~ ActivateOutputTask(t) /\ ~ PushActivated(t)
  BY <1>1 DEF Idle, PushReady, PushOutput, ActivateOutputTask, PushActivated
<1>6. ~ Popped(t) /\ ~ LastTask(t) /\ ~ ActivateOneOutputTask(t)
  BY <1>1 DEF Idle, Popped, PopLoad, LastTask, ActivateOneOutputTask
<1>7. ~ EndOfTask(t)
  BY <1>1 DEF EndOfTask
<1>8. ~ PopCAS(t)
  <2> SUFFICES ASSUME PopCAS(t) PROVE FALSE
    OBVIOUS
  <2>1. pc[t] \in {"steal", "pop"} /\ op[t].at = "cas" /\ op[t].tail < op[t].head
    BY <1>3 DEF PopCAS, OpLocal, Run
  <2>2. fHead[op[t].q] = op[t].head /\ fTail[op[t].q] = op[t].tail
    BY DEF PopCAS, WordIsOld
  <2>3. op[t].head \in Nat /\ op[t].tail \in Nat
    BY DEF Inv, TypeOK, QueueTypeOK, Op
  <2>4. fHead[op[t].q] = fTail[op[t].q]
    BY <1>2, <1>3, <2>1 DEF OpLocal, LoopLocal
  <2> QED
    BY <2>1, <2>2, <2>3, <2>4
<1>9. QueueOp(t) => PopCASFails(t)
  BY <1>1, <1>8 DEF QueueOp, QueueStep, Idle, IncHeadLoad, IncHeadStore
<1> QED
  BY <1>4, <1>5, <1>6, <1>7, <1>9 DEF Run

\* A step of computeThread between two vectors, but for the reset of a queue.
LEMMA ClosedSteps ==
  ASSUME Inv, ~ Open, NEW t \in Threads, Run(t), ~ InitAll(t)
  PROVE  Inv'
<1> DEFINE M == MASTER_THREAD
<1>a. PICK S : pc \in [Threads -> S]
  BY SelfTypes
<1>b. /\ op \in [Threads -> Op] /\ tasknum \in [Threads -> Counted \cup {WORK_STEALING_INDEX}]
      /\ keep \in [Threads -> Task \cup {WORK_STEALING_INDEX}] /\ fTaskGraph \in [Counted -> Int]
      /\ fIndex \in Nat /\ fFullcount \in Nat /\ M \in Threads /\ WORK_STEALING_INDEX \notin Task
      /\ WORK_STEALING_INDEX # LAST_TASK_INDEX
  BY SelfTypes, Master, TaskNumbers DEF Inv, TypeOK
<1>b2. PICK I : i \in [Threads -> I] /\ num \in [Threads -> I]
  BY SelfTypes
<1>c. Idle(t) /\ TaskLocal(t) /\ LoopLocal(t) /\ (pc[t] \in {"loop", "activate"} => tasknum[t] = WORK_STEALING_INDEX)
  BY ClosedIdle, ClosedJobs DEF Inv, Locals
<1>d. TypeOK' /\ Locals' /\ Pool'
  BY RunTypes, RunLocals, RunPool
<1>e. /\ \A u \in Threads : u # t => SameThread(u)
      /\ fFullcount' = fFullcount /\ computes' = computes
      /\ ~ Return(t) => fDynamicNumThreads' = fDynamicNumThreads
      /\ t # M => fDynamicNumThreads' = fDynamicNumThreads
      /\ ~ LastTask(t) => fIndex' = fIndex
      /\ pc[t] \notin {"wait", "outside", "index", "signal", "stop", "stopped"}
  BY RunFrame, RunCall
<1>f. \/ InitGraph(t) \/ ReadyPushed(t) \/ Dispatch(t) \/ Return(t) \/ NextVector(t)
      \/ StealEmpty(t) \/ PopHeadEmpty(t) \/ Activated(t) \/ (QueueOp(t) /\ PopCASFails(t))
  BY ClosedRun
<1> USE DEF Goto, Set, queueVars, callVars, poolVars, locals, taskVars, outputVars, loopVars, history
<1>1. UNCHANGED <<fTaskList, fHead, fTail, fIndex, done, todo, jobs>>
  BY <1>f DEF InitGraph, ReadyPushed, Dispatch, Return, NextVector, StealEmpty, PopHeadEmpty,
              Activated, QueueOp, PopEmpty, PopCASFails
<1>2. /\ keep'[t] = WORK_STEALING_INDEX
      /\ op'[t].at \notin {"incLoad", "incStore", "load"}
      /\ pc'[t] \in {"loop", "run", "last", "activate"} => tasknum'[t] = WORK_STEALING_INDEX
      /\ pc'[t] \in {"activate", "pop"} => pc[t] \in {"activate", "pop"}
      /\ pc'[t] = "steal" => \/ num'[t] = num[t] /\ pc[t] = "steal"
                             \/ num'[t] = fDynamicNumThreads /\ pc[t] = "loop" /\ fIndex < fFullcount
      /\ pc'[t] = "reset" => InitGraph(t)
  <2>1. CASE InitGraph(t)
    BY <1>a, <1>b, <1>c, <2>1 DEF InitGraph, Idle
  <2>2. CASE ReadyPushed(t) \/ Return(t)
    BY <1>a, <1>b, <1>c, <2>2 DEF ReadyPushed, Return, Idle
  <2>3. CASE Dispatch(t)
    BY <1>a, <1>b, <1>b2, <1>c, <2>3 DEF Dispatch, Idle
  <2>4. CASE NextVector(t)
    BY <1>a, <1>b, <1>c, <2>4 DEF NextVector, Idle
  <2>5. CASE StealEmpty(t)
    BY <1>a, <1>b, <1>c, <2>5 DEF StealEmpty, PopEmpty, IdleOp, Idle, TaskLocal
  <2>6. CASE PopHeadEmpty(t)
    BY <1>a, <1>b, <1>c, <2>6 DEF PopHeadEmpty, PopEmpty, IdleOp, Idle
  <2>7. CASE Activated(t)
    BY <1>a, <1>b, <1>c, <2>7 DEF Activated, Idle
  <2>8. CASE QueueOp(t) /\ PopCASFails(t)
    <3>1. pc[t] \in {"steal", "pop"}
      BY <1>e, <2>8 DEF Inv, Locals, OpLocal, PopCASFails
    <3> QED
      BY <1>b, <1>c, <2>8, <3>1 DEF QueueOp, PopCASFails, PopOp, Idle
  <2> QED
    BY <1>f, <2>1, <2>2, <2>3, <2>4, <2>5, <2>6, <2>7, <2>8
<1>3. ClosedInv'
  <2>1. Idle(t)'
    BY <1>1, <1>2, <1>c DEF Idle
  <2>2. \A u \in Threads : u # t => Idle(u)'
    <3> SUFFICES ASSUME NEW u \in Threads, u # t PROVE Idle(u)'
      OBVIOUS
    <3>1. Idle(u) /\ SameThread(u)
      BY <1>e, ClosedIdle
    <3> QED
      BY <3>1 DEF Idle, SameThread
  <2> QED
    BY <2>1, <2>2, IdleClosed
<1>4. Setup => Setup' /\ pc[M] = "init" /\ t = M
  <2> SUFFICES ASSUME Setup PROVE Setup' /\ pc[M] = "init" /\ t = M
    OBVIOUS
  <2>1. t = M /\ pc[M] # "index"
    BY <1>e, RunSetup
  <2>2. pc[M] # "push"
    <3> SUFFICES ASSUME pc[M] = "push" PROVE FALSE
      OBVIOUS
    <3>1. Dealing
      BY DEF Setup, Dealing
    <3>2. \A u \in Threads : u # M => pc[u] = "wait"
      BY SetupAlone, Master
    <3>3. \A u \in Threads : ~ Closing(u)
      BY <3>2 DEF Closing
    <3> QED
      BY <3>1, <3>3 DEF Open
  <2>3. pc[M] \in {"init", "reset"} /\ tasknum[M] = WORK_STEALING_INDEX
    BY <2>1, <2>2 DEF Setup
  <2>4. InitGraph(t) /\ pc[M] = "init"
    <3>1. ~ (QueueOp(t) /\ PopCASFails(t))
      BY <1>c, <2>1, <2>3 DEF Inv, Locals, OpLocal, PopCASFails
    <3> QED
      BY <1>f, <2>1, <2>3, <3>1 DEF InitGraph, ReadyPushed, Dispatch, Return, NextVector, StealEmpty,
                                   PopHeadEmpty, Activated
  <2>5. pc'[M] = "reset" /\ tasknum'[M] = tasknum[M]
    BY <1>a, <2>1, <2>4 DEF InitGraph
  <2> QED
    BY <2>1, <2>3, <2>4, <2>5 DEF Setup
<1>5. ~ Open'
  <2>1. \A u \in Threads : u # t => (Closing(u)' <=> Closing(u))
    BY <1>e DEF Closing, SameThread
  <2>2. Closing(t) => Closing(t)' \/ fIndex >= fFullcount
    <3> SUFFICES ASSUME Closing(t), ~ (fIndex >= fFullcount) PROVE Closing(t)'
      OBVIOUS
    <3>1. ~ (QueueOp(t) /\ PopCASFails(t))
      BY DEF Inv, Locals, OpLocal, PopCASFails, Closing
    <3>2. InitGraph(t) \/ NextVector(t)
      BY <1>f, <3>1 DEF ReadyPushed, Dispatch, Return, StealEmpty, PopHeadEmpty, Activated, Closing
    <3> QED
      BY <1>a, <1>b, <3>2 DEF InitGraph, NextVector, Closing
  <2>3. ~ Dealing'
    <3>1. Dealing' => Setup /\ t = M
      BY RunSetup
    <3>2. pc[M] = "init" /\ t = M => pc'[M] # "push"
      BY RunPhase
    <3> QED
      BY <1>4, <3>1, <3>2 DEF Dealing
  <2>4. (\E u \in Threads : Closing(u)) \/ fIndex >= fFullcount
    BY <1>b DEF Open
  <2> QED
    BY <1>b, <1>e, <1>1, <2>1, <2>2, <2>3, <2>4 DEF Open
<1>6. pc'[M] = "index" <=> pc[M] = "index"
  BY <1>e, <1>b, RunPhase DEF SameThread
<1>7. ClosedDone'
  BY <1>1, <1>6, <1>e DEF Inv, ClosedDone
<1>8. ~ Setup => ~ Setup'
  BY RunSetup
<1>9. ClosedQueues'
  <2>0. /\ \A q : EmptyQueue(q)' <=> EmptyQueue(q)
        /\ fIndex < fFullcount => Used' = Used
    BY <1>1, <1>b, <1>e DEF EmptyQueue, Return, Used
  <2>1. fIndex < fFullcount /\ ~ Setup => \A q \in Used : EmptyQueue(q)
    BY DEF Inv, ClosedQueues
  <2>2. (fIndex < fFullcount /\ ~ Setup)' => \A q \in Used' : EmptyQueue(q)'
    BY <1>1, <1>4, <1>e, <2>0, <2>1
  <2>3. ASSUME NEW u \in Threads, pc'[u] = "steal" PROVE \A q \in 0 .. num'[u] - 1 : EmptyQueue(q)'
    <3>1. CASE pc[u] = "steal" /\ num'[u] = num[u]
      BY <2>0, <3>1 DEF Inv, ClosedQueues
    <3>2. CASE ~ (pc[u] = "steal" /\ num'[u] = num[u])
      <4>1. u = t /\ num'[u] = fDynamicNumThreads /\ pc[t] = "loop" /\ fIndex < fFullcount
        BY <1>2, <1>e, <2>3, <3>2 DEF SameThread
      <4>2. ~ Setup
        BY <1>4, <4>1
      <4> QED
        BY <2>0, <2>1, <4>1, <4>2 DEF Used
    <3> QED
      BY <3>1, <3>2
  <2>4. ASSUME NEW u \in Threads, pc'[u] \in {"activate", "pop"} PROVE EmptyQueue(u)'
    <3>1. pc[u] \in {"activate", "pop"}
      BY <1>2, <1>e, <2>4 DEF SameThread
    <3> QED
      BY <2>0, <3>1 DEF Inv, ClosedQueues
  <2>5. ASSUME NEW u \in Threads, pc'[u] = "reset"
        PROVE  /\ \A q \in 0 .. i'[u] - 1 : fHead'[q] = 0 /\ fTail'[q] = 0
               /\ \A k \in Counted : Inputs(k) > 1 => fTaskGraph'[k] = Inputs(k)
    <3>1. CASE u = t
      <4>1. InitGraph(t)
        BY <1>2, <2>5, <3>1
      <4>2. i'[t] = 0
        BY <1>c, <4>1 DEF InitGraph, LoopLocal
      <4>3. fTaskGraph' = InitTasks
        BY <4>1 DEF InitGraph
      <4> QED
        BY <3>1, <4>2, <4>3 DEF InitTasks
    <3>2. CASE u # t
      <4>1. pc[u] = "reset" /\ i'[u] = i[u]
        BY <1>e, <2>5, <3>2 DEF SameThread
      <4>2. ~ InitGraph(t)
        BY <3>2, <4>1 DEF InitGraph, Closing, Inv, Pool
      <4>3. fTaskGraph' = fTaskGraph
        BY <1>f, <4>2 DEF ReadyPushed, Dispatch, Return, NextVector, StealEmpty, PopHeadEmpty,
                          Activated, QueueOp
      <4> QED
        BY <1>1, <4>1, <4>3 DEF Inv, ClosedQueues
    <3> QED
      BY <3>1, <3>2
  <2>6. \A k : Inputs(k)' = Inputs(k)
    BY DEF Inputs, LastStage, Outputs
  <2> QED
    BY <2>2, <2>3, <2>4, <2>5, <2>6 DEF ClosedQueues
<1>10. WordInv'
  BY <1>1 DEF Inv, WordInv
<1>11. RestInv'
  <2>1. InCall' => InCall
    BY <1>b, <1>e DEF InCall, SameThread
  <2>2. /\ NothingLeft => \A q \in Threads \ Used : EmptyQueue(q)
        /\ 0 \notin Counts /\ InCall => fFullcount > 0
        /\ ~ Setup /\ fFullcount > 0 /\ (InCall \/ NothingLeft) => \A q \in Used : EmptyQueue(q)
    BY DEF Inv, RestInv
  <2>3. \A q : EmptyQueue(q)' <=> EmptyQueue(q)
    BY <1>1 DEF EmptyQueue
  <2>4. CASE Used' = Used
    BY <1>4, <1>5, <1>e, <2>1, <2>2, <2>3, <2>4 DEF RestInv, NothingLeft
  <2>5. CASE Used' # Used
    <3>1. Return(t) /\ t = M
      BY <1>e, <2>5 DEF Used
    <3>2. InCall /\ ~ InCall' /\ ~ Setup /\ fDynAdapt
      <4>1. pc[M] = "loop" /\ pc'[M] = "outside"
        BY <1>a, <1>b, <3>1, Master DEF Return
      <4>2. fDynAdapt
        BY <2>5, <3>1 DEF Return, StopMeasure, Used
      <4> QED
        BY <4>1, <4>2 DEF InCall, Setup
    <3>3. NothingLeft => \A q \in Threads : EmptyQueue(q)
      BY <2>2, <3>2 DEF NothingLeft
    <3>4. Used' \subseteq Threads
      <4>1. fDynamicNumThreads' \in 1 .. fStaticNumThreads
        BY <1>d DEF TypeOK
      <4>2. \A n \in 1 .. fStaticNumThreads : 0 .. n - 1 \subseteq Threads
        BY ThreadNumbers
      <4>3. Used' = 0 .. fDynamicNumThreads' - 1
        BY DEF Used
      <4> QED
        BY <4>1, <4>2, <4>3
    <3>5. NothingLeft' <=> NothingLeft
      BY DEF NothingLeft
    <3>6. NothingLeft => \A q \in Threads : EmptyQueue(q)'
      BY <2>3, <3>3
    <3> QED
      BY <3>2, <3>4, <3>5, <3>6 DEF RestInv
  <2> QED
    BY <2>4, <2>5
<1>12. LeftInv'
  <2>0. \A q : EmptyQueue(q)' <=> EmptyQueue(q)
    BY <1>1 DEF EmptyQueue
  <2>1. CASE Return(t) /\ t = M
    <3>1. pc[M] = "loop" /\ pc'[M] = "outside"
      BY <1>a, <1>b, <2>1, Master DEF Return
    <3>2. InCall /\ ~ Setup /\ ~ Setup'
      BY <3>1 DEF InCall, Setup
    <3>3. leftover' = leftover \cup {q \in Threads : fFullcount = 0 /\ q < fDynamicNumThreads}
      BY <2>1, Master DEF Return
    <3>4. \A q \in Threads : Left(q)'
      <4> SUFFICES ASSUME NEW q \in Threads PROVE Left(q)'
        OBVIOUS
      <4>1. CASE q \notin Used
        BY <2>0, <3>3, <4>1 DEF Inv, LeftInv, Left
      <4>2. CASE q \in Used /\ fFullcount = 0
        <5>1. q < fDynamicNumThreads
          BY <4>2, SelfTypes DEF Used, Inv, TypeOK
        <5> QED
          BY <3>3, <4>2, <5>1 DEF Left
      <4>3. CASE q \in Used /\ fFullcount > 0
        BY <2>0, <3>2, <4>3 DEF Inv, RestInv, Left
      <4> QED
        BY <1>b, <4>1, <4>2, <4>3
    <3>5. Used' \subseteq Threads
      <4>1. fDynamicNumThreads' \in 1 .. fStaticNumThreads
        BY <1>d DEF TypeOK
      <4>2. \A n \in 1 .. fStaticNumThreads : 0 .. n - 1 \subseteq Threads
        BY ThreadNumbers
      <4>3. Used' = 0 .. fDynamicNumThreads' - 1
        BY DEF Used
      <4> QED
        BY <4>1, <4>2, <4>3
    <3> QED
      BY <3>2, <3>4, <3>5 DEF LeftInv
  <2>2. CASE ~ (Return(t) /\ t = M)
    <3>1. leftover' = leftover /\ Used' = Used
      BY <1>e, <2>2, RunCall DEF Used
    <3>2. \A q : Left(q)' <=> Left(q)
      BY <2>0, <3>1 DEF Left
    <3>3. InCall' <=> InCall
      <4>1. CASE t # M
        BY <1>b, <1>e, <4>1 DEF InCall, SameThread
      <4>2. CASE t = M
        <5>1. pc'[M] \notin {"outside", "stop", "stopped"}
          <6>1. CASE InitGraph(t) \/ ReadyPushed(t) \/ Dispatch(t) \/ NextVector(t)
            BY <1>a, <1>b, <4>2, <6>1 DEF InitGraph, ReadyPushed, Dispatch, NextVector
          <6>2. CASE StealEmpty(t) \/ PopHeadEmpty(t) \/ Activated(t) \/ QueueOp(t)
            BY <1>a, <1>b, <1>e, <4>2, <6>2 DEF StealEmpty, PopHeadEmpty, Activated, QueueOp
          <6> QED
            BY <1>f, <2>2, <4>2, <6>1, <6>2
        <5>2. pc[M] \notin {"outside", "stop", "stopped"}
          BY <1>e, <4>2
        <5> QED
          BY <5>1, <5>2 DEF InCall
      <4> QED
        BY <4>1, <4>2
    <3>4. Setup' => Setup /\ pc[M] = "init" /\ i'[M] = i[M]
      <4> SUFFICES ASSUME Setup' PROVE Setup /\ pc[M] = "init" /\ i'[M] = i[M]
        OBVIOUS
      <4>1. Setup /\ pc[M] = "init" /\ t = M
        BY <1>4, <1>8
      <4>2. InitGraph(t)
        <5>1. ~ (QueueOp(t) /\ PopCASFails(t))
          BY <4>1 DEF Inv, Locals, OpLocal, PopCASFails
        <5> QED
          BY <1>f, <4>1, <5>1 DEF ReadyPushed, Dispatch, Return, NextVector, StealEmpty,
                                  PopHeadEmpty, Activated
      <4> QED
        BY <4>1, <4>2 DEF InitGraph
    <3> QED
      BY <3>1, <3>2, <3>3, <3>4 DEF Inv, LeftInv
  <2> QED
    BY <2>1, <2>2
<1> QED
  BY <1>d, <1>3, <1>5, <1>7, <1>9, <1>10, <1>11, <1>12, ClosedStep

\* The reset of one queue: what the word and the slots are after it.
LEMMA ResetEffect ==
  ASSUME Inv, NEW t \in Threads, Run(t), InitAll(t)
  PROVE  /\ ~ Open /\ i[t] \in Used /\ i[t] \in Threads /\ num[t] = fDynamicNumThreads
         /\ fHead'[i[t]] = 0 /\ fTail'[i[t]] = 0
         /\ \A q \in Threads : q # i[t] => fHead'[q] = fHead[q] /\ fTail'[q] = fTail[q]
         /\ UNCHANGED <<op, fTaskGraph, fIndex, fFullcount, fDynamicNumThreads, tasknum, todo, keep,
                        done, computes>>
         /\ leftover' = leftover \ {i[t]}
         /\ \A u \in Threads : u # t => SameThread(u) /\ pc[u] # "reset" /\ pc'[u] # "reset"
         /\ \A u \in Threads : u # t => ~ Closing(u)
         /\ \A k \in Counted : Inputs(k) > 1 => fTaskGraph[k] = Inputs(k)
         /\ \A q \in 0 .. i[t] - 1 : fHead[q] = 0 /\ fTail[q] = 0
<1>1. /\ pc[t] = "reset" /\ InitOne(i[t]) /\ leftover' = leftover \ {i[t]}
      /\ UNCHANGED <<fTaskGraph, callVars, poolVars, taskVars, outputVars, done, computes>>
  BY DEF InitAll
<1>2. ~ Open
  BY <1>1 DEF Open, Closing
<1>3. LoopLocal(t) /\ i[t] \in Nat /\ num[t] \in Nat /\ fDynamicNumThreads \in Nat
  BY SelfTypes DEF Inv, Locals
<1>4. i[t] \in Used /\ num[t] = fDynamicNumThreads
  BY <1>1, <1>3 DEF LoopLocal, Used
<1>5. i[t] \in Threads
  <2>1. fDynamicNumThreads \in 1 .. fStaticNumThreads
    BY DEF Inv, TypeOK
  <2> QED
    BY <1>4, <2>1, ThreadNumbers DEF Used
<1>6. fHead \in [Threads -> Nat] /\ fTail \in [Threads -> Nat] /\ fTaskGraph \in [Counted -> Int]
  BY DEF Inv, TypeOK, QueueTypeOK
<1>7. /\ fHead'[i[t]] = 0 /\ fTail'[i[t]] = 0 /\ UNCHANGED op
      /\ \A q \in Threads : q # i[t] => fHead'[q] = fHead[q] /\ fTail'[q] = fTail[q]
  BY <1>1, <1>5, <1>6 DEF InitOne
<1>8. \A u \in Threads : u # t => ~ Closing(u) /\ SameThread(u)
  <2>1. \A u, v \in Threads : Closing(u) /\ Closing(v) => u = v
    BY DEF Inv, Pool
  <2> QED
    BY <1>1, <2>1, RunFrame DEF Closing
<1>9. \A u \in Threads : u # t => pc[u] # "reset" /\ pc'[u] # "reset"
  BY <1>8 DEF Closing, SameThread
<1>10. /\ \A q \in 0 .. i[t] - 1 : fHead[q] = 0 /\ fTail[q] = 0
       /\ \A k \in Counted : Inputs(k) > 1 => fTaskGraph[k] = Inputs(k)
  BY <1>1, <1>2 DEF Inv, ClosedQueues
<1> QED
  BY <1>1, <1>2, <1>4, <1>5, <1>6, <1>7, <1>8, <1>9, <1>10
     DEF callVars, poolVars, taskVars, outputVars

\* A queue that was reset is empty; the others are as they were.
LEMMA ResetLeft ==
  ASSUME Inv, NEW t \in Threads, Run(t), InitAll(t)
  PROVE  \A q \in Threads : Left(q) => Left(q)'
<1>1. /\ fHead'[i[t]] = 0 /\ fTail'[i[t]] = 0 /\ leftover' = leftover \ {i[t]}
      /\ \A q \in Threads : q # i[t] => fHead'[q] = fHead[q] /\ fTail'[q] = fTail[q]
  BY ResetEffect
<1> QED
  BY <1>1 DEF Left, EmptyQueue

\* The reset of a queue that is not the last one.
LEMMA ResetStep ==
  ASSUME Inv, NEW t \in Threads, Run(t), InitAll(t), i[t] + 1 < num[t]
  PROVE  Inv'
<1>1. /\ ~ Open /\ i[t] \in Used /\ i[t] \in Threads
      /\ fHead'[i[t]] = 0 /\ fTail'[i[t]] = 0
      /\ \A q \in Threads : q # i[t] => fHead'[q] = fHead[q] /\ fTail'[q] = fTail[q]
      /\ UNCHANGED <<op, fTaskGraph, fIndex, fFullcount, fDynamicNumThreads, tasknum, todo, keep,
                     done, computes>>
      /\ \A u \in Threads : u # t => SameThread(u) /\ pc'[u] # "reset"
      /\ \A k \in Counted : Inputs(k) > 1 => fTaskGraph[k] = Inputs(k)
      /\ \A q \in 0 .. i[t] - 1 : fHead[q] = 0 /\ fTail[q] = 0
  BY ResetEffect
<1>2. /\ pc[t] = "reset" /\ UNCHANGED <<pc, num, jobs>> /\ i' = [i EXCEPT ![t] = @ + 1]
  BY DEF InitAll
<1>3. i[t] \in Nat /\ i'[t] = i[t] + 1
  BY <1>2, SelfTypes
<1>4. TypeOK' /\ Locals' /\ Pool' /\ fHead \in [Threads -> Nat] /\ fTail \in [Threads -> Nat]
  BY RunTypes, RunLocals, RunPool DEF Inv, TypeOK, QueueTypeOK
<1>5. ~ Open'
  BY <1>2 DEF Open, Closing
<1>6. ClosedInv'
  <2>1. \A u \in Threads : Idle(u)'
    <3> SUFFICES ASSUME NEW u \in Threads PROVE Idle(u)'
      OBVIOUS
    <3>1. Idle(u)
      BY <1>1, ClosedIdle
    <3> QED
      BY <1>1, <1>2, <3>1 DEF Idle
  <2> QED
    BY <2>1, IdleClosed
<1>7. ClosedDone'
  BY <1>1, <1>2 DEF Inv, ClosedDone
<1>8. \A q \in Threads : EmptyQueue(q) => EmptyQueue(q)'
  BY <1>1 DEF EmptyQueue
<1>9. (Setup' <=> Setup) /\ (InCall' <=> InCall) /\ Used' = Used
  BY <1>1, <1>2 DEF Setup, InCall, Used
<1>10. Used \subseteq Threads /\ \A u \in Threads : 0 .. num[u] - 1 \subseteq Threads
  <2>1. \A n \in 0 .. fStaticNumThreads : 0 .. n - 1 \subseteq Threads
    BY ThreadNumbers
  <2>2. /\ num \in [Threads -> 0 .. fStaticNumThreads]
        /\ fDynamicNumThreads \in 1 .. fStaticNumThreads
    BY DEF Inv, TypeOK
  <2>3. \A n \in 1 .. fStaticNumThreads : 0 .. n - 1 \subseteq Threads
    BY ThreadNumbers
  <2> QED
    BY <2>1, <2>2, <2>3 DEF Used
<1>11. ClosedQueues'
  <2>1. (fIndex < fFullcount /\ ~ Setup)' => \A q \in Used' : EmptyQueue(q)'
    BY <1>1, <1>8, <1>9, <1>10 DEF Inv, ClosedQueues
  <2>2. \A u \in Threads : /\ pc'[u] = "steal" => \A q \in 0 .. num'[u] - 1 : EmptyQueue(q)'
                           /\ pc'[u] \in {"activate", "pop"} => EmptyQueue(u)'
    BY <1>1, <1>2, <1>8, <1>10 DEF Inv, ClosedQueues
  <2>3. \A q \in 0 .. i'[t] - 1 : fHead'[q] = 0 /\ fTail'[q] = 0
    <3> SUFFICES ASSUME NEW q \in 0 .. i'[t] - 1 PROVE fHead'[q] = 0 /\ fTail'[q] = 0
      OBVIOUS
    <3>1. CASE q = i[t]
      BY <1>1, <3>1
    <3>2. CASE q # i[t]
      <4>1. q \in 0 .. i[t] - 1
        BY <1>3, <3>2
      <4>2. q \in Threads
        <5>1. num[t] \in Nat
          BY SelfTypes
        <5>2. q \in 0 .. num[t] - 1
          BY <1>3, <4>1, <5>1
        <5> QED
          BY <1>10, <5>2
      <4> QED
        BY <1>1, <3>2, <4>1, <4>2
    <3> QED
      BY <3>1, <3>2
  <2>4. \A k : Inputs(k)' = Inputs(k)
    BY DEF Inputs, LastStage, Outputs
  <2> QED
    BY <1>1, <2>1, <2>2, <2>3, <2>4 DEF ClosedQueues
<1>12. WordInv'
  BY <1>1, <1>4 DEF Inv, WordInv
<1>13. RestInv'
  <2>1. NothingLeft' <=> NothingLeft
    BY DEF NothingLeft
  <2> QED
    BY <1>1, <1>5, <1>8, <1>9, <1>10, <2>1 DEF Inv, RestInv
<1>14. LeftInv'
  <2>1. \A q \in Threads : Left(q) => Left(q)'
    BY ResetLeft
  <2>2. MASTER_THREAD \in Threads /\ i[MASTER_THREAD] \in Nat
        /\ (i'[MASTER_THREAD] = i[MASTER_THREAD] \/ i'[MASTER_THREAD] = i[MASTER_THREAD] + 1)
    BY <1>2, Master, SelfTypes
  <2>3. \A q \in Used : q \in Nat
    BY DEF Used
  <2>4. \A q \in Used : q >= i'[MASTER_THREAD] => q >= i[MASTER_THREAD]
    BY <2>2, <2>3
  <2> QED
    BY <1>2, <1>9, <1>10, <2>1, <2>4 DEF Inv, LeftInv
<1> QED
  BY <1>4, <1>5, <1>6, <1>7, <1>11, <1>12, <1>13, <1>14, ClosedStep

\* The reset of the last queue opens the vector: every queue of the call is
\* empty, every counter is set, and the thread has the ready tasks to push.
LEMMA OpenStep ==
  ASSUME Inv, NEW t \in Threads, Run(t), InitAll(t), ~ (i[t] + 1 < num[t])
  PROVE  Inv' /\ Open'
<1> DEFINE M == MASTER_THREAD
<1>a. PICK S : pc \in [Threads -> S]
  BY SelfTypes
<1>1. /\ ~ Open /\ i[t] \in Used /\ i[t] \in Threads /\ num[t] = fDynamicNumThreads
      /\ fHead'[i[t]] = 0 /\ fTail'[i[t]] = 0
      /\ \A q \in Threads : q # i[t] => fHead'[q] = fHead[q] /\ fTail'[q] = fTail[q]
      /\ UNCHANGED <<op, fTaskGraph, fIndex, fFullcount, fDynamicNumThreads, tasknum, todo, keep,
                     done, computes>>
      /\ \A u \in Threads : u # t => SameThread(u) /\ ~ Closing(u)
      /\ \A k \in Counted : Inputs(k) > 1 => fTaskGraph[k] = Inputs(k)
      /\ \A q \in 0 .. i[t] - 1 : fHead[q] = 0 /\ fTail[q] = 0
  BY ResetEffect
<1>2. /\ pc[t] = "reset" /\ pc'[t] = "push"
      /\ jobs' = [jobs EXCEPT ![t] = IF tasknum[t] = LAST_TASK_INDEX
                                     THEN InitTaskListOne(t) ELSE InitTaskListAll]
  BY <1>a DEF InitAll, Goto
<1>3. TypeOK' /\ Locals' /\ Pool'
  BY RunTypes, RunLocals, RunPool
<1>4. /\ fIndex \in Nat /\ fFullcount \in Nat /\ VecSize \in Nat /\ i[t] \in Nat
      /\ fDynamicNumThreads \in Nat /\ jobs \in [Threads -> Seq(Threads \X Task)]
  BY SelfTypes, Samples
<1>5. /\ tasknum[t] = LAST_TASK_INDEX \/ (t = M /\ tasknum[t] = WORK_STEALING_INDEX)
      /\ tasknum[t] = LAST_TASK_INDEX => fIndex < fFullcount
      /\ t = M /\ tasknum[t] = WORK_STEALING_INDEX => fIndex = 0
  BY <1>2 DEF Inv, Locals, TaskLocal, Pool, Setup
<1>6. Open'
  <2>1. \A u \in Threads : ~ Closing(u)'
    BY <1>1, <1>2 DEF Closing, SameThread
  <2> QED
    BY <1>1, <1>2, <1>5, <2>1 DEF Open, Dealing
<1>7. \A q \in Used : fHead'[q] = 0 /\ fTail'[q] = 0
  <2> SUFFICES ASSUME NEW q \in Used PROVE fHead'[q] = 0 /\ fTail'[q] = 0
    OBVIOUS
  <2>1. CASE q = i[t]
    BY <1>1, <2>1
  <2>2. CASE q # i[t]
    <3>1. q \in 0 .. i[t] - 1
      BY <1>1, <1>4, <2>2 DEF Used
    <3>2. q \in Threads
      <4>1. \A n \in 1 .. fStaticNumThreads : 0 .. n - 1 \subseteq Threads
        BY ThreadNumbers
      <4>2. fDynamicNumThreads \in 1 .. fStaticNumThreads
        BY DEF Inv, TypeOK
      <4> QED
        BY <4>1, <4>2 DEF Used
    <3> QED
      BY <1>1, <2>2, <3>1, <3>2
  <2> QED
    BY <2>1, <2>2
<1>8. PICK J : J = jobs'[t]
  OBVIOUS
<1>9. \A j \in DOMAIN J : J[j][2] \in Task /\ Back[J[j][2]] = {}
  <2>1. Deal(InitTaskListOne(t), {t})
    BY DealOne
  <2>2. Deal(InitTaskListAll, Used)
    <3>1. fDynamicNumThreads \in 1 .. fStaticNumThreads
      BY DEF Inv, TypeOK
    <3> QED
      BY <3>1, DealAll
  <2>3. J = InitTaskListOne(t) \/ J = InitTaskListAll
    BY <1>2, <1>4, <1>8
  <2> QED
    BY <2>1, <2>2, <2>3 DEF Deal
<1>10. \A k \in Task : done[k] = fIndex
  <2>1. pc[M] # "index"
    BY <1>1, <1>2, Master DEF Closing
  <2>2. \A k \in Task : done[k] = Min(fIndex, fFullcount)
    BY <1>1, <2>1 DEF Inv, ClosedDone
  <2>3. Min(fIndex, fFullcount) = fIndex
    BY <1>4, <1>5 DEF Min
  <2> QED
    BY <2>2, <2>3
<1>11. \A k : ~ Ended(k)'
  BY <1>1, <1>4, <1>10 DEF Ended
<1>12. /\ \A u \in Threads : todo'[u] = {} /\ keep'[u] = WORK_STEALING_INDEX
       /\ \A u \in Threads : op'[u].at \notin {"incLoad", "incStore", "load"}
       /\ \A u \in Threads : pc'[u] \notin {"run", "one", "last"}
       /\ \A u \in Threads : u # t => jobs'[u] = << >>
       /\ \A u \in Threads : pc'[u] \in {"loop", "activate"} => tasknum'[u] = WORK_STEALING_INDEX
  <2> SUFFICES ASSUME NEW u \in Threads
               PROVE  /\ todo'[u] = {} /\ keep'[u] = WORK_STEALING_INDEX
                      /\ op'[u].at \notin {"incLoad", "incStore", "load"}
                      /\ pc'[u] \notin {"run", "one", "last"}
                      /\ u # t => jobs'[u] = << >>
                      /\ pc'[u] \in {"loop", "activate"} => tasknum'[u] = WORK_STEALING_INDEX
    OBVIOUS
  <2>1. /\ jobs[u] = << >> /\ todo[u] = {} /\ keep[u] = WORK_STEALING_INDEX
        /\ op[u].at \notin {"incLoad", "incStore", "load"}
        /\ pc[u] \notin {"run", "one", "last"}
        /\ pc[u] \in {"loop", "activate"} => tasknum[u] = WORK_STEALING_INDEX
    BY <1>1, ClosedJobs
  <2> QED
    BY <1>1, <1>2, <2>1 DEF SameThread
<1>13. \A u \in Threads, k \in Counted : Has(u, k)' => u = t /\ k \in Task /\ Back[k] = {}
  <2> SUFFICES ASSUME NEW u \in Threads, NEW k \in Counted, Has(u, k)'
               PROVE  u = t /\ k \in Task /\ Back[k] = {}
    OBVIOUS
  <2>1. AtJobs(u, k)'
    BY <1>12, TaskNumbers DEF Has, ToPush, AtHand, AtKeep, AtLoad, AtTodo, AtPush
  <2>2. u = t
    BY <1>12, <2>1 DEF AtJobs
  <2> QED
    BY <1>8, <1>9, <2>1, <2>2 DEF AtJobs
<1>14. \A k \in Counted : Waiting(k)' = Preds(k) /\ Activators(k)' = {}
  BY <1>11, <1>12 DEF Waiting, Activators, Preds
<1>15. DoneInv'
  BY <1>1, <1>10 DEF DoneInv
<1>16. CounterInv'
  <2> SUFFICES ASSUME NEW k \in Counted, Inputs(k) > 1
               PROVE  fTaskGraph'[k] = Cardinality(Waiting(k)') + Cardinality(Activators(k)')
    BY DEF CounterInv, Inputs, LastStage, Outputs
  <2>1. Cardinality({}) = 0 /\ Inputs(k) = Cardinality(Preds(k)) /\ Inputs(k) \in Nat
    BY InputsType, FS_EmptySet
  <2> QED
    BY <1>1, <1>14, <2>1
<1>17. ReleaseInv'
  <2>1. \A k \in Task : Back[k] = {} => Released(k)'
    <3> SUFFICES ASSUME NEW k \in Task, Back[k] = {} PROVE Waiting(k)' = {} /\ Activators(k)' = {}
      BY DEF Released
    <3>1. k \in Counted /\ Preds(k) = {}
      BY ReadyInputs, TaskNumbers
    <3> QED
      BY <1>14, <3>1
  <2> QED
    BY <1>11, <1>13, <2>1 DEF ReleaseInv
<1>18. OwnerInv'
  BY <1>13 DEF OwnerInv
<1>19. Used' = Used
  BY <1>1 DEF Used
<1>20. SlotInv' /\ LiveInv'
  <2>1. \A q \in Used : 0 .. fHead'[q] - 1 = {} /\ Live(q)' = {}
    BY <1>7 DEF Live
  <2> QED
    BY <1>19, <2>1 DEF SlotInv, LiveInv
<1>21. OpInv' /\ LatchInv'
  BY <1>12 DEF OpInv, LatchInv, IndexIsLatched
<1>22. ClosedInv' /\ ClosedDone' /\ ClosedQueues'
  BY <1>6 DEF ClosedInv, ClosedDone, ClosedQueues
<1>23. WordInv'
  <2>1. \A q \in Threads : fTail[q] <= fHead[q]
    BY DEF Inv, WordInv
  <2> QED
    BY <1>1, <2>1 DEF WordInv
<1>24. RestInv'
  <2>1. NothingLeft' <=> NothingLeft
    BY DEF NothingLeft
  <2>2. NothingLeft => \A q \in Threads \ Used : EmptyQueue(q)'
    BY <1>1 DEF Inv, RestInv, EmptyQueue
  <2>3. InCall' => InCall
    BY <1>1, <1>2, Master DEF InCall, SameThread
  <2> QED
    BY <1>1, <1>6, <1>19, <2>1, <2>2, <2>3 DEF Inv, RestInv
<1>25. LeftInv'
  <2>1. InCall' /\ pc'[M] \notin {"index", "init", "reset"}
    <3>1. fIndex' \in Nat /\ fFullcount' \in Nat
      BY <1>3 DEF TypeOK
    <3>2. ~ Closing(M)'
      BY <1>6, Master DEF Open
    <3> QED
      BY <1>3, <1>6, <3>1, <3>2 DEF Pool, Open, Dealing, InCall, Closing
  <2> QED
    BY <1>19, <2>1, ResetLeft DEF Inv, LeftInv
<1> QED
  BY <1>3, <1>6, <1>15, <1>16, <1>17, <1>18, <1>20, <1>21, <1>22, <1>23, <1>24, <1>25 DEF Inv

\* The DAG has no other ends than its last stage: when they have ended all have.
LEMMA AllEnded ==
  ASSUME Inv, Open, Released(LAST_TASK_INDEX)
  PROVE  \A k \in Task : Ended(k)
<1> DEFINE W == {k \in Task : ~ Ended(k)}
<1>1. SUFFICES ASSUME W # {} PROVE FALSE
  OBVIOUS
<1>2. \A D \in (SUBSET Task) \ {{}} : \E k \in D : \A c \in D : k \notin Back[c]
  BY WorkStealingAssumption
<1>3. W \in (SUBSET Task) \ {{}}
  BY <1>1
<1>4. PICK k \in W : \A c \in W : k \notin Back[c]
  BY <1>2, <1>3
<1>5. CASE Outputs(k) = {}
  <2>1. k \in LastStage /\ ~ Ended(k)
    BY <1>4, <1>5 DEF LastStage
  <2>2. k \in Waiting(LAST_TASK_INDEX)
    BY <2>1 DEF Waiting, Preds
  <2> QED
    BY <2>2 DEF Released
<1>6. CASE Outputs(k) # {}
  <2>1. PICK c \in Task : k \in Back[c]
    BY <1>6 DEF Outputs
  <2>2. Ended(c) /\ ~ Ended(k)
    BY <1>4, <2>1
  <2>3. Released(c)
    BY <2>2 DEF Inv, ReleaseInv
  <2>4. k \in Waiting(c)
    BY <2>1, <2>2, ReadyInputs DEF Waiting
  <2> QED
    BY <2>3, <2>4 DEF Released
<1> QED
  BY <1>5, <1>6

\* A thread that has the last task is the only one that has anything, and the
\* queues are empty.
LEMMA LastAlone ==
  ASSUME Inv, Open, NEW t \in Threads, Has(t, LAST_TASK_INDEX)
  PROVE  /\ \A k \in Task : Ended(k)
         /\ \A u \in Threads, k \in Counted : Has(u, k) => u = t /\ k = LAST_TASK_INDEX
         /\ \A u \in Threads : \A c \in todo[u] : u = t /\ c = LAST_TASK_INDEX
         /\ \A u \in Threads : op[u].at \notin {"incLoad", "incStore", "load"}
         /\ \A q \in Used : EmptyQueue(q)
<1>0. LAST_TASK_INDEX \in Counted /\ \A k \in Counted : k \in Task \/ k = LAST_TASK_INDEX
  BY TaskNumbers
<1>1. /\ \A k \in Task : Ended(k) => Released(k)
      /\ \A u \in Threads, k \in Counted : Has(u, k) => Released(k) /\ ~ Ended(k)
      /\ \A u, v \in Threads, k \in Counted : Has(u, k) /\ Has(v, k) => u = v
  BY DEF Inv, ReleaseInv, OwnerInv
<1>2. Released(LAST_TASK_INDEX) /\ \A k \in Task : Ended(k)
  BY <1>0, <1>1, AllEnded
<1>3. \A u \in Threads, k \in Counted : Has(u, k) => u = t /\ k = LAST_TASK_INDEX
  BY <1>0, <1>1, <1>2
<1>4. ASSUME NEW u \in Threads, NEW c \in todo[u] PROVE u = t /\ c = LAST_TASK_INDEX
  <2>1. c \in Counted /\ Inputs(c) \in Nat /\ Inputs(c) # 0
    <3>1. c \in Counted
      BY TodoFacts
    <3>2. OutputLocal(u)
      BY DEF Inv, Locals
    <3> QED
      BY <3>1, <3>2, InputsType DEF OutputLocal
  <2>2. CASE Inputs(c) = 1
    <3>1. Has(u, c)
      BY <2>2 DEF Has, ToPush, AtTodo
    <3> QED
      BY <1>3, <2>1, <3>1
  <2>3. CASE Inputs(c) > 1
    <3>1. ~ Released(c)
      BY <2>3, TodoFacts
    <3> QED
      BY <1>0, <1>1, <1>2, <2>1, <3>1
  <2> QED
    BY <2>1, <2>2, <2>3
<1>5. ASSUME NEW u \in Threads, op[u].at \in {"incLoad", "incStore", "load"} PROVE FALSE
  <2>1. CASE op[u].at = "load"
    <3>1. PICK k : k = PoppedTask(u)
      OBVIOUS
    <3>2. k \in Task /\ Has(u, k)
      BY <2>1, <3>1 DEF Inv, OpInv, Has, AtLoad
    <3> QED
      BY <1>1, <1>2, <3>2, TaskNumbers
  <2>2. CASE op[u].at \in {"incLoad", "incStore"}
    <3>1. PICK k : k = op[u].item
      OBVIOUS
    <3>2. k \in Task /\ Has(u, k)
      BY <2>2, <3>1 DEF Inv, OpInv, Has, ToPush, AtPush
    <3> QED
      BY <1>1, <1>2, <3>2, TaskNumbers
  <2> QED
    BY <1>5, <2>1, <2>2
<1>6. ASSUME NEW q \in Used PROVE EmptyQueue(q)
  <2>1. q \in Threads /\ fHead[q] \in Nat /\ fTail[q] \in Nat /\ fTail[q] <= fHead[q]
    BY HeadSlot DEF Inv, TypeOK, QueueTypeOK, WordInv
  <2>2. Live(q) = {}
    <3> SUFFICES ASSUME NEW j \in Live(q) PROVE FALSE
      OBVIOUS
    <3>1. j \in 0 .. fHead[q] - 1
      BY <2>1 DEF Live
    <3>2. fTaskList[q][j] \in Task /\ ~ Ended(fTaskList[q][j])
      BY <3>1 DEF Inv, SlotInv, LiveInv
    <3> QED
      BY <1>2, <3>2
  <2>3. fTail[q] \notin Live(q)
    BY <2>2
  <2> QED
    BY <2>1, <2>3 DEF Live, EmptyQueue
<1> QED
  BY <1>2, <1>3, <1>4, <1>5, <1>6

\* The last task closes the vector: every task has rendered it.
LEMMA CloseStep ==
  ASSUME Inv, NEW t \in Threads, Run(t), LastTask(t)
  PROVE  Inv'
<1> DEFINE M == MASTER_THREAD
<1>a. PICK S : pc \in [Threads -> S]
  BY SelfTypes
<1>b. /\ fIndex \in Nat /\ fFullcount \in Nat /\ VecSize \in Nat /\ VecSize >= 1
      /\ op[t] \in Op /\ OpLocal(t) /\ OutputLocal(t) /\ JobsLocal(t) /\ TaskLocal(t)
  BY SelfTypes, Samples DEF Inv, Locals
<1>1. /\ pc[t] = "last" /\ pc'[t] = "next" /\ fIndex' = fIndex + VecSize
      /\ UNCHANGED <<fTaskList, fHead, fTail, op, fTaskGraph, fFullcount, fDynamicNumThreads,
                     tasknum, todo, keep, jobs, i, num, done, computes, leftover>>
  BY <1>a DEF LastTask, Goto, queueVars, callVars, poolVars, taskVars, outputVars, loopVars, history
<1>2. Open /\ ~ Setup /\ fIndex < fFullcount /\ t \in Used /\ \A u \in Threads : ~ Closing(u)
  BY <1>1, LastOpen
<1>3. Has(t, LAST_TASK_INDEX)
  BY <1>1, <1>b DEF Has, AtHand, TaskLocal
<1>4. /\ \A k \in Task : Ended(k)
      /\ \A u \in Threads, k \in Counted : Has(u, k) => u = t /\ k = LAST_TASK_INDEX
      /\ \A u \in Threads : \A c \in todo[u] : u = t /\ c = LAST_TASK_INDEX
      /\ \A u \in Threads : op[u].at \notin {"incLoad", "incStore", "load"}
      /\ \A q \in Used : EmptyQueue(q)
  BY <1>2, <1>3, LastAlone
<1>5. TypeOK' /\ Locals' /\ Pool' /\ \A u \in Threads : u # t => SameThread(u)
  BY RunTypes, RunLocals, RunPool, RunFrame
<1>6. ~ Open'
  BY <1>1 DEF Open, Closing
<1>7. ClosedInv'
  <2> SUFFICES ASSUME NEW u \in Threads
               PROVE  /\ \A k \in Counted : ~ Has(u, k)'
                      /\ todo'[u] = {} /\ op'[u].at \notin {"incLoad", "incStore", "load"}
    BY DEF ClosedInv
  <2>1. op'[u].at \notin {"incLoad", "incStore", "load"}
    BY <1>1, <1>4
  <2>2. CASE u = t
    <3>1. keep[t] = WORK_STEALING_INDEX /\ todo[t] = {} /\ jobs[t] = << >>
      BY <1>b, <1>1 DEF OutputLocal, JobsLocal
    <3>2. Idle(t)'
      BY <1>1, <2>1, <2>2, <3>1 DEF Idle
    <3>3. \A k \in Counted : ~ Has(t, k)'
      BY <3>2, TaskNumbers DEF Idle, Has, ToPush, AtHand, AtKeep, AtLoad, AtTodo, AtJobs, AtPush
    <3> QED
      BY <1>1, <2>1, <2>2, <3>1, <3>3
  <2>3. CASE u # t
    <3>1. SameThread(u)
      BY <1>5, <2>3
    <3>2. \A k \in Counted : Has(u, k)' => Has(u, k)
      BY <1>1, <3>1 DEF SameThread, Has, ToPush, AtHand, AtKeep, AtLoad, AtTodo, AtJobs, AtPush,
                        PoppedTask, PoppedSlot
    <3>3. todo[u] = {}
      BY <1>4, <2>3
    <3> QED
      BY <1>1, <1>4, <2>1, <2>3, <3>2, <3>3
  <2> QED
    BY <2>2, <2>3
<1>8. ClosedDone'
  <2>1. pc'[M] # "index"
    BY <1>1, <1>2, <1>5, Master DEF Closing, SameThread
  <2>2. \A k \in Task : done[k] \in {fIndex, Min(fIndex + VecSize, fFullcount)} /\ done[k] > fIndex
    BY <1>2, <1>4 DEF Inv, DoneInv, Ended
  <2>3. \A k \in Task : done'[k] = Min(fIndex', fFullcount')
    BY <1>b, <1>1, <2>2
  <2> QED
    BY <2>1, <2>3 DEF ClosedDone, Min
<1>9. /\ \A q : EmptyQueue(q)' <=> EmptyQueue(q)
      /\ Used' = Used
  BY <1>1 DEF EmptyQueue, Used
<1>10. ClosedQueues'
  <2> SUFFICES ASSUME NEW u \in Threads
               PROVE  /\ pc'[u] = "steal" => \A q \in 0 .. num'[u] - 1 : EmptyQueue(q)'
                      /\ pc'[u] \in {"activate", "pop"} => EmptyQueue(u)'
                      /\ pc'[u] # "reset"
    BY <1>4, <1>9 DEF ClosedQueues
  <2>1. CASE u = t
    BY <1>1, <2>1
  <2>2. CASE u # t
    <3>1. pc'[u] = pc[u] /\ num'[u] = num[u]
      BY <1>5, <2>2 DEF SameThread
    <3>2. pc[u] = "steal" => num[u] = fDynamicNumThreads
      BY <1>2 DEF Inv, Locals, LoopLocal
    <3>3. pc[u] \in {"activate", "pop"} => u \in Used
      BY <1>2, RunnerUsed
    <3>4. pc[u] # "reset"
      BY <1>2 DEF Closing
    <3>5. pc[u] = "steal" => \A q \in 0 .. num[u] - 1 : EmptyQueue(q)
      BY <1>4, <3>2 DEF Used
    <3> QED
      BY <1>4, <1>9, <3>1, <3>3, <3>4, <3>5
  <2> QED
    BY <2>1, <2>2
<1>11. WordInv'
  BY <1>1 DEF Inv, WordInv
<1>12. RestInv'
  <2>1. NothingLeft' <=> NothingLeft
    BY DEF NothingLeft
  <2>2. NothingLeft => \A q \in Threads \ Used : EmptyQueue(q)
    BY DEF Inv, RestInv
  <2>3. fFullcount > 0
    BY <1>b, <1>2
  <2> QED
    BY <1>1, <1>4, <1>9, <2>1, <2>2, <2>3 DEF RestInv
<1>13. LeftInv'
  <2>1. pc[M] = pc'[M] \/ (pc[M] = "last" /\ pc'[M] = "next")
    BY <1>1, <1>5, Master DEF SameThread
  <2>2. (InCall' <=> InCall) /\ ~ Setup'
    BY <1>1, <1>2, <2>1 DEF InCall, Setup
  <2> QED
    BY <1>1, <1>9, <2>2 DEF Inv, LeftInv, Left
<1> QED
  BY <1>5, <1>6, <1>7, <1>8, <1>10, <1>11, <1>12, <1>13, ClosedStep

\* compute of no sample: the vector is over when its tasks are dealt out.
LEMMA NoSampleStep ==
  ASSUME Inv, Open, ~ Open', NEW t \in Threads, Run(t), ~ LastTask(t)
  PROVE  Inv'
<1> DEFINE M == MASTER_THREAD
<1>a. PICK S : pc \in [Threads -> S]
  BY SelfTypes
<1>b. fIndex \in Nat /\ fFullcount \in Nat /\ VecSize \in Nat /\ M \in Threads
  BY Samples, Master DEF Inv, TypeOK
<1>1. Frame(t) /\ Locals' /\ Pool' /\ Dealing /\ ~ Dealing'
  BY RunOpen
<1>2. t = M /\ Setup /\ pc[M] = "push" /\ tasknum[M] = WORK_STEALING_INDEX
  BY <1>1 DEF Frame, Setup, Dealing
<1>3. ReadyPushed(t)
  <2>1. ~ Popped(t) /\ (QueueOp(t) => UNCHANGED <<pc, tasknum>>)
    BY <1>2 DEF Popped, PopLoad, QueueOp, locals, taskVars, Inv, Locals, OpLocal
  <2>2. PushReady(t) => UNCHANGED <<pc, tasknum>>
    BY DEF PushReady, taskVars
  <2>3. ~ EndOfTask(t)
    BY <1>2 DEF EndOfTask
  <2> QED
    BY <1>1, <1>2, <2>1, <2>2, <2>3
       DEF Run, Dealing, InitGraph, InitAll, Dispatch, Return, StealEmpty, StealRead, PopHeadEmpty,
           PopHeadRead, LastTask, NextVector, ActivateOneOutputTask, PushOutput, ActivateOutputTask,
           PushActivated, Activated
<1>4. /\ op[t].at = "idle" /\ jobs[t] = << >> /\ pc'[t] = "signal"
      /\ UNCHANGED <<fTaskList, fHead, fTail, op, fTaskGraph, fIndex, fFullcount,
                     fDynamicNumThreads, todo, keep, jobs, done, computes>>
  BY <1>a, <1>2, <1>3, TaskNumbers
     DEF ReadyPushed, Ready, Goto, queueVars, callVars, poolVars, outputVars, loopVars, history
<1>5. \A u \in Threads : u # t => /\ pc[u] = "wait" /\ op[u].at = "idle" /\ jobs[u] = << >>
                                  /\ todo[u] = {} /\ keep[u] = WORK_STEALING_INDEX /\ SameThread(u)
  BY <1>1, <1>2, SetupAlone, Master DEF Frame
<1>6. fIndex = 0 /\ fFullcount = 0
  <2>1. fIndex = 0
    BY <1>2 DEF Inv, Pool
  <2>2. \A u \in Threads : ~ Closing(u)'
    BY <1>4, <1>5 DEF Closing, SameThread
  <2>3. ~ (fIndex < fFullcount)
    BY <1>4, <2>2 DEF Open
  <2> QED
    BY <1>b, <2>1, <2>3
<1>7. ClosedInv'
  <2>1. Idle(t)'
    <3>1. todo[t] = {} /\ keep[t] = WORK_STEALING_INDEX
      BY <1>2 DEF Inv, Locals, OutputLocal
    <3> QED
      BY <1>4, <3>1 DEF Idle
  <2>2. \A u \in Threads : u # t => Idle(u)'
    BY <1>5 DEF Idle, SameThread
  <2> QED
    BY <2>1, <2>2, IdleClosed
<1>8. ClosedDone'
  <2>1. \A k \in Task : done[k] \in {fIndex, Min(fIndex + VecSize, fFullcount)}
    BY DEF Inv, DoneInv
  <2>2. Min(fIndex + VecSize, fFullcount) = 0 /\ Min(fIndex, fFullcount) = 0
    BY <1>b, <1>6 DEF Min
  <2>3. \A k \in Task : done'[k] = Min(fIndex', fFullcount')
    BY <1>4, <1>6, <2>1, <2>2
  <2> QED
    BY <1>2, <1>4, <2>3 DEF ClosedDone, Min
<1>9. ClosedQueues'
  <2>1. ~ (fIndex' < fFullcount')
    BY <1>4, <1>6
  <2>2. \A u \in Threads : pc'[u] \in {"signal", "wait"}
    BY <1>4, <1>5 DEF SameThread
  <2> QED
    BY <2>1, <2>2 DEF ClosedQueues
<1>10. WordInv'
  BY <1>4 DEF Inv, WordInv
<1>11. RestInv'
  <2>1. NothingLeft' <=> NothingLeft
    BY DEF NothingLeft
  <2>2. Used' = Used /\ \A q : EmptyQueue(q)' <=> EmptyQueue(q)
    BY <1>4 DEF Used, EmptyQueue
  <2>3. InCall
    BY <1>2 DEF InCall
  <2>4. ~ (fFullcount' > 0)
    BY <1>4, <1>6
  <2> QED
    BY <1>4, <2>1, <2>2, <2>3, <2>4 DEF Inv, RestInv
<1>12. LeftInv'
  <2>1. Used' = Used /\ leftover' = leftover /\ \A q : EmptyQueue(q)' <=> EmptyQueue(q)
    BY <1>1, <1>4 DEF Used, EmptyQueue, Frame
  <2>2. InCall' /\ ~ Setup'
    BY <1>2, <1>4 DEF InCall, Setup
  <2> QED
    BY <2>1, <2>2 DEF Inv, LeftInv, Left
<1> QED
  BY <1>1, <1>7, <1>8, <1>9, <1>10, <1>11, <1>12, ClosedStep DEF Frame

-----------------------------------------------------------------------------
(***************************************************************************)
(* Every step.                                                             *)
(***************************************************************************)
\* The steps of compute and computeThread.
LEMMA RunInv ==
  ASSUME Inv, XaddReturnsNew, NEW t \in Threads, Run(t)
  PROVE  Inv'
<1>1. CASE LastTask(t)
  BY <1>1, CloseStep
<1>2. CASE ~ LastTask(t) /\ Open /\ ~ Open'
  BY <1>2, NoSampleStep
<1>3. CASE ~ Open
  <2>1. CASE InitAll(t) /\ i[t] + 1 < num[t]
    BY <2>1, ResetStep
  <2>2. CASE InitAll(t) /\ ~ (i[t] + 1 < num[t])
    BY <2>2, OpenStep
  <2>3. CASE ~ InitAll(t)
    BY <1>3, <2>3, ClosedSteps
  <2> QED
    BY <2>1, <2>2, <2>3
<1>4. CASE ~ LastTask(t) /\ Open /\ Open'
  <2>1. ~ InitGraph(t) /\ ~ InitAll(t) /\ ~ NextVector(t)
    BY <1>4 DEF Open, Closing, InitGraph, InitAll, NextVector
  <2>2. ~ Return(t)
    BY <1>4, ReturnClosed DEF Return
  <2>3. CASE StealEmpty(t) \/ StealRead(t) \/ PopHeadEmpty(t) \/ PopHeadRead(t)
    BY <1>4, <2>3, ReadSteps
  <2>4. CASE Popped(t) \/ Activated(t) \/ ReadyPushed(t) \/ Dispatch(t)
    BY <1>4, <2>4, TakeSteps
  <2>5. CASE PushReady(t) \/ PushOutput(t) \/ PushActivated(t)
    BY <1>4, <2>5, PushSteps
  <2>6. CASE ActivateOneOutputTask(t) \/ ActivateOutputTask(t)
    BY <1>4, <2>6, ActivateSteps
  <2>7. CASE EndOfTask(t)
    BY <1>4, <2>7, EndStep
  <2>8. CASE QueueOp(t)
    <3>1. IncHeadLoad(t) \/ IncHeadStore(t) \/ PopCAS(t) \/ PopCASFails(t)
      BY <2>8 DEF QueueOp, QueueStep
    <3> QED
      BY <1>4, <2>8, <3>1, IncHeadLoadStep, IncHeadStoreStep, PopCASStep, ReadSteps
  <2>9. \/ PushReady(t) \/ ReadyPushed(t) \/ Dispatch(t)
        \/ StealEmpty(t) \/ StealRead(t) \/ PopHeadEmpty(t) \/ PopHeadRead(t) \/ Popped(t)
        \/ EndOfTask(t) \/ ActivateOneOutputTask(t)
        \/ PushOutput(t) \/ ActivateOutputTask(t) \/ PushActivated(t) \/ Activated(t)
        \/ QueueOp(t)
    BY <1>4, <2>1, <2>2 DEF Run
  <2> QED
    BY <2>3, <2>4, <2>5, <2>6, <2>7, <2>8, <2>9
<1> QED
  BY <1>1, <1>2, <1>3, <1>4

\* compute(n): the call begins when the pool is at rest.
LEMMA CallStep ==
  ASSUME Inv, ~ BackToBack, NEW n \in Counts, Compute(n)
  PROVE  Inv'
<1> DEFINE M == MASTER_THREAD
<1>a. PICK S : pc \in [Threads -> S]
  BY Master, SelfTypes
<1>b. M \in Threads /\ n \in Nat
  BY Master, Samples
<1>c. TypeOK' /\ Locals' /\ Pool'
  BY ComputeTypes, ComputeLocals, ComputePool
<1>1. /\ UNCHANGED <<fTaskList, fHead, fTail, op, fTaskGraph, fIndex, fDynamicNumThreads, tasknum,
                     todo, keep, jobs, i, num, leftover>>
      /\ pc[M] = "outside" /\ pc'[M] = "index" /\ fFullcount' = n
      /\ \A u \in Threads : u # M => pc'[u] = pc[u] /\ pc[u] = "wait"
      /\ \A k \in Task : done'[k] = 0
  BY <1>a, <1>b, Master
     DEF Compute, Goto, queueVars, poolVars, taskVars, outputVars, loopVars
<1>2. ~ Open /\ ~ Open'
  BY <1>1, <1>b, OutsideClosed DEF InCall, Open, Closing
<1>3. ClosedInv'
  <2>1. ASSUME NEW u \in Threads PROVE Idle(u)'
    <3>1. Idle(u)
      BY <1>2, ClosedIdle
    <3>2. pc'[u] \in {"index", "wait"}
      BY <1>1
    <3> QED
      BY <1>1, <3>1, <3>2 DEF Idle
  <2> QED
    BY <2>1, IdleClosed
<1>4. ClosedDone'
  BY <1>1 DEF ClosedDone
<1>5. Setup'
  BY <1>1 DEF Setup
<1>6. ClosedQueues'
  <2>1. \A u \in Threads : pc'[u] \notin {"steal", "activate", "pop", "reset"}
    BY <1>1
  <2> QED
    BY <1>5, <2>1 DEF ClosedQueues
<1>7. WordInv'
  BY <1>1 DEF Inv, WordInv
<1>8. RestInv'
  <2>1. NothingLeft' <=> NothingLeft
    BY DEF NothingLeft
  <2>2. Used' = Used /\ \A q : EmptyQueue(q)' <=> EmptyQueue(q)
    BY <1>1 DEF Used, EmptyQueue
  <2>3. 0 \notin Counts => fFullcount' > 0
    BY <1>1, <1>b
  <2> QED
    BY <1>5, <2>1, <2>2, <2>3 DEF Inv, RestInv
<1>9. LeftInv'
  <2>1. Used' = Used /\ \A q : Left(q)' <=> Left(q)
    BY <1>1 DEF Used, Left, EmptyQueue
  <2>2. ~ InCall /\ InCall'
    BY <1>1 DEF InCall
  <2> QED
    BY <2>1, <2>2 DEF Inv, LeftInv
<1> QED
  BY <1>2, <1>3, <1>4, <1>6, <1>7, <1>8, <1>9, <1>c, ClosedStep

\* fIndex = 0, before anyone else is awake.
LEMMA IndexStep ==
  ASSUME Inv, ~ BackToBack, ResetIndex
  PROVE  Inv'
<1> DEFINE M == MASTER_THREAD
<1>a. PICK S : pc \in [Threads -> S]
  BY Master, SelfTypes
<1>b. M \in Threads /\ fFullcount \in Nat /\ tasknum[M] = WORK_STEALING_INDEX
  BY Master DEF Inv, TypeOK, Locals, TaskLocal, ResetIndex
<1>c. TypeOK' /\ Locals' /\ Pool'
  BY ComputeTypes, ComputeLocals, ComputePool
<1>1. /\ UNCHANGED <<fTaskList, fHead, fTail, op, fTaskGraph, fFullcount, fDynamicNumThreads,
                     tasknum, todo, keep, jobs, i, num, done, leftover>>
      /\ pc[M] = "index" /\ pc'[M] = "init" /\ fIndex' = 0
      /\ \A u \in Threads : u # M => pc'[u] = pc[u]
  BY <1>a, <1>b
     DEF ResetIndex, Goto, queueVars, poolVars, taskVars, outputVars, loopVars, history
<1>2. ~ Open /\ ~ Open' /\ Setup /\ Setup'
  BY <1>1, <1>b DEF Open, Closing, Setup
<1>3. \A u \in Threads : u # M => pc[u] = "wait"
  BY <1>2, SetupAlone, Master
<1>4. ClosedInv'
  <2>1. ASSUME NEW u \in Threads PROVE Idle(u)'
    <3>1. Idle(u)
      BY <1>2, ClosedIdle
    <3>2. pc'[u] \in {"init", "wait"}
      BY <1>1, <1>3
    <3> QED
      BY <1>1, <3>1, <3>2 DEF Idle
  <2> QED
    BY <2>1, IdleClosed
<1>5. ClosedDone'
  <2>1. \A k \in Task : done[k] = 0
    BY <1>1, <1>2 DEF Inv, ClosedDone
  <2>2. fIndex' = 0 /\ fFullcount' \in Nat /\ \A k \in Task : done'[k] = 0
    BY <1>1, <1>b, <2>1
  <2> QED
    BY <1>1, <2>2 DEF ClosedDone, Min
<1>6. ClosedQueues'
  <2>1. \A u \in Threads : pc'[u] \notin {"steal", "activate", "pop", "reset"}
    BY <1>1, <1>3
  <2> QED
    BY <1>2, <2>1 DEF ClosedQueues
<1>7. WordInv'
  BY <1>1 DEF Inv, WordInv
<1>8. RestInv'
  <2>1. NothingLeft' <=> NothingLeft
    BY DEF NothingLeft
  <2>2. Used' = Used /\ \A q : EmptyQueue(q)' <=> EmptyQueue(q)
    BY <1>1 DEF Used, EmptyQueue
  <2>3. InCall
    BY <1>1 DEF InCall
  <2> QED
    BY <1>1, <1>2, <2>1, <2>2, <2>3 DEF Inv, RestInv
<1>9. LeftInv'
  <2>1. Used' = Used /\ \A q : Left(q)' <=> Left(q)
    BY <1>1 DEF Used, Left, EmptyQueue
  <2>2. InCall' /\ i'[M] = i[M]
    BY <1>1 DEF InCall
  <2> QED
    BY <1>1, <1>2, <2>1, <2>2 DEF Inv, LeftInv
<1> QED
  BY <1>2, <1>4, <1>5, <1>6, <1>7, <1>8, <1>9, <1>c, ClosedStep

\* A step that wakes or stops a thread, between two vectors.
LEMMA PoolStep ==
  ASSUME Inv, ~ Open, ~ Open', TypeOK', Locals', Pool',
         UNCHANGED <<fTaskList, fHead, fTail, op, fTaskGraph, fIndex, fFullcount,
                     fDynamicNumThreads, tasknum, todo, keep, jobs, num, done, leftover>>,
         \A u \in Threads :
           /\ pc'[u] = pc[u] \/ pc'[u] \in {"loop", "signal", "stop", "stopped"}
           /\ pc'[u] = "loop" => tasknum[u] = WORK_STEALING_INDEX
           /\ pc'[u] = "reset" => i'[u] = i[u],
         pc'[MASTER_THREAD] = "index" <=> pc[MASTER_THREAD] = "index",
         Setup' <=> Setup, InCall' <=> InCall
  PROVE  Inv'
<1>1. ClosedInv'
  <2>1. ASSUME NEW u \in Threads PROVE Idle(u)'
    <3>1. Idle(u)
      BY ClosedIdle
    <3> QED
      BY <3>1 DEF Idle
  <2> QED
    BY <2>1, IdleClosed
<1>2. ClosedDone'
  BY DEF Inv, ClosedDone
<1>3. NothingLeft' <=> NothingLeft
  BY DEF NothingLeft
<1>4. Used' = Used /\ \A q : EmptyQueue(q)' <=> EmptyQueue(q)
  BY DEF Used, EmptyQueue
<1>5. ClosedQueues'
  <2>1. fIndex' < fFullcount' /\ ~ Setup' => \A q \in Used' : EmptyQueue(q)'
    BY <1>4 DEF Inv, ClosedQueues
  <2>2. ASSUME NEW u \in Threads
        PROVE  /\ pc'[u] = "steal" => \A q \in 0 .. num'[u] - 1 : EmptyQueue(q)'
               /\ pc'[u] \in {"activate", "pop"} => EmptyQueue(u)'
               /\ pc'[u] = "reset" =>
                    /\ \A q \in 0 .. i'[u] - 1 : fHead'[q] = 0 /\ fTail'[q] = 0
                    /\ \A k \in Counted : Inputs(k) > 1 => fTaskGraph'[k] = Inputs(k)
    <3>1. pc'[u] \in {"steal", "activate", "pop", "reset"} => pc'[u] = pc[u]
      OBVIOUS
    <3> QED
      BY <1>4, <3>1 DEF Inv, ClosedQueues
  <2>3. \A k : Inputs(k)' = Inputs(k)
    BY DEF Inputs, LastStage, Outputs
  <2> QED
    BY <2>1, <2>2, <2>3 DEF ClosedQueues
<1>6. WordInv'
  BY DEF Inv, WordInv
<1>7. RestInv'
  BY <1>3, <1>4 DEF Inv, RestInv
<1>8. LeftInv'
  <2>1. \A q : Left(q)' <=> Left(q)
    BY <1>4 DEF Left
  <2>2. pc'[MASTER_THREAD] \in {"index", "init", "reset"} =>
          pc'[MASTER_THREAD] = pc[MASTER_THREAD] /\ i'[MASTER_THREAD] = i[MASTER_THREAD]
    BY Master DEF Inv, Locals, LoopLocal
  <2> QED
    BY <1>4, <2>1, <2>2 DEF Inv, LeftInv
<1> QED
  BY <1>1, <1>2, <1>5, <1>6, <1>7, <1>8, ClosedStep

\* SignalAll and the wake of a worker.
LEMMA SignalStep ==
  ASSUME Inv, ~ BackToBack, SignalAll \/ \E t \in Workers : Wake(t)
  PROVE  Inv'
<1> DEFINE M == MASTER_THREAD
<1>a. PICK S : pc \in [Threads -> S]
  BY Master, SelfTypes
<1>b. TypeOK' /\ Locals' /\ Pool'
  BY ComputeTypes, ComputeLocals, ComputePool
<1>1. /\ UNCHANGED <<fTaskList, fHead, fTail, op, fTaskGraph, fIndex, fFullcount,
                     fDynamicNumThreads, tasknum, todo, keep, jobs, num, done, leftover>>
      /\ \E w \in Threads : /\ pc[w] \in {"signal", "wait"} /\ pc'[w] \in {"signal", "loop"}
                            /\ pc[w] = "wait" => w # M
                            /\ w # M => i' = i
                            /\ \A u \in Threads : u # w => pc'[u] = pc[u]
  BY <1>a, Master
     DEF SignalAll, Wake, Goto, queueVars, callVars, taskVars, outputVars, loopVars, history
<1>2. PICK w \in Threads : /\ pc[w] \in {"signal", "wait"} /\ pc'[w] \in {"signal", "loop"}
                           /\ pc[w] = "wait" => w # M
                           /\ w # M => i' = i
                           /\ \A u \in Threads : u # w => pc'[u] = pc[u]
  BY <1>1
<1>3. \A u \in Threads : Closing(u)' <=> Closing(u)
  BY <1>2 DEF Closing
<1>4. /\ Setup' <=> Setup
      /\ Dealing' <=> Dealing
      /\ InCall' <=> InCall
      /\ pc'[M] = "index" <=> pc[M] = "index"
  BY <1>1, <1>2, Master DEF Setup, Dealing, InCall
<1>5. Open' <=> Open
  BY <1>1, <1>3, <1>4 DEF Open
<1>6. CASE Open
  BY <1>b, <1>5, <1>6, WakeSteps
<1>7. CASE ~ Open
  <2>1. tasknum[w] = WORK_STEALING_INDEX
    BY <1>2 DEF Inv, Locals, TaskLocal
  <2>2. \A u \in Threads :
           /\ pc'[u] = pc[u] \/ pc'[u] \in {"loop", "signal", "stop", "stopped"}
           /\ pc'[u] = "loop" => tasknum[u] = WORK_STEALING_INDEX
    BY <1>2, <1>7, <2>1, ClosedJobs
  <2>3. \A u \in Threads : pc'[u] = "reset" => i'[u] = i[u]
    <3>1. PICK I : i \in [Threads -> I]
      BY Master, SelfTypes
    <3>2. SignalAll => \A u \in Threads : u # M => i'[u] = i[u]
      BY <3>1 DEF SignalAll
    <3>3. (\E t \in Workers : Wake(t)) => i' = i
      BY DEF Wake, loopVars
    <3>4. SignalAll => pc'[M] # "reset"
      BY <1>a, Master DEF SignalAll, Goto
    <3> QED
      BY <3>2, <3>3, <3>4
  <2> QED
    BY <1>1, <1>4, <1>5, <1>7, <1>b, <2>2, <2>3, PoolStep
<1> QED
  BY <1>6, <1>7

\* deleteScheduler.
LEMMA StopStep ==
  ASSUME Inv, ~ BackToBack, Delete \/ StopAll
  PROVE  Inv'
<1> DEFINE M == MASTER_THREAD
<1>a. PICK S : pc \in [Threads -> S]
  BY Master, SelfTypes
<1>b. TypeOK' /\ Locals' /\ Pool'
  BY ComputeTypes, ComputeLocals, ComputePool
<1>1. /\ UNCHANGED <<fTaskList, fHead, fTail, op, fTaskGraph, fIndex, fFullcount,
                     fDynamicNumThreads, tasknum, todo, keep, jobs, num, done, leftover>>
      /\ pc[M] \in {"outside", "stop"}
  BY DEF Delete, StopAll, queueVars, callVars, poolVars, taskVars, outputVars, history
<1>2. /\ pc'[M] \in {"stop", "stopped"}
      /\ \A u \in Threads : pc'[u] = pc[u] \/ pc'[u] \in {"stop", "stopped"}
  BY <1>a, Master DEF Delete, StopAll, Goto
<1>3. ~ Open /\ ~ Setup /\ ~ (fIndex < fFullcount) /\ ~ InCall
  BY <1>1, OutsideClosed DEF InCall
<1>4. ~ Setup' /\ ~ InCall' /\ ~ Dealing'
  BY <1>2 DEF Setup, InCall, Dealing
<1>5. ~ Open'
  BY <1>1, <1>3, <1>4 DEF Open
<1>6. \A u \in Threads : pc'[u] = "reset" => i'[u] = i[u]
  <2>1. PICK I : i \in [Threads -> I]
    BY Master, SelfTypes
  <2>2. \A u \in Threads : u # M => i'[u] = i[u]
    BY <2>1 DEF Delete, StopAll
  <2> QED
    BY <1>2, <2>2
<1>7. \A u \in Threads : pc'[u] = "loop" => tasknum[u] = WORK_STEALING_INDEX
  BY <1>2, <1>3, ClosedJobs
<1>8. pc'[M] = "index" <=> pc[M] = "index"
  BY <1>1, <1>2
<1> QED
  BY <1>1, <1>2, <1>3, <1>4, <1>5, <1>6, <1>7, <1>8, <1>b, PoolStep

\* The instance after init is at rest.
LEMMA InitInv == Init => Inv
<1> SUFFICES ASSUME Init PROVE Inv
  OBVIOUS
<1> DEFINE M == MASTER_THREAD
<1>a. M \in Threads /\ M = 0 /\ \A u \in Threads : u \in Workers <=> u # M
  BY Master
<1>b. /\ \A t \in Threads : pc[t] = IF t = M THEN "outside" ELSE "wait"
      /\ \A t \in Threads : /\ tasknum[t] = WORK_STEALING_INDEX /\ keep[t] = WORK_STEALING_INDEX
                            /\ todo[t] = {} /\ jobs[t] = << >> /\ i[t] = 0 /\ num[t] = 0
                            /\ op[t] = IdleOp(t) /\ fHead[t] = 0 /\ fTail[t] = 0
      /\ \A t \in Workers : fSemaphore[t] = 0
      /\ fIndex = 0 /\ fFullcount = 0 /\ fDynamicNumThreads = NumThreads /\ computes = 0
      /\ \A k \in Task : done[k] = 0
      /\ leftover = {}
  BY DEF Init, QueueInit
<1>1. TypeOK
  <2>1. QueueTypeOK
    BY OpTypes DEF Init, QueueInit, QueueTypeOK
  <2>2. fDynamicNumThreads \in 1 .. fStaticNumThreads /\ 0 \in 0 .. fStaticNumThreads
    BY <1>b, ThreadNumbers
  <2>3. /\ i \in [Threads -> 0 .. fStaticNumThreads]
        /\ num \in [Threads -> 0 .. fStaticNumThreads]
    BY <2>2 DEF Init
  <2>4. jobs \in [Threads -> Seq(Threads \X Task)]
    BY DEF Init
  <2>5. computes \in 0 .. MaxComputes
    BY Samples DEF Init
  <2>6. fSemaphore \in [Workers -> Nat] /\ base \in [Threads -> Nat] /\ count \in [Threads -> Nat]
        /\ done \in [Task -> Nat] /\ fTaskGraph \in [Counted -> Int]
    BY DEF Init
  <2>7. pc \in [Threads -> {"outside", "wait"}] /\ todo \in [Threads -> SUBSET Counted]
        /\ tasknum \in [Threads -> {WORK_STEALING_INDEX}] /\ keep \in [Threads -> {WORK_STEALING_INDEX}]
    BY DEF Init
  <2> QED
    BY <1>b, <2>1, <2>2, <2>3, <2>4, <2>5, <2>6, <2>7 DEF TypeOK
<1>2. \A t \in Threads : /\ op[t].at = "idle" /\ pc[t] \in {"outside", "wait"}
                         /\ pc[t] = "outside" <=> t = M
  <2>0. \A t \in Threads : op[t] = IdleOp(t)
    BY <1>b
  <2>1. \A t \in Threads : op[t].at = "idle"
    <3>1. \A t : IdleOp(t).at = "idle"
      BY DEF IdleOp
    <3> QED
      BY <2>0, <3>1
  <2>2. \A t \in Threads : (t = M => pc[t] = "outside") /\ (t # M => pc[t] = "wait")
    BY <1>b
  <2> QED
    BY <2>1, <2>2
<1>3. Locals
  <2> SUFFICES ASSUME NEW t \in Threads
               PROVE  /\ TaskLocal(t) /\ OutputLocal(t) /\ JobsLocal(t) /\ OpLocal(t)
                      /\ LoopLocal(t) /\ Apart(t)
    BY DEF Locals
  <2>1. TaskLocal(t) /\ OutputLocal(t) /\ JobsLocal(t)
    BY <1>b, <1>2 DEF TaskLocal, OutputLocal, JobsLocal
  <2>2. OpLocal(t) /\ LoopLocal(t)
    BY <1>b, <1>2 DEF OpLocal, LoopLocal
  <2>3. Apart(t)
    BY <1>b, <1>2 DEF Apart, AtPush, AtJobs, AtTodo
  <2> QED
    BY <2>1, <2>2, <2>3
<1>4. ~ InCall /\ ~ Setup /\ ~ Open /\ \A t \in Threads : ~ Closing(t)
  BY <1>a, <1>b, <1>2 DEF InCall, Setup, Open, Closing, Dealing
<1>5. Pool
  BY <1>a, <1>b, <1>2, <1>4, Master DEF Pool
<1>6. DoneInv /\ CounterInv /\ ReleaseInv /\ SlotInv /\ LiveInv /\ OpInv
  BY <1>4 DEF DoneInv, CounterInv, ReleaseInv, SlotInv, LiveInv, OpInv
<1>7. \A t \in Threads, k \in Counted : ~ Has(t, k)
  BY <1>b, <1>2, TaskNumbers DEF Has, ToPush, AtHand, AtKeep, AtLoad, AtTodo, AtJobs, AtPush
<1>8. OwnerInv /\ LatchInv
  BY <1>2, <1>7 DEF OwnerInv, LatchInv, IndexIsLatched
<1>9. ClosedInv
  BY <1>b, <1>2, <1>7 DEF ClosedInv
<1>10. ClosedDone
  BY <1>b DEF ClosedDone, Min
<1>11. ClosedQueues
  BY <1>b, <1>2 DEF ClosedQueues
<1>12. WordInv /\ \A q \in Threads : EmptyQueue(q)
  BY <1>b DEF WordInv, EmptyQueue
<1>13. RestInv
  BY <1>b, <1>4, <1>12 DEF RestInv
<1>14. LeftInv
  <2>1. Used \subseteq Threads
    BY <1>1, ThreadNumbers DEF Used, TypeOK
  <2> QED
    BY <1>12, <2>1 DEF LeftInv, Left
<1> QED
  BY <1>1, <1>3, <1>5, <1>6, <1>8, <1>9, <1>10, <1>11, <1>12, <1>13, <1>14 DEF Inv

\* A step that changes nothing.
LEMMA StutterInv ==
  ASSUME Inv, UNCHANGED vars
  PROVE  Inv'
<1>1. UNCHANGED <<fTaskList, fHead, fTail, op, fTaskGraph, fIndex, fFullcount, fDynamicNumThreads,
                  fSemaphore, pc, tasknum, base, count, todo, keep, jobs, i, num, done, computes,
                  leftover>>
  BY DEF vars, queueVars, callVars, poolVars, locals, taskVars, outputVars, loopVars, history
<1>2. TypeOK' /\ LatchInv' /\ WordInv'
  BY <1>1 DEF Inv, TypeOK, QueueTypeOK, LatchInv, IndexIsLatched, WordInv
<1>3. \A t, k : /\ Has(t, k)' <=> Has(t, k)
                /\ ToPush(t, k)' <=> ToPush(t, k)
                /\ AtHand(t, k)' <=> AtHand(t, k)
                /\ AtKeep(t, k)' <=> AtKeep(t, k)
                /\ AtTodo(t, k)' <=> AtTodo(t, k)
                /\ AtJobs(t, k)' <=> AtJobs(t, k)
                /\ AtPush(t, k)' <=> AtPush(t, k)
  BY <1>1 DEF Has, ToPush, AtHand, AtKeep, AtLoad, AtTodo, AtJobs, AtPush, PoppedTask, PoppedSlot
<1>4. /\ Open' <=> Open
      /\ Dealing' <=> Dealing
      /\ Setup' <=> Setup
      /\ InCall' <=> InCall
      /\ NothingLeft' <=> NothingLeft
      /\ Used' = Used
      /\ \A t : (Closing(t)' <=> Closing(t)) /\ (Awake(t)' <=> Awake(t))
      /\ \A q : EmptyQueue(q)' <=> EmptyQueue(q)
      /\ \A q : Live(q)' = Live(q)
      /\ \A t : PoppedTask(t)' = PoppedTask(t)
  BY <1>1 DEF Open, Closing, Dealing, Setup, InCall, NothingLeft, Used, Awake, EmptyQueue, Live,
              PoppedTask, PoppedSlot
<1>5. \A k : /\ Ended(k)' <=> Ended(k)
             /\ Waiting(k)' = Waiting(k)
             /\ Activators(k)' = Activators(k)
             /\ Released(k)' <=> Released(k)
  BY <1>1 DEF Ended, Waiting, Activators, Released, Preds
<1>6. Locals'
  <2> SUFFICES ASSUME NEW t \in Threads
               PROVE  (/\ TaskLocal(t) /\ OutputLocal(t) /\ JobsLocal(t) /\ OpLocal(t)
                       /\ LoopLocal(t) /\ Apart(t))'
    BY DEF Locals
  <2>0. /\ TaskLocal(t) /\ OutputLocal(t) /\ JobsLocal(t) /\ OpLocal(t)
        /\ LoopLocal(t) /\ Apart(t)
    BY DEF Inv, Locals
  <2>1. TaskLocal(t)' /\ OutputLocal(t)' /\ OpLocal(t)' /\ LoopLocal(t)'
    BY <1>1, <2>0 DEF TaskLocal, OutputLocal, OpLocal, LoopLocal
  <2>2. JobsLocal(t)'
    BY <1>1, <1>4, <2>0 DEF JobsLocal
  <2>3. Apart(t)'
    BY <1>3, <2>0 DEF Apart
  <2> QED
    BY <2>1, <2>2, <2>3
<1>7. Pool'
  BY <1>1, <1>4 DEF Inv, Pool
<1>8. DoneInv' /\ CounterInv' /\ ReleaseInv' /\ OwnerInv'
  BY <1>1, <1>3, <1>4, <1>5 DEF Inv, DoneInv, CounterInv, ReleaseInv, OwnerInv
<1>9. SlotInv' /\ LiveInv'
  BY <1>1, <1>3, <1>4, <1>5 DEF Inv, SlotInv, LiveInv
<1>10. OpInv' /\ ClosedInv' /\ ClosedDone' /\ ClosedQueues' /\ RestInv' /\ LeftInv'
  BY <1>1, <1>3, <1>4 DEF Inv, OpInv, ClosedInv, ClosedDone, ClosedQueues, RestInv, LeftInv, Left
<1> QED
  BY <1>2, <1>6, <1>7, <1>8, <1>9, <1>10 DEF Inv

\* Every step of the system keeps the invariant.
LEMMA NextInv ==
  ASSUME XaddReturnsNew, ~ BackToBack, Inv, [Next]_vars
  PROVE  Inv'
<1>1. CASE \E n \in Counts : Compute(n)
  BY <1>1, CallStep
<1>2. CASE ResetIndex
  BY <1>2, IndexStep
<1>3. CASE SignalAll \/ \E t \in Workers : Wake(t)
  BY <1>3, SignalStep
<1>4. CASE \E t \in Threads : Run(t)
  BY <1>4, RunInv
<1>5. CASE Delete \/ StopAll
  BY <1>5, StopStep
<1>6. CASE Deleted \/ UNCHANGED vars
  BY <1>6, StutterInv DEF Deleted
<1> QED
  BY <1>1, <1>2, <1>3, <1>4, <1>5, <1>6 DEF Next

-----------------------------------------------------------------------------
(***************************************************************************)
(* The theorems.  XaddReturnsNew: DEC_ATOMIC is tested for the value after *)
(* the decrement, as the Apple build has it.  ~ BackToBack: compute is     *)
(* only called when all workers wait.  The runs oldvalue and backtoback    *)
(* show what happens without them.                                         *)
(***************************************************************************)
\* The inductive invariant holds of every execution of the scheduler and of the
\* code -sch generates, for any DAG, any number of threads and any counts.
THEOREM Invariance ==
  ASSUME XaddReturnsNew, ~ BackToBack
  PROVE  Spec => []Inv
BY InitInv, NextInv, PTL DEF Spec

\* No two threads are ever in the body of the same task (computeThread's switch),
\* whose buffers they would share, and a thread in a body renders the samples
\* of the current vector, although fIndex is read without a lock.
THEOREM BodiesApart ==
  ASSUME XaddReturnsNew, ~ BackToBack
  PROVE  Spec => [](NoSharedBody /\ IndexIsLatched)
<1>1. Inv => NoSharedBody /\ IndexIsLatched
  <2> SUFFICES ASSUME Inv PROVE NoSharedBody /\ IndexIsLatched
    OBVIOUS
  <2>1. ASSUME NEW t \in Threads, NEW u \in Threads, NEW k \in Task, Runs(t, k), Runs(u, k)
        PROVE  t = u
    <3>1. k \in Counted /\ Has(t, k) /\ Has(u, k)
      BY <2>1, TaskNumbers DEF Runs, Has, AtHand
    <3> QED
      BY <3>1 DEF Inv, OwnerInv
  <2> QED
    BY <2>1 DEF NoSharedBody, Inv, LatchInv
<1> QED
  BY <1>1, Invariance, PTL

\* The scheduler uses the queues as their lock-free operations require: one
\* producer at a time (PushHead is no CAS), the head stays in the array, and
\* InitOne resets a queue that nobody is about to use and that is empty, unless
\* compute resets, with all workers waiting, what a call of no sample dealt out.
THEOREM QueuesUsedRightly ==
  ASSUME XaddReturnsNew, ~ BackToBack
  PROVE  Spec => []QueueContract
<1>1. Inv => QueueContract
  <2> SUFFICES ASSUME Inv PROVE QueueContract
    OBVIOUS
  <2>1. ASSUME NEW t \in Threads, NEW q \in Threads, Pushing(t, q)
        PROVE  /\ Open /\ q \in Used /\ (q = t \/ Dealing)
    <3>1. op[t].at \in {"incLoad", "incStore"} /\ op[t].q = q
      BY <2>1 DEF Pushing
    <3>2. Open
      BY <3>1 DEF Inv, ClosedInv
    <3> QED
      BY <3>1, <3>2 DEF Inv, OpInv
  <2>2. Dealing => \A u \in Threads : u # MASTER_THREAD => op[u].at = "idle"
    BY SetupAlone, Master DEF Dealing, Setup
  <2>3. ASSUME NEW t \in Threads, NEW u \in Threads, NEW q \in Threads, t # u, Pushing(t, q)
        PROVE  ~ Pushing(u, q) /\ ~ PoppingHead(u, q)
    <3>1. Open /\ (q = t \/ Dealing)
      BY <2>1, <2>3
    <3>2. CASE Dealing
      <4>1. t = MASTER_THREAD /\ op[u].at = "idle"
        BY <2>2, <2>3, <3>2 DEF Pushing
      <4> QED
        BY <4>1 DEF Pushing, PoppingHead
    <3>3. CASE ~ Dealing
      <4>1. q = t /\ ~ Pushing(u, q)
        BY <2>1, <2>3, <3>1, <3>3
      <4>2. ASSUME PoppingHead(u, q) PROVE FALSE
        <5>1. op[u].at \in {"cas", "load"} /\ op[u].q = t /\ op[u].end = HeadEnd
          BY <4>1, <4>2 DEF PoppingHead
        <5>2. OpLocal(u) /\ TaskLocal(u)
          BY DEF Inv, Locals
        <5>3. pc[u] \in {"steal", "pop", "stopped"}
          BY <5>1, <5>2 DEF OpLocal
        <5>4. HeadEnd # TailEnd
          BY DEF HeadEnd, TailEnd
        <5>5. pc[u] = "stopped"
          BY <2>3, <5>1, <5>2, <5>3, <5>4 DEF OpLocal
        <5>6. pc[MASTER_THREAD] \in {"stop", "stopped"}
          BY <5>5, Master DEF Inv, Pool
        <5> QED
          BY <3>1, <5>6, OutsideClosed DEF InCall
      <4> QED
        BY <4>1, <4>2
    <3> QED
      BY <3>2, <3>3
  <2>4. ASSUME NEW t \in Threads, NEW q \in Threads, Pushing(t, q)
        PROVE  fHead[q] \in Slots
    <3>1. Open /\ q \in Used /\ fHead[q] \in Nat
      BY <2>1, <2>4 DEF Inv, TypeOK, QueueTypeOK
    <3>2. /\ \A j \in 0 .. fHead[q] - 1 : fTaskList[q][j] \in Task
          /\ \A j, l \in 0 .. fHead[q] - 1 : fTaskList[q][j] = fTaskList[q][l] => j = l
      BY <3>1 DEF Inv, SlotInv
    <3> QED
      BY <3>1, <3>2, HeadBound
  <2>5. ASSUME NEW t \in Threads, pc[t] = "reset"
        PROVE  /\ \A u \in Threads : op[u].at \in {"incLoad", "incStore", "load"} => op[u].q # i[t]
               /\ Live(i[t]) # {} => /\ i[t] \in leftover
                                     /\ tasknum[t] = WORK_STEALING_INDEX
                                     /\ \A w \in Workers : pc[w] = "wait"
    <3>1. ~ Open
      BY <2>5 DEF Open, Closing
    <3>2. i[t] \in Used /\ i[t] \in Nat
      <4>1. i[t] < num[t] /\ num[t] = fDynamicNumThreads
        BY <2>5 DEF Inv, Locals, LoopLocal
      <4>2. i[t] \in Nat /\ fDynamicNumThreads \in Nat
        BY SelfTypes DEF Inv, TypeOK
      <4> QED
        BY <4>1, <4>2 DEF Used
    <3>3. EmptyQueue(i[t]) => Live(i[t]) = {}
      <4>1. i[t] \in Threads
        <5>1. \A n \in 1 .. fStaticNumThreads : 0 .. n - 1 \subseteq Threads
          BY ThreadNumbers
        <5>2. fDynamicNumThreads \in 1 .. fStaticNumThreads
          BY DEF Inv, TypeOK
        <5> QED
          BY <3>2, <5>1, <5>2 DEF Used
      <4>2. fHead[i[t]] \in Nat /\ fTail[i[t]] \in Nat
        BY <4>1 DEF Inv, TypeOK, QueueTypeOK
      <4> QED
        BY <4>2 DEF Live, EmptyQueue
    <3>4. CASE tasknum[t] = LAST_TASK_INDEX
      <4>1. fIndex < fFullcount
        BY <2>5, <3>4 DEF Inv, Pool
      <4>2. ~ Setup
        <5> SUFFICES ASSUME Setup PROVE FALSE
          OBVIOUS
        <5>1. t = MASTER_THREAD
          BY <2>5, SetupAlone, Master
        <5> QED
          BY <2>5, <3>4, <5>1, TaskNumbers DEF Setup
      <4> QED
        BY <3>1, <3>2, <3>3, <4>1, <4>2 DEF Inv, ClosedQueues, ClosedInv
    <3>5. CASE tasknum[t] # LAST_TASK_INDEX
      <4>1. t = MASTER_THREAD /\ tasknum[t] = WORK_STEALING_INDEX
        BY <2>5, <3>5 DEF Inv, Locals, TaskLocal
      <4>2. Setup
        BY <2>5, <4>1 DEF Setup
      <4>3. Left(i[t])
        BY <2>5, <3>2, <4>1, <4>2 DEF Inv, LeftInv
      <4>4. \A w \in Workers : pc[w] = "wait"
        BY <4>2, SetupAlone
      <4> QED
        BY <3>1, <3>3, <4>1, <4>3, <4>4 DEF Left, Inv, ClosedInv
    <3> QED
      BY <3>4, <3>5
  <2>6. SingleProducer
    BY <2>3 DEF SingleProducer
  <2>7. HeadInBounds
    BY <2>4 DEF HeadInBounds
  <2>8. ResetIsSafe
    BY <2>5 DEF ResetIsSafe
  <2> QED
    BY <2>6, <2>7, <2>8 DEF QueueContract
<1> QED
  BY <1>1, Invariance, PTL

\* When compute returns every task has rendered every sample of the call.
THEOREM CallsRendered ==
  ASSUME XaddReturnsNew, ~ BackToBack
  PROVE  Spec => []ReturnsRendered
<1>1. Inv => ReturnsRendered
  <2> SUFFICES ASSUME Inv, pc[MASTER_THREAD] = "outside"
               PROVE  \A k \in Task : done[k] = fFullcount
    BY DEF ReturnsRendered
  <2>1. ~ Open /\ ~ (fIndex < fFullcount) /\ fIndex \in Nat /\ fFullcount \in Nat
    BY OutsideClosed DEF InCall, Inv, TypeOK
  <2> QED
    BY <2>1 DEF Inv, ClosedDone, Min
<1> QED
  BY <1>1, Invariance, PTL

\* When compute returns all is rendered and no task is left, in a queue or with
\* a thread, that a worker could run in the next call.  A call of no sample
\* leaves its ready tasks in the queues, so this needs that the number of
\* threads is fixed (OMP_DYN_THREAD not set) or that no call is empty.
THEOREM CallsComplete ==
  ASSUME XaddReturnsNew, ~ BackToBack, ~ fDynAdapt \/ 0 \notin Counts
  PROVE  Spec => []ReturnsComplete
<1>1. Inv => ReturnsDrained
  <2> SUFFICES ASSUME Inv, pc[MASTER_THREAD] = "outside", fFullcount > 0
               PROVE  /\ \A q \in Threads : Live(q) = {}
                      /\ \A t \in Threads : pc[t] = "loop" => tasknum[t] \notin Task
    BY DEF ReturnsDrained
  <2>1. ~ Open /\ ~ Setup
    BY OutsideClosed DEF InCall
  <2>2. \A q \in Threads : fHead[q] = fTail[q] /\ fHead[q] \in Nat
    BY <2>1 DEF Inv, RestInv, NothingLeft, EmptyQueue, TypeOK, QueueTypeOK
  <2>3. \A t \in Threads : pc[t] = "loop" => tasknum[t] \notin Task
    BY <2>1, ClosedJobs, TaskNumbers
  <2> QED
    BY <2>2, <2>3 DEF Live
<1>2. Spec => []ReturnsDrained
  BY <1>1, Invariance, PTL
<1>3. Spec => []ReturnsRendered
  BY CallsRendered
<1> QED
  BY <1>2, <1>3, PTL DEF ReturnsComplete

-----------------------------------------------------------------------------
(***************************************************************************)
(* The threads together do what one sequential program would.              *)
(***************************************************************************)
\* The variables of DagExecution.
DagIndex == IF pc[MASTER_THREAD] = "index" THEN 0 ELSE fIndex
DagRunning == {k \in Task : \E t \in Threads : Runs(t, k)}

\* A task is started once in a vector, after its inputs have ended.
LEMMA DispatchStarts ==
  ASSUME Inv, NEW t \in Threads, Run(t), Dispatch(t), tasknum[t] \in Task
  PROVE  Dag!Start(tasknum[t])
<1> DEFINE k == tasknum[t]
<1>a. PICK S : pc \in [Threads -> S]
  BY SelfTypes
<1>b. /\ k \in Counted /\ k # LAST_TASK_INDEX /\ k # WORK_STEALING_INDEX
      /\ fIndex \in Nat /\ fFullcount \in Nat /\ VecSize \in Nat /\ VecSize >= 1
      /\ done \in [Task -> Nat] /\ Back \in [Task -> SUBSET Task]
  BY TaskNumbers, Samples, WorkStealingAssumption DEF Inv, TypeOK
<1>1. /\ pc[t] = "loop" /\ pc'[t] = "run" /\ tasknum' = tasknum /\ fIndex < fFullcount
      /\ fIndex' = fIndex /\ fFullcount' = fFullcount /\ done' = done
  BY <1>a, <1>b DEF Dispatch, Goto, callVars, history
<1>2. Has(t, k)
  BY <1>1 DEF Has, AtHand
<1>3. Open
  BY <1>b, <1>2 DEF Inv, ClosedInv
<1>4. Released(k) /\ ~ Ended(k)
  BY <1>b, <1>2, <1>3 DEF Inv, ReleaseInv
<1>5. done[k] = fIndex
  <2>1. done[k] \in {fIndex, Min(fIndex + VecSize, fFullcount)} /\ ~ (done[k] > fIndex)
    BY <1>3, <1>4 DEF Inv, DoneInv, Ended
  <2> QED
    BY <1>b, <1>1, <2>1 DEF Min
<1>6. \A p \in Back[k] : done[p] > fIndex
  <2>1. Preds(k) = Back[k]
    BY <1>b DEF Preds
  <2> QED
    BY <1>4, <2>1 DEF Released, Waiting, Ended
<1>7. \A u \in Threads : u # t => SameThread(u)
  BY RunFrame
<1>8. k \notin DagRunning
  <2> SUFFICES ASSUME NEW u \in Threads, Runs(u, k) PROVE FALSE
    BY DEF DagRunning
  <2>1. Has(u, k)
    BY DEF Runs, Has, AtHand
  <2>2. u = t
    BY <1>b, <1>2, <2>1 DEF Inv, OwnerInv
  <2> QED
    BY <1>1, <2>2 DEF Runs
<1>9. DagRunning' = DagRunning \cup {k}
  <2>1. \A u \in Threads, c \in Task : u # t => (Runs(u, c)' <=> Runs(u, c))
    BY <1>7 DEF Runs, SameThread
  <2>2. \A c \in Task : ~ Runs(t, c) /\ (Runs(t, c)' <=> c = k)
    BY <1>1 DEF Runs
  <2>3. \A c \in Task : c \in DagRunning' <=> c \in DagRunning \/ c = k
    BY <2>1, <2>2 DEF DagRunning
  <2>4. DagRunning \subseteq Task /\ DagRunning' \subseteq Task
    BY DEF DagRunning
  <2> QED
    BY <2>3, <2>4
<1>10. pc[MASTER_THREAD] # "index" /\ pc'[MASTER_THREAD] # "index"
  BY <1>1, <1>3, <1>7, Master DEF Open, Closing, SameThread
<1>11. DagIndex = fIndex /\ DagIndex' = fIndex
  BY <1>1, <1>10 DEF DagIndex
<1>12. /\ DagIndex < fFullcount /\ done[k] = DagIndex /\ k \notin DagRunning
       /\ \A p \in Back[k] : done[p] > DagIndex
       /\ DagRunning' = DagRunning \cup {k}
       /\ fFullcount' = fFullcount /\ DagIndex' = DagIndex /\ done' = done
  BY <1>1, <1>5, <1>6, <1>8, <1>9, <1>11
<1> QED
  BY <1>12 DEF Dag!Start, DagIndex, DagRunning

\* The end of its body is the end of the task: it has rendered its vector.
LEMMA EndFinishes ==
  ASSUME Inv, NEW t \in Threads, Run(t), EndOfTask(t)
  PROVE  tasknum[t] \in Task /\ Dag!Finish(tasknum[t])
<1> DEFINE k == tasknum[t]
<1>a. PICK S : pc \in [Threads -> S]
  BY SelfTypes
<1>b. /\ fIndex \in Nat /\ fFullcount \in Nat /\ VecSize \in Nat /\ VecSize >= 1
      /\ done \in [Task -> Nat]
  BY Samples DEF Inv, TypeOK
<1>1. /\ pc[t] = "run" /\ pc'[t] \in {"loop", "one", "activate"}
      /\ fIndex' = fIndex /\ fFullcount' = fFullcount
      /\ done' = [done EXCEPT ![k] = @ + count[t]]
  BY <1>a DEF EndOfTask, Goto, callVars
<1>2. k \in Task /\ k \in Counted
  BY <1>1, TaskNumbers DEF Inv, Locals, TaskLocal
<1>3. Has(t, k)
  BY <1>1 DEF Has, AtHand
<1>4. Open
  BY <1>2, <1>3 DEF Inv, ClosedInv
<1>5. ~ Ended(k)
  BY <1>2, <1>3, <1>4 DEF Inv, ReleaseInv
<1>6. pc[MASTER_THREAD] # "index" /\ fIndex < fFullcount
  <2>1. ~ Dealing
    <3>1. t # MASTER_THREAD => ~ Setup
      BY <1>1, SetupAlone, Master
    <3> QED
      BY <1>1, <3>1 DEF Dealing, Setup
  <2> QED
    BY <1>4, <2>1, Master DEF Open, Closing
<1>7. done[k] = fIndex
  <2>1. done[k] \in {fIndex, Min(fIndex + VecSize, fFullcount)} /\ ~ (done[k] > fIndex)
    BY <1>2, <1>4, <1>5 DEF Inv, DoneInv, Ended
  <2> QED
    BY <1>b, <1>6, <2>1 DEF Min
<1>8. count[t] = Min(VecSize, fFullcount - fIndex)
  BY <1>1 DEF Inv, LatchInv, IndexIsLatched
<1>9. done' = [done EXCEPT ![k] = IF fIndex + VecSize < fFullcount THEN fIndex + VecSize
                                                                   ELSE fFullcount]
  <2>1. done[k] + count[t] = IF fIndex + VecSize < fFullcount THEN fIndex + VecSize ELSE fFullcount
    BY <1>b, <1>6, <1>7, <1>8 DEF Min
  <2> QED
    BY <1>1, <1>b, <1>2, <2>1
<1>10. \A u \in Threads : u # t => SameThread(u)
  BY RunFrame
<1>11. k \in DagRunning
  BY <1>1, <1>2 DEF DagRunning, Runs
<1>12. DagRunning' = DagRunning \ {k}
  <2>1. \A u \in Threads, c \in Task : u # t => (Runs(u, c)' <=> Runs(u, c))
    BY <1>10 DEF Runs, SameThread
  <2>2. \A c \in Task : ~ Runs(t, c)' /\ (Runs(t, c) <=> c = k)
    BY <1>1 DEF Runs
  <2>3. \A u \in Threads : Runs(u, k) => u = t
    <3> SUFFICES ASSUME NEW u \in Threads, Runs(u, k) PROVE u = t
      OBVIOUS
    <3>1. Has(u, k)
      BY DEF Runs, Has, AtHand
    <3> QED
      BY <1>2, <1>3, <3>1 DEF Inv, OwnerInv
  <2>4. \A c \in Task : c \in DagRunning' <=> c \in DagRunning /\ c # k
    BY <2>1, <2>2, <2>3 DEF DagRunning
  <2>5. DagRunning \subseteq Task /\ DagRunning' \subseteq Task
    BY DEF DagRunning
  <2> QED
    BY <2>4, <2>5
<1>13. pc'[MASTER_THREAD] # "index"
  BY <1>1, <1>6, <1>10, Master DEF SameThread
<1>14. DagIndex = fIndex /\ DagIndex' = fIndex
  BY <1>1, <1>6, <1>13 DEF DagIndex
<1>15. /\ k \in DagRunning /\ DagRunning' = DagRunning \ {k}
       /\ done' = [done EXCEPT ![k] = IF DagIndex + VecSize < fFullcount THEN DagIndex + VecSize
                                                                         ELSE fFullcount]
       /\ fFullcount' = fFullcount /\ DagIndex' = DagIndex
  BY <1>1, <1>9, <1>11, <1>12, <1>14
<1> QED
  BY <1>2, <1>15 DEF Dag!Finish, DagIndex, DagRunning

\* The last task goes on when every task has rendered the vector.
LEMMA LastIsNext ==
  ASSUME Inv, NEW t \in Threads, Run(t), LastTask(t)
  PROVE  Dag!NextVector
<1>a. PICK S : pc \in [Threads -> S]
  BY SelfTypes
<1>1. /\ pc[t] = "last" /\ pc'[t] = "next" /\ tasknum' = tasknum /\ fIndex' = fIndex + VecSize
      /\ fFullcount' = fFullcount /\ done' = done
  BY <1>a DEF LastTask, Goto, taskVars, history
<1>2. Open /\ fIndex < fFullcount /\ \A u \in Threads : ~ Closing(u)
  BY <1>1, LastOpen
<1>3. Has(t, LAST_TASK_INDEX)
  BY <1>1 DEF Has, AtHand, Inv, Locals, TaskLocal
<1>4. \A k \in Task : done[k] > fIndex
  <2>1. \A k \in Task : Ended(k)
    BY <1>2, <1>3, LastAlone
  <2> QED
    BY <2>1 DEF Ended
<1>5. \A u \in Threads : u # t => SameThread(u)
  BY RunFrame
<1>6. DagRunning' = DagRunning
  <2>1. \A u \in Threads, c \in Task : u # t => (Runs(u, c)' <=> Runs(u, c))
    BY <1>5 DEF Runs, SameThread
  <2>2. \A c \in Task : ~ Runs(t, c)' /\ ~ Runs(t, c)
    BY <1>1 DEF Runs
  <2> QED
    BY <2>1, <2>2 DEF DagRunning
<1>7. pc[MASTER_THREAD] # "index" /\ pc'[MASTER_THREAD] # "index"
  BY <1>1, <1>2, <1>5, Master DEF Closing, SameThread
<1>8. /\ DagIndex < fFullcount /\ \A k \in Task : done[k] > DagIndex
      /\ DagIndex' = DagIndex + VecSize
      /\ fFullcount' = fFullcount /\ done' = done /\ DagRunning' = DagRunning
  BY <1>1, <1>2, <1>4, <1>6, <1>7 DEF DagIndex
<1> QED
  BY <1>8 DEF Dag!NextVector, DagIndex, DagRunning

\* No other step of compute or computeThread is seen.
LEMMA RunRefines ==
  ASSUME Inv, NEW t \in Threads, Run(t)
  PROVE  Dag!Next \/ UNCHANGED <<fFullcount, DagIndex, done, DagRunning>>
<1>a. PICK S : pc \in [Threads -> S]
  BY SelfTypes
<1>b. /\ pc[t] \notin {"wait", "outside", "index", "signal", "stop", "stopped"}
      /\ pc'[t] # "index" /\ fFullcount' = fFullcount
      /\ ~ LastTask(t) => fIndex' = fIndex
  BY RunCall, RunPhase
<1>c. \A u \in Threads : u # t => SameThread(u)
  BY RunFrame
<1>1. CASE Dispatch(t) /\ tasknum[t] \in Task
  BY <1>1, DispatchStarts DEF Dag!Next
<1>2. CASE EndOfTask(t)
  BY <1>2, EndFinishes DEF Dag!Next
<1>3. CASE LastTask(t)
  BY <1>3, LastIsNext DEF Dag!Next
<1>4. CASE ~ (Dispatch(t) /\ tasknum[t] \in Task) /\ ~ EndOfTask(t) /\ ~ LastTask(t)
  <2> USE DEF Goto, Set, locals, taskVars, history
  <2>1. done' = done
    <3>1. CASE InitGraph(t) \/ InitAll(t) \/ PushReady(t) \/ ReadyPushed(t) \/ Dispatch(t)
               \/ Return(t) \/ NextVector(t)
      BY <3>1 DEF InitGraph, InitAll, PushReady, ReadyPushed, Dispatch, Return, NextVector
    <3>2. CASE StealEmpty(t) \/ StealRead(t) \/ PopHeadEmpty(t) \/ PopHeadRead(t) \/ Popped(t)
               \/ QueueOp(t)
      BY <3>2 DEF StealEmpty, StealRead, PopHeadEmpty, PopHeadRead, Popped, QueueOp
    <3>3. CASE ActivateOneOutputTask(t) \/ PushOutput(t) \/ ActivateOutputTask(t)
               \/ PushActivated(t) \/ Activated(t)
      BY <3>3 DEF ActivateOneOutputTask, PushOutput, ActivateOutputTask, PushActivated, Activated
    <3> QED
      BY <1>4, <3>1, <3>2, <3>3 DEF Run
  <2>2. (pc[t] # "run" /\ pc'[t] # "run") \/ (pc' = pc /\ tasknum' = tasknum)
    <3>1. CASE InitGraph(t) \/ InitAll(t) \/ PushReady(t) \/ ReadyPushed(t) \/ Return(t)
               \/ NextVector(t)
      BY <1>a, <3>1 DEF InitGraph, InitAll, PushReady, ReadyPushed, Return, NextVector
    <3>2. CASE Dispatch(t)
      BY <1>a, <1>4, <3>2 DEF Dispatch
    <3>3. CASE StealEmpty(t) \/ PopHeadEmpty(t)
      BY <1>a, <3>3 DEF StealEmpty, PopHeadEmpty
    <3>4. CASE StealRead(t) \/ PopHeadRead(t) \/ QueueOp(t)
      BY <3>4 DEF StealRead, PopHeadRead, QueueOp
    <3>5. CASE Popped(t)
      <4>1. pc[t] # "run"
        BY <3>5 DEF Popped, PopLoad, Inv, Locals, OpLocal
      <4> QED
        BY <1>a, <3>5, <4>1 DEF Popped
    <3>6. CASE ActivateOneOutputTask(t) \/ PushOutput(t) \/ ActivateOutputTask(t)
               \/ PushActivated(t) \/ Activated(t)
      BY <1>a, <3>6
         DEF ActivateOneOutputTask, PushOutput, ActivateOutputTask, PushActivated, Activated
    <3> QED
      BY <1>4, <3>1, <3>2, <3>3, <3>4, <3>5, <3>6 DEF Run
  <2>3. DagRunning' = DagRunning
    <3>1. \A u \in Threads, c \in Task : u # t => (Runs(u, c)' <=> Runs(u, c))
      BY <1>c DEF Runs, SameThread
    <3>2. \A c \in Task : Runs(t, c)' <=> Runs(t, c)
      BY <2>2 DEF Runs
    <3> QED
      BY <3>1, <3>2 DEF DagRunning
  <2>4. pc'[MASTER_THREAD] = "index" <=> pc[MASTER_THREAD] = "index"
    BY <1>b, <1>c, Master DEF SameThread
  <2>5. DagIndex' = DagIndex
    BY <1>4, <1>b, <2>4 DEF DagIndex
  <2> QED
    BY <1>b, <2>1, <2>3, <2>5
<1> QED
  BY <1>1, <1>2, <1>3, <1>4

\* Of the steps around computeThread, the call of compute is a call, and the
\* others are not seen.
LEMMA ComputeRefines ==
  ASSUME Inv, ~ BackToBack,
         \/ \E n \in Counts : Compute(n)
         \/ ResetIndex \/ SignalAll
         \/ \E t \in Workers : Wake(t)
         \/ Delete \/ StopAll
  PROVE  Dag!Next \/ UNCHANGED <<fFullcount, DagIndex, done, DagRunning>>
<1> DEFINE M == MASTER_THREAD
<1>a. PICK S : pc \in [Threads -> S]
  BY Master, SelfTypes
<1>b. M \in Threads /\ fIndex \in Nat /\ fFullcount \in Nat
  BY Master DEF Inv, TypeOK
<1> USE DEF Goto, callVars, taskVars, history
<1>1. ASSUME NEW n \in Counts, Compute(n) PROVE Dag!Call(n)
  <2>1. /\ pc[M] = "outside" /\ pc'[M] = "index" /\ fFullcount' = n
        /\ done' = [k \in Task |-> 0] /\ tasknum' = tasknum
        /\ \A u \in Threads : u # M => pc'[u] = pc[u]
    BY <1>1, <1>a, <1>b DEF Compute
  <2>2. ~ Open /\ ~ (fIndex < fFullcount)
    BY <2>1, OutsideClosed DEF InCall
  <2>3. \A u \in Threads : pc[u] # "run" /\ pc'[u] # "run"
    BY <2>1, <2>2, ClosedJobs
  <2>4. DagRunning = {} /\ DagRunning' = {}
    BY <2>3 DEF DagRunning, Runs
  <2>5. DagIndex = fIndex /\ DagIndex' = 0
    BY <2>1 DEF DagIndex
  <2>6. /\ DagIndex >= fFullcount /\ DagRunning = {} /\ fFullcount' = n /\ DagIndex' = 0
        /\ done' = [k \in Task |-> 0] /\ DagRunning' = DagRunning
    BY <1>b, <2>1, <2>2, <2>4, <2>5
  <2> QED
    BY <2>6 DEF Dag!Call, DagIndex, DagRunning
<1>2. CASE ResetIndex
  <2>1. /\ pc[M] = "index" /\ pc'[M] = "init" /\ fIndex' = 0 /\ fFullcount' = fFullcount
        /\ done' = done /\ tasknum' = tasknum
        /\ \A u \in Threads : u # M => pc'[u] = pc[u]
    BY <1>2, <1>a, <1>b DEF ResetIndex
  <2>2. \A u \in Threads, c \in Task : Runs(u, c)' <=> Runs(u, c)
    BY <2>1 DEF Runs
  <2>3. DagRunning' = DagRunning
    BY <2>2 DEF DagRunning
  <2>4. DagIndex' = DagIndex
    BY <2>1 DEF DagIndex
  <2> QED
    BY <2>1, <2>3, <2>4
<1>3. CASE SignalAll \/ \E t \in Workers : Wake(t)
  <2>1. fIndex' = fIndex /\ fFullcount' = fFullcount /\ done' = done /\ tasknum' = tasknum
    BY <1>3 DEF SignalAll, Wake
  <2>2. \A u \in Threads : \/ pc'[u] = pc[u]
                           \/ pc[u] \in {"signal", "wait"} /\ pc'[u] \in {"signal", "loop"}
    BY <1>3, <1>a, Master DEF SignalAll, Wake
  <2>3. \A u \in Threads, c \in Task : Runs(u, c)' <=> Runs(u, c)
    BY <2>1, <2>2 DEF Runs
  <2>4. DagRunning' = DagRunning
    BY <2>3 DEF DagRunning
  <2>5. DagIndex' = DagIndex
    BY <1>b, <2>1, <2>2 DEF DagIndex
  <2> QED
    BY <2>1, <2>4, <2>5
<1>4. CASE Delete \/ StopAll
  <2>1. /\ fIndex' = fIndex /\ fFullcount' = fFullcount /\ done' = done /\ tasknum' = tasknum
        /\ pc[M] \in {"outside", "stop"}
    BY <1>4 DEF Delete, StopAll
  <2>2. \A u \in Threads : pc'[u] = pc[u] \/ pc'[u] \in {"stop", "stopped"}
    BY <1>4, <1>a, Master DEF Delete, StopAll
  <2>3. ~ Open
    BY <2>1, OutsideClosed DEF InCall
  <2>4. \A u \in Threads : pc[u] # "run" /\ pc'[u] # "run"
    BY <2>2, <2>3, ClosedJobs
  <2>5. DagRunning' = DagRunning
    BY <2>4 DEF DagRunning, Runs
  <2>6. DagIndex' = DagIndex
    BY <1>b, <2>1, <2>2 DEF DagIndex
  <2> QED
    BY <2>1, <2>5, <2>6
<1> QED
  BY <1>1, <1>2, <1>3, <1>4 DEF Dag!Next

\* compute on any number of threads renders as the sequential program of
\* DagExecution does: every task once for each vector, vectors in order, a task
\* after the ones it reads from, and a call after the one before it.
THEOREM Refinement ==
  ASSUME XaddReturnsNew, ~ BackToBack
  PROVE  Spec => ImplementsDag
<1>1. Init => Dag!Init
  <2> SUFFICES ASSUME Init PROVE Dag!Init
    OBVIOUS
  <2>1. /\ fFullcount = 0 /\ fIndex = 0 /\ done = [k \in Task |-> 0]
        /\ \A t \in Threads : pc[t] # "run"
    BY DEF Init
  <2>2. DagRunning = {} /\ DagIndex = 0
    BY <2>1 DEF DagRunning, DagIndex, Runs
  <2> QED
    BY <2>1, <2>2 DEF Dag!Init, DagRunning, DagIndex
<1>2. ASSUME Inv, [Next]_vars PROVE [Dag!Next]_(Dag!dagVars)
  <2>1. CASE \E t \in Threads : Run(t)
    BY <1>2, <2>1, RunRefines DEF Dag!dagVars, DagIndex, DagRunning
  <2>2. CASE \/ \E n \in Counts : Compute(n)
             \/ ResetIndex \/ SignalAll
             \/ \E t \in Workers : Wake(t)
             \/ Delete \/ StopAll
    BY <1>2, <2>2, ComputeRefines DEF Dag!dagVars, DagIndex, DagRunning
  <2>3. CASE Deleted \/ UNCHANGED vars
    <3>1. UNCHANGED <<fFullcount, fIndex, done, pc, tasknum>>
      BY <2>3 DEF Deleted, vars, callVars, history, locals, taskVars
    <3> QED
      BY <3>1 DEF Dag!dagVars, Runs
  <2> QED
    BY <1>2, <2>1, <2>2, <2>3 DEF Next
<1> QED
  BY InitInv, NextInv, <1>1, <1>2, PTL DEF Spec, ImplementsDag, Dag!Spec
=============================================================================
