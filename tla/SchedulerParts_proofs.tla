----------------------- MODULE SchedulerParts_proofs -----------------------
(***************************************************************************)
(* The two parts the scheduler rests on: the queues its threads share and  *)
(* the graph of tasks the compiler gives it.                               *)
(*                                                                         *)
(* The queues of scheduler.cpp lose no task, duplicate none and implement  *)
(* deques, for any number of threads, tasks and slots.  Inv is inductive.  *)
(* There is one lemma per action of WSQ (one per queue operation where an  *)
(* action has several): it shows that the step preserves Inv, and says     *)
(* what the step does to the two things the refinement mapping is made of, *)
(* the tasks the threads carry and the contents of the queues.  Safety     *)
(* needs the first half of the lemmas, Refinement both.                    *)
(*                                                                         *)
(* The loops of a DSP become tasks without losing or doubling one, in an   *)
(* order that respects what they read, and with the numbers, levels and    *)
(* outputs the scheduler expects, for any graph of loops.  GraphInv is     *)
(* inductive; there is one lemma per action of LoopGraph.                  *)
(***************************************************************************)
EXTENDS WSQ, LoopGraph, FiniteSetTheorems, SequenceTheorems, WellFoundedInduction, TLAPS

-----------------------------------------------------------------------------
(***************************************************************************)
(* The contents of a queue as a sequence: the window of its slots from the *)
(* tail to the head.                                                       *)
(***************************************************************************)
\* A window whose slots are in S is a sequence over S of the length of the window.
LEMMA WindowSeq ==
  ASSUME NEW f, NEW S, NEW lo \in Nat, NEW hi \in Nat, lo <= hi,
         \A i \in lo .. hi - 1 : f[i] \in S
  PROVE  Window(f, lo, hi) \in Seq(S) /\ Len(Window(f, lo, hi)) = hi - lo
<1> DEFINE n == hi - lo
<1>1. n \in Nat /\ Window(f, lo, hi) \in [1 .. n -> S]
  BY DEF Window
<1>2. Window(f, lo, hi) \in Seq(S)
  BY <1>1, SeqDef
<1>3. DOMAIN Window(f, lo, hi) = 1 .. n
  BY DEF Window
<1> QED
  BY <1>1, <1>2, <1>3, LenProperties

\* A queue whose head and tail are equal is the empty sequence.
LEMMA WindowEmpty ==
  ASSUME NEW f, NEW lo \in Nat
  PROVE  Window(f, lo, lo) = << >>
<1>1. PICK hi \in Nat : hi = lo
  OBVIOUS
<1>2. PICK S : \A i \in lo .. hi - 1 : f[i] \in S
  BY <1>1
<1>3. lo <= hi
  BY <1>1
<1>4. Window(f, lo, hi) \in Seq(S) /\ Len(Window(f, lo, hi)) = hi - lo
  BY <1>2, <1>3, WindowSeq
<1> QED
  BY <1>1, <1>4, EmptySeq

\* Storing head + 1 (IncHead) appends the slot that was at the head.
LEMMA WindowAppend ==
  ASSUME NEW f, NEW S, NEW lo \in Nat, NEW hi \in Nat, lo <= hi,
         \A i \in lo .. hi : f[i] \in S
  PROVE  Append(Window(f, lo, hi), f[hi]) = Window(f, lo, hi + 1)
<1>0. hi + 1 \in Nat /\ lo <= hi + 1
      /\ (\A i \in lo .. hi - 1 : f[i] \in S) /\ (\A i \in lo .. (hi + 1) - 1 : f[i] \in S)
  OBVIOUS
<1>1. Window(f, lo, hi) \in Seq(S) /\ Len(Window(f, lo, hi)) = hi - lo
  BY <1>0, WindowSeq
<1>2. Window(f, lo, hi + 1) \in Seq(S) /\ Len(Window(f, lo, hi + 1)) = (hi + 1) - lo
  BY <1>0, WindowSeq
<1>3. \A i \in 1 .. hi - lo : Window(f, lo, hi)[i] = Window(f, lo, hi + 1)[i]
  BY DEF Window
<1>4. Window(f, lo, hi + 1)[hi - lo + 1] = f[hi]
  BY DEF Window
<1> QED
  BY <1>1, <1>2, <1>3, <1>4

\* Storing head - 1 (PopHead) takes the last element off.
LEMMA WindowFront ==
  ASSUME NEW f, NEW S, NEW lo \in Nat, NEW hi \in Nat, lo < hi,
         \A i \in lo .. hi - 1 : f[i] \in S
  PROVE  /\ Window(f, lo, hi) # << >>
         /\ Window(f, lo, hi)[Len(Window(f, lo, hi))] = f[hi - 1]
         /\ SubSeq(Window(f, lo, hi), 1, Len(Window(f, lo, hi)) - 1) = Window(f, lo, hi - 1)
<1>1. Window(f, lo, hi) \in Seq(S) /\ Len(Window(f, lo, hi)) = hi - lo
  BY WindowSeq
<1>0. hi - 1 \in Nat /\ lo <= hi - 1 /\ \A i \in lo .. (hi - 1) - 1 : f[i] \in S
  OBVIOUS
<1>2. Window(f, lo, hi - 1) \in Seq(S) /\ Len(Window(f, lo, hi - 1)) = (hi - 1) - lo
  BY <1>0, WindowSeq
<1>3. \A i \in 1 .. hi - lo - 1 : Window(f, lo, hi)[i] = Window(f, lo, hi - 1)[i]
  BY DEF Window
<1>4. Window(f, lo, hi)[hi - lo] = f[hi - 1]
  BY DEF Window
<1> QED
  BY <1>1, <1>2, <1>3, <1>4

\* Storing tail + 1 (PopTail) takes the first element off.
LEMMA WindowTail ==
  ASSUME NEW f, NEW S, NEW lo \in Nat, NEW hi \in Nat, lo < hi,
         \A i \in lo .. hi - 1 : f[i] \in S
  PROVE  /\ Window(f, lo, hi) # << >>
         /\ Head(Window(f, lo, hi)) = f[lo]
         /\ Tail(Window(f, lo, hi)) = Window(f, lo + 1, hi)
<1>1. Window(f, lo, hi) \in Seq(S) /\ Len(Window(f, lo, hi)) = hi - lo
  BY WindowSeq
<1>0. lo + 1 \in Nat /\ lo + 1 <= hi /\ \A i \in lo + 1 .. hi - 1 : f[i] \in S
  OBVIOUS
<1>2. Window(f, lo + 1, hi) \in Seq(S) /\ Len(Window(f, lo + 1, hi)) = hi - (lo + 1)
  BY <1>0, WindowSeq
<1>3. \A i \in 1 .. hi - lo - 1 : Window(f, lo, hi)[i + 1] = Window(f, lo + 1, hi)[i]
  BY DEF Window
<1>4. Window(f, lo, hi)[1] = f[lo]
  BY DEF Window
<1> QED
  BY <1>1, <1>2, <1>3, <1>4

USE TaskQueueAssumption DEF WORK_STEALING_INDEX, NoSlot

\* TaskQueue::Init establishes the invariant.
LEMMA InitInv == Init => Inv
<1> SUFFICES ASSUME Init PROVE Inv
  OBVIOUS
<1> USE DEF Init, QueueInit, IdleOp
<1>1. TypeOK
  BY DEF TypeOK, QueueTypeOK, Op, HeadEnd
<1>2. \A t \in Threads : op[t].at = "idle" /\ Carried(t) = WORK_STEALING_INDEX
  BY DEF Carried
<1>3. \A q \in Threads : \A i : i \notin Live(q)
  BY DEF Live
<1>4. WordInv /\ PushInv /\ PopInv /\ HeldInv
  BY <1>3 DEF WordInv, PushInv, PopInv, HeldInv
<1>5. NoTaskLost /\ NoTaskDuplicated
  BY <1>2, <1>3 DEF NoTaskLost, NoTaskDuplicated, InSlot
<1> QED
  BY <1>1, <1>4, <1>5 DEF Inv

\* PushHead, the write of the slot: the slot at the head is dead, so no contents change.
LEMMA PushStep ==
  ASSUME Inv, NEW t \in Threads, Push(t)
  PROVE  /\ Inv'
         /\ Carried(t) = WORK_STEALING_INDEX
         /\ \E k \in free :
              /\ free' = free \ {k}
              /\ \A u \in Threads : Carried(u)' = IF u = t THEN k ELSE Carried(u)
         /\ \A r \in Threads : Contents(r)' = Contents(r)
<1> PICK k \in free : /\ Idle(t)
                      /\ fHead[t] \in Slots
                      /\ PushHead(t, t, k)
                      /\ free' = free \ {k}
                      /\ UNCHANGED held
  BY DEF Push
<1> USE DEF Inv, Idle, PushHead
<1>1. TypeOK'
  BY DEF TypeOK, QueueTypeOK, Op, HeadEnd, PushOp, Slots
<1>2. WordInv'
  BY DEF WordInv, TypeOK, QueueTypeOK, Live, Slots
<1>3. PushInv'
  BY DEF PushInv, TypeOK, QueueTypeOK, Slots, PushOp
<1>4. PopInv'
  BY SMTT(30) DEF PopInv, TypeOK, QueueTypeOK, Slots, PushOp, PoppedTask, PoppedSlot, WordInv, HeadEnd, TailEnd, Op
<1>5. HeldInv'
  BY DEF HeldInv, TypeOK, QueueTypeOK, PushOp
<1>6. \A u \in Threads : Carried(u)' = IF u = t THEN k ELSE Carried(u)
  BY DEF Carried, TypeOK, QueueTypeOK, PushOp, PoppedTask, PoppedSlot, PopInv, WordInv, HeadEnd, TailEnd, Op, Slots
<1>7. \A q \in Threads, i \in Slots, m \in Task : InSlot(q, i, m)' <=> InSlot(q, i, m)
  BY DEF InSlot, Live, TypeOK, QueueTypeOK, Slots
<1>8. Carried(t) = WORK_STEALING_INDEX
  BY DEF Carried
<1>9. NoTaskLost'
  BY <1>6, <1>7, <1>8 DEF NoTaskLost
<1>10. NoTaskDuplicated'
  BY <1>6, <1>7, <1>8 DEF NoTaskDuplicated, TypeOK
<1>20. \A r \in Threads : Contents(r)' = Contents(r)
  BY DEF Contents, Window, WordInv, TypeOK, QueueTypeOK, Slots
<1> QED
  BY <1>1, <1>2, <1>3, <1>4, <1>5, <1>6, <1>8, <1>9, <1>10, <1>20

\* PopHead and PopTail of an empty queue return without changing anything.
LEMMA PopEmptyStep ==
  ASSUME Inv, NEW t \in Threads, NEW q \in Threads, NEW end \in {HeadEnd, TailEnd},
         held[t] = WORK_STEALING_INDEX, PopEmpty(t, q, end), UNCHANGED <<free, held>>
  PROVE  /\ Inv'
         /\ \A u \in Threads : Carried(u)' = Carried(u)
         /\ \A r \in Threads : Contents(r)' = Contents(r)
<1> USE DEF Inv, PopEmpty, AtPopRead, IdleOp
<1>1. TypeOK'
  BY DEF TypeOK, QueueTypeOK, Op, Slots, HeadEnd, TailEnd, WordInv, PushInv, PopInv
<1>2. WordInv'
  BY DEF WordInv, Live, PushInv, PopInv, TypeOK, QueueTypeOK, Op, Slots, HeadEnd, TailEnd
<1>3. PushInv'
  BY DEF PushInv, PopInv, WordInv, TypeOK, QueueTypeOK, Op, Slots, HeadEnd, TailEnd
<1>4. PopInv'
  BY DEF PopInv, PushInv, WordInv, PoppedTask, PoppedSlot, Live, TypeOK, QueueTypeOK, Op, Slots, HeadEnd, TailEnd
<1>5. HeldInv'
  BY DEF HeldInv, TypeOK, QueueTypeOK, Op, Slots, HeadEnd, TailEnd
<1>6. \A u \in Threads : Carried(u)' = Carried(u)
  BY SMTT(30) DEF Carried, PoppedTask, PoppedSlot, PushInv, PopInv, WordInv, HeldInv, TypeOK, QueueTypeOK, Op, Slots, HeadEnd, TailEnd
<1>7. \A r \in Threads, i \in Slots, m \in Task : InSlot(r, i, m)' <=> InSlot(r, i, m)
  BY DEF InSlot, Live, PushInv, PopInv, WordInv, PoppedSlot, TypeOK, QueueTypeOK, Op, Slots, HeadEnd, TailEnd
<1>9. NoTaskLost'
  BY <1>6, <1>7 DEF NoTaskLost
<1>10. NoTaskDuplicated'
  BY <1>6, <1>7 DEF NoTaskDuplicated, TypeOK
<1>20. \A r \in Threads : Contents(r)' = Contents(r)
  BY DEF Contents
<1> QED
  BY <1>1, <1>2, <1>3, <1>4, <1>5, <1>9, <1>10, <1>6, <1>20

\* PopHead and PopTail, the read of the word: only a register changes.
LEMMA PopReadStep ==
  ASSUME Inv, NEW t \in Threads, NEW q \in Threads, NEW end \in {HeadEnd, TailEnd},
         end = HeadEnd => q = t, held[t] = WORK_STEALING_INDEX,
         PopRead(t, q, end), UNCHANGED <<free, held>>
  PROVE  /\ Inv'
         /\ \A u \in Threads : Carried(u)' = Carried(u)
         /\ \A r \in Threads : Contents(r)' = Contents(r)
<1>1. TypeOK'
  <2>1. TypeOK
    BY DEF Inv
  <2>2. PopOp("cas", q, end, fHead[q], fTail[q]) \in Op
    BY <2>1 DEF TypeOK, QueueTypeOK, PopOp, Op
  <2> QED
    BY <2>1, <2>2 DEF TypeOK, QueueTypeOK, PopRead
<1> USE DEF Inv, PopRead, AtPopRead, PopOp
<1>2. WordInv'
  BY DEF WordInv, Live, PushInv, PopInv, TypeOK, QueueTypeOK, Op, Slots, HeadEnd, TailEnd
<1>3. PushInv'
  BY DEF PushInv, PopInv, WordInv, TypeOK, QueueTypeOK, Op, Slots, HeadEnd, TailEnd
<1>4. PopInv'
  BY DEF PopInv, PushInv, WordInv, PoppedTask, PoppedSlot, Live, TypeOK, QueueTypeOK, Op, Slots, HeadEnd, TailEnd
<1>5. HeldInv'
  BY DEF HeldInv, TypeOK, QueueTypeOK, Op, Slots, HeadEnd, TailEnd
<1>6. \A u \in Threads : Carried(u)' = Carried(u)
  BY SMTT(30) DEF Carried, PoppedTask, PoppedSlot, PushInv, PopInv, WordInv, HeldInv, TypeOK, QueueTypeOK, Op, Slots, HeadEnd, TailEnd
<1>7. \A r \in Threads, i \in Slots, m \in Task : InSlot(r, i, m)' <=> InSlot(r, i, m)
  BY DEF InSlot, Live, PushInv, PopInv, WordInv, PoppedSlot, TypeOK, QueueTypeOK, Op, Slots, HeadEnd, TailEnd
<1>9. NoTaskLost'
  BY <1>6, <1>7 DEF NoTaskLost
<1>10. NoTaskDuplicated'
  BY <1>6, <1>7 DEF NoTaskDuplicated, TypeOK
<1>20. \A r \in Threads : Contents(r)' = Contents(r)
  BY DEF Contents
<1> QED
  BY <1>1, <1>2, <1>3, <1>4, <1>5, <1>9, <1>10, <1>6, <1>20

\* IncHead, the load of the head: only a register changes.
LEMMA IncHeadLoadStep ==
  ASSUME Inv, NEW t \in Threads, IncHeadLoad(t), UNCHANGED <<free, held>>
  PROVE  /\ Inv'
         /\ \A u \in Threads : Carried(u)' = Carried(u)
         /\ \A r \in Threads : Contents(r)' = Contents(r)
<1> USE DEF Inv, IncHeadLoad, PushOp
<1>1. TypeOK'
  BY DEF TypeOK, QueueTypeOK, Op, Slots, HeadEnd, TailEnd, WordInv, PushInv, PopInv
<1>2. WordInv'
  BY DEF WordInv, Live, PushInv, PopInv, TypeOK, QueueTypeOK, Op, Slots, HeadEnd, TailEnd
<1>3. PushInv'
  BY DEF PushInv, PopInv, WordInv, TypeOK, QueueTypeOK, Op, Slots, HeadEnd, TailEnd
<1>4. PopInv'
  BY DEF PopInv, PushInv, WordInv, PoppedTask, PoppedSlot, Live, TypeOK, QueueTypeOK, Op, Slots, HeadEnd, TailEnd
<1>5. HeldInv'
  BY DEF HeldInv, TypeOK, QueueTypeOK, Op, Slots, HeadEnd, TailEnd
<1>6. \A u \in Threads : Carried(u)' = Carried(u)
  BY DEF Carried, PoppedTask, PoppedSlot, PushInv, PopInv, WordInv, HeldInv, TypeOK, QueueTypeOK, Op, Slots, HeadEnd, TailEnd
<1>7. \A q \in Threads, i \in Slots, m \in Task : InSlot(q, i, m)' <=> InSlot(q, i, m)
  BY DEF InSlot, Live, PushInv, PopInv, WordInv, PoppedSlot, TypeOK, QueueTypeOK, Op, Slots, HeadEnd, TailEnd
<1>9. NoTaskLost'
  BY <1>6, <1>7 DEF NoTaskLost
<1>10. NoTaskDuplicated'
  BY <1>6, <1>7 DEF NoTaskDuplicated, TypeOK
<1>20. \A r \in Threads : Contents(r)' = Contents(r)
  BY DEF Contents
<1> QED
  BY <1>1, <1>2, <1>3, <1>4, <1>5, <1>9, <1>10, <1>6, <1>20

\* IncHead, the store of the head.  Nobody else has moved the head since the
\* load, so this appends the pushed task to the contents, whatever was stolen
\* from the tail meanwhile.
LEMMA IncHeadStoreStep ==
  ASSUME Inv, NEW t \in Threads, IncHeadStore(t), UNCHANGED <<free, held>>
  PROVE  /\ Inv'
         /\ \A u \in Threads : Carried(u)' = IF u = t THEN WORK_STEALING_INDEX ELSE Carried(u)
         /\ \A r \in Threads : Contents(r)' = IF r = t THEN Append(Contents(t), Carried(t)) ELSE Contents(r)
<1> USE DEF Inv, IncHeadStore, IdleOp
<1>1. TypeOK'
  BY DEF TypeOK, QueueTypeOK, Op, Slots, HeadEnd, TailEnd, WordInv, PushInv, PopInv
<1>2. WordInv'
  BY SMTT(30) DEF WordInv, Live, PushInv, PopInv, TypeOK, QueueTypeOK, Op, Slots, HeadEnd, TailEnd
<1>3. PushInv'
  BY DEF PushInv, PopInv, WordInv, TypeOK, QueueTypeOK, Op, Slots, HeadEnd, TailEnd
<1>4. PopInv'
  BY SMTT(30) DEF PopInv, PushInv, WordInv, PoppedTask, PoppedSlot, Live, TypeOK, QueueTypeOK, Op, Slots, HeadEnd, TailEnd
<1>5. HeldInv'
  BY DEF HeldInv, TypeOK, QueueTypeOK, Op, Slots, HeadEnd, TailEnd
<1>6. \A u \in Threads : Carried(u)' = IF u = t THEN WORK_STEALING_INDEX ELSE Carried(u)
  BY DEF Carried, PoppedTask, PoppedSlot, PushInv, PopInv, WordInv, HeldInv, TypeOK, QueueTypeOK, Op, Slots, HeadEnd, TailEnd
<1>7. \A q \in Threads, i \in Slots, m \in Task : InSlot(q, i, m)' <=> 
        InSlot(q, i, m) \/ (q = t /\ i = fHead[t] /\ m = Carried(t))
  BY DEF InSlot, Carried, Live, PushInv, PopInv, WordInv, PoppedSlot, TypeOK, QueueTypeOK, Op, Slots, HeadEnd, TailEnd
<1>8. fHead[t] \in Slots /\ Carried(t) \in Task
  BY DEF PushInv, Carried
<1>9. NoTaskLost'
  BY <1>6, <1>7, <1>8 DEF NoTaskLost
<1>10. NoTaskDuplicated'
  BY <1>6, <1>7, <1>8 DEF NoTaskDuplicated, TypeOK
<1>20. \A r \in Threads : Contents(r)' = IF r = t THEN Append(Contents(t), Carried(t)) ELSE Contents(r)
  <2>0. /\ fTail[t] \in Nat /\ fHead[t] \in Nat
        /\ fTaskList[t][fHead[t]] \in Task
        /\ \A i \in fTail[t] .. fHead[t] - 1 : fTaskList[t][i] \in Task
    BY DEF PushInv, WordInv, Live, TypeOK, QueueTypeOK
  <2>1. \A i \in fTail[t] .. fHead[t] : fTaskList[t][i] \in Task
    <3> SUFFICES ASSUME NEW i \in fTail[t] .. fHead[t] PROVE fTaskList[t][i] \in Task
      OBVIOUS
    <3>1. i = fHead[t] \/ i \in fTail[t] .. fHead[t] - 1
      BY <2>0
    <3> QED
      BY <2>0, <3>1
  <2>2. fTail[t] \in Nat /\ fHead[t] \in Nat /\ fTail[t] <= fHead[t]
    BY DEF WordInv, TypeOK, QueueTypeOK
  <2>3. fTaskList[t][fHead[t]] = Carried(t) /\ op[t].head = fHead[t] /\ op[t].q = t
    BY DEF PushInv, Carried
  <2>4. Append(Contents(t), Carried(t)) = Window(fTaskList[t], fTail[t], fHead[t] + 1)
    <3>1. Append(Window(fTaskList[t], fTail[t], fHead[t]), fTaskList[t][fHead[t]])
            = Window(fTaskList[t], fTail[t], fHead[t] + 1)
      BY <2>1, <2>2, WindowAppend, ZenonT(60)
    <3> QED
      BY <2>3, <3>1 DEF Contents
  <2> QED
    BY <2>3, <2>4 DEF Contents, TypeOK, QueueTypeOK
<1> QED
  BY <1>1, <1>2, <1>3, <1>4, <1>5, <1>9, <1>10, <1>6, <1>20

\* CAS1 of PopHead and PopTail.  The word is the one that was read, so the slot
\* the thread will load is the last, or the first, live one, even if the word
\* has moved away and come back in between.
LEMMA PopCASStep ==
  ASSUME Inv, NEW t \in Threads, PopCAS(t), UNCHANGED <<free, held>>
  PROVE  /\ Inv'
         /\ Carried(t) = WORK_STEALING_INDEX
         /\ \A u \in Threads : u # t => Carried(u)' = Carried(u)
         /\ \E q \in Threads :
              /\ Contents(q) # << >>
              /\ \A r \in Threads : r # q => Contents(r)' = Contents(r)
              /\ \/ /\ q = t
                    /\ Carried(t)' = Contents(q)[Len(Contents(q))]
                    /\ Contents(q)' = SubSeq(Contents(q), 1, Len(Contents(q)) - 1)
                 \/ /\ Carried(t)' = Head(Contents(q))
                    /\ Contents(q)' = Tail(Contents(q))
<1> USE DEF Inv
<1> PICK q \in Threads : q = op[t].q
  BY DEF TypeOK, QueueTypeOK, Op
<1> DEFINE s == PoppedSlot(t)
\* The word read is the word now, so the slot popped is a live one.
<1>0. /\ op[t].at = "cas" /\ op[t] \in Op /\ q \in Threads
      /\ op[t].head \in Nat /\ op[t].tail \in Nat /\ op[t].head - 1 \in Nat
      /\ op[t].tail < op[t].head
      /\ fHead[q] = op[t].head /\ fTail[q] = op[t].tail
      /\ op[t].head <= QueueSize
      /\ op[t].end = HeadEnd => q = t
      /\ fTaskList' = fTaskList
      /\ op' = [op EXCEPT ![t] = PopOp("load", q, op[t].end, op[t].head, op[t].tail)]
  BY DEF PopCAS, WordIsOld, TypeOK, QueueTypeOK, Op, WordInv, PopInv
<1>1. /\ q \in Threads /\ s \in Slots /\ Carried(t) = WORK_STEALING_INDEX
      /\ InSlot(q, s, fTaskList[q][s])
      /\ fTaskList[q][s] \in Task
  BY <1>0 DEF InSlot, Live, WordInv, PoppedSlot, Carried, HeldInv, TypeOK, QueueTypeOK, Op, Slots, HeadEnd, TailEnd
<1> DEFINE PopsHead == /\ op[t].end = HeadEnd /\ s = op[t].head - 1
                      /\ fHead' = [fHead EXCEPT ![q] = op[t].head - 1] /\ fTail' = fTail
           PopsTail == /\ op[t].end = TailEnd /\ s = op[t].tail
                      /\ fTail' = [fTail EXCEPT ![q] = op[t].tail + 1] /\ fHead' = fHead
<1>2. PopsHead \/ PopsTail
  BY DEF PopCAS, PoppedSlot, HeadEnd, TailEnd
<1>3. TypeOK'
  <2>1. op' \in [Threads -> Op]
    BY <1>0 DEF TypeOK, QueueTypeOK, Op, PopOp
  <2>2. fHead' \in [Threads -> Nat] /\ fTail' \in [Threads -> Nat]
    <3>1. CASE PopsHead
      BY <1>0, <3>1 DEF TypeOK, QueueTypeOK
    <3>2. CASE PopsTail
      BY <1>0, <3>2 DEF TypeOK, QueueTypeOK
    <3> QED
      BY <1>2, <3>1, <3>2
  <2> QED
    BY <1>0, <2>1, <2>2 DEF TypeOK, QueueTypeOK
<1>4. WordInv'
  <2>1. CASE PopsHead
    BY <1>0, <2>1 DEF WordInv, Live, TypeOK, QueueTypeOK
  <2>2. CASE PopsTail
    BY <1>0, <2>2 DEF WordInv, Live, TypeOK, QueueTypeOK
  <2> QED
    BY <1>2, <2>1, <2>2
<1>5. PushInv'
  BY <1>0, <1>2 DEF PushInv, PopOp, TypeOK, QueueTypeOK, HeadEnd, TailEnd
<1>6. PopInv'
  <2> SUFFICES ASSUME NEW u \in Threads, op'[u].at \in {"cas", "retry", "load"}
               PROVE  /\ op'[u].end = HeadEnd => op'[u].q = u
                      /\ op'[u].at # "retry" => op'[u].tail < op'[u].head
                      /\ op'[u].at = "load" =>
                           /\ op'[u].end = HeadEnd => fHead'[u] = op'[u].head - 1
                           /\ op'[u].end = TailEnd => op'[u].tail < fTail'[op'[u].q]
                           /\ PoppedSlot(u)' \in Slots
                           /\ PoppedTask(u)' \in Task
    BY DEF PopInv
  <2>1. CASE u = t
    BY <1>0, <1>1, <1>2, <2>1 DEF PopOp, PoppedSlot, PoppedTask, TypeOK, QueueTypeOK, HeadEnd, TailEnd
  <2>2. CASE u # t
    <3>1. op'[u] = op[u] /\ op[u] \in Op
      BY <1>0, <2>2 DEF TypeOK, QueueTypeOK
    <3>2. fTail[op[u].q] <= fTail'[op[u].q]
      BY <1>0, <1>2, <3>1 DEF TypeOK, QueueTypeOK, Op
    <3>3. op[u].end = HeadEnd => fHead'[u] = fHead[u]
      BY <1>0, <1>2, <2>2 DEF TypeOK, QueueTypeOK
    <3>4. fTail'[op[u].q] \in Nat /\ fTail[op[u].q] \in Nat
      BY <1>3, <3>1 DEF TypeOK, QueueTypeOK, Op
    <3> QED
      BY <1>0, <3>1, <3>2, <3>3, <3>4, SMTT(60) DEF PopInv, PoppedSlot, PoppedTask, Op, HeadEnd, TailEnd
  <2> QED
    BY <2>1, <2>2
<1>7. HeldInv'
  BY <1>0 DEF HeldInv, PopOp, TypeOK, QueueTypeOK
<1>8. \A u \in Threads : Carried(u)' = IF u = t THEN fTaskList[q][s] ELSE Carried(u)
  BY <1>0 DEF Carried, PoppedTask, PoppedSlot, PopOp, TypeOK, QueueTypeOK
<1>9. \A r \in Threads, i \in Slots, m \in Task :
        InSlot(r, i, m)' <=> InSlot(r, i, m) /\ ~ (r = q /\ i = s)
  <2>1. CASE PopsHead
    BY <1>0, <2>1, SMTT(30) DEF InSlot, Live, TypeOK, QueueTypeOK, Slots
  <2>2. CASE PopsTail
    BY <1>0, <2>2, SMTT(30) DEF InSlot, Live, TypeOK, QueueTypeOK, Slots
  <2> QED
    BY <1>2, <2>1, <2>2
<1>10. NoTaskLost'
  BY <1>1, <1>8, <1>9 DEF NoTaskLost, InSlot
<1>11. NoTaskDuplicated'
  BY <1>1, <1>8, <1>9 DEF NoTaskDuplicated
<1>12. \A r \in Threads : r # q => Contents(r)' = Contents(r)
  BY <1>0, <1>2 DEF Contents, TypeOK, QueueTypeOK
<1>13. \A i \in fTail[q] .. fHead[q] - 1 : fTaskList[q][i] \in Task
  BY <1>0 DEF WordInv, Live
<1>14. CASE PopsHead
  <2>1. Contents(q)' = Window(fTaskList[q], fTail[q], fHead[q] - 1)
    BY <1>0, <1>14 DEF Contents, TypeOK, QueueTypeOK
  <2>2. /\ Contents(q) # << >>
        /\ fTaskList[q][s] = Contents(q)[Len(Contents(q))]
        /\ Contents(q)' = SubSeq(Contents(q), 1, Len(Contents(q)) - 1)
    <3>1. fTail[q] \in Nat /\ fHead[q] \in Nat /\ fTail[q] < fHead[q] /\ s = fHead[q] - 1
      BY <1>0, <1>14
    <3> DEFINE w == Window(fTaskList[q], fTail[q], fHead[q])
    <3>2. /\ w # << >>
          /\ w[Len(w)] = fTaskList[q][fHead[q] - 1]
          /\ SubSeq(w, 1, Len(w) - 1) = Window(fTaskList[q], fTail[q], fHead[q] - 1)
      BY ONLY <1>13, <3>1, WindowFront, ZenonT(60)
    <3> QED
      BY <2>1, <3>1, <3>2 DEF Contents
  <2> QED
    BY <1>0, <1>1, <1>3, <1>4, <1>5, <1>6, <1>7, <1>8, <1>10, <1>11, <1>12, <1>14, <2>2
<1>15. CASE PopsTail
  <2>1. Contents(q)' = Window(fTaskList[q], fTail[q] + 1, fHead[q])
    BY <1>0, <1>15 DEF Contents, TypeOK, QueueTypeOK
  <2>2. /\ Contents(q) # << >>
        /\ fTaskList[q][s] = Head(Contents(q))
        /\ Contents(q)' = Tail(Contents(q))
    <3>1. fTail[q] \in Nat /\ fHead[q] \in Nat /\ fTail[q] < fHead[q] /\ s = fTail[q]
      BY <1>0, <1>15
    <3> DEFINE w == Window(fTaskList[q], fTail[q], fHead[q])
    <3>2. /\ w # << >>
          /\ Head(w) = fTaskList[q][fTail[q]]
          /\ Tail(w) = Window(fTaskList[q], fTail[q] + 1, fHead[q])
      BY ONLY <1>13, <3>1, WindowTail, ZenonT(60)
    <3> QED
      BY <2>1, <3>1, <3>2 DEF Contents
  <2> QED
    BY <1>0, <1>1, <1>3, <1>4, <1>5, <1>6, <1>7, <1>8, <1>10, <1>11, <1>12, <1>15, <2>2
<1> QED
  BY <1>2, <1>14, <1>15

\* CAS1 that finds another word: the thread goes round its loop again.
LEMMA PopCASFailsStep ==
  ASSUME Inv, NEW t \in Threads, PopCASFails(t), UNCHANGED <<free, held>>
  PROVE  /\ Inv'
         /\ \A u \in Threads : Carried(u)' = Carried(u)
         /\ \A r \in Threads : Contents(r)' = Contents(r)
<1> USE DEF Inv, PopCASFails, PopOp
<1>1. TypeOK'
  BY DEF TypeOK, QueueTypeOK, Op, Slots, HeadEnd, TailEnd, WordInv, PushInv, PopInv
<1>2. WordInv'
  BY DEF WordInv, Live, PushInv, PopInv, TypeOK, QueueTypeOK, Op, Slots, HeadEnd, TailEnd
<1>3. PushInv'
  BY DEF PushInv, PopInv, WordInv, TypeOK, QueueTypeOK, Op, Slots, HeadEnd, TailEnd
<1>4. PopInv'
  BY DEF PopInv, PushInv, WordInv, PoppedTask, PoppedSlot, Live, TypeOK, QueueTypeOK, Op, Slots, HeadEnd, TailEnd
<1>5. HeldInv'
  BY DEF HeldInv, TypeOK, QueueTypeOK, Op, Slots, HeadEnd, TailEnd
<1>6. \A u \in Threads : Carried(u)' = Carried(u)
  BY DEF Carried, PoppedTask, PoppedSlot, PushInv, PopInv, WordInv, HeldInv, TypeOK, QueueTypeOK, Op, Slots, HeadEnd, TailEnd
<1>7. \A q \in Threads, i \in Slots, m \in Task : InSlot(q, i, m)' <=> InSlot(q, i, m)
  BY DEF InSlot, Live, PushInv, PopInv, WordInv, PoppedSlot, TypeOK, QueueTypeOK, Op, Slots, HeadEnd, TailEnd
<1>9. NoTaskLost'
  BY <1>6, <1>7 DEF NoTaskLost
<1>10. NoTaskDuplicated'
  BY <1>6, <1>7 DEF NoTaskDuplicated, TypeOK
<1>20. \A r \in Threads : Contents(r)' = Contents(r)
  BY DEF Contents
<1> QED
  BY <1>1, <1>2, <1>3, <1>4, <1>5, <1>9, <1>10, <1>6, <1>20

\* The load of the popped slot: it still holds the task the CAS took.
LEMMA TakeStep ==
  ASSUME Inv, NEW t \in Threads, Take(t)
  PROVE  /\ Inv'
         /\ \A u \in Threads : Carried(u)' = Carried(u)
         /\ \A r \in Threads : Contents(r)' = Contents(r)
<1> USE DEF Inv, Take, PopLoad, IdleOp
<1>1. TypeOK'
  BY DEF TypeOK, QueueTypeOK, Op, Slots, HeadEnd, TailEnd, WordInv, PushInv, PopInv
<1>2. WordInv'
  BY DEF WordInv, Live, PushInv, PopInv, TypeOK, QueueTypeOK, Op, Slots, HeadEnd, TailEnd
<1>3. PushInv'
  BY DEF PushInv, PopInv, WordInv, TypeOK, QueueTypeOK, Op, Slots, HeadEnd, TailEnd
<1>4. PopInv'
  BY DEF PopInv, PushInv, WordInv, PoppedTask, PoppedSlot, Live, TypeOK, QueueTypeOK, Op, Slots, HeadEnd, TailEnd
<1>5. HeldInv'
  BY DEF HeldInv, TypeOK, QueueTypeOK, Op, Slots, HeadEnd, TailEnd
<1>6. \A u \in Threads : Carried(u)' = Carried(u)
  BY DEF Carried, PoppedTask, PoppedSlot, PushInv, PopInv, WordInv, HeldInv, TypeOK, QueueTypeOK, Op, Slots, HeadEnd, TailEnd
<1>7. \A q \in Threads, i \in Slots, m \in Task : InSlot(q, i, m)' <=> InSlot(q, i, m)
  BY DEF InSlot, Live, PushInv, PopInv, WordInv, PoppedSlot, TypeOK, QueueTypeOK, Op, Slots, HeadEnd, TailEnd
<1>9. NoTaskLost'
  BY <1>6, <1>7 DEF NoTaskLost
<1>10. NoTaskDuplicated'
  BY <1>6, <1>7 DEF NoTaskDuplicated, TypeOK
<1>20. \A r \in Threads : Contents(r)' = Contents(r)
  BY DEF Contents
<1> QED
  BY <1>1, <1>2, <1>3, <1>4, <1>5, <1>9, <1>10, <1>6, <1>20

\* A thread is through with the task it popped.
LEMMA ReleaseStep ==
  ASSUME Inv, NEW t \in Threads, Release(t)
  PROVE  /\ Inv'
         /\ \A u \in Threads : Carried(u)' = IF u = t THEN WORK_STEALING_INDEX ELSE Carried(u)
         /\ \A r \in Threads : Contents(r)' = Contents(r)
<1> USE DEF Inv, Release, queueVars
<1>1. TypeOK'
  BY DEF TypeOK, QueueTypeOK, Op, Slots, HeadEnd, TailEnd, WordInv, PushInv, PopInv
<1>2. WordInv'
  BY DEF WordInv, Live, PushInv, PopInv, TypeOK, QueueTypeOK, Op, Slots, HeadEnd, TailEnd
<1>3. PushInv'
  BY DEF PushInv, PopInv, WordInv, TypeOK, QueueTypeOK, Op, Slots, HeadEnd, TailEnd
<1>4. PopInv'
  BY DEF PopInv, PushInv, WordInv, PoppedTask, PoppedSlot, Live, TypeOK, QueueTypeOK, Op, Slots, HeadEnd, TailEnd
<1>5. HeldInv'
  BY DEF HeldInv, TypeOK, QueueTypeOK, Op, Slots, HeadEnd, TailEnd
<1>6. \A u \in Threads : Carried(u)' = IF u = t THEN WORK_STEALING_INDEX ELSE Carried(u)
  BY DEF Carried, PoppedTask, PoppedSlot, PushInv, PopInv, WordInv, HeldInv, TypeOK, QueueTypeOK, Op, Slots, HeadEnd, TailEnd
<1>7. \A q \in Threads, i \in Slots, m \in Task : InSlot(q, i, m)' <=> InSlot(q, i, m)
  BY DEF InSlot, Live, PushInv, PopInv, WordInv, PoppedSlot, TypeOK, QueueTypeOK, Op, Slots, HeadEnd, TailEnd
<1>8. Carried(t) = held[t] /\ held[t] \in Task
  BY DEF Carried, HeldInv, TypeOK, QueueTypeOK, Op, Slots, HeadEnd, TailEnd
<1>9. NoTaskLost'
  BY <1>6, <1>7, <1>8 DEF NoTaskLost
<1>10. NoTaskDuplicated'
  BY <1>6, <1>7, <1>8 DEF NoTaskDuplicated, TypeOK
<1>20. \A r \in Threads : Contents(r)' = Contents(r)
  BY DEF Contents
<1> QED
  BY <1>1, <1>2, <1>3, <1>4, <1>5, <1>9, <1>10, <1>6, <1>20

\* InitOne of an empty queue that no thread is pushing on or loading from.
LEMMA ResetStep ==
  ASSUME Inv, Reset
  PROVE  /\ Inv'
         /\ \A u \in Threads : Carried(u)' = Carried(u)
         /\ \A r \in Threads : Contents(r)' = Contents(r)
<1> PICK q \in Threads :
         /\ Live(q) = {}
         /\ \A t \in Threads : op[t].at \in {"incLoad", "incStore", "load"} => op[t].q # q
         /\ InitOne(q)
         /\ UNCHANGED <<free, held>>
  BY DEF Reset
<1> USE DEF Inv, InitOne
<1>1. TypeOK'
  BY DEF TypeOK, QueueTypeOK, Op, Slots, HeadEnd, TailEnd, WordInv, PushInv, PopInv
<1>2. WordInv'
  BY DEF WordInv, Live, PushInv, PopInv, TypeOK, QueueTypeOK, Op, Slots, HeadEnd, TailEnd
<1>3. PushInv'
  BY DEF PushInv, PopInv, WordInv, TypeOK, QueueTypeOK, Op, Slots, HeadEnd, TailEnd
<1>4. PopInv'
  BY DEF PopInv, PushInv, WordInv, PoppedTask, PoppedSlot, Live, TypeOK, QueueTypeOK, Op, Slots, HeadEnd, TailEnd
<1>5. HeldInv'
  BY DEF HeldInv, TypeOK, QueueTypeOK, Op, Slots, HeadEnd, TailEnd
<1>6. \A u \in Threads : Carried(u)' = Carried(u)
  BY DEF Carried, PoppedTask, PoppedSlot, PushInv, PopInv, WordInv, HeldInv, TypeOK, QueueTypeOK, Op, Slots, HeadEnd, TailEnd
<1>7. \A r \in Threads, i \in Slots, m \in Task : InSlot(r, i, m)' <=> InSlot(r, i, m)
  BY DEF InSlot, Live, PushInv, PopInv, WordInv, PoppedSlot, TypeOK, QueueTypeOK, Op, Slots, HeadEnd, TailEnd
<1>9. NoTaskLost'
  BY <1>6, <1>7 DEF NoTaskLost
<1>10. NoTaskDuplicated'
  BY <1>6, <1>7 DEF NoTaskDuplicated, TypeOK
<1>20. \A r \in Threads : Contents(r)' = Contents(r)
  <2>0. /\ fHead[q] \in Nat /\ fTail[q] \in Nat /\ fTail[q] <= fHead[q]
        /\ fTail[q] \notin fTail[q] .. fHead[q] - 1
    BY DEF Live, WordInv, TypeOK, QueueTypeOK
  <2>1. fHead[q] = fTail[q]
    BY <2>0
  <2>2. Contents(q)' = Contents(q)
    BY <2>1 DEF Contents, Window, TypeOK, QueueTypeOK
  <2>3. ASSUME NEW r \in Threads, r # q PROVE Contents(r)' = Contents(r)
    BY <2>3 DEF Contents, TypeOK, QueueTypeOK
  <2> QED
    BY <2>2, <2>3
<1> QED
  BY <1>1, <1>2, <1>3, <1>4, <1>5, <1>9, <1>10, <1>6, <1>20

\* Every step of the queues preserves the invariant.
LEMMA NextInv == Inv /\ [Next]_vars => Inv'
<1> SUFFICES ASSUME Inv, [Next]_vars PROVE Inv'
  OBVIOUS
<1>1. CASE Reset
  BY <1>1, ResetStep
<1>2. ASSUME NEW t \in Threads, Push(t) PROVE Inv'
  BY <1>2, PushStep
<1>3. ASSUME NEW t \in Threads, CallPopHead(t) PROVE Inv'
  BY <1>3, PopEmptyStep, PopReadStep DEF CallPopHead
<1>4. ASSUME NEW t \in Threads, CallPopTail(t) PROVE Inv'
  BY <1>4, PopEmptyStep, PopReadStep DEF CallPopTail, HeadEnd, TailEnd
<1>5. ASSUME NEW t \in Threads, Step(t) PROVE Inv'
  BY <1>5, IncHeadLoadStep, IncHeadStoreStep, PopCASStep, PopCASFailsStep DEF Step, QueueStep
<1>6. ASSUME NEW t \in Threads, Take(t) PROVE Inv'
  BY <1>6, TakeStep
<1>7. ASSUME NEW t \in Threads, Release(t) PROVE Inv'
  BY <1>7, ReleaseStep
<1>8. CASE UNCHANGED vars
  BY <1>8, SMTT(30) DEF vars, queueVars, Inv, TypeOK, QueueTypeOK, WordInv, PushInv, PopInv, HeldInv,
             NoTaskLost, NoTaskDuplicated, Carried, InSlot, Live, PoppedTask, PoppedSlot
<1> QED
  BY <1>1, <1>2, <1>3, <1>4, <1>5, <1>6, <1>7, <1>8 DEF Next

\* The invariant of the queues: the slot an owner wrote is still the one at the
\* head when IncHead stores it, a popped slot stays untouched until it is
\* loaded, and every task is in one place.
THEOREM Invariance == Spec => []Inv
  BY InitInv, NextInv, PTL DEF Spec

\* Whatever the interleaving of PushHead, PopHead, PopTail and InitOne, the
\* queues lose no task and give none to two threads.
THEOREM Safety == Spec => [](TypeOK /\ NoTaskLost /\ NoTaskDuplicated)
<1>1. Inv => TypeOK /\ NoTaskLost /\ NoTaskDuplicated
  BY DEF Inv
<1> QED
  BY InitInv, NextInv, <1>1, PTL DEF Spec

\* The lock-free queues implement deques: PushHead appends at one end, PopHead
\* takes from it and PopTail from the other, each in one atomic step.
THEOREM Refinement == Spec => ImplementsDeque
<1> DEFINE hand == [t \in Threads |-> Carried(t)]
           deque == [q \in Threads |-> Contents(q)]
<1>1. Init => D!Init
  <2> SUFFICES ASSUME Init PROVE D!Init
    OBVIOUS
  <2>1. \A t \in Threads : Carried(t) = WORK_STEALING_INDEX
    BY DEF Init, QueueInit, IdleOp, Carried
  <2>2. \A q \in Threads : Contents(q) = << >>
    <3> SUFFICES ASSUME NEW q \in Threads PROVE Contents(q) = << >>
      OBVIOUS
    <3>1. Contents(q) = Window(fTaskList[q], 0, 0)
      BY DEF Init, QueueInit, Contents
    <3> QED
      BY <3>1, WindowEmpty
  <2> QED
    BY <2>1, <2>2 DEF D!Init, Init
<1>2. Inv /\ [Next]_vars => [D!Next]_<<free, hand, deque>>
  <2> SUFFICES ASSUME Inv, [Next]_vars
               PROVE  D!Next \/ UNCHANGED <<free, hand, deque>>
    OBVIOUS
  <2>1. ASSUME NEW t \in Threads, Push(t)
        PROVE  \E k \in Task : D!Obtain(t, k)
    BY <2>1, PushStep DEF D!Obtain, Inv, TypeOK
  <2>2. ASSUME NEW t \in Threads, IncHeadStore(t), UNCHANGED <<free, held>>
        PROVE  D!Push(t)
    <3>1. Carried(t) # WORK_STEALING_INDEX
      BY <2>2 DEF Inv, PushInv, Carried, IncHeadStore
    <3>2. hand' = [hand EXCEPT ![t] = WORK_STEALING_INDEX]
      BY <2>2, IncHeadStoreStep
    <3>3. deque' = [deque EXCEPT ![t] = Append(Contents(t), Carried(t))]
      BY <2>2, IncHeadStoreStep
    <3> QED
      BY <2>2, <3>1, <3>2, <3>3 DEF D!Push
  <2>3. ASSUME NEW t \in Threads, PopCAS(t), UNCHANGED <<free, held>>
        PROVE  D!PopHead(t) \/ \E q \in Threads : D!PopTail(t, q)
    <3>1. PICK q \in Threads :
              /\ Contents(q) # << >>
              /\ \A r \in Threads : r # q => Contents(r)' = Contents(r)
              /\ \/ /\ q = t
                    /\ Carried(t)' = Contents(q)[Len(Contents(q))]
                    /\ Contents(q)' = SubSeq(Contents(q), 1, Len(Contents(q)) - 1)
                 \/ /\ Carried(t)' = Head(Contents(q))
                    /\ Contents(q)' = Tail(Contents(q))
      BY <2>3, PopCASStep
    <3>2. hand[t] = WORK_STEALING_INDEX /\ deque[q] # << >>
      BY <2>3, <3>1, PopCASStep
    <3>3. CASE /\ q = t
               /\ Carried(t)' = Contents(q)[Len(Contents(q))]
               /\ Contents(q)' = SubSeq(Contents(q), 1, Len(Contents(q)) - 1)
      <4>1. hand' = [hand EXCEPT ![t] = deque[t][Len(deque[t])]]
        BY <2>3, <3>3, PopCASStep
      <4>2. deque' = [deque EXCEPT ![t] = SubSeq(deque[t], 1, Len(deque[t]) - 1)]
        BY <3>1, <3>3
      <4> QED
        BY <2>3, <3>2, <3>3, <4>1, <4>2 DEF D!PopHead
    <3>4. CASE /\ Carried(t)' = Head(Contents(q))
               /\ Contents(q)' = Tail(Contents(q))
      <4>1. hand' = [hand EXCEPT ![t] = Head(deque[q])]
        BY <2>3, <3>4, PopCASStep
      <4>2. deque' = [deque EXCEPT ![q] = Tail(deque[q])]
        BY <3>1, <3>4
      <4> QED
        BY <2>3, <3>2, <4>1, <4>2 DEF D!PopTail
    <3> QED
      BY <3>1, <3>3, <3>4
  <2>4. ASSUME NEW t \in Threads, Release(t)
        PROVE  D!Release(t)
    <3>1. Carried(t) = held[t] /\ held[t] # WORK_STEALING_INDEX /\ free' = free \cup {held[t]}
      BY <2>4 DEF Release, Inv, HeldInv, Carried
    <3>2. hand' = [hand EXCEPT ![t] = WORK_STEALING_INDEX] /\ deque' = deque
      BY <2>4, ReleaseStep
    <3> QED
      BY <3>1, <3>2 DEF D!Release
  <2>5. CASE Reset
    BY <2>5, ResetStep DEF Reset
  <2>6. ASSUME NEW t \in Threads, CallPopHead(t) \/ CallPopTail(t)
        PROVE  UNCHANGED <<free, hand, deque>>
    BY <2>6, PopEmptyStep, PopReadStep DEF CallPopHead, CallPopTail, HeadEnd, TailEnd
  <2>7. ASSUME NEW t \in Threads, IncHeadLoad(t) \/ PopCASFails(t), UNCHANGED <<free, held>>
        PROVE  UNCHANGED <<free, hand, deque>>
    BY <2>7, IncHeadLoadStep, PopCASFailsStep
  <2>8. ASSUME NEW t \in Threads, Take(t)
        PROVE  UNCHANGED <<free, hand, deque>>
    BY <2>8, TakeStep DEF Take
  <2>9. CASE UNCHANGED vars
    BY <2>9 DEF vars, queueVars, Carried, PoppedTask, PoppedSlot, Contents
  <2> QED
    BY <2>1, <2>2, <2>3, <2>4, <2>5, <2>6, <2>7, <2>8, <2>9 DEF Next, Step, QueueStep, D!Next
<1> QED
  BY InitInv, NextInv, <1>1, <1>2, PTL DEF Spec, ImplementsDeque, D!Spec

-----------------------------------------------------------------------------
(***************************************************************************)
(* The walks of computeUseCount and groupSeqLoops.                         *)
(***************************************************************************)
\* The calls for the loops of a set are in some order, each once.
LEMMA Ordered ==
  ASSUME NEW S, IsFiniteSet(S), NEW t \in SetToSeqs(S)
  PROVE  t \in Seq(S) /\ ToSet(t) = S
<1> DEFINE n == Cardinality(S)
<1>1. /\ n \in Nat /\ t \in [1..n -> S]
      /\ \A i, j \in 1..n : i # j => t[i] # t[j]
  BY FS_CardinalityType DEF SetToSeqs
<1>2. t \in Seq(S) /\ DOMAIN t = 1..n /\ ToSet(t) \in SUBSET S
  BY <1>1 DEF ToSet
<1>3. t \in Bijection(1..n, ToSet(t))
  BY <1>1, <1>2 DEF Bijection, Injection, Surjection, IsInjective, ToSet
<1>4. ExistsBijection(1..n, ToSet(t))
  BY <1>3 DEF ExistsBijection
<1>5. IsFiniteSet(ToSet(t)) /\ Cardinality(ToSet(t)) = n
  BY <1>1, <1>4, FS_CountingElements, FS_NatBijection
<1>6. ToSet(t) = S
  BY <1>2, <1>5, FS_Subset
<1> QED
  BY <1>2, <1>6

\* The calls to make when the first one is replaced by others.
LEMMA Recursion ==
  ASSUME NEW s \in Seq(Loop), s # <<>>, NEW S \in SUBSET Loop, IsFiniteSet(S),
         NEW t \in SetToSeqs(S)
  PROVE  /\ t \o Tail(s) \in Seq(Loop) /\ Head(s) \in Loop
         /\ ToSet(s) = {Head(s)} \cup ToSet(Tail(s))
         /\ ToSet(t \o Tail(s)) = S \cup ToSet(Tail(s))
         /\ \A x : Twice(s, x) => x \in ToSet(Tail(s))
         /\ \A x : Twice(s, x) /\ x # Head(s) => Twice(t \o Tail(s), x)
         /\ \A x \in S \cap ToSet(Tail(s)) : Twice(t \o Tail(s), x)
<1> DEFINE u == Tail(s)
           c == t \o u
<1>1. t \in Seq(Loop) /\ ToSet(t) = S
  BY Ordered
<1>2. /\ Len(s) \in Nat \ {0} /\ u \in Seq(Loop) /\ Len(u) = Len(s) - 1
      /\ Head(s) = s[1] /\ Head(s) \in Loop
      /\ DOMAIN s = 1..Len(s) /\ DOMAIN u = 1..(Len(s) - 1)
      /\ \A i \in 1..(Len(s) - 1) : u[i] = s[i + 1]
  OBVIOUS
<1>3. /\ c \in Seq(Loop) /\ Len(t) \in Nat /\ DOMAIN t = 1..Len(t)
      /\ DOMAIN c = 1..(Len(t) + Len(u))
      /\ \A i \in 1..Len(t) : c[i] = t[i]
      /\ \A i \in 1..Len(u) : c[Len(t) + i] = u[i]
  BY <1>1, <1>2
<1> HIDE DEF c, u
<1>4. ASSUME NEW i \in DOMAIN s, i # 1 PROVE i - 1 \in DOMAIN u /\ u[i - 1] = s[i]
  BY <1>2, <1>4
<1>5. ASSUME NEW i \in DOMAIN u
      PROVE  /\ i + 1 \in DOMAIN s /\ u[i] = s[i + 1]
             /\ Len(t) + i \in DOMAIN c /\ c[Len(t) + i] = u[i]
  <2>1. i \in 1..(Len(s) - 1) /\ i + 1 \in 1..Len(s)
    BY <1>2
  <2>2. i + 1 \in DOMAIN s /\ u[i] = s[i + 1]
    BY <1>2, <2>1
  <2>3. Len(t) + i \in 1..(Len(t) + Len(u))
    BY <1>2, <1>3, <2>1
  <2>4. Len(t) + i \in DOMAIN c /\ c[Len(t) + i] = u[i]
    BY <1>2, <1>3, <2>1, <2>3
  <2> QED
    BY <2>2, <2>4
<1>6. ASSUME NEW i \in DOMAIN t PROVE i \in DOMAIN c /\ c[i] = t[i]
  BY <1>2, <1>3
<1>7. ToSet(s) = {Head(s)} \cup ToSet(u)
  <2>1. ToSet(s) \subseteq {Head(s)} \cup ToSet(u)
    BY <1>2, <1>4 DEF ToSet
  <2>2. Head(s) \in ToSet(s) /\ ToSet(u) \subseteq ToSet(s)
    BY <1>2, <1>5 DEF ToSet
  <2> QED
    BY <2>1, <2>2
<1>8. ToSet(c) = S \cup ToSet(u)
  <2>1. ASSUME NEW i \in DOMAIN c
        PROVE  i \in DOMAIN t \/ (i - Len(t) \in DOMAIN u /\ c[i] = u[i - Len(t)])
    <3>1. CASE i <= Len(t)
      BY <1>2, <1>3, <3>1
    <3>2. CASE ~(i <= Len(t))
      <4>1. i - Len(t) \in DOMAIN u /\ Len(t) + (i - Len(t)) = i
        BY <1>2, <1>3, <3>2
      <4> QED
        BY <1>5, <4>1
    <3> QED
      BY <3>1, <3>2
  <2>2. ToSet(c) \subseteq ToSet(t) \cup ToSet(u)
    BY <2>1, <1>6 DEF ToSet
  <2>3. ToSet(t) \subseteq ToSet(c) /\ ToSet(u) \subseteq ToSet(c)
    BY <1>5, <1>6 DEF ToSet
  <2> QED
    BY <1>1, <2>2, <2>3
<1>9. ASSUME NEW x, Twice(s, x)
      PROVE  /\ x \in ToSet(u)
             /\ x # Head(s) => Twice(c, x)
  <2>1. PICK i \in DOMAIN s, j \in DOMAIN s : i < j /\ s[i] = x /\ s[j] = x
    BY <1>9 DEF Twice
  <2>2. j # 1 /\ j - 1 \in DOMAIN u /\ u[j - 1] = x
    BY <1>2, <1>4, <2>1
  <2>3. ASSUME x # Head(s) PROVE Twice(c, x)
    <3>1. i # 1 /\ i - 1 \in DOMAIN u /\ u[i - 1] = x
      BY <1>2, <1>4, <2>1, <2>3
    <3>2. /\ Len(t) + (i - 1) \in DOMAIN c /\ c[Len(t) + (i - 1)] = x
          /\ Len(t) + (j - 1) \in DOMAIN c /\ c[Len(t) + (j - 1)] = x
      BY <1>5, <2>2, <3>1
    <3>3. Len(t) + (i - 1) < Len(t) + (j - 1)
      BY <1>2, <1>3, <2>1
    <3> QED
      BY <3>2, <3>3 DEF Twice
  <2> QED
    BY <2>2, <2>3 DEF ToSet
<1>10. ASSUME NEW x \in S \cap ToSet(u) PROVE Twice(c, x)
  <2>1. PICK i \in DOMAIN t : t[i] = x
    BY <1>1 DEF ToSet
  <2>2. PICK j \in DOMAIN u : u[j] = x
    BY DEF ToSet
  <2>3. /\ i \in DOMAIN c /\ c[i] = x /\ Len(t) + j \in DOMAIN c /\ c[Len(t) + j] = x
        /\ i < Len(t) + j
    BY <1>2, <1>3, <1>5, <1>6, <2>1, <2>2
  <2> QED
    BY <2>3 DEF Twice
<1> QED
  BY <1>2, <1>3, <1>7, <1>8, <1>9, <1>10 DEF c, u

-----------------------------------------------------------------------------
\* A set of loops has one that was closed last.
LEMMA LeastLoop ==
  ASSUME NEW S \in SUBSET Nat, S # {}
  PROVE  \E m \in S : \A n \in S : m <= n
<1>1. IsWellFoundedOn(OpToRel(<, Nat), Nat)
  BY NatLessThanWellFounded
<1>2. PICK x \in S : \A y \in S : ~(<<y, x>> \in OpToRel(<, Nat))
  BY <1>1, WFMin
<1>3. ASSUME NEW y \in S PROVE x <= y
  <2>1. ~(y < x)
    BY <1>2 DEF OpToRel
  <2> QED
    BY <2>1
<1> QED
  BY <1>3

\* The initial graphs.
LEMMA GraphInitInv ==
  ASSUME GraphInit
  PROVE  GraphInv
<1>1. Loop \subseteq Nat /\ IsFiniteSet(Loop) /\ Root \in Loop /\ Root = 0
  BY LoopGraphAssumption DEF Root
<1>2. PICK E \in SUBSET {e \in Loop \X Loop : e[1] < e[2]} :
        /\ \A f \in Loop \ {Root} : \E l \in Loop : <<l, f>> \in E
        /\ deps = [l \in Loop |-> {f \in Loop : <<l, f>> \in E}]
  BY DEF GraphInit, Graphs
<1>3. /\ deps \in [Loop -> SUBSET Loop]
      /\ \A l \in Loop : \A f \in deps[l] : l < f
      /\ \A f \in Loop \ {Root} : \E l \in Loop : f \in deps[l]
  <2>1. ASSUME NEW l \in Loop, NEW f \in deps[l] PROVE l < f
    <3>1. <<l, f>> \in E
      BY <1>2
    <3> QED
      BY <3>1
  <2> QED
    BY <1>2, <2>1
<1>4. /\ fBackwardLoopDependencies = deps /\ fExtraLoops = [l \in Loop |-> << >>]
      /\ fForwardLoopDependencies = [l \in Loop |-> {}] /\ fUseCount = [l \in Loop |-> 0]
      /\ fOrder = [l \in Loop |-> -1] /\ fIndex = [l \in Loop |-> -1]
      /\ V = << >> /\ T1 = {} /\ level = 0 /\ ready_loop = << >> /\ loop_count = 0
      /\ hasCode \in {Loop, Loop \ {Root}} /\ hasCode # {} /\ gGroupTaskSwitch \in BOOLEAN
      /\ \/ pc = "count" /\ calls = <<Root>>
         \/ pc = "reset" /\ calls = << >>
  BY DEF GraphInit
<1>5. GraphTypeOK
  <2>1. << >> \in Seq(Loop) /\ << >> \in Seq(SUBSET Loop) /\ << >> \in Seq(Nat)
    BY EmptySeq
  <2>2. <<Root>> \in Seq(Loop)
    BY <1>1
  <2> QED
    BY <1>3, <1>4, <2>1, <2>2 DEF GraphTypeOK
<1>6. Separate = Loop
  BY <1>4 DEF Separate, ToSet
<1>7. Given /\ Chained /\ Linked
  BY <1>1, <1>3, <1>4, <1>6 DEF Given, Chained, Linked
<1>8. ChainsKeep(Separate)
  <2> SUFFICES ASSUME NEW l \in Loop, NEW n \in DOMAIN Chain(l), NEW f \in deps[Chain(l)[n]]
               PROVE  f \in fBackwardLoopDependencies[l] /\ At(f, f) # {}
    BY <1>6 DEF ChainsKeep
  <2>1. \A k \in Loop : Chain(k) = <<k>>
    BY <1>4, ConcatEmptySeq DEF Chain
  <2>2. n = 1 /\ Chain(l)[n] = l /\ f \in Loop
    BY <1>3, <2>1
  <2>3. 1 \in At(f, f)
    BY <2>1, <2>2 DEF At
  <2> QED
    BY <1>4, <2>2, <2>3
<1>9. Counting /\ Grouping /\ Sorting /\ Sorted
  BY <1>1, <1>4 DEF Counting, Grouping, Sorting, Sorted, ToSet
<1>10. Numbering
  BY <1>4 DEF Numbering, Numbered
<1> QED
  BY <1>5, <1>7, <1>8, <1>9, <1>10 DEF GraphInv

\* What is left alone as long as no loop becomes part of another.
LEMMA SameLoops ==
  ASSUME GraphInv, UNCHANGED <<input, fBackwardLoopDependencies, fExtraLoops>>
  PROVE  Separate' = Separate /\ Chained' /\ Linked' /\ ChainsKeep(Separate)'
<1>1. /\ deps' = deps /\ fBackwardLoopDependencies' = fBackwardLoopDependencies
      /\ fExtraLoops' = fExtraLoops
  BY DEF input
<1>2. Separate' = Separate
  BY <1>1 DEF Separate
<1>3. Chained' /\ Linked'
  BY <1>1, <1>2 DEF GraphInv, Chained, Linked
<1>4. \A l : Chain(l)' = Chain(l)
  BY <1>1 DEF Chain
<1>5. \A l, f : At(l, f)' = At(l, f)
  BY <1>4 DEF At
<1>6. ChainsKeep(Separate)'
  BY <1>1, <1>2, <1>4, <1>5 DEF GraphInv, ChainsKeep
<1> QED
  BY <1>2, <1>3, <1>6

-----------------------------------------------------------------------------
\* When no call is left, every loop was counted.
LEMMA AllCounted ==
  ASSUME GraphInv, pc = "count", calls = << >>
  PROVE  \A l \in Loop : fUseCount[l] > 0
<1> DEFINE S == {l \in Loop : ~(fUseCount[l] > 0)}
<1> SUFFICES ASSUME S # {} PROVE FALSE
  OBVIOUS
<1>1. S \in SUBSET Nat
  BY LoopGraphAssumption
<1>2. PICK m \in S : \A n \in S : m <= n
  BY <1>1, LeastLoop
<1>3. ToSet(calls) = {}
  BY DEF ToSet
<1>4. Separate = Loop /\ fBackwardLoopDependencies = deps
  BY DEF GraphInv, Given, Separate, ToSet
<1>5. m # Root
  BY <1>3, LoopGraphAssumption DEF GraphInv, Counting
<1>6. PICK k \in Loop : m \in deps[k]
  BY <1>4, <1>5 DEF GraphInv, Linked
<1>7. k < m
  BY <1>6 DEF GraphInv, Given
<1>8. k \notin S
  BY <1>1, <1>2, <1>7, LoopGraphAssumption
<1> QED
  BY <1>3, <1>6, <1>8 DEF GraphInv, Counting

\* computeUseCount.
LEMMA CountKeeps ==
  ASSUME GraphInv, ComputeUseCount
  PROVE  GraphInv'
<1>1. /\ pc = "count"
      /\ UNCHANGED <<input, sortVars, numberVars, fBackwardLoopDependencies, fExtraLoops>>
  BY DEF ComputeUseCount
<1>2. Separate = Loop /\ fBackwardLoopDependencies = deps /\ fExtraLoops = [l \in Loop |-> << >>]
  BY <1>1 DEF GraphInv, Given, Separate, ToSet
<1>3. Loop \subseteq Nat /\ Root \in Loop /\ Root = 0 /\ IsFiniteSet(Loop)
  BY LoopGraphAssumption DEF Root
<1>4. /\ Chained' /\ Linked' /\ ChainsKeep(Separate)' /\ Separate' = Separate
  BY <1>1, SameLoops
<1>5. pc' \in {"count", "group"} => Given' /\ Sorting' /\ Sorted' /\ Numbering'
  BY <1>1 DEF GraphInv, Given, Sorting, Sorted, Numbering, Numbered, input, sortVars, numberVars
<1>6. CASE calls = << >>
  <2>1. pc' = "group" /\ calls' = <<Root>> /\ UNCHANGED fUseCount
    BY <1>6 DEF ComputeUseCount
  <2>2. calls' \in Seq(Loop) /\ ToSet(calls') = {Root}
    BY <1>3, <2>1 DEF ToSet
  <2>3. GraphTypeOK'
    BY <1>1, <2>1, <2>2 DEF GraphInv, GraphTypeOK, input, sortVars, numberVars
  <2>4. Counting'
    BY <2>1 DEF Counting
  <2>5. \A l \in Loop : fUseCount[l] > 0
    BY <1>1, <1>6, AllCounted
  <2>6. \A f : f \notin ToSet(calls) /\ ~Twice(calls, f)
    BY <1>6 DEF ToSet, Twice
  <2>7. \A l, k \in Loop : \A f \in deps[l] \cap deps[k] : l # k => fUseCount[f] > 1
    BY <1>1, <2>5, <2>6 DEF GraphInv, Counting
  <2>8. \A l, k \in Loop : \A f \in deps[l] \cap deps[k] : l # k => fUseCount[f] # 1
    BY <2>7
  <2>9. \A l \in Loop : \A f \in Loop : deps[l] = {f} => f \notin {Root}
    BY <1>3 DEF GraphInv, Given
  <2>10. Grouping'
    BY <1>1, <1>2, <1>3, <1>4, <2>1, <2>2, <2>8, <2>9 DEF Grouping, input
  <2> QED
    BY <1>4, <1>5, <2>1, <2>3, <2>4, <2>10 DEF GraphInv
<1>7. CASE calls # << >>
  <2> DEFINE l == Head(calls)
             S == IF fUseCount'[l] = 1 THEN fBackwardLoopDependencies[l] ELSE {}
  <2>1. /\ fUseCount' = [fUseCount EXCEPT ![l] = @ + 1] /\ pc' = "count"
        /\ \E t \in SetToSeqs(S) : calls' = t \o Tail(calls)
    BY <1>1, <1>7 DEF ComputeUseCount, Recurse
  <2>2. PICK t \in SetToSeqs(S) : calls' = t \o Tail(calls)
    BY <2>1
  <2>3. calls \in Seq(Loop) /\ fUseCount \in [Loop -> Nat] /\ deps \in [Loop -> SUBSET Loop]
    BY DEF GraphInv, GraphTypeOK
  <2>4. l \in Loop
    BY <1>7, <2>3
  <2>5. S \in SUBSET Loop
    BY <1>2, <2>3, <2>4
  <2>6. IsFiniteSet(S)
    BY <1>3, <2>5, FS_Subset
  <2> HIDE DEF S
  <2>7. /\ calls' \in Seq(Loop) /\ ToSet(calls) = {l} \cup ToSet(Tail(calls))
        /\ ToSet(calls') = S \cup ToSet(Tail(calls))
        /\ \A x : Twice(calls, x) => x \in ToSet(Tail(calls))
        /\ \A x : Twice(calls, x) /\ x # l => Twice(calls', x)
        /\ \A x \in S \cap ToSet(Tail(calls)) : Twice(calls', x)
    BY <1>7, <2>2, <2>3, <2>5, <2>6, Recursion
  <2> HIDE DEF l
  <2>8. /\ fUseCount'[l] = fUseCount[l] + 1 /\ fUseCount' \in [Loop -> Nat]
        /\ \A f \in Loop : f # l => fUseCount'[f] = fUseCount[f]
        /\ \A f \in Loop : fUseCount[f] \in Nat
    BY <2>1, <2>3, <2>4
  <2>9. S = IF fUseCount[l] = 0 THEN deps[l] ELSE {}
    BY <1>2, <2>4, <2>8 DEF S
  <2>10. GraphTypeOK'
    BY <1>1, <2>1, <2>7, <2>8 DEF GraphInv, GraphTypeOK, input, sortVars, numberVars
  <2>11. Grouping'
    BY <2>1 DEF Grouping
  <2>12. deps' = deps
    BY <1>1 DEF input
  <2>13. fUseCount'[Root] > 0 \/ Root \in ToSet(calls')
    BY <1>1, <1>3, <2>4, <2>7, <2>8 DEF GraphInv, Counting
  <2>14. ASSUME NEW k \in Loop, NEW f \in deps[k], fUseCount'[k] > 0
         PROVE  fUseCount'[f] > 0 \/ f \in ToSet(calls')
    <3>1. f \in Loop
      BY <2>3
    <3>2. CASE k = l /\ fUseCount[l] = 0
      BY <2>7, <2>9, <3>2
    <3>3. CASE ~(k = l /\ fUseCount[l] = 0)
      <4>1. fUseCount[k] > 0
        BY <2>4, <2>8, <2>14, <3>3
      <4>2. fUseCount[f] > 0 \/ f \in ToSet(calls)
        BY <1>1, <4>1 DEF GraphInv, Counting
      <4> QED
        BY <2>4, <2>7, <2>8, <3>1, <4>2
    <3> QED
      BY <3>2, <3>3
  <2>15. ASSUME NEW j \in Loop, NEW k \in Loop, NEW f \in deps[j] \cap deps[k],
                j # k, fUseCount'[j] > 0, fUseCount[k] > 0, fUseCount'[k] > 0
         PROVE  \/ fUseCount'[f] > 1
                \/ fUseCount'[f] = 1 /\ f \in ToSet(calls')
                \/ Twice(calls', f)
    <3>1. f \in Loop
      BY <2>3
    <3>2. CASE j = l /\ fUseCount[l] = 0
      <4>1. f \in S /\ f # l
        <5>1. l < f
          BY <3>2 DEF GraphInv, Given
        <5> QED
          BY <1>3, <2>4, <2>9, <3>1, <3>2, <5>1
      <4>2. fUseCount[f] > 0 \/ f \in ToSet(calls)
        BY <1>1, <2>15 DEF GraphInv, Counting
      <4> QED
        BY <2>7, <2>8, <3>1, <4>1, <4>2
    <3>3. CASE ~(j = l /\ fUseCount[l] = 0)
      <4>1. fUseCount[j] > 0
        BY <2>4, <2>8, <2>15, <3>3
      <4>2. \/ fUseCount[f] > 1
            \/ fUseCount[f] = 1 /\ f \in ToSet(calls)
            \/ Twice(calls, f)
        BY <1>1, <2>15, <4>1 DEF GraphInv, Counting
      <4>3. CASE f = l
        BY <2>4, <2>7, <2>8, <4>2, <4>3
      <4>4. CASE f # l
        BY <2>7, <2>8, <3>1, <4>2, <4>4
      <4> QED
        BY <4>3, <4>4
    <3> QED
      BY <3>2, <3>3
  <2>16. ASSUME NEW j \in Loop, NEW k \in Loop, NEW f \in deps[j] \cap deps[k],
                j # k, fUseCount'[j] > 0, fUseCount'[k] > 0
         PROVE  \/ fUseCount'[f] > 1
                \/ fUseCount'[f] = 1 /\ f \in ToSet(calls')
                \/ Twice(calls', f)
    <3>1. fUseCount[j] > 0 \/ fUseCount[k] > 0
      BY <2>4, <2>8, <2>16
    <3> QED
      BY <2>15, <2>16, <3>1
  <2>17. Counting'
    BY <2>12, <2>13, <2>14, <2>16 DEF Counting, Twice
  <2> QED
    BY <1>4, <1>5, <2>1, <2>10, <2>11, <2>17 DEF GraphInv
<1> QED
  BY <1>6, <1>7

-----------------------------------------------------------------------------
\* A sequence and one element more.
LEMMA OneMore ==
  ASSUME NEW S, NEW e \in Seq(S), NEW x \in S
  PROVE  /\ e \o <<x>> \in Seq(S) /\ Len(e) \in Nat /\ DOMAIN e = 1 .. Len(e)
         /\ DOMAIN (e \o <<x>>) = 1 .. Len(e) + 1
         /\ \A n \in 1 .. Len(e) : (e \o <<x>>)[n] = e[n]
         /\ (e \o <<x>>)[Len(e) + 1] = x
         /\ e = << >> => e \o <<x>> = <<x>>
<1>1. <<x>> \in Seq(S) /\ Len(<<x>>) = 1 /\ <<x>>[1] = x
  OBVIOUS
<1>2. /\ e \o <<x>> \in Seq(S) /\ Len(e \o <<x>>) = Len(e) + 1 /\ Len(e) \in Nat
      /\ DOMAIN e = 1 .. Len(e)
  BY <1>1
<1>3. DOMAIN (e \o <<x>>) = 1 .. Len(e) + 1
  BY <1>2
<1>4. /\ \A n \in 1 .. Len(e) : (e \o <<x>>)[n] = e[n]
      /\ (e \o <<x>>)[Len(e) + 1] = x
  BY <1>1, <1>2
<1>5. e = << >> => e \o <<x>> = <<x>>
  BY <1>1, ConcatEmptySeq
<1> QED
  BY <1>2, <1>3, <1>4, <1>5

\* A loop put before the others of a chain.
LEMMA LongerChain ==
  ASSUME NEW l \in Loop, NEW f \in Loop,
         fExtraLoops \in [Loop -> Seq(Loop)],
         fExtraLoops' = [fExtraLoops EXCEPT ![l] = <<f>> \o @]
  PROVE  /\ fExtraLoops' \in [Loop -> Seq(Loop)]
         /\ \A k \in Loop : /\ Chain(k) \in Seq(Loop)
                            /\ DOMAIN Chain(k) = 1 .. Len(fExtraLoops[k]) + 1
                            /\ Len(fExtraLoops[k]) \in Nat
                            /\ DOMAIN fExtraLoops[k] = 1 .. Len(fExtraLoops[k])
                            /\ fExtraLoops[k] = << >> => Chain(k) = <<k>>
         /\ \A k \in Loop \ {l} : fExtraLoops'[k] = fExtraLoops[k] /\ Chain(k)' = Chain(k)
         /\ DOMAIN fExtraLoops'[l] = 1 .. Len(fExtraLoops[l]) + 1
         /\ fExtraLoops'[l][1] = f
         /\ \A n \in DOMAIN fExtraLoops[l] : fExtraLoops'[l][n + 1] = fExtraLoops[l][n]
         /\ DOMAIN Chain(l)' = 1 .. Len(fExtraLoops[l]) + 2
         /\ Chain(l)'[1] = f
         /\ \A n \in DOMAIN Chain(l) : Chain(l)'[n + 1] = Chain(l)[n]
<1>1. fExtraLoops[l] \in Seq(Loop)
  OBVIOUS
<1> DEFINE e == fExtraLoops[l]
           h == <<f>> \o e
           c == e \o <<l>>
           d == h \o <<l>>
<1>2. /\ h \in Seq(Loop) /\ Len(e) \in Nat /\ Len(h) = Len(e) + 1
      /\ DOMAIN e = 1..Len(e) /\ DOMAIN h = 1 .. Len(e) + 1
      /\ h[1] = f /\ \A n \in 1..Len(e) : h[n + 1] = e[n]
  BY <1>1
<1>3. /\ fExtraLoops' \in [Loop -> Seq(Loop)] /\ fExtraLoops'[l] = h
      /\ \A k \in Loop \ {l} : fExtraLoops'[k] = fExtraLoops[k]
  BY <1>2
<1>4. ASSUME NEW k \in Loop
      PROVE  /\ Chain(k) \in Seq(Loop)
             /\ DOMAIN Chain(k) = 1 .. Len(fExtraLoops[k]) + 1
             /\ Len(fExtraLoops[k]) \in Nat
             /\ DOMAIN fExtraLoops[k] = 1 .. Len(fExtraLoops[k])
             /\ fExtraLoops[k] = << >> => Chain(k) = <<k>>
  <2>1. fExtraLoops[k] \in Seq(Loop)
    OBVIOUS
  <2> QED
    BY <2>1, OneMore DEF Chain
<1>5. \A k \in Loop \ {l} : Chain(k)' = Chain(k)
  BY <1>3 DEF Chain
<1>6. /\ Chain(l) = c /\ Chain(l)' = d
  BY <1>3 DEF Chain
<1>7. /\ DOMAIN c = 1 .. Len(e) + 1
      /\ \A n \in 1..Len(e) : c[n] = e[n]
      /\ c[Len(e) + 1] = l
  BY <1>1, OneMore
<1> HIDE DEF h
<1>8. /\ DOMAIN d = 1 .. Len(e) + 2
      /\ \A n \in 1 .. Len(e) + 1 : d[n] = h[n]
      /\ d[Len(e) + 2] = l
  <2>1. /\ DOMAIN d = 1 .. Len(h) + 1
        /\ \A n \in 1 .. Len(h) : d[n] = h[n]
        /\ d[Len(h) + 1] = l
    <3>1. \A s \in Seq(Loop) : /\ DOMAIN (s \o <<l>>) = 1 .. Len(s) + 1
                               /\ \A n \in 1 .. Len(s) : (s \o <<l>>)[n] = s[n]
                               /\ (s \o <<l>>)[Len(s) + 1] = l
      BY OneMore
    <3> QED
      BY <1>2, <3>1
  <2>2. Len(h) = Len(e) + 1 /\ Len(h) + 1 = Len(e) + 2
    BY <1>2
  <2> QED
    BY <2>1, <2>2
<1> HIDE DEF c, d
<1>9. d[1] = f
  BY <1>2, <1>8
<1>10. ASSUME NEW n \in 1 .. Len(e) + 1 PROVE d[n + 1] = c[n]
  <2>1. CASE n = Len(e) + 1
    <3>1. n + 1 = Len(e) + 2
      BY <1>2, <2>1
    <3> QED
      BY <1>7, <1>8, <2>1, <3>1
  <2>2. CASE n # Len(e) + 1
    <3>1. n \in 1..Len(e) /\ n + 1 \in 1 .. Len(e) + 1
      BY <1>2, <2>2
    <3> QED
      BY <1>2, <1>7, <1>8, <3>1
  <2> QED
    BY <2>1, <2>2
<1>11. \A n \in DOMAIN Chain(l) : Chain(l)'[n + 1] = Chain(l)[n]
  BY <1>6, <1>7, <1>10
<1>12. DOMAIN Chain(l)' = 1 .. Len(fExtraLoops[l]) + 2 /\ Chain(l)'[1] = f
  BY <1>6, <1>8, <1>9
<1> QED
  BY <1>2, <1>3, <1>4, <1>5, <1>11, <1>12

\* concat: a loop becomes part of the only one that reads from it.
LEMMA ConcatKeeps ==
  ASSUME GraphInv, pc = "group", calls # << >>,
         NEW l, l = Head(calls), NEW f \in Loop,
         fBackwardLoopDependencies[l] = {f}, fUseCount[f] = 1, concat(l, f),
         UNCHANGED <<input, sortVars, numberVars, fUseCount, calls, pc>>
  PROVE  GraphInv'
<1>1. /\ deps \in [Loop -> SUBSET Loop] /\ fBackwardLoopDependencies \in [Loop -> SUBSET Loop]
      /\ fExtraLoops \in [Loop -> Seq(Loop)] /\ calls \in Seq(Loop)
  BY DEF GraphInv, GraphTypeOK
<1>2. Loop \subseteq Nat /\ Root \in Loop /\ Root = 0
  BY LoopGraphAssumption DEF Root
<1>3. l \in ToSet(calls)
  BY <1>1 DEF ToSet
<1>4. Separate \subseteq Loop /\ l \in Separate /\ f \in Separate
  <2>1. l \in Separate
    BY <1>3 DEF GraphInv, Grouping
  <2> QED
    BY <2>1 DEF GraphInv, Linked, Separate
<1>5. l < f /\ l # f /\ f # Root
  <2>1. l < f /\ l \in Nat /\ f \in Nat
    BY <1>2, <1>4 DEF GraphInv, Linked
  <2> QED
    BY <1>2, <2>1
<1>6. fExtraLoops[f] = << >> /\ f \notin ToSet(calls)
  BY <1>4 DEF GraphInv, Grouping
<1>7. /\ fExtraLoops' = [fExtraLoops EXCEPT ![l] = <<f>> \o @]
      /\ fBackwardLoopDependencies' \in [Loop -> SUBSET Loop]
      /\ fBackwardLoopDependencies'[l] = fBackwardLoopDependencies[f]
      /\ \A k \in Loop \ {l} : fBackwardLoopDependencies'[k] = fBackwardLoopDependencies[k]
  BY <1>1, <1>4 DEF concat
<1> DEFINE e == fExtraLoops[l]
           h == fExtraLoops'[l]
           c == Chain(l)
           d == Chain(l)'
<1>8. /\ fExtraLoops' \in [Loop -> Seq(Loop)]
      /\ \A k \in Loop : /\ Chain(k) \in Seq(Loop)
                         /\ DOMAIN Chain(k) = 1 .. Len(fExtraLoops[k]) + 1
                         /\ Len(fExtraLoops[k]) \in Nat
                         /\ DOMAIN fExtraLoops[k] = 1 .. Len(fExtraLoops[k])
                         /\ fExtraLoops[k] = << >> => Chain(k) = <<k>>
      /\ \A k \in Loop \ {l} : fExtraLoops'[k] = fExtraLoops[k] /\ Chain(k)' = Chain(k)
  BY <1>1, <1>4, <1>7, LongerChain
<1>9. /\ Len(e) \in Nat /\ DOMAIN e = 1 .. Len(e) /\ DOMAIN c = 1 .. Len(e) + 1
      /\ DOMAIN h = 1 .. Len(e) + 1 /\ DOMAIN d = 1 .. Len(e) + 2
      /\ h[1] = f /\ d[1] = f
      /\ \A n \in DOMAIN e : h[n + 1] = e[n]
      /\ \A n \in DOMAIN c : d[n + 1] = c[n]
  BY <1>1, <1>4, <1>7, LongerChain, ZenonT(60)
<1> HIDE DEF e, h, c, d
<1>10. ASSUME NEW n \in DOMAIN h, n # 1
       PROVE  n - 1 \in DOMAIN e /\ h[n] = e[n - 1]
  <2>1. n - 1 \in DOMAIN e /\ (n - 1) + 1 = n
    BY <1>9, <1>10
  <2> QED
    BY <1>9, <2>1
<1>11. ToSet(h) = {f} \cup ToSet(e)
  <2>1. ASSUME NEW n \in DOMAIN h PROVE h[n] \in {f} \cup ToSet(e)
    BY <1>9, <1>10 DEF ToSet
  <2>2. f \in ToSet(h)
    <3>1. 1 \in DOMAIN h
      BY <1>9
    <3> QED
      BY <1>9, <3>1 DEF ToSet
  <2>3. ASSUME NEW n \in DOMAIN e PROVE e[n] \in ToSet(h)
    <3>1. n + 1 \in DOMAIN h
      BY <1>9
    <3> QED
      BY <1>9, <3>1 DEF ToSet
  <2>4. ToSet(h) \subseteq {f} \cup ToSet(e)
    BY <2>1 DEF ToSet
  <2>5. ToSet(e) \subseteq ToSet(h)
    BY <2>3 DEF ToSet
  <2> QED
    BY <2>2, <2>4, <2>5
<1>12. Separate' = Separate \ {f}
  <2>1. \A k \in Loop \ {l} : ToSet(fExtraLoops'[k]) = ToSet(fExtraLoops[k])
    BY <1>8
  <2>2. UNION {ToSet(fExtraLoops'[k]) : k \in Loop}
          = {f} \cup UNION {ToSet(fExtraLoops[k]) : k \in Loop}
    BY <1>4, <1>11, <2>1 DEF e, h
  <2> QED
    BY <2>2 DEF Separate
<1>13. \A k \in Loop : \A i \in DOMAIN fExtraLoops[k] : fExtraLoops[k][i] # f
  BY <1>4 DEF Separate, ToSet
<1>14. Chained'
  <2>1. Root \in Separate'
    BY <1>5, <1>12 DEF GraphInv, Chained
  <2>2. \A k \in Loop : fExtraLoops'[k] # << >> => k \in Separate'
    BY <1>4, <1>5, <1>6, <1>8, <1>12 DEF GraphInv, Chained
  <2>3. \A k, m \in Loop : \A i \in DOMAIN fExtraLoops[k], j \in DOMAIN fExtraLoops[m] :
          fExtraLoops[k][i] = fExtraLoops[m][j] => k = m /\ i = j
    BY DEF GraphInv, Chained
  <2>4. ASSUME NEW k \in Loop, NEW m \in Loop,
               NEW i \in DOMAIN fExtraLoops'[k], NEW j \in DOMAIN fExtraLoops'[m],
               fExtraLoops'[k][i] = fExtraLoops'[m][j]
        PROVE  k = m /\ i = j
    <3>0. ASSUME NEW q \in Loop, NEW n \in DOMAIN fExtraLoops'[q], ~(q = l /\ n = 1)
          PROVE  LET o == IF q = l THEN n - 1 ELSE n
                 IN  o \in DOMAIN fExtraLoops[q] /\ fExtraLoops'[q][n] = fExtraLoops[q][o]
      <4>1. CASE q = l
        BY <1>10, <3>0, <4>1 DEF e, h
      <4>2. CASE q # l
        BY <1>8, <3>0, <4>2
      <4> QED
        BY <4>1, <4>2
    <3>1. CASE k = l /\ i = 1
      BY <1>9, <1>13, <2>4, <3>0, <3>1 DEF h
    <3>2. CASE m = l /\ j = 1
      BY <1>9, <1>13, <2>4, <3>0, <3>2 DEF h
    <3>3. CASE ~(k = l /\ i = 1) /\ ~(m = l /\ j = 1)
      <4> DEFINE a == IF k = l THEN i - 1 ELSE i
                 b == IF m = l THEN j - 1 ELSE j
      <4>1. a \in DOMAIN fExtraLoops[k] /\ fExtraLoops'[k][i] = fExtraLoops[k][a]
        BY <3>0, <3>3
      <4>2. b \in DOMAIN fExtraLoops[m] /\ fExtraLoops'[m][j] = fExtraLoops[m][b]
        BY <3>0, <3>3
      <4> HIDE DEF a, b
      <4> DEFINE x == fExtraLoops
      <4>5. x[k][a] = x[m][b] /\ a \in DOMAIN x[k] /\ b \in DOMAIN x[m]
        BY <2>4, <4>1, <4>2
      <4>3. k = m /\ a = b
        BY <2>3, <4>5, ZenonT(60)
      <4>4. k = l => i \in Nat /\ j \in Nat
        BY <1>9, <4>3 DEF h
      <4> QED
        BY <4>3, <4>4 DEF a, b
    <3> QED
      BY <3>1, <3>2, <3>3
  <2> QED
    BY <2>1, <2>2, <2>4 DEF Chained
<1>15. \A k \in Separate \ {l} : f \notin fBackwardLoopDependencies[k]
  BY <1>4 DEF GraphInv, Grouping
<1>16. Linked'
  <2>1. \A k \in Loop : \A g \in fBackwardLoopDependencies[k] : k < g
    BY DEF GraphInv, Linked
  <2>2. ASSUME NEW k \in Loop, NEW g \in fBackwardLoopDependencies'[k] PROVE k < g
    <3>1. CASE k = l
      <4>1. f < g /\ g \in Loop
        BY <1>1, <1>7, <2>1, <2>2, <3>1
      <4>2. l \in Nat /\ f \in Nat /\ g \in Nat
        BY <1>2, <1>4, <4>1
      <4> QED
        BY <1>5, <3>1, <4>1, <4>2
    <3> QED
      BY <1>7, <2>1, <3>1
  <2>3. ASSUME NEW k \in Separate' PROVE fBackwardLoopDependencies'[k] \subseteq Separate'
    <3>1. CASE k = l
      <4>1. f \notin fBackwardLoopDependencies[f]
        <5>1. ~(f < f)
          BY <1>2
        <5> QED
          BY <2>1, <5>1
      <4> QED
        BY <1>4, <1>7, <1>12, <3>1, <4>1 DEF GraphInv, Linked
    <3>2. CASE k # l
      BY <1>4, <1>7, <1>12, <1>15, <3>2 DEF GraphInv, Linked
    <3> QED
      BY <3>1, <3>2
  <2>4. ASSUME NEW g \in Separate' \ {Root}
        PROVE  \E k \in Separate' : g \in fBackwardLoopDependencies'[k]
    <3>1. PICK k \in Separate : g \in fBackwardLoopDependencies[k]
      BY <1>12 DEF GraphInv, Linked
    <3>2. k # l
      BY <1>12, <3>1
    <3>3. CASE k = f
      BY <1>4, <1>5, <1>7, <1>12, <3>1, <3>3
    <3>4. CASE k # f
      BY <1>4, <1>7, <1>12, <3>1, <3>2, <3>4
    <3> QED
      BY <3>3, <3>4
  <2> QED
    BY <2>2, <2>3, <2>4 DEF Linked
<1>17. \A k \in Loop \ {l} : \A g : At(k, g)' = At(k, g)
  BY <1>8 DEF At
<1>18. \A g : At(l, g) # {} => At(l, g)' # {}
  <2>1. ASSUME NEW g, NEW n \in At(l, g) PROVE n + 1 \in At(l, g)'
    <3>1. n \in DOMAIN c /\ c[n] = g
      BY <2>1 DEF At, c
    <3>2. n + 1 \in DOMAIN d /\ d[n + 1] = g
      BY <1>9, <3>1
    <3> QED
      BY <3>2 DEF At, d
  <2> QED
    BY <2>1
<1>19. ChainsKeep(Separate)'
  <2>1. deps' = deps
    BY DEF input
  <2>2. \A k \in Separate : \A n \in DOMAIN Chain(k) : \A g \in deps[Chain(k)[n]] :
          \/ \E m \in 1 .. n - 1 : Chain(k)[m] = g
          \/ \E j \in fBackwardLoopDependencies[k] : At(j, g) # {}
    BY DEF GraphInv, ChainsKeep
  <2>3. ASSUME NEW k \in Separate', NEW n \in DOMAIN Chain(k)', NEW g \in deps[Chain(k)'[n]]
        PROVE  \/ \E m \in 1 .. n - 1 : Chain(k)'[m] = g
               \/ \E j \in fBackwardLoopDependencies'[k] : At(j, g)' # {}
    <3>1. CASE k # l
      <4>1. /\ Chain(k)' = Chain(k) /\ k \in Separate
            /\ fBackwardLoopDependencies'[k] = fBackwardLoopDependencies[k]
        BY <1>4, <1>7, <1>8, <1>12, <3>1
      <4>2. \/ \E m \in 1 .. n - 1 : Chain(k)[m] = g
            \/ \E j \in fBackwardLoopDependencies[k] : At(j, g) # {}
        BY <2>2, <2>3, <4>1
      <4>3. \A j \in fBackwardLoopDependencies[k] : j \in Loop
        BY <1>1, <1>4, <4>1
      <4> QED
        BY <1>17, <1>18, <4>1, <4>2, <4>3
    <3>2. CASE k = l /\ n = 1
      <4>1. Chain(f) = <<f>>
        BY <1>6, <1>8
      <4>2. 1 \in DOMAIN Chain(f) /\ Chain(f)[1] = f
        BY <4>1
      <4>3. g \in deps[f]
        BY <1>9, <2>3, <3>2 DEF d
      <4>4. PICK j \in fBackwardLoopDependencies[f] : At(j, g) # {}
        BY <1>4, <2>2, <4>2, <4>3
      <4>5. f < j /\ j \in Loop
        BY <1>1, <4>4 DEF GraphInv, Linked
      <4>6. j # l
        BY <1>2, <1>4, <1>5, <4>5
      <4> QED
        BY <1>7, <1>17, <3>2, <4>4, <4>5, <4>6
    <3>3. CASE k = l /\ n # 1
      <4> DEFINE o == n - 1
      <4>1. n \in 1 .. Len(e) + 2
        BY <1>9, <2>3, <3>3 DEF d
      <4>2. o \in DOMAIN c /\ o + 1 = n /\ o \in Nat /\ n \in Nat
        BY <1>9, <3>3, <4>1
      <4>3. d[n] = c[o]
        BY <1>9, <4>2
      <4> HIDE DEF o
      <4>4. \/ \E m \in 1 .. o - 1 : Chain(l)[m] = g
            \/ \E j \in fBackwardLoopDependencies[l] : At(j, g) # {}
        BY <1>4, <2>2, <2>3, <3>3, <4>2, <4>3 DEF c, d
      <4>5. CASE \E m \in 1 .. o - 1 : Chain(l)[m] = g
        <5>1. PICK m \in 1 .. o - 1 : Chain(l)[m] = g
          BY <4>5
        <5>2. m \in DOMAIN c /\ m + 1 \in 1 .. n - 1
          BY <1>9, <4>2
        <5> QED
          BY <1>9, <3>3, <5>1, <5>2 DEF c, d
      <4>6. CASE At(f, g) # {}
        <5>1. Chain(f) = <<f>>
          BY <1>6, <1>8
        <5>2. g = f
          BY <4>6, <5>1 DEF At
        <5>3. 1 \in 1 .. n - 1
          BY <3>3, <4>1, <4>2
        <5> QED
          BY <1>9, <3>3, <5>2, <5>3 DEF d
      <4> QED
        BY <4>4, <4>5, <4>6
    <3> QED
      BY <3>1, <3>2, <3>3
  <2> QED
    BY <2>1, <2>3 DEF ChainsKeep
<1>20. Grouping'
  <2>1. calls' = calls /\ fUseCount' = fUseCount
    OBVIOUS
  <2>2. ToSet(calls') \subseteq Separate'
    BY <1>6, <1>12, <2>1 DEF GraphInv, Grouping
  <2>3. ASSUME NEW k \in Separate', NEW m \in Separate', k # m,
               NEW g \in fBackwardLoopDependencies'[k] \cap fBackwardLoopDependencies'[m]
        PROVE  fUseCount[g] # 1
    <3>1. \A a, b \in Separate : a # b =>
            \A x \in fBackwardLoopDependencies[a] \cap fBackwardLoopDependencies[b] :
              fUseCount[x] # 1
      BY DEF GraphInv, Grouping
    <3>2. CASE k = l
      BY <1>4, <1>7, <1>12, <2>3, <3>1, <3>2
    <3>3. CASE m = l
      BY <1>4, <1>7, <1>12, <2>3, <3>1, <3>3
    <3>4. CASE k # l /\ m # l
      BY <1>4, <1>7, <1>12, <2>3, <3>1, <3>4
    <3> QED
      BY <3>2, <3>3, <3>4
  <2>4. ASSUME NEW k \in Separate', NEW g \in Loop, fBackwardLoopDependencies'[k] = {g},
               fUseCount[g] = 1
        PROVE  fExtraLoops'[g] = << >> /\ g \notin ToSet(calls)
    <3>1. \A a \in Separate : fBackwardLoopDependencies[a] = {g} =>
            fExtraLoops[g] = << >> /\ g \notin ToSet(calls)
      BY <2>4 DEF GraphInv, Grouping
    <3>2. \E a \in Separate : fBackwardLoopDependencies[a] = {g}
      BY <1>4, <1>7, <1>12, <2>4
    <3>3. g # l
      BY <1>3, <3>1, <3>2
    <3> QED
      BY <1>8, <3>1, <3>2, <3>3
  <2> QED
    BY <2>1, <2>2, <2>3, <2>4 DEF Grouping
<1>21. GraphTypeOK'
  BY <1>7, <1>8 DEF GraphInv, GraphTypeOK, input, sortVars, numberVars
<1>22. Given' /\ Counting' /\ Sorting' /\ Sorted' /\ Numbering'
  BY DEF GraphInv, Given, Counting, Sorting, Sorted, Numbering, Numbered, input, sortVars, numberVars
<1> QED
  BY <1>14, <1>16, <1>19, <1>20, <1>21, <1>22 DEF GraphInv

\* groupSeqLoops.
LEMMA GroupKeeps ==
  ASSUME GraphInv, GroupSeqLoops
  PROVE  GraphInv'
<1> DEFINE l == Head(calls)
           InSequence == {f \in Loop : fBackwardLoopDependencies[l] = {f} /\ fUseCount[f] = 1}
<1>1. pc = "group" /\ UNCHANGED <<input, sortVars, numberVars, fUseCount>>
  BY DEF GroupSeqLoops
<1>2. CASE calls = << >>
  <2>1. pc' = "reset" /\ UNCHANGED <<calls, fBackwardLoopDependencies, fExtraLoops>>
    BY <1>2 DEF GroupSeqLoops
  <2>2. Chained' /\ Linked' /\ ChainsKeep(Separate)'
    BY <1>1, <2>1, SameLoops
  <2>3. GraphTypeOK' /\ Given'
    BY <1>1, <2>1 DEF GraphInv, GraphTypeOK, Given, input, sortVars, numberVars
  <2>4. Counting' /\ Grouping' /\ Sorting' /\ Sorted' /\ Numbering'
    BY <1>1, <2>1 DEF GraphInv, Counting, Grouping, Sorting, Sorted, Numbering, Numbered, numberVars
  <2> QED
    BY <2>2, <2>3, <2>4 DEF GraphInv
<1>3. ASSUME NEW f \in InSequence, calls # << >>, concat(l, f), UNCHANGED <<calls, pc>>
      PROVE  GraphInv'
  BY <1>1, <1>3, ConcatKeeps
<1>4. CASE /\ calls # << >> /\ InSequence = {} /\ Recurse(GroupBelow(l))
           /\ UNCHANGED <<fBackwardLoopDependencies, fExtraLoops, pc>>
  <2>1. /\ calls \in Seq(Loop) /\ l \in Separate /\ Separate \subseteq Loop
        /\ fBackwardLoopDependencies \in [Loop -> SUBSET Loop]
    <3>1. calls \in Seq(Loop) /\ l \in ToSet(calls)
      BY <1>4 DEF GraphInv, GraphTypeOK, ToSet
    <3> QED
      BY <1>1, <3>1 DEF GraphInv, Grouping, GraphTypeOK, Separate
  <2> DEFINE S == fBackwardLoopDependencies[l]
  <2>2. S \in SUBSET Loop /\ IsFiniteSet(S) /\ S \subseteq Separate
    <3>1. S \in SUBSET Loop /\ S \subseteq Separate
      BY <2>1 DEF GraphInv, Linked
    <3> QED
      BY <3>1, FS_Subset, LoopGraphAssumption
  <2>3. PICK t \in SetToSeqs(S) : calls' = t \o Tail(calls)
    BY <1>4 DEF Recurse, GroupBelow
  <2> HIDE DEF S
  <2>4. /\ calls' \in Seq(Loop) /\ ToSet(calls) = {l} \cup ToSet(Tail(calls))
        /\ ToSet(calls') = S \cup ToSet(Tail(calls))
    BY <1>4, <2>1, <2>2, <2>3, Recursion
  <2>5. Chained' /\ Linked' /\ ChainsKeep(Separate)' /\ Separate' = Separate
    BY <1>1, <1>4, SameLoops
  <2>6. ToSet(calls') \subseteq Separate'
    BY <1>1, <2>2, <2>4, <2>5 DEF GraphInv, Grouping
  <2>7. ASSUME NEW k \in Separate, NEW f \in Loop, fBackwardLoopDependencies[k] = {f},
               fUseCount[f] = 1
        PROVE  fExtraLoops[f] = << >> /\ f \notin ToSet(calls')
    <3>1. fExtraLoops[f] = << >> /\ f \notin ToSet(calls)
      BY <1>1, <2>7 DEF GraphInv, Grouping
    <3>2. f \notin S
      <4>1. CASE k = l
        BY <1>4, <2>7, <4>1
      <4>2. CASE k # l
        BY <1>1, <2>1, <2>7, <4>2 DEF GraphInv, Grouping, S
      <4> QED
        BY <4>1, <4>2
    <3> QED
      BY <2>4, <3>1, <3>2
  <2>8. Grouping'
    BY <1>1, <1>4, <2>5, <2>6, <2>7 DEF GraphInv, Grouping
  <2>9. GraphTypeOK' /\ Given'
    BY <1>1, <1>4, <2>4 DEF GraphInv, GraphTypeOK, Given, input, sortVars, numberVars
  <2>10. Counting' /\ Sorting' /\ Sorted' /\ Numbering'
    BY <1>1, <1>4 DEF GraphInv, Counting, Sorting, Sorted, Numbering, Numbered, numberVars, input
  <2> QED
    BY <2>5, <2>8, <2>9, <2>10 DEF GraphInv
<1> QED
  BY <1>1, <1>2, <1>3, <1>4 DEF GroupSeqLoops

-----------------------------------------------------------------------------
\* The start of sortGraph.
LEMMA ResetKeeps ==
  ASSUME GraphInv, ResetOrder
  PROVE  GraphInv'
<1>1. /\ pc = "reset" /\ pc' = "level"
      /\ fOrder' = [l \in Loop |-> -1] /\ T1' = {Root} /\ level' = 0 /\ V' = << >>
      /\ UNCHANGED <<input, numberVars, fBackwardLoopDependencies, fExtraLoops, fUseCount, calls>>
  BY DEF ResetOrder
<1>2. Chained' /\ Linked' /\ ChainsKeep(Separate)' /\ Separate' = Separate
  BY <1>1, SameLoops
<1>3. GraphTypeOK'
  <2>1. << >> \in Seq(SUBSET Loop)
    BY EmptySeq
  <2> QED
    BY <1>1, <2>1, LoopGraphAssumption DEF GraphInv, GraphTypeOK, input, numberVars
<1>4. Sorting'
  <2>1. Root \in Separate
    BY DEF GraphInv, Chained
  <2> QED
    BY <1>1, <1>2, <2>1 DEF Sorting
<1>5. Given' /\ Counting' /\ Grouping' /\ Sorted' /\ Numbering'
  BY <1>1 DEF GraphInv, Given, Counting, Grouping, Sorted, Numbering, Numbered, input, numberVars
<1> QED
  BY <1>2, <1>3, <1>4, <1>5 DEF GraphInv

\* setLevel: the loops of T1 go to the level after the last one.
LEMMA SetLevelKeeps ==
  ASSUME GraphInv, SetLevel
  PROVE  GraphInv'
<1> DEFINE back == fBackwardLoopDependencies
<1>1. /\ pc = "level" /\ pc' \in {"erase", "level"} /\ (pc' = "erase" => T1' = {})
      /\ fOrder' = [l \in Loop |-> IF l \in T1 THEN level ELSE fOrder[l]]
      /\ V' = Append([k \in DOMAIN V |-> V[k] \ T1], T1)
      /\ T1' = UNION {back[l] : l \in T1}
      /\ level' = level + 1
      /\ UNCHANGED <<input, numberVars, fBackwardLoopDependencies, fExtraLoops, fUseCount, calls>>
  BY DEF SetLevel
<1>2. Chained' /\ Linked' /\ ChainsKeep(Separate)' /\ Separate' = Separate
  BY <1>1, SameLoops
<1>3. /\ Loop \subseteq Nat /\ Root \in Loop /\ Root = 0
      /\ level \in Nat /\ T1 \subseteq Loop /\ V \in Seq(SUBSET Loop)
      /\ fOrder \in [Loop -> Nat \cup {-1}] /\ back \in [Loop -> SUBSET Loop]
  BY LoopGraphAssumption DEF Root, GraphInv, GraphTypeOK
<1>4. /\ Len(V) = level /\ T1 \subseteq Separate
      /\ IF level = 0 THEN T1 = {Root} /\ fOrder = [l \in Loop |-> -1]
         ELSE Root \notin T1 /\ fOrder[Root] = 0
      /\ \A k \in 1 .. level : V[k] = {l \in Loop : fOrder[l] = k - 1}
      /\ \A l \in Loop : fOrder[l] < level /\ (fOrder[l] > -1 => l \in Separate)
      /\ \A l \in Loop : \A f \in back[l] : fOrder[l] > -1 =>
           fOrder[f] > fOrder[l] \/ (fOrder[l] = level - 1 /\ f \in T1)
      /\ \A f \in T1 \ {Root} : \E l \in Loop : f \in back[l] /\ fOrder[l] = level - 1
      /\ \A f \in Loop \ {Root} : fOrder[f] > -1 =>
           \E l \in Loop : f \in back[l] /\ fOrder[l] >= fOrder[f] - 1
  BY <1>1 DEF GraphInv, Sorting
<1>5. /\ \A l \in Loop : \A f \in back[l] : l < f
      /\ \A l \in Separate : back[l] \subseteq Separate
  BY DEF GraphInv, Linked
<1>6. /\ fOrder' \in [Loop -> Nat \cup {-1}]
      /\ \A l \in T1 : fOrder'[l] = level
      /\ \A l \in Loop \ T1 : fOrder'[l] = fOrder[l]
      /\ \A l \in Loop : fOrder[l] \in Int /\ fOrder'[l] \in Int
  BY <1>1, <1>3
<1>7. /\ V' \in Seq(SUBSET Loop) /\ Len(V') = level + 1
      /\ \A k \in 1 .. level : V'[k] = V[k] \ T1
      /\ V'[level + 1] = T1
  <2> DEFINE W == [k \in DOMAIN V |-> V[k] \ T1]
  <2>1. W \in Seq(SUBSET Loop) /\ Len(W) = level /\ \A k \in 1 .. level : W[k] = V[k] \ T1
    BY <1>3, <1>4
  <2> HIDE DEF W
  <2>2. V' = Append(W, T1)
    BY <1>1 DEF W
  <2> QED
    BY <1>3, <2>1, <2>2
<1>8. T1' \subseteq Separate /\ T1' \subseteq Loop /\ Root \notin T1'
  <2>1. T1' \subseteq Separate
    BY <1>1, <1>4, <1>5
  <2>2. T1' \subseteq Loop
    BY <1>1, <1>3
  <2>3. ASSUME NEW l \in T1, NEW f \in back[l] PROVE f # Root
    <3>1. l < f /\ l \in Nat
      BY <1>3, <1>5
    <3> QED
      BY <1>3, <3>1
  <2> QED
    BY <1>1, <2>1, <2>2, <2>3
<1>9. ASSUME NEW k \in 1 .. level + 1 PROVE V'[k] = {l \in Loop : fOrder'[l] = k - 1}
  <2>1. CASE k = level + 1
    <3>1. k - 1 = level
      BY <1>3, <2>1
    <3>2. \A l \in Loop \ T1 : fOrder'[l] # level
      BY <1>3, <1>4, <1>6
    <3>3. T1 = {l \in Loop : fOrder'[l] = level}
      BY <1>3, <1>6, <3>2
    <3> QED
      BY <1>7, <2>1, <3>1, <3>3
  <2>2. CASE k # level + 1
    <3>1. k \in 1 .. level /\ level # k - 1
      BY <1>3, <2>2
    <3> QED
      BY <1>4, <1>6, <1>7, <3>1
  <2> QED
    BY <2>1, <2>2
<1>10. fOrder'[Root] = 0
  <2>1. CASE level = 0
    BY <1>4, <1>6, <2>1
  <2>2. CASE level # 0
    BY <1>3, <1>4, <1>6, <2>2
  <2> QED
    BY <2>1, <2>2
<1>11. \A l \in Loop : fOrder'[l] < level + 1 /\ (fOrder'[l] > -1 => l \in Separate)
  BY <1>3, <1>4, <1>6
<1>12. ASSUME NEW l \in Loop, NEW f \in back[l], fOrder'[l] > -1
       PROVE  fOrder'[f] > fOrder'[l] \/ (fOrder'[l] = level /\ f \in T1')
  <2>1. CASE l \in T1
    BY <1>1, <1>6, <2>1
  <2>2. CASE l \notin T1
    <3>1. f \in Loop /\ fOrder'[l] = fOrder[l] /\ fOrder[l] < level
      BY <1>3, <1>4, <1>6, <2>2
    <3>2. fOrder[f] > fOrder[l] \/ f \in T1
      BY <1>4, <1>12, <3>1
    <3> QED
      BY <1>3, <1>6, <3>1, <3>2
  <2> QED
    BY <2>1, <2>2
<1>13. \A f \in T1' : \E l \in Loop : f \in back[l] /\ fOrder'[l] = level
  BY <1>1, <1>3, <1>6
<1>14. ASSUME NEW f \in Loop \ {Root}, fOrder'[f] > -1
       PROVE  \E l \in Loop : f \in back[l] /\ fOrder'[l] >= fOrder'[f] - 1
  <2>0. \A l \in Loop : fOrder'[l] >= fOrder[l]
    BY <1>3, <1>4, <1>6
  <2>1. CASE f \in T1
    <3>1. PICK l \in Loop : f \in back[l] /\ fOrder[l] = level - 1
      BY <1>4, <1>14, <2>1
    <3> QED
      BY <1>3, <1>6, <2>0, <2>1, <3>1
  <2>2. CASE f \notin T1
    <3>1. PICK l \in Loop : f \in back[l] /\ fOrder[l] >= fOrder[f] - 1
      BY <1>4, <1>6, <1>14, <2>2
    <3>2. fOrder'[l] >= fOrder[l] /\ fOrder'[f] = fOrder[f]
      BY <1>6, <2>0, <2>2
    <3>3. fOrder'[l] \in Int /\ fOrder[l] \in Int /\ fOrder[f] \in Int
      BY <1>6
    <3> QED
      BY <3>1, <3>2, <3>3
  <2> QED
    BY <2>1, <2>2
<1>15. Sorting'
  <2>1. fBackwardLoopDependencies' = back /\ level' = level + 1 /\ level' - 1 = level
    BY <1>1, <1>3
  <2>2. level' # 0 /\ level' > 0
    BY <1>1, <1>3
  <2>3. Len(V') = level' /\ T1' \subseteq Separate' /\ (pc' = "erase" => T1' = {} /\ level' > 0)
    BY <1>1, <1>2, <1>7, <1>8, <2>1, <2>2
  <2>4. \A k \in 1 .. level' : V'[k] = {l \in Loop : fOrder'[l] = k - 1}
    BY <1>9, <2>1
  <2>5. \A l \in Loop : fOrder'[l] < level' /\ (fOrder'[l] > -1 => l \in Separate')
    BY <1>2, <1>11, <2>1
  <2>6. \A l \in Loop : \A f \in fBackwardLoopDependencies'[l] : fOrder'[l] > -1 =>
          fOrder'[f] > fOrder'[l] \/ (fOrder'[l] = level' - 1 /\ f \in T1')
    BY <1>12, <2>1
  <2>7. \A f \in T1' \ {Root} : \E l \in Loop :
          f \in fBackwardLoopDependencies'[l] /\ fOrder'[l] = level' - 1
    BY <1>13, <2>1
  <2>8. \A f \in Loop \ {Root} : fOrder'[f] > -1 =>
          \E l \in Loop : f \in fBackwardLoopDependencies'[l] /\ fOrder'[l] >= fOrder'[f] - 1
    BY <1>14, <2>1
  <2> QED
    BY <1>8, <1>10, <2>2, <2>3, <2>4, <2>5, <2>6, <2>7, <2>8 DEF Sorting
<1>16. GraphTypeOK'
  <2>1. level' \in Nat
    BY <1>1, <1>3
  <2>2. /\ deps' = deps /\ hasCode' = hasCode /\ gGroupTaskSwitch' = gGroupTaskSwitch
        /\ fForwardLoopDependencies' = fForwardLoopDependencies /\ fIndex' = fIndex
        /\ ready_loop' = ready_loop /\ loop_count' = loop_count
        /\ fBackwardLoopDependencies' = fBackwardLoopDependencies
        /\ fExtraLoops' = fExtraLoops /\ fUseCount' = fUseCount /\ calls' = calls
    BY <1>1 DEF input, numberVars
  <2>3. pc' \in {"level", "erase"} /\ GraphTypeOK
    BY <1>1 DEF GraphInv
  <2> QED
    BY <1>6, <1>7, <1>8, <2>1, <2>2, <2>3 DEF GraphTypeOK
<1>17. Given' /\ Counting' /\ Grouping' /\ Sorted' /\ Numbering'
  BY <1>1 DEF GraphInv, Given, Counting, Grouping, Sorted, Numbering, Numbered, input, numberVars
<1> QED
  BY <1>2, <1>15, <1>16, <1>17 DEF GraphInv

-----------------------------------------------------------------------------
\* Keep, when what is kept are the elements behind the first e.
LEMMA KeepTail ==
  ASSUME NEW T, NEW n \in Nat, NEW s \in [1 .. n -> T], NEW S, NEW e \in Nat, e <= n,
         \A i \in 1 .. n : s[i] \in S <=> i > e
  PROVE  /\ Keep(s, S) \in [1 .. n - e -> T]
         /\ \A k \in 1 .. n - e : Keep(s, S)[k] = s[k + e]
<1> DEFINE P == {i \in DOMAIN s : s[i] \in S}
<1>1. P = e + 1 .. n
  OBVIOUS
<1>2. Cardinality(P) = n - e
  <2>1. Cardinality(e + 1 .. n) = n - e
    <3>1. \A a, b \in Int : Cardinality(a .. b) = IF a > b THEN 0 ELSE b - a + 1
      BY FS_Interval
    <3>2. Cardinality(e + 1 .. n) = IF e + 1 > n THEN 0 ELSE n - (e + 1) + 1
      BY <3>1
    <3> QED
      BY <3>2
  <2> QED
    BY <1>1, <2>1
<1>3. ASSUME NEW i \in P PROVE Rank(P, i) = i - e
  <2>1. {j \in P : j <= i} = e + 1 .. i /\ i \in e + 1 .. n
    BY <1>1, <1>3
  <2>2. Cardinality(e + 1 .. i) = i - e
    BY <2>1, FS_Interval
  <2> QED
    BY <2>1, <2>2 DEF Rank
<1>4. ASSUME NEW k \in 1 .. n - e
      PROVE  (CHOOSE i \in P : Rank(P, i) = k) = k + e
  <2>1. k + e \in P /\ (k + e) - e = k
    BY <1>1, <1>4
  <2>2. Rank(P, k + e) = k
    BY <1>3, <2>1
  <2>3. \A i \in P : Rank(P, i) = k => i = k + e
    <3> TAKE i \in P
    <3> HAVE Rank(P, i) = k
    <3>1. i \in e + 1 .. n /\ i - e = k
      BY <1>1, <1>3
    <3> QED
      BY <3>1
  <2> HIDE DEF P
  <2> QED
    BY <2>1, <2>2, <2>3
<1>5. Keep(s, S) = [k \in 1 .. Cardinality(P) |-> s[CHOOSE i \in P : Rank(P, i) = k]]
  BY DEF Keep
<1> HIDE DEF P
<1>6. \A k \in 1 .. n - e : k + e \in 1 .. n /\ s[k + e] \in T
  OBVIOUS
<1>7. ASSUME NEW k \in 1 .. n - e
      PROVE  Keep(s, S)[k] = s[k + e]
  <2>1. Keep(s, S)[k] = s[CHOOSE i \in P : Rank(P, i) = k]
    BY <1>2, <1>5, <1>7, Zenon
  <2> QED
    BY <1>4, <1>7, <2>1, Zenon
<1>8. Keep(s, S) = [k \in 1 .. n - e |-> Keep(s, S)[k]]
  BY <1>2, <1>5, Zenon
<1>9. \A k \in 1 .. n - e : Keep(s, S)[k] \in T
  BY <1>6, <1>7, Zenon
<1> QED
  BY <1>7, <1>8, <1>9, Zenon

\* When all levels are set, every loop is on one, the root alone on the first.
LEMMA AllOnLevels ==
  ASSUME GraphInv, pc = "erase"
  PROVE  /\ \A l \in Separate : fOrder[l] > -1 /\ (fOrder[l] = 0 <=> l = Root)
         /\ \A l \in Loop : \A f \in fBackwardLoopDependencies[l] :
              fOrder[l] > -1 => fOrder[f] > fOrder[l]
<1>1. /\ Loop \subseteq Nat /\ Root \in Loop /\ Root = 0 /\ Separate \subseteq Loop
      /\ fOrder \in [Loop -> Nat \cup {-1}]
      /\ fBackwardLoopDependencies \in [Loop -> SUBSET Loop]
  BY LoopGraphAssumption DEF Root, GraphInv, GraphTypeOK, Separate
<1>2. T1 = {} /\ level > 0 /\ level \in Nat /\ fOrder[Root] = 0
  BY DEF GraphInv, Sorting, GraphTypeOK
<1>3. \A l \in Loop : \A f \in fBackwardLoopDependencies[l] :
        fOrder[l] > -1 => fOrder[f] > fOrder[l]
  BY <1>2 DEF GraphInv, Sorting
<1>4. \A f \in Separate \ {Root} : \E l \in Separate : f \in fBackwardLoopDependencies[l]
  BY DEF GraphInv, Linked
<1>5. \A l \in Separate : fOrder[l] > -1
  <2> DEFINE S == {l \in Separate : ~(fOrder[l] > -1)}
  <2> SUFFICES ASSUME S # {} PROVE FALSE
    OBVIOUS
  <2>1. PICK m \in S : \A n \in S : m <= n
    <3>1. S \in SUBSET Nat
      BY <1>1
    <3> QED
      BY <3>1, LeastLoop
  <2>2. m # Root
    BY <1>2, <2>1
  <2>3. PICK l \in Separate : m \in fBackwardLoopDependencies[l]
    BY <1>4, <2>1, <2>2
  <2>4. l < m
    BY <1>1, <2>3 DEF GraphInv, Linked
  <2>5. fOrder[l] > -1
    BY <1>1, <2>1, <2>4
  <2>6. fOrder[m] > fOrder[l] /\ fOrder[m] \in Int /\ fOrder[l] \in Int
    BY <1>1, <1>3, <2>3, <2>5
  <2> QED
    BY <2>1, <2>5, <2>6
<1>6. ASSUME NEW f \in Separate, fOrder[f] = 0 PROVE f = Root
  <2> SUFFICES ASSUME f # Root PROVE FALSE
    OBVIOUS
  <2>1. PICK l \in Separate : f \in fBackwardLoopDependencies[l]
    BY <1>4
  <2>2. fOrder[l] > -1 /\ fOrder[f] > fOrder[l] /\ fOrder[l] \in Int
    BY <1>1, <1>3, <1>5, <2>1
  <2> QED
    BY <1>6, <2>2
<1> QED
  BY <1>2, <1>3, <1>5, <1>6

\* The end of sortGraph.
LEMMA EraseKeeps ==
  ASSUME GraphInv, EraseEmptyLevels
  PROVE  GraphInv'
<1> DEFINE K == {S \in ToSet(V) : ~EmptyLevel(S)}
           e == Erased
<1>1. /\ pc = "erase" /\ pc' = "number"
      /\ V' = Keep(V, K)
      /\ T1' = IF V' = << >> THEN {} ELSE V'[Len(V')]
      /\ level' = Len(V')
      /\ loop_count' = 2
      /\ UNCHANGED <<input, fOrder, fForwardLoopDependencies, fIndex, ready_loop,
                     fBackwardLoopDependencies, fExtraLoops, fUseCount, calls>>
  BY DEF EraseEmptyLevels, START_TASK_MAX
<1>2. Chained' /\ Linked' /\ ChainsKeep(Separate)' /\ Separate' = Separate
  BY <1>1, SameLoops
<1>3. /\ Loop \subseteq Nat /\ Root \in Loop /\ Root = 0 /\ Separate \subseteq Loop
      /\ level \in Nat /\ V \in Seq(SUBSET Loop)
      /\ fOrder \in [Loop -> Nat \cup {-1}]
      /\ fBackwardLoopDependencies \in [Loop -> SUBSET Loop]
      /\ fExtraLoops \in [Loop -> Seq(Loop)]
  BY LoopGraphAssumption DEF Root, GraphInv, GraphTypeOK, Separate
<1>4. /\ Len(V) = level /\ T1 = {} /\ level > 0 /\ fOrder[Root] = 0
      /\ \A k \in 1 .. level : V[k] = {l \in Loop : fOrder[l] = k - 1}
      /\ \A l \in Loop : fOrder[l] < level /\ (fOrder[l] > -1 => l \in Separate)
      /\ \A f \in Loop \ {Root} : fOrder[f] > -1 =>
           \E l \in Loop : f \in fBackwardLoopDependencies[l] /\ fOrder[l] >= fOrder[f] - 1
  BY <1>1 DEF GraphInv, Sorting
<1>5. /\ \A l \in Separate : fOrder[l] > -1 /\ (fOrder[l] = 0 <=> l = Root)
      /\ \A l \in Loop : \A f \in fBackwardLoopDependencies[l] :
           fOrder[l] > -1 => fOrder[f] > fOrder[l]
  BY <1>1, AllOnLevels
<1>6. e \in {0, 1} /\ e \in Nat /\ (e = 1 <=> isEmpty(Root))
  BY DEF Erased
<1>7. ASSUME NEW k \in 1 .. level PROVE EmptyLevel(V[k]) <=> k <= e
  <2>1. CASE k = 1
    <3>0. 1 \in 1 .. level /\ V[1] = {l \in Loop : fOrder[l] = 0}
      BY <1>3, <1>4
    <3>3. \A l \in Loop : fOrder[l] = 0 <=> l = Root
      BY <1>3, <1>4, <1>5
    <3>1. V[k] = {Root}
      BY <1>3, <2>1, <3>0, <3>3
    <3>2. Cardinality({Root}) = 1
      BY FS_Singleton
    <3> QED
      BY <1>6, <2>1, <3>1, <3>2 DEF EmptyLevel
  <2>2. CASE k # 1
    <3>1. \A l \in V[k] : l # Root /\ l \in Loop
      BY <1>3, <1>4, <2>2
    <3>2. \A l \in V[k] : ~isEmpty(l)
      BY <3>1 DEF isEmpty, GraphInv, Given
    <3>3. V[k] = {} => Cardinality(V[k]) # 1
      BY FS_EmptySet
    <3> QED
      BY <1>6, <2>2, <3>2, <3>3 DEF EmptyLevel
  <2> QED
    BY <2>1, <2>2
<1>8. e < level
  <2>1. CASE e = 0
    BY <1>4, <2>1
  <2>2. CASE e = 1
    <3>1. Root \notin hasCode /\ fExtraLoops[Root] = << >>
      BY <1>6, <2>2 DEF isEmpty
    <3>2. PICK x \in Loop : x # Root
      BY <3>1 DEF GraphInv, Given
    <3>3. PICK l \in Separate : l # Root
      <4>1. CASE x \in Separate
        BY <3>2, <4>1
      <4>2. CASE x \notin Separate
        <5>1. PICK m \in Loop : x \in ToSet(fExtraLoops[m])
          BY <4>2 DEF Separate
        <5>2. fExtraLoops[m] # << >>
          BY <5>1 DEF ToSet
        <5> QED
          BY <3>1, <5>2 DEF GraphInv, Chained
      <4> QED
        BY <4>1, <4>2
    <3>4. fOrder[l] > 0 /\ fOrder[l] < level /\ fOrder[l] \in Int
      BY <1>3, <1>4, <1>5, <3>3
    <3> QED
      BY <1>3, <2>2, <3>4
  <2> QED
    BY <1>6, <2>1, <2>2
<1> DEFINE m == level - e
<1>9. /\ V' \in [1 .. m -> SUBSET Loop] /\ m \in Nat \ {0}
      /\ \A k \in 1 .. m : V'[k] = V[k + e]
  <2>1. V \in [1 .. level -> SUBSET Loop] /\ e <= level /\ m \in Nat \ {0}
    BY <1>3, <1>4, <1>6, <1>8
  <2>2. \A i \in 1 .. level : V[i] \in ToSet(V)
    BY <1>3, <1>4 DEF ToSet
  <2>3. \A i \in 1 .. level : V[i] \in K <=> i > e
    BY <1>3, <1>6, <1>7, <2>2
  <2> HIDE DEF K, e
  <2>4. /\ Keep(V, K) \in [1 .. level - e -> SUBSET Loop]
        /\ \A k \in 1 .. level - e : Keep(V, K)[k] = V[k + e]
    BY <1>3, <1>6, <2>1, <2>3, KeepTail
  <2> QED
    BY <1>1, <2>1, <2>4
<1> HIDE DEF K, e, m
<1>10. /\ V' \in Seq(SUBSET Loop) /\ Len(V') = m /\ V' # << >>
       /\ \A k \in 1 .. m : V'[k] = {l \in Loop : fOrder[l] + 1 - e = k}
  <2>1. ASSUME NEW k \in 1 .. m
        PROVE  k + e \in 1 .. level /\ V[k + e] = {l \in Loop : fOrder[l] + 1 - e = k}
    <3>1. k + e \in 1 .. level
      BY <1>3, <1>6, <1>8 DEF m
    <3>2. \A l \in Loop : fOrder[l] = (k + e) - 1 <=> fOrder[l] + 1 - e = k
      <4> TAKE l \in Loop
      <4>1. fOrder[l] \in Int /\ k \in Int /\ e \in Int
        BY <1>3, <1>6
      <4> QED
        BY <4>1
    <3> QED
      BY <1>4, <3>1, <3>2
  <2>2. \A k \in 1 .. m : V'[k] = V[k + e] /\ V[k + e] \in SUBSET Loop
    BY <1>9, <2>1
  <2>3. V' \in [1 .. m -> SUBSET Loop]
    BY <1>9, <2>2
  <2> QED
    BY <1>9, <2>1, <2>2, <2>3
<1>11. Erased' = e
  BY <1>1 DEF e, Erased, isEmpty, input
<1>12. \A l : Place(l)' = fOrder[l] + 1 - e
  BY <1>1, <1>11 DEF Place
<1>13. T1' = V'[m] /\ level' = m /\ level' \in 1 .. Len(V') /\ T1' \subseteq Loop
  BY <1>1, <1>9, <1>10
<1>14. Sorted'
  <2>1. /\ fOrder' = fOrder /\ Separate' = Separate
        /\ fBackwardLoopDependencies' = fBackwardLoopDependencies
    BY <1>1, <1>2
  <2>2. Len(V') > 0
    BY <1>9, <1>10
  <2>3. \A k \in 1 .. Len(V') : V'[k] = {l \in Loop : Place(l)' = k}
    BY <1>10, <1>12
  <2>4. \A l \in Loop : l \in Separate <=> fOrder[l] > -1
    BY <1>4, <1>5
  <2>5. \A l \in Separate : Place(l)' <= Len(V') /\ (fOrder[l] = 0 <=> l = Root)
    <3> TAKE l \in Separate
    <3>1. fOrder[l] \in Int /\ fOrder[l] < level
      BY <1>3, <1>4
    <3>2. Len(V') = level - e /\ Place(l)' = fOrder[l] + 1 - e
      BY <1>10, <1>12 DEF m
    <3> QED
      BY <1>3, <1>5, <1>6, <3>1, <3>2
  <2>6. \A l \in Separate : \A f \in fBackwardLoopDependencies[l] : fOrder[f] > fOrder[l]
    BY <1>3, <1>5
  <2>7. \A f \in Separate \ {Root} : \E l \in Separate : f \in fBackwardLoopDependencies[l]
                                                  /\ fOrder[l] >= fOrder[f] - 1
    <3> TAKE f \in Separate \ {Root}
    <3>1. fOrder[f] > 0 /\ fOrder[f] \in Int
      BY <1>3, <1>5
    <3>2. PICK l \in Loop : f \in fBackwardLoopDependencies[l] /\ fOrder[l] >= fOrder[f] - 1
      BY <1>3, <1>4, <3>1
    <3>3. fOrder[l] \in Int /\ fOrder[l] > -1
      BY <1>3, <3>1, <3>2
    <3>4. l \in Separate
      BY <1>4, <3>3
    <3> QED
      BY <3>2, <3>4
  <2> QED
    BY <2>1, <2>2, <2>3, <2>4, <2>5, <2>6, <2>7 DEF Sorted
<1>15. Numbering'
  <2>1. /\ Numbered = {} /\ ready_loop = << >>
        /\ fForwardLoopDependencies = [l \in Loop |-> {}]
    BY <1>1 DEF GraphInv, Numbering
  <2>2. Numbered' = {}
    BY <1>1, <2>1 DEF Numbered
  <2>3. T1' = {l \in Loop : Place(l)' = level'}
    BY <1>9, <1>10, <1>12, <1>13
  <2>4. \A l \in Separate : ~(Place(l)' > level')
    <3> TAKE l \in Separate
    <3>1. fOrder[l] \in Int /\ fOrder[l] < level
      BY <1>3, <1>4
    <3>2. level' = level - e /\ Place(l)' = fOrder[l] + 1 - e
      BY <1>12, <1>13 DEF m
    <3> QED
      BY <1>3, <1>6, <3>1, <3>2
  <2>5. {l \in Separate' : Place(l)' > level' \/ (Place(l)' = level' /\ l \notin T1')} = {}
    BY <1>2, <1>3, <2>3, <2>4
  <2>6. ToSet(ready_loop') = {}
    BY <1>1, <2>1 DEF ToSet
  <2>7. {fIndex'[l] : l \in Numbered'} = START_TASK_MAX .. loop_count' - 1
    BY <1>1, <2>2 DEF START_TASK_MAX
  <2>8. T1' \subseteq V'[level']
    BY <1>13
  <2> QED
    BY <1>1, <1>13, <2>1, <2>2, <2>5, <2>6, <2>7, <2>8 DEF Numbering, START_TASK_MAX
<1>16. GraphTypeOK'
  BY <1>1, <1>9, <1>10, <1>13 DEF GraphInv, GraphTypeOK, input
<1>17. Given' /\ Counting' /\ Grouping' /\ Sorting'
  BY <1>1 DEF GraphInv, Given, Counting, Grouping, Sorting, input
<1> QED
  BY <1>2, <1>14, <1>15, <1>16, <1>17 DEF GraphInv

-----------------------------------------------------------------------------
\* computeForwardDAG gives the next number to a loop that is left of the level.
LEMMA NumberKeeps ==
  ASSUME GraphInv, NumberLoop
  PROVE  GraphInv'
<1> DEFINE back == fBackwardLoopDependencies
           forward == fForwardLoopDependencies
<1>1. PICK l \in T1 :
        /\ forward' = [f \in Loop |-> IF f \in back[l] THEN forward[f] \cup {l} ELSE forward[f]]
        /\ fIndex' = [fIndex EXCEPT ![l] = loop_count]
        /\ loop_count' = loop_count + 1
        /\ ready_loop' = IF IsReady(l) THEN Append(ready_loop, loop_count) ELSE ready_loop
        /\ T1' = T1 \ {l}
  BY DEF NumberLoop
<1>2. /\ pc = "number"
      /\ UNCHANGED <<input, fOrder, V, level, fBackwardLoopDependencies, fExtraLoops, fUseCount,
                     calls, pc>>
  BY DEF NumberLoop
<1>3. Chained' /\ Linked' /\ ChainsKeep(Separate)' /\ Separate' = Separate
  BY <1>2, SameLoops
<1>4. Given' /\ Counting' /\ Grouping' /\ Sorting'
  BY <1>2 DEF GraphInv, Given, Counting, Grouping, Sorting, input
<1>5. Sorted' /\ \A k : Place(k)' = Place(k)
  <2>1. \A k : Place(k)' = Place(k)
    BY <1>2 DEF Place, Erased, isEmpty, input
  <2> QED
    BY <1>2, <1>3, <2>1 DEF GraphInv, Sorted
<1>6. /\ Loop \subseteq Nat /\ T1 \subseteq Loop /\ fIndex \in [Loop -> Nat \cup {-1}]
      /\ loop_count \in Nat /\ ready_loop \in Seq(Nat)
      /\ fOrder \in [Loop -> Nat \cup {-1}]
      /\ back \in [Loop -> SUBSET Loop] /\ forward \in [Loop -> SUBSET Loop]
      /\ Separate \subseteq Loop
  BY LoopGraphAssumption DEF GraphInv, GraphTypeOK, Separate
<1>7. /\ level \in 1 .. Len(V) /\ T1 \subseteq V[level]
      /\ Numbered = {k \in Separate : Place(k) > level \/ (Place(k) = level /\ k \notin T1)}
      /\ loop_count >= START_TASK_MAX
      /\ {fIndex[k] : k \in Numbered} = START_TASK_MAX .. loop_count - 1
      /\ \A j, k \in Numbered : fIndex[j] = fIndex[k] => j = k
      /\ \A k \in Numbered : \A f \in back[k] : f \in Numbered /\ fIndex[f] < fIndex[k]
      /\ \A k \in Loop : forward[k] = {j \in Numbered : k \in back[j]}
      /\ ToSet(ready_loop) = {fIndex[k] : k \in {j \in Numbered : back[j] = {}}}
  BY <1>2 DEF GraphInv, Numbering
<1>8. /\ l \in Loop /\ Place(l) = level /\ l \in Separate /\ l \notin Numbered
      /\ \A k \in Loop : Place(k) = fOrder[k] + 1 - Erased /\ fOrder[k] \in Int
      /\ Erased \in {0, 1}
  <2>1. l \in Loop /\ Place(l) = level
    BY <1>2, <1>6, <1>7 DEF GraphInv, Sorted
  <2>2. \A k \in Loop : Place(k) = fOrder[k] + 1 - Erased /\ fOrder[k] \in Int
    BY <1>6 DEF Place
  <2>3. Erased \in {0, 1}
    BY DEF Erased
  <2>4. fOrder[l] > -1
    BY <1>7, <2>1, <2>2, <2>3
  <2>5. l \in Separate
    BY <1>2, <2>1, <2>4 DEF GraphInv, Sorted
  <2>6. l \notin Numbered
    BY <1>7, <2>1
  <2> QED
    BY <2>1, <2>2, <2>3, <2>5, <2>6
<1>9. /\ fIndex' \in [Loop -> Nat \cup {-1}] /\ fIndex'[l] = loop_count
      /\ \A k \in Loop \ {l} : fIndex'[k] = fIndex[k]
  BY <1>1, <1>6, <1>8
<1>10. Numbered' = Numbered \cup {l} /\ Numbered \subseteq Loop
  <2>1. loop_count # -1 /\ fIndex'[l] # -1
    BY <1>6, <1>9
  <2>2. \A k \in Loop : fIndex'[k] # -1 <=> (fIndex[k] # -1 \/ k = l)
    BY <1>8, <1>9, <2>1
  <2> QED
    BY <1>8, <2>2 DEF Numbered
<1>11. \A f \in back[l] : f \in Numbered /\ f # l
  <2> TAKE f \in back[l]
  <2>1. f \in Separate /\ f \in Loop
    BY <1>6, <1>8 DEF GraphInv, Linked
  <2>2. fOrder[f] > fOrder[l]
    BY <1>2, <1>8 DEF GraphInv, Sorted
  <2>3. Place(f) > level
    BY <1>8, <2>1, <2>2
  <2> QED
    BY <1>7, <1>8, <2>1, <2>3
<1>12. \A k \in Numbered : k # l /\ fIndex'[k] = fIndex[k] /\ fIndex[k] \in 2 .. loop_count - 1
  BY <1>7, <1>8, <1>9, <1>10 DEF START_TASK_MAX
<1>13. Numbering'
  <2>1. /\ level' \in 1 .. Len(V') /\ T1' \subseteq V'[level'] /\ pc' = "number"
        /\ loop_count' >= START_TASK_MAX
    BY <1>1, <1>2, <1>6, <1>7 DEF START_TASK_MAX
  <2>2. Numbered' = {k \in Separate' : Place(k)' > level' \/ (Place(k)' = level' /\ k \notin T1')}
    BY <1>1, <1>2, <1>3, <1>5, <1>6, <1>7, <1>8, <1>10
  <2>3. {fIndex'[k] : k \in Numbered'} = START_TASK_MAX .. loop_count' - 1
    <3>1. {fIndex'[k] : k \in Numbered'} = {fIndex[k] : k \in Numbered} \cup {loop_count}
      BY <1>9, <1>10, <1>12
    <3>2. (2 .. loop_count - 1) \cup {loop_count} = 2 .. loop_count' - 1
      BY <1>1, <1>6, <1>7 DEF START_TASK_MAX
    <3> QED
      BY <1>7, <3>1, <3>2 DEF START_TASK_MAX
  <2>4. \A j, k \in Numbered' : fIndex'[j] = fIndex'[k] => j = k
    <3>1. \A j \in Numbered : fIndex'[j] # loop_count
      BY <1>6, <1>12
    <3> QED
      BY <1>7, <1>9, <1>10, <1>12, <3>1
  <2>5. \A k \in Numbered' : \A f \in back[k] : f \in Numbered' /\ fIndex'[f] < fIndex'[k]
    <3> TAKE k \in Numbered'
    <3> TAKE f \in back[k]
    <3>1. CASE k = l
      BY <1>6, <1>9, <1>10, <1>11, <1>12, <3>1
    <3>2. CASE k # l
      BY <1>7, <1>10, <1>12, <3>2
    <3> QED
      BY <3>1, <3>2
  <2>6. \A k \in Loop : forward'[k] = {j \in Numbered' : k \in back[j]}
    BY <1>1, <1>6, <1>7, <1>10
  <2>7. ToSet(ready_loop') = {fIndex'[k] : k \in {j \in Numbered' : back[j] = {}}}
    <3> DEFINE A == {j \in Numbered : back[j] = {}}
    <3>0. ToSet(ready_loop) = {fIndex[k] : k \in A}
      BY <1>7
    <3>1. \A k \in A : fIndex'[k] = fIndex[k]
      BY <1>12
    <3>2. CASE back[l] = {}
      <4>1. ready_loop' = Append(ready_loop, loop_count)
        BY <1>1, <3>2 DEF IsReady
      <4>2. ToSet(ready_loop') = ToSet(ready_loop) \cup {loop_count}
        <5>1. /\ DOMAIN ready_loop = 1 .. Len(ready_loop) /\ Len(ready_loop) \in Nat
              /\ DOMAIN ready_loop' = 1 .. Len(ready_loop) + 1
              /\ \A i \in 1 .. Len(ready_loop) : ready_loop'[i] = ready_loop[i]
              /\ ready_loop'[Len(ready_loop) + 1] = loop_count
          BY <1>6, <4>1
        <5>2. \A i \in DOMAIN ready_loop' : i \in DOMAIN ready_loop \/ i = Len(ready_loop) + 1
          BY <5>1
        <5>3. /\ DOMAIN ready_loop \subseteq DOMAIN ready_loop'
              /\ Len(ready_loop) + 1 \in DOMAIN ready_loop'
          BY <5>1
        <5>4. ToSet(ready_loop') \subseteq ToSet(ready_loop) \cup {loop_count}
          BY <5>1, <5>2 DEF ToSet
        <5>5. ToSet(ready_loop) \cup {loop_count} \subseteq ToSet(ready_loop')
          BY <5>1, <5>3 DEF ToSet
        <5> QED
          BY <5>4, <5>5
      <4>3. {j \in Numbered' : back[j] = {}} = A \cup {l}
        BY <1>10, <3>2
      <4> HIDE DEF A
      <4>4. {fIndex'[k] : k \in A \cup {l}} = {fIndex[k] : k \in A} \cup {loop_count}
        BY <1>9, <3>1
      <4> QED
        BY <3>0, <4>2, <4>3, <4>4
    <3>3. CASE back[l] # {}
      <4>1. ready_loop' = ready_loop
        BY <1>1, <3>3 DEF IsReady
      <4>2. {j \in Numbered' : back[j] = {}} = A
        BY <1>10, <3>3
      <4> HIDE DEF A
      <4>3. {fIndex'[k] : k \in A} = {fIndex[k] : k \in A}
        BY <3>1
      <4> QED
        BY <3>0, <4>1, <4>2, <4>3
    <3> QED
      BY <3>2, <3>3
  <2>8. fBackwardLoopDependencies' = back
    BY <1>2
  <2> QED
    BY <2>1, <2>2, <2>3, <2>4, <2>5, <2>6, <2>7, <2>8 DEF Numbering
<1>14. GraphTypeOK'
  <2>1. forward' \in [Loop -> SUBSET Loop]
    BY <1>1, <1>6, <1>8
  <2>2. ready_loop' \in Seq(Nat) /\ loop_count' \in Nat /\ T1' \subseteq Loop
    BY <1>1, <1>6
  <2> QED
    BY <1>2, <1>9, <2>1, <2>2 DEF GraphInv, GraphTypeOK, input
<1> QED
  BY <1>3, <1>4, <1>5, <1>13, <1>14 DEF GraphInv

\* computeForwardDAG goes on to the level before.
LEMMA NextLevelKeeps ==
  ASSUME GraphInv, NextLevel
  PROVE  GraphInv'
<1>1. /\ pc = "number" /\ T1 = {}
      /\ IF level > 1
         THEN level' = level - 1 /\ T1' = V[level - 1] /\ UNCHANGED pc
         ELSE pc' = "done" /\ UNCHANGED <<level, T1>>
      /\ UNCHANGED <<input, numberVars, fOrder, V, fBackwardLoopDependencies, fExtraLoops,
                     fUseCount, calls>>
  BY DEF NextLevel
<1>2. Chained' /\ Linked' /\ ChainsKeep(Separate)' /\ Separate' = Separate
  BY <1>1, SameLoops
<1>3. pc' \in {"number", "done"}
  BY <1>1
<1>4. Given' /\ Counting' /\ Grouping' /\ Sorting'
  BY <1>1, <1>3 DEF GraphInv, Given, Counting, Grouping, Sorting, input
<1>5. Sorted' /\ (\A k : Place(k)' = Place(k)) /\ Numbered' = Numbered
  <2>1. \A k : Place(k)' = Place(k)
    BY <1>1 DEF Place, Erased, isEmpty, input
  <2> QED
    BY <1>1, <1>2, <1>3, <2>1 DEF GraphInv, Sorted, Numbered, numberVars
<1>6. /\ level \in 1 .. Len(V) /\ Separate \subseteq Loop /\ level \in Nat /\ Len(V) \in Nat
      /\ V \in Seq(SUBSET Loop) /\ fOrder \in [Loop -> Nat \cup {-1}]
      /\ Numbered = {k \in Separate : Place(k) > level \/ (Place(k) = level /\ k \notin T1)}
      /\ \A k \in 1 .. Len(V) : V[k] = {l \in Loop : Place(l) = k}
  BY <1>1 DEF GraphInv, GraphTypeOK, Numbering, Separate, Sorted
<1>7. CASE level > 1
  <2>1. level - 1 \in 1 .. Len(V) /\ level' = level - 1 /\ T1' = V[level - 1] /\ pc' = pc
    BY <1>1, <1>6, <1>7
  <2>2. \A k \in Separate : Place(k) \in Int
    <3>1. Erased \in {0, 1}
      BY DEF Erased
    <3> QED
      BY <1>6, <3>1 DEF Place
  <2>3. Numbered = {k \in Separate : Place(k) > level - 1
                                 \/ (Place(k) = level - 1 /\ k \notin V[level - 1])}
    BY <1>1, <1>6, <2>1, <2>2
  <2>4. Numbering'
    <3>1. Numbered' = {k \in Separate' : Place(k)' > level' \/ (Place(k)' = level' /\ k \notin T1')}
      BY <1>2, <1>5, <2>1, <2>3
    <3>2. level' \in 1 .. Len(V') /\ T1' \subseteq V'[level'] /\ pc' = "number"
      BY <1>1, <2>1
    <3>3. /\ fIndex' = fIndex /\ loop_count' = loop_count /\ ready_loop' = ready_loop
          /\ fForwardLoopDependencies' = fForwardLoopDependencies /\ Numbered' = Numbered
          /\ fBackwardLoopDependencies' = fBackwardLoopDependencies
      BY <1>1, <1>5 DEF numberVars
    <3>4. /\ loop_count >= START_TASK_MAX
          /\ {fIndex[l] : l \in Numbered} = START_TASK_MAX .. loop_count - 1
          /\ \A l, k \in Numbered : fIndex[l] = fIndex[k] => l = k
          /\ \A l \in Numbered : \A f \in fBackwardLoopDependencies[l] :
               f \in Numbered /\ fIndex[f] < fIndex[l]
          /\ \A l \in Loop :
               fForwardLoopDependencies[l] = {k \in Numbered : l \in fBackwardLoopDependencies[k]}
          /\ ToSet(ready_loop)
               = {fIndex[l] : l \in {k \in Numbered : fBackwardLoopDependencies[k] = {}}}
      BY <1>1 DEF GraphInv, Numbering
    <3> QED
      BY <3>1, <3>2, <3>3, <3>4 DEF Numbering
  <2>5. T1' \subseteq Loop /\ level' \in Nat
    BY <1>6, <2>1
  <2>6. GraphTypeOK'
    BY <1>1, <2>1, <2>5 DEF GraphInv, GraphTypeOK, input, numberVars
  <2> QED
    BY <1>2, <1>4, <1>5, <2>4, <2>6 DEF GraphInv
<1>8. CASE ~(level > 1)
  <2>1. level = 1 /\ level' = level /\ T1' = T1 /\ pc' = "done"
    BY <1>1, <1>6, <1>8
  <2>2. Numbering'
    BY <1>1, <1>2, <1>5, <2>1 DEF GraphInv, Numbering, numberVars
  <2>3. GraphTypeOK'
    BY <1>1, <2>1 DEF GraphInv, GraphTypeOK, input, numberVars
  <2> QED
    BY <1>2, <1>4, <1>5, <2>2, <2>3 DEF GraphInv
<1> QED
  BY <1>7, <1>8

-----------------------------------------------------------------------------
\* Grouping, sorting and numbering the loops keep the invariant (processFIR).
THEOREM GraphInvariance == GraphSpec => []GraphInv
<1>1. GraphInit => GraphInv
  BY GraphInitInv
<1>2. GraphInv /\ [GraphNext]_graphVars => GraphInv'
  <2> SUFFICES ASSUME GraphInv, [GraphNext]_graphVars PROVE GraphInv'
    OBVIOUS
  <2>1. CASE ComputeUseCount
    BY <2>1, CountKeeps
  <2>2. CASE GroupSeqLoops
    BY <2>2, GroupKeeps
  <2>3. CASE ResetOrder
    BY <2>3, ResetKeeps
  <2>4. CASE SetLevel
    BY <2>4, SetLevelKeeps
  <2>5. CASE EraseEmptyLevels
    BY <2>5, EraseKeeps
  <2>6. CASE NumberLoop
    BY <2>6, NumberKeeps
  <2>7. CASE NextLevel
    BY <2>7, NextLevelKeeps
  <2>8. CASE UNCHANGED graphVars
    <3>1. /\ UNCHANGED <<input, sortVars, numberVars, fBackwardLoopDependencies, fExtraLoops>>
          /\ UNCHANGED <<fUseCount, calls, pc>>
      BY <2>8 DEF graphVars
    <3>2. Chained' /\ Linked' /\ ChainsKeep(Separate)' /\ Separate' = Separate
      BY <3>1, SameLoops
    <3>3. \A k : Place(k)' = Place(k)
      BY <3>1 DEF Place, Erased, isEmpty, input, sortVars
    <3>4. GraphTypeOK' /\ Given' /\ Counting'
      BY <3>1 DEF GraphInv, GraphTypeOK, Given, Counting, input, sortVars, numberVars
    <3>5. Grouping' /\ Sorting'
      BY <3>1, <3>2 DEF GraphInv, Grouping, Sorting, sortVars
    <3>6. Sorted'
      BY <3>1, <3>2, <3>3 DEF GraphInv, Sorted, sortVars
    <3>7. Numbered' = Numbered
      BY <3>1 DEF Numbered, numberVars
    <3>8. Numbering'
      BY <3>1, <3>2, <3>3, <3>7 DEF GraphInv, Numbering, sortVars, numberVars
    <3> QED
      BY <3>2, <3>4, <3>5, <3>6, <3>8 DEF GraphInv
  <2> QED
    BY <2>1, <2>2, <2>3, <2>4, <2>5, <2>6, <2>7, <2>8 DEF GraphNext, Process, Done
<1> QED
  BY <1>1, <1>2, PTL DEF GraphSpec

\* Where the loops are when the levels are sorted.
LEMMA Places ==
  ASSUME GraphInv, pc \in {"number", "done"}
  PROVE  /\ Tasks \subseteq Separate /\ Separate \subseteq Loop
         /\ \A l \in Loop : Place(l) = fOrder[l] + 1 - Erased /\ fOrder[l] \in Int
         /\ \A l \in Separate : l \in Tasks <=> Place(l) >= 1
         /\ \A l \in Separate : l # Root \/ ~isEmpty(Root) => l \in Tasks
<1>1. /\ V \in Seq(SUBSET Loop) /\ fOrder \in [Loop -> Nat \cup {-1}] /\ Separate \subseteq Loop
      /\ DOMAIN V = 1 .. Len(V) /\ Len(V) \in Nat
  BY DEF GraphInv, GraphTypeOK, Separate
<1>2. /\ \A k \in 1 .. Len(V) : V[k] = {l \in Loop : Place(l) = k}
      /\ \A l \in Loop : l \in Separate <=> fOrder[l] > -1
      /\ \A l \in Separate : Place(l) <= Len(V) /\ (fOrder[l] = 0 <=> l = Root)
  BY DEF GraphInv, Sorted
<1>3. Erased \in {0, 1} /\ (Erased = 1 <=> isEmpty(Root))
  BY DEF Erased
<1>4. \A l \in Loop : Place(l) = fOrder[l] + 1 - Erased /\ fOrder[l] \in Int
  BY <1>1 DEF Place
<1>5. ASSUME NEW l \in Tasks PROVE l \in Separate /\ Place(l) >= 1
  <2>1. PICK k \in 1 .. Len(V) : l \in V[k]
    BY <1>1 DEF Tasks
  <2>2. l \in Loop /\ Place(l) = k
    BY <1>2, <2>1
  <2>3. fOrder[l] > -1
    BY <1>1, <1>3, <1>4, <2>2
  <2> QED
    BY <1>1, <1>2, <2>2, <2>3
<1>6. ASSUME NEW l \in Separate, Place(l) >= 1 PROVE l \in Tasks
  <2>1. Place(l) \in 1 .. Len(V)
    BY <1>1, <1>2, <1>3, <1>4, <1>6
  <2>2. l \in V[Place(l)]
    BY <1>1, <1>2, <2>1
  <2> QED
    BY <1>1, <2>1, <2>2 DEF Tasks
<1>7. ASSUME NEW l \in Separate, l # Root \/ ~isEmpty(Root) PROVE Place(l) >= 1
  <2>1. fOrder[l] > -1 /\ (fOrder[l] = 0 <=> l = Root) /\ fOrder[l] \in Int
    BY <1>1, <1>2, <1>4
  <2>2. Place(l) = fOrder[l] + 1 - Erased
    BY <1>1, <1>4
  <2>3. CASE l # Root
    BY <1>3, <2>1, <2>2, <2>3
  <2>4. CASE ~isEmpty(Root)
    BY <1>3, <2>1, <2>2, <2>4
  <2> QED
    BY <1>7, <2>3, <2>4
<1> QED
  BY <1>1, <1>4, <1>5, <1>6, <1>7

\* Loops become tasks without losing or doubling one, and without running one
\* before what it reads from, whatever the graph (groupSeqLoops, sortGraph).
THEOREM LoopsInOrderHolds == GraphSpec => []LoopsInOrder
<1>0. GraphSpec => []GraphInv
  BY GraphInvariance
<1> SUFFICES GraphInv => LoopsInOrder
  BY <1>0, PTL
<1> SUFFICES ASSUME GraphInv, pc \in {"number", "done"} PROVE LoopsInOrder
  BY DEF LoopsInOrder, EachLoopOnce, DependenciesKept
<1>1. /\ Tasks \subseteq Separate /\ Separate \subseteq Loop
      /\ \A l \in Separate : l # Root \/ ~isEmpty(Root) => l \in Tasks
  BY Places
<1>2. \A k \in DOMAIN V : V[k] = {l \in Loop : Place(l) = k}
  <2>1. DOMAIN V = 1 .. Len(V)
    BY DEF GraphInv, GraphTypeOK
  <2> QED
    BY <2>1 DEF GraphInv, Sorted
<1>3. \A j, k \in DOMAIN V : j # k => V[j] \cap V[k] = {}
  BY <1>2
<1>4. \A k \in Loop : /\ Len(fExtraLoops[k]) \in Nat
                      /\ DOMAIN fExtraLoops[k] = 1 .. Len(fExtraLoops[k])
                      /\ DOMAIN Chain(k) = 1 .. Len(fExtraLoops[k]) + 1
                      /\ \A n \in DOMAIN fExtraLoops[k] : Chain(k)[n] = fExtraLoops[k][n]
                      /\ Chain(k)[Len(fExtraLoops[k]) + 1] = k
  <2> TAKE k \in Loop
  <2>1. fExtraLoops[k] \in Seq(Loop)
    BY DEF GraphInv, GraphTypeOK
  <2> QED
    BY <2>1, OneMore DEF Chain
<1>5. ASSUME NEW k \in Loop, NEW f, NEW n \in At(k, f)
      PROVE  \/ n = Len(fExtraLoops[k]) + 1 /\ f = k
             \/ n \in DOMAIN fExtraLoops[k] /\ fExtraLoops[k][n] = f
  <2>1. n \in 1 .. Len(fExtraLoops[k]) + 1 /\ Chain(k)[n] = f
    BY <1>4 DEF At
  <2>2. n = Len(fExtraLoops[k]) + 1 \/ n \in 1 .. Len(fExtraLoops[k])
    BY <1>4, <2>1
  <2> QED
    BY <1>4, <2>1, <2>2
<1>6. \A k \in Loop : \A n \in DOMAIN fExtraLoops[k] : fExtraLoops[k][n] \notin Separate
  BY DEF Separate, ToSet
<1>7. ASSUME NEW f \in hasCode
      PROVE  \E l \in Tasks : /\ \E n \in DOMAIN Chain(l) : At(l, f) = {n}
                              /\ \A m \in Tasks \ {l} : At(m, f) = {}
  <2>1. f \in Loop
    BY DEF GraphInv, GraphTypeOK
  <2>2. CASE f \in Separate
    <3>1. f \in Tasks
      BY <1>1, <2>2 DEF isEmpty
    <3> DEFINE n == Len(fExtraLoops[f]) + 1
    <3>2. n \in DOMAIN Chain(f) /\ Chain(f)[n] = f
      BY <1>4, <2>1
    <3>3. \A i \in At(f, f) : i = n
      BY <1>5, <1>6, <2>1, <2>2
    <3>4. n \in At(f, f)
      BY <3>2 DEF At
    <3>5. \A m \in Tasks \ {f} : \A i \in At(m, f) : FALSE
      BY <1>1, <1>5, <1>6, <2>2
    <3> QED
      BY <3>1, <3>2, <3>3, <3>4, <3>5
  <2>3. CASE f \notin Separate
    <3>1. PICK l \in Loop : \E n \in DOMAIN fExtraLoops[l] : fExtraLoops[l][n] = f
      BY <2>1, <2>3 DEF Separate, ToSet
    <3>2. PICK n \in DOMAIN fExtraLoops[l] : fExtraLoops[l][n] = f
      BY <3>1
    <3>3. l \in Separate /\ fExtraLoops[l] # << >>
      BY <3>2 DEF GraphInv, Chained
    <3>4. l \in Tasks
      BY <1>1, <3>3 DEF isEmpty
    <3>5. n \in DOMAIN Chain(l) /\ n \in At(l, f)
      BY <1>4, <3>2 DEF At
    <3>6. \A k, m \in Loop : \A i \in DOMAIN fExtraLoops[k], j \in DOMAIN fExtraLoops[m] :
            fExtraLoops[k][i] = fExtraLoops[m][j] => k = m /\ i = j
      BY DEF GraphInv, Chained
    <3>7. ASSUME NEW m \in Tasks, NEW i \in At(m, f) PROVE m = l /\ i = n
      <4>1. m \in Separate /\ m \in Loop /\ f # m
        BY <1>1, <2>3
      <4>2. i \in DOMAIN fExtraLoops[m] /\ fExtraLoops[m][i] = fExtraLoops[l][n]
        BY <1>5, <3>2, <3>7, <4>1
      <4> QED
        BY <3>2, <3>6, <4>1, <4>2
    <3> QED
      BY <3>4, <3>5, <3>7
  <2> QED
    BY <2>2, <2>3
<1>8. ChainsKeep(Tasks)
  BY <1>1 DEF GraphInv, ChainsKeep
<1> QED
  BY <1>3, <1>7, <1>8 DEF LoopsInOrder, EachLoopOnce, DependenciesKept

\* The scheduler gets a graph it can run: numbers without a hole, ready tasks, the
\* last stage, outputs, and no task before one it waits for (computeForwardDAG).
THEOREM DagIsSchedulableHolds == GraphSpec => []DagIsSchedulable
<1>0. GraphSpec => []GraphInv
  BY GraphInvariance
<1> SUFFICES GraphInv => DagIsSchedulable
  BY <1>0, PTL
<1> SUFFICES ASSUME GraphInv, pc = "done" PROVE DagIsSchedulable
  BY DEF DagIsSchedulable
<1>1. /\ Tasks \subseteq Separate /\ Separate \subseteq Loop
      /\ \A l \in Loop : Place(l) = fOrder[l] + 1 - Erased /\ fOrder[l] \in Int
      /\ \A l \in Separate : l \in Tasks <=> Place(l) >= 1
      /\ Erased \in {0, 1}
  BY Places DEF Erased
<1>2. /\ Len(V) > 0 /\ \A k \in 1 .. Len(V) : V[k] = {l \in Loop : Place(l) = k}
      /\ \A l \in Separate : fOrder[l] = 0 <=> l = Root
      /\ \A l \in Separate : \A f \in fBackwardLoopDependencies[l] : fOrder[f] > fOrder[l]
      /\ \A f \in Separate \ {Root} : \E l \in Separate : f \in fBackwardLoopDependencies[l]
                                                  /\ fOrder[l] >= fOrder[f] - 1
  BY DEF GraphInv, Sorted
<1>3. /\ level = 1 /\ T1 = {}
      /\ Numbered = {l \in Separate : Place(l) > level \/ (Place(l) = level /\ l \notin T1)}
      /\ {fIndex[l] : l \in Numbered} = START_TASK_MAX .. loop_count - 1
      /\ \A l, k \in Numbered : fIndex[l] = fIndex[k] => l = k
      /\ \A l \in Numbered : \A f \in fBackwardLoopDependencies[l] :
           f \in Numbered /\ fIndex[f] < fIndex[l]
      /\ \A l \in Loop :
           fForwardLoopDependencies[l] = {k \in Numbered : l \in fBackwardLoopDependencies[k]}
      /\ ToSet(ready_loop) = {fIndex[l] : l \in {k \in Numbered : fBackwardLoopDependencies[k] = {}}}
  BY DEF GraphInv, Numbering
<1>4. Numbered = Tasks
  <2>1. \A l \in Separate : Place(l) >= 1 <=> (Place(l) > 1 \/ Place(l) = 1)
    BY <1>1
  <2> QED
    BY <1>1, <1>3, <2>1
<1>5. V[1] = {l \in Loop : Place(l) = 1} /\ \A l \in Loop : Place(l) = 1 => l \in Tasks
  <2>1. 1 \in 1 .. Len(V) /\ 1 \in DOMAIN V
    BY <1>2 DEF GraphInv, GraphTypeOK
  <2>2. V[1] = {l \in Loop : Place(l) = 1}
    BY <1>2, <2>1
  <2> QED
    BY <2>1, <2>2 DEF Tasks
<1>6. ASSUME NEW l \in Tasks PROVE Place(l) = 1 <=> fForwardLoopDependencies[l] = {}
  <2>1. l \in Separate /\ l \in Loop /\ Place(l) >= 1
    BY <1>1
  <2>2. ASSUME Place(l) = 1, NEW k \in fForwardLoopDependencies[l] PROVE FALSE
    <3>1. k \in Tasks /\ l \in fBackwardLoopDependencies[k]
      BY <1>3, <1>4, <2>1, <2>2
    <3>2. k \in Separate /\ k \in Loop /\ Place(k) >= 1 /\ fOrder[l] > fOrder[k]
      BY <1>1, <1>2, <3>1
    <3> QED
      BY <1>1, <2>1, <2>2, <3>2
  <2>3. ASSUME fForwardLoopDependencies[l] = {} PROVE Place(l) = 1
    <3>1. CASE l = Root
      <4>1. Place(l) = 1 - Erased
        BY <1>1, <1>2, <2>1, <3>1
      <4> QED
        BY <1>1, <2>1, <4>1
    <3>2. CASE l # Root
      <4>1. PICK k \in Separate : l \in fBackwardLoopDependencies[k] /\ fOrder[k] >= fOrder[l] - 1
        BY <1>2, <2>1, <3>2
      <4>2. k \notin Tasks
        BY <1>3, <1>4, <2>1, <2>3, <4>1
      <4>3. ~(Place(k) >= 1) /\ k \in Loop
        BY <1>1, <4>2
      <4> QED
        BY <1>1, <2>1, <4>1, <4>3
    <3> QED
      BY <3>1, <3>2
  <2> QED
    BY <2>2, <2>3
<1>7. V[1] = {l \in Tasks : fForwardLoopDependencies[l] = {}}
  BY <1>1, <1>5, <1>6
<1>8. \A l \in Tasks :
         /\ fForwardLoopDependencies[l] = {k \in Tasks : l \in fBackwardLoopDependencies[k]}
         /\ fBackwardLoopDependencies[l] \subseteq Tasks
         /\ \A f \in fBackwardLoopDependencies[l] :
              fOrder[f] > fOrder[l] /\ fIndex[f] < fIndex[l]
  BY <1>1, <1>2, <1>3, <1>4
<1> QED
  BY <1>3, <1>4, <1>7, <1>8 DEF DagIsSchedulable
=============================================================================
