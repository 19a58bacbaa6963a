-------------------------------- MODULE WSQ --------------------------------
(***************************************************************************)
(* The queues of TaskQueue with the clients the scheduler gives them.  A   *)
(* thread pushes and PopHeads on its own queue and PopTails on any queue.  *)
(* A task is free until it is pushed, and again once the thread that       *)
(* popped it is through with it.                                           *)
(*                                                                         *)
(* The code does not check what the guards marked "client" state: the      *)
(* generated code must keep to them, and WorkStealing checks that it does. *)
(***************************************************************************)
EXTENDS TaskQueue

VARIABLES
  free,    \* tasks no thread and no queue has
  held     \* held[t] : the task thread t popped, or WORK_STEALING_INDEX

vars == <<queueVars, free, held>>

Init ==
  /\ QueueInit
  /\ free = Task
  /\ held = [t \in Threads |-> WORK_STEALING_INDEX]

Idle(t) == op[t].at = "idle" /\ held[t] = WORK_STEALING_INDEX

Push(t) ==
  \E k \in free :
    /\ Idle(t)
    /\ fHead[t] \in Slots                                \* client
    /\ PushHead(t, t, k)
    /\ free' = free \ {k}
    /\ UNCHANGED held

CallPopHead(t) ==
  /\ held[t] = WORK_STEALING_INDEX
  /\ PopEmpty(t, t, HeadEnd) \/ PopRead(t, t, HeadEnd)
  /\ UNCHANGED <<free, held>>

CallPopTail(t) ==
  /\ held[t] = WORK_STEALING_INDEX
  /\ \E q \in Threads : PopEmpty(t, q, TailEnd) \/ PopRead(t, q, TailEnd)
  /\ UNCHANGED <<free, held>>

Step(t) == QueueStep(t) /\ UNCHANGED <<free, held>>

Take(t) ==
  /\ PopLoad(t)
  /\ held' = [held EXCEPT ![t] = PoppedTask(t)]
  /\ UNCHANGED free

Release(t) ==
  /\ held[t] # WORK_STEALING_INDEX
  /\ free' = free \cup {held[t]}
  /\ held' = [held EXCEPT ![t] = WORK_STEALING_INDEX]
  /\ UNCHANGED queueVars

\* A queue is reset when every task of the cycle has run.  (What a call of no sample
\* has dealt out is dropped by a reset too; the scheduler has no other client then, see
\* ResetIsSafe of WorkStealing.)
Reset ==
  \E q \in Threads :
    /\ Live(q) = {}                                      \* client
    /\ \A t \in Threads :
         op[t].at \in {"incLoad", "incStore", "load"} => op[t].q # q   \* client
    /\ InitOne(q)
    /\ UNCHANGED <<free, held>>

Next ==
  \/ Reset
  \/ \E t \in Threads :
       Push(t) \/ CallPopHead(t) \/ CallPopTail(t) \/ Step(t) \/ Take(t) \/ Release(t)

Spec == Init /\ [][Next]_vars

-----------------------------------------------------------------------------
TypeOK ==
  /\ QueueTypeOK
  /\ free \subseteq Task
  /\ held \in [Threads -> Task \cup {WORK_STEALING_INDEX}]

(***************************************************************************)
(* Where a task is: with a thread that popped it, is pushing it or has     *)
(* moved the word past it, or in a live slot of a queue.                   *)
(***************************************************************************)
Carried(t) ==
  IF op[t].at \in {"incLoad", "incStore"} THEN op[t].item
  ELSE IF op[t].at = "load" THEN PoppedTask(t)
  ELSE held[t]

InSlot(q, i, k) == i \in Live(q) /\ fTaskList[q][i] = k

\* No operation loses a task: it is free, with a thread or in a queue.
NoTaskLost ==
  \A k \in Task :
    \/ k \in free
    \/ \E t \in Threads : Carried(t) = k
    \/ \E q \in Threads, i \in Slots : InSlot(q, i, k)

\* No operation duplicates a task: it is in one place only, so that no two
\* threads ever get it.
NoTaskDuplicated ==
  \A k \in Task :
    /\ k \in free => /\ \A t \in Threads : Carried(t) # k
                     /\ \A q \in Threads, i \in Slots : ~ InSlot(q, i, k)
    /\ \A t, u \in Threads : Carried(t) = k /\ Carried(u) = k => t = u
    /\ \A t, q \in Threads, i \in Slots : Carried(t) = k => ~ InSlot(q, i, k)
    /\ \A q, r \in Threads, i, j \in Slots :
         InSlot(q, i, k) /\ InSlot(r, j, k) => q = r /\ i = j

(***************************************************************************)
(* What makes them inductive.                                              *)
(***************************************************************************)
\* The word: the tail never overtakes the head, the head never passes the end
\* of the array, and every live slot holds a task.
WordInv ==
  \A q \in Threads :
    /\ fTail[q] <= fHead[q]
    /\ fHead[q] <= QueueSize
    /\ \A i \in Live(q) : fTaskList[q][i] \in Task

\* Only the owner pushes, so the slot it wrote is still the one at the head
\* when the head moves past it.
PushInv ==
  \A t \in Threads : op[t].at \in {"incLoad", "incStore"} =>
    /\ op[t].q = t
    /\ fHead[t] \in Slots
    /\ op[t].item \in Task
    /\ fTaskList[t][fHead[t]] = op[t].item
    /\ op[t].at = "incStore" => op[t].head = fHead[t]

\* A slot whose task was popped is outside the live ones, and below the head
\* unless its popper owns the queue: no push overwrites it before the load.
PopInv ==
  \A t \in Threads : op[t].at \in {"cas", "retry", "load"} =>
    /\ op[t].end = HeadEnd => op[t].q = t
    /\ op[t].at # "retry" => op[t].tail < op[t].head
    /\ op[t].at = "load" =>
         /\ op[t].end = HeadEnd => fHead[t] = op[t].head - 1
         /\ op[t].end = TailEnd => op[t].tail < fTail[op[t].q]
         /\ PoppedSlot(t) \in Slots
         /\ PoppedTask(t) \in Task

\* A thread inside an operation holds no task.
HeldInv == \A t \in Threads : op[t].at # "idle" => held[t] = WORK_STEALING_INDEX

Inv == TypeOK /\ WordInv /\ PushInv /\ PopInv /\ HeldInv /\ NoTaskLost /\ NoTaskDuplicated

-----------------------------------------------------------------------------
(***************************************************************************)
(* The queues implement the deques they stand for: the push takes effect   *)
(* when the head is stored, a pop when its CAS succeeds.                   *)
(***************************************************************************)
Window(list, lo, hi) == [i \in 1 .. hi - lo |-> list[lo + i - 1]]
Contents(q) == Window(fTaskList[q], fTail[q], fHead[q])

D == INSTANCE Deque WITH
       None <- WORK_STEALING_INDEX,
       deque <- [q \in Threads |-> Contents(q)],
       hand <- [t \in Threads |-> Carried(t)]

ImplementsDeque == D!Spec
=============================================================================
