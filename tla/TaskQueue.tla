----------------------------- MODULE TaskQueue -----------------------------
(***************************************************************************)
(* The work stealing queues (WSQ) of architecture/scheduler.cpp: the array *)
(* fTaskQueueList, one TaskQueue per thread, and the operations threads    *)
(* run on it without a lock.                                               *)
(*                                                                         *)
(* A queue is an array fTaskList and a 32 bit word fCounter holding two    *)
(* shorts, fHead and fTail; the tasks in the queue are those of the slots  *)
(* fTail .. fHead - 1.  A step of this module is one access to shared      *)
(* memory:                                                                 *)
(*                                                                         *)
(*   PushHead   write the slot at fHead; load fHead; store fHead + 1       *)
(*              (IncHead is a plain ++ on the 16 bit half);                *)
(*   PopHead    read the word; CAS the word with fHead - 1; load the slot; *)
(*   PopTail    read the word; CAS the word with fTail + 1; load the slot. *)
(*                                                                         *)
(* The register op[t] holds the locals of the operation thread t is in.    *)
(* The operations are actions without a client: the modules that extend    *)
(* this one say which thread calls what, and take the result of a pop.     *)
(***************************************************************************)
EXTENDS Integers

CONSTANTS
  Threads,      \* thread numbers, and the queues: thread t owns queue t
  Task,         \* task numbers
  QueueSize     \* task_queue_size, the length of every fTaskList

WORK_STEALING_INDEX == 0     \* "no task": what a pop of an empty queue returns
NoSlot == -1                 \* the value of a slot never written since InitOne

Slots == 0 .. QueueSize - 1

ASSUME TaskQueueAssumption ==
  /\ QueueSize \in Nat \ {0}
  /\ WORK_STEALING_INDEX \notin Task
  /\ NoSlot \notin Task

VARIABLES
  fTaskList,    \* fTaskList[q][i] : slot i of queue q
  fHead, fTail, \* the two halves of fCounter of queue q
  op            \* the operation each thread is in

queueVars == <<fTaskList, fHead, fTail, op>>

HeadEnd == "head"
TailEnd == "tail"

(***************************************************************************)
(* op[t].at is the next access of thread t, op[t].q its queue, op[t].end   *)
(* the end it pops from, op[t].head and op[t].tail the word it read        *)
(* (old_val), op[t].item the task it pushes.                               *)
(***************************************************************************)
Op == [at   : {"idle", "incLoad", "incStore", "cas", "retry", "load"},
       q    : Threads,
       end  : {HeadEnd, TailEnd},
       head : Nat,
       tail : Nat,
       item : Task \cup {WORK_STEALING_INDEX}]

IdleOp(t) == [at |-> "idle", q |-> t, end |-> HeadEnd,
              head |-> 0, tail |-> 0, item |-> WORK_STEALING_INDEX]

PushOp(at, q, head, item) == [at |-> at, q |-> q, end |-> HeadEnd,
                              head |-> head, tail |-> 0, item |-> item]

PopOp(at, q, end, head, tail) == [at |-> at, q |-> q, end |-> end,
                                  head |-> head, tail |-> tail,
                                  item |-> WORK_STEALING_INDEX]

QueueTypeOK ==
  /\ fTaskList \in [Threads -> [Slots -> Task \cup {NoSlot}]]
  /\ fHead \in [Threads -> Nat]
  /\ fTail \in [Threads -> Nat]
  /\ op \in [Threads -> Op]

\* TaskQueue::Init of every queue, after AtomicCounter().
QueueInit ==
  /\ fTaskList = [q \in Threads |-> [i \in Slots |-> NoSlot]]
  /\ fHead = [q \in Threads |-> 0]
  /\ fTail = [q \in Threads |-> 0]
  /\ op = [t \in Threads |-> IdleOp(t)]

\* The slots that hold the tasks of queue q.
Live(q) == fTail[q] .. fHead[q] - 1

-----------------------------------------------------------------------------

(***************************************************************************)
(* InitOne: every slot back to -1, then the word to 0.                     *)
(***************************************************************************)
InitOne(q) ==
  /\ fTaskList' = [fTaskList EXCEPT ![q] = [i \in Slots |-> NoSlot]]
  /\ fHead' = [fHead EXCEPT ![q] = 0]
  /\ fTail' = [fTail EXCEPT ![q] = 0]
  /\ UNCHANGED op

(***************************************************************************)
(* PushHead(item).                                                         *)
(***************************************************************************)
PushHead(t, q, item) ==
  /\ op[t].at = "idle"
  /\ fTaskList' = [fTaskList EXCEPT ![q][fHead[q]] = item]
  /\ op' = [op EXCEPT ![t] = PushOp("incLoad", q, 0, item)]
  /\ UNCHANGED <<fHead, fTail>>

IncHeadLoad(t) ==
  /\ op[t].at = "incLoad"
  /\ op' = [op EXCEPT ![t] = PushOp("incStore", op[t].q, fHead[op[t].q], op[t].item)]
  /\ UNCHANGED <<fTaskList, fHead, fTail>>

IncHeadStore(t) ==
  /\ op[t].at = "incStore"
  /\ fHead' = [fHead EXCEPT ![op[t].q] = op[t].head + 1]
  /\ op' = [op EXCEPT ![t] = IdleOp(t)]
  /\ UNCHANGED <<fTaskList, fTail>>

(***************************************************************************)
(* PopHead (end = HeadEnd) and PopTail (end = TailEnd).  Both read the     *)
(* word at the top of their do-while, first when called and again after a  *)
(* CAS that failed, and return WORK_STEALING_INDEX when both halves are    *)
(* equal.                                                                  *)
(***************************************************************************)
AtPopRead(t, q, end) ==
  \/ op[t].at = "idle"
  \/ op[t].at = "retry" /\ op[t].q = q /\ op[t].end = end

PopEmpty(t, q, end) ==
  /\ AtPopRead(t, q, end)
  /\ fHead[q] = fTail[q]
  /\ op' = [op EXCEPT ![t] = IdleOp(t)]
  /\ UNCHANGED <<fTaskList, fHead, fTail>>

PopRead(t, q, end) ==
  /\ AtPopRead(t, q, end)
  /\ fHead[q] # fTail[q]
  /\ op' = [op EXCEPT ![t] = PopOp("cas", q, end, fHead[q], fTail[q])]
  /\ UNCHANGED <<fTaskList, fHead, fTail>>

\* Mutant: the CAS compares only the half it changes.
WordIsOldHalf(t) == IF op[t].end = HeadEnd THEN fHead[op[t].q] = op[t].head
                                           ELSE fTail[op[t].q] = op[t].tail

\* CAS1 compares and writes the whole word.
WordIsOld(t) == fHead[op[t].q] = op[t].head /\ fTail[op[t].q] = op[t].tail

PopCAS(t) ==
  /\ op[t].at = "cas"
  /\ WordIsOld(t)
  /\ \/ /\ op[t].end = HeadEnd
        /\ fHead' = [fHead EXCEPT ![op[t].q] = op[t].head - 1]
        /\ UNCHANGED fTail
     \/ /\ op[t].end = TailEnd
        /\ fTail' = [fTail EXCEPT ![op[t].q] = op[t].tail + 1]
        /\ UNCHANGED fHead
  /\ op' = [op EXCEPT ![t] = PopOp("load", op[t].q, op[t].end, op[t].head, op[t].tail)]
  /\ UNCHANGED fTaskList

\* Mutant: a failed CAS does not go round the loop again.
PopCASFailsLoads(t) ==
  /\ op[t].at = "cas"
  /\ ~ WordIsOld(t)
  /\ op' = [op EXCEPT ![t] = PopOp("load", op[t].q, op[t].end, op[t].head, op[t].tail)]
  /\ UNCHANGED <<fTaskList, fHead, fTail>>

PopCASFails(t) ==
  /\ op[t].at = "cas"
  /\ ~ WordIsOld(t)
  /\ op' = [op EXCEPT ![t] = PopOp("retry", op[t].q, op[t].end, 0, 0)]
  /\ UNCHANGED <<fTaskList, fHead, fTail>>

\* Mutant: PopHead loads the slot at the head instead of the one below it.
PoppedSlotAtHead(t) == IF op[t].end = HeadEnd THEN op[t].head ELSE op[t].tail

\* fTaskList[Head(old_val) - 1] or fTaskList[Tail(old_val)].
PoppedSlot(t) == IF op[t].end = HeadEnd THEN op[t].head - 1 ELSE op[t].tail
PoppedTask(t) == fTaskList[op[t].q][PoppedSlot(t)]

PopLoad(t) ==
  /\ op[t].at = "load"
  /\ op' = [op EXCEPT ![t] = IdleOp(t)]
  /\ UNCHANGED <<fTaskList, fHead, fTail>>

\* The steps of an operation that need nothing from the client.
QueueStep(t) == IncHeadLoad(t) \/ IncHeadStore(t) \/ PopCAS(t) \/ PopCASFails(t)
=============================================================================
