-------------------------- MODULE WorkStealingInv --------------------------
(***************************************************************************)
(* The inductive invariant of WorkStealing: why no vector is started       *)
(* before the one before it is over, and why no task is run twice, too     *)
(* early or by two threads.                                                *)
(*                                                                         *)
(* A vector is open from the reset of the last queue to the last task.     *)
(* While it is open a task that may be run (it is released) is with one    *)
(* thread, or in one queue, or has ended; while it is closed nobody has a  *)
(* task, and only the thread that closed it touches the queues and the     *)
(* counters.                                                               *)
(***************************************************************************)
EXTENDS WorkStealing

(***************************************************************************)
(* The tasks of the current vector.                                        *)
(***************************************************************************)
Preds(k) == IF k = LAST_TASK_INDEX THEN LastStage ELSE Back[k]
Ended(k) == k \in Task /\ done[k] > fIndex

\* The inputs of k that have not ended, and the threads that still have to
\* activate k.
Waiting(k) == {p \in Preds(k) : ~ Ended(p)}
Activators(k) == {t \in Threads : k \in todo[t]}

\* All inputs of k have ended and have told it.
Released(k) == Waiting(k) = {} /\ (Inputs(k) > 1 => Activators(k) = {})

(***************************************************************************)
(* The phases of a call.                                                   *)
(***************************************************************************)
\* compute prepares its first vector; nobody else is awake.
Dealing == pc[MASTER_THREAD] = "push" /\ tasknum[MASTER_THREAD] = WORK_STEALING_INDEX
Setup ==
  \/ pc[MASTER_THREAD] = "index"
  \/ /\ pc[MASTER_THREAD] \in {"init", "reset", "push"}
     /\ tasknum[MASTER_THREAD] = WORK_STEALING_INDEX

\* Thread t is between the end of a vector and the start of the next one.
Closing(t) == pc[t] \in {"index", "next", "init", "reset"}

Open == (\A t \in Threads : ~ Closing(t)) /\ (fIndex < fFullcount \/ Dealing)

InCall == pc[MASTER_THREAD] \notin {"outside", "stop", "stopped"}
Awake(t) == pc[t] # "wait" \/ fSemaphore[t] > 0

\* The queues of the current call.
Used == 0 .. fDynamicNumThreads - 1

(***************************************************************************)
(* Where thread t can have task k.                                         *)
(***************************************************************************)
AtHand(t, k) ==
  /\ tasknum[t] = k
  /\ pc[t] \in {"loop", "run", "last"} \/ (pc[t] = "activate" /\ keep[t] = WORK_STEALING_INDEX)
AtKeep(t, k) == keep[t] = k
AtTodo(t, k) == k \in todo[t] /\ Inputs(k) = 1
AtJobs(t, k) == \E j \in DOMAIN jobs[t] : jobs[t][j][2] = k
AtPush(t, k) == op[t].at \in {"incLoad", "incStore"} /\ op[t].item = k
AtLoad(t, k) == op[t].at = "load" /\ PoppedTask(t) = k

ToPush(t, k) == AtTodo(t, k) \/ AtJobs(t, k) \/ AtPush(t, k)
Has(t, k) == AtHand(t, k) \/ AtKeep(t, k) \/ AtLoad(t, k) \/ ToPush(t, k)

-----------------------------------------------------------------------------
(***************************************************************************)
(* What the locals of one thread say at each place of its program.         *)
(***************************************************************************)
TaskLocal(t) ==
  /\ pc[t] \in {"index", "signal", "outside", "stop"} => t = MASTER_THREAD
  /\ pc[t] = "wait" => t # MASTER_THREAD
  /\ pc[t] \in {"wait", "outside", "index", "signal", "stop", "steal"} =>
       tasknum[t] = WORK_STEALING_INDEX
  /\ pc[t] \in {"last", "next"} => tasknum[t] = LAST_TASK_INDEX
  /\ pc[t] \in {"init", "reset", "push"} =>
       \/ tasknum[t] = LAST_TASK_INDEX
       \/ t = MASTER_THREAD /\ tasknum[t] = WORK_STEALING_INDEX
  /\ pc[t] = "run" => tasknum[t] \in Task

OutputLocal(t) ==
  /\ keep[t] # WORK_STEALING_INDEX => pc[t] = "activate" /\ Inputs(keep[t]) = 1
  /\ todo[t] # {} => pc[t] \in {"one", "activate"}
  /\ pc[t] = "one" => \E c \in Counted : Inputs(c) > 1 /\ todo[t] = {c}
  /\ pc[t] = "activate" =>
       /\ todo[t] \subseteq Task
       /\ \A c \in todo[t] : Inputs(c) # 0
       /\ keep[t] = WORK_STEALING_INDEX =>
            \/ tasknum[t] = WORK_STEALING_INDEX
            \/ tasknum[t] \in Task /\ Inputs(tasknum[t]) > 1

JobsLocal(t) ==
  /\ jobs[t] # << >> => pc[t] \in {"push", "activate"}
  /\ pc[t] = "activate" => /\ Len(jobs[t]) <= 1
                           /\ \A j \in DOMAIN jobs[t] : /\ jobs[t][j][1] = t
                                                        /\ Inputs(jobs[t][j][2]) > 1
  /\ \A j \in DOMAIN jobs[t] : /\ jobs[t][j][1] \in Used
                               /\ Dealing \/ jobs[t][j][1] = t
  /\ \A j, l \in DOMAIN jobs[t] : jobs[t][j][2] = jobs[t][l][2] => j = l

OpLocal(t) ==
  /\ op[t].at \in {"incLoad", "incStore"} => pc[t] \in {"push", "activate"}
  /\ op[t].at \in {"cas", "retry", "load"} => pc[t] \in {"steal", "pop", "stopped"}
  /\ pc[t] = "steal" /\ op[t].at # "idle" => op[t].end = TailEnd /\ op[t].q = i[t]
  /\ pc[t] = "pop" /\ op[t].at # "idle" => op[t].end = HeadEnd /\ op[t].q = t
  /\ op[t].at = "cas" => op[t].tail < op[t].head

LoopLocal(t) ==
  /\ pc[t] \notin {"reset", "steal", "signal", "stop", "stopped"} => i[t] = 0
  /\ pc[t] \in {"reset", "steal"} => i[t] < num[t]
  /\ pc[t] = "reset" => num[t] = fDynamicNumThreads
  /\ pc[t] = "steal" /\ fIndex < fFullcount => num[t] = fDynamicNumThreads
  /\ pc[t] = "stop" => i[t] >= 1

\* A task that a thread has is in one of its places.
Apart(t) ==
  \A k \in Counted :
    /\ AtPush(t, k) => ~ (AtHand(t, k) \/ AtKeep(t, k) \/ AtTodo(t, k) \/ AtJobs(t, k))
    /\ AtJobs(t, k) => ~ (AtHand(t, k) \/ AtKeep(t, k) \/ AtTodo(t, k))
    /\ AtTodo(t, k) => ~ (AtHand(t, k) \/ AtKeep(t, k))

Locals ==
  \A t \in Threads :
    TaskLocal(t) /\ OutputLocal(t) /\ JobsLocal(t) /\ OpLocal(t) /\ LoopLocal(t) /\ Apart(t)

(***************************************************************************)
(* The threads of the pool: who is awake when.                             *)
(***************************************************************************)
Pool ==
  /\ Setup => \A t \in Workers : pc[t] = "wait" /\ fSemaphore[t] = 0
  /\ InCall => \A t \in Workers : Awake(t) => t < fDynamicNumThreads
  /\ Setup /\ pc[MASTER_THREAD] # "index" => fIndex = 0
  /\ ~ InCall => fIndex >= fFullcount
  /\ \A t \in Workers : pc[t] = "stopped" => pc[MASTER_THREAD] \in {"stop", "stopped"}
  /\ \A t \in Threads : pc[t] \in {"init", "reset"} /\ tasknum[t] = LAST_TASK_INDEX =>
       fIndex < fFullcount
  /\ \A t, u \in Threads : Closing(t) /\ Closing(u) => t = u
  /\ ~ fDynAdapt => fDynamicNumThreads = NumThreads

-----------------------------------------------------------------------------
(***************************************************************************)
(* While a vector is open.                                                 *)
(***************************************************************************)
\* A task has rendered the vectors before, or this one too.
DoneInv ==
  Open => \A k \in Task : done[k] \in {fIndex, Min(fIndex + VecSize, fFullcount)}

\* The counter of a task is the number of activations to come.
CounterInv ==
  Open => \A k \in Counted :
    Inputs(k) > 1 => fTaskGraph[k] = Cardinality(Waiting(k)) + Cardinality(Activators(k))

\* Only a released task is run, and nobody has a task that has ended.
ReleaseInv ==
  Open => /\ \A k \in Task : Ended(k) => Released(k)
          /\ \A t \in Threads, k \in Counted : Has(t, k) => Released(k) /\ ~ Ended(k)

\* No two threads have the same task.
OwnerInv == \A t, u \in Threads, k \in Counted : Has(t, k) /\ Has(u, k) => t = u

\* Below its head a queue holds different tasks, that nobody will push again.
SlotInv ==
  Open => \A q \in Used :
    /\ \A j \in 0 .. fHead[q] - 1 :
         /\ fTaskList[q][j] \in Task
         /\ Released(fTaskList[q][j])
         /\ \A t \in Threads : ~ ToPush(t, fTaskList[q][j])
    /\ \A j, l \in 0 .. fHead[q] - 1 : fTaskList[q][j] = fTaskList[q][l] => j = l

\* A task in a queue is in no other one, with no thread and has not ended.
LiveInv ==
  Open => \A q \in Used : \A j \in Live(q) :
    /\ ~ Ended(fTaskList[q][j])
    /\ \A t \in Threads : ~ Has(t, fTaskList[q][j])
    /\ \A r \in Used : \A l \in Live(r) : fTaskList[q][j] = fTaskList[r][l] => q = r

\* The operations under way: the slot that a push has filled, or a pop has
\* taken, is still there.
OpInv ==
  Open => \A t \in Threads :
    /\ op[t].at \in {"incLoad", "incStore"} =>
         /\ op[t].q \in Used
         /\ op[t].q = t \/ Dealing
         /\ fTaskList[op[t].q][fHead[op[t].q]] = op[t].item
         /\ op[t].item \in Task
    /\ op[t].at = "incStore" => op[t].head = fHead[op[t].q]
    /\ op[t].at = "load" =>
         /\ op[t].q \in Used
         /\ op[t].end = HeadEnd => op[t].q = t /\ fHead[t] = op[t].head - 1
         /\ op[t].end = TailEnd => op[t].tail < fTail[op[t].q]
         /\ PoppedTask(t) \in Task

\* The vector a thread has latched is the current one.
LatchInv == IndexIsLatched

(***************************************************************************)
(* While it is closed.                                                     *)
(***************************************************************************)
\* Nobody has a task, or is past the first access of a push or a pop.
ClosedInv ==
  ~ Open => \A t \in Threads :
    /\ \A k \in Counted : ~ Has(t, k)
    /\ todo[t] = {}
    /\ op[t].at \notin {"incLoad", "incStore", "load"}

\* Every task has rendered the same samples: all up to the next vector.
ClosedDone ==
  ~ Open => \A k \in Task :
    done[k] = IF pc[MASTER_THREAD] = "index" THEN 0 ELSE Min(fIndex, fFullcount)

\* The queues a thread can look into are empty, and the ones that were reset
\* are as new.
EmptyQueue(q) == fHead[q] = fTail[q]
ClosedQueues ==
  ~ Open =>
    /\ fIndex < fFullcount /\ ~ Setup => \A q \in Used : EmptyQueue(q)
    /\ \A t \in Threads :
         /\ pc[t] = "steal" => \A q \in 0 .. num[t] - 1 : EmptyQueue(q)
         /\ pc[t] \in {"activate", "pop"} => EmptyQueue(t)
         /\ pc[t] = "reset" =>
              /\ \A q \in 0 .. i[t] - 1 : fHead[q] = 0 /\ fTail[q] = 0
              /\ \A k \in Counted : Inputs(k) > 1 => fTaskGraph[k] = Inputs(k)

WordInv == \A q \in Threads : fTail[q] <= fHead[q]

\* compute of no sample deals out tasks that nobody runs.  Where that cannot be
\* or the queues in use never change, all queues are empty between calls.
NothingLeft == ~ fDynAdapt \/ 0 \notin Counts
RestInv ==
  /\ NothingLeft => \A q \in Threads \ Used : EmptyQueue(q)
  /\ 0 \notin Counts /\ InCall => fFullcount > 0
  /\ ~ Open /\ ~ Setup /\ fFullcount > 0 /\ (InCall \/ NothingLeft) =>
       \A q \in Used : EmptyQueue(q)

\* Only a call of no sample leaves tasks in queues, and they stay there until compute
\* resets these queues at the start of a call.
Left(q) == EmptyQueue(q) \/ q \in leftover
LeftInv ==
  /\ \A q \in Threads \ Used : Left(q)
  /\ ~ InCall => \A q \in Used : Left(q)
  /\ Setup /\ pc[MASTER_THREAD] \in {"index", "init", "reset"} =>
       \A q \in Used : q >= i[MASTER_THREAD] => Left(q)

Inv ==
  /\ TypeOK /\ Locals /\ Pool
  /\ DoneInv /\ CounterInv /\ ReleaseInv /\ OwnerInv /\ SlotInv /\ LiveInv /\ OpInv /\ LatchInv
  /\ ClosedInv /\ ClosedDone /\ ClosedQueues /\ WordInv /\ RestInv /\ LeftInv
=============================================================================
