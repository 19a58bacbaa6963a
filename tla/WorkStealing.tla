---------------------------- MODULE WorkStealing ----------------------------
(***************************************************************************)
(* The work stealing scheduler: the code that the -sch option generates    *)
(* (compiler/generator/wss_code_container.cpp) running on the queues, the  *)
(* task graph and the thread pool of architecture/scheduler.cpp.           *)
(*                                                                         *)
(* A DSP is a DAG of loops, the tasks.  compute(n) renders n samples by    *)
(* vectors of VecSize; for each vector every task runs once, after the     *)
(* tasks it reads from.  Thread 0 is the caller of compute, the others are *)
(* the workers of the pool.  All of them run computeThread: run a task,    *)
(* activate its outputs, go on with one of them, or pop, or steal.         *)
(*                                                                         *)
(* A step is one access to shared memory, but for the loops that only      *)
(* touch what no other thread can look at then (see the README): the       *)
(* stores of initTask, the slots of InitOne, and the body of a task, which *)
(* is a start and an end.                                                  *)
(***************************************************************************)
EXTENDS TaskQueue, Sequences, FiniteSets

CONSTANTS
  fStaticNumThreads,   \* get_max_cpu(): Threads = 0 .. fStaticNumThreads - 1
  NumThreads,          \* OMP_NUM_THREADS, or fStaticNumThreads
  fDynAdapt,           \* OMP_DYN_THREAD
  Back,                \* Back[k] : fBackwardLoopDependencies of task k
  fReadyTaskList,      \* the tasks without inputs, in the order of addReadyTask
  VecSize,             \* gGlobal->gVecSize
  Counts,              \* the sample counts compute is called with
  XaddReturnsNew,      \* TRUE : atomic_xadd of the Apple build, FALSE : of the others
  BackToBack,          \* TRUE : compute may be called again while a worker is still in
                       \* computeThread; FALSE : only when all of them wait
  MaxComputes          \* bound: calls of compute

LAST_TASK_INDEX == 1
MASTER_THREAD == 0
Workers == Threads \ {MASTER_THREAD}

ASSUME WorkStealingAssumption ==
  /\ fStaticNumThreads \in Nat \ {0}
  /\ NumThreads \in 1 .. fStaticNumThreads
  /\ fDynAdapt \in BOOLEAN
  /\ Threads = 0 .. fStaticNumThreads - 1
  /\ IsFiniteSet(Task)
  /\ Back \in [Task -> SUBSET Task]
  /\ \A S \in (SUBSET Task) \ {{}} : \E k \in S : \A c \in S : k \notin Back[c]   \* a DAG
  /\ LAST_TASK_INDEX \notin Task
  /\ fReadyTaskList \in Seq(Task)
  /\ {fReadyTaskList[i] : i \in DOMAIN fReadyTaskList} = {k \in Task : Back[k] = {}}
  /\ \A i, j \in DOMAIN fReadyTaskList : fReadyTaskList[i] = fReadyTaskList[j] => i = j
  /\ VecSize \in Nat \ {0}
  /\ Counts \subseteq Nat
  /\ XaddReturnsNew \in BOOLEAN /\ BackToBack \in BOOLEAN
  /\ QueueSize = Cardinality(Task) + 2                  \* loop_count
  /\ MaxComputes \in Nat

VARIABLES
  fDynamicNumThreads,  \* threads, and queues, of the next call of compute
  fTaskGraph,          \* activation counters of TaskGraph
  fIndex, fFullcount,  \* first sample of the current vector; samples of the call
  fSemaphore,          \* of each worker
  pc,                  \* where each thread is
  tasknum, base, count,  \* locals of computeThread; base is the latched fIndex
  todo, keep,          \* outputs still to activate, and the one to go on with
  jobs,                \* ready tasks still to push
  i, num,              \* index and bound (num_threads) of a loop over queues or threads
  done, computes,      \* history: samples rendered by each task; calls so far;
  leftover             \* queues dealt to by a call of no sample and not reset since

callVars == <<fIndex, fFullcount>>
poolVars == <<fDynamicNumThreads, fSemaphore>>
taskVars == <<tasknum, base, count>>
outputVars == <<todo, keep>>
loopVars == <<jobs, i, num>>
history == <<done, computes, leftover>>
locals == <<pc, taskVars, outputVars, loopVars>>
vars == <<queueVars, fTaskGraph, callVars, poolVars, locals, history>>

-----------------------------------------------------------------------------
(***************************************************************************)
(* The DAG, as computeForwardDAG completes it.                             *)
(***************************************************************************)
Outputs(k) == {c \in Task : k \in Back[c]}     \* fForwardLoopDependencies
LastStage == {k \in Task : Outputs(k) = {}}    \* dag[0]

Counted == Task \cup {LAST_TASK_INDEX}

\* The number of tasks task k waits for; the last task waits for the last stage.
Inputs(k) == IF k = LAST_TASK_INDEX THEN Cardinality(LastStage) ELSE Cardinality(Back[k])

\* Mutant: a counter is set to one activation less.
InitTasksOneLess ==
  [k \in Counted |-> IF Inputs(k) > 1 THEN Inputs(k) - 1 ELSE fTaskGraph[k]]

\* Mutant: the counter of the last task is not set again.
InitTasksNotLast ==
  [k \in Counted |-> IF Inputs(k) > 1 /\ k # LAST_TASK_INDEX THEN Inputs(k) ELSE fTaskGraph[k]]

\* The stores of generateDAGLoopWSSAux1: tasks with more than one input.
InitTasks ==
  [k \in Counted |-> IF Inputs(k) > 1 THEN Inputs(k) ELSE fTaskGraph[k]]

(***************************************************************************)
(* InitTaskList(-1) deals the ready tasks out in slices, the remainder to  *)
(* queue 0; InitTaskList(t) gives them all to queue t.  A job is a queue   *)
(* and the task to push on it.                                             *)
(***************************************************************************)
InitTaskListAll ==
  LET size == Len(fReadyTaskList)
      slice == size \div fDynamicNumThreads
      rest == size % fDynamicNumThreads
  IN  [j \in 1 .. slice |-> <<0, fReadyTaskList[j]>>]
      \o [j \in 1 .. rest |-> <<0, fReadyTaskList[fDynamicNumThreads * slice + j]>>]
      \o [j \in 1 .. (fDynamicNumThreads - 1) * slice |->
            <<1 + ((j - 1) \div slice), fReadyTaskList[slice + j]>>]

\* Mutant: the last task deals the tasks out too.
InitTaskListOneAll(t) == InitTaskListAll

InitTaskListOne(t) == [j \in DOMAIN fReadyTaskList |-> <<t, fReadyTaskList[j]>>]

\* DEC_ATOMIC(&fTaskList[task]) == 0
DecIsZero(k) == (IF XaddReturnsNew THEN fTaskGraph[k] - 1 ELSE fTaskGraph[k]) = 0

Min(a, b) == IF a < b THEN a ELSE b

(***************************************************************************)
(* What StopMeasure may make of the number of threads: the timing of the   *)
(* last cycles tells whether, and in which direction, it moves by one,     *)
(* within Range(1, staticthreadnum).                                       *)
(***************************************************************************)
StopMeasure(n) ==
  IF fDynAdapt THEN {n} \cup ({n - 1, n + 1} \cap 1 .. fStaticNumThreads) ELSE {n}
-----------------------------------------------------------------------------
TypeOK ==
  /\ QueueTypeOK
  /\ fTaskGraph \in [Counted -> Int]
  /\ fIndex \in Nat /\ fFullcount \in Nat
  /\ fSemaphore \in [Workers -> Nat]
  /\ pc \in [Threads -> {"outside", "index", "init", "reset", "push", "signal", "stop",
                         "wait", "loop", "steal", "last", "next", "run", "activate", "one", "pop",
                         "stopped"}]
  /\ tasknum \in [Threads -> Counted \cup {WORK_STEALING_INDEX}]
  /\ base \in [Threads -> Nat] /\ count \in [Threads -> Nat]
  /\ todo \in [Threads -> SUBSET Counted]
  /\ keep \in [Threads -> Task \cup {WORK_STEALING_INDEX}]
  /\ jobs \in [Threads -> Seq(Threads \X Task)]
  /\ i \in [Threads -> 0 .. fStaticNumThreads]
  /\ num \in [Threads -> 0 .. fStaticNumThreads]
  /\ fDynamicNumThreads \in 1 .. fStaticNumThreads
  /\ done \in [Task -> Nat]
  /\ computes \in 0 .. MaxComputes
  /\ leftover \subseteq Threads

(***************************************************************************)
(* The instance after init: the scheduler is created, the ready tasks are  *)
(* added, startAll has started the workers.                                *)
(***************************************************************************)
Init ==
  /\ QueueInit
  /\ fTaskGraph = [k \in Counted |-> 0]
  /\ fIndex = 0 /\ fFullcount = 0
  /\ fSemaphore = [t \in Workers |-> 0]
  /\ pc = [t \in Threads |-> IF t = MASTER_THREAD THEN "outside" ELSE "wait"]
  /\ tasknum = [t \in Threads |-> WORK_STEALING_INDEX]
  /\ base = [t \in Threads |-> 0] /\ count = [t \in Threads |-> 0]
  /\ todo = [t \in Threads |-> {}]
  /\ keep = [t \in Threads |-> WORK_STEALING_INDEX]
  /\ jobs = [t \in Threads |-> << >>]
  /\ i = [t \in Threads |-> 0] /\ num = [t \in Threads |-> 0]
  /\ fDynamicNumThreads = NumThreads
  /\ done = [k \in Task |-> 0]
  /\ computes = 0
  /\ leftover = {}

Goto(t, where) == pc' = [pc EXCEPT ![t] = where]
Set(t, k) == tasknum' = [tasknum EXCEPT ![t] = k]
EndLoop(t) == i' = [i EXCEPT ![t] = 0] /\ num' = [num EXCEPT ![t] = 0]
Ready(t) == op[t].at = "idle"      \* the last queue operation of t is over

-----------------------------------------------------------------------------
(***************************************************************************)
(* compute(count), up to computeThread(0).                                 *)
(***************************************************************************)
Compute(n) ==
  /\ pc[MASTER_THREAD] = "outside"
  /\ computes < MaxComputes
  /\ BackToBack \/ \A t \in Workers : pc[t] = "wait" /\ fSemaphore[t] = 0
  /\ fFullcount' = n
  /\ Goto(MASTER_THREAD, "index")
  /\ computes' = computes + 1
  /\ done' = [k \in Task |-> 0]
  /\ UNCHANGED <<queueVars, fTaskGraph, fIndex, poolVars, taskVars, outputVars,
                 loopVars, leftover>>

ResetIndex ==
  /\ pc[MASTER_THREAD] = "index"
  /\ fIndex' = 0
  /\ Goto(MASTER_THREAD, "init")
  /\ UNCHANGED <<queueVars, fTaskGraph, fFullcount, poolVars, taskVars, outputVars,
                 loopVars, history>>

\* generateDAGLoopWSSAux1, run by compute and by the last task.
InitGraph(t) ==
  /\ pc[t] = "init"
  /\ fTaskGraph' = InitTasks
  /\ num' = [num EXCEPT ![t] = fDynamicNumThreads]
  /\ Goto(t, "reset")
  /\ UNCHANGED <<queueVars, callVars, poolVars, taskVars, outputVars, jobs, i, history>>

\* Mutant: the last queue is left as it is.
InitAllOneLess(t) ==
  /\ pc[t] = "reset"
  /\ InitOne(i[t])
  /\ IF i[t] + 2 < num[t]
     THEN i' = [i EXCEPT ![t] = @ + 1] /\ UNCHANGED <<pc, num, jobs>>
     ELSE /\ EndLoop(t)
          /\ Goto(t, "push")
          /\ jobs' = [jobs EXCEPT ![t] = IF tasknum[t] = LAST_TASK_INDEX
                                         THEN InitTaskListOne(t) ELSE InitTaskListAll]
  /\ leftover' = leftover \ {i[t]}
  /\ UNCHANGED <<fTaskGraph, callVars, poolVars, taskVars, outputVars, done, computes>>

InitAll(t) ==
  /\ pc[t] = "reset"
  /\ InitOne(i[t])
  /\ IF i[t] + 1 < num[t]
     THEN i' = [i EXCEPT ![t] = @ + 1] /\ UNCHANGED <<pc, num, jobs>>
     ELSE /\ EndLoop(t)
          /\ Goto(t, "push")
          /\ jobs' = [jobs EXCEPT ![t] = IF tasknum[t] = LAST_TASK_INDEX
                                         THEN InitTaskListOne(t) ELSE InitTaskListAll]
  /\ leftover' = leftover \ {i[t]}
  /\ UNCHANGED <<fTaskGraph, callVars, poolVars, taskVars, outputVars, done, computes>>

PushReady(t) ==
  /\ pc[t] = "push" /\ Ready(t)
  /\ jobs[t] # << >>
  /\ PushHead(t, Head(jobs[t])[1], Head(jobs[t])[2])
  /\ jobs' = [jobs EXCEPT ![t] = Tail(@)]
  /\ UNCHANGED <<fTaskGraph, pc, callVars, poolVars, taskVars, outputVars, i, num,
                 history>>

ReadyPushed(t) ==
  /\ pc[t] = "push" /\ Ready(t)
  /\ jobs[t] = << >>
  /\ Goto(t, IF tasknum[t] = LAST_TASK_INDEX THEN "loop" ELSE "signal")
  /\ Set(t, WORK_STEALING_INDEX)
  /\ UNCHANGED <<queueVars, fTaskGraph, callVars, poolVars, base, count, outputVars,
                 loopVars, history>>

\* SignalAll posts the workers' semaphores one after the other.
SignalAll ==
  /\ pc[MASTER_THREAD] = "signal"
  /\ IF i[MASTER_THREAD] + 1 < fDynamicNumThreads
     THEN /\ fSemaphore' = [fSemaphore EXCEPT ![i[MASTER_THREAD] + 1] = @ + 1]
          /\ i' = [i EXCEPT ![MASTER_THREAD] = @ + 1]
          /\ UNCHANGED pc
     ELSE /\ i' = [i EXCEPT ![MASTER_THREAD] = 0]
          /\ Goto(MASTER_THREAD, "loop")
          /\ UNCHANGED fSemaphore
  /\ UNCHANGED <<queueVars, fTaskGraph, callVars, fDynamicNumThreads, taskVars,
                 outputVars, jobs, num, history>>

\* DSPThread::Run, up to computeThread.
Wake(t) ==
  /\ pc[t] = "wait"
  /\ fSemaphore[t] > 0
  /\ fSemaphore' = [fSemaphore EXCEPT ![t] = @ - 1]
  /\ Goto(t, "loop")
  /\ UNCHANGED <<queueVars, fTaskGraph, callVars, fDynamicNumThreads, taskVars,
                 outputVars, loopVars, history>>

-----------------------------------------------------------------------------
(***************************************************************************)
(* computeThread: while (fIndex < fFullcount) switch (tasknum).            *)
(***************************************************************************)

Dispatch(t) ==
  /\ pc[t] = "loop" /\ Ready(t)
  /\ fIndex < fFullcount
  /\ base' = [base EXCEPT ![t] = IF tasknum[t] \in Task THEN fIndex ELSE 0]
  /\ count' = [count EXCEPT ![t] = IF tasknum[t] \in Task THEN Min(VecSize, fFullcount - fIndex)
                                                          ELSE 0]
  /\ Goto(t, CASE tasknum[t] = WORK_STEALING_INDEX -> "steal"
               [] tasknum[t] = LAST_TASK_INDEX -> "last"
               [] tasknum[t] \in Task -> "run"
               [] OTHER -> "loop")
  /\ num' = [num EXCEPT ![t] = IF tasknum[t] = WORK_STEALING_INDEX THEN fDynamicNumThreads ELSE 0]
  /\ UNCHANGED <<queueVars, fTaskGraph, callVars, poolVars, tasknum, outputVars, jobs,
                 i, history>>

\* The end of computeThread: the worker waits again; compute calls syncAll, which
\* only adapts the number of threads, and returns.
Return(t) ==
  /\ pc[t] = "loop" /\ Ready(t)
  /\ fIndex >= fFullcount
  /\ Set(t, WORK_STEALING_INDEX)
  /\ \/ /\ t = MASTER_THREAD
        /\ fDynamicNumThreads' \in StopMeasure(fDynamicNumThreads)
        /\ leftover' = leftover \cup {q \in Threads : fFullcount = 0 /\ q < fDynamicNumThreads}
        /\ Goto(t, "outside")
     \/ /\ t \in Workers
        /\ UNCHANGED <<fDynamicNumThreads, leftover>>
        /\ Goto(t, "wait")
  /\ UNCHANGED <<queueVars, fTaskGraph, callVars, fSemaphore, base, count, outputVars, loopVars,
                 done, computes>>

\* GetNextTask: PopTail on every queue in turn, until one gives a task.
StealEmpty(t) ==
  /\ pc[t] = "steal"
  /\ PopEmpty(t, i[t], TailEnd)
  /\ IF i[t] + 1 < num[t]
     THEN i' = [i EXCEPT ![t] = @ + 1] /\ UNCHANGED <<pc, num>>
     ELSE EndLoop(t) /\ Goto(t, "loop")
  /\ UNCHANGED <<fTaskGraph, callVars, poolVars, taskVars, outputVars, jobs, history>>

StealRead(t) ==
  /\ pc[t] = "steal"
  /\ PopRead(t, i[t], TailEnd)
  /\ UNCHANGED <<fTaskGraph, locals, callVars, poolVars, history>>

\* PopHead of ActivateOneOutputTask and of GetReadyTask.
PopHeadEmpty(t) ==
  /\ pc[t] = "pop"
  /\ PopEmpty(t, t, HeadEnd)
  /\ Set(t, WORK_STEALING_INDEX)
  /\ Goto(t, "loop")
  /\ UNCHANGED <<fTaskGraph, callVars, poolVars, base, count, outputVars, loopVars,
                 history>>

PopHeadRead(t) ==
  /\ pc[t] = "pop"
  /\ PopRead(t, t, HeadEnd)
  /\ UNCHANGED <<fTaskGraph, locals, callVars, poolVars, history>>

\* The end of a pop that found a task.
Popped(t) ==
  /\ PopLoad(t)
  /\ Set(t, PoppedTask(t))
  /\ EndLoop(t)
  /\ Goto(t, "loop")
  /\ UNCHANGED <<fTaskGraph, callVars, poolVars, base, count, outputVars, jobs,
                 history>>

\* The last task: the store of fIndex, then the test for another vector.
LastTask(t) ==
  /\ pc[t] = "last"
  /\ fIndex' = fIndex + VecSize
  /\ Goto(t, "next")
  /\ UNCHANGED <<queueVars, fTaskGraph, fFullcount, poolVars, taskVars, outputVars,
                 loopVars, history>>

NextVector(t) ==
  /\ pc[t] = "next"
  /\ IF fIndex < fFullcount
     THEN Goto(t, "init") /\ UNCHANGED tasknum
     ELSE Goto(t, "loop") /\ Set(t, WORK_STEALING_INDEX)
  /\ UNCHANGED <<queueVars, fTaskGraph, callVars, poolVars, base, count, outputVars,
                 loopVars, history>>

(***************************************************************************)
(* The case of a task: its body, then what the generated code does with    *)
(* its outputs.  The set of outputs is ordered by address, so keep is any  *)
(* of the outputs that have no other input.                                *)
(***************************************************************************)
EndOfTask(t) ==
  LET k == tasknum[t]
      outputs == IF k \in LastStage THEN {LAST_TASK_INDEX} ELSE Outputs(k)
      direct == {c \in outputs : Inputs(c) = 1}
  IN  /\ pc[t] = "run"
      /\ done' = [done EXCEPT ![k] = @ + count[t]]
      /\ base' = [base EXCEPT ![t] = 0]
      /\ count' = [count EXCEPT ![t] = 0]
      /\ \/ /\ Cardinality(outputs) = 1 /\ direct = outputs
            /\ \E c \in outputs : Set(t, c)
            /\ Goto(t, "loop")
            /\ UNCHANGED <<todo, keep>>
         \/ /\ Cardinality(outputs) = 1 /\ direct = {}
            /\ todo' = [todo EXCEPT ![t] = outputs]
            /\ Goto(t, "one")
            /\ UNCHANGED <<tasknum, keep>>
         \/ /\ Cardinality(outputs) > 1
            /\ IF direct = {}
               THEN /\ Set(t, WORK_STEALING_INDEX)
                    /\ todo' = [todo EXCEPT ![t] = outputs]
                    /\ UNCHANGED keep
               ELSE \E c \in direct :
                      /\ UNCHANGED tasknum
                      /\ todo' = [todo EXCEPT ![t] = outputs \ {c}]
                      /\ keep' = [keep EXCEPT ![t] = c]
            /\ Goto(t, "activate")
      /\ UNCHANGED <<queueVars, fTaskGraph, callVars, poolVars, loopVars, computes, leftover>>

\* Mutant: the output is taken whatever its counter says.
ActivateOneOutputTaskAlways(t) ==
  /\ pc[t] = "one"
  /\ \E c \in todo[t] :
       /\ fTaskGraph' = [fTaskGraph EXCEPT ![c] = @ - 1]
       /\ Set(t, c)
  /\ Goto(t, "loop")
  /\ todo' = [todo EXCEPT ![t] = {}]
  /\ UNCHANGED <<queueVars, callVars, poolVars, base, count, keep, loopVars, history>>

ActivateOneOutputTask(t) ==
  /\ pc[t] = "one"
  /\ \E c \in todo[t] :
       /\ fTaskGraph' = [fTaskGraph EXCEPT ![c] = @ - 1]
       /\ IF DecIsZero(c)
          THEN Set(t, c) /\ Goto(t, "loop")
          ELSE UNCHANGED tasknum /\ Goto(t, "pop")
  /\ todo' = [todo EXCEPT ![t] = {}]
  /\ UNCHANGED <<queueVars, callVars, poolVars, base, count, keep, loopVars, history>>

\* pushHead of an output that has no other input.
PushOutput(t) ==
  /\ pc[t] = "activate" /\ Ready(t)
  /\ \E c \in todo[t] :
       /\ Inputs(c) = 1
       /\ PushHead(t, t, c)
       /\ todo' = [todo EXCEPT ![t] = @ \ {c}]
  /\ UNCHANGED <<fTaskGraph, pc, callVars, poolVars, taskVars, keep, loopVars, history>>

\* activateOutputTask1 (keep = NULL) and activateOutputTask2: the decrement.
ActivateOutputTask(t) ==
  /\ pc[t] = "activate" /\ Ready(t)
  /\ \E c \in todo[t] :
       /\ Inputs(c) > 1
       /\ fTaskGraph' = [fTaskGraph EXCEPT ![c] = @ - 1]
       /\ todo' = [todo EXCEPT ![t] = @ \ {c}]
       /\ IF ~ DecIsZero(c)
          THEN UNCHANGED <<tasknum, jobs>>
          ELSE IF keep[t] = WORK_STEALING_INDEX /\ tasknum[t] = WORK_STEALING_INDEX
          THEN Set(t, c) /\ UNCHANGED jobs
          ELSE jobs' = [jobs EXCEPT ![t] = << <<t, c>> >>] /\ UNCHANGED tasknum
  /\ jobs[t] = << >>
  /\ UNCHANGED <<queueVars, pc, callVars, poolVars, base, count, keep, i, num, history>>

\* ... and its PushHead, when the decrement found the task ready.
PushActivated(t) ==
  /\ pc[t] = "activate" /\ Ready(t)
  /\ jobs[t] # << >>
  /\ PushHead(t, Head(jobs[t])[1], Head(jobs[t])[2])
  /\ jobs' = [jobs EXCEPT ![t] = << >>]
  /\ UNCHANGED <<fTaskGraph, pc, callVars, poolVars, taskVars, outputVars, i, num,
                 history>>

\* All outputs are activated: go on with keep, or GetReadyTask.
Activated(t) ==
  /\ pc[t] = "activate" /\ Ready(t)
  /\ todo[t] = {} /\ jobs[t] = << >>
  /\ IF keep[t] # WORK_STEALING_INDEX
     THEN Set(t, keep[t]) /\ Goto(t, "loop")
     ELSE /\ UNCHANGED tasknum
          /\ Goto(t, IF tasknum[t] = WORK_STEALING_INDEX THEN "pop" ELSE "loop")
  /\ keep' = [keep EXCEPT ![t] = WORK_STEALING_INDEX]
  /\ UNCHANGED <<queueVars, fTaskGraph, callVars, poolVars, base, count, todo,
                 loopVars, history>>

QueueOp(t) ==
  /\ QueueStep(t)
  /\ UNCHANGED <<fTaskGraph, locals, callVars, poolVars, history>>

-----------------------------------------------------------------------------
(***************************************************************************)
(* deleteScheduler: StopAll ends the workers one by one, wherever they are *)
(* (thread_terminate).                                                     *)
(***************************************************************************)
Delete ==
  /\ pc[MASTER_THREAD] = "outside"
  /\ i' = [i EXCEPT ![MASTER_THREAD] = 1]
  /\ Goto(MASTER_THREAD, "stop")
  /\ UNCHANGED <<queueVars, fTaskGraph, callVars, poolVars, taskVars, outputVars, jobs,
                 num, history>>

StopAll ==
  /\ pc[MASTER_THREAD] = "stop"
  /\ IF i[MASTER_THREAD] < fStaticNumThreads
     THEN /\ Goto(i[MASTER_THREAD], "stopped")
          /\ i' = [i EXCEPT ![MASTER_THREAD] = @ + 1]
     ELSE Goto(MASTER_THREAD, "stopped") /\ UNCHANGED i
  /\ UNCHANGED <<queueVars, fTaskGraph, callVars, poolVars, taskVars, outputVars, jobs,
                 num, history>>

Deleted == pc[MASTER_THREAD] = "stopped" /\ UNCHANGED vars

\* The steps of compute and computeThread.
Run(t) ==
  /\ pc[t] # "stopped"
  /\ \/ InitGraph(t) \/ InitAll(t) \/ PushReady(t) \/ ReadyPushed(t)
     \/ Dispatch(t) \/ Return(t)
     \/ StealEmpty(t) \/ StealRead(t) \/ PopHeadEmpty(t) \/ PopHeadRead(t) \/ Popped(t)
     \/ LastTask(t) \/ NextVector(t) \/ EndOfTask(t) \/ ActivateOneOutputTask(t)
     \/ PushOutput(t) \/ ActivateOutputTask(t) \/ PushActivated(t) \/ Activated(t)
     \/ QueueOp(t)

Next ==
  \/ \E n \in Counts : Compute(n)
  \/ ResetIndex \/ SignalAll
  \/ \E t \in Workers : Wake(t)
  \/ \E t \in Threads : Run(t)
  \/ Delete \/ StopAll \/ Deleted

Spec == Init /\ [][Next]_vars

\* Every thread is scheduled; nobody has to call compute or to delete the instance.
Fairness ==
  /\ WF_vars(ResetIndex \/ SignalAll \/ StopAll)
  /\ \A t \in Workers : WF_vars(Wake(t))
  /\ \A t \in Threads : WF_vars(Run(t))

FairSpec == Spec /\ Fairness

-----------------------------------------------------------------------------
\* Thread t is between computeThread's start and its return.
InCompute(t) == pc[t] \notin {"wait", "outside", "stop", "stopped"}

\* Thread t is in the body of task k.
Runs(t, k) == pc[t] = "run" /\ tasknum[t] = k

\* Threads render the DAG as one sequential program would: each task once for
\* each vector, vectors in order, a task after the ones it reads from.
Dag == INSTANCE DagExecution WITH
         index <- IF pc[MASTER_THREAD] = "index" THEN 0 ELSE fIndex,
         fullcount <- fFullcount,
         running <- {k \in Task : \E t \in Threads : Runs(t, k)}

ImplementsDag == Dag!Spec

\* Two threads are never in the body of the same task, whose buffers are shared.
NoSharedBody == \A t, u \in Threads, k \in Task : Runs(t, k) /\ Runs(u, k) => t = u

\* When compute returns every task has rendered every sample of the call.
ReturnsRendered ==
  pc[MASTER_THREAD] = "outside" /\ computes > 0 => \A k \in Task : done[k] = fFullcount

\* When compute returns no task is left behind, in a queue or with a thread,
\* that a worker could run in the next call.
ReturnsDrained ==
  pc[MASTER_THREAD] = "outside" /\ fFullcount > 0 =>
    /\ \A q \in Threads : Live(q) = {}
    /\ \A t \in Threads : pc[t] = "loop" => tasknum[t] \notin Task

\* compute returns when all is rendered and nothing is left behind.
ReturnsComplete == ReturnsRendered /\ ReturnsDrained

Pushing(t, q) == op[t].at \in {"incLoad", "incStore"} /\ op[t].q = q
PoppingHead(t, q) == op[t].at \in {"cas", "load"} /\ op[t].q = q /\ op[t].end = HeadEnd

\* PushHead is not atomic: while a thread pushes on a queue no other thread
\* pushes on it or pops from its head.
SingleProducer ==
  \A t, u, q \in Threads : t # u /\ Pushing(t, q) => ~ Pushing(u, q) /\ ~ PoppingHead(u, q)

\* The slots never wrap, so the head must stay in the array.
HeadInBounds == \A t, q \in Threads : Pushing(t, q) => fHead[q] \in Slots

\* InitOne is no CAS.  A queue is reset, by compute at the start of a call or by the
\* last task, when no thread is between the CAS and the load of a pop from it or inside
\* a push on it, and it is empty.  The exception is the queue that still holds what a
\* call of no sample has dealt out: compute resets it, while all the workers wait.
ResetIsSafe ==
  \A t \in Threads : pc[t] = "reset" =>
    /\ \A u \in Threads : op[u].at \in {"incLoad", "incStore", "load"} => op[u].q # i[t]
    /\ Live(i[t]) # {} => /\ i[t] \in leftover
                          /\ tasknum[t] = WORK_STEALING_INDEX
                          /\ \A w \in Workers : pc[w] = "wait"

\* The queues are used as their lock-free operations require: the guards that
\* WSQ marks as those of its clients.
QueueContract == SingleProducer /\ HeadInBounds /\ ResetIsSafe

\* The vector a thread latched is still the current one at the end of the body,
\* and until its outputs are activated.
IndexIsLatched ==
  \A t \in Threads : pc[t] = "run" => /\ base[t] = fIndex
                                      /\ count[t] = Min(VecSize, fFullcount - fIndex)

\* compute always returns.
ComputeReturns == pc[MASTER_THREAD] = "index" ~> pc[MASTER_THREAD] = "outside"

\* A worker never stays in computeThread for good.
WorkersReturn ==
  \A t \in Workers : InCompute(t) ~> ~ InCompute(t)

\* Every cycle ends, for the thread that calls compute and for the workers.
CyclesEnd == ComputeReturns /\ WorkersReturn

\* compute only returns when the workers are through with it.
ReturnsQuiescent ==
  pc[MASTER_THREAD] = "outside" => \A t \in Workers : ~ InCompute(t)
=============================================================================
