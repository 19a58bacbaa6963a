---------------------------- MODULE DagExecution ----------------------------
(***************************************************************************)
(* What compute promises, whatever the number of threads: the samples of a *)
(* call are rendered vector by vector, and in each vector every task runs  *)
(* exactly once, after the tasks it reads from.                            *)
(***************************************************************************)
EXTENDS Integers

CONSTANTS
  Task,      \* the loops of the DSP
  Back,      \* Back[k] : the tasks k reads from
  VecSize,   \* samples in a vector
  Counts     \* the sample counts compute is called with

VARIABLES
  fullcount, \* samples of the current call
  index,     \* first sample of the current vector
  done,      \* done[k] : samples task k has rendered in this call
  running    \* tasks being run

dagVars == <<fullcount, index, done, running>>

Init ==
  /\ fullcount = 0 /\ index = 0
  /\ done = [k \in Task |-> 0]
  /\ running = {}

\* A call starts when the one before it is over.
Call(n) ==
  /\ index >= fullcount
  /\ running = {}
  /\ fullcount' = n /\ index' = 0
  /\ done' = [k \in Task |-> 0]
  /\ UNCHANGED running

Start(k) ==
  /\ index < fullcount
  /\ done[k] = index /\ k \notin running
  /\ \A p \in Back[k] : done[p] > index
  /\ running' = running \cup {k}
  /\ UNCHANGED <<fullcount, index, done>>

Finish(k) ==
  /\ k \in running
  /\ done' = [done EXCEPT ![k] = IF index + VecSize < fullcount THEN index + VecSize
                                                                ELSE fullcount]
  /\ running' = running \ {k}
  /\ UNCHANGED <<fullcount, index>>

NextVector ==
  /\ index < fullcount
  /\ \A k \in Task : done[k] > index
  /\ index' = index + VecSize
  /\ UNCHANGED <<fullcount, done, running>>

Next ==
  \/ \E n \in Counts : Call(n)
  \/ \E k \in Task : Start(k) \/ Finish(k)
  \/ NextVector

Spec == Init /\ [][Next]_dagVars
=============================================================================
