--------------------------- MODULE MCWorkStealing ---------------------------
(***************************************************************************)
(* DAGs for WorkStealing.  Tasks are numbered as computeForwardDAG does,   *)
(* from 2, the ones farthest from the output first.                        *)
(***************************************************************************)
EXTENDS WorkStealingInv

\* process = filter(0.9), filter(0.9) : +;  two ready tasks, one join.
JoinBack == [k \in 2 .. 4 |-> CASE k = 4 -> {2, 3} [] OTHER -> {}]

\* Every form of activation: outputs of its own (4, 5), shared ones (6, 7), a
\* chain (5, 8) and a last stage of three tasks.
MixedBack == [k \in 2 .. 8 |-> CASE k \in {2, 3} -> {} [] k \in {4, 5} -> {2}
                                 [] k = 6 -> {2, 3} [] k = 7 -> {3, 4} [] OTHER -> {5}]

\* Three ready tasks, so that each of three threads is dealt one, and a join.
TripleBack == [k \in 2 .. 5 |-> CASE k = 5 -> {2, 3, 4} [] OTHER -> {}]

TwoReady == <<2, 3>>
ThreeReady == <<2, 3, 4>>
=============================================================================
