----------------------------- MODULE LoopGraph -----------------------------
(***************************************************************************)
(* From the loops of a DSP to the tasks of the scheduler: processFIR of    *)
(* compiler/generator/wss_code_container.cpp and code_container.cpp, on    *)
(* the graph of CodeLoops of compiler/parallelize/code_loop.cpp.           *)
(*                                                                         *)
(*   computeUseCount, groupSeqLoops   with -g: chains of loops become one; *)
(*   sortGraph                        loops by their distance to the root; *)
(*   computeForwardDAG                outputs, task numbers, ready tasks.  *)
(*                                                                         *)
(* Sets of loops are ordered by address, so every walk of a set goes in    *)
(* any order.  A step is one call of a recursive function, one turn of the *)
(* loop of sortGraph, or one loop numbered.                                *)
(***************************************************************************)
EXTENDS Integers, Sequences, FiniteSets, SequencesExt, Filters

CONSTANTS
  Loop       \* the loops, numbered from the root against the order of closeLoop

Root == 0    \* fCurLoop of the container, the loop that encloses all others

ASSUME LoopGraphAssumption == IsFiniteSet(Loop) /\ Loop \subseteq Nat /\ Root \in Loop

START_TASK_MAX == 2

VARIABLES
  deps,                         \* history: the dependencies as closeLoop and CS left them
  hasCode,                      \* the loops with instructions of their own
  gGroupTaskSwitch,             \* the option -g
  fBackwardLoopDependencies,    \* the loops a loop reads from
  fForwardLoopDependencies,     \* the loops that read from it
  fExtraLoops,                  \* the loops that run before it, in the same task
  fUseCount, fOrder, fIndex,    \* fields of CodeLoop
  V,                            \* levels of sortGraph, V[1] the one of the root
  T1, level,                    \* locals of sortGraph
  calls,                        \* calls of the recursive function still to make
  ready_loop, loop_count,       \* results of computeForwardDAG
  pc

input == <<deps, hasCode, gGroupTaskSwitch>>
sortVars == <<fOrder, V, T1, level>>
numberVars == <<fForwardLoopDependencies, fIndex, ready_loop, loop_count>>
graphVars == <<input, sortVars, numberVars, fBackwardLoopDependencies, fExtraLoops, fUseCount, calls, pc>>

GraphTypeOK ==
  /\ deps \in [Loop -> SUBSET Loop]
  /\ hasCode \subseteq Loop
  /\ gGroupTaskSwitch \in BOOLEAN
  /\ fBackwardLoopDependencies \in [Loop -> SUBSET Loop]
  /\ fForwardLoopDependencies \in [Loop -> SUBSET Loop]
  /\ fExtraLoops \in [Loop -> Seq(Loop)]
  /\ fUseCount \in [Loop -> Nat]
  /\ fOrder \in [Loop -> Nat \cup {-1}]
  /\ fIndex \in [Loop -> Nat \cup {-1}]
  /\ V \in Seq(SUBSET Loop)
  /\ T1 \subseteq Loop
  /\ level \in Nat
  /\ calls \in Seq(Loop)
  /\ ready_loop \in Seq(Nat)
  /\ loop_count \in Nat
  /\ pc \in {"count", "group", "reset", "level", "erase", "number", "done"}

(***************************************************************************)
(* The graphs closeLoop and CS build.  A loop that is kept is added to the *)
(* dependencies of the one that encloses it, so that all are used; it may  *)
(* only depend on loops closed before it; and only the root may have no    *)
(* code of its own, since empty loops are absorbed.                        *)
(***************************************************************************)
Graphs ==
  LET Pairs == {e \in Loop \X Loop : e[1] < e[2]}
      Used(E) == \A f \in Loop \ {Root} : \E l \in Loop : <<l, f>> \in E
  IN  {[l \in Loop |-> {f \in Loop : <<l, f>> \in E}] : E \in {E \in SUBSET Pairs : Used(E)}}

GraphInit ==
  /\ deps \in Graphs
  /\ hasCode \in {Loop, Loop \ {Root}}
  /\ hasCode # {}
  /\ gGroupTaskSwitch \in BOOLEAN
  /\ fBackwardLoopDependencies = deps
  /\ fForwardLoopDependencies = [l \in Loop |-> {}]
  /\ fExtraLoops = [l \in Loop |-> << >>]
  /\ fUseCount = [l \in Loop |-> 0]
  /\ fOrder = [l \in Loop |-> -1]
  /\ fIndex = [l \in Loop |-> -1]
  /\ V = << >> /\ T1 = {} /\ level = 0
  /\ calls = IF gGroupTaskSwitch THEN <<Root>> ELSE << >>
  /\ ready_loop = << >> /\ loop_count = 0
  /\ pc = IF gGroupTaskSwitch THEN "count" ELSE "reset"

isEmpty(l) == l \notin hasCode /\ fExtraLoops[l] = << >>

\* The calls that are left when the first one calls for every loop of S.
Recurse(S) == \E s \in SetToSeqs(S) : calls' = s \o Tail(calls)

-----------------------------------------------------------------------------
ComputeUseCount ==
  /\ pc = "count"
  /\ IF calls = << >>
     THEN pc' = "group" /\ calls' = <<Root>> /\ UNCHANGED fUseCount
     ELSE LET l == Head(calls)
          IN  /\ fUseCount' = [fUseCount EXCEPT ![l] = @ + 1]
              /\ Recurse(IF fUseCount'[l] = 1 THEN fBackwardLoopDependencies[l] ELSE {})
              /\ UNCHANGED pc
  /\ UNCHANGED <<input, sortVars, numberVars, fBackwardLoopDependencies, fExtraLoops>>

\* Mutant: the loop that ran last is put first.
concatBack(l, f) ==
  /\ fExtraLoops' = [fExtraLoops EXCEPT ![l] = @ \o <<f>>]
  /\ fBackwardLoopDependencies' =
       [fBackwardLoopDependencies EXCEPT ![l] = fBackwardLoopDependencies[f]]

concat(l, f) ==
  /\ fExtraLoops' = [fExtraLoops EXCEPT ![l] = <<f>> \o @]
  /\ fBackwardLoopDependencies' =
       [fBackwardLoopDependencies EXCEPT ![l] = fBackwardLoopDependencies[f]]

\* The loops groupSeqLoops(l) calls itself for when it does not concat.
GroupBelow(l) == fBackwardLoopDependencies[l]

GroupSeqLoops ==
  /\ pc = "group"
  /\ IF calls = << >>
     THEN pc' = "reset" /\ UNCHANGED <<calls, fBackwardLoopDependencies, fExtraLoops>>
     ELSE LET l == Head(calls)
              InSequence == {f \in Loop : fBackwardLoopDependencies[l] = {f} /\ fUseCount[f] = 1}
          IN  /\ UNCHANGED pc
              /\ \/ \E f \in InSequence : concat(l, f) /\ UNCHANGED calls
                 \/ /\ InSequence = {}
                    /\ Recurse(GroupBelow(l))
                    /\ UNCHANGED <<fBackwardLoopDependencies, fExtraLoops>>
  /\ UNCHANGED <<input, sortVars, numberVars, fUseCount>>

-----------------------------------------------------------------------------
\* The start of sortGraph, with resetOrder.
ResetOrder ==
  /\ pc = "reset"
  /\ fOrder' = [l \in Loop |-> -1]
  /\ T1' = {Root} /\ level' = 0 /\ V' = << >>
  /\ pc' = "level"
  /\ UNCHANGED <<input, numberVars, fBackwardLoopDependencies, fExtraLoops, fUseCount, calls>>

\* Mutant: a loop stays on the first level it was found on.
SetLevelOnce ==
  /\ pc = "level"
  /\ fOrder' = [l \in Loop |-> IF l \in T1 /\ fOrder[l] = -1 THEN level ELSE fOrder[l]]
  /\ V' = Append(V, {l \in T1 : fOrder[l] = -1})
  /\ T1' = UNION {fBackwardLoopDependencies[l] : l \in T1}
  /\ level' = level + 1
  /\ pc' = IF T1' = {} THEN "erase" ELSE "level"
  /\ UNCHANGED <<input, numberVars, fBackwardLoopDependencies, fExtraLoops, fUseCount, calls>>

\* One turn of the do-while of sortGraph: setLevel, with setOrder for each loop of T1.
SetLevel ==
  /\ pc = "level"
  /\ fOrder' = [l \in Loop |-> IF l \in T1 THEN level ELSE fOrder[l]]
  /\ V' = Append([k \in DOMAIN V |-> V[k] \ T1], T1)
  /\ T1' = UNION {fBackwardLoopDependencies[l] : l \in T1}
  /\ level' = level + 1
  /\ pc' = IF T1' = {} THEN "erase" ELSE "level"
  /\ UNCHANGED <<input, numberVars, fBackwardLoopDependencies, fExtraLoops, fUseCount, calls>>

EmptyLevel(S) == Cardinality(S) = 1 /\ \A l \in S : isEmpty(l)

\* The end of sortGraph; computeForwardDAG starts with the last level.
EraseEmptyLevels ==
  /\ pc = "erase"
  /\ V' = Keep(V, {S \in ToSet(V) : ~ EmptyLevel(S)})
  /\ T1' = IF V' = << >> THEN {} ELSE V'[Len(V')]
  /\ level' = Len(V')
  /\ loop_count' = START_TASK_MAX
  /\ pc' = "number"
  /\ UNCHANGED <<input, fOrder, fForwardLoopDependencies, fIndex, ready_loop,
                 fBackwardLoopDependencies, fExtraLoops, fUseCount, calls>>

(***************************************************************************)
(* computeForwardDAG: T1 is what is left of the current level, level its   *)
(* place in V.                                                             *)
(***************************************************************************)

IsReady(l) == fBackwardLoopDependencies[l] = {}

NumberLoop ==
  /\ pc = "number"
  /\ \E l \in T1 :
       /\ fForwardLoopDependencies' =
            [f \in Loop |-> IF f \in fBackwardLoopDependencies[l]
                            THEN fForwardLoopDependencies[f] \cup {l}
                            ELSE fForwardLoopDependencies[f]]
       /\ fIndex' = [fIndex EXCEPT ![l] = loop_count]
       /\ loop_count' = loop_count + 1
       /\ ready_loop' = IF IsReady(l) THEN Append(ready_loop, loop_count) ELSE ready_loop
       /\ T1' = T1 \ {l}
  /\ UNCHANGED <<input, fOrder, V, level, fBackwardLoopDependencies, fExtraLoops, fUseCount,
                 calls, pc>>

NextLevel ==
  /\ pc = "number"
  /\ T1 = {}
  /\ IF level > 1
     THEN level' = level - 1 /\ T1' = V[level - 1] /\ UNCHANGED pc
     ELSE pc' = "done" /\ UNCHANGED <<level, T1>>
  /\ UNCHANGED <<input, numberVars, fOrder, V, fBackwardLoopDependencies, fExtraLoops, fUseCount,
                 calls>>

Done == pc = "done" /\ UNCHANGED graphVars

Process ==
  \/ ComputeUseCount \/ GroupSeqLoops
  \/ ResetOrder \/ SetLevel \/ EraseEmptyLevels
  \/ NumberLoop \/ NextLevel

GraphNext == Process \/ Done

GraphSpec == GraphInit /\ [][GraphNext]_graphVars

\* processFIR is sequential code: it runs to its end.
GraphFairSpec == GraphSpec /\ WF_graphVars(Process)

-----------------------------------------------------------------------------
\* The loops of the task of l, in the order in which they run.
Chain(l) == fExtraLoops[l] \o <<l>>

\* The tasks: the loops that are on a level.
Tasks == UNION {V[k] : k \in DOMAIN V}

At(l, f) == {n \in DOMAIN Chain(l) : Chain(l)[n] = f}

\* Every loop with code is in one task, once: sorting and grouping emit the code
\* of no loop twice and lose none.
EachLoopOnce ==
  pc \in {"number", "done"} =>
    /\ \A j, k \in DOMAIN V : j # k => V[j] \cap V[k] = {}
    /\ \A f \in hasCode : \E l \in Tasks :
         /\ \E n \in DOMAIN Chain(l) : At(l, f) = {n}
         /\ \A m \in Tasks \ {l} : At(m, f) = {}

\* Running the chains of S in any order that respects the dependencies of the
\* tasks respects those of the loops: a loop that f reads from runs before f in the
\* same task, or is in a task that the one of f waits for.
ChainsKeep(S) ==
  \A l \in S : \A n \in DOMAIN Chain(l) : \A f \in deps[Chain(l)[n]] :
    \/ \E m \in 1 .. n - 1 : Chain(l)[m] = f
    \/ \E k \in fBackwardLoopDependencies[l] : At(k, f) # {}

DependenciesKept == pc = "done" => ChainsKeep(Tasks)

\* Loops become tasks without losing one, doubling one, or running one before what
\* it reads from (groupSeqLoops, sortGraph).
LoopsInOrder == EachLoopOnce /\ DependenciesKept

\* What the scheduler takes for granted: tasks have the numbers from 2 to
\* loop_count, each its own, those a task waits for are on later levels and have
\* smaller numbers, a task that waits for none is ready, the last stage are the
\* tasks nobody waits for, and outputs are the tasks that wait (computeForwardDAG).
DagIsSchedulable ==
  pc = "done" =>
    /\ {fIndex[l] : l \in Tasks} = START_TASK_MAX .. loop_count - 1
    /\ \A l, k \in Tasks : fIndex[l] = fIndex[k] => l = k
    /\ ToSet(ready_loop) = {fIndex[l] : l \in {k \in Tasks : fBackwardLoopDependencies[k] = {}}}
    /\ V[1] = {l \in Tasks : fForwardLoopDependencies[l] = {}}
    /\ \A l \in Tasks :
         /\ fForwardLoopDependencies[l] = {k \in Tasks : l \in fBackwardLoopDependencies[k]}
         /\ fBackwardLoopDependencies[l] \subseteq Tasks
         /\ \A f \in fBackwardLoopDependencies[l] :
              fOrder[f] > fOrder[l] /\ fIndex[f] < fIndex[l]

-----------------------------------------------------------------------------
(***************************************************************************)
(* The inductive invariant.                                                *)
(***************************************************************************)
\* The loops that have not become part of another one.
Separate == Loop \ UNION {ToSet(fExtraLoops[l]) : l \in Loop}

Given == /\ hasCode \in {Loop, Loop \ {Root}} /\ hasCode # {}
         /\ \A l \in Loop : \A f \in deps[l] : l < f
         /\ pc = "count" => /\ fBackwardLoopDependencies = deps
                            /\ fExtraLoops = [l \in Loop |-> << >>]

\* Only separate loops have others in their chain, and a loop is in one chain, once.
Chained ==
  /\ Root \in Separate
  /\ \A l \in Loop : fExtraLoops[l] # << >> => l \in Separate
  /\ \A l, m \in Loop : \A i \in DOMAIN fExtraLoops[l], j \in DOMAIN fExtraLoops[m] :
       fExtraLoops[l][i] = fExtraLoops[m][j] => l = m /\ i = j

\* Separate loops depend on separate ones, closed before them, and all are used.
Linked ==
  /\ \A l \in Loop : \A f \in fBackwardLoopDependencies[l] : l < f
  /\ \A l \in Separate : fBackwardLoopDependencies[l] \subseteq Separate
  /\ \A f \in Separate \ {Root} : \E l \in Separate : f \in fBackwardLoopDependencies[l]

Twice(s, x) == \E i, j \in DOMAIN s : i < j /\ s[i] = x /\ s[j] = x

\* A loop counted is going to be counted once more for each other loop that was
\* counted and depends on it.
Counting ==
  pc = "count" =>
    /\ fUseCount[Root] > 0 \/ Root \in ToSet(calls)
    /\ \A l \in Loop : \A f \in deps[l] :
         fUseCount[l] > 0 => fUseCount[f] > 0 \/ f \in ToSet(calls)
    /\ \A l, k \in Loop : \A f \in deps[l] \cap deps[k] :
         (l # k /\ fUseCount[l] > 0 /\ fUseCount[k] > 0) =>
           \/ fUseCount[f] > 1
           \/ fUseCount[f] = 1 /\ f \in ToSet(calls)
           \/ Twice(calls, f)

\* A loop that may become part of the only one that depends on it was not visited.
Grouping ==
  pc = "group" =>
    /\ ToSet(calls) \subseteq Separate
    /\ \A l, k \in Separate : l # k =>
         \A f \in fBackwardLoopDependencies[l] \cap fBackwardLoopDependencies[k] :
           fUseCount[f] # 1
    /\ \A l \in Separate : \A f \in Loop :
         fBackwardLoopDependencies[l] = {f} /\ fUseCount[f] = 1 =>
           fExtraLoops[f] = << >> /\ f \notin ToSet(calls)

\* A loop is behind those that depend on it, or about to be put there.
Sorting ==
  pc \in {"level", "erase"} =>
    /\ Len(V) = level /\ T1 \subseteq Separate
    /\ pc = "erase" => T1 = {} /\ level > 0
    /\ IF level = 0 THEN T1 = {Root} /\ fOrder = [l \in Loop |-> -1]
       ELSE Root \notin T1 /\ fOrder[Root] = 0
    /\ \A k \in 1 .. level : V[k] = {l \in Loop : fOrder[l] = k - 1}
    /\ \A l \in Loop : fOrder[l] < level /\ (fOrder[l] > -1 => l \in Separate)
    /\ \A l \in Loop : \A f \in fBackwardLoopDependencies[l] : fOrder[l] > -1 =>
         fOrder[f] > fOrder[l] \/ (fOrder[l] = level - 1 /\ f \in T1)
    /\ \A f \in T1 \ {Root} : \E l \in Loop : f \in fBackwardLoopDependencies[l]
                                              /\ fOrder[l] = level - 1
    /\ \A f \in Loop \ {Root} : fOrder[f] > -1 =>
         \E l \in Loop : f \in fBackwardLoopDependencies[l] /\ fOrder[l] >= fOrder[f] - 1

\* The levels that are left, and how many were erased before them.
Erased == IF isEmpty(Root) THEN 1 ELSE 0
Place(l) == fOrder[l] + 1 - Erased
Sorted ==
  pc \in {"number", "done"} =>
    /\ Len(V) > 0
    /\ \A k \in 1 .. Len(V) : V[k] = {l \in Loop : Place(l) = k}
    /\ \A l \in Loop : l \in Separate <=> fOrder[l] > -1
    /\ \A l \in Separate : Place(l) <= Len(V) /\ (fOrder[l] = 0 <=> l = Root)
    /\ \A l \in Separate : \A f \in fBackwardLoopDependencies[l] : fOrder[f] > fOrder[l]
    /\ \A f \in Separate \ {Root} : \E l \in Separate : f \in fBackwardLoopDependencies[l]
                                                /\ fOrder[l] >= fOrder[f] - 1

\* The loops of the levels behind the current one have their numbers, and those of
\* the current one that are not left.
Numbered == {l \in Loop : fIndex[l] # -1}
Numbering ==
  IF pc \in {"number", "done"}
  THEN /\ level \in 1 .. Len(V) /\ T1 \subseteq V[level]
       /\ pc = "done" => level = 1 /\ T1 = {}
       /\ Numbered = {l \in Separate : Place(l) > level \/ (Place(l) = level /\ l \notin T1)}
       /\ loop_count >= START_TASK_MAX
       /\ {fIndex[l] : l \in Numbered} = START_TASK_MAX .. loop_count - 1
       /\ \A l, k \in Numbered : fIndex[l] = fIndex[k] => l = k
       /\ \A l \in Numbered : \A f \in fBackwardLoopDependencies[l] :
            f \in Numbered /\ fIndex[f] < fIndex[l]
       /\ \A l \in Loop :
            fForwardLoopDependencies[l] = {k \in Numbered : l \in fBackwardLoopDependencies[k]}
       /\ ToSet(ready_loop) = {fIndex[l] : l \in {k \in Numbered : fBackwardLoopDependencies[k] = {}}}
  ELSE /\ Numbered = {} /\ ready_loop = << >>
       /\ fForwardLoopDependencies = [l \in Loop |-> {}]

GraphInv == /\ GraphTypeOK /\ Given /\ Chained /\ Linked /\ ChainsKeep(Separate)
            /\ Counting /\ Grouping /\ Sorting /\ Sorted /\ Numbering

-----------------------------------------------------------------------------
\* The walks end, although they visit shared loops again and again.
GraphTerminates == <>(pc = "done")
=============================================================================
