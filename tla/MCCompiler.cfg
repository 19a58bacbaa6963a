SPECIFICATION Spec
CONSTANTS Loop = {0, 1, 2, 3, 4}
INVARIANTS LoopsInOrder DagIsSchedulable CompiledIsMeaning ValuesAdmitted
           AppliedMatches FirstAppliedIfWhole SignalsMeanDiagram
PROPERTIES Terminates
\* The compiler ends, and the bounds end the calls of compute.
CHECK_DEADLOCK FALSE
