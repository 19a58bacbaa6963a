CONSTANTS CachePrograms = {p1}  CountedPrograms = {p1, p2}
          CompiledPrograms = {p1, p2, p3}  Bitcodes = {b1}  Machines = {m1}
          Addresses = {a1, a2, a3}  NoAddress = NoAddress
          MaxHandles = 2  MaxMissed = 2
          NKeys = 2  Options = {"scalar", "vec"}  NProxies = 2  MaxRefs = 2
          MaxInstances = 1
SPECIFICATION Spec
INVARIANTS SameFactory PointersValid HandlerInstalled
           CreatedAreValid ReferencesCounted
\* Reading machine code can leave a NULL in the table, which ends the program.
CHECK_DEADLOCK FALSE
