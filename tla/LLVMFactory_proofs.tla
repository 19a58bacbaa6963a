------------------------- MODULE LLVMFactory_proofs -------------------------
(***************************************************************************)
(* The cache of LLVM factories, for any programs, objects and bounds: one  *)
(* object per key; valid pointers when every pointer is counted; the error *)
(* handler in place when every factory was compiled.                       *)
(*                                                                         *)
(* Inv is inductive by itself.  CountedInv and CompiledInv add what holds  *)
(* under the two restrictions, and their proofs start from Inv' of the     *)
(* step.                                                                   *)
(***************************************************************************)
EXTENDS LLVMFactory, FiniteSetTheorems, TLAPS

-----------------------------------------------------------------------------
(***************************************************************************)
(* What a step does to the table and to the counter, one lemma per way in  *)
(* which the functions of the API end.                                     *)
(***************************************************************************)
\* The objects of the table are finitely many, at most one per address.
LEMMA TableFinite ==
  ASSUME FactoryAssumption, NEW T, T \subseteq Addresses \cup {NULL}
  PROVE  /\ IsFiniteSet(T) /\ Cardinality(T) \in Nat
         /\ IsFiniteSet(T \ {NULL}) /\ Cardinality(T \ {NULL}) \in Nat
         /\ Cardinality(T \ {NULL}) <= Cardinality(Addresses)
         /\ Cardinality(Addresses) \in Nat
<1>1. IsFiniteSet(Addresses)
  BY DEF FactoryAssumption
<1>2. T \ {NULL} \in SUBSET Addresses
  OBVIOUS
<1>3. IsFiniteSet(T \ {NULL}) /\ Cardinality(T \ {NULL}) <= Cardinality(Addresses)
  BY <1>1, <1>2, FS_Subset
<1>4. IsFiniteSet((T \ {NULL}) \cup {NULL})
  BY <1>3, FS_AddElement
<1>5. T \in SUBSET ((T \ {NULL}) \cup {NULL})
  OBVIOUS
<1>6. IsFiniteSet(T)
  BY <1>4, <1>5, FS_Subset
<1> QED
  BY <1>1, <1>3, <1>6, FS_CardinalityType

\* A new object (CheckDSPFactory) enters a table that has no factory of its key.
LEMMA NewKeepsInv ==
  ASSUME FactoryAssumption, Inv, NEW k \in Keys, NEW a \in Addresses,
         Found(k) = {}, CheckDSPFactory(k, a), UNCHANGED instances
  PROVE  Inv'
<1>1. a \notin table
  BY DEF CheckDSPFactory, Inv, SameFactory, TypeOK, FactoryAssumption
<1>2. TypeOK /\ a # NULL /\ NULL \notin Keys /\ MaxHandles \in Nat /\ MaxMissed \in Nat
  BY DEF Inv, FactoryAssumption
<1>3. /\ refs' = [refs EXCEPT ![a] = 1] /\ key' = [key EXCEPT ![a] = k]
      /\ table' = table \cup {a} /\ handles' = [handles EXCEPT ![a] = @ + 1]
      /\ gInstance' \in {gInstance, gInstance + 1} /\ gInstance' >= -MaxMissed
      /\ settings' = (settings \/ (k \in Programs /\ gInstance = 0))
      /\ refs[a] = 0 /\ handles[a] < MaxHandles
  BY <1>2 DEF CheckDSPFactory, Settings, Constructed, TypeOK
<1>4. gInstance' <= Cardinality(table' \ {NULL})
  <2>1. table' \ {NULL} = (table \ {NULL}) \cup {a} /\ a \notin table \ {NULL}
    BY <1>1, <1>2, <1>3
  <2>2. IsFiniteSet(table \ {NULL}) /\ Cardinality(table \ {NULL}) \in Nat
    BY <1>2, TableFinite DEF TypeOK
  <2>3. Cardinality(table' \ {NULL}) = Cardinality(table \ {NULL}) + 1
    BY <2>1, <2>2, FS_AddElement
  <2> QED
    BY <1>2, <1>3, <2>2, <2>3 DEF Inv, TypeOK
<1>5. SameFactory'
  BY <1>1, <1>2, <1>3 DEF Inv, SameFactory, TypeOK, Found
<1>6. \A b \in Addresses : refs'[b] <= handles'[b] /\ (b \notin table' => refs'[b] = 0)
  BY <1>1, <1>2, <1>3 DEF Inv, TypeOK
<1>7. TypeOK'
  <2>1. table' \subseteq Addresses \cup {NULL}
    BY <1>2, <1>3 DEF TypeOK
  <2>2. Cardinality(table' \ {NULL}) <= Cardinality(Addresses)
        /\ Cardinality(Addresses) \in Nat /\ Cardinality(table' \ {NULL}) \in Nat
    BY <2>1, TableFinite
  <2>3. gInstance' \in (-MaxMissed) .. Cardinality(Addresses)
    BY <1>2, <1>3, <1>4, <2>2 DEF TypeOK
  <2>4. /\ refs' \in [Addresses -> 0..MaxHandles]
        /\ key' \in [Addresses -> Keys \cup {NULL}]
        /\ handles' \in [Addresses -> 0..MaxHandles]
    BY <1>2, <1>3 DEF TypeOK
  <2>5. \A b \in Addresses : refs'[b] = 0 <=> key'[b] = NULL
    BY <1>2, <1>3 DEF TypeOK
  <2>6. settings' \in BOOLEAN
    BY <1>3
  <2> QED
    BY <1>2, <2>1, <2>3, <2>4, <2>5, <2>6 DEF TypeOK
<1> QED
  BY <1>4, <1>5, <1>6, <1>7 DEF Inv


\* A pointer that is handed out again (Shared) is one of the table's.
LEMMA SharedKeepsInv ==
  ASSUME FactoryAssumption, Inv, NEW a \in table \ {NULL}, Shared(a),
         UNCHANGED instances
  PROVE  Inv'
<1>1. TypeOK /\ a \in Addresses /\ a # NULL /\ MaxHandles \in Nat
  BY DEF Inv, TypeOK, FactoryAssumption
<1>2. refs[a] > 0 /\ refs[a] <= handles[a] /\ handles[a] < MaxHandles
  BY <1>1 DEF Inv, SameFactory, Shared
<1>3. TypeOK'
  BY <1>1, <1>2 DEF Shared, TypeOK
<1>4. SameFactory'
  BY <1>1, <1>2 DEF Inv, SameFactory, Shared, TypeOK
<1>5. \A b \in Addresses : refs'[b] <= handles'[b] /\ (b \notin table' => refs'[b] = 0)
  BY <1>1, <1>2 DEF Inv, Shared, TypeOK
<1>6. (gInstance <= Cardinality(table \ {NULL}))'
  BY DEF Inv, Shared
<1> QED
  BY <1>3, <1>4, <1>5, <1>6 DEF Inv

\* A compilation that fails (CheckFails) leaves at most a NULL in the table.
LEMMA FailKeepsInv ==
  ASSUME FactoryAssumption, Inv, NEW k \in Keys, CheckFails(k),
         table' \in {table, table \cup {NULL}}, UNCHANGED instances
  PROVE  Inv'
<1>1. TypeOK /\ MaxMissed \in Nat /\ table' \ {NULL} = table \ {NULL}
  BY DEF Inv, FactoryAssumption
<1>2. /\ gInstance' \in {gInstance, gInstance - 1} /\ gInstance' >= -MaxMissed
      /\ settings' \in BOOLEAN /\ UNCHANGED <<refs, key, handles>>
  BY <1>1 DEF CheckFails, Settings, Constructed, Destroyed, TypeOK
<1>3. gInstance' <= Cardinality(table' \ {NULL})
      /\ gInstance' \in (-MaxMissed) .. Cardinality(Addresses)
  <2>1. Cardinality(table \ {NULL}) \in Nat /\ Cardinality(Addresses) \in Nat
    BY <1>1, TableFinite DEF TypeOK
  <2> QED
    BY <1>1, <1>2, <2>1 DEF Inv, TypeOK
<1>4. TypeOK'
  BY <1>1, <1>2, <1>3 DEF TypeOK
<1>5. SameFactory'
  BY <1>1, <1>2 DEF Inv, SameFactory
<1>6. \A b \in Addresses : refs'[b] <= handles'[b] /\ (b \notin table' => refs'[b] = 0)
  BY <1>1, <1>2 DEF Inv
<1> QED
  BY <1>1, <1>3, <1>4, <1>5, <1>6 DEF Inv

\* Deleting a pointer removes its reference, the last one with the object.
LEMMA DeleteKeepsInv ==
  ASSUME FactoryAssumption, Inv, NEW a \in Addresses, deleteDSPFactory(a)
  PROVE  Inv'
<1>1. TypeOK /\ a # NULL /\ MaxHandles \in Nat /\ MaxMissed \in Nat
  BY DEF Inv, FactoryAssumption
<1>2. handles[a] > 0 /\ handles' = [handles EXCEPT ![a] = @ - 1] /\ UNCHANGED instances
  BY DEF deleteDSPFactory
<1>3. CASE a \in table /\ refs[a] + 1 = 2
  <2>1. /\ refs' = [refs EXCEPT ![a] = 0] /\ key' = [key EXCEPT ![a] = NULL]
        /\ table' = table \ {a}
        /\ gInstance' = gInstance - 1 /\ gInstance' >= -MaxMissed
        /\ settings' \in BOOLEAN
    BY <1>1, <1>3 DEF deleteDSPFactory, Settings, Destroyed, Current, TypeOK
  <2>2. gInstance' <= Cardinality(table' \ {NULL})
        /\ gInstance' \in (-MaxMissed) .. Cardinality(Addresses)
    <3>1. /\ Cardinality(table \ {NULL}) \in Nat /\ IsFiniteSet(table \ {NULL})
          /\ Cardinality(Addresses) \in Nat
      BY <1>1, TableFinite DEF TypeOK
    <3>2. table' \ {NULL} = (table \ {NULL}) \ {a} /\ a \in table \ {NULL}
      BY <1>1, <1>3, <2>1
    <3>3. Cardinality(table' \ {NULL}) = Cardinality(table \ {NULL}) - 1
      BY <3>1, <3>2, FS_RemoveElement
    <3> QED
      BY <1>1, <2>1, <3>1, <3>3 DEF Inv, TypeOK
  <2>3. TypeOK'
    BY <1>1, <1>2, <2>1, <2>2 DEF TypeOK
  <2>4. SameFactory'
    BY <1>1, <2>1 DEF Inv, SameFactory, TypeOK
  <2>5. \A b \in Addresses : refs'[b] <= handles'[b] /\ (b \notin table' => refs'[b] = 0)
    BY <1>1, <1>2, <2>1 DEF Inv, TypeOK
  <2> QED
    BY <2>2, <2>3, <2>4, <2>5 DEF Inv
<1>4. CASE a \in table /\ refs[a] + 1 # 2
  <2>1. refs' = [refs EXCEPT ![a] = @ - 1] /\ UNCHANGED <<key, table, gInstance, settings>>
    BY <1>4 DEF deleteDSPFactory
  <2>2. refs[a] > 1
    BY <1>1, <1>4 DEF Inv, SameFactory, TypeOK
  <2>3. TypeOK'
    BY <1>1, <1>2, <2>1, <2>2 DEF TypeOK
  <2>4. SameFactory'
    BY <1>1, <2>1, <2>2 DEF Inv, SameFactory, TypeOK
  <2>5. \A b \in Addresses : refs'[b] <= handles'[b] /\ (b \notin table' => refs'[b] = 0)
    BY <1>1, <1>2, <1>4, <2>1, <2>2 DEF Inv, TypeOK
  <2> QED
    BY <2>1, <2>3, <2>4, <2>5 DEF Inv
<1>5. CASE a \notin table
  <2>1. UNCHANGED <<refs, key, table, gInstance, settings>> /\ refs[a] = 0
    BY <1>5 DEF deleteDSPFactory, Inv
  <2>2. TypeOK'
    BY <1>1, <1>2, <2>1 DEF TypeOK
  <2>3. SameFactory'
    BY <2>1 DEF Inv, SameFactory
  <2>4. \A b \in Addresses : refs'[b] <= handles'[b] /\ (b \notin table' => refs'[b] = 0)
    BY <1>1, <1>2, <2>1 DEF Inv, TypeOK
  <2> QED
    BY <2>1, <2>2, <2>3, <2>4 DEF Inv
<1> QED
  BY <1>3, <1>4, <1>5

\* deleteAllDSPFactories empties the table and destroys what it held.
LEMMA DeleteAllKeepsInv ==
  ASSUME FactoryAssumption, Inv, deleteAllDSPFactories
  PROVE  Inv' /\ gInstance' = gInstance - Cardinality(table) /\ Cardinality(table') = 0
<1>1. TypeOK /\ MaxHandles \in Nat /\ MaxMissed \in Nat /\ NULL \notin table
  BY DEF Inv, FactoryAssumption, deleteAllDSPFactories, Readable
<1>2. table' = {} /\ Cardinality(table') = 0 /\ table' \ {NULL} = table'
  BY FS_EmptySet DEF deleteAllDSPFactories
<1>3. gInstance' = gInstance - Cardinality(table) /\ gInstance' >= -MaxMissed
      /\ settings' \in BOOLEAN
  BY <1>1 DEF deleteAllDSPFactories, Settings, Destroyed, Current, TypeOK
<1>4. /\ Cardinality(table) \in Nat /\ Cardinality(Addresses) \in Nat
      /\ table \ {NULL} = table
  BY <1>1, TableFinite DEF TypeOK
<1>5. gInstance' <= Cardinality(table' \ {NULL})
      /\ gInstance' \in (-MaxMissed) .. Cardinality(Addresses)
  BY <1>1, <1>2, <1>3, <1>4 DEF Inv, TypeOK
<1>6. TypeOK'
  BY <1>1, <1>2, <1>3, <1>5 DEF TypeOK, deleteAllDSPFactories
<1>7. SameFactory'
  BY <1>2 DEF SameFactory
<1>8. \A b \in Addresses : refs'[b] <= handles'[b] /\ (b \notin table' => refs'[b] = 0)
  BY <1>1, <1>2 DEF Inv, deleteAllDSPFactories, TypeOK
<1> QED
  BY <1>2, <1>3, <1>5, <1>6, <1>7, <1>8 DEF Inv

\* Inv is inductive.
LEMMA InvInductive ==
  ASSUME FactoryAssumption
  PROVE  (Init => Inv) /\ (Inv /\ [Next]_vars => Inv')
<1>1. Init => Inv
  <2>1. Cardinality({}) = 0 /\ {} \ {NULL} = {} /\ Cardinality(Addresses) \in Nat
    BY FS_EmptySet, FS_CardinalityType DEF FactoryAssumption
  <2>2. 0 <= MaxHandles /\ -MaxMissed <= 0 /\ MaxMissed \in Nat /\ MaxHandles \in Nat
    BY DEF FactoryAssumption
  <2>3. Init => TypeOK
    <3> SUFFICES ASSUME Init PROVE TypeOK
      OBVIOUS
    <3>1. gInstance \in (-MaxMissed) .. Cardinality(Addresses)
      BY <2>1, <2>2 DEF Init
    <3>2. settings \in BOOLEAN
      BY DEF Init
    <3>3. \A a \in Addresses : refs[a] = 0 <=> key[a] = NULL
      BY DEF Init
    <3> QED
      BY <2>2, <3>1, <3>2, <3>3 DEF Init, TypeOK
  <2>4. Init => SameFactory /\ gInstance <= Cardinality(table \ {NULL})
    BY <2>1 DEF Init, SameFactory
  <2> QED
    BY <2>3, <2>4 DEF Init, Inv
<1>2. ASSUME Inv, NEW k \in Keys, MakeFactory(k) \/ readDSPFactoryFromMachine(k) PROVE Inv'
  <2>1. UNCHANGED instances
    BY <1>2 DEF MakeFactory, readDSPFactoryFromMachine
  <2>2. CASE \E a \in Found(k) : Shared(a)
    BY <1>2, <2>1, <2>2, SharedKeepsInv DEF Found
  <2>3. CASE Found(k) = {} /\ \E a \in Addresses : CheckDSPFactory(k, a)
    BY <1>2, <2>1, <2>3, NewKeepsInv
  <2>4. CASE CheckFails(k) /\ table' \in {table, table \cup {NULL}}
    BY <1>2, <2>1, <2>4, FailKeepsInv
  <2> QED
    BY <1>2, <2>2, <2>3, <2>4 DEF MakeFactory, readDSPFactoryFromMachine
<1>3. ASSUME Inv, NEW k \in Keys, createDSPFactoryFromSHAKey(k) PROVE Inv'
  <2>1. PICK a \in Found(k) : /\ handles[a] < MaxHandles
                              /\ handles' = [handles EXCEPT ![a] = @ + 1]
    BY <1>3 DEF createDSPFactoryFromSHAKey
  <2>2. a \in Addresses /\ TypeOK /\ MaxHandles \in Nat
    BY <1>3 DEF Inv, TypeOK, Found, FactoryAssumption
  <2>3. UNCHANGED <<refs, key, table, instances, gInstance, settings>>
    BY <1>3 DEF createDSPFactoryFromSHAKey
  <2>4. TypeOK'
    BY <2>1, <2>2, <2>3 DEF TypeOK
  <2>5. \A b \in Addresses : refs'[b] <= handles'[b] /\ (b \notin table' => refs'[b] = 0)
    BY <1>3, <2>1, <2>2, <2>3 DEF Inv, TypeOK
  <2> QED
    BY <1>3, <2>3, <2>4, <2>5 DEF Inv, SameFactory
<1>4. ASSUME Inv, NEW a \in Addresses, createDSPInstance(a) \/ deleteDSPInstance(a)
      PROVE  Inv'
  BY <1>4 DEF Inv, TypeOK, SameFactory, createDSPInstance, deleteDSPInstance
<1>5. ASSUME Inv, UNCHANGED vars PROVE Inv'
  BY <1>5 DEF Inv, TypeOK, SameFactory, vars
<1> QED
  BY <1>1, <1>2, <1>3, <1>4, <1>5, DeleteKeepsInv, DeleteAllKeepsInv DEF Next


(***************************************************************************)
(* The theorems                                                            *)
(***************************************************************************)
\* Whatever is created, read, shared, looked up and deleted, in any order, the
\* same key gives the same object, and what is in the table is alive.
THEOREM SameObject ==
  ASSUME FactoryAssumption
  PROVE  Spec => [](SameFactory /\ Inv)
<1>1. Inv => SameFactory /\ Inv
  BY DEF Inv
<1> QED
  BY <1>1, InvInductive, PTL DEF Spec

\* When no caller looks a factory up by its key (createDSPFactoryFromSHAKey
\* returns a pointer it does not count), a pointer is valid until its holder
\* deletes it and the factory goes with its last holder; and when callers delete
\* instances before factories, the assertion of deleteDSPInstance holds.
THEOREM CountedPointers ==
  ASSUME FactoryAssumption, ~WithSHAKey, Careful
  PROVE  Spec => [](PointersValid /\ InstancesHaveFactory /\ CountedInv)
<1>1. Init => CountedInv
  <2>1. Init => Inv
    BY InvInductive
  <2>2. Init => \A a \in Addresses : refs[a] = handles[a] /\ instances[a] # 1
    BY DEF Init
  <2> QED
    BY <2>1, <2>2 DEF CountedInv, InstancesHaveFactory
<1>2. ASSUME CountedInv, [Next]_vars PROVE CountedInv'
  <2>1. Inv' /\ Inv /\ TypeOK /\ TypeOK' /\ MaxHandles \in Nat
    BY <1>2, InvInductive DEF CountedInv, Inv, FactoryAssumption
  <2>2. ASSUME NEW k \in Keys, MakeFactory(k) \/ readDSPFactoryFromMachine(k)
        PROVE  CountedInv'
    <3>1. UNCHANGED instances /\ table \subseteq table'
      BY <2>2 DEF MakeFactory, readDSPFactoryFromMachine, Shared, CheckDSPFactory
    <3>2. \A a \in Addresses : refs'[a] = handles'[a]
      <4>1. CASE \E a \in Found(k) : Shared(a)
        BY <1>2, <2>1, <4>1 DEF CountedInv, Found, Shared, TypeOK
      <4>2. CASE \E a \in Addresses : CheckDSPFactory(k, a)
        BY <1>2, <2>1, <4>2 DEF CountedInv, CheckDSPFactory, TypeOK
      <4>3. CASE CheckFails(k)
        BY <1>2, <4>3 DEF CountedInv, CheckFails
      <4> QED
        BY <2>2, <4>1, <4>2, <4>3 DEF MakeFactory, readDSPFactoryFromMachine
    <3> QED
      BY <1>2, <2>1, <3>1, <3>2 DEF CountedInv, InstancesHaveFactory
  <2>3. ASSUME NEW a \in Addresses, deleteDSPFactory(a) PROVE CountedInv'
    <3>1. handles[a] > 0 /\ handles' = [handles EXCEPT ![a] = @ - 1]
          /\ (handles[a] = 1 => instances[a] = 0) /\ UNCHANGED instances
      BY <2>3 DEF deleteDSPFactory
    <3>2. a \in table /\ refs[a] = handles[a]
      BY <1>2, <2>1, <3>1 DEF CountedInv, Inv, TypeOK
    <3>3. CASE refs[a] + 1 = 2
      <4>1. table' = table \ {a} /\ refs' = [refs EXCEPT ![a] = 0]
        BY <2>3, <3>2, <3>3 DEF deleteDSPFactory
      <4>2. instances[a] = 0
        BY <2>1, <3>1, <3>2, <3>3 DEF TypeOK
      <4> QED
        BY <1>2, <2>1, <3>1, <3>2, <3>3, <4>1, <4>2
           DEF CountedInv, InstancesHaveFactory, TypeOK
    <3>4. CASE refs[a] + 1 # 2
      <4>1. table' = table /\ refs' = [refs EXCEPT ![a] = @ - 1]
        BY <2>3, <3>2, <3>4 DEF deleteDSPFactory
      <4> QED
        BY <1>2, <2>1, <3>1, <3>2, <4>1 DEF CountedInv, InstancesHaveFactory, TypeOK
    <3> QED
      BY <3>3, <3>4
  <2>4. CASE deleteAllDSPFactories
    BY <1>2, <2>1, <2>4 DEF CountedInv, Inv, InstancesHaveFactory, deleteAllDSPFactories, TypeOK
  <2>5. ASSUME NEW a \in Addresses, createDSPInstance(a) \/ deleteDSPInstance(a)
        PROVE  CountedInv'
    BY <1>2, <2>1, <2>5
       DEF CountedInv, InstancesHaveFactory, createDSPInstance, deleteDSPInstance, TypeOK
  <2>6. CASE UNCHANGED vars
    BY <1>2, <2>1, <2>6 DEF CountedInv, InstancesHaveFactory, vars
  <2> QED
    BY <1>2, <2>2, <2>3, <2>4, <2>5, <2>6 DEF Next, createDSPFactoryFromSHAKey
<1>3. CountedInv => PointersValid /\ InstancesHaveFactory
  BY DEF CountedInv, Inv, SameFactory, PointersValid, TypeOK, FactoryAssumption
<1> QED
  BY <1>1, <1>2, <1>3, PTL DEF Spec

\* When every factory was compiled in this process, gInstance counts the table, so
\* the error handler stays as long as there is a compiled factory.
THEOREM HandlerStays ==
  ASSUME FactoryAssumption, Bitcodes = {}, Machines = {}
  PROVE  Spec => [](HandlerInstalled /\ CompiledInv)
<1>1. Init => CompiledInv
  <2>1. Cardinality({}) = 0
    BY FS_EmptySet
  <2>2. Init => (settings <=> gInstance > 0)
    BY DEF Init
  <2> QED
    BY <2>1, <2>2, InvInductive DEF Init, CompiledInv
<1>2. ASSUME CompiledInv, [Next]_vars PROVE CompiledInv'
  <2>1. Inv' /\ Inv /\ TypeOK /\ gInstance \in Int /\ settings \in BOOLEAN /\ Keys = Programs
    BY <1>2, InvInductive DEF CompiledInv, Inv, TypeOK, Keys, FactoryAssumption
  <2>2. IsFiniteSet(table) /\ Cardinality(table) \in Nat /\ gInstance \in Nat
    BY <1>2, <2>1, TableFinite DEF TypeOK, CompiledInv
  <2>3. ASSUME NEW k \in Keys, MakeFactory(k) PROVE CompiledInv'
    <3>1. CASE \E a \in Found(k) : Shared(a)
      BY <1>2, <2>1, <3>1 DEF CompiledInv, Shared
    <3>2. ASSUME NEW a \in Addresses, CheckDSPFactory(k, a) PROVE CompiledInv'
      <4>1. a \notin table /\ a # NULL
        BY <2>1, <3>2 DEF CheckDSPFactory, Inv, SameFactory, TypeOK, FactoryAssumption
      <4>2. table' = table \cup {a} /\ gInstance' = gInstance + 1
            /\ settings' = (settings \/ gInstance = 0)
        BY <2>1, <3>2 DEF CheckDSPFactory, Settings, Constructed
      <4>3. Cardinality(table') = Cardinality(table) + 1
        BY <2>2, <4>1, <4>2, FS_AddElement
      <4>4. gInstance' > 0 /\ (gInstance > 0 \/ gInstance = 0)
        BY <2>2, <4>2
      <4>5. settings' <=> gInstance' > 0
        BY <1>2, <4>2, <4>4, Zenon DEF CompiledInv
      <4> QED
        BY <1>2, <2>1, <4>1, <4>2, <4>3, <4>5 DEF CompiledInv
    <3>3. CASE CheckFails(k) /\ UNCHANGED table
      <4>1. gInstance' = gInstance
            /\ settings' = ((settings \/ gInstance = 0) /\ ~(gInstance + 1 \in 1..1))
        BY <2>1, <3>3 DEF CheckFails, Settings, Constructed, Destroyed
      <4>2. gInstance + 1 \in 1..1 <=> gInstance = 0
        BY <2>2
      <4>3. gInstance > 0 <=> gInstance # 0
        BY <2>2
      <4>4. settings' <=> gInstance > 0
        BY <1>2, <4>1, <4>2, <4>3, Zenon DEF CompiledInv
      <4> QED
        BY <1>2, <2>1, <3>3, <4>1, <4>4 DEF CompiledInv
    <3> QED
      BY <2>3, <3>1, <3>2, <3>3 DEF MakeFactory
  <2>4. ASSUME NEW a \in Addresses, deleteDSPFactory(a) PROVE CompiledInv'
    <3>1. CASE a \in table /\ refs[a] + 1 = 2
      <4>1. table' = table \ {a} /\ gInstance' = gInstance - 1
            /\ settings' = (settings /\ ~(gInstance \in 1..1))
        BY <2>4, <3>1 DEF deleteDSPFactory, Settings, Destroyed, Current
      <4>2. Cardinality(table') = Cardinality(table) - 1
        BY <2>2, <3>1, <4>1, FS_RemoveElement
      <4>3. gInstance' > 0 <=> gInstance > 0 /\ ~(gInstance \in 1..1)
        BY <2>2, <4>1
      <4>4. settings' <=> gInstance' > 0
        BY <1>2, <4>1, <4>3, Zenon DEF CompiledInv
      <4> QED
        BY <1>2, <2>1, <4>1, <4>2, <4>4 DEF CompiledInv
    <3>2. CASE UNCHANGED <<table, gInstance, settings>>
      BY <1>2, <2>1, <3>2 DEF CompiledInv
    <3> QED
      BY <2>4, <3>1, <3>2 DEF deleteDSPFactory
  <2>5. CASE deleteAllDSPFactories
    <3>1. table' = {} /\ Cardinality(table') = 0 /\ gInstance' = 0
      BY <1>2, <2>1, <2>2, <2>5, DeleteAllKeepsInv DEF CompiledInv, deleteAllDSPFactories
    <3>2. settings' = (settings /\ ~(gInstance \in 1..Cardinality(table)))
      BY <2>5 DEF deleteAllDSPFactories, Settings, Destroyed, Current
    <3>3. gInstance > 0 <=> gInstance \in 1..Cardinality(table)
      BY <1>2, <2>2 DEF CompiledInv
    <3>4. ~(gInstance' > 0)
      BY <3>1
    <3>5. settings' <=> gInstance' > 0
      BY <1>2, <3>2, <3>3, <3>4, Zenon DEF CompiledInv
    <3> QED
      BY <2>1, <3>1, <3>5 DEF CompiledInv
  <2>6. CASE UNCHANGED <<table, gInstance, settings>>
    BY <1>2, <2>1, <2>6 DEF CompiledInv
  <2> QED
    BY <1>2, <2>3, <2>4, <2>5, <2>6
       DEF Next, vars, readDSPFactoryFromMachine, createDSPFactoryFromSHAKey,
           createDSPInstance, deleteDSPInstance
<1>3. CompiledInv => HandlerInstalled
  <2> SUFFICES ASSUME CompiledInv, NEW a \in table \ {NULL} PROVE settings
    BY DEF HandlerInstalled
  <2>1. Cardinality(table) \in Nat /\ IsFiniteSet(table)
    BY TableFinite DEF CompiledInv, Inv, TypeOK
  <2>2. Cardinality(table) # 0
    BY <2>1, FS_EmptySet
  <2> QED
    BY <2>1, <2>2 DEF CompiledInv
<1> QED
  BY <1>1, <1>2, <1>3, PTL DEF Spec
=============================================================================
