----------------------------- MODULE LLVMFactory -----------------------------
(***************************************************************************)
(* The cache of LLVM factories of libfaust (llvm_dsp_aux.cpp): factories   *)
(* compiled from a program or read from bitcode, IR or machine code, the   *)
(* references callers hold, their instances, and the LLVM settings that go *)
(* with the first factory and leave with the last.                         *)
(***************************************************************************)
EXTENDS Integers, FiniteSets

CONSTANTS Programs,    \* SHA keys of expanded programs with their options
          Bitcodes,    \* SHA keys of bitcode or IR
          Machines,    \* SHA keys of machine code
          Addresses,   \* bound: llvm_dsp_factory objects
          WithSHAKey,  \* whether callers use createDSPFactoryFromSHAKey
          Careful,     \* whether callers delete instances before factories
          MaxHandles,  \* bound: pointers held to one factory
          MaxMissed,   \* bound: how far below zero gInstance may fall
          NULL

Keys == Programs \cup Bitcodes \cup Machines

\* Assumed of the constants.
FactoryAssumption ==
    /\ {WithSHAKey, Careful} \subseteq BOOLEAN
    /\ NULL \notin Addresses \cup Keys
    /\ IsFiniteSet(Addresses)
    /\ {MaxHandles, MaxMissed} \subseteq Nat

VARIABLES refs,        \* refCount of each object, 0 when it is not allocated
          key,         \* its fSHAKey
          table,       \* the keys of gFactoryTable
          instances,   \* of each address: llvm_dsp_aux made by the factory
          handles,     \* history: pointers the callers hold
          gInstance,
          settings     \* the error handler and multi-threading are on

vars == <<refs, key, table, instances, handles, gInstance, settings>>

TypeOK ==
    /\ refs \in [Addresses -> 0..MaxHandles]
    /\ key \in [Addresses -> Keys \cup {NULL}]
    /\ \A a \in Addresses : refs[a] = 0 <=> key[a] = NULL
    /\ table \subseteq Addresses \cup {NULL}
    /\ instances \in [Addresses -> 0..1]
    /\ handles \in [Addresses -> 0..MaxHandles]
    /\ gInstance \in (-MaxMissed)..Cardinality(Addresses)
    /\ settings \in BOOLEAN

Init ==
    /\ refs = [a \in Addresses |-> 0]
    /\ key = [a \in Addresses |-> NULL]
    /\ table = {} /\ settings = FALSE /\ gInstance = 0
    /\ instances = [a \in Addresses |-> 0]
    /\ handles = [a \in Addresses |-> 0]

(* getFactory dereferences every key of the table: it does not return once *)
(* the table holds NULL.                                                   *)
Found(k) == {a \in table \ {NULL} : key[a] = k}
Readable == NULL \notin table

(***************************************************************************)
(* Construction and destruction of factories.  Only the constructor that   *)
(* compiles counts; the destructor always does.                            *)
(***************************************************************************)
Constructed(k) ==
    [gInstance |-> gInstance + (IF k \in Programs THEN 1 ELSE 0),
     settings  |-> settings \/ (k \in Programs /\ gInstance = 0)]

(* Variant: the settings leave one factory too early.                      *)
DestroyedEarly(s, n) ==
    [gInstance |-> s.gInstance - n,
     settings  |-> s.settings /\ ~(s.gInstance \in 1..(n + 1))]

(* ~llvm_dsp_factory, n times, from gInstance and settings as in s         *)
Destroyed(s, n) ==
    [gInstance |-> s.gInstance - n,
     settings  |-> s.settings /\ ~(s.gInstance \in 1..n)]

Settings(s) ==
    /\ s.gInstance >= -MaxMissed
    /\ gInstance' = s.gInstance /\ settings' = s.settings

Current == [gInstance |-> gInstance, settings |-> settings]

(* CheckDSPFactory: the new object at a, or none when initJIT fails.       *)
CheckDSPFactory(k, a) ==
    /\ refs[a] = 0 /\ handles[a] < MaxHandles
    /\ refs' = [refs EXCEPT ![a] = 1]
    /\ key' = [key EXCEPT ![a] = k]
    /\ table' = table \cup {a}
    /\ handles' = [handles EXCEPT ![a] = @ + 1]
    /\ Settings(Constructed(k))

CheckFails(k) ==
    /\ Settings(Destroyed(Constructed(k), 1))
    /\ UNCHANGED <<refs, key, handles>>

(* The factory of the table is returned with a new reference.              *)
Shared(a) ==
    /\ handles[a] < MaxHandles
    /\ refs' = [refs EXCEPT ![a] = @ + 1]
    /\ handles' = [handles EXCEPT ![a] = @ + 1]
    /\ UNCHANGED <<key, table, gInstance, settings>>

(***************************************************************************)
(* The functions of the API.                                               *)
(***************************************************************************)
(* createDSPFactoryFromString and readDSPFactoryFromBitcode (or IR)        *)
MakeFactory(k) ==
    /\ k \in Programs \cup Bitcodes /\ Readable
    /\ \/ \E a \in Found(k) : Shared(a)
       \/ /\ Found(k) = {}
          /\ \/ \E a \in Addresses : CheckDSPFactory(k, a)
             \/ CheckFails(k) /\ UNCHANGED table
    /\ UNCHANGED instances

(* Variant: what is read is not looked for first.                          *)
readUnshared(k) ==
    /\ k \in Machines /\ Readable
    /\ \/ \E a \in Addresses : CheckDSPFactory(k, a)
       \/ CheckFails(k) /\ table' = table \cup {NULL}
    /\ UNCHANGED instances

(* readDSPFactoryFromMachine puts what CheckDSPFactory returns in the      *)
(* table, also when it is NULL.                                            *)
readDSPFactoryFromMachine(k) ==
    /\ k \in Machines /\ Readable
    /\ \/ \E a \in Found(k) : Shared(a)
       \/ /\ Found(k) = {}
          /\ \/ \E a \in Addresses : CheckDSPFactory(k, a)
             \/ CheckFails(k) /\ table' = table \cup {NULL}
    /\ UNCHANGED instances

(* The pointer is returned without a new reference.                        *)
createDSPFactoryFromSHAKey(k) ==
    /\ WithSHAKey /\ Readable
    /\ \E a \in Found(k) :
        /\ handles[a] < MaxHandles
        /\ handles' = [handles EXCEPT ![a] = @ + 1]
    /\ UNCHANGED <<refs, key, table, instances, gInstance, settings>>

(* Variant: the local reference is forgotten in the comparison.            *)
DeleteAtOne(a) ==
    /\ handles[a] > 0
    /\ handles' = [handles EXCEPT ![a] = @ - 1]
    /\ Careful /\ handles[a] = 1 => instances[a] = 0
    /\ IF a \in table /\ refs[a] = 2
       THEN /\ table' = table \ {a}
            /\ refs' = [refs EXCEPT ![a] = 0]
            /\ key' = [key EXCEPT ![a] = NULL]
            /\ Settings(Destroyed(Current, 1))
       ELSE /\ refs' = [refs EXCEPT ![a] = IF @ > 1 THEN @ - 1 ELSE @]
            /\ UNCHANGED <<key, table, gInstance, settings>>
    /\ UNCHANGED instances

(* deleteDSPFactory: with the reference of its own local pointer, the last *)
(* holder sees two.  A pointer that is not in the table is ignored.        *)
deleteDSPFactory(a) ==
    /\ handles[a] > 0
    /\ handles' = [handles EXCEPT ![a] = @ - 1]
    /\ Careful /\ handles[a] = 1 => instances[a] = 0
    /\ \/ /\ a \in table /\ refs[a] + 1 = 2
          /\ table' = table \ {a}
          /\ refs' = [refs EXCEPT ![a] = 0]
          /\ key' = [key EXCEPT ![a] = NULL]
          /\ Settings(Destroyed(Current, 1))
       \/ /\ a \in table /\ refs[a] + 1 # 2
          /\ refs' = [refs EXCEPT ![a] = @ - 1]
          /\ UNCHANGED <<key, table, gInstance, settings>>
       \/ /\ a \notin table
          /\ UNCHANGED <<refs, key, table, gInstance, settings>>
    /\ UNCHANGED instances

(* All pointers become invalid, as the header says.                        *)
deleteAllDSPFactories ==
    /\ Readable
    /\ Careful => \A a \in Addresses : instances[a] = 0
    /\ refs' = [a \in Addresses |-> IF a \in table THEN 0 ELSE refs[a]]
    /\ table' = {}
    /\ handles' = [a \in Addresses |-> 0]
    /\ key' = [a \in Addresses |-> IF a \in table THEN NULL ELSE key[a]]
    /\ Settings(Destroyed(Current, Cardinality(table)))
    /\ UNCHANGED instances

createDSPInstance(a) ==
    /\ handles[a] > 0 /\ a \in table /\ instances[a] = 0
    /\ instances' = [instances EXCEPT ![a] = 1]
    /\ UNCHANGED <<refs, key, table, handles, gInstance, settings>>

(* deleteDSPInstance looks its factory up, which must be there.            *)
deleteDSPInstance(a) ==
    /\ instances[a] = 1
    /\ instances' = [instances EXCEPT ![a] = 0]
    /\ UNCHANGED <<refs, key, table, handles, gInstance, settings>>

Next ==
    \/ \E k \in Keys : MakeFactory(k)
    \/ \E k \in Keys : readDSPFactoryFromMachine(k)
    \/ \E k \in Keys : createDSPFactoryFromSHAKey(k)
    \/ \E a \in Addresses : deleteDSPFactory(a)
    \/ deleteAllDSPFactories
    \/ \E a \in Addresses : createDSPInstance(a) \/ deleteDSPInstance(a)

Spec == Init /\ [][Next]_vars

(***************************************************************************)
(* Properties                                                              *)
(***************************************************************************)

(* The same program, or the same saved factory, always gives the same      *)
(* object: no key is twice in the table (getFactory before every           *)
(* insertion), and what is in the table is alive.                          *)
SameFactory ==
    /\ \A a, b \in table \ {NULL} : key[a] = key[b] => a = b
    /\ \A a \in table \ {NULL} : refs[a] > 0

(* A pointer is valid as long as its holder has not deleted it, and the    *)
(* factory goes with its last holder (llvm-dsp.h: "the same (reference     *)
(* counted) factory pointer").                                             *)
PointersValid == \A a \in Addresses : handles[a] > 0 <=> a \in table

(* The error handler the first compilation installs stays as long as there *)
(* is a compiled factory (constructor and destructor of llvm_dsp_factory). *)
HandlerInstalled ==
    \A a \in table \ {NULL} : key[a] \in Programs => settings

(* gFactoryTable holds factories only: getFactory dereferences them all    *)
(* (the assertion "checks for null dereference" of SMARTP).                *)
NoNullFactory == NULL \notin table

(* The assertion of deleteDSPInstance: the factory of an instance is in    *)
(* the table.                                                              *)
InstancesHaveFactory == \A a \in Addresses : instances[a] = 1 => a \in table

(* What the functions of the API rely on from call to call: the references *)
(* counted are among the pointers held, an object outside the table is     *)
(* gone, and gInstance is never above the number of factories.             *)
Inv ==
    /\ TypeOK
    /\ SameFactory
    /\ \A a \in Addresses : /\ refs[a] <= handles[a]
                            /\ a \notin table => refs[a] = 0
    /\ gInstance <= Cardinality(table \ {NULL})

(* Without lookups by key every pointer is counted.                        *)
CountedInv ==
    /\ Inv
    /\ \A a \in Addresses : refs[a] = handles[a]
    /\ InstancesHaveFactory

(* With compiled factories only, gInstance counts the table, and the       *)
(* settings are on exactly when there is a factory.                        *)
CompiledInv ==
    /\ Inv
    /\ NULL \notin table
    /\ gInstance = Cardinality(table)
    /\ settings <=> gInstance > 0
=============================================================================
