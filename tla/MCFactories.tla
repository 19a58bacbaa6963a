---------------------------- MODULE MCFactories ----------------------------
(***************************************************************************)
(* The two caches of factories, the one libfaust keeps of LLVM factories   *)
(* and the one a client keeps of those it has on a remote server, on small *)
(* instances.  part says which instance a behaviour is of; the variables   *)
(* of the other module stay put.                                           *)
(***************************************************************************)
EXTENDS Integers

CONSTANTS CachePrograms, CountedPrograms, CompiledPrograms,
          Bitcodes, Machines, Addresses, MaxHandles, MaxMissed, NoAddress,
          NKeys, Options, NProxies, MaxRefs, MaxInstances

VARIABLES part,
          refs, key, table, instances, handles, gInstance, settings,
          available, proxy, handed, last, restarted

llvmVars == <<refs, key, table, instances, handles, gInstance, settings>>
remoteVars == <<available, proxy, handed, last, restarted>>
vars == <<part, llvmVars, remoteVars>>

\* Programs, bitcode and machine code, looked up by key as well.
Cache == INSTANCE LLVMFactory_proofs WITH
    NULL <- NoAddress, Programs <- CachePrograms,
    WithSHAKey <- TRUE, Careful <- TRUE

\* No lookup by key, which returns a pointer without counting it.
Counted == INSTANCE LLVMFactory_proofs WITH
    NULL <- NoAddress, Programs <- CountedPrograms, Machines <- {},
    WithSHAKey <- FALSE, Careful <- TRUE

\* Compiled programs only.
Compiled == INSTANCE LLVMFactory_proofs WITH
    NULL <- NoAddress, Programs <- CompiledPrograms, Bitcodes <- {},
    Machines <- {}, WithSHAKey <- TRUE, Careful <- TRUE

\* The client of a server that may restart.
Client == INSTANCE RemoteDSP

ASSUME CacheAssumption == Cache!FactoryAssumption
ASSUME CountedAssumption == Counted!FactoryAssumption
ASSUME CompiledAssumption == Compiled!FactoryAssumption
ASSUME ClientAssumption == Client!ClientAssumption

Init == /\ part \in {"cache", "counted", "compiled", "client"}
        /\ Cache!Init /\ Client!Init

Next == \/ part = "cache" /\ Cache!Next /\ UNCHANGED <<part, remoteVars>>
        \/ part = "counted" /\ Counted!Next /\ UNCHANGED <<part, remoteVars>>
        \/ part = "compiled" /\ Compiled!Next /\ UNCHANGED <<part, remoteVars>>
        \/ part = "client" /\ Client!Next /\ UNCHANGED <<part, llvmVars>>

Spec == Init /\ [][Next]_vars

-----------------------------------------------------------------------------
(* LLVM: the same program or saved factory gives the same object, which is *)
(* alive (getFactory, createDSPFactoryFromString, readDSPFactoryFrom...).  *)
SameFactory == part = "cache" => Cache!SameFactory /\ Cache!Inv

(* LLVM: a pointer is valid until its holder deletes it, and the factory   *)
(* goes with its last holder; the factory of an instance is in the table,  *)
(* as deleteDSPInstance asserts, when callers delete instances first       *)
(* (deleteDSPFactory).                                                     *)
PointersValid == part = "counted" => /\ Counted!PointersValid
                                     /\ Counted!InstancesHaveFactory
                                     /\ Counted!CountedInv

(* LLVM: the error handler stays while there is a compiled factory         *)
(* (constructor and destructor of llvm_dsp_factory).                       *)
HandlerInstalled == part = "compiled" => Compiled!HandlerInstalled /\ Compiled!CompiledInv

(* Remote: a factory that createRemoteDSPFactoryFromString returns can be  *)
(* instantiated on the server, whatever is lost or garbled on the way, as  *)
(* long as the cache holds none that a restart of the server forgot.       *)
CreatedAreValid == part = "client" => Client!CreatedAreValid /\ Client!Inv

(* Remote: a factory has the key that was asked for and one reference per  *)
(* pointer handed out, from the cache or the server, across restarts.      *)
ReferencesCounted == part = "client" => Client!ReferencesCounted
=============================================================================
