------------------------------ MODULE MCTables ------------------------------
(***************************************************************************)
(* The tables that callers on several sides share: the handle tables of    *)
(* component instances, the waiters of an address, the store's registry of *)
(* modules, the engine's cache of compiled code, or its pool of stacks.    *)
(***************************************************************************)
EXTENDS HandleTable, AtomicWait, ModuleRegistry, CodeCache, StackPool

CONSTANTS instA, instB, hostSide

VARIABLE object

Init ==
    /\ object \in {"handles", "waiters", "registry", "code", "stacks"}
    /\ HandleInit /\ WaitInit /\ RegistryInit /\ CacheInit /\ StackInit
    /\ object # "handles" => definer = hostSide
    /\ object # "code" => ~file

Next ==
    /\ UNCHANGED object
    /\ \/ object = "handles" /\ HandleNext /\ UNCHANGED <<waitVars, registryVars, cacheVars, stackVars>>
       \/ object = "waiters" /\ WaitNext /\ UNCHANGED <<handleVars, registryVars, cacheVars, stackVars>>
       \/ object = "registry" /\ RegistryNext /\ UNCHANGED <<handleVars, waitVars, cacheVars, stackVars>>
       \/ object = "code" /\ CacheNext /\ UNCHANGED <<handleVars, waitVars, registryVars, stackVars>>
       \/ object = "stacks" /\ StackNext /\ UNCHANGED <<handleVars, waitVars, registryVars, cacheVars>>

Spec == Init /\ [][Next]_<<object, handleVars, waitVars, registryVars, cacheVars, stackVars>>

\* The type invariants of the five tables.
TablesTypeOK == HandleTypeOK /\ WaitTypeOK /\ RegistryTypeOK /\ CacheTypeOK /\ StackTypeOK
=============================================================================
