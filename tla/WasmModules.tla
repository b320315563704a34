----------------------------- MODULE WasmModules -----------------------------
(***************************************************************************)
(* Four parts of the life of a WasmModule: where its code, its memory and  *)
(* its globals come from (ModuleCache), its linear memory (WasmMemory),    *)
(* its dynamic libraries (DynLink) and, on hosts that run functions in SGX *)
(* enclaves, the module inside (Enclave).  Each part moves while the       *)
(* others are as they were first.                                          *)
(***************************************************************************)
EXTENDS ModuleCache, WasmMemory, DynLink, Enclave

moduleVars == <<cacheVars, memoryVars, dynVars, enclaveVars>>

Init == CacheInit /\ MemoryInit /\ DynInit /\ EnclaveInit

CacheAtRest == CacheInit /\ quiesced

Next ==
    \/ /\ MemoryInit /\ DynInit /\ EnclaveInit
       /\ CacheNext /\ UNCHANGED <<memoryVars, dynVars, enclaveVars>>
    \/ /\ CacheAtRest /\ DynInit /\ EnclaveInit
       /\ MemoryNext /\ UNCHANGED <<cacheVars, dynVars, enclaveVars>>
    \/ /\ CacheAtRest /\ MemoryInit /\ EnclaveInit
       /\ DynNext /\ UNCHANGED <<cacheVars, memoryVars, enclaveVars>>
    \/ /\ CacheAtRest /\ MemoryInit /\ DynInit
       /\ EnclaveNext /\ UNCHANGED <<cacheVars, memoryVars, dynVars>>

Spec == Init /\ [][Next]_moduleVars
=============================================================================
