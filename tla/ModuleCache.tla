----------------------------- MODULE ModuleCache -----------------------------
(***************************************************************************)
(* The caches between a function's stored files and the Faaslets of a      *)
(* worker that run it: the FileLoader's local files, the IRModuleCache,    *)
(* the WAVMModuleCache whose bound module Faaslets are cloned from, the    *)
(* zygote snapshot in global state and the reset snapshot.  Faaslets bind, *)
(* run and reset while the function is updated and the host is flushed.    *)
(* One function; each version is a number.                                 *)
(***************************************************************************)
EXTENDS Naturals, FiniteSets

CONSTANTS
    Faaslets,
    MaxVersion,         \* versions of the function that are uploaded
    FlushClearsState,   \* the flush empties the global state too
    None

ASSUME OneVersion == MaxVersion \in Nat \ {0} /\ FlushClearsState \in BOOLEAN

(* What stands for nothing is no version, no Faaslet and no module.        *)
ASSUME NoneIsNothing ==
    /\ None \notin Nat /\ None \notin Faaslets
    /\ None \notin [bound : BOOLEAN, code : Nat, mem : Nat]
    /\ None \notin [ir : Nat, code : Nat]

Uploaded == 1..MaxVersion
NoModule == 0              \* what operator[] makes of a missing IR module

VARIABLES
    quiesced,       \* no Faaslet runs from an update to the end of its flush
    stored,         \* version in the object store
    wasmFile, objectFile,   \* the FileLoader's local files
    ir,             \* moduleMap
    compiledIr,       \* compiledModuleMap: [ir, code] a module is compiled from
    entry,          \* cachedModuleMap: [bound, code, mem]
    building,       \* the compiled module that the entry's bind has got
    writer,         \* who has the FullLock of the module cache across steps
    zygote,         \* the state key $function
    resetSnapshot,  \* the snapshot registry's function_reset
    mod,            \* faaslet |-> its module: [code, globals, mem]
    step, job,        \* faaslet |-> where it is in "bind" or "reset"
    held,           \* faaslets whose reference is to the entry there is
    need,           \* faaslet |-> version the last flush before it was for
    flush,          \* where flushHost is
    updated         \* version the last finished flush was for

files == <<wasmFile, objectFile>>
caches == <<ir, compiledIr>>
cacheMap == <<entry, building, writer>>
snapshots == <<zygote, resetSnapshot>>
faaslet == <<mod, step, job, need>>
system == <<stored, flush, updated>>
cacheVars == <<quiesced, files, caches, cacheMap, held, snapshots, faaslet, system>>

EmptyEntry == [bound |-> FALSE, code |-> NoModule, mem |-> NoModule]
Module(code, globals, mem) == [code |-> code, globals |-> globals, mem |-> mem]

CacheInit ==
    /\ quiesced \in BOOLEAN
    /\ stored = 1 /\ flush = "none" /\ updated = 1
    /\ wasmFile = None /\ objectFile = None
    /\ ir = None /\ compiledIr = None
    /\ entry = None /\ building = None /\ writer = None /\ held = {}
    /\ zygote = None /\ resetSnapshot = None
    /\ mod = [f \in Faaslets |-> None]
    /\ step = [f \in Faaslets |-> "none"]
    /\ job = [f \in Faaslets |-> "bind"]
    /\ need = [f \in Faaslets |-> 1]

AtStep(f, where) == step[f] = where
GoesTo(f, where) == step' = [step EXCEPT ![f] = where]

(***************************************************************************)
(* The life of a Faaslet                                                   *)
(***************************************************************************)
(* The scheduler makes executors for calls that come in.                   *)
NewFaaslet(f) ==
    /\ AtStep(f, "none")
    /\ quiesced => flush = "none" /\ updated = stored
    /\ GoesTo(f, "lookup")
    /\ job' = [job EXCEPT ![f] = "bind"]
    /\ need' = [need EXCEPT ![f] = updated]
    /\ UNCHANGED <<files, caches, cacheMap, held, snapshots, mod, system>>

(* It has run a call: Faaslet::reset of a bound module.                    *)
ResetFaaslet(f) ==
    /\ AtStep(f, "ready")
    /\ GoesTo(f, "lookup")
    /\ job' = [job EXCEPT ![f] = "reset"]
    /\ UNCHANGED <<files, caches, cacheMap, held, snapshots, mod, need, system>>

DropFaaslet(f) ==
    /\ step[f] \in {"ready", "failed"}
    /\ GoesTo(f, "none")
    /\ mod' = [mod EXCEPT ![f] = None]
    /\ held' = held \ {f}
    /\ UNCHANGED <<files, caches, cacheMap, snapshots, job, need, system>>

(***************************************************************************)
(* WAVMModuleCache::getCachedModule, and what is done under its lock       *)
(***************************************************************************)
(* With the entry e found under the shared lock, a bind clones it and a    *)
(* reset reads its globals; an unbound module can be used for neither.     *)
UseEntry(f, e) ==
    /\ held' = held \cup {f}
    /\ IF ~e.bound THEN GoesTo(f, "failed") /\ UNCHANGED mod
       ELSE IF job[f] = "bind"
       THEN GoesTo(f, "register") /\ mod' = [mod EXCEPT ![f] = Module(e.code, e.code, e.mem)]
       ELSE GoesTo(f, "zygote") /\ mod' = [mod EXCEPT ![f].globals = e.code]

Lookup(f) ==
    /\ AtStep(f, "lookup") /\ writer = None
    /\ IF entry = None THEN GoesTo(f, "create") /\ UNCHANGED <<mod, held>> ELSE UseEntry(f, entry)
    /\ UNCHANGED <<files, caches, cacheMap, snapshots, job, need, system>>

Create(f) ==
    /\ AtStep(f, "create") /\ writer = None
    /\ IF entry = None
       THEN entry' = EmptyEntry /\ writer' = f /\ GoesTo(f, "load")
       ELSE GoesTo(f, "take") /\ UNCHANGED <<entry, writer>>
    /\ UNCHANGED <<files, caches, building, held, snapshots, mod, job, need, system>>

(* The bind threw: the entry is erased and the exception goes on.          *)
CreateFails(f) ==
    /\ entry' = None /\ writer' = None /\ building' = None
    /\ GoesTo(f, "failed")

(* getMainModule: the wasm comes from the local file if there is one; the  *)
(* download may fail.  An empty module in the map has no globals.          *)
LoadIR(f) ==
    /\ AtStep(f, "load")
    /\ \/ /\ ir = None
          /\ wasmFile' = IF wasmFile = None THEN stored ELSE wasmFile
          /\ ir' = wasmFile' /\ UNCHANGED objectFile
          /\ GoesTo(f, "compile") /\ UNCHANGED cacheMap
       \/ ir = None /\ wasmFile = None /\ CreateFails(f) /\ UNCHANGED <<files, ir>>
       \/ ir # None /\ ir # NoModule /\ GoesTo(f, "compile") /\ UNCHANGED <<files, ir, cacheMap>>
       \/ ir = NoModule /\ CreateFails(f) /\ UNCHANGED <<files, ir>>
    /\ UNCHANGED <<compiledIr, held, snapshots, mod, job, need, system>>

(* getCompiledMainModule: takes the IR module from the map anew.           *)
Compile(f) ==
    /\ AtStep(f, "compile")
    /\ IF compiledIr = None
       THEN /\ objectFile' = IF objectFile = None THEN stored ELSE objectFile
            /\ ir' = IF ir = None THEN NoModule ELSE ir
            /\ compiledIr' = [ir |-> ir', code |-> objectFile']
            /\ UNCHANGED wasmFile
       ELSE UNCHANGED <<files, ir, compiledIr>>
    /\ building' = compiledIr'
    /\ GoesTo(f, "instantiate")
    /\ UNCHANGED <<entry, writer, held, snapshots, mod, job, need, system>>

(* The rest of doBindToFunctionInternal: instantiation, constructors and   *)
(* the zygote function; storeZygoteSnapshot leaves a snapshot that exists. *)
InstantiateBound(f) ==
    /\ AtStep(f, "instantiate")
    /\ \/ building.ir = NoModule /\ CreateFails(f) /\ UNCHANGED zygote
       \/ /\ building.ir # NoModule
          /\ entry' = [bound |-> TRUE, code |-> building.code, mem |-> building.ir]
          /\ zygote' = IF zygote = None THEN building.ir ELSE zygote
          /\ writer' = None /\ building' = None
          /\ GoesTo(f, "take")
    /\ UNCHANGED <<files, caches, held, resetSnapshot, mod, job, need, system>>

(* The shared lock is taken anew; operator[] makes a module if there is    *)
(* none, and it stays in the map.                                          *)
Take(f) ==
    /\ AtStep(f, "take") /\ writer = None
    /\ entry' = IF entry = None THEN EmptyEntry ELSE entry
    /\ UseEntry(f, entry')
    /\ UNCHANGED <<files, caches, building, writer, snapshots, job, need, system>>

(* registerResetSnapshot, after a bind.                                    *)
RegisterSnapshot(f) ==
    /\ AtStep(f, "register") /\ writer = None
    /\ resetSnapshot' = IF resetSnapshot = None THEN mod[f].mem ELSE resetSnapshot
    /\ GoesTo(f, "ready")
    /\ UNCHANGED <<files, caches, cacheMap, held, zygote, mod, job, need, system>>

(* The rest of WAVMWasmModule::reset, with the cache's lock released: the  *)
(* memory is the zygote's; without one the module is cloned again, from    *)
(* the entry the reference is to and with the memory of the reset          *)
(* snapshot, and stored as the zygote.                                     *)
RestoreZygote(f) ==
    /\ AtStep(f, "zygote")
    /\ \/ /\ zygote # None
          /\ mod' = [mod EXCEPT ![f].mem = zygote]
          /\ GoesTo(f, "ready") /\ UNCHANGED zygote
       \/ /\ zygote = None /\ f \in held
          /\ mod' = [mod EXCEPT ![f] = Module(entry.code, entry.code, resetSnapshot)]
          /\ zygote' = resetSnapshot
          /\ GoesTo(f, "ready")
       \/ /\ zygote = None /\ f \notin held       \* the reference dangles
          /\ GoesTo(f, "failed") /\ UNCHANGED <<mod, zygote>>
    /\ UNCHANGED <<files, caches, cacheMap, held, resetSnapshot, job, need, system>>

(***************************************************************************)
(* Updates and flushes                                                     *)
(***************************************************************************)
Gone == \A f \in Faaslets : AtStep(f, "none")

Upload ==
    /\ stored < MaxVersion /\ flush = "none" /\ updated = stored
    /\ quiesced => Gone
    /\ stored' = stored + 1
    /\ UNCHANGED <<files, caches, cacheMap, held, snapshots, faaslet, flush, updated>>

(* What comes before flushHost is not in this repository: it may empty the *)
(* global state, where the zygote is.                                      *)
FlushBegins ==
    /\ flush = "none" /\ updated < stored
    /\ zygote' = IF FlushClearsState THEN None ELSE zygote
    /\ flush' = "files"
    /\ UNCHANGED <<files, caches, cacheMap, held, resetSnapshot, faaslet, stored, updated>>

clearLocalCache ==
    /\ flush = "files"
    /\ wasmFile' = None /\ objectFile' = None
    /\ flush' = "ir"
    /\ UNCHANGED <<caches, cacheMap, held, snapshots, faaslet, stored, updated>>

ClearIR ==
    /\ flush = "ir"
    /\ ir' = None /\ compiledIr' = None
    /\ flush' = "modules"
    /\ UNCHANGED <<files, cacheMap, held, snapshots, faaslet, stored, updated>>

(* Mutant: the flush leaves the modules that are bound in their cache.     *)
ClearModules_KeepsBound ==
    /\ flush = "modules" /\ writer = None
    /\ flush' = "none" /\ updated' = stored
    /\ UNCHANGED <<files, caches, cacheMap, held, snapshots, faaslet, stored>>

ClearModules ==
    /\ flush = "modules" /\ writer = None
    /\ entry' = None /\ held' = {}
    /\ flush' = "none" /\ updated' = stored
    /\ UNCHANGED <<files, caches, building, writer, snapshots, faaslet, stored>>

CacheNext ==
    /\ \/ Upload \/ FlushBegins \/ clearLocalCache \/ ClearIR \/ ClearModules
       \/ \E f \in Faaslets :
             \/ NewFaaslet(f) \/ ResetFaaslet(f) \/ DropFaaslet(f)
             \/ Lookup(f) \/ Create(f) \/ LoadIR(f) \/ Compile(f) \/ InstantiateBound(f)
             \/ Take(f) \/ RegisterSnapshot(f) \/ RestoreZygote(f)
    /\ UNCHANGED quiesced

(***************************************************************************)
(* Properties                                                              *)
(***************************************************************************)
OptVersions == Uploaded \cup {None}

(* Files, caches and snapshots hold versions or nothing, and a Faaslet     *)
(* that is ready has code, globals and memory of some version: it was made *)
(* from a bound module, never from the unbound one of a creation that is   *)
(* still going on.                                                         *)
CacheTypeOK ==
    /\ {stored, updated} \subseteq Uploaded /\ flush \in {"none", "files", "ir", "modules"}
    /\ {wasmFile, objectFile, zygote, resetSnapshot} \subseteq OptVersions
    /\ ir \in OptVersions \cup {NoModule}
    /\ entry # None => entry.bound \in BOOLEAN /\ {entry.code, entry.mem} \subseteq Uploaded \cup {NoModule}
    /\ writer \in Faaslets \cup {None} /\ held \subseteq Faaslets
    /\ \A f \in Faaslets : AtStep(f, "ready") => mod[f] \in [code : Uploaded, globals : Uploaded, mem : Uploaded]

(* "we need a shared lock here to avoid a race condition on initialising   *)
(* the module": a module in the cache that is not bound is one whose       *)
(* maker still has the full lock, so no Faaslet is cloned from it.         *)
UnboundOnlyWhileLocked == entry # None /\ ~entry.bound => writer # None

(* "if you want to update a function, you must flush the system before     *)
(* invoking it again": a Faaslet made after the flush has the version the  *)
(* flush was for, in its code, globals and memory, also after resets, if   *)
(* the flush came when no Faaslet was running and emptied the state too.   *)
RunsUpdatedFunction ==
    \A f \in Faaslets :
       quiesced /\ FlushClearsState /\ AtStep(f, "ready") =>
          \A part \in {"code", "globals", "mem"} : mod[f][part] = need[f]

(* After a flush the function can be invoked again: the IR cache has no    *)
(* module that was never loaded.                                           *)
NoEmptyModuleAfterFlush == flush = "none" => ir # NoModule
=============================================================================
