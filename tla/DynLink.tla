------------------------------- MODULE DynLink -------------------------------
(***************************************************************************)
(* Dynamic linking: the libraries that a function dlopens.  A library gets *)
(* a handle, a piece of the function table and of memory, entries in the   *)
(* global offset table (GOT), and its imports are resolved one by one.     *)
(* One function; its cached module is bound first, its zygote may load     *)
(* libraries, and Faaslets are cloned from it, run calls and are reset.    *)
(* The guest calls dlopen from one thread at a time.                       *)
(***************************************************************************)
EXTENDS Integers, Sequences, FiniteSets

CONSTANTS
    Clones,         \* Faaslets of the function
    Paths,          \* libraries
    Names,          \* functions that libraries export and import
    Libraries, Mains,   \* what the wasm files of libraries and functions may be
    MaxTable,       \* MAX_TABLE_SIZE
    MaxUnits,       \* the memory, in units of one library's provision
    Unread

(* A wasm file: the functions its table segment lists, those it exports,   *)
(* those it takes pointers of (GOT.func) and those it calls; and whether   *)
(* it wants a memory of its own.                                           *)
Library == [elems : Seq(Names), exports : SUBSET Names, got : SUBSET Names,
            calls : SUBSET Names, ownMemory : BOOLEAN]

ASSUME DynLinkBounds ==
    /\ MaxTable \in Nat /\ MaxUnits \in Nat \ {0}
    /\ Libraries \cup Mains \subseteq Library
    /\ \A l \in Mains : l.got = {} /\ l.calls = {} /\ Len(l.elems) <= MaxTable

Cached == "cached"          \* the module in the WAVMModuleCache
Modules == Clones \cup {Cached}

VARIABLES
    file,           \* what a path holds, settled when it is first read
    mainFile,       \* and the function's own wasm
    irModules,      \* paths in the IRModuleCache's moduleMap
    tableSizes,     \* originalTableSizes: path |-> size, 0 if absent
    zygoteMem,      \* memory of the zygote snapshot, <<>> if there is none
    dyn             \* module |-> its dynamic linking state

dynVars == <<file, mainFile, irModules, tableSizes, zygoteMem, dyn>>

NoLoad == [path |-> "none", handle |-> 0, stage |-> "none", todo |-> {}, ptrs |-> <<>>, linked |-> TRUE]
Hole == <<"hole", "hole">>      \* a table slot without a function
NoSlot == 0                     \* slots are numbered from 1
Unbound == [
    state |-> "unbound",
    handles |-> [p \in Paths |-> 0],        \* dynamicPathToHandleMap
    mods |-> <<>>,                          \* dynamicModuleMap, from handle 2
    got |-> [n \in Names |-> NoSlot],       \* globalOffsetTableMap
    missing |-> [n \in Names |-> NoSlot],   \* missingGlobalOffsetEntries
    table |-> <<>>,                         \* <<library, function>> by slot
    mem |-> <<>>,                           \* what each unit of memory holds
    load |-> NoLoad,                        \* the dlopen that is under way
    sound |-> TRUE,         \* history: no load has failed since it was cloned
    fresh |-> TRUE]         \* history: not reset since it was cloned

DynInit ==
    /\ file = [p \in Paths |-> Unread] /\ mainFile = Unread
    /\ irModules = {} /\ tableSizes = [p \in Paths |-> 0]
    /\ zygoteMem = <<>>
    /\ dyn = [m \in Modules |-> Unbound]

Running(m) == dyn[m].state = "running" /\ dyn[m].load = NoLoad
Loading(m, stage) == dyn[m].state = "running" /\ dyn[m].load.stage = stage
Handles == 2..(Cardinality(Paths) + 1)
Mod(m, h) == dyn[m].mods[h - 1]
Loaded(m, h) == h - 1 \in DOMAIN dyn[m].mods /\ Mod(m, h).instance

(* The exception goes through the guest: the call is over.                 *)
Thrown(d) == [d EXCEPT !.state = "failed", !.sound = FALSE]
Throws(m) == dyn' = [dyn EXCEPT ![m] = Thrown(dyn[m])]

(* Mutant: a later library takes a name over. *)
addModuleToGOT_Overwrites(got, lib, base) ==
    [n \in Names |->
        LET listed == {i \in DOMAIN lib.elems : lib.elems[i] = n}
        IN IF n \in lib.exports /\ listed # {} THEN base + (CHOOSE i \in listed : TRUE) ELSE got[n]]

(* The listed functions that the library exports enter the GOT; insert     *)
(* keeps an entry that is there.                                           *)
addModuleToGOT(got, lib, base) ==
    [n \in Names |->
        LET listed == {i \in DOMAIN lib.elems : lib.elems[i] = n}
        IN IF got[n] = NoSlot /\ n \in lib.exports /\ listed # {}
           THEN base + (CHOOSE i \in listed : \A j \in listed : i <= j)
           ELSE got[n]]

(***************************************************************************)
(* dlopen                                                                  *)
(***************************************************************************)
(* A path that has a handle gets it back and one that is no file gets 0,   *)
(* with nothing changed; for a new one the handle is noted before anything *)
(* else.                                                                   *)
dynamicLoadModule(m, p) ==
    /\ Running(m) /\ dyn[m].handles[p] = 0
    /\ LET h == 2 + Len(dyn[m].mods)
       IN dyn' = [dyn EXCEPT
            ![m].handles[p] = h,
            ![m].load = [NoLoad EXCEPT !.path = p, !.handle = h, !.stage = "module"]]
    /\ UNCHANGED <<file, mainFile, irModules, tableSizes, zygoteMem>>

(* IRModuleCache::getSharedModule, under its lock.  A module that is       *)
(* rejected stays in the map, without its table size; it is not rejected   *)
(* again.                                                                  *)
getSharedModule(m) ==
    LET p == dyn[m].load.path
        proceed == dyn' = [dyn EXCEPT ![m].load.stage = "provision"]
    IN /\ Loading(m, "module")
       /\ \/ p \in irModules /\ proceed /\ UNCHANGED <<file, irModules, tableSizes>>
          \/ p \notin irModules /\ Throws(m) /\ UNCHANGED <<file, irModules, tableSizes>>  \* cannot be read
          \/ /\ p \notin irModules
             /\ \E lib \in IF file[p] = Unread THEN Libraries ELSE {file[p]} :
                   /\ file' = [file EXCEPT ![p] = lib]
                   /\ irModules' = irModules \cup {p}
                   /\ IF lib.ownMemory
                      THEN Throws(m) /\ UNCHANGED tableSizes
                      ELSE proceed /\ tableSizes' = [tableSizes EXCEPT ![p] = Len(lib.elems)]
       /\ UNCHANGED <<mainFile, zygoteMem>>

Grow(d, slots) == [d EXCEPT !.table = @ \o [i \in 1..slots |-> Hole]]

(* createModuleInstance up to the linking: the table grows, then memory;   *)
(* the library is recorded and enters the GOT.                             *)
Provision(m) ==
    LET p == dyn[m].load.path
        n == tableSizes[p]
        base == Len(dyn[m].table)
        imports == {<<"GOT.func", f>> : f \in file[p].got} \cup {<<"env", f>> : f \in file[p].calls}
        record == [path |-> p, base |-> base, unit |-> Len(dyn[m].mem) + 1,
                   instance |-> FALSE, ptrs |-> [f \in Names |-> NoSlot]]
        grown == Grow(dyn[m], n)
    IN /\ Loading(m, "provision")
       /\ \/ base + n > MaxTable /\ Throws(m)
          \/ /\ base + n <= MaxTable /\ Len(dyn[m].mem) >= MaxUnits
             /\ dyn' = [dyn EXCEPT ![m] = Thrown(grown)]
          \/ /\ base + n <= MaxTable /\ Len(dyn[m].mem) < MaxUnits
             /\ dyn' = [dyn EXCEPT ![m] = [grown EXCEPT
                   !.mem = Append(@, "zero"),
                   !.mods = Append(@, record),
                   !.got = addModuleToGOT(@, file[p], base),
                   !.load.stage = "link", !.load.todo = imports,
                   !.load.ptrs = record.ptrs]]
       /\ UNCHANGED <<file, mainFile, irModules, tableSizes, zygoteMem>>

(* Where getInstanceExport finds a function: the main module first, then   *)
(* the libraries, in the order of an unordered map.                        *)
Exporters(m, f) ==
    IF f \in mainFile.exports THEN {"main"}
    ELSE {Mod(m, h).path : h \in {k \in Handles : Loaded(m, k) /\ f \in file[Mod(m, k).path].exports}}

Resolved(m, i) == [dyn[m] EXCEPT !.load.todo = @ \ {i}]

(* A pointer to f: the GOT's, else a new slot.  A function that is in no   *)
(* module yet gets a slot that is filled when the library is there.        *)
ResolvePointer(m, f) ==
    LET d == dyn[m]
        next == Resolved(m, <<"GOT.func", f>>)
        new == Len(d.table) + 1
    IN \/ /\ d.got[f] # NoSlot
          /\ dyn' = [dyn EXCEPT ![m] = [next EXCEPT !.load.ptrs[f] = d.got[f]]]
       \/ /\ d.got[f] = NoSlot /\ new <= MaxTable
          /\ \E owner \in Exporters(m, f) :
                dyn' = [dyn EXCEPT ![m] = [next EXCEPT
                   !.table = Append(@, <<owner, f>>), !.got[f] = new, !.load.ptrs[f] = new]]
       \/ /\ d.got[f] = NoSlot /\ new <= MaxTable /\ Exporters(m, f) = {}
          /\ dyn' = [dyn EXCEPT ![m] = [Grow(next, 1) EXCEPT
                !.missing[f] = IF @ = NoSlot THEN new ELSE @, !.load.ptrs[f] = new]]
       \/ d.got[f] = NoSlot /\ new > MaxTable /\ Throws(m)

(* A function that is called, looked for after the host's own.             *)
ResolveCall(m, f) ==
    dyn' = [dyn EXCEPT ![m] =
        [Resolved(m, <<"env", f>>) EXCEPT !.load.linked = @ /\ Exporters(m, f) # {}]]

(* WAVMWasmModule::resolve of one import.                                  *)
resolve(m, i) ==
    /\ Loading(m, "link") /\ i \in dyn[m].load.todo
    /\ \/ i[1] = "GOT.func" /\ ResolvePointer(m, i[2])
       \/ i[1] = "env" /\ ResolveCall(m, i[2])
    /\ UNCHANGED <<file, mainFile, irModules, tableSizes, zygoteMem>>

(* Slots of the missing functions fs get the library's own functions.      *)
FillGaps(d, p, fs) ==
    [d EXCEPT
        !.table = [s \in DOMAIN @ |->
            IF \E f \in fs : d.missing[f] = s
            THEN <<p, CHOOSE f \in fs : d.missing[f] = s>> ELSE @[s]],
        !.got = [f \in Names |-> IF f \in fs /\ @[f] = NoSlot THEN d.missing[f] ELSE @[f]]]

(* The rest of createModuleInstance: the library's segments are written to *)
(* the table and to memory, gaps in the GOT are filled from its exports,   *)
(* and the record gets the instance.  It throws when an import could not   *)
(* be linked, the machine code cannot be loaded, the table segment does    *)
(* not fit, or a gap stays.                                                *)
Instantiate(m) ==
    LET d == dyn[m]
        p == d.load.path
        k == d.load.handle - 1
        base == d.mods[k].base
        lib == file[p]
        gaps == {f \in Names : d.missing[f] # NoSlot}
        placed == [d EXCEPT
            !.table = [s \in DOMAIN @ |->
                IF s - base \in DOMAIN lib.elems THEN <<p, lib.elems[s - base]>> ELSE @[s]],
            !.mem[d.mods[k].unit] = p]
    IN /\ Loading(m, "link") /\ d.load.todo = {}
       /\ \/ Throws(m)
          \/ /\ d.load.linked /\ base + Len(lib.elems) <= Len(d.table)
             /\ \/ /\ ~(gaps \subseteq lib.exports)
                   /\ \E fs \in SUBSET (gaps \cap lib.exports) :
                         dyn' = [dyn EXCEPT ![m] = Thrown(FillGaps(placed, p, fs))]
                \/ /\ gaps \subseteq lib.exports
                   /\ dyn' = [dyn EXCEPT ![m] = [FillGaps(placed, p, gaps) EXCEPT
                         !.missing = [f \in Names |-> NoSlot],
                         !.mods[k].instance = TRUE, !.mods[k].ptrs = d.load.ptrs,
                         !.load.stage = "construct"]]
       /\ UNCHANGED <<file, mainFile, irModules, tableSizes, zygoteMem>>

(* The library's constructors are run last; they may throw.                *)
executeWasmConstructorsFunction(m) ==
    /\ Loading(m, "construct")
    /\ Throws(m) \/ dyn' = [dyn EXCEPT ![m].load = NoLoad]
    /\ UNCHANGED <<file, mainFile, irModules, tableSizes, zygoteMem>>

(***************************************************************************)
(* The guest                                                               *)
(***************************************************************************)
(* Mutant: the function takes the last slot of the table. *)
getDynamicModuleFunction_NoGrowth(m, h, f) ==
    /\ Running(m) /\ f \in mainFile.exports /\ dyn[m].table # <<>>
    /\ dyn' = [dyn EXCEPT ![m].table[Len(dyn[m].table)] = <<"main", f>>]
    /\ UNCHANGED <<file, mainFile, irModules, tableSizes, zygoteMem>>

(* dlsym, on the main module (handle 1) or a library: every call adds the  *)
(* function to the table.  A record without an instance is no module.      *)
getDynamicModuleFunction(m, h, f) ==
    /\ Running(m)
    /\ LET owner == IF h = 1 THEN "main" ELSE IF Loaded(m, h) THEN Mod(m, h).path ELSE "none"
           exports == IF owner = "none" THEN {}
                      ELSE IF owner = "main" THEN mainFile.exports ELSE file[owner].exports
       IN IF f \in exports /\ Len(dyn[m].table) < MaxTable
          THEN dyn' = [dyn EXCEPT ![m].table = Append(@, <<owner, f>>)]
          ELSE dyn' = [dyn EXCEPT ![m].state = "failed"]
    /\ UNCHANGED <<file, mainFile, irModules, tableSizes, zygoteMem>>

(* The guest maps memory; dlerror does, for its message.                   *)
GuestMaps(m) ==
    /\ Running(m) /\ Len(dyn[m].mem) < MaxUnits
    /\ dyn' = [dyn EXCEPT ![m].mem = Append(@, "heap")]
    /\ UNCHANGED <<file, mainFile, irModules, tableSizes, zygoteMem>>

(***************************************************************************)
(* The life of a module                                                    *)
(***************************************************************************)
(* doBindToFunctionInternal for the cache: the main module's own table     *)
(* segment enters the GOT.  Its constructors and the zygote run then.      *)
Bind ==
    /\ dyn[Cached].state = "unbound"
    /\ \E lib \in IF mainFile = Unread THEN Mains ELSE {mainFile} :
          /\ mainFile' = lib
          /\ dyn' = [dyn EXCEPT ![Cached] = [Unbound EXCEPT
                !.state = "running", !.mem = <<"main">>,
                !.table = [i \in DOMAIN lib.elems |-> <<"main", lib.elems[i]>>],
                !.got = addModuleToGOT(@, lib, 0)]]
    /\ UNCHANGED <<file, irModules, tableSizes, zygoteMem>>

(* The zygote has returned: its memory is stored unless there is one.  If  *)
(* it failed, the module is taken out of the cache.                        *)
BindEnds ==
    /\ \/ /\ Running(Cached)
          /\ dyn' = [dyn EXCEPT ![Cached].state = "bound"]
          /\ zygoteMem' = IF zygoteMem = <<>> THEN dyn[Cached].mem ELSE zygoteMem
       \/ /\ dyn[Cached].state = "failed"
          /\ dyn' = [dyn EXCEPT ![Cached] = Unbound]
          /\ UNCHANGED zygoteMem
    /\ UNCHANGED <<file, mainFile, irModules, tableSizes>>

(* Mutant: the map from paths to handles stays what it was. *)
Cloned_KeepsHandles(m) ==
    [dyn[Cached] EXCEPT !.state = "running", !.handles = dyn[m].handles]

(* WAVMWasmModule::clone *)
Cloned(m) == [dyn[Cached] EXCEPT !.state = "running"]

BindClone(m) ==
    /\ dyn[m].state = "unbound" /\ dyn[Cached].state = "bound"
    /\ dyn' = [dyn EXCEPT ![m] = Cloned(m)]
    /\ UNCHANGED <<file, mainFile, irModules, tableSizes, zygoteMem>>

(* WAVMWasmModule::reset, after a call: memory becomes the zygote's; only  *)
(* if there is none is the module cloned again, and its memory stored.     *)
reset(m) ==
    /\ m # Cached /\ (Running(m) \/ dyn[m].state = "failed")
    /\ \/ /\ zygoteMem # <<>>
          /\ dyn' = [dyn EXCEPT ![m].mem = zygoteMem, ![m].state = "running",
                                ![m].load = NoLoad, ![m].fresh = FALSE]
          /\ UNCHANGED zygoteMem
       \/ /\ zygoteMem = <<>>
          /\ dyn' = [dyn EXCEPT ![m] = Cloned(m)]
          /\ zygoteMem' = dyn[Cached].mem
    /\ UNCHANGED <<file, mainFile, irModules, tableSizes>>

(* A flush empties the global state, and the IR cache while nothing loads. *)
FlushState ==
    /\ dyn[Cached].state = "bound" /\ zygoteMem # <<>>
    /\ zygoteMem' = <<>>
    /\ UNCHANGED <<file, mainFile, irModules, tableSizes, dyn>>

ClearIRModules ==
    /\ irModules # {} /\ \A m \in Modules : dyn[m].state = "running" => dyn[m].load = NoLoad
    /\ irModules' = {} /\ tableSizes' = [p \in Paths |-> 0]
    /\ UNCHANGED <<file, mainFile, zygoteMem, dyn>>

DynNext ==
    \/ Bind \/ BindEnds \/ FlushState \/ ClearIRModules
    \/ \E m \in Clones : BindClone(m) \/ reset(m)
    \/ \E m \in Modules :
          \/ \E p \in Paths : dynamicLoadModule(m, p)
          \/ getSharedModule(m) \/ Provision(m) \/ Instantiate(m)
          \/ executeWasmConstructorsFunction(m) \/ GuestMaps(m)
          \/ \E i \in dyn[m].load.todo : resolve(m, i)
          \/ \E h \in {1} \cup Handles, f \in Names : getDynamicModuleFunction(m, h, f)

(***************************************************************************)
(* Properties                                                              *)
(***************************************************************************)
(* Tables and memory stay within their bounds, and slots that wait for a   *)
(* function are in the table.                                              *)
DynTypeOK ==
    /\ irModules \subseteq Paths /\ \A p \in irModules : file[p] # Unread
    /\ \A m \in Modules :
          /\ Len(dyn[m].table) <= MaxTable /\ Len(dyn[m].mem) <= MaxUnits
          /\ \A f \in Names : dyn[m].got[f] \in Nat /\ dyn[m].missing[f] \in 0..Len(dyn[m].table)
          /\ \A p \in Paths : dyn[m].handles[p] \in Handles \cup {0}

(* What dlopen gives for p is a handle of p: its instance is there, and    *)
(* its data in its memory.                                                 *)
HandleIsUsable(m, p) ==
    LET h == dyn[m].handles[p]
    IN Loaded(m, h) /\ Mod(m, h).path = p /\ Mod(m, h).unit <= Len(dyn[m].mem)
          /\ dyn[m].mem[Mod(m, h).unit] = p

Opened(m, p) == Running(m) /\ dyn[m].handles[p] # 0

(* A handle stands for its library, loaded and in memory: for libraries    *)
(* the zygote loaded also after resets and later loads, for others during  *)
(* the call that loaded them; as long as no load of the module has failed. *)
HandleMeansLoaded ==
    \A m \in Modules, p \in Paths :
       /\ Opened(m, p) /\ dyn[m].sound
       /\ dyn[m].fresh \/ dyn[Cached].handles[p] # 0
       => HandleIsUsable(m, p)

(* dlopen "returns 0 on error, as does dlopen": a path for which it would  *)
(* return a handle is a library that is loaded.                            *)
HandleOnlyIfLoaded == \A m \in Modules, p \in Paths : Opened(m, p) => HandleIsUsable(m, p)

(* Every module that takes the address of a function gets the same one,    *)
(* the GOT's, and there is a function of that name in the table there,     *)
(* however lookups, slots filled later, dlsym, clones and resets mix; as   *)
(* long as no load of the module has failed and none of its libraries was  *)
(* rejected before.                                                        *)
PointersAgree ==
    \A m \in Modules :
       LET d == dyn[m]
       IN Running(m) /\ d.sound /\ (\A k \in DOMAIN d.mods : ~file[d.mods[k].path].ownMemory) =>
             /\ \A f \in Names : d.got[f] # NoSlot => d.table[d.got[f]][2] = f
             /\ \A k \in DOMAIN d.mods : \A f \in file[d.mods[k].path].got :
                   d.mods[k].ptrs[f] = d.got[f]

(* A function pointer stays good: a slot that holds a function holds it    *)
(* until the module is cloned anew, unless a library that was rejected is  *)
(* loaded.                                                                 *)
FunctionPointersStay ==
    [][\A m \in Modules :
         \A s \in DOMAIN dyn[m].table :
            \/ dyn[m].table[s] = Hole
            \/ s \in DOMAIN dyn'[m].table /\ dyn'[m].table[s] = dyn[m].table[s]
            \/ dyn'[m] \in {Unbound, Cloned(m)}
            \/ \E p \in Paths : file[p] # Unread /\ file[p].ownMemory]_dynVars

(* "Check that the module isn't expecting to create any memories": such a  *)
(* library is never loaded.                                                *)
RejectedIsNotLoaded ==
    \A m \in Modules : \A k \in DOMAIN dyn[m].mods :
       dyn[m].mods[k].instance => ~file[dyn[m].mods[k].path].ownMemory
=============================================================================
