---------------------------- MODULE FunctionUpload ----------------------------
(***************************************************************************)
(* Uploading a function and running it: the upload server puts the wasm    *)
(* in the object store and generates machine code for every target,        *)
(* unless a recorded hash says it has done so for these bytes; workers     *)
(* load wasm and machine code through the cache on their disk and keep     *)
(* what they loaded until they are flushed.                                *)
(* The bytes of a wasm file, its hash and its machine code are all         *)
(* represented by the version of the function they come from.              *)
(***************************************************************************)
EXTENDS Naturals

CONSTANTS
    Versions,       \* versions of the function
    NTargets,       \* length of conf.codegenTargets; a worker for each target
    Requests,       \* requests the upload server handles at the same time
    SharedDisk,     \* all hosts have one directory for cached files
    NoVersion

ASSUME NTargetsAssumption == NTargets \in Nat \ {0}
ASSUME SharedDiskAssumption == SharedDisk \in BOOLEAN

Targets == 1 .. NTargets
Workers == Targets
Wasm == <<"function.wasm", 0>>
Object(n) == <<"function.wasm.o", n>>
Hash(n) == <<"function.wasm.o.hash", n>>
Files == {Wasm} \cup {Object(n) : n \in Targets} \cup {Hash(n) : n \in Targets}
Content == Versions \cup {NoVersion}
NothingStored == [f \in Files |-> NoVersion]

UploadDisk == 0
DiskOf(w) == IF SharedDisk THEN UploadDisk ELSE w
Disks == {UploadDisk} \cup {DiskOf(w) : w \in Workers}

VARIABLES
    store,          \* file |-> its content in the object store
    cached,         \* disk |-> file |-> content in the local cache
    at,             \* request |-> where it is
    version,        \* request |-> the version that it uploads
    wasm,           \* request |-> the wasm that it generates code for
    target,         \* request |-> the target it is at
    main, compiled, \* worker |-> wasm and machine code in its IRModuleCache
    \* history
    complete,       \* the last upload has been answered with OK
    upToDate,          \* workers flushed since then
    startedClean,   \* nothing was cached on the server's disk when it began
    failed          \* some code generation has failed

request == <<at, version, wasm, target>>
worker == <<main, compiled>>
past == <<startedClean, failed>>
uploadVars == <<store, cached, request, worker, complete, upToDate, past>>

UploadInit ==
    /\ store = NothingStored /\ cached = [d \in Disks |-> NothingStored]
    /\ at = [r \in Requests |-> "idle"]
    /\ version = [r \in Requests |-> NoVersion] /\ wasm = [r \in Requests |-> NoVersion]
    /\ target = [r \in Requests |-> 1]
    /\ main = [w \in Workers |-> NoVersion] /\ compiled = [w \in Workers |-> NoVersion]
    /\ complete = FALSE /\ upToDate = {}
    /\ startedClean = TRUE /\ failed = FALSE

Moves(r, where) == at' = [at EXCEPT ![r] = where]
Quiet == \A r \in Requests : at[r] = "idle"

(* The answer to request r, after which its fields no longer matter.       *)
Reply(r, ok) ==
    /\ Moves(r, "idle")
    /\ version' = [version EXCEPT ![r] = NoVersion] /\ wasm' = [wasm EXCEPT ![r] = NoVersion]
    /\ target' = [target EXCEPT ![r] = 1]
    /\ complete' = (ok /\ \A q \in Requests \ {r} : at[q] = "idle")

(***************************************************************************)
(* FileLoader: loads look on the disk first and fill it, uploads go to the *)
(* object store and the disk.                                              *)
(***************************************************************************)
Loaded(d, f) == IF cached[d][f] # NoVersion THEN cached[d][f] ELSE store[f]
loadFileBytes(d, f) == cached' = [cached EXCEPT ![d][f] = Loaded(d, f)]

uploadFileBytes(d, f, bytes) ==
    /\ store' = [store EXCEPT ![f] = bytes]
    /\ cached' = [cached EXCEPT ![d][f] = bytes]

(***************************************************************************)
(* UploadServer::handleFunctionUpload                                      *)
(***************************************************************************)
(* The wasm goes to the object store only: this loader has no local cache. *)
uploadFunction(r, v) ==
    /\ at[r] = "idle"
    /\ store' = [store EXCEPT ![Wasm] = v]
    /\ version' = [version EXCEPT ![r] = v]
    /\ Moves(r, "load")
    /\ complete' = FALSE /\ upToDate' = {}
    /\ startedClean' = (cached[UploadDisk] = NothingStored)
    /\ UNCHANGED <<cached, wasm, target, worker, failed>>

(* MachineCodeGenerator::codegenForFunction; its loader has a local cache. *)
loadFunctionWasm(r) ==
    /\ at[r] = "load"
    /\ loadFileBytes(UploadDisk, Wasm)
    /\ wasm' = [wasm EXCEPT ![r] = Loaded(UploadDisk, Wasm)]
    /\ Moves(r, "compare")
    /\ UNCHANGED <<store, version, target, worker, complete, upToDate, past>>

CompareHashes(r) ==
    LET oldHash == Loaded(UploadDisk, Hash(target[r])) IN
    /\ at[r] = "compare"
    /\ loadFileBytes(UploadDisk, Hash(target[r]))
    /\ Moves(r, IF oldHash = wasm[r] THEN "skip" ELSE "generate")
    /\ UNCHANGED <<store, version, wasm, target, worker, complete, upToDate, past>>

(* Generation is skipped, for this target and for those after it.          *)
SkipCodegen(r) ==
    /\ at[r] = "skip"
    /\ loadFileBytes(UploadDisk, Object(target[r]))
    /\ Reply(r, TRUE)
    /\ UNCHANGED <<store, worker, upToDate, past>>

doCodegen(r) ==
    /\ at[r] = "generate"
    /\ uploadFileBytes(UploadDisk, Object(target[r]), wasm[r])
    /\ Moves(r, "record")
    /\ UNCHANGED <<version, wasm, target, worker, complete, upToDate, past>>

doCodegenFails(r) ==
    /\ at[r] = "generate"
    /\ Reply(r, FALSE)
    /\ failed' = TRUE
    /\ UNCHANGED <<store, cached, worker, upToDate, startedClean>>

(* Mutant: the hash of the uploaded bytes, not of the loaded ones. *)
uploadFunctionObjectHash_Uploaded(r) ==
    /\ at[r] = "record"
    /\ uploadFileBytes(UploadDisk, Hash(target[r]), version[r])
    /\ IF target[r] < NTargets
       THEN /\ target' = [target EXCEPT ![r] = @ + 1]
            /\ Moves(r, "compare") /\ UNCHANGED <<version, wasm, complete>>
       ELSE Reply(r, TRUE)
    /\ UNCHANGED <<worker, upToDate, past>>

(* The hash is recorded after the machine code; on to the next target.     *)
uploadFunctionObjectHash(r) ==
    /\ at[r] = "record"
    /\ uploadFileBytes(UploadDisk, Hash(target[r]), wasm[r])
    /\ IF target[r] < NTargets
       THEN /\ target' = [target EXCEPT ![r] = @ + 1]
            /\ Moves(r, "compare") /\ UNCHANGED <<version, wasm, complete>>
       ELSE Reply(r, TRUE)
    /\ UNCHANGED <<worker, upToDate, past>>

(***************************************************************************)
(* Workers: IRModuleCache and flushing                                     *)
(***************************************************************************)
(* A file that is nowhere makes the load throw and leaves nothing behind.  *)
getMainModule(w) ==
    LET d == DiskOf(w) IN
    /\ main[w] = NoVersion /\ Loaded(d, Wasm) # NoVersion
    /\ loadFileBytes(d, Wasm)
    /\ main' = [main EXCEPT ![w] = Loaded(d, Wasm)]
    /\ UNCHANGED <<store, request, compiled, complete, upToDate, past>>

getCompiledMainModule(w) ==
    LET d == DiskOf(w) IN
    /\ main[w] # NoVersion /\ compiled[w] = NoVersion /\ Loaded(d, Object(w)) # NoVersion
    /\ loadFileBytes(d, Object(w))
    /\ compiled' = [compiled EXCEPT ![w] = Loaded(d, Object(w))]
    /\ UNCHANGED <<store, request, main, complete, upToDate, past>>

(* Mutant: the module cache is kept. *)
flushHost_Kept(w) ==
    /\ cached' = [cached EXCEPT ![DiskOf(w)] = NothingStored]
    /\ upToDate' = IF complete /\ Quiet THEN upToDate \cup {w} ELSE upToDate
    /\ UNCHANGED <<store, request, worker, complete, past>>

(* FaasletFactory::flushHost; the upload server is not flushed.            *)
flushHost(w) ==
    /\ cached' = [cached EXCEPT ![DiskOf(w)] = NothingStored]
    /\ main' = [main EXCEPT ![w] = NoVersion] /\ compiled' = [compiled EXCEPT ![w] = NoVersion]
    /\ upToDate' = IF complete /\ Quiet THEN upToDate \cup {w} ELSE upToDate
    /\ UNCHANGED <<store, request, complete, past>>

UploadNext ==
    \/ \E r \in Requests :
        \/ \E v \in Versions : uploadFunction(r, v)
        \/ loadFunctionWasm(r) \/ CompareHashes(r) \/ SkipCodegen(r)
        \/ doCodegen(r) \/ doCodegenFails(r) \/ uploadFunctionObjectHash(r)
    \/ \E w \in Workers : getMainModule(w) \/ getCompiledMainModule(w) \/ flushHost(w)

UploadSpec == UploadInit /\ [][UploadNext]_uploadVars

(***************************************************************************)
(* Properties                                                              *)
(***************************************************************************)
(* Every variable has its type, and a request at work on a target has      *)
(* loaded wasm for it.                                                     *)
UploadTypeOK ==
    /\ store \in [Files -> Content] /\ cached \in [Disks -> [Files -> Content]]
    /\ version \in [Requests -> Content] /\ wasm \in [Requests -> Content]
    /\ target \in [Requests -> Targets]
    /\ main \in [Workers -> Content] /\ compiled \in [Workers -> Content]
    /\ \A r \in Requests : at[r] \in {"compare", "skip", "generate", "record"} => wasm[r] # NoVersion

(* "Upload the function, flush, invoke function and see updated version":  *)
(* a worker that was flushed after an upload was answered with OK runs the *)
(* uploaded wasm, with the machine code generated from it.                 *)
UpdateTakesEffect ==
    \A w \in upToDate :
        /\ main[w] \in {NoVersion, store[Wasm]}
        /\ compiled[w] \in {NoVersion, store[Wasm]}

(* It does so when nothing was cached on the upload server's disk as the   *)
(* upload began, and no code generation has failed before, whatever the    *)
(* workers load while the upload goes on.                                  *)
CleanUpdateTakesEffect == startedClean /\ ~failed => UpdateTakesEffect

(* A recorded hash stands for the machine code beside it: that is what     *)
(* lets codegenForFunction skip the generation.                            *)
HashDescribesObject ==
    Quiet => \A n \in Targets : store[Hash(n)] # NoVersion => store[Object(n)] = store[Hash(n)]

=============================================================================
