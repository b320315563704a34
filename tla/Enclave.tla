------------------------------- MODULE Enclave -------------------------------
(***************************************************************************)
(* Functions in an SGX enclave.  A host has one enclave, made by the first *)
(* EnclaveInterface; every interface stands for one Faaslet's module, kept *)
(* inside in a map by the interface's id.  An ecall that looks a module up *)
(* holds the map's lock only for that, so calls run side by side, and what *)
(* a running function asks for is found again by its instance.             *)
(*                                                                         *)
(* generateGid gives no id twice, so an interface is its id.  faabric      *)
(* creates executors one at a time: the constructor is one step.  Only     *)
(* tests tear the enclave down.                                            *)
(***************************************************************************)
EXTENDS Naturals

CONSTANTS
    Interfaces,     \* EnclaveInterface objects
    Args,           \* what messages carry: input, and the arguments made of it
    MaxEnclaves,    \* bound: enclaves that may ever be made
    SetupOutcomes,  \* how making an enclave may end
    LoadOutcomes,   \* how loading a function may end
    NoArgs          \* stands for nothing sent, read or written

ASSUME NoArgsApart == NoArgs \notin Args
ASSUME EnclaveBound == MaxEnclaves \in Nat \ {0}

VARIABLES
    globalEnclaveId,  \* 0 before there is an enclave
    wamrReady,        \* enclaves whose WAMR is initialised
    enclaveModules,   \* moduleMap: per enclave and id, the module
    argv,             \* arguments each module inside was last given
    iface,            \* where each interface is
    sent,             \* the message each interface is executing
    argsRead,         \* the arguments its function has read
    output            \* the output its function has written

enclaveVars ==
    <<globalEnclaveId, wamrReady, enclaveModules, argv, iface, sent, argsRead,
      output>>

Enclaves == 1..MaxEnclaves

(* A module in the map has an instance, or failed to get one. *)
Entries == {"absent", "failed", "loaded"}

Phases == {"none", "built", "broken", "bound", "found", "running", "lost",
           "terminated", "gone"}

EnclaveTypeOK ==
    /\ globalEnclaveId \in 0..MaxEnclaves
    /\ wamrReady \in SUBSET Enclaves
    /\ enclaveModules \in [Enclaves -> [Interfaces -> Entries]]
    /\ argv \in [Enclaves -> [Interfaces -> Args \cup {NoArgs}]]
    /\ iface \in [Interfaces -> Phases]
    /\ sent \in [Interfaces -> Args \cup {NoArgs}]
    /\ argsRead \in [Interfaces -> Args \cup {NoArgs}]
    /\ output \in [Interfaces -> Args \cup {NoArgs}]

EnclaveInit ==
    /\ globalEnclaveId = 0
    /\ wamrReady = {}
    /\ enclaveModules = [e \in Enclaves |-> [i \in Interfaces |-> "absent"]]
    /\ argv = [e \in Enclaves |-> [i \in Interfaces |-> NoArgs]]
    /\ iface = [i \in Interfaces |-> "none"]
    /\ sent = [i \in Interfaces |-> NoArgs]
    /\ argsRead = [i \in Interfaces |-> NoArgs]
    /\ output = [i \in Interfaces |-> NoArgs]

MovesTo(i, p) == iface' = [iface EXCEPT ![i] = p]

(* An exception that leaves a destructor ends the process. *)
HostUp == \A i \in Interfaces : iface[i] # "terminated"

(***************************************************************************)
(* The life of an interface                                                *)
(***************************************************************************)
ecallInitWamr(o) ==
    wamrReady' = IF o \in {"ready", "notAttested"}
                 THEN wamrReady \cup {globalEnclaveId'} ELSE wamrReady

(* A failure after sgx_create_enclave leaves the enclave's id behind, and  *)
(* the next interface takes it as set up.                                  *)
createEnclave(i) ==
    \E o \in SetupOutcomes :
        /\ IF o \in {"noFile", "notCreated"}
           THEN UNCHANGED globalEnclaveId
           ELSE globalEnclaveId' = globalEnclaveId + 1
        /\ ecallInitWamr(o)
        /\ MovesTo(i, IF o = "ready" THEN "built" ELSE "none")

checkSgxSetup(i) ==
    IF globalEnclaveId # 0
    THEN MovesTo(i, "built") /\ UNCHANGED <<globalEnclaveId, wamrReady>>
    ELSE createEnclave(i)

Construct(i) ==
    /\ iface[i] = "none"
    /\ checkSgxSetup(i)
    /\ UNCHANGED <<enclaveModules, argv, sent, argsRead, output>>

(* The map gets its entry before the wasm is loaded, and keeps it when     *)
(* that fails; a WAMR that was not initialised loads nothing.              *)
ecallLoadModule(i, o) ==
    LET e == globalEnclaveId
        loads == o = "loaded" /\ e \in wamrReady
    IN  IF enclaveModules[e][i] # "absent"
        THEN MovesTo(i, "broken") /\ UNCHANGED enclaveModules
        ELSE /\ enclaveModules' =
                    [enclaveModules EXCEPT ![e][i] = IF loads THEN "loaded" ELSE "failed"]
             /\ MovesTo(i, IF loads THEN "bound" ELSE "broken")

(* bindToFunction marks the module as bound first; without a file for the  *)
(* function, or with an empty one, nothing gets into the map.              *)
doBindToFunction(i) ==
    /\ iface[i] = "built"
    /\ \E o \in LoadOutcomes :
           IF o = "missing"
           THEN MovesTo(i, "broken") /\ UNCHANGED enclaveModules
           ELSE ecallLoadModule(i, o)
    /\ UNCHANGED <<globalEnclaveId, wamrReady, argv, sent, argsRead, output>>

ecallUnloadModule(i) ==
    LET e == globalEnclaveId
    IN  IF enclaveModules[e][i] = "absent"
        THEN MovesTo(i, "terminated") /\ UNCHANGED enclaveModules
        ELSE /\ enclaveModules' = [enclaveModules EXCEPT ![e][i] = "absent"]
             /\ MovesTo(i, "gone")

(* The destructor unbinds; an error of the ecall is thrown. *)
unbindFunction(i) ==
    /\ iface[i] \in {"built", "broken", "bound"}
    /\ IF iface[i] = "built"
       THEN MovesTo(i, "gone") /\ UNCHANGED enclaveModules
       ELSE ecallUnloadModule(i)
    /\ UNCHANGED <<globalEnclaveId, wamrReady, argv, sent, argsRead, output>>

(***************************************************************************)
(* A call                                                                  *)
(***************************************************************************)
(* The ecall looks the module up under the lock. *)
ecallCallFunction(i) ==
    MovesTo(i, IF enclaveModules[globalEnclaveId][i] = "absent" THEN "lost" ELSE "found")

(* A call enters the enclave that the global id names. *)
executeFunction(i) ==
    /\ iface[i] = "bound"
    /\ \E a \in Args : sent' = [sent EXCEPT ![i] = a]
    /\ ecallCallFunction(i)
    /\ UNCHANGED <<globalEnclaveId, wamrReady, enclaveModules, argv, argsRead, output>>

(* Without the lock: the module takes the arguments, and runs. *)
callFunction(i) ==
    /\ iface[i] = "found"
    /\ argv' = [argv EXCEPT ![globalEnclaveId][i] = sent[i]]
    /\ MovesTo(i, "running")
    /\ UNCHANGED <<globalEnclaveId, wamrReady, enclaveModules, sent, argsRead, output>>

(* Mutant: the lookup takes any loaded module. *)
getExecutingEnclaveWasmModule_Any(e, i) ==
    {j \in Interfaces : enclaveModules[e][j] = "loaded"}

(* The modules in the map that have the instance of i's module. *)
getExecutingEnclaveWasmModule(e, i) ==
    {j \in Interfaces : enclaveModules[e][j] = "loaded" /\ j = i}

(* When there is none, the guest is told of an error. *)
wasi_args_get(i) ==
    /\ iface[i] = "running"
    /\ LET e == globalEnclaveId
           modules == getExecutingEnclaveWasmModule(e, i)
       IN  IF modules = {}
           THEN MovesTo(i, "lost") /\ UNCHANGED argsRead
           ELSE /\ \E j \in modules : argsRead' = [argsRead EXCEPT ![i] = argv[e][j]]
                /\ UNCHANGED iface
    /\ UNCHANGED <<globalEnclaveId, wamrReady, enclaveModules, argv, sent, output>>

(* The function answers with what it read; outside, the output goes to the *)
(* message of the calling thread.                                          *)
ocallFaasmWriteOutput(i) ==
    /\ iface[i] = "running"
    /\ output' = [output EXCEPT ![i] = argsRead[i]]
    /\ UNCHANGED <<globalEnclaveId, wamrReady, enclaveModules, argv, iface, sent, argsRead>>

(* The ecall returns, with a success or after a trap; the module stays, and *)
(* WasmModule::reset leaves its memory as it is.                            *)
Return(i) ==
    /\ iface[i] = "running"
    /\ MovesTo(i, "bound")
    /\ sent' = [sent EXCEPT ![i] = NoArgs]
    /\ argsRead' = [argsRead EXCEPT ![i] = NoArgs]
    /\ output' = [output EXCEPT ![i] = NoArgs]
    /\ UNCHANGED <<globalEnclaveId, wamrReady, enclaveModules, argv>>

EnclaveStep(i) ==
    \/ Construct(i) \/ doBindToFunction(i) \/ unbindFunction(i)
    \/ executeFunction(i) \/ callFunction(i)
    \/ wasi_args_get(i) \/ ocallFaasmWriteOutput(i) \/ Return(i)

EnclaveNext == HostUp /\ \E i \in Interfaces : EnclaveStep(i)

EnclaveSpec == EnclaveInit /\ [][EnclaveNext]_enclaveVars

(***************************************************************************)
(* Properties                                                              *)
(***************************************************************************)
(* A bound interface stays usable, and its calls are answered from their   *)
(* own arguments: whatever other interfaces are made, fail to be bound,    *)
(* are destroyed or call at the same time, every call finds the module     *)
(* inside, what the function reads there was sent with this call, and so   *)
(* is the output of the message (ecallCallFunction,                        *)
(* getExecutingEnclaveWasmModule).                                         *)
EnclaveAnswersOwnCall ==
    \A i \in Interfaces :
        /\ iface[i] # "lost"
        /\ output[i] # NoArgs => output[i] = sent[i]

(* Destroying an interface does not throw.  Not kept: one whose function   *)
(* had no file counts as bound, and the enclave does not know of it.       *)
DestructorsReturn == HostUp

(* Why the property holds: a bound interface's module is in the one        *)
(* enclave's map with an instance, and in a running call that module's     *)
(* arguments, and what was read and written, are what was sent.            *)
EnclaveInv ==
    \A i \in Interfaces :
        /\ iface[i] # "lost"
        /\ iface[i] # "none" => globalEnclaveId # 0
        /\ iface[i] \in {"bound", "found", "running"} =>
               enclaveModules[globalEnclaveId][i] = "loaded"
        /\ iface[i] = "running" => argv[globalEnclaveId][i] = sent[i]
        /\ argsRead[i] \in {NoArgs, sent[i]}
        /\ output[i] \in {NoArgs, sent[i]}
        /\ iface[i] # "running" => argsRead[i] = NoArgs /\ output[i] = NoArgs
=============================================================================
