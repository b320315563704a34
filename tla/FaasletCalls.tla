---------------------------- MODULE FaasletCalls ----------------------------
(***************************************************************************)
(* The calls of one function on a host: functions chain others and await    *)
(* them (wasm/chaining_util.cpp, wavm/chaining.cpp), a Faaslet executes one *)
(* call at a time (WasmModule::executeTask, WAVMWasmModule::executeFunction)*)
(* and is reset before the next.  What a Faaslet keeps between two calls is *)
(* followed piece by piece: memory, globals, captured stdout and the        *)
(* addresses of mapped state.  Queue, results and the order execute,        *)
(* publish, reset are those of faabric's executors.                         *)
(***************************************************************************)
EXTENDS Naturals, Sequences, FiniteSets

CONSTANTS Faaslets,     \* as many as the scheduler starts
          MaxCalls,     \* calls, chained ones included
          MaxSteps,     \* host calls a function makes
          StateKeys,    \* keys of state values
          Stored        \* what may be stored as zygote snapshot at the start

VARIABLES msg,          \* faabric::Message of every call
          faaslet,      \* the module of each Faaslet
          snapshot      \* zygote snapshot in the global state: "none", of the
                        \* "current" function, or of an "old" upload of it

callVars == <<msg, faaslet, snapshot>>

(* Memory: whose zygote it started from, which calls wrote to it (0 is a    *)
(* caller on another host), and how many pages were added at its end.       *)
Zygote(v) == [of |-> v, by |-> {}, above |-> 0]

(* sharedMemWasmPtrs: the page of a mapped state value, 0 if there is none. *)
NoPtrs == [k \in StateKeys |-> 0]

(* leaks: calls whose stdout was left behind, in no field of the code.      *)
Unbound ==
    [bound |-> FALSE, runs |-> 0, mem |-> Zygote("current"), globals |-> {},
     stdout |-> {}, ptrs |-> NoPtrs, leaks |-> {}]

NewCall(parent, isstorage) ==
    [st |-> "queued", parent |-> parent, isstorage |-> isstorage, steps |-> 0,
     awaits |-> 0, how |-> "", output |-> {}, got |-> NoPtrs]

CallsInit ==
    /\ msg = <<>>
    /\ faaslet = [f \in Faaslets |-> Unbound]
    /\ snapshot \in Stored

-----------------------------------------------------------------------------
Ids == DOMAIN msg
Mem(f) == faaslet[f].mem
IsRunning(f, c) == c \in Ids /\ faaslet[f].runs = c /\ msg[c].st = "running"

(* A client calls the function, or another host has it run on storage.      *)
Invoke(isstorage) ==
    /\ Len(msg) < MaxCalls
    /\ msg' = Append(msg, NewCall(0, isstorage))
    /\ UNCHANGED <<faaslet, snapshot>>

(* The global state is lost.                                                *)
StateCleared ==
    /\ snapshot = "current"
    /\ snapshot' = "none"
    /\ UNCHANGED <<msg, faaslet>>

(* A snapshot that is already stored stays.                                 *)
storeZygoteSnapshot == snapshot' = IF snapshot = "none" THEN "current" ELSE snapshot

(* WAVMWasmModule::clone from the cached module.                            *)
clone(m) ==
    [m EXCEPT !.bound = TRUE, !.mem = Zygote("current"), !.globals = {},
              !.stdout = {}, !.ptrs = NoPtrs, !.leaks = {}]

(* A new Faaslet is bound before it is given calls.                         *)
bindToFunction(f) ==
    /\ ~faaslet[f].bound
    /\ faaslet' = [faaslet EXCEPT ![f] = clone(@)]
    /\ storeZygoteSnapshot
    /\ UNCHANGED msg

(* A call on storage works on the memory and the globals of its caller,     *)
(* sent as a delta to the zygote.                                           *)
zygoteDeltaRestore(m) ==
    [m EXCEPT !.mem.by = @ \cup {0}, !.globals = @ \cup {0}]

executeTask(f, c) ==
    /\ faaslet[f].bound /\ faaslet[f].runs = 0
    /\ msg[c].st = "queued"
    /\ msg' = [msg EXCEPT ![c].st = "running"]
    /\ LET m == [faaslet[f] EXCEPT !.runs = c]
       IN faaslet' = [faaslet EXCEPT ![f] = IF msg[c].isstorage
                                            THEN zygoteDeltaRestore(m) ELSE m]
    /\ UNCHANGED snapshot

-----------------------------------------------------------------------------
(* What the function does while it runs.                                    *)
HostCall(f, c) ==
    /\ IsRunning(f, c) /\ msg[c].awaits = 0
    /\ msg[c].steps < MaxSteps

Steps(c) == msg' = [msg EXCEPT ![c].steps = @ + 1]

WriteMemory(f, c) ==
    /\ HostCall(f, c)
    /\ Steps(c)
    /\ faaslet' = [faaslet EXCEPT ![f].mem.by = @ \cup {c}, ![f].globals = @ \cup {c}]
    /\ UNCHANGED snapshot

mmapMemory(f, c) ==
    /\ HostCall(f, c)
    /\ Steps(c)
    /\ faaslet' = [faaslet EXCEPT ![f].mem.above = @ + 1]
    /\ UNCHANGED snapshot

captureStdout(f, c) ==
    /\ HostCall(f, c)
    /\ Steps(c)
    /\ faaslet' = [faaslet EXCEPT ![f].stdout = @ \cup {c}]
    /\ UNCHANGED snapshot

writeOutput(f, c) ==
    /\ HostCall(f, c)
    /\ msg' = [msg EXCEPT ![c].steps = @ + 1, ![c].output = {<<"data", c>>}]
    /\ UNCHANGED <<faaslet, snapshot>>

(* A state value is mapped on top of the memory, unless its address is      *)
(* known.                                                                   *)
mapSharedStateMemory(f, c, k) ==
    /\ HostCall(f, c)
    /\ LET known == faaslet[f].ptrs[k] # 0
           p == IF known THEN faaslet[f].ptrs[k] ELSE Mem(f).above + 1
       IN /\ msg' = [msg EXCEPT ![c].steps = @ + 1, ![c].got[k] = p]
          /\ faaslet' = IF known THEN faaslet
                        ELSE [faaslet EXCEPT ![f].mem.above = p,
                                             ![f].ptrs[k] = p]
    /\ UNCHANGED snapshot

makeChainedCall(c) ==
    /\ Len(msg) < MaxCalls
    /\ msg' = Append([msg EXCEPT ![c].steps = @ + 1], NewCall(c, FALSE))

(* __faasm_chain_name, __faasm_chain_ptr and __faasm_chain_py.              *)
chain(f, c) ==
    /\ HostCall(f, c)
    /\ makeChainedCall(c)
    /\ UNCHANGED <<faaslet, snapshot>>

(* __faasm_await_call and __faasm_await_call_output.                        *)
await(f, c) ==
    /\ HostCall(f, c)
    /\ \E d \in Ids, how \in {"call", "output"} :
          /\ msg[d].parent = c
          /\ msg' = [msg EXCEPT ![c].steps = @ + 1, ![c].awaits = d, ![c].how = how]
    /\ UNCHANGED <<faaslet, snapshot>>

AwaitEnds(c, st) == msg' = [msg EXCEPT ![c].awaits = 0, ![c].how = "", ![c].st = st]

HasResult(c) == msg[msg[c].awaits].st = "published"

LeavesStdout(f) == faaslet' = [faaslet EXCEPT ![f].leaks = faaslet[f].stdout]

(* The call's result, or 1 once chainedCallTimeout has passed.              *)
awaitChainedCall_NoTimeout(f, c) ==
    /\ IsRunning(f, c) /\ msg[c].how = "call"
    /\ HasResult(c)
    /\ AwaitEnds(c, "running")
    /\ UNCHANGED <<faaslet, snapshot>>

awaitChainedCall(f, c) ==
    /\ IsRunning(f, c) /\ msg[c].how = "call"
    /\ AwaitEnds(c, "running")
    /\ UNCHANGED <<faaslet, snapshot>>

(* Here the exception of the time-out ends the caller.                      *)
awaitChainedCallOutput(f, c) ==
    /\ IsRunning(f, c) /\ msg[c].how = "output"
    /\ \/ HasResult(c) /\ AwaitEnds(c, "running") /\ UNCHANGED faaslet
       \/ ~HasResult(c) /\ AwaitEnds(c, "threw") /\ LeavesStdout(f)
    /\ UNCHANGED snapshot

(* Host functions that answer with a constant: made-up ids, no signals, no  *)
(* protection of memory, no processes, no settings.                         *)
Answers(f, c) == HostCall(f, c) /\ UNCHANGED callVars

FakeIds(f, c) == Answers(f, c)
FakeUser(f, c) == Answers(f, c)
confstr(f, c) == Answers(f, c)
Signals(f, c) == Answers(f, c)
madvise(f, c) == Answers(f, c)
mprotect(f, c) == Answers(f, c)
waitpid(f, c) == Answers(f, c)
dlclose(f, c) == Answers(f, c)

ConstantAnswer(f, c) ==
    \/ FakeIds(f, c) \/ FakeUser(f, c) \/ confstr(f, c) \/ Signals(f, c)
    \/ madvise(f, c) \/ mprotect(f, c) \/ waitpid(f, c) \/ dlclose(f, c)

-----------------------------------------------------------------------------
(* The end of executeFunction and of executeTask.  A trap counts as return  *)
(* value 1, an exit as its code; the output is replaced if the call failed, *)
(* and preceded by what was captured of stdout.                             *)
getCapturedStdout(m) == {<<"stdout", d>> : d \in m.stdout}
clearCapturedStdout(m) == [m EXCEPT !.stdout = {}]

FinishTask_KeepsStdout(f, c, ret) ==
    LET m == faaslet[f]
        out == CASE ret = 0 /\ msg[c].isstorage -> {<<"delta", c>>}
                 [] ret # 0 /\ ~msg[c].isstorage -> {<<"failed", c>>}
                 [] OTHER -> msg[c].output
    IN IF msg[c].isstorage
       THEN /\ msg' = [msg EXCEPT ![c].st = "finished", ![c].output = out]
            /\ LeavesStdout(f)
       ELSE /\ msg' = [msg EXCEPT ![c].st = "finished",
                                    ![c].output = out \cup getCapturedStdout(m)]
            /\ UNCHANGED faaslet

FinishTask(f, c, ret) ==
    LET m == faaslet[f]
        out == CASE ret = 0 /\ msg[c].isstorage -> {<<"delta", c>>}
                 [] ret # 0 /\ ~msg[c].isstorage -> {<<"failed", c>>}
                 [] OTHER -> msg[c].output
    IN IF msg[c].isstorage
       THEN /\ msg' = [msg EXCEPT ![c].st = "finished", ![c].output = out]
            /\ LeavesStdout(f)
       ELSE /\ msg' = [msg EXCEPT ![c].st = "finished",
                                    ![c].output = out \cup getCapturedStdout(m)]
            /\ faaslet' = [faaslet EXCEPT ![f] = clearCapturedStdout(m)]

EndsWith(f, c, ret) ==
    /\ IsRunning(f, c) /\ msg[c].awaits = 0
    /\ FinishTask(f, c, ret)
    /\ UNCHANGED snapshot

executeFunction(f, c) == \E ret \in {0, 1} : EndsWith(f, c, ret)

(* proc_exit, exit, _Exit and abort leave the function by an exception that *)
(* executeFunction takes for its return value; abort's is 0.                *)
exit(f, c) == \E code \in {0, 1} : EndsWith(f, c, code)
abort(f, c) == EndsWith(f, c, 0)

(* The host functions that are there for the linker and trap when called.   *)
Traps(f, c) == EndsWith(f, c, 1)
UnsupportedSockets(f, c) == Traps(f, c)
UnsupportedAddresses(f, c) == Traps(f, c)
UnsupportedEnv(f, c) == Traps(f, c)
UnsupportedProcesses(f, c) == Traps(f, c)
UnsupportedThreads(f, c) == Traps(f, c)
UnsupportedAtomics(f, c) == Traps(f, c)
UnsupportedExceptions(f, c) == Traps(f, c)
UnsupportedMessages(f, c) == Traps(f, c)
UnsupportedScheduling(f, c) == Traps(f, c)
UnsupportedClocks(f, c) == Traps(f, c)
UnsupportedMemory(f, c) == Traps(f, c)

UnsupportedIntrinsic(f, c) ==
    \/ UnsupportedSockets(f, c) \/ UnsupportedAddresses(f, c) \/ UnsupportedEnv(f, c)
    \/ UnsupportedProcesses(f, c) \/ UnsupportedThreads(f, c) \/ UnsupportedAtomics(f, c)
    \/ UnsupportedExceptions(f, c) \/ UnsupportedMessages(f, c) \/ UnsupportedScheduling(f, c)
    \/ UnsupportedClocks(f, c) \/ UnsupportedMemory(f, c)

(* A host function throws: the exception passes executeFunction and         *)
(* executeTask.                                                             *)
Throws(f, c) ==
    /\ IsRunning(f, c) /\ msg[c].awaits = 0
    /\ msg' = [msg EXCEPT ![c].st = "threw"]
    /\ LeavesStdout(f)
    /\ UNCHANGED snapshot

(* The functions of the emulator of native code.                            *)
EmulatorCalls(f, c) == Throws(f, c)

(* The executor publishes the result, before or after the reset; an         *)
(* exception is a failed call.  The message is then the client's.           *)
Publish(c) ==
    /\ msg[c].st \in {"finished", "threw"}
    /\ msg' = [msg EXCEPT ![c] = [NewCall(@.parent, @.isstorage) EXCEPT !.st = "published"]]
    /\ UNCHANGED <<faaslet, snapshot>>

(* WAVMWasmModule::reset: globals of the cached module; memory of the       *)
(* zygote snapshot, or, if there is none, a clone that becomes the snapshot.*)
IsOver(c) == c # 0 /\ msg[c].st \in {"finished", "threw", "published"}

reset_OnlyShrinks(f) ==
    /\ IsOver(faaslet[f].runs)
    /\ LET m == [faaslet[f] EXCEPT !.runs = 0, !.globals = {}]
       IN faaslet' = [faaslet EXCEPT ![f] =
             CASE snapshot = "none" -> clone(m)
               [] snapshot # "none" /\ m.mem.above > 0 -> [m EXCEPT !.mem = Zygote(snapshot)]
               [] OTHER -> m]
    /\ storeZygoteSnapshot
    /\ UNCHANGED msg

reset(f) ==
    /\ IsOver(faaslet[f].runs)
    /\ LET m == [faaslet[f] EXCEPT !.runs = 0, !.globals = {}]
       IN faaslet' = [faaslet EXCEPT ![f] =
             IF snapshot = "none" THEN clone(m) ELSE [m EXCEPT !.mem = Zygote(snapshot)]]
    /\ storeZygoteSnapshot
    /\ UNCHANGED msg

-----------------------------------------------------------------------------
Guest(f, c) ==
    \/ WriteMemory(f, c) \/ mmapMemory(f, c) \/ captureStdout(f, c) \/ writeOutput(f, c)
    \/ \E k \in StateKeys : mapSharedStateMemory(f, c, k)
    \/ chain(f, c) \/ await(f, c)
    \/ awaitChainedCall(f, c) \/ awaitChainedCallOutput(f, c)
    \/ executeFunction(f, c) \/ exit(f, c) \/ abort(f, c)
    \/ UnsupportedIntrinsic(f, c) \/ ConstantAnswer(f, c)
    \/ Throws(f, c) \/ EmulatorCalls(f, c)

Executor(f) ==
    \/ bindToFunction(f) \/ reset(f)
    \/ \E c \in Ids : executeTask(f, c) \/ Guest(f, c)

(* Executors run, a function makes finitely many host calls and comes to    *)
(* its end, time passes: what fairness is asked of.  Clients need not call. *)
CallsGoOn == (\E f \in Faaslets : Executor(f)) \/ (\E c \in Ids : Publish(c))

CallsNext ==
    \/ \E s \in BOOLEAN : Invoke(s)
    \/ StateCleared
    \/ CallsGoOn

-----------------------------------------------------------------------------
CallsTypeOK ==
    /\ \A c \in Ids : /\ msg[c].st \in {"queued", "running", "finished", "threw", "published"}
                      /\ msg[c].awaits \in 0 .. Len(msg)
    /\ \A f \in Faaslets : faaslet[f].runs \in 0 .. Len(msg)
    /\ snapshot \in {"none", "current", "old"}

(* A call finds no trace of an earlier one in memory and globals, whatever  *)
(* the earlier ones did and however they ended: only its own writes and, on *)
(* storage, those of the caller whose memory it was given; and the memory   *)
(* started from the zygote of the function as it is.                        *)
StartsFromZygote ==
    \A f \in Faaslets :
       LET c == faaslet[f].runs
           own == IF c = 0 THEN {} ELSE IF msg[c].isstorage THEN {c, 0} ELSE {c}
       IN /\ Mem(f).by \subseteq own /\ faaslet[f].globals \subseteq own
          /\ Mem(f).of = "current"

(* The output of a call shows only what this call printed, unless an        *)
(* earlier one on the Faaslet ended with an exception or ran on storage:    *)
(* what those printed is not taken out.                                     *)
OutputIsOwn ==
    \A f \in Faaslets : LET c == faaslet[f].runs IN
       /\ c # 0 => \A o \in msg[c].output : o[2] \in {c} \cup faaslet[f].leaks
       /\ faaslet[f].stdout \subseteq {c} \cup faaslet[f].leaks

(* "Do not copy over any captured stdout": whatever ran before.             *)
OutputIsAlwaysOwn == \A c \in Ids : \A o \in msg[c].output : o[2] = c

(* "See if we already have this segment mapped into memory": the pointer to *)
(* a state value that a function is given lies inside its memory.           *)
StatePointerIsMapped ==
    \A f \in Faaslets : LET c == faaslet[f].runs IN
       c # 0 /\ msg[c].st = "running" =>
          \A k \in StateKeys : msg[c].got[k] <= Mem(f).above

(* Every call ends and has a result, also if calls await each other with    *)
(* no Faaslet free to run the awaited one: awaiting has a time-out.         *)
CallsEnd == (msg # <<>>) ~> (\A c \in Ids : msg[c].st = "published")
=============================================================================
