----------------------------- MODULE NdpOffload -----------------------------
(***************************************************************************)
(* An NDP call end to end: the caller, the Ceph class and the storage      *)
(* runtime composed.  Each part's actions constrain its own variables and  *)
(* the shared ones; here the other parts' variables stay as they are.      *)
(***************************************************************************)
EXTENDS NdpCaller, NdpCephClass, NdpRuntime

vars == <<commonVars, callerVars, cls, runtimeVars>>

Init == CommonInit /\ CallerInit /\ ClassInit /\ RuntimeInit

Next ==
    \/ CallerStep /\ UNCHANGED <<cls, runtimeVars>>
    \/ ClassStep /\ UNCHANGED <<callerVars, runtimeVars>>
    \/ RuntimeStep /\ UNCHANGED <<callerVars, cls>>

Safety == Init /\ [][Next]_vars

(* Weak fairness where the code keeps a thread or a timer running: the     *)
(* caller's thread, the class (its two polls have timeouts), the asio      *)
(* handlers and the executor threads.  Not the environment: load changes,  *)
(* redelivery, and the chained-call timeout need never happen, and a       *)
(* function need not make storage requests.                                *)
Fairness ==
    /\ \A c \in Calls :
          WF_vars((OnResponse(c) \/ AwaitResult(c) \/ CallLocally(c))
                  /\ UNCHANGED <<cls, runtimeVars>>)
    /\ \A d \in Deliveries :
          /\ WF_vars((Forward(d) \/ FirstTimeout(d) \/ FirstReceive(d)
                      \/ LoopTimeout(d) \/ ServeStorage(d) \/ ServeEnd(d))
                     /\ UNCHANGED <<callerVars, runtimeVars>>)
          /\ WF_vars((OnAcceptable(d) \/ OnFirstReceivable(d) \/ Respond(d)
                      \/ OnReceivable(d) \/ OnReceiveError(d))
                     /\ UNCHANGED <<callerVars, cls>>)
          /\ WF_vars((RequestNdpDelta(d) \/ AwaitNdpResponse(d) \/ TakeResponse(d)
                      \/ FunctionReturns(d)) /\ UNCHANGED <<callerVars, cls>>)
          /\ WF_vars(SendDirectResult(d) /\ UNCHANGED <<callerVars, cls>>)
          /\ WF_vars(CloseCephSocket(d) /\ UNCHANGED <<callerVars, cls>>)
          /\ WF_vars(StartExecutor(d) /\ UNCHANGED <<callerVars, cls>>)

Spec == Safety /\ Fairness

(***************************************************************************)
(* Properties                                                              *)
(***************************************************************************)
(* Every variable of the three parts keeps its type; slots never exceeds   *)
(* the count executionSlotsSemaphore starts with.                          *)
TypeOK == CommonTypeOK /\ CallerTypeOK /\ ClassTypeOK /\ RuntimeTypeOK

Holders == {d \in Deliveries : exec[d] \in HoldsSlot}

(* A semaphore unit is free, held by one executor, or was kept by a        *)
(* refused connection: onFirstReceivable gives back what try_acquire took  *)
(* before it schedules, so no interleaving runs more functions than there  *)
(* are slots.                                                              *)
SlotsBoundExecutors == slots + Cardinality(Holders) <= MaxSlots

(* The caller waits for a direct result only if the function of the        *)
(* accepted delivery has run to its end: the class replies Ok after        *)
(* NdpEnd, and NdpEnd comes from the closer of a finished task.  (The      *)
(* NdpEnd of a failed scheduling attempt never becomes an Ok.)             *)
OkOnlyAfterRemoteRun ==
    \A c \in Calls :
        caller[c] = "awaitResult" => exec[Current(c)] = "finished"

(* The delta a caller restores was computed on its memory as it was when   *)
(* it made the call: the handler runs on another thread, but only sees the *)
(* memory while the caller is blocked, even when an earlier delivery is    *)
(* still running.                                                          *)
DeltaBuiltOnCallMemory ==
    \A c \in Calls :
        caller[c] = "awaitResult" /\ result[c].full => result[c].base = "atCall"

OnlyExecution(d) ==
    \A x \in Deliveries \ {d} : CallOf(x) = CallOf(d) => exec[x] = "none"

(* The message a thread in awaitNdpResponse finds when the flag is up is   *)
(* the answer to its own request, not one left over from an earlier one,   *)
(* as long as its function is the only one running under the call id.      *)
ResponseMatchesRequest ==
    \A d \in Deliveries :
        exec[d] = "await" /\ flag[waitsOn[d]] /\ OnlyExecution(d) =>
            lastMsg[waitsOn[d]] = IF request[d] = "NdpRead" THEN "data" ELSE "ok"

(***************************************************************************)
(* Refinement: the three parts together implement NdpCall                  *)
(***************************************************************************)
(* A complete run counts for its call if it started from the memory of the *)
(* call; one whose delta request came too late does not.                   *)
RunsOf(c) ==
    {outcome[d] : d \in {x \in Deliveries : /\ CallOf(x) = c
                                            /\ exec[x] = "finished"
                                            /\ base[x] = "atCall"}}

(* What the caller holds; a delta of other memory would be neither.        *)
MemoryOf(c) ==
    IF mem[c] = "restored" /\ result[c].base # "atCall" THEN "mixed" ELSE mem[c]

PhaseOf(c) ==
    IF caller[c] = "idle" THEN "idle"
    ELSE IF caller[c] \in Ended THEN "ended" ELSE "pending"

Abstract == INSTANCE NdpCall
    WITH phase <- [c \in Calls |-> PhaseOf(c)],
         memory <- [c \in Calls |-> MemoryOf(c)],
         runs <- [c \in Calls |-> RunsOf(c)]

(* storageCallAndAwaitImpl is a call: whatever is delivered twice, refused *)
(* late, timed out or overtaken below it, it ends (every path of the class *)
(* comes to a reply, by its timeouts if not otherwise, and a caller that   *)
(* was told Ok finds its result), and it leaves the memory as one complete *)
(* successful run on the memory of the call, or as a run of its own, or    *)
(* untouched.                                                              *)
ImplementsNdpCall == Abstract!Spec

(***************************************************************************)
(* The inductive invariant behind the safety properties (NdpOffloadProofs) *)
(***************************************************************************)
(* Admission: a function is scheduled by the handler that decides to say   *)
(* Ok, and by nothing else.                                                *)
Admission ==
    \A d \in Deliveries :
        /\ conn[d] \in {"none", "accepted"} => verdict[d] = "none"
        /\ conn[d] = "responding" => verdict[d] # "none"
        /\ verdict[d] = "Ok" <=> exec[d] # "none"

OnTheWay(d, m) == \E i \in 1..Len(up[d]) : up[d][i] = m

(* An Ok the class has read or will read, and the NdpEnd behind it, mean   *)
(* what the caller takes them to mean.                                     *)
EndOfDelivery(d) ==
    /\ OnTheWay(d, "Ok") \/ cls[d] = "loop" => verdict[d] = "Ok"
    /\ OnTheWay(d, "NdpEnd") =>
          verdict[d] # "none" /\ (verdict[d] = "Ok" => exec[d] = "finished")
    /\ rados[d] = "Ok" => cls[d] = "done" /\ exec[d] = "finished"

EndOfRun ==
    /\ \A d \in Deliveries : EndOfDelivery(d)
    /\ \A c \in Calls : caller[c] = "awaitResult" => rados[Current(c)] = "Ok"

(* Until the call is over, the caller's memory, and so every delta taken   *)
(* from it, is that of the call.                                           *)
CallMemory ==
    \A c \in Calls :
        caller[c] \in {"idle", "waitCeph", "awaitResult"} =>
            /\ mem[c] = "atCall"
            /\ result[c].base = "atCall"
            /\ \A k \in 0..Resends : base[<<c, k>>] = "atCall"

(* What happens on a storage node happens for a call that was made. *)
CalledFirst ==
    \A d \in Deliveries :
        /\ conn[d] # "none" => sock[d] # "none"
        /\ sock[d] # "none" \/ cls[d] # "none" => rados[d] # "none"
        /\ rados[d] # "none" => caller[CallOf(d)] # "idle"

(* A full result slot holds the result of a run that has ended, and only   *)
(* a full one is restored from.                                            *)
ResultFromRun ==
    \A c \in Calls :
        /\ result[c].full =>
              \E d \in Deliveries :
                 /\ CallOf(d) = c /\ exec[d] = "finished"
                 /\ outcome[d] = result[c].ret /\ base[d] = result[c].base
        /\ mem[c] = "restored" => result[c].full

(* A caller that runs the function itself does so on untouched memory.     *)
LocalMemory == \A c \in Calls : caller[c] = "callLocally" => mem[c] = "atCall"

(***************************************************************************)
(* What comments and documents of the repository say of NDP, and the code  *)
(* does not keep                                                           *)
(***************************************************************************)
(* "Processing refused due to high load": a request is turned away only    *)
(* while utilisation is high, functions are running or other requests are  *)
(* being looked at.                                                        *)
RefusedOnlyUnderLoad ==
    [][\A d \in Deliveries :
          verdict[d] = "none" /\ verdict'[d] \in {"ProcessLocally", "ProcessLocallyNoSlot"}
          => load = "high" \/ Holders # {} \/ InWindow(d) # {}]_vars

(* ProcessLocally means "Processing refused": a caller that runs the       *)
(* function itself has no copy of it on a storage node.                    *)
LocalOnlyIfRefused ==
    \A c \in Calls : caller[c] = "callLocally" => exec[Current(c)] = "none"

(* "Sent by Storage Ceph -> Compute Faasm once all processing ends".       *)
ReplyOnceProcessingEnds ==
    \A d \in Deliveries :
        rados[d] \in Replies => exec[d] \notin {"queued"} \cup HoldsSlot

(* "clear after function called": no delta handler outlives its call.      *)
HandlerClearedAfterCall ==
    \A c \in Calls : caller[c] = "returned" => c \notin handlers

(* "when it finishes executing, ... sends a direct result": an accepted    *)
(* function does finish.                                                   *)
AcceptedCallSendsResult ==
    \A d \in Deliveries : exec[d] = "queued" ~> resultSent[d]

(* "Duplicate NDP call id": a second function is never started under the   *)
(* id of one that was accepted.                                            *)
OneExecutionPerCall ==
    \A c \in Calls :
        Cardinality({k \in 0..Resends : exec[<<c, k>>] # "none"}) <= 1
=============================================================================
