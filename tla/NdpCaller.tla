----------------------------- MODULE NdpCaller -----------------------------
(***************************************************************************)
(* The compute node: storageCallAndAwaitImpl (src/wavm/ndp_objects.cpp)    *)
(* and S3Wrapper::asyncNdpCall below it.  A call registers a handler that  *)
(* snapshots its memory on request, opens a result slot, blocks on the     *)
(* rados operation, and then restores the memory delta of the remote run,  *)
(* runs the function itself, or throws.                                    *)
(***************************************************************************)
EXTENDS NdpCommon

VARIABLES
    caller,     \* caller[c]: where storageCallAndAwaitImpl is
    delivery    \* delivery[c]: latest delivery; only its reply is accepted

callerVars == <<caller, delivery>>

Ended == {"returned", "failed", "threw"}

CallerTypeOK ==
    /\ caller \in [Calls -> {"idle", "waitCeph", "awaitResult", "callLocally"}
                            \cup Ended]
    /\ delivery \in [Calls -> 0..Resends]

CallerInit ==
    /\ caller = [c \in Calls |-> "idle"]
    /\ delivery = [c \in Calls |-> 0]

Goto(c, pc) == caller' = [caller EXCEPT ![c] = pc]

Current(c) == <<c, delivery[c]>>

(* forbidndp, or already on a storage node: nothing is offloaded. *)
RunWithoutNdp(c) ==
    /\ caller[c] = "idle"
    /\ Goto(c, "callLocally")
    /\ UNCHANGED <<delivery, commonVars>>

(* Mutant: the caller goes on writing its memory during the operation. *)
Offload_WritesAfter(c) ==
    /\ caller[c] = "idle"
    /\ handlers' = handlers \cup {c}
    /\ Goto(c, "waitCeph") /\ rados' = [rados EXCEPT ![Current(c)] = "sent"]
    /\ mem' = [mem EXCEPT ![c] = "later"]
    /\ UNCHANGED <<delivery, sock, up, down, result>>

(* registerNdpDeltaHandler, addLocalResultSlot and rados_aio_exec; if the  *)
(* operation cannot be submitted asyncNdpCall throws out of the call.      *)
Offload(c) ==
    /\ caller[c] = "idle"
    /\ handlers' = handlers \cup {c}
    /\ \/ Goto(c, "waitCeph") /\ rados' = [rados EXCEPT ![Current(c)] = "sent"]
       \/ Goto(c, "threw") /\ UNCHANGED rados
    /\ UNCHANGED <<delivery, sock, up, down, mem, result>>

(* librados: the OSD map changed, the operation goes out once more. *)
Redeliver(c) ==
    /\ caller[c] = "waitCeph"
    /\ delivery[c] < Resends
    /\ delivery' = [delivery EXCEPT ![c] = @ + 1]
    /\ rados' = [rados EXCEPT ![<<c, delivery[c] + 1>>] = "sent"]
    /\ UNCHANGED <<caller, sock, up, down, handlers, mem, result>>

(* rados_aio_wait_for_complete, then the switch on the NdpResponse.  The   *)
(* return code of a failed class method is not read (asyncNdpCall returns  *)
(* the code of the submission): the output buffer is then all zeros and    *)
(* verifyFlatbuf throws.                                                   *)
OnResponse(c) ==
    /\ caller[c] = "waitCeph"
    /\ LET r == rados[Current(c)] IN
       \/ r = "Ok" /\ Goto(c, "awaitResult")
       \/ r = "ProcessLocally" /\ Goto(c, "callLocally")
       \/ r \in {"Error", "failed"} /\ Goto(c, "threw")
    /\ UNCHANGED <<delivery, commonVars>>

(* Mutant: the return value of the remote run is not looked at. *)
AwaitResult_AnyResult(c) ==
    /\ caller[c] = "awaitResult"
    /\ result[c].full
    /\ handlers' = handlers \ {c}
    /\ Goto(c, "returned")
    /\ mem' = [mem EXCEPT ![c] = "restored"]
    /\ UNCHANGED <<delivery, rados, sock, up, down, result>>

(* awaitChainedCallMessage returned: drop the handler, then either hand    *)
(* back the error code or restore globals and memory from the delta.       *)
AwaitResult(c) ==
    /\ caller[c] = "awaitResult"
    /\ result[c].full
    /\ handlers' = handlers \ {c}
    /\ \/ /\ result[c].ret # 0
          /\ Goto(c, "failed")
          /\ UNCHANGED mem
       \/ /\ result[c].ret = 0
          /\ Goto(c, "returned")
          /\ mem' = [mem EXCEPT ![c] = "restored"]
    /\ UNCHANGED <<delivery, rados, sock, up, down, result>>

(* getFunctionResult gave up after chainedCallTimeout: its exception is    *)
(* not caught on this path.                                                *)
AwaitTimeout(c) ==
    /\ caller[c] = "awaitResult"
    /\ ~result[c].full
    /\ Goto(c, "threw")
    /\ UNCHANGED <<delivery, commonVars>>

(* The function is invoked here; Python calls and exceptions of the        *)
(* function return -0x12345678 instead of a result.                        *)
CallLocally(c) ==
    /\ caller[c] = "callLocally"
    /\ \/ Goto(c, "returned") /\ mem' = [mem EXCEPT ![c] = "local"]
       \/ Goto(c, "failed") /\ mem' \in {mem, [mem EXCEPT ![c] = "local"]}
    /\ UNCHANGED <<delivery, rados, sock, up, down, handlers, result>>

(* After the call the calling function goes on and writes its memory. *)
CallerGoesOn(c) ==
    /\ caller[c] \in Ended
    /\ mem[c] # "later"
    /\ mem' = [mem EXCEPT ![c] = "later"]
    /\ UNCHANGED <<callerVars, rados, sock, up, down, handlers, result>>

CallerStep ==
    \E c \in Calls :
        \/ RunWithoutNdp(c) \/ Offload(c) \/ Redeliver(c) \/ OnResponse(c)
        \/ AwaitResult(c) \/ AwaitTimeout(c) \/ CallLocally(c) \/ CallerGoesOn(c)
=============================================================================
