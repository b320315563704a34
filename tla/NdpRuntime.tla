----------------------------- MODULE NdpRuntime -----------------------------
(***************************************************************************)
(* The Faasm runtime of a storage node: the NDP endpoint                   *)
(* (src/wasm/ndp_endpoint.cpp), whose handlers run on the asio threads,    *)
(* and the executor threads that run offloaded functions and reach the     *)
(* object through the endpoint's connection (src/wavm/ndp_objects.cpp,     *)
(* WasmModule::executeTask).  A send to a socket the class has closed      *)
(* throws.                                                                 *)
(***************************************************************************)
EXTENDS NdpCommon

VARIABLES
    load,       \* "low" or "high": getSystemUtilisation against thresholds
    slots,      \* the scheduler's executionSlotsSemaphore
    conn,       \* conn[d]: where the NdpConnection of a delivery is
    verdict,    \* verdict[d]: the ndpResult to be sent
    socketMap,  \* ndpSocketMap: call id -> connection
    flag,       \* flag[d]: lastMessageFlag
    lastMsg,    \* lastMsg[d]: lastMessage
    exec,       \* exec[d]: where the executor of the offloaded function is
    request,    \* request[d]: the storage operation it is in
    waitsOn,    \* waitsOn[d]: the connection awaitNdpResponse holds on to
    ops,        \* ops[d]: storage operations made so far
    base,       \* base[d]: the caller memory the function runs on
    outcome,    \* outcome[d]: return value of the function
    resultSent, endSent

endpointVars == <<conn, verdict, socketMap, flag, lastMsg>>
execVars == <<exec, request, waitsOn, ops, base, outcome, resultSent, endSent>>
runtimeVars == <<load, slots, endpointVars, execVars>>

ExecState == {"none", "queued", "delta", "run", "sent", "await", "finished"}
HoldsSlot == {"delta", "run", "sent", "await"}
ConnState == {"none", "accepted", "responding", "receiving", "stopped", "freed"}

RuntimeTypeOK ==
    /\ load \in {"low", "high"}
    /\ slots \in 0..MaxSlots
    /\ conn \in [Deliveries -> ConnState]
    /\ verdict \in [Deliveries -> {"none", "ProcessLocallyNoSlot"} \cup NdpResult]
    /\ socketMap \in [Calls -> Deliveries \cup {None}]
    /\ flag \in [Deliveries -> BOOLEAN]
    /\ lastMsg \in [Deliveries -> {"none"} \cup DownMessage]
    /\ exec \in [Deliveries -> ExecState]
    /\ request \in [Deliveries -> {"none", "NdpRead", "NdpWrite"}]
    /\ waitsOn \in [Deliveries -> Deliveries \cup {None}]
    /\ ops \in [Deliveries -> 0..MaxOps]
    /\ base \in [Deliveries -> Memory]
    /\ outcome \in [Deliveries -> {0, 1}]
    /\ resultSent \in [Deliveries -> BOOLEAN]
    /\ endSent \in [Deliveries -> BOOLEAN]

RuntimeInit ==
    /\ load = "low"
    /\ slots = MaxSlots
    /\ conn = [d \in Deliveries |-> "none"]
    /\ verdict = [d \in Deliveries |-> "none"]
    /\ socketMap = [c \in Calls |-> None]
    /\ flag = [d \in Deliveries |-> FALSE]
    /\ lastMsg = [d \in Deliveries |-> "none"]
    /\ exec = [d \in Deliveries |-> "none"]
    /\ request = [d \in Deliveries |-> "none"]
    /\ waitsOn = [d \in Deliveries |-> None]
    /\ ops = [d \in Deliveries |-> 0]
    /\ base = [d \in Deliveries |-> "atCall"]
    /\ outcome = [d \in Deliveries |-> 0]
    /\ resultSent = [d \in Deliveries |-> FALSE]
    /\ endSent = [d \in Deliveries |-> FALSE]

CallOf(d) == d[1]

(***************************************************************************)
(* Lifetime of a connection.  Its shared_ptr is held by the pending asio   *)
(* operation, by ndpSocketMap and by a thread inside awaitNdpResponse.     *)
(* The destructor erases the map entry of the call id, whichever           *)
(* connection it belongs to; a connection that lived only through that     *)
(* entry goes with it.                                                     *)
(***************************************************************************)
Awaited(d) == \E x \in Deliveries : waitsOn[x] = d

Destroyed(d) ==
    {d} \cup {p \in Deliveries : /\ socketMap[CallOf(d)] = p
                                 /\ conn[p] = "stopped"
                                 /\ ~Awaited(p)}

StopReceiving(d) ==
    IF socketMap[CallOf(d)] = d \/ Awaited(d)
    THEN /\ conn' = [conn EXCEPT ![d] = "stopped"]
         /\ UNCHANGED socketMap
    ELSE /\ conn' = [p \in Deliveries |->
                        IF p \in Destroyed(d) THEN "freed" ELSE conn[p]]
         /\ socketMap' = [socketMap EXCEPT ![CallOf(d)] = None]

(* doAccept / onAcceptable: construct the connection, wait for its request *)
OnAcceptable(d) ==
    /\ sock[d] # "none"
    /\ conn[d] = "none"
    /\ conn' = [conn EXCEPT ![d] = "accepted"]
    /\ UNCHANGED <<load, slots, verdict, socketMap, flag, lastMsg, execVars, commonVars>>

(* onFirstReceivable up to the response: try_acquire a slot, look at the   *)
(* utilisation, and either refuse or give the slot back, register the      *)
(* connection and schedule the function.  A refusal for utilisation keeps  *)
(* the slot.  A duplicate id, or callFunction, throws: in the second case  *)
(* the CephSocketCloser made for the executor sends NdpEnd as it unwinds.  *)
(* try_acquire also fails while handlers on other asio threads are between *)
(* their own try_acquire and release (InWindow).                           *)
InWindow(d) == {x \in Deliveries \ {d} : conn[x] = "accepted"}

Refuse(d) ==
    \/ /\ slots <= Cardinality(InWindow(d))
       /\ verdict' = [verdict EXCEPT ![d] = "ProcessLocallyNoSlot"]
       /\ UNCHANGED <<slots, socketMap, exec, up>>
    \/ /\ slots > 0
       /\ load = "high"
       /\ slots' = slots - 1
       /\ verdict' = [verdict EXCEPT ![d] = "ProcessLocally"]
       /\ UNCHANGED <<socketMap, exec, up>>

Schedule(d) ==
    /\ slots > 0
    /\ load = "low"
    /\ UNCHANGED slots
    /\ \/ /\ socketMap[CallOf(d)] # None
          /\ verdict' = [verdict EXCEPT ![d] = "Error"]
          /\ UNCHANGED <<socketMap, exec, up>>
       \/ /\ socketMap[CallOf(d)] = None
          /\ socketMap' = [socketMap EXCEPT ![CallOf(d)] = d]
          /\ \/ /\ verdict' = [verdict EXCEPT ![d] = "Ok"]
                /\ exec' = [exec EXCEPT ![d] = "queued"]
                /\ UNCHANGED up
             \/ /\ verdict' = [verdict EXCEPT ![d] = "Error"]
                /\ up' = IF sock[d] = "open" THEN Send(up, d, "NdpEnd") ELSE up
                /\ UNCHANGED exec

OnFirstReceivable(d) ==
    /\ conn[d] = "accepted"
    /\ conn' = [conn EXCEPT ![d] = "responding"]
    /\ Refuse(d) \/ Schedule(d)
    /\ UNCHANGED <<load, flag, lastMsg, request, waitsOn, ops, base, outcome,
                   resultSent, endSent, rados, sock, down, handlers, mem, result>>

(* The rest of onFirstReceivable: send the NdpResponse and, if a slot had  *)
(* been free, doRecv.  The executor is already running by now.             *)
Respond(d) ==
    /\ conn[d] = "responding"
    /\ \/ /\ sock[d] = "open"
          /\ up' = Send(up, d, IF verdict[d] = "ProcessLocallyNoSlot"
                               THEN "ProcessLocally" ELSE verdict[d])
          /\ IF verdict[d] = "ProcessLocallyNoSlot"
             THEN StopReceiving(d)
             ELSE conn' = [conn EXCEPT ![d] = "receiving"] /\ UNCHANGED socketMap
       \/ /\ sock[d] = "closed"
          /\ UNCHANGED up
          /\ StopReceiving(d)
    /\ UNCHANGED <<load, slots, verdict, flag, lastMsg, execVars,
                   rados, sock, down, handlers, mem, result>>

(* recvMsgContent and onReceivable: keep the message, raise the flag, read *)
(* the next one.                                                           *)
OnReceivable(d) ==
    /\ conn[d] = "receiving"
    /\ down[d] # <<>>
    /\ Head(down[d]) # "err"
    /\ lastMsg' = [lastMsg EXCEPT ![d] = Head(down[d])]
    /\ flag' = [flag EXCEPT ![d] = TRUE]
    /\ down' = Receive(down, d)
    /\ UNCHANGED <<load, slots, conn, verdict, socketMap, execVars,
                   rados, sock, up, handlers, mem, result>>

(* No further message: the class closed the socket (an error code is only  *)
(* logged), or sent the error length, for which resize throws.  Nobody is  *)
(* notified.                                                               *)
OnReceiveError(d) ==
    /\ conn[d] = "receiving"
    /\ \/ down[d] = <<>> /\ sock[d] = "closed"
       \/ down[d] # <<>> /\ Head(down[d]) = "err"
    /\ StopReceiving(d)
    /\ UNCHANGED <<load, slots, verdict, flag, lastMsg, execVars, commonVars>>

(* Mutant: an executor starts without a slot. *)
StartExecutor_NoAcquire(d) ==
    /\ exec[d] = "queued"
    /\ exec' = [exec EXCEPT ![d] = "delta"]
    /\ UNCHANGED <<slots, load, endpointVars, request, waitsOn, ops, base, outcome,
                   resultSent, endSent, commonVars>>

(* An executor takes the function off its queue once it has a slot. *)
StartExecutor(d) ==
    /\ exec[d] = "queued"
    /\ slots > 0
    /\ slots' = slots - 1
    /\ exec' = [exec EXCEPT ![d] = "delta"]
    /\ UNCHANGED <<load, endpointVars, request, waitsOn, ops, base, outcome,
                   resultSent, endSent, commonVars>>

(* The slot goes back when the task is over, with return value r. *)
FinishTask(d, r) ==
    /\ exec' = [exec EXCEPT ![d] = "finished"]
    /\ outcome' = [outcome EXCEPT ![d] = r]
    /\ slots' = slots + 1

(* executeTask with isstorage: ask the caller's host for the memory delta. *)
(* Its handler snapshots the memory as it is then; without a handler the   *)
(* request fails and with it the task.                                     *)
RequestNdpDelta(d) ==
    /\ exec[d] = "delta"
    /\ \/ /\ CallOf(d) \in handlers
          /\ base' = [base EXCEPT ![d] = mem[CallOf(d)]]
          /\ exec' = [exec EXCEPT ![d] = "run"]
          /\ UNCHANGED <<slots, outcome>>
       \/ /\ CallOf(d) \notin handlers
          /\ FinishTask(d, 1)
          /\ UNCHANGED base
    /\ UNCHANGED <<load, endpointVars, request, waitsOn, ops, resultSent,
                   endSent, commonVars>>

(* __faasmndp_getMmap / __faasmndp_put on the hinted object: look up the   *)
(* connection and send the request; both failures return -1 to the guest.  *)
StorageRequest(d, m) ==
    LET p == socketMap[CallOf(d)] IN
    /\ exec[d] = "run"
    /\ ops[d] < MaxOps
    /\ ops' = [ops EXCEPT ![d] = @ + 1]
    /\ \/ /\ p # None
          /\ sock[p] = "open"
          /\ up' = Send(up, p, m)
          /\ exec' = [exec EXCEPT ![d] = "sent"]
          /\ request' = [request EXCEPT ![d] = m]
       \/ /\ p # None => sock[p] = "closed"
          /\ UNCHANGED <<up, exec, request>>
    /\ UNCHANGED <<load, slots, endpointVars, waitsOn, base, outcome, resultSent,
                   endSent, rados, sock, down, handlers, mem, result>>

(* awaitNdpResponse looks the connection up again and keeps it. *)
AwaitNdpResponse(d) ==
    LET p == socketMap[CallOf(d)] IN
    /\ exec[d] = "sent"
    /\ waitsOn' = [waitsOn EXCEPT ![d] = p]
    /\ exec' = [exec EXCEPT ![d] = IF p = None THEN "run" ELSE "await"]
    /\ request' = [request EXCEPT ![d] = IF p = None THEN "none" ELSE @]
    /\ UNCHANGED <<load, slots, endpointVars, ops, base, outcome, resultSent,
                   endSent, commonVars>>

(* Mutant: the flag and the message of the last answer stay. *)
TakeResponse_KeepFlag(d) ==
    /\ exec[d] = "await"
    /\ flag[waitsOn[d]]
    /\ UNCHANGED <<flag, lastMsg, conn, socketMap>>
    /\ exec' = [exec EXCEPT ![d] = "run"]
    /\ waitsOn' = [waitsOn EXCEPT ![d] = None]
    /\ request' = [request EXCEPT ![d] = "none"]
    /\ UNCHANGED <<load, slots, verdict, ops, base, outcome, resultSent,
                   endSent, commonVars>>

(* The flag is up: clear it, take the message, let go of the connection.   *)
TakeResponse(d) ==
    LET p == waitsOn[d] IN
    /\ exec[d] = "await"
    /\ flag[p]
    /\ flag' = [flag EXCEPT ![p] = FALSE]
    /\ lastMsg' = [lastMsg EXCEPT ![p] = "none"]
    /\ exec' = [exec EXCEPT ![d] = "run"]
    /\ waitsOn' = [waitsOn EXCEPT ![d] = None]
    /\ request' = [request EXCEPT ![d] = "none"]
    /\ IF /\ conn[p] = "stopped"
          /\ socketMap[CallOf(p)] # p
          /\ \A x \in Deliveries \ {d} : waitsOn[x] # p
       THEN /\ conn' = [conn EXCEPT ![p] = "freed"]
            /\ socketMap' = [socketMap EXCEPT ![CallOf(p)] = None]
       ELSE UNCHANGED <<conn, socketMap>>
    /\ UNCHANGED <<load, slots, verdict, ops, base, outcome, resultSent,
                   endSent, commonVars>>

(* The function returns, or traps: executeTask reports its return value. *)
FunctionReturns(d) ==
    /\ exec[d] = "run"
    /\ \E r \in {0, 1} : FinishTask(d, r)
    /\ UNCHANGED <<load, endpointVars, request, waitsOn, ops, base,
                   resultSent, endSent, commonVars>>

(* faabric: the result message, with the memory delta, goes straight to    *)
(* the host of the call and fills its result slot.                         *)
SendDirectResult(d) ==
    /\ exec[d] = "finished"
    /\ ~resultSent[d]
    /\ resultSent' = [resultSent EXCEPT ![d] = TRUE]
    /\ result' = [result EXCEPT ![CallOf(d)] =
                     IF @.full THEN @
                     ELSE [full |-> TRUE, ret |-> outcome[d], base |-> base[d]]]
    /\ UNCHANGED <<load, slots, endpointVars, exec, request, waitsOn, ops, base,
                   outcome, endSent, rados, sock, up, down, handlers, mem>>

(* faabric drops the task and with it the CephSocketCloser, whose          *)
(* destructor sends NdpEnd on the connection that brought the request.     *)
CloseCephSocket(d) ==
    /\ exec[d] = "finished"
    /\ ~endSent[d]
    /\ endSent' = [endSent EXCEPT ![d] = TRUE]
    /\ up' = IF sock[d] = "open" THEN Send(up, d, "NdpEnd") ELSE up
    /\ UNCHANGED <<load, slots, endpointVars, exec, request, waitsOn, ops, base,
                   outcome, resultSent, rados, sock, down, handlers, mem, result>>

(* Environment: the utilisation of the node crosses a threshold. *)
LoadChanges ==
    /\ load' = IF load = "low" THEN "high" ELSE "low"
    /\ UNCHANGED <<slots, endpointVars, execVars, commonVars>>

RuntimeStep ==
    \/ LoadChanges
    \/ \E d \in Deliveries :
        \/ OnAcceptable(d) \/ OnFirstReceivable(d) \/ Respond(d)
        \/ OnReceivable(d) \/ OnReceiveError(d)
        \/ StartExecutor(d) \/ RequestNdpDelta(d)
        \/ \E m \in {"NdpRead", "NdpWrite"} : StorageRequest(d, m)
        \/ AwaitNdpResponse(d) \/ TakeResponse(d) \/ FunctionReturns(d)
        \/ SendDirectResult(d) \/ CloseCephSocket(d)
=============================================================================
