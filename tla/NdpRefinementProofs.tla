------------------------ MODULE NdpRefinementProofs ------------------------
(***************************************************************************)
(* The caller, the Ceph class and the storage runtime together implement   *)
(* the safety part of NdpCall, for every value of the constants: every     *)
(* step of NdpOffload is a step of NdpCall on the mapped variables or      *)
(* leaves them as they are.  And the storage operations of a function get  *)
(* their own answers from the class.                                       *)
(***************************************************************************)
EXTENDS NdpOffloadProofs

(* Steps are left to Zenon unless they name SMT, which has the arithmetic. *)
USE Zenon

RefinementInv == MemoryInv /\ CalledFirst /\ ResultFromRun /\ LocalMemory

(* The types the steps below reason with.                                  *)
LEMMA TypesUsed ==
  ASSUME TypeOK
  PROVE  /\ rados \in [Deliveries -> {"none", "sent"} \cup Replies]
         /\ sock \in [Deliveries -> {"none", "open", "closed"}]
         /\ conn \in [Deliveries -> ConnState]
         /\ exec \in [Deliveries -> ExecState]
         /\ outcome \in [Deliveries -> {0, 1}]
         /\ base \in [Deliveries -> Memory]
         /\ mem \in [Calls -> Memory]
         /\ result \in [Calls -> [full : BOOLEAN, ret : {0, 1}, base : Memory]]
         /\ caller \in [Calls -> {"idle", "waitCeph", "awaitResult", "callLocally"}
                                 \cup Ended]
         /\ delivery \in [Calls -> 0..Resends]
  BY DEF TypeOK, CommonTypeOK, CallerTypeOK, RuntimeTypeOK

(* A delivery belongs to a call, and the current one of a call is one.     *)
LEMMA DeliveryOfCall ==
  /\ \A d \in Deliveries : CallOf(d) \in Calls
  /\ \A c \in Calls, k \in 0..Resends : <<c, k>> \in Deliveries /\ CallOf(<<c, k>>) = c
  BY DEF Deliveries, CallOf

(* What a step of an executor does to runs: the one it executes may end,   *)
(* and a run that has ended stays as it is.                                *)
LEMMA ExecutorMovesRun ==
  ASSUME TypeOK, NEW d \in Deliveries, ExecutorAction(d)
  PROVE  /\ UNCHANGED <<mem, rados, sock>>
         /\ \A x \in Deliveries \ {d} :
               exec'[x] = exec[x] /\ outcome'[x] = outcome[x] /\ base'[x] = base[x]
         /\ exec[d] # "none"
         /\ exec[d] = "finished" =>
               exec'[d] = exec[d] /\ outcome'[d] = outcome[d] /\ base'[d] = base[d]
         /\ exec'[d] = "finished" => outcome'[d] \in {0, 1}
  <1>t. /\ exec \in [Deliveries -> ExecState] /\ outcome \in [Deliveries -> {0, 1}]
        /\ base \in [Deliveries -> Memory]
    BY TypesUsed
  <1>1. UNCHANGED <<mem, rados, sock>>
    BY DEF ExecutorAction, StartExecutor, RequestNdpDelta, StorageRequest,
           AwaitNdpResponse, TakeResponse, FunctionReturns, SendDirectResult,
           CloseCephSocket, commonVars
  <1>2. \/ UNCHANGED <<exec, outcome, base>> /\ exec[d] # "none"
        \/ /\ exec[d] \notin {"none", "finished"}
           /\ \E e : exec' = [exec EXCEPT ![d] = e]
           /\ outcome' = outcome \/ \E r \in {0, 1} : outcome' = [outcome EXCEPT ![d] = r]
           /\ base' = base \/ \E b : base' = [base EXCEPT ![d] = b]
    <2> USE DEF FinishTask
    <2>1. CASE StartExecutor(d) BY <2>1 DEF StartExecutor
    <2>2. CASE RequestNdpDelta(d) BY <2>2 DEF RequestNdpDelta
    <2>3. CASE \E m \in {"NdpRead", "NdpWrite"} : StorageRequest(d, m)
      BY <2>3 DEF StorageRequest
    <2>4. CASE AwaitNdpResponse(d) BY <2>4 DEF AwaitNdpResponse
    <2>5. CASE TakeResponse(d) BY <2>5 DEF TakeResponse
    <2>6. CASE FunctionReturns(d) BY <2>6 DEF FunctionReturns
    <2>7. CASE SendDirectResult(d) BY <2>7 DEF SendDirectResult
    <2>8. CASE CloseCephSocket(d) BY <2>8 DEF CloseCephSocket
    <2> QED BY <2>1, <2>2, <2>3, <2>4, <2>5, <2>6, <2>7, <2>8 DEF ExecutorAction
  <1> QED BY <1>t, <1>1, <1>2

(* A handler of the endpoint touches no run that has begun.                *)
LEMMA EndpointKeepsRuns ==
  ASSUME TypeOK, Admission, NEW d \in Deliveries, EndpointAction(d)
  PROVE  /\ UNCHANGED <<mem, result, outcome, base, rados, sock>>
         /\ \A x \in Deliveries :
               exec'[x] = exec[x] \/ (exec[x] = "none" /\ exec'[x] = "queued")
         /\ \A x \in Deliveries : conn'[x] = "none" \/ conn[x] # "none" \/ sock[x] # "none"
  <1>t. exec \in [Deliveries -> ExecState] /\ conn \in [Deliveries -> ConnState]
    BY TypesUsed
  <1>1. UNCHANGED <<mem, result, outcome, base, rados, sock>>
    BY DEF EndpointAction, OnAcceptable, OnFirstReceivable, Respond,
                 OnReceivable, OnReceiveError, commonVars, execVars
  <1>2. \/ exec' = exec
        \/ exec[d] = "none" /\ exec' = [exec EXCEPT ![d] = "queued"]
    BY DEF EndpointAction, OnAcceptable, OnFirstReceivable, Refuse, Schedule, Respond,
                 OnReceivable, OnReceiveError, execVars, Admission
  <1>3. \A x \in Deliveries : conn'[x] = "none" \/ conn[x] # "none" \/ sock[x] # "none"
    <2>1. CASE OnAcceptable(d) BY <1>t, <2>1 DEF OnAcceptable
    <2>2. CASE OnFirstReceivable(d) BY <1>t, <2>2 DEF OnFirstReceivable
    <2>3. CASE Respond(d) \/ OnReceivable(d) \/ OnReceiveError(d)
      <3>1. conn[d] # "none"
        BY <2>3 DEF Respond, OnReceivable, OnReceiveError
      <3> QED BY <1>t, <2>3, <3>1 DEF Respond, OnReceivable, OnReceiveError, StopReceiving, Destroyed
    <2> QED BY <2>1, <2>2, <2>3 DEF EndpointAction
  <1> QED BY <1>t, <1>1, <1>2, <1>3

(* A step of the caller: only a call that leaves "idle" sends operations,  *)
(* and only a full result slot is restored from.                           *)
LEMMA CallerKeepsRefinementInv ==
  ASSUME RefinementInv, CallerStep, UNCHANGED <<cls, runtimeVars>>
  PROVE  CalledFirst' /\ ResultFromRun' /\ LocalMemory'
  <1>t. TypeOK /\ CallMemory /\ CalledFirst /\ ResultFromRun /\ LocalMemory
    BY DEF RefinementInv, MemoryInv, SlotInv
  <1>u. /\ rados \in [Deliveries -> {"none", "sent"} \cup Replies]
        /\ mem \in [Calls -> Memory]
        /\ caller \in [Calls -> {"idle", "waitCeph", "awaitResult", "callLocally"}
                                \cup Ended]
        /\ delivery \in [Calls -> 0..Resends]
    BY <1>t, TypesUsed
  <1>v. UNCHANGED <<conn, sock, exec, outcome, base, result>>
    BY DEF CallerStep, RunWithoutNdp, Offload, Redeliver, OnResponse, AwaitResult,
           AwaitTimeout, CallLocally, CallerGoesOn, commonVars, runtimeVars, endpointVars,
           execVars
  <1>1. PICK c \in Calls :
          \/ RunWithoutNdp(c) \/ Offload(c) \/ Redeliver(c) \/ OnResponse(c)
          \/ AwaitResult(c) \/ AwaitTimeout(c) \/ CallLocally(c) \/ CallerGoesOn(c)
    BY DEF CallerStep
  <1>2. /\ \A b \in Calls \ {c} : caller'[b] = caller[b] /\ mem'[b] = mem[b]
        /\ caller'[c] # "idle" \/ caller' = caller
    BY <1>1, <1>u DEF RunWithoutNdp, Offload, Redeliver, OnResponse, AwaitResult,
           AwaitTimeout, CallLocally, CallerGoesOn, Goto, commonVars, callerVars, Ended
  <1>3. /\ \A d \in Deliveries : rados'[d] = rados[d] \/ (CallOf(d) = c /\ caller'[c] # "idle")
        /\ \A d \in Deliveries : rados[d] # "none" => rados'[d] # "none"
    <2>1. CASE rados' = rados BY <2>1
    <2>2. CASE \E k \in 0..Resends : /\ rados' = [rados EXCEPT ![<<c, k>>] = "sent"]
                                      /\ caller'[c] # "idle"
      BY <1>u, <2>2, DeliveryOfCall
    <2>3. Offload(c) \/ Redeliver(c) \/ rados' = rados
      BY <1>1 DEF RunWithoutNdp, OnResponse, AwaitResult, AwaitTimeout, CallLocally,
                  CallerGoesOn, commonVars
    <2>4. CASE Offload(c)
      BY <1>u, <2>1, <2>2, <2>4 DEF Offload, Goto, Current
    <2>5. CASE Redeliver(c)
      <3>1. delivery[c] + 1 \in 0..Resends
        BY SMT, <1>u, <2>5, BoundsAreNat DEF Redeliver
      <3> QED BY <1>u, <2>2, <2>5, <3>1 DEF Redeliver
    <2> QED BY <2>1, <2>3, <2>4, <2>5
  <1>4. CalledFirst'
    BY <1>t, <1>v, <1>2, <1>3, DeliveryOfCall DEF CalledFirst
  <1>5. mem'[c] = "restored" => mem[c] = "restored" \/ result[c].full
    BY <1>1, <1>u DEF RunWithoutNdp, Offload, Redeliver, OnResponse, AwaitResult,
           AwaitTimeout, CallLocally, CallerGoesOn, commonVars
  <1>6. ResultFromRun'
    BY <1>t, <1>v, <1>2, <1>5 DEF ResultFromRun
  <1>7. caller'[c] = "callLocally" => mem'[c] = "atCall"
    <2>1. caller[c] \in {"idle", "waitCeph"} => mem[c] = "atCall"
      BY <1>t DEF CallMemory
    <2> QED BY <1>1, <1>t, <1>u, <2>1 DEF RunWithoutNdp, Offload, Redeliver, OnResponse,
               AwaitResult, AwaitTimeout, CallLocally, CallerGoesOn, Goto, commonVars,
               callerVars, Ended, LocalMemory
  <1>8. LocalMemory'
    BY <1>t, <1>2, <1>7 DEF LocalMemory
  <1> QED BY <1>4, <1>6, <1>8

(* A step of the class: it opens a socket for an operation that was sent,  *)
(* and takes nothing back.                                                 *)
LEMMA ClassKeepsRefinementInv ==
  ASSUME RefinementInv, ClassStep, UNCHANGED <<callerVars, runtimeVars>>
  PROVE  CalledFirst' /\ ResultFromRun' /\ LocalMemory'
  <1>t. TypeOK /\ CalledFirst /\ ResultFromRun /\ LocalMemory
    BY DEF RefinementInv, MemoryInv, SlotInv
  <1>u. /\ rados \in [Deliveries -> {"none", "sent"} \cup Replies]
        /\ sock \in [Deliveries -> {"none", "open", "closed"}]
    BY <1>t, TypesUsed
  <1>1. UNCHANGED <<conn, exec, outcome, base, result, mem, caller>>
    BY DEF ClassStep, Forward, FirstTimeout, FirstReceive, LoopTimeout, ServeStorage,
           ServeEnd, callerVars, runtimeVars, endpointVars, execVars
  <1>2. PICK d \in Deliveries :
          \/ Forward(d) \/ FirstTimeout(d) \/ FirstReceive(d)
          \/ LoopTimeout(d) \/ ServeStorage(d) \/ ServeEnd(d)
    BY DEF ClassStep
  <1>3. rados[d] # "none"
    BY <1>t, <1>2 DEF CalledFirst, Forward, FirstTimeout, FirstReceive, LoopTimeout,
                             ServeStorage, ServeEnd
  <1>4. \/ UNCHANGED <<rados, sock>> /\ \A x \in Deliveries \ {d} : cls'[x] = cls[x]
        \/ /\ rados' = rados /\ sock' = [sock EXCEPT ![d] = "open"]
           /\ \A x \in Deliveries \ {d} : cls'[x] = cls[x]
        \/ \E r \in Replies : ReplyWith(d, r)
    <2>1. cls \in [Deliveries -> {"none", "first", "loop", "done"}]
      BY <1>t DEF TypeOK, ClassTypeOK
    <2>2. \A v : cls' = [cls EXCEPT ![d] = v] => \A x \in Deliveries \ {d} : cls'[x] = cls[x]
      BY <2>1
    <2> QED BY <1>2, <2>2 DEF Forward, FirstTimeout, FirstReceive, LoopTimeout,
                 ServeStorage, ServeEnd, Replies, NdpResult, ReadAsResponse
  <1>5. \A x \in Deliveries :
          \/ x = d /\ rados'[x] # "none"
          \/ x # d /\ rados'[x] = rados[x] /\ sock'[x] = sock[x] /\ cls'[x] = cls[x]
    <2>1. CASE \E r \in Replies : ReplyWith(d, r)
      <3>1. cls \in [Deliveries -> {"none", "first", "loop", "done"}]
        BY <1>t DEF TypeOK, ClassTypeOK
      <3>2. "none" \notin Replies
        BY DEF Replies, NdpResult
      <3> QED BY SMT, <1>u, <2>1, <3>1, <3>2 DEF ReplyWith
    <2> QED BY <1>u, <1>3, <1>4, <2>1
  <1>6. sock[d] # "none" => sock'[d] # "none"
    BY <1>u, <1>4 DEF ReplyWith
  <1>7. CalledFirst'
    BY <1>t, <1>1, <1>3, <1>5, <1>6 DEF CalledFirst
  <1> QED BY <1>t, <1>1, <1>7 DEF ResultFromRun, LocalMemory

(* A handler of the endpoint: a connection comes from a socket.            *)
LEMMA EndpointKeepsRefinementInv ==
  ASSUME RefinementInv, UNCHANGED <<callerVars, cls>>, NEW d \in Deliveries, EndpointAction(d)
  PROVE  CalledFirst' /\ ResultFromRun' /\ LocalMemory'
  <1>t. TypeOK /\ Admission /\ CalledFirst /\ ResultFromRun /\ LocalMemory
    BY DEF RefinementInv, MemoryInv, SlotInv
  <1>1. UNCHANGED <<mem, result, outcome, base, rados, sock, caller>>
    BY <1>t, EndpointKeepsRuns DEF callerVars
  <1>2. \A x \in Deliveries : exec[x] = "finished" => exec'[x] = "finished"
    BY <1>t, EndpointKeepsRuns
  <1>3. \A x \in Deliveries : conn'[x] = "none" \/ conn[x] # "none" \/ sock[x] # "none"
    BY <1>t, EndpointKeepsRuns
  <1>4. CalledFirst'
    BY <1>t, <1>1, <1>3 DEF CalledFirst
  <1> QED BY <1>t, <1>1, <1>2, <1>4 DEF ResultFromRun, LocalMemory

(* A step of an executor: a run that has ended stays as it is, and a       *)
(* result slot is filled once, from such a run.                            *)
LEMMA ExecutorKeepsRefinementInv ==
  ASSUME RefinementInv, UNCHANGED <<callerVars, cls>>, NEW d \in Deliveries, ExecutorAction(d)
  PROVE  CalledFirst' /\ ResultFromRun' /\ LocalMemory'
  <1>t. TypeOK /\ CalledFirst /\ ResultFromRun /\ LocalMemory
    BY DEF RefinementInv, MemoryInv, SlotInv
  <1>u. /\ result \in [Calls -> [full : BOOLEAN, ret : {0, 1}, base : Memory]]
        /\ conn \in [Deliveries -> ConnState]
        /\ outcome \in [Deliveries -> {0, 1}]
        /\ base \in [Deliveries -> Memory]
    BY <1>t, TypesUsed
  <1>1. UNCHANGED <<mem, rados, sock, caller>>
    BY <1>t, ExecutorMovesRun DEF callerVars
  <1>2. \A x \in Deliveries : exec[x] = "finished" =>
          exec'[x] = "finished" /\ outcome'[x] = outcome[x] /\ base'[x] = base[x]
    BY <1>t, ExecutorMovesRun
  <1>3. \A x \in Deliveries : conn'[x] = conn[x] \/ conn[x] # "none"
    <2>1. CASE TakeResponse(d)
      BY <1>u, <2>1 DEF TakeResponse
    <2>2. CASE ~TakeResponse(d)
      BY <2>2 DEF ExecutorAction, StartExecutor, RequestNdpDelta, StorageRequest,
                  AwaitNdpResponse, FunctionReturns, SendDirectResult, CloseCephSocket,
                  endpointVars
    <2> QED BY <2>1, <2>2
  <1>4. CalledFirst'
    BY <1>t, <1>1, <1>3 DEF CalledFirst
  <1>5. \A c \in Calls :
          \/ result'[c] = result[c]
          \/ /\ ~result[c].full /\ result'[c].full
             /\ CallOf(d) = c /\ exec[d] = "finished"
             /\ result'[c].ret = outcome[d] /\ result'[c].base = base[d]
    <2>1. CASE SendDirectResult(d)
      <3> DEFINE r == [full |-> TRUE, ret |-> outcome[d], base |-> base[d]]
      <3>1. CallOf(d) \in Calls /\ exec[d] = "finished"
        BY <2>1, DeliveryOfCall DEF SendDirectResult
      <3>2. result' = [result EXCEPT ![CallOf(d)] =
                          IF result[CallOf(d)].full THEN result[CallOf(d)] ELSE r]
        BY <2>1 DEF SendDirectResult
      <3>3. r.full /\ r.ret = outcome[d] /\ r.base = base[d]
        OBVIOUS
      <3>4. \A c \in Calls : \/ result'[c] = result[c]
                             \/ CallOf(d) = c /\ ~result[c].full /\ result'[c] = r
        <4> HIDE DEF r
        <4> QED BY <1>u, <3>1, <3>2
      <3> QED BY <3>1, <3>3, <3>4
    <2>2. CASE ~SendDirectResult(d)
      BY <2>2 DEF ExecutorAction, StartExecutor, RequestNdpDelta, StorageRequest,
                  AwaitNdpResponse, TakeResponse, FunctionReturns, CloseCephSocket, commonVars
    <2> QED BY <2>1, <2>2
  <1>6. ResultFromRun'
    <2> SUFFICES ASSUME NEW c \in Calls
                 PROVE  /\ result'[c].full =>
                            \E x \in Deliveries :
                               /\ CallOf(x) = c /\ exec'[x] = "finished"
                               /\ outcome'[x] = result'[c].ret /\ base'[x] = result'[c].base
                        /\ mem[c] = "restored" => result'[c].full
      BY <1>1 DEF ResultFromRun
    <2>1. CASE result'[c] = result[c]
      <3>1. mem[c] = "restored" => result'[c].full
        BY <1>t, <2>1 DEF ResultFromRun
      <3>2. ASSUME result'[c].full
            PROVE  \E x \in Deliveries :
                      /\ CallOf(x) = c /\ exec'[x] = "finished"
                      /\ outcome'[x] = result'[c].ret /\ base'[x] = result'[c].base
        <4>1. PICK x \in Deliveries :
                 /\ CallOf(x) = c /\ exec[x] = "finished"
                 /\ outcome[x] = result[c].ret /\ base[x] = result[c].base
          BY <1>t, <2>1, <3>2 DEF ResultFromRun
        <4>2. exec'[x] = "finished" /\ outcome'[x] = result'[c].ret /\ base'[x] = result'[c].base
          BY <1>2, <2>1, <4>1
        <4> QED BY <4>1, <4>2
      <3> QED BY <3>1, <3>2
    <2>2. CASE result'[c] # result[c]
      <3>1. /\ result'[c].full /\ CallOf(d) = c /\ exec[d] = "finished"
            /\ result'[c].ret = outcome[d] /\ result'[c].base = base[d]
        BY <1>5, <2>2
      <3>2. exec'[d] = "finished" /\ outcome'[d] = result'[c].ret /\ base'[d] = result'[c].base
        BY <1>2, <3>1
      <3> QED BY <3>1, <3>2
    <2> QED BY <2>1, <2>2
  <1> QED BY <1>t, <1>1, <1>4, <1>6 DEF LocalMemory

(* The whole of a step keeps the invariant of the refinement.              *)
LEMMA RefinementInvInductive == RefinementInv /\ [Next]_vars => RefinementInv'
  <1> SUFFICES ASSUME RefinementInv, [Next]_vars
               PROVE  CalledFirst' /\ ResultFromRun' /\ LocalMemory'
    BY MemoryInvInductive DEF RefinementInv
  <1>1. CASE CallerStep /\ UNCHANGED <<cls, runtimeVars>>
    BY <1>1, CallerKeepsRefinementInv
  <1>2. CASE ClassStep /\ UNCHANGED <<callerVars, runtimeVars>>
    BY <1>2, ClassKeepsRefinementInv
  <1>3. ASSUME UNCHANGED <<conn, sock, cls, rados, caller, result, mem, exec, outcome, base>>
        PROVE  CalledFirst' /\ ResultFromRun' /\ LocalMemory'
    BY <1>3 DEF RefinementInv, CalledFirst, ResultFromRun, LocalMemory
  <1>4. CASE RuntimeStep /\ UNCHANGED <<callerVars, cls>>
    <2>1. CASE LoadChanges
      BY <1>3, <1>4, <2>1 DEF LoadChanges, callerVars, commonVars, endpointVars, execVars
    <2> QED BY <1>4, <2>1, RuntimeStepCases, EndpointKeepsRefinementInv,
               ExecutorKeepsRefinementInv
  <1>5. CASE UNCHANGED vars
    BY <1>3, <1>5 DEF vars, commonVars, callerVars, runtimeVars, endpointVars, execVars
  <1> QED BY <1>1, <1>2, <1>4, <1>5 DEF Next

(* Runs that have ended, and the memory, are all the mapping sees of the   *)
(* storage side: while they stay, the abstract variables stay.             *)
LEMMA MappingUnchanged ==
  ASSUME UNCHANGED <<caller, mem>>,
         \A c \in Calls : MemoryOf(c)' = MemoryOf(c) /\ RunsOf(c)' = RunsOf(c)
  PROVE  UNCHANGED Abstract!vars
  <1>1. \A c \in Calls : PhaseOf(c)' = PhaseOf(c)
    BY DEF PhaseOf
  <1> QED BY <1>1 DEF Abstract!vars

(* The initial state maps to the initial state.                            *)
LEMMA InitRefines == Init => Abstract!Init
  <1> SUFFICES ASSUME Init PROVE Abstract!Init
    OBVIOUS
  <1>1. \A c \in Calls : caller[c] = "idle" /\ mem[c] = "atCall"
    BY DEF Init, CallerInit, CommonInit
  <1>2. \A d \in Deliveries : exec[d] # "finished"
    BY DEF Init, RuntimeInit
  <1>3. \A c \in Calls : PhaseOf(c) = "idle" /\ MemoryOf(c) = "atCall"
    BY <1>1 DEF PhaseOf, MemoryOf
  <1>4. \A c \in Calls : RunsOf(c) = {}
    BY <1>2 DEF RunsOf
  <1> QED BY <1>3, <1>4 DEF Abstract!Init

(* When one call moves, the mapped phase and memory move in one place.     *)
LEMMA MappingMoves ==
  ASSUME NEW c \in Calls, NEW p, NEW m,
         \A b \in Calls \ {c} : PhaseOf(b)' = PhaseOf(b) /\ MemoryOf(b)' = MemoryOf(b)
  PROVE  /\ PhaseOf(c)' = p => Abstract!Becomes(c, p)
         /\ PhaseOf(c)' = PhaseOf(c) => UNCHANGED [b \in Calls |-> PhaseOf(b)]
         /\ MemoryOf(c)' = m =>
              [b \in Calls |-> MemoryOf(b)]' = [[b \in Calls |-> MemoryOf(b)] EXCEPT ![c] = m]
         /\ MemoryOf(c)' = MemoryOf(c) => UNCHANGED [b \in Calls |-> MemoryOf(b)]
  BY DEF Abstract!Becomes

(* A step of the caller begins a call, ends it or leaves it as it is.      *)
LEMMA CallerStepRefines ==
  ASSUME RefinementInv, CallerStep, UNCHANGED <<cls, runtimeVars>>
  PROVE  [Abstract!Next]_(Abstract!vars)
  <1>t. TypeOK /\ CallMemory /\ ResultFromRun /\ LocalMemory
    BY DEF RefinementInv, MemoryInv, SlotInv
  <1>u. /\ mem \in [Calls -> Memory]
        /\ result \in [Calls -> [full : BOOLEAN, ret : {0, 1}, base : Memory]]
        /\ caller \in [Calls -> {"idle", "waitCeph", "awaitResult", "callLocally"}
                                \cup Ended]
    BY <1>t, TypesUsed
  <1>v. UNCHANGED <<exec, outcome, base, result>>
    BY DEF CallerStep, RunWithoutNdp, Offload, Redeliver, OnResponse, AwaitResult,
           AwaitTimeout, CallLocally, CallerGoesOn, commonVars, runtimeVars, execVars
  <1>1. PICK c \in Calls :
          \/ RunWithoutNdp(c) \/ Offload(c) \/ Redeliver(c) \/ OnResponse(c)
          \/ AwaitResult(c) \/ AwaitTimeout(c) \/ CallLocally(c) \/ CallerGoesOn(c)
    BY DEF CallerStep
  <1>2. \A b \in Calls \ {c} : caller'[b] = caller[b] /\ mem'[b] = mem[b]
    BY <1>1, <1>u DEF RunWithoutNdp, Offload, Redeliver, OnResponse, AwaitResult,
           AwaitTimeout, CallLocally, CallerGoesOn, Goto, commonVars, callerVars, Ended
  <1>3. \A b \in Calls \ {c} : PhaseOf(b)' = PhaseOf(b) /\ MemoryOf(b)' = MemoryOf(b)
    BY <1>v, <1>2 DEF PhaseOf, MemoryOf
  <1>4. UNCHANGED [b \in Calls |-> RunsOf(b)]
    BY <1>v DEF RunsOf
  <1>5. mem'[c] = mem[c] => MemoryOf(c)' = MemoryOf(c)
    BY <1>v DEF MemoryOf
  <1>6. caller[c] \in {"idle", "waitCeph", "awaitResult", "callLocally"} =>
           MemoryOf(c) = "atCall" /\ mem[c] = "atCall" /\ (caller[c] = "awaitResult" => result[c].base = "atCall")
    BY <1>t DEF CallMemory, LocalMemory, MemoryOf
  <1>7. CASE caller[c] = "idle"
    <2>1. mem' = mem /\ caller'[c] \in {"waitCeph", "callLocally", "threw"}
      BY <1>1, <1>7, <1>u DEF RunWithoutNdp, Offload, Redeliver, OnResponse, AwaitResult,
           AwaitTimeout, CallLocally, CallerGoesOn, Goto, commonVars, Ended
    <2>2. PhaseOf(c) = "idle" /\ PhaseOf(c)' \in {"pending", "ended"}
      BY <1>7, <2>1 DEF PhaseOf, Ended
    <2>3. Abstract!Begin(c)
      BY <1>3, <1>4, <1>5, <2>1, <2>2, MappingMoves DEF Abstract!Begin
    <2> QED BY <2>3 DEF Abstract!Next
  <1>8. CASE caller[c] \in {"waitCeph", "awaitResult", "callLocally"}
    <2>1. PhaseOf(c) = "pending"
      BY <1>8 DEF PhaseOf, Ended
    <2>2. \/ mem'[c] = mem[c] /\ caller'[c] \in {"waitCeph", "awaitResult", "callLocally"}
          \/ mem'[c] = mem[c] /\ caller'[c] \in Ended
          \/ caller'[c] \in Ended /\ mem'[c] = "local" /\ caller[c] = "callLocally"
          \/ /\ caller'[c] \in Ended /\ mem'[c] = "restored" /\ caller[c] = "awaitResult"
             /\ result[c].full /\ result[c].ret = 0
      BY <1>1, <1>8, <1>u DEF RunWithoutNdp, Offload, Redeliver, OnResponse, AwaitResult,
           AwaitTimeout, CallLocally, CallerGoesOn, Goto, commonVars, callerVars, Ended
    <2>3. caller'[c] \in Ended => PhaseOf(c)' = "ended"
      BY DEF PhaseOf, Ended
    <2>4. CASE mem'[c] = mem[c] /\ caller'[c] \in {"waitCeph", "awaitResult", "callLocally"}
      <3>1. PhaseOf(c)' = PhaseOf(c)
        BY <2>1, <2>4 DEF PhaseOf, Ended
      <3> QED BY <1>3, <1>4, <1>5, <2>4, <3>1, MappingMoves DEF Abstract!vars
    <2>5. CASE mem'[c] = mem[c] /\ caller'[c] \in Ended
      <3>1. Abstract!Fail(c)
        BY <1>3, <1>4, <1>5, <2>1, <2>3, <2>5, MappingMoves DEF Abstract!Fail
      <3> QED BY <3>1 DEF Abstract!Next, Abstract!End
    <2>6. CASE caller'[c] \in Ended /\ mem'[c] = "local" /\ caller[c] = "callLocally"
      <3>1. MemoryOf(c)' = "local"
        BY <2>6 DEF MemoryOf
      <3>2. Abstract!RunHere(c)
        BY <1>3, <1>4, <1>6, <2>1, <2>3, <2>6, <3>1, MappingMoves DEF Abstract!RunHere
      <3> QED BY <3>2 DEF Abstract!Next, Abstract!End
    <2>7. CASE /\ caller'[c] \in Ended /\ mem'[c] = "restored" /\ caller[c] = "awaitResult"
               /\ result[c].full /\ result[c].ret = 0
      <3>1. MemoryOf(c)' = "restored"
        BY <1>v, <1>6, <2>7 DEF MemoryOf
      <3>2. PICK d \in Deliveries :
              /\ CallOf(d) = c /\ exec[d] = "finished"
              /\ outcome[d] = result[c].ret /\ base[d] = result[c].base
        BY <1>t, <2>7 DEF ResultFromRun
      <3>3. 0 \in RunsOf(c)
        BY <1>6, <2>7, <3>2 DEF RunsOf
      <3>4. Abstract!ApplyRemote(c)
        BY <1>3, <1>4, <1>6, <2>1, <2>3, <2>7, <3>1, <3>3, MappingMoves
           DEF Abstract!ApplyRemote
      <3> QED BY <3>4 DEF Abstract!Next, Abstract!End
    <2> QED BY <2>2, <2>4, <2>5, <2>6, <2>7
  <1>9. CASE caller[c] \in Ended
    <2>1. caller' = caller /\ mem'[c] = "later"
      BY <1>1, <1>9, <1>u DEF RunWithoutNdp, Offload, Redeliver, OnResponse, AwaitResult,
           AwaitTimeout, CallLocally, CallerGoesOn, Goto, callerVars, Ended
    <2>2. PhaseOf(c) = "ended" /\ PhaseOf(c)' = PhaseOf(c) /\ MemoryOf(c)' = "later"
      BY <1>9, <2>1 DEF PhaseOf, MemoryOf, Ended
    <2>3. Abstract!GoOn(c)
      BY <1>3, <1>4, <2>2, MappingMoves DEF Abstract!GoOn
    <2> QED BY <2>3 DEF Abstract!Next
  <1> QED BY <1>u, <1>7, <1>8, <1>9

(* A handler of the endpoint is invisible to the caller.                   *)
LEMMA EndpointStepRefines ==
  ASSUME RefinementInv, UNCHANGED <<callerVars, cls>>, NEW d \in Deliveries, EndpointAction(d)
  PROVE  UNCHANGED Abstract!vars
  <1>t. TypeOK /\ Admission
    BY DEF RefinementInv, MemoryInv, SlotInv
  <1>1. UNCHANGED <<mem, result, outcome, base, caller>>
    BY <1>t, EndpointKeepsRuns DEF callerVars
  <1>2. \A x \in Deliveries : exec'[x] = "finished" <=> exec[x] = "finished"
    BY <1>t, EndpointKeepsRuns
  <1>3. \A c \in Calls : RunsOf(c)' = RunsOf(c)
    BY <1>1, <1>2 DEF RunsOf
  <1>4. \A c \in Calls : MemoryOf(c)' = MemoryOf(c)
    BY <1>1 DEF MemoryOf
  <1> QED BY <1>1, <1>3, <1>4, MappingUnchanged

(* A step of an executor ends a remote run or is invisible; the run it     *)
(* ends belongs to a call that was made.                                   *)
LEMMA ExecutorStepRefines ==
  ASSUME RefinementInv, UNCHANGED <<callerVars, cls>>, NEW d \in Deliveries, ExecutorAction(d)
  PROVE  [Abstract!Next]_(Abstract!vars)
  <1>t. TypeOK /\ Admission /\ CalledFirst /\ ResultFromRun
    BY DEF RefinementInv, MemoryInv, SlotInv
  <1>u. result \in [Calls -> [full : BOOLEAN, ret : {0, 1}, base : Memory]]
    BY <1>t, TypesUsed
  <1>1. UNCHANGED <<mem, caller>>
    BY <1>t, ExecutorMovesRun DEF callerVars
  <1>2. \A c \in Calls : result[c].full => result'[c] = result[c]
    <2>1. CASE SendDirectResult(d)
      BY <1>u, <2>1, DeliveryOfCall DEF SendDirectResult
    <2>2. CASE ~SendDirectResult(d)
      BY <2>2 DEF ExecutorAction, StartExecutor, RequestNdpDelta, StorageRequest,
                  AwaitNdpResponse, TakeResponse, FunctionReturns, CloseCephSocket, commonVars
    <2> QED BY <2>1, <2>2
  <1>3. \A c \in Calls : MemoryOf(c)' = MemoryOf(c)
    BY <1>t, <1>1, <1>2 DEF MemoryOf, ResultFromRun
  <1>4. \A x \in Deliveries \ {d} :
           exec'[x] = exec[x] /\ outcome'[x] = outcome[x] /\ base'[x] = base[x]
    BY <1>t, ExecutorMovesRun
  <1>5. CallOf(d) \in Calls
    BY DeliveryOfCall
  <1>6. CASE exec'[d] = "finished" /\ exec[d] # "finished" /\ base'[d] = "atCall"
    <2>1. outcome'[d] \in {0, 1}
      BY <1>t, <1>6, ExecutorMovesRun
    <2>2. RunsOf(CallOf(d))' = RunsOf(CallOf(d)) \cup {outcome'[d]}
      BY SMT, <1>4, <1>6 DEF RunsOf
    <2>3. \A c \in Calls \ {CallOf(d)} : RunsOf(c)' = RunsOf(c)
      BY <1>4 DEF RunsOf
    <2>4. [c \in Calls |-> RunsOf(c)]' =
             [[c \in Calls |-> RunsOf(c)] EXCEPT ![CallOf(d)] = @ \cup {outcome'[d]}]
      BY <1>5, <2>2, <2>3
    <2>5. caller[CallOf(d)] # "idle"
      <3>1. exec[d] # "none"
        BY <1>t, ExecutorMovesRun
      <3>2. conn[d] # "none"
        BY <1>t, <3>1 DEF Admission
      <3> QED BY <1>t, <3>2 DEF CalledFirst
    <2>6. PhaseOf(CallOf(d)) # "idle"
      BY <2>5 DEF PhaseOf
    <2>7. UNCHANGED <<[c \in Calls |-> PhaseOf(c)], [c \in Calls |-> MemoryOf(c)]>>
      BY <1>1, <1>3 DEF PhaseOf
    <2>8. Abstract!RunThere(CallOf(d))
      BY <1>5, <2>1, <2>4, <2>6, <2>7 DEF Abstract!RunThere
    <2> QED BY <1>5, <2>8 DEF Abstract!Next
  <1>7. CASE ~(exec'[d] = "finished" /\ exec[d] # "finished" /\ base'[d] = "atCall")
    <2>1. exec[d] = "finished" =>
             exec'[d] = exec[d] /\ outcome'[d] = outcome[d] /\ base'[d] = base[d]
      BY <1>t, ExecutorMovesRun
    <2>2. \A c \in Calls : RunsOf(c)' = RunsOf(c)
      BY SMT, <1>4, <1>7, <2>1 DEF RunsOf
    <2> QED BY <1>1, <1>3, <2>2, MappingUnchanged
  <1> QED BY <1>6, <1>7

(* The invariant holds initially.                                          *)
LEMMA RefinementInvInitial == Init => RefinementInv
  <1> SUFFICES ASSUME Init PROVE RefinementInv
    OBVIOUS
  <1>1. \A c \in Calls : mem[c] = "atCall" /\ result[c] = NoResult /\ caller[c] = "idle"
    BY DEF Init, CommonInit, CallerInit
  <1>2. \A d \in Deliveries : /\ conn[d] = "none" /\ sock[d] = "none" /\ cls[d] = "none"
                              /\ rados[d] = "none" /\ base[d] = "atCall"
    BY DEF Init, CommonInit, ClassInit, RuntimeInit
  <1>3. CalledFirst /\ LocalMemory
    BY <1>1, <1>2 DEF CalledFirst, LocalMemory
  <1>4. ~NoResult.full /\ NoResult.base = "atCall"
    BY DEF NoResult
  <1>5. ResultFromRun
    BY <1>1, <1>4 DEF ResultFromRun
  <1>6. CallMemory
    BY <1>1, <1>2, <1>4, DeliveryOfCall DEF CallMemory
  <1> QED BY <1>3, <1>5, <1>6, SlotInvInitial DEF RefinementInv, MemoryInv

(* storageCallAndAwaitImpl, the object class and the storage runtime       *)
(* implement the safety part of NdpCall: whatever is redelivered, refused, *)
(* timed out or overtaken, the caller's memory only ever changes by one    *)
(* complete successful remote run on the memory of the call, or by a run   *)
(* of its own.                                                             *)
THEOREM OffloadImplementsCall == Safety => Abstract!Safety
  <1>1. RefinementInv /\ [Next]_vars => [Abstract!Next]_(Abstract!vars)
    <2> SUFFICES ASSUME RefinementInv, [Next]_vars
                 PROVE  [Abstract!Next]_(Abstract!vars)
      OBVIOUS
    <2>1. ASSUME UNCHANGED <<caller, result, mem, exec, outcome, base>>
          PROVE  UNCHANGED Abstract!vars
      <3>1. \A c \in Calls : MemoryOf(c)' = MemoryOf(c) /\ RunsOf(c)' = RunsOf(c)
        BY <2>1 DEF MemoryOf, RunsOf
      <3> QED BY <2>1, <3>1, MappingUnchanged
    <2>2. CASE CallerStep /\ UNCHANGED <<cls, runtimeVars>>
      BY <2>2, CallerStepRefines
    <2>3. CASE ClassStep /\ UNCHANGED <<callerVars, runtimeVars>>
      <3>1. UNCHANGED <<caller, result, mem, exec, outcome, base>>
        BY <2>3 DEF ClassStep, Forward, FirstTimeout, FirstReceive, LoopTimeout,
                    ServeStorage, ServeEnd, callerVars, runtimeVars, execVars
      <3> QED BY <2>1, <3>1
    <2>4. CASE RuntimeStep /\ UNCHANGED <<callerVars, cls>>
      <3>1. CASE LoadChanges
        BY <2>1, <2>4, <3>1 DEF LoadChanges, callerVars, commonVars, execVars
      <3> QED BY <2>4, <3>1, RuntimeStepCases, EndpointStepRefines, ExecutorStepRefines
    <2>5. CASE UNCHANGED vars
      BY <2>1, <2>5 DEF vars, commonVars, callerVars, runtimeVars, execVars
    <2> QED BY <2>2, <2>3, <2>4, <2>5 DEF Next
  <1> QED BY <1>1, InitRefines, RefinementInvInitial, RefinementInvInductive, PTL
          DEF Safety, Abstract!Safety

(***************************************************************************)
(* The answer a storage operation gets is its own                          *)
(***************************************************************************)
Requests == {"NdpRead", "NdpWrite"}
Answer(r) == IF r = "NdpRead" THEN "data" ELSE "ok"

(* On the stream to the class there is no request of the function ...      *)
NoRequest(d) == \A m \in Requests : ~OnTheWay(d, m)
(* ... or there is one.                                                    *)
OneRequest(d) ==
    \A i, j \in 1..Len(up[d]) : up[d][i] \in Requests /\ up[d][j] \in Requests => i = j

(* Between two requests the connection has nothing left of the last one.   *)
Quiet(d) == NoRequest(d) /\ down[d] = <<>> /\ ~flag[d]

(* A request is under way, or its answer is, or has been received.         *)
InStep(d) ==
    \/ /\ down[d] = <<>> /\ ~flag[d] /\ OneRequest(d)
       /\ \A m \in Requests : OnTheWay(d, m) => m = request[d]
    \/ NoRequest(d) /\ ~flag[d] /\ down[d] \in {<<Answer(request[d])>>, <<"err">>}
    \/ NoRequest(d) /\ down[d] = <<>> /\ flag[d] /\ lastMsg[d] = Answer(request[d])

(* The executor of d and the class take turns on the connection of d, as   *)
(* long as d is the connection of its call.                                *)
TakesTurns(d) ==
    OnlyExecution(d) /\ exec[d] # "none" =>
       /\ exec[d] \in {"queued", "delta", "run"} /\ socketMap[CallOf(d)] = d => Quiet(d)
       /\ exec[d] = "sent" /\ socketMap[CallOf(d)] = d => InStep(d)
       /\ exec[d] = "await" /\ waitsOn[d] = d => InStep(d)

(* A call's connections are told apart: what the map has under a call's id *)
(* and what its executor waits on are connections of that call, and only   *)
(* those with an executor are ever answered.                               *)
Connections ==
    /\ \A d \in Deliveries :
          /\ exec[d] = "none" => down[d] = <<>> /\ ~flag[d]
          /\ verdict[d] = "none" => up[d] = <<>>
          /\ exec[d] = "await" => waitsOn[d] \in Deliveries /\ CallOf(waitsOn[d]) = CallOf(d)
    /\ \A c \in Calls : socketMap[c] # None =>
          CallOf(socketMap[c]) = c /\ verdict[socketMap[c]] # "none"

Exchange == Connections /\ \A d \in Deliveries : TakesTurns(d)

(* Taking a message off the stream to the class, or putting one on that is *)
(* no request, brings no request.                                          *)
LEMMA RequestsKept ==
  ASSUME NEW d, up[d] \in Seq(UpMessage),
         \/ up'[d] = up[d]
         \/ up[d] # <<>> /\ up'[d] = Tail(up[d])
         \/ \E x \in UpMessage \ Requests : up'[d] = Append(up[d], x)
  PROVE  /\ \A m \in Requests : OnTheWay(d, m)' => OnTheWay(d, m)
         /\ OneRequest(d) => OneRequest(d)'
  <1>1. CASE up'[d] = up[d]
    BY <1>1 DEF OnTheWay, OneRequest
  <1>2. CASE up[d] # <<>> /\ up'[d] = Tail(up[d])
    <2>1. \A i \in 1..Len(up'[d]) : i + 1 \in 1..Len(up[d]) /\ up'[d][i] = up[d][i + 1]
      BY SMT, <1>2
    <2>2. \A i, j \in 1..Len(up'[d]) : i + 1 = j + 1 => i = j
      BY SMT
    <2> QED BY <2>1, <2>2 DEF OnTheWay, OneRequest
  <1>3. CASE \E x \in UpMessage \ Requests : up'[d] = Append(up[d], x)
    <2>1. PICK x \in UpMessage \ Requests : up'[d] = Append(up[d], x)
      BY <1>3
    <2>2. \A i \in 1..Len(up'[d]) : \/ i \in 1..Len(up[d]) /\ up'[d][i] = up[d][i]
                                    \/ up'[d][i] = x
      BY SMT, <2>1
    <2> QED BY <2>1, <2>2 DEF OnTheWay, OneRequest
  <1> QED BY <1>1, <1>2, <1>3

(* Nothing is claimed of a function once another runs under its call id.   *)
LEMMA NotAlone ==
  ASSUME NEW d \in Deliveries, NEW q \in Deliveries, q # d, CallOf(q) = CallOf(d), exec'[q] # "none"
  PROVE  TakesTurns(d)'
  BY DEF TakesTurns, OnlyExecution

(* Executors that began stay, so an executor that is alone always was.     *)
LEMMA AloneBefore ==
  ASSUME NEW d \in Deliveries, \A x \in Deliveries : exec[x] # "none" => exec'[x] # "none", OnlyExecution(d)'
  PROVE  OnlyExecution(d)
  BY DEF OnlyExecution

(* Steps that do not touch the exchange of d.                              *)
LEMMA TurnsKept ==
  ASSUME NEW d \in Deliveries, TakesTurns(d), up[d] \in Seq(UpMessage),
         \A x \in Deliveries : exec[x] # "none" => exec'[x] # "none",
         \/ up'[d] = up[d]
         \/ up[d] # <<>> /\ up'[d] = Tail(up[d])
         \/ \E x \in UpMessage \ Requests : up'[d] = Append(up[d], x),
         down'[d] = down[d], flag'[d] = flag[d], lastMsg'[d] = lastMsg[d],
         exec'[d] = exec[d], request'[d] = request[d], waitsOn'[d] = waitsOn[d],
         socketMap'[CallOf(d)] = d => socketMap[CallOf(d)] = d
  PROVE  TakesTurns(d)'
  <1> SUFFICES ASSUME OnlyExecution(d)', exec'[d] # "none" PROVE TakesTurns(d)'
    BY DEF TakesTurns
  <1>1. OnlyExecution(d)
    BY AloneBefore
  <1>2. /\ \A m \in Requests : OnTheWay(d, m)' => OnTheWay(d, m)
        /\ OneRequest(d) => OneRequest(d)'
    BY RequestsKept
  <1>3. Quiet(d) => Quiet(d)'
    BY <1>2 DEF Quiet, NoRequest
  <1>4. InStep(d) => InStep(d)'
    BY <1>2 DEF InStep, NoRequest
  <1> QED BY <1>1, <1>3, <1>4 DEF TakesTurns

(* The class answers the one request there is.                             *)
LEMMA ServeKeepsTurns ==
  ASSUME TypeOK, NEW q \in Deliveries, ServeStorage(q), UNCHANGED <<callerVars, runtimeVars>>,
         NEW d \in Deliveries, TakesTurns(d)
  PROVE  TakesTurns(d)'
  <1>t. /\ up \in [Deliveries -> Seq(UpMessage)] /\ down \in [Deliveries -> Seq(DownMessage)]
        /\ exec' = exec /\ request' = request /\ waitsOn' = waitsOn /\ flag' = flag
        /\ lastMsg' = lastMsg /\ socketMap' = socketMap
    BY DEF TypeOK, CommonTypeOK, runtimeVars, endpointVars, execVars
  <1>1. /\ up[q] # <<>> /\ Head(up[q]) \in Requests /\ up' = Receive(up, q)
        /\ \/ down' = Send(down, q, Answer(Head(up[q])))
           \/ down' = Send(down, q, "err")
    BY DEF ServeStorage, Answer, Requests
  <1>2. CASE d # q
    <2>1. up'[d] = up[d] /\ down'[d] = down[d]
      BY <1>t, <1>1, <1>2 DEF Receive, Send
    <2> QED BY <1>t, <2>1, TurnsKept
  <1>3. CASE d = q
    <2>1. /\ up[d] \in Seq(UpMessage) /\ up'[d] = Tail(up[d])
          /\ \/ down'[d] = Append(down[d], Answer(Head(up[d])))
             \/ down'[d] = Append(down[d], "err")
      BY <1>t, <1>1, <1>3 DEF Receive, Send
    <2>2. 1 \in 1..Len(up[d]) /\ up[d][1] = Head(up[d])
      BY SMT, <2>1, <1>1, <1>3
    <2>3. OnTheWay(d, Head(up[d])) /\ ~NoRequest(d)
      BY <2>2, <1>1, <1>3 DEF OnTheWay, NoRequest
    <2>4. ASSUME InStep(d) PROVE InStep(d)'
      <3>1. /\ down[d] = <<>> /\ ~flag[d] /\ OneRequest(d) /\ Head(up[d]) = request[d]
        BY <2>3, <2>4, <1>1, <1>3 DEF InStep
      <3>2. down'[d] \in {<<Answer(request[d])>>, <<"err">>}
        <4>1. \A x \in DownMessage : Append(<<>>, x) = <<x>>
          BY SMT
        <4>2. Answer(request[d]) \in DownMessage /\ "err" \in DownMessage
          BY SMT DEF Answer, DownMessage
        <4> QED BY <4>1, <4>2, <2>1, <3>1
      <3>3. NoRequest(d)'
        <4> SUFFICES ASSUME NEW i \in 1..Len(up'[d]), up'[d][i] \in Requests PROVE FALSE
          BY DEF NoRequest, OnTheWay
        <4>1. i + 1 \in 1..Len(up[d]) /\ up[d][i + 1] = up'[d][i] /\ i + 1 # 1
          BY SMT, <2>1, <1>1, <1>3
        <4> QED BY <4>1, <2>2, <3>1, <1>1, <1>3 DEF OneRequest
      <3> QED BY <1>t, <3>1, <3>2, <3>3 DEF InStep
    <2>5. ~Quiet(d)
      BY <2>3 DEF Quiet
    <2> QED BY <1>t, <2>4, <2>5 DEF TakesTurns, OnlyExecution
  <1> QED BY <1>2, <1>3

(* A step that leaves the streams, the endpoint and the executors alone.   *)
LEMMA ExchangeKept ==
  ASSUME Exchange, UNCHANGED <<up, down, endpointVars, execVars>>
  PROVE  Exchange'
  <1>1. /\ verdict' = verdict /\ socketMap' = socketMap /\ flag' = flag /\ lastMsg' = lastMsg
        /\ exec' = exec /\ request' = request /\ waitsOn' = waitsOn /\ up' = up /\ down' = down
    BY DEF endpointVars, execVars
  <1>2. Connections'
    BY <1>1 DEF Exchange, Connections
  <1>3. ASSUME NEW d \in Deliveries
        PROVE  (Quiet(d)' <=> Quiet(d)) /\ (InStep(d)' <=> InStep(d))
    BY <1>1 DEF Quiet, InStep, NoRequest, OneRequest, OnTheWay
  <1> QED BY <1>1, <1>2, <1>3 DEF Exchange, TakesTurns, OnlyExecution

(* A step of the Ceph class.                                               *)
LEMMA ClassKeepsExchange ==
  ASSUME RunInv, Exchange, ClassStep, UNCHANGED <<callerVars, runtimeVars>>
  PROVE  Exchange'
  <1>t. /\ up \in [Deliveries -> Seq(UpMessage)] /\ down \in [Deliveries -> Seq(DownMessage)]
        /\ exec' = exec /\ request' = request /\ waitsOn' = waitsOn /\ flag' = flag
        /\ lastMsg' = lastMsg /\ socketMap' = socketMap /\ verdict' = verdict
    BY DEF RunInv, SlotInv, TypeOK, CommonTypeOK, runtimeVars, endpointVars, execVars
  <1>1. PICK q \in Deliveries :
          \/ Forward(q) \/ FirstTimeout(q) \/ FirstReceive(q)
          \/ LoopTimeout(q) \/ ServeStorage(q) \/ ServeEnd(q)
    BY DEF ClassStep
  <1>2. up' = up \/ (up[q] # <<>> /\ up' = Receive(up, q))
    BY <1>1 DEF Forward, FirstTimeout, FirstReceive, LoopTimeout, ServeStorage, ServeEnd
  <1>3. \A d \in Deliveries : up'[d] = up[d] \/ (up[d] # <<>> /\ up'[d] = Tail(up[d]))
    BY <1>t, <1>2 DEF Receive
  <1>4. ~ServeStorage(q) => down' = down
    BY <1>1 DEF Forward, FirstTimeout, FirstReceive, LoopTimeout, ServeEnd
  <1>5. \A d \in Deliveries : exec[d] = "none" => down'[d] = down[d]
    <2>1. CASE ServeStorage(q)
      <3>1. exec[q] # "none"
        BY <2>1 DEF ServeStorage, RunInv, SlotInv, Admission, EndOfRun, EndOfDelivery
      <3>2. \A d \in Deliveries : d # q => down'[d] = down[d]
        BY <1>t, <2>1 DEF ServeStorage, Send
      <3> QED BY <3>1, <3>2
    <2> QED BY <1>4, <2>1
  <1>6. Connections'
    BY <1>t, <1>3, <1>5 DEF Exchange, Connections
  <1>7. ASSUME NEW d \in Deliveries PROVE TakesTurns(d)'
    <2>1. CASE ServeStorage(q)
      BY <2>1, ServeKeepsTurns DEF RunInv, SlotInv, Exchange
    <2>2. CASE ~ServeStorage(q)
      <3>1. TakesTurns(d) /\ up[d] \in Seq(UpMessage) /\ down'[d] = down[d]
        BY <1>t, <1>4, <2>2 DEF Exchange
      <3> QED BY <1>t, <1>3, <3>1, TurnsKept
    <2> QED BY <2>1, <2>2
  <1> QED BY <1>6, <1>7 DEF Exchange

(* What an entry of ndpSocketMap becomes when a connection goes away.      *)
LEMMA StopMovesEntries ==
  ASSUME TypeOK, NEW q \in Deliveries, StopReceiving(q)
  PROVE  \A c \in Calls : socketMap'[c] \in {socketMap[c], None}
  BY DEF StopReceiving, TypeOK, RuntimeTypeOK

(* A handler of the endpoint.                                              *)
LEMMA EndpointKeepsExchange ==
  ASSUME RunInv, Exchange, NEW q \in Deliveries, EndpointAction(q)
  PROVE  Exchange'
  <1>t. /\ up \in [Deliveries -> Seq(UpMessage)] /\ down \in [Deliveries -> Seq(DownMessage)]
        /\ exec \in [Deliveries -> ExecState] /\ socketMap \in [Calls -> Deliveries \cup {None}]
        /\ verdict \in [Deliveries -> {"none", "ProcessLocallyNoSlot"} \cup NdpResult]
        /\ flag \in [Deliveries -> BOOLEAN] /\ lastMsg \in [Deliveries -> {"none"} \cup DownMessage]
        /\ \A d \in Deliveries : CallOf(d) \in Calls /\ d # None
    BY NoneIsFresh DEF RunInv, SlotInv, TypeOK, CommonTypeOK, RuntimeTypeOK, CallOf, Deliveries
  <1>1. request' = request /\ waitsOn' = waitsOn
    BY DEF EndpointAction, OnAcceptable, OnFirstReceivable, Respond, OnReceivable,
           OnReceiveError, execVars
  <1>2. CASE OnFirstReceivable(q)
    <2>1. verdict[q] = "none" /\ exec[q] = "none" /\ up[q] = <<>> /\ down[q] = <<>> /\ ~flag[q]
      BY <1>2 DEF OnFirstReceivable, RunInv, SlotInv, Admission, Exchange, Connections
    <2>2. down' = down /\ flag' = flag /\ lastMsg' = lastMsg
      BY <1>2 DEF OnFirstReceivable
    <2>3. /\ \/ exec' = exec /\ (up' = up \/ up' = Send(up, q, "NdpEnd"))
             \/ exec' = [exec EXCEPT ![q] = "queued"] /\ up' = up
          /\ \E v \in {"ProcessLocallyNoSlot", "ProcessLocally", "Error", "Ok"} :
                verdict' = [verdict EXCEPT ![q] = v]
          /\ socketMap' = socketMap \/ socketMap' = [socketMap EXCEPT ![CallOf(q)] = q]
      BY <1>2 DEF OnFirstReceivable, Refuse, Schedule
    <2>4. verdict'[q] # "none" /\ \A d \in Deliveries : d # q => verdict'[d] = verdict[d]
      BY <1>t, <2>3
    <2>5. \A d \in Deliveries : d # q => up'[d] = up[d] /\ exec'[d] = exec[d]
      BY <1>t, <2>3 DEF Send
    <2>6. \A c \in Calls : \/ socketMap'[c] = socketMap[c]
                           \/ c = CallOf(q) /\ socketMap'[c] = q
      BY <1>t, <2>3
    <2>7. Connections'
      <3>1. ASSUME NEW d \in Deliveries
            PROVE  /\ exec'[d] = "none" => down'[d] = <<>> /\ ~flag'[d]
                   /\ verdict'[d] = "none" => up'[d] = <<>>
                   /\ exec'[d] = "await" => waitsOn'[d] \in Deliveries /\ CallOf(waitsOn'[d]) = CallOf(d)
        <4>1. CASE d = q
          <5>1. exec'[q] # "await"
            BY <1>t, <2>1, <2>3
          <5> QED BY <2>1, <2>2, <2>4, <4>1, <5>1
        <4>2. CASE d # q
          BY <1>1, <2>2, <2>4, <2>5, <4>2 DEF Exchange, Connections
        <4> QED BY <4>1, <4>2
      <3>2. ASSUME NEW c \in Calls, socketMap'[c] # None
            PROVE  CallOf(socketMap'[c]) = c /\ verdict'[socketMap'[c]] # "none"
        <4>1. CASE socketMap'[c] = socketMap[c]
          <5>1. CallOf(socketMap[c]) = c /\ verdict[socketMap[c]] # "none" /\ socketMap[c] \in Deliveries
            BY <1>t, <3>2, <4>1 DEF Exchange, Connections
          <5> QED BY <5>1, <4>1, <2>4
        <4>2. CASE c = CallOf(q) /\ socketMap'[c] = q
          BY SMT, <2>4, <4>2
        <4> QED BY <2>6, <4>1, <4>2
      <3> QED BY <3>1, <3>2 DEF Connections
    <2>8. ASSUME NEW d \in Deliveries PROVE TakesTurns(d)'
      <3>1. CASE d # q
        <4>1. socketMap'[CallOf(d)] = d => socketMap[CallOf(d)] = d
          BY <1>t, <2>6, <3>1
        <4>2. \A x \in Deliveries : exec[x] # "none" => exec'[x] # "none"
          BY <2>1, <2>5
        <4>3. TakesTurns(d) /\ up[d] \in Seq(UpMessage) /\ up'[d] = up[d] /\ exec'[d] = exec[d]
          BY <1>t, <2>5, <3>1 DEF Exchange
        <4> QED BY <1>1, <2>2, <4>1, <4>2, <4>3, TurnsKept
      <3>2. CASE d = q
        <4>1. CASE exec' = exec
          BY <2>1, <3>2, <4>1 DEF TakesTurns
        <4>2. CASE exec' = [exec EXCEPT ![q] = "queued"] /\ up' = up
          <5>1. exec'[q] = "queued" /\ Len(up'[q]) = 0
            BY SMT, <1>t, <2>1, <4>2
          <5>2. NoRequest(q)'
            <6>1. ASSUME NEW i \in 1..Len(up'[q]) PROVE FALSE
              BY SMT, <5>1, <6>1
            <6> QED BY <6>1 DEF NoRequest, OnTheWay
          <5> QED BY <2>1, <2>2, <3>2, <5>1, <5>2 DEF TakesTurns, Quiet
        <4> QED BY <2>3, <4>1, <4>2
      <3> QED BY <3>1, <3>2
    <2> QED BY <2>7, <2>8 DEF Exchange
  <1>3. CASE OnReceivable(q)
    <2>1. /\ down[q] # <<>> /\ Head(down[q]) # "err"
          /\ lastMsg' = [lastMsg EXCEPT ![q] = Head(down[q])]
          /\ flag' = [flag EXCEPT ![q] = TRUE]
          /\ down' = Receive(down, q)
          /\ verdict' = verdict /\ socketMap' = socketMap /\ exec' = exec /\ up' = up
      BY <1>3 DEF OnReceivable, execVars
    <2>2. exec[q] # "none"
      BY <2>1 DEF Exchange, Connections
    <2>3. \A d \in Deliveries : d # q =>
            down'[d] = down[d] /\ flag'[d] = flag[d] /\ lastMsg'[d] = lastMsg[d]
      BY <1>t, <2>1 DEF Receive
    <2>4. Connections'
      BY <1>1, <2>1, <2>2, <2>3 DEF Exchange, Connections
    <2>5. ASSUME NEW d \in Deliveries PROVE TakesTurns(d)'
      <3>1. CASE d # q
        <4>1. TakesTurns(d) /\ up[d] \in Seq(UpMessage)
          BY <1>t DEF Exchange
        <4> QED BY <1>1, <2>1, <2>3, <3>1, <4>1, TurnsKept
      <3>2. CASE d = q
        <4>1. ~Quiet(d)
          BY <2>1, <3>2 DEF Quiet
        <4>2. ASSUME InStep(d) PROVE InStep(d)'
          <5>1. NoRequest(d) /\ down[d] \in {<<Answer(request[d])>>, <<"err">>}
            BY <2>1, <3>2, <4>2 DEF InStep
          <5>2. down[d] = <<Answer(request[d])>>
            <6>1. Head(<<"err">>) = "err"
              BY SMT
            <6> QED BY <2>1, <3>2, <5>1, <6>1
          <5>3. Head(down[d]) = Answer(request[d]) /\ Tail(down[d]) = <<>>
            <6>1. \A x \in DownMessage : Head(<<x>>) = x /\ Tail(<<x>>) = <<>>
              BY SMT
            <6>2. Answer(request[d]) \in DownMessage
              BY SMT DEF Answer, DownMessage
            <6> QED BY <5>2, <6>1, <6>2
          <5>4. down'[d] = <<>> /\ flag'[d] /\ lastMsg'[d] = Answer(request[d])
            BY <1>t, <2>1, <3>2, <5>3 DEF Receive
          <5>5. NoRequest(d)'
            BY <2>1, <5>1 DEF NoRequest, OnTheWay
          <5> QED BY <1>1, <5>4, <5>5 DEF InStep
        <4> QED BY <1>1, <2>1, <4>1, <4>2 DEF Exchange, TakesTurns, OnlyExecution
      <3> QED BY <3>1, <3>2
    <2> QED BY <2>4, <2>5 DEF Exchange
  <1>4. CASE OnAcceptable(q) \/ Respond(q) \/ OnReceiveError(q)
    <2>1. verdict' = verdict /\ exec' = exec /\ down' = down /\ flag' = flag /\ lastMsg' = lastMsg
      BY <1>4 DEF OnAcceptable, Respond, OnReceiveError, execVars, commonVars
    <2>2. \A c \in Calls : socketMap'[c] \in {socketMap[c], None}
      BY <1>4, StopMovesEntries DEF OnAcceptable, Respond, OnReceiveError, RunInv, SlotInv
    <2>3. \/ up' = up
          \/ verdict[q] # "none" /\ \E x \in UpMessage \ Requests : up' = Send(up, q, x)
      <3>1. CASE up' # up
        <4>1. Respond(q) /\ conn[q] = "responding"
          BY <1>4, <3>1 DEF OnAcceptable, Respond, OnReceiveError, commonVars
        <4>2. verdict[q] # "none" /\ verdict[q] \in {"ProcessLocallyNoSlot"} \cup NdpResult
          BY <1>t, <4>1 DEF RunInv, SlotInv, Admission
        <4>3. \E x \in NdpResult : up' = Send(up, q, x)
          BY <3>1, <4>1, <4>2 DEF Respond, NdpResult
        <4>4. NdpResult \subseteq UpMessage \ Requests
          BY DEF NdpResult, UpMessage, Requests
        <4> QED BY <4>2, <4>3, <4>4
      <3> QED BY <3>1
    <2>4. \A d \in Deliveries : \/ up'[d] = up[d]
                                \/ verdict[d] # "none"
                                   /\ \E x \in UpMessage \ Requests : up'[d] = Append(up[d], x)
      BY <1>t, <2>3 DEF Send
    <2>5. Connections'
      BY <1>1, <2>1, <2>2, <2>4 DEF Exchange, Connections
    <2>6. ASSUME NEW d \in Deliveries PROVE TakesTurns(d)'
      <3>1. TakesTurns(d) /\ up[d] \in Seq(UpMessage) /\ (socketMap'[CallOf(d)] = d => socketMap[CallOf(d)] = d)
        BY <1>t, <2>2 DEF Exchange
      <3> QED BY <1>1, <2>1, <2>4, <3>1, TurnsKept
    <2> QED BY <2>5, <2>6 DEF Exchange
  <1> QED BY <1>2, <1>3, <1>4 DEF EndpointAction

(* What a step of an executor leaves alone.                                *)
LEMMA ExecutorFrame ==
  ASSUME TypeOK, NEW q \in Deliveries, ExecutorAction(q)
  PROVE  /\ verdict' = verdict /\ down' = down
         /\ \A d \in Deliveries : d # q => /\ exec'[d] = exec[d]
                                           /\ request'[d] = request[d]
                                           /\ waitsOn'[d] = waitsOn[d]
         /\ exec[q] # "none" /\ exec'[q] # "none"
         /\ \A c \in Calls : socketMap'[c] \in {socketMap[c], None}
  <1>t. /\ exec \in [Deliveries -> ExecState] /\ request \in [Deliveries -> {"none", "NdpRead", "NdpWrite"}]
        /\ waitsOn \in [Deliveries -> Deliveries \cup {None}]
        /\ socketMap \in [Calls -> Deliveries \cup {None}]
    BY DEF TypeOK, RuntimeTypeOK
  <1> USE DEF ExecutorAction, StartExecutor, RequestNdpDelta, StorageRequest, AwaitNdpResponse,
              TakeResponse, FunctionReturns, SendDirectResult, CloseCephSocket, FinishTask
  <1>1. verdict' = verdict /\ down' = down
    BY DEF endpointVars, commonVars
  <1>2. \/ exec' = exec
        \/ \E e \in {"delta", "run", "sent", "await", "finished"} : exec' = [exec EXCEPT ![q] = e]
    OBVIOUS
  <1>3. \/ request' = request
        \/ \E e : request' = [request EXCEPT ![q] = e]
    OBVIOUS
  <1>4. \/ waitsOn' = waitsOn
        \/ \E e : waitsOn' = [waitsOn EXCEPT ![q] = e]
    OBVIOUS
  <1>5. exec[q] # "none"
    OBVIOUS
  <1>6. \/ socketMap' = socketMap
        \/ \E c : socketMap' = [socketMap EXCEPT ![c] = None]
    BY DEF endpointVars
  <1> HIDE DEF ExecutorAction
  <1>7. \A d \in Deliveries : d # q => /\ exec'[d] = exec[d]
                                       /\ request'[d] = request[d]
                                       /\ waitsOn'[d] = waitsOn[d]
    BY <1>t, <1>2, <1>3, <1>4
  <1>8. exec'[q] # "none"
    BY <1>t, <1>2, <1>5
  <1>9. \A c \in Calls : socketMap'[c] \in {socketMap[c], None}
    BY <1>t, <1>6
  <1> QED BY <1>1, <1>5, <1>7, <1>8, <1>9

(* An executor sends a request on the connection of its call.              *)
LEMMA RequestKeepsExchange ==
  ASSUME RunInv, Exchange, NEW q \in Deliveries, NEW m \in Requests, StorageRequest(q, m)
  PROVE  Exchange'
  <1>t. /\ up \in [Deliveries -> Seq(UpMessage)] /\ exec \in [Deliveries -> ExecState]
        /\ request \in [Deliveries -> {"none", "NdpRead", "NdpWrite"}]
        /\ socketMap \in [Calls -> Deliveries \cup {None}]
        /\ CallOf(q) \in Calls /\ m \in UpMessage
    BY DEF RunInv, SlotInv, TypeOK, CommonTypeOK, RuntimeTypeOK, CallOf, Deliveries, Requests,
           UpMessage, StorageMessage
  <1>1. /\ verdict' = verdict /\ down' = down /\ flag' = flag /\ lastMsg' = lastMsg
        /\ waitsOn' = waitsOn /\ socketMap' = socketMap /\ exec[q] = "run"
    BY DEF StorageRequest, endpointVars
  <1>2. CASE up' = up /\ exec' = exec /\ request' = request
    <2>1. Connections'
      BY <1>1, <1>2 DEF Exchange, Connections
    <2>2. ASSUME NEW d \in Deliveries PROVE TakesTurns(d)'
      <3>1. TakesTurns(d) /\ up[d] \in Seq(UpMessage)
        BY <1>t DEF Exchange
      <3> QED BY <1>1, <1>2, <3>1, TurnsKept
    <2> QED BY <2>1, <2>2 DEF Exchange
  <1>3. CASE \E p \in Deliveries :
               /\ p = socketMap[CallOf(q)] /\ up' = Send(up, p, m)
               /\ exec' = [exec EXCEPT ![q] = "sent"]
               /\ request' = [request EXCEPT ![q] = m]
    <2>1. PICK p \in Deliveries :
               /\ p = socketMap[CallOf(q)] /\ up' = Send(up, p, m)
               /\ exec' = [exec EXCEPT ![q] = "sent"]
               /\ request' = [request EXCEPT ![q] = m]
      BY <1>3
    <2>2. CallOf(p) = CallOf(q) /\ verdict[p] # "none"
      BY <1>t, <2>1, NoneIsFresh DEF Exchange, Connections
    <2>3. \A d \in Deliveries : d # p => up'[d] = up[d]
      BY <1>t, <2>1 DEF Send
    <2>4. \A d \in Deliveries : d # q => exec'[d] = exec[d] /\ request'[d] = request[d]
      BY <1>t, <2>1
    <2>5. exec'[q] = "sent" /\ request'[q] = m
      BY <1>t, <2>1
    <2>6. Connections'
      <3>1. ASSUME NEW d \in Deliveries
            PROVE  /\ exec'[d] \in {"none", "await"} => exec[d] = exec'[d]
                   /\ verdict[d] = "none" => up'[d] = up[d]
        BY <2>2, <2>3, <2>4, <2>5
      <3> QED BY <1>1, <3>1 DEF Exchange, Connections
    <2>7. ASSUME NEW d \in Deliveries PROVE TakesTurns(d)'
      <3>1. CASE d # q /\ d = p
        BY <2>2, <2>5, <3>1, NotAlone
      <3>2. CASE d # q /\ d # p
        <4>1. \A x \in Deliveries : exec[x] # "none" => exec'[x] # "none"
          BY <2>4, <2>5
        <4>2. TakesTurns(d) /\ up[d] \in Seq(UpMessage)
          BY <1>t DEF Exchange
        <4> QED BY <1>1, <2>3, <2>4, <3>2, <4>1, <4>2, TurnsKept
      <3>3. CASE d = q
        <4> SUFFICES ASSUME OnlyExecution(q)', socketMap[CallOf(q)] = q
                     PROVE  InStep(q)'
          BY <1>1, <2>5, <3>3 DEF TakesTurns
        <4>1. Quiet(q)
          BY <1>1, <2>4 DEF Exchange, TakesTurns, OnlyExecution
        <4>2. up[q] \in Seq(UpMessage) /\ up'[q] = Append(up[q], m)
          BY <1>t, <2>1 DEF Send
        <4>3. \A i \in 1..Len(up'[q]) : \/ i \in 1..Len(up[q]) /\ up'[q][i] = up[q][i]
                                        \/ i = Len(up[q]) + 1 /\ up'[q][i] = m
          BY SMT, <4>2
        <4>4. \A i \in 1..Len(up[q]) : up[q][i] \notin Requests
          BY <4>1 DEF Quiet, NoRequest, OnTheWay
        <4>5. OneRequest(q)'
          BY <4>3, <4>4 DEF OneRequest
        <4>6. \A x \in Requests : OnTheWay(q, x)' => x = m
          BY <4>3, <4>4 DEF OnTheWay
        <4> QED BY <1>1, <2>5, <4>1, <4>5, <4>6 DEF InStep, Quiet
      <3> QED BY <3>1, <3>2, <3>3
    <2> QED BY <2>6, <2>7 DEF Exchange
  <1> QED BY <1>t, <1>2, <1>3 DEF StorageRequest

(* It looks the connection up once more before it waits.                   *)
LEMMA AwaitKeepsExchange ==
  ASSUME RunInv, Exchange, NEW q \in Deliveries, AwaitNdpResponse(q)
  PROVE  Exchange'
  <1>t. /\ up \in [Deliveries -> Seq(UpMessage)] /\ exec \in [Deliveries -> ExecState]
        /\ request \in [Deliveries -> {"none", "NdpRead", "NdpWrite"}]
        /\ waitsOn \in [Deliveries -> Deliveries \cup {None}]
        /\ socketMap \in [Calls -> Deliveries \cup {None}]
        /\ CallOf(q) \in Calls
    BY DEF RunInv, SlotInv, TypeOK, CommonTypeOK, RuntimeTypeOK, CallOf, Deliveries
  <1>1. /\ verdict' = verdict /\ down' = down /\ flag' = flag /\ lastMsg' = lastMsg
        /\ up' = up /\ socketMap' = socketMap /\ exec[q] = "sent"
        /\ waitsOn' = [waitsOn EXCEPT ![q] = socketMap[CallOf(q)]]
    BY DEF AwaitNdpResponse, endpointVars, commonVars
  <1>2. \/ /\ socketMap[CallOf(q)] = None /\ exec'[q] = "run"
        \/ /\ socketMap[CallOf(q)] # None /\ exec'[q] = "await" /\ request'[q] = request[q]
    BY <1>t DEF AwaitNdpResponse
  <1>3. \A d \in Deliveries : d # q =>
          exec'[d] = exec[d] /\ request'[d] = request[d] /\ waitsOn'[d] = waitsOn[d]
    BY <1>t DEF AwaitNdpResponse
  <1>4. waitsOn'[q] = socketMap[CallOf(q)]
    BY <1>t, <1>1
  <1>5. Connections'
    <2>1. socketMap[CallOf(q)] # None => socketMap[CallOf(q)] \in Deliveries
                                          /\ CallOf(socketMap[CallOf(q)]) = CallOf(q)
      BY <1>t DEF Exchange, Connections
    <2>2. ASSUME NEW d \in Deliveries
          PROVE  /\ exec'[d] = "none" => down'[d] = <<>> /\ ~flag'[d]
                 /\ exec'[d] = "await" => waitsOn'[d] \in Deliveries /\ CallOf(waitsOn'[d]) = CallOf(d)
      <3>1. CASE d = q
        <4>1. exec'[q] # "none"
          BY <1>2
        <4>2. exec'[q] = "await" => waitsOn'[q] \in Deliveries /\ CallOf(waitsOn'[q]) = CallOf(q)
          BY <1>2, <1>4, <2>1
        <4> QED BY <3>1, <4>1, <4>2
      <3>2. CASE d # q
        BY <1>1, <1>3, <3>2 DEF Exchange, Connections
      <3> QED BY <3>1, <3>2
    <2> QED BY <1>1, <2>2 DEF Exchange, Connections
  <1>6. ASSUME NEW d \in Deliveries PROVE TakesTurns(d)'
    <2>1. CASE d # q
      <3>1. \A x \in Deliveries : exec[x] # "none" => exec'[x] # "none"
        BY <1>2, <1>3
      <3>2. TakesTurns(d) /\ up[d] \in Seq(UpMessage)
        BY <1>t DEF Exchange
      <3> QED BY <1>1, <1>3, <2>1, <3>1, <3>2, TurnsKept
    <2>2. CASE d = q
      <3> SUFFICES ASSUME OnlyExecution(q)', socketMap[CallOf(q)] = q, exec'[q] = "await"
                   PROVE  InStep(q)'
        BY <1>1, <1>2, <1>4, <2>2, NoneIsFresh DEF TakesTurns
      <3>1. request'[q] = request[q]
        BY <1>2
      <3>2. InStep(q)
        BY <1>1, <1>3 DEF Exchange, TakesTurns, OnlyExecution
      <3> QED BY <1>1, <3>1, <3>2 DEF InStep, NoRequest, OneRequest, OnTheWay
    <2> QED BY <2>1, <2>2
  <1> QED BY <1>5, <1>6 DEF Exchange

(* It takes the answer.                                                    *)
LEMMA TakeKeepsExchange ==
  ASSUME RunInv, Exchange, NEW q \in Deliveries, TakeResponse(q)
  PROVE  Exchange'
  <1>t. /\ up \in [Deliveries -> Seq(UpMessage)] /\ exec \in [Deliveries -> ExecState]
        /\ flag \in [Deliveries -> BOOLEAN] /\ lastMsg \in [Deliveries -> {"none"} \cup DownMessage]
        /\ \A d \in Deliveries : CallOf(d) \in Calls /\ d # None
    BY NoneIsFresh DEF RunInv, SlotInv, TypeOK, CommonTypeOK, RuntimeTypeOK, CallOf, Deliveries
  <1>1. /\ verdict' = verdict /\ down' = down /\ up' = up /\ exec[q] = "await" /\ flag[waitsOn[q]]
        /\ flag' = [flag EXCEPT ![waitsOn[q]] = FALSE]
        /\ lastMsg' = [lastMsg EXCEPT ![waitsOn[q]] = "none"]
        /\ exec' = [exec EXCEPT ![q] = "run"]
    BY DEF TakeResponse, commonVars
  <1>2. waitsOn[q] \in Deliveries /\ CallOf(waitsOn[q]) = CallOf(q)
    BY <1>1 DEF Exchange, Connections
  <1>3. /\ \A d \in Deliveries : d # q => /\ exec'[d] = exec[d]
                                          /\ request'[d] = request[d]
                                          /\ waitsOn'[d] = waitsOn[d]
        /\ \A c \in Calls : socketMap'[c] \in {socketMap[c], None}
    BY ExecutorFrame DEF ExecutorAction, RunInv, SlotInv
  <1>4. exec'[q] = "run" /\ ~flag'[waitsOn[q]]
    BY <1>t, <1>1, <1>2
  <1>5. \A d \in Deliveries : d # waitsOn[q] => flag'[d] = flag[d] /\ lastMsg'[d] = lastMsg[d]
    BY <1>t, <1>1
  <1>6. Connections'
    <2>1. ASSUME NEW d \in Deliveries
          PROVE  /\ exec'[d] = "none" => down'[d] = <<>> /\ ~flag'[d]
                 /\ exec'[d] = "await" => waitsOn'[d] \in Deliveries /\ CallOf(waitsOn'[d]) = CallOf(d)
      <3>1. CASE d = q
        BY <1>4, <3>1
      <3>2. CASE d # q
        <4>1. exec[d] = "none" => down[d] = <<>> /\ ~flag[d]
          BY DEF Exchange, Connections
        <4>2. ~flag[d] => ~flag'[d]
          BY <1>4, <1>5
        <4>3. exec[d] = "await" => waitsOn[d] \in Deliveries /\ CallOf(waitsOn[d]) = CallOf(d)
          BY DEF Exchange, Connections
        <4> QED BY <1>1, <1>3, <3>2, <4>1, <4>2, <4>3
      <3> QED BY <3>1, <3>2
    <2>2. ASSUME NEW c \in Calls, socketMap'[c] # None
          PROVE  CallOf(socketMap'[c]) = c /\ verdict[socketMap'[c]] # "none"
      <3>1. socketMap'[c] = socketMap[c]
        BY <1>3, <2>2
      <3> QED BY <2>2, <3>1 DEF Exchange, Connections
    <2> QED BY <1>1, <2>1, <2>2 DEF Exchange, Connections
  <1>7. ASSUME NEW d \in Deliveries PROVE TakesTurns(d)'
    <2>1. CASE d # q /\ d = waitsOn[q]
      BY <1>2, <1>4, <2>1, NotAlone
    <2>2. CASE d # q /\ d # waitsOn[q]
      <3>1. \A x \in Deliveries : exec[x] # "none" => exec'[x] # "none"
        BY <1>3, <1>4
      <3>2. TakesTurns(d) /\ up[d] \in Seq(UpMessage) /\ (socketMap'[CallOf(d)] = d => socketMap[CallOf(d)] = d)
        BY <1>t, <1>3 DEF Exchange
      <3> QED BY <1>1, <1>3, <1>5, <2>2, <3>1, <3>2, TurnsKept
    <2>3. CASE d = q
      <3> SUFFICES ASSUME OnlyExecution(q)' PROVE Quiet(q)'
        BY <1>4, <2>3 DEF TakesTurns
      <3>1. OnlyExecution(q)
        BY <1>3 DEF OnlyExecution
      <3>2. waitsOn[q] = q
        BY <1>1, <1>2, <3>1 DEF Exchange, Connections, OnlyExecution
      <3>3. InStep(q) /\ flag[q]
        BY <1>1, <3>1, <3>2 DEF Exchange, TakesTurns
      <3>4. NoRequest(q) /\ down[q] = <<>>
        BY <3>3 DEF InStep
      <3> QED BY <1>1, <1>4, <3>2, <3>4 DEF Quiet, NoRequest, OnTheWay
    <2> QED BY <2>1, <2>2, <2>3
  <1> QED BY <1>6, <1>7 DEF Exchange

(* The other steps of an executor.                                         *)
LEMMA ExecutorKeepsExchange ==
  ASSUME RunInv, Exchange, NEW q \in Deliveries, ExecutorAction(q)
  PROVE  Exchange'
  <1>t. /\ up \in [Deliveries -> Seq(UpMessage)] /\ exec \in [Deliveries -> ExecState]
        /\ \A d \in Deliveries : CallOf(d) \in Calls /\ d # None
    BY NoneIsFresh DEF RunInv, SlotInv, TypeOK, CommonTypeOK, RuntimeTypeOK, CallOf, Deliveries
  <1>1. CASE \E m \in {"NdpRead", "NdpWrite"} : StorageRequest(q, m)
    BY <1>1, RequestKeepsExchange DEF Requests
  <1>2. CASE AwaitNdpResponse(q)
    BY <1>2, AwaitKeepsExchange
  <1>3. CASE TakeResponse(q)
    BY <1>3, TakeKeepsExchange
  <1>4. CASE \/ StartExecutor(q) \/ RequestNdpDelta(q) \/ FunctionReturns(q)
             \/ SendDirectResult(q) \/ CloseCephSocket(q)
    <2>1. /\ verdict' = verdict /\ down' = down /\ flag' = flag /\ lastMsg' = lastMsg
          /\ socketMap' = socketMap /\ request' = request /\ waitsOn' = waitsOn
      BY <1>4 DEF StartExecutor, RequestNdpDelta, FunctionReturns, SendDirectResult,
                  CloseCephSocket, FinishTask, endpointVars, commonVars
    <2>2. \/ exec' = exec
          \/ /\ exec[q] \in {"queued", "delta", "run"}
             /\ \E e \in {"delta", "run", "finished"} : exec' = [exec EXCEPT ![q] = e]
      BY <1>4 DEF StartExecutor, RequestNdpDelta, FunctionReturns, SendDirectResult,
                  CloseCephSocket, FinishTask
    <2>3. \/ up' = up
          \/ verdict[q] # "none" /\ up' = Send(up, q, "NdpEnd")
      <3>1. exec[q] # "none"
        BY ExecutorFrame DEF RunInv, SlotInv
      <3>2. verdict[q] = "Ok"
        BY <3>1 DEF RunInv, SlotInv, Admission
      <3> QED BY <1>4, <3>2 DEF StartExecutor, RequestNdpDelta, FunctionReturns,
                SendDirectResult, CloseCephSocket, commonVars
    <2>4. \A d \in Deliveries : \/ up'[d] = up[d]
                                \/ verdict[d] # "none"
                                   /\ \E x \in UpMessage \ Requests : up'[d] = Append(up[d], x)
      <3>1. "NdpEnd" \in UpMessage \ Requests
        BY DEF UpMessage, StorageMessage, Requests
      <3> QED BY <1>t, <2>3, <3>1 DEF Send
    <2>5. /\ \A d \in Deliveries : d # q => exec'[d] = exec[d]
          /\ \/ exec'[q] = exec[q]
             \/ exec[q] \in {"queued", "delta", "run"} /\ exec'[q] \in {"delta", "run", "finished"}
      BY <1>t, <2>2
    <2>6. Connections'
      <3>1. ASSUME NEW d \in Deliveries
            PROVE  /\ exec'[d] = "none" => exec[d] = "none"
                   /\ exec'[d] = "await" => exec[d] = "await"
        BY <2>5
      <3> QED BY <2>1, <2>4, <3>1 DEF Exchange, Connections
    <2>7. ASSUME NEW d \in Deliveries PROVE TakesTurns(d)'
      <3>1. \A x \in Deliveries : exec[x] # "none" => exec'[x] # "none"
        BY <2>5
      <3>2. TakesTurns(d) /\ up[d] \in Seq(UpMessage)
        BY <1>t DEF Exchange
      <3>3. CASE exec'[d] = exec[d]
        BY <2>1, <2>4, <3>1, <3>2, <3>3, TurnsKept
      <3>4. CASE d = q /\ exec[q] \in {"queued", "delta", "run"}
                 /\ exec'[q] \in {"delta", "run", "finished"}
        <4> SUFFICES ASSUME OnlyExecution(q)', socketMap[CallOf(q)] = q PROVE Quiet(q)'
          BY <2>1, <3>4 DEF TakesTurns
        <4>1. OnlyExecution(q)
          BY <3>1, AloneBefore
        <4>2. Quiet(q)
          BY <3>2, <3>4, <4>1 DEF TakesTurns
        <4>3. \A m \in Requests : OnTheWay(q, m)' => OnTheWay(q, m)
          BY <2>4, <3>2, <3>4, RequestsKept
        <4> QED BY <2>1, <4>2, <4>3 DEF Quiet, NoRequest
      <3> QED BY <2>5, <3>3, <3>4
    <2> QED BY <2>6, <2>7 DEF Exchange
  <1> QED BY <1>1, <1>2, <1>3, <1>4 DEF ExecutorAction

(* The whole of a step.                                                    *)
LEMMA ExchangeInductive == RunInv /\ Exchange /\ [Next]_vars => Exchange'
  <1> SUFFICES ASSUME RunInv, Exchange, [Next]_vars PROVE Exchange'
    OBVIOUS
  <1>1. CASE CallerStep /\ UNCHANGED <<cls, runtimeVars>>
    <2>1. UNCHANGED <<up, down>>
      BY <1>1 DEF CallerStep, RunWithoutNdp, Offload, Redeliver, OnResponse, AwaitResult,
                  AwaitTimeout, CallLocally, CallerGoesOn, commonVars
    <2> QED BY <1>1, <2>1, ExchangeKept DEF runtimeVars
  <1>2. CASE ClassStep /\ UNCHANGED <<callerVars, runtimeVars>>
    BY <1>2, ClassKeepsExchange
  <1>3. CASE RuntimeStep /\ UNCHANGED <<callerVars, cls>>
    <2>1. CASE LoadChanges
      BY <2>1, ExchangeKept DEF LoadChanges, commonVars
    <2> QED BY <1>3, <2>1, RuntimeStepCases, EndpointKeepsExchange, ExecutorKeepsExchange
  <1>4. CASE UNCHANGED vars
    BY <1>4, ExchangeKept DEF vars, commonVars, runtimeVars
  <1> QED BY <1>1, <1>2, <1>3, <1>4 DEF Next

(* awaitNdpResponse returns the answer to the request its thread sent, for *)
(* every number of calls, redeliveries, slots and storage operations, as   *)
(* long as the function is the only one run under its call id.             *)
THEOREM ResponseMatchesRequestHolds == Safety => []ResponseMatchesRequest
  <1>1. Init => Exchange
    <2> SUFFICES ASSUME Init PROVE Exchange
      OBVIOUS
    <2>1. /\ \A d \in Deliveries : /\ exec[d] = "none" /\ down[d] = <<>> /\ ~flag[d]
                                   /\ up[d] = <<>>
          /\ \A c \in Calls : socketMap[c] = None
      BY DEF Init, CommonInit, RuntimeInit
    <2> QED BY <2>1 DEF Exchange, Connections, TakesTurns
  <1>2. RunInv /\ Exchange => ResponseMatchesRequest
    <2> SUFFICES ASSUME RunInv, Exchange, NEW d \in Deliveries,
                        exec[d] = "await", flag[waitsOn[d]], OnlyExecution(d)
                 PROVE  lastMsg[waitsOn[d]] = IF request[d] = "NdpRead" THEN "data" ELSE "ok"
      BY DEF ResponseMatchesRequest
    <2>1. waitsOn[d] \in Deliveries /\ CallOf(waitsOn[d]) = CallOf(d)
      BY DEF Exchange, Connections
    <2>2. waitsOn[d] = d
      BY <2>1 DEF Exchange, Connections, OnlyExecution
    <2>3. InStep(d)
      BY <2>2 DEF Exchange, TakesTurns
    <2>4. lastMsg[d] = Answer(request[d])
      BY <2>2, <2>3 DEF InStep
    <2> QED BY <2>2, <2>4 DEF Answer
  <1>3. Init => RunInv
    BY RunInvInitial
  <1> QED BY <1>1, <1>2, <1>3, RunInvInductive, ExchangeInductive, PTL DEF Safety
=============================================================================
