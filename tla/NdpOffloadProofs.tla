-------------------------- MODULE NdpOffloadProofs --------------------------
(***************************************************************************)
(* Theorems about NdpOffload, for every set of calls, every number of      *)
(* redeliveries, slots and storage operations.                             *)
(***************************************************************************)
EXTENDS NdpOffload, FiniteSetTheorems, TLAPS

(* Steps are left to Zenon unless they name SMT, which has the arithmetic. *)
USE Zenon

(* There are finitely many deliveries, so the executors can be counted.    *)
LEMMA DeliveriesFinite == IsFiniteSet(Deliveries)
  <1>1. IsFiniteSet(0..Resends)
    BY SMT, FS_Interval, BoundsAreNat
  <1> QED BY <1>1, CallsFinite, FS_Product DEF Deliveries

(* A set of deliveries has a size, one more element makes it one larger,   *)
(* and one less, one smaller.                                              *)
LEMMA CountOfDeliveries ==
  ASSUME NEW S \in SUBSET Deliveries, NEW d \in Deliveries
  PROVE  /\ Cardinality(S) \in Nat
         /\ d \notin S => Cardinality(S \cup {d}) = Cardinality(S) + 1
         /\ d \in S => Cardinality(S \ {d}) = Cardinality(S) - 1
         /\ d \in S => Cardinality(S) >= 1
  <1>1. IsFiniteSet(S)
    BY DeliveriesFinite, FS_Subset
  <1>2. Cardinality(S) \in Nat
    BY <1>1, FS_CardinalityType
  <1>3. d \notin S => Cardinality(S \cup {d}) = Cardinality(S) + 1
    BY <1>1, FS_AddElement
  <1>4. d \in S => Cardinality(S \ {d}) = Cardinality(S) - 1
    BY <1>1, FS_RemoveElement
  <1>5. d \in S => Cardinality(S) # 0
    BY <1>1, FS_EmptySet
  <1> QED BY SMT, <1>2, <1>3, <1>4, <1>5

SlotInv == TypeOK /\ SlotsBoundExecutors /\ Admission

(* A step of the caller keeps the types.                                   *)
LEMMA CallerKeepsTypes ==
  ASSUME TypeOK, CallerStep, UNCHANGED <<cls, runtimeVars>>
  PROVE  TypeOK'
  <1>1. PICK c \in Calls :
          \/ RunWithoutNdp(c) \/ Offload(c) \/ Redeliver(c) \/ OnResponse(c)
          \/ AwaitResult(c) \/ AwaitTimeout(c) \/ CallLocally(c) \/ CallerGoesOn(c)
    BY DEF CallerStep
  <1>2. ClassTypeOK' /\ RuntimeTypeOK'
    BY DEF TypeOK, ClassTypeOK, RuntimeTypeOK, runtimeVars, endpointVars, execVars
  <1>3. c \in Calls /\ Current(c) \in Deliveries
        /\ (delivery[c] < Resends => <<c, delivery[c] + 1>> \in Deliveries)
    BY SMT, BoundsAreNat DEF Current, Deliveries, TypeOK, CallerTypeOK
  <1>4. CommonTypeOK' /\ CallerTypeOK'
    <2> USE <1>3 DEF TypeOK, CommonTypeOK, CallerTypeOK, commonVars, callerVars, Goto, Ended
    <2>1. CASE RunWithoutNdp(c) BY <2>1 DEF RunWithoutNdp
    <2>2. CASE Offload(c) BY <2>2 DEF Offload
    <2>3. CASE Redeliver(c) BY SMT, <2>3, BoundsAreNat DEF Redeliver
    <2>4. CASE OnResponse(c) BY <2>4 DEF OnResponse
    <2>5. CASE AwaitResult(c) BY <2>5 DEF AwaitResult, Memory
    <2>6. CASE AwaitTimeout(c) BY <2>6 DEF AwaitTimeout
    <2>7. CASE CallLocally(c) BY <2>7 DEF CallLocally, Memory
    <2>8. CASE CallerGoesOn(c) BY <2>8 DEF CallerGoesOn, Memory
    <2> QED BY <1>1, <2>1, <2>2, <2>3, <2>4, <2>5, <2>6, <2>7, <2>8
  <1> QED BY <1>2, <1>4 DEF TypeOK

(* Appending a message to a stream and taking one off it keep its type.    *)
LEMMA StreamTypes ==
  ASSUME NEW M, NEW s \in [Deliveries -> Seq(M)], NEW d \in Deliveries, NEW m \in M
  PROVE  /\ Send(s, d, m) \in [Deliveries -> Seq(M)]
         /\ s[d] # <<>> => /\ Receive(s, d) \in [Deliveries -> Seq(M)]
                           /\ Head(s[d]) \in M
  BY SMT DEF Send, Receive

(* A step of the Ceph class keeps the types.                               *)
LEMMA ClassKeepsTypes ==
  ASSUME TypeOK, ClassStep, UNCHANGED <<callerVars, runtimeVars>>
  PROVE  TypeOK'
  <1>1. PICK d \in Deliveries :
          \/ Forward(d) \/ FirstTimeout(d) \/ FirstReceive(d)
          \/ LoopTimeout(d) \/ ServeStorage(d) \/ ServeEnd(d)
    BY DEF ClassStep
  <1>2. CallerTypeOK' /\ RuntimeTypeOK'
    BY DEF TypeOK, CallerTypeOK, RuntimeTypeOK, callerVars, runtimeVars,
           endpointVars, execVars
  <1>3. up[d] # <<>> => Receive(up, d) \in [Deliveries -> Seq(UpMessage)]
    BY StreamTypes DEF TypeOK, CommonTypeOK, UpMessage, NdpResult
  <1>4. \A m \in DownMessage : Send(down, d, m) \in [Deliveries -> Seq(DownMessage)]
    BY StreamTypes DEF TypeOK, CommonTypeOK
  <1>5. \A r \in Replies : ReplyWith(d, r) =>
          /\ cls' \in [Deliveries -> {"none", "first", "loop", "done"}]
          /\ rados' \in [Deliveries -> {"none", "sent"} \cup Replies]
          /\ sock' \in [Deliveries -> {"none", "open", "closed"}]
    BY SMT DEF ReplyWith, TypeOK, CommonTypeOK, ClassTypeOK
  <1>6. CommonTypeOK' /\ ClassTypeOK'
    <2> USE <1>3, <1>4, <1>5 DEF TypeOK, CommonTypeOK, ClassTypeOK, Replies, NdpResult
    <2>1. CASE Forward(d) BY <2>1 DEF Forward
    <2>2. CASE FirstTimeout(d) BY <2>2 DEF FirstTimeout
    <2>3. CASE FirstReceive(d) BY <2>3 DEF FirstReceive, ReadAsResponse
    <2>4. CASE LoopTimeout(d) BY <2>4 DEF LoopTimeout
    <2>5. CASE ServeStorage(d)
      <3>1. up' \in [Deliveries -> Seq(UpMessage)]
        BY <2>5 DEF ServeStorage
      <3>2. down' \in [Deliveries -> Seq(DownMessage)]
        BY SMT, <2>5 DEF ServeStorage, DownMessage
      <3>3. /\ cls' \in [Deliveries -> {"none", "first", "loop", "done"}]
            /\ rados' \in [Deliveries -> {"none", "sent"} \cup Replies]
            /\ sock' \in [Deliveries -> {"none", "open", "closed"}]
        BY <2>5 DEF ServeStorage
      <3> QED BY <2>5, <3>1, <3>2, <3>3 DEF ServeStorage
    <2>6. CASE ServeEnd(d) BY <2>6 DEF ServeEnd
    <2> QED BY <1>1, <2>1, <2>2, <2>3, <2>4, <2>5, <2>6
  <1> QED BY <1>2, <1>6 DEF TypeOK

(* A connection that stops receiving, or is destroyed, leaves the endpoint *)
(* well typed.                                                             *)
LEMMA StopKeepsTypes ==
  ASSUME TypeOK, NEW d \in Deliveries, StopReceiving(d)
  PROVE  /\ conn' \in [Deliveries -> ConnState]
         /\ socketMap' \in [Calls -> Deliveries \cup {None}]
  <1>1. CallOf(d) \in Calls
    BY DEF CallOf, Deliveries
  <1> QED BY <1>1 DEF StopReceiving, TypeOK, RuntimeTypeOK, ConnState

(* A handler of the endpoint keeps the types.                              *)
LEMMA EndpointKeepsTypes ==
  ASSUME TypeOK, Admission, UNCHANGED <<callerVars, cls>>, NEW d \in Deliveries,
         \/ OnAcceptable(d) \/ OnFirstReceivable(d) \/ Respond(d)
         \/ OnReceivable(d) \/ OnReceiveError(d)
  PROVE  TypeOK'
  <1>1. CallOf(d) \in Calls
    BY DEF CallOf, Deliveries
  <1>2. CallerTypeOK' /\ ClassTypeOK'
    BY DEF TypeOK, CallerTypeOK, ClassTypeOK, callerVars
  <1>3. \A m \in UpMessage : Send(up, d, m) \in [Deliveries -> Seq(UpMessage)]
    BY StreamTypes DEF TypeOK, CommonTypeOK
  <1>4. down[d] # <<>> => /\ Receive(down, d) \in [Deliveries -> Seq(DownMessage)]
                          /\ Head(down[d]) \in DownMessage
    BY StreamTypes DEF TypeOK, CommonTypeOK, DownMessage
  <1>5. StopReceiving(d) => /\ conn' \in [Deliveries -> ConnState]
                            /\ socketMap' \in [Calls -> Deliveries \cup {None}]
    BY StopKeepsTypes
  <1>6. CommonTypeOK' /\ RuntimeTypeOK'
    <2> USE BoundsAreNat
        DEF TypeOK, CommonTypeOK, RuntimeTypeOK, commonVars, execVars
    <2>1. CASE OnAcceptable(d) BY <2>1 DEF OnAcceptable, ConnState
    <2>2. CASE OnFirstReceivable(d)
      <3>1. conn' \in [Deliveries -> ConnState]
        BY <2>2 DEF OnFirstReceivable, ConnState
      <3>2. slots' \in 0..MaxSlots
        BY SMT, <2>2 DEF OnFirstReceivable, Refuse, Schedule
      <3>3. verdict' \in [Deliveries -> {"none", "ProcessLocallyNoSlot"} \cup NdpResult]
        BY <2>2 DEF OnFirstReceivable, Refuse, Schedule, NdpResult
      <3>4. socketMap' \in [Calls -> Deliveries \cup {None}]
        BY SMT, <2>2, <1>1 DEF OnFirstReceivable, Refuse, Schedule
      <3>5. up' = up \/ up' = Send(up, d, "NdpEnd")
        BY <2>2 DEF OnFirstReceivable, Refuse, Schedule
      <3>6. "NdpEnd" \in UpMessage
        BY DEF UpMessage, StorageMessage
      <3>7. exec' \in [Deliveries -> ExecState]
        BY <2>2 DEF OnFirstReceivable, Refuse, Schedule, ExecState
      <3> QED BY <2>2, <1>3, <3>1, <3>2, <3>3, <3>4, <3>5, <3>6, <3>7
              DEF OnFirstReceivable
    <2>3. CASE Respond(d)
      <3>1. verdict[d] = "ProcessLocallyNoSlot" \/ verdict[d] \in NdpResult
        BY <2>3 DEF Respond, Admission
      <3>2. PICK m \in UpMessage : up' = up \/ up' = Send(up, d, m)
        BY <2>3, <3>1 DEF Respond, UpMessage, NdpResult
      <3>3. conn' \in [Deliveries -> ConnState] /\ socketMap' \in [Calls -> Deliveries \cup {None}]
        BY <2>3, <1>5 DEF Respond, ConnState
      <3> QED BY <2>3, <1>3, <3>2, <3>3 DEF Respond
    <2>4. CASE OnReceivable(d)
      <3>1. lastMsg' \in [Deliveries -> {"none"} \cup DownMessage]
            /\ flag' \in [Deliveries -> BOOLEAN]
        BY <2>4, <1>4 DEF OnReceivable
      <3>2. down' \in [Deliveries -> Seq(DownMessage)]
        BY <2>4, <1>4 DEF OnReceivable
      <3> QED BY <2>4, <3>1, <3>2 DEF OnReceivable
    <2>5. CASE OnReceiveError(d) BY <2>5, <1>5 DEF OnReceiveError
    <2> QED BY <2>1, <2>2, <2>3, <2>4, <2>5
  <1> QED BY <1>2, <1>6 DEF TypeOK

(* While an executor holds a slot, there is room to give it back.          *)
LEMMA RoomForRelease ==
  ASSUME TypeOK, SlotsBoundExecutors, NEW d \in Deliveries, exec[d] \in HoldsSlot
  PROVE  slots + 1 \in 0..MaxSlots
  <1>1. Holders \in SUBSET Deliveries /\ d \in Holders
    BY DEF Holders
  <1>2. Cardinality(Holders) \in Nat /\ Cardinality(Holders) >= 1
    BY <1>1, CountOfDeliveries
  <1> QED BY SMT, <1>2, BoundsAreNat DEF SlotsBoundExecutors, TypeOK, RuntimeTypeOK

ExecutorAction(d) ==
    \/ StartExecutor(d) \/ RequestNdpDelta(d)
    \/ \E m \in {"NdpRead", "NdpWrite"} : StorageRequest(d, m)
    \/ AwaitNdpResponse(d) \/ TakeResponse(d) \/ FunctionReturns(d)
    \/ SendDirectResult(d) \/ CloseCephSocket(d)

(* A step of an executor keeps the types.                                  *)
LEMMA ExecutorKeepsTypes ==
  ASSUME TypeOK, SlotsBoundExecutors, UNCHANGED <<callerVars, cls>>,
         NEW d \in Deliveries, ExecutorAction(d)
  PROVE  TypeOK'
  <1>1. CallOf(d) \in Calls
    BY DEF CallOf, Deliveries
  <1>2. CallerTypeOK' /\ ClassTypeOK'
    BY DEF TypeOK, CallerTypeOK, ClassTypeOK, callerVars
  <1>3. \A p \in Deliveries : \A m \in {"NdpRead", "NdpWrite", "NdpEnd"} :
          Send(up, p, m) \in [Deliveries -> Seq(UpMessage)]
    <2>1. \A m \in {"NdpRead", "NdpWrite", "NdpEnd"} : m \in UpMessage
      BY DEF UpMessage, StorageMessage
    <2> QED BY <2>1, StreamTypes DEF TypeOK, CommonTypeOK
  <1>4. exec[d] \in HoldsSlot => slots + 1 \in 0..MaxSlots
    BY RoomForRelease
  <1>5. CommonTypeOK' /\ RuntimeTypeOK'
    <2> USE BoundsAreNat DEF TypeOK, CommonTypeOK, RuntimeTypeOK, commonVars, endpointVars
    <2>1. CASE StartExecutor(d) BY SMT, <2>1 DEF StartExecutor, ExecState
    <2>2. CASE RequestNdpDelta(d)
      <3>1. exec[d] \in HoldsSlot
        BY <2>2 DEF RequestNdpDelta, HoldsSlot
      <3>2. base' \in [Deliveries -> Memory]
        <4>1. mem[CallOf(d)] \in Memory
          BY <1>1
        <4>2. base' = base \/ base' = [base EXCEPT ![d] = mem[CallOf(d)]]
          BY <2>2 DEF RequestNdpDelta
        <4> QED BY <4>1, <4>2
      <3>3. exec' \in [Deliveries -> ExecState] /\ outcome' \in [Deliveries -> {0, 1}]
        BY <2>2 DEF RequestNdpDelta, FinishTask, ExecState
      <3>4. slots' \in 0..MaxSlots
        BY <2>2, <3>1, <1>4 DEF RequestNdpDelta, FinishTask
      <3> QED BY <2>2, <3>2, <3>3, <3>4 DEF RequestNdpDelta
    <2>3. ASSUME NEW m \in {"NdpRead", "NdpWrite"}, StorageRequest(d, m)
          PROVE  CommonTypeOK' /\ RuntimeTypeOK'
      <3>1. ops' \in [Deliveries -> 0..MaxOps]
        BY SMT, <2>3 DEF StorageRequest
      <3>2. socketMap[CallOf(d)] # None => socketMap[CallOf(d)] \in Deliveries
        BY <1>1
      <3>3. \/ up' = up /\ exec' = exec /\ request' = request
            \/ /\ socketMap[CallOf(d)] \in Deliveries
               /\ up' = Send(up, socketMap[CallOf(d)], m)
               /\ exec' = [exec EXCEPT ![d] = "sent"]
               /\ request' = [request EXCEPT ![d] = m]
        BY <2>3, <3>2 DEF StorageRequest
      <3>4. exec' \in [Deliveries -> ExecState]
        BY <3>3 DEF ExecState
      <3>5. request' \in [Deliveries -> {"none", "NdpRead", "NdpWrite"}]
        <4>1. CASE request' = request BY <4>1
        <4>2. CASE request' = [request EXCEPT ![d] = m]
          BY <4>2
        <4> QED BY <3>3, <4>1, <4>2
      <3>6. up' \in [Deliveries -> Seq(UpMessage)]
        <4>1. CASE up' = up BY <4>1
        <4>2. CASE /\ socketMap[CallOf(d)] \in Deliveries
                   /\ up' = Send(up, socketMap[CallOf(d)], m)
          <5>1. m \in {"NdpRead", "NdpWrite", "NdpEnd"} OBVIOUS
          <5>2. Send(up, socketMap[CallOf(d)], m) \in [Deliveries -> Seq(UpMessage)]
            BY <4>2, <5>1, <1>3
          <5> QED BY <4>2, <5>2
        <4> QED BY <3>3, <4>1, <4>2
      <3> QED BY <2>3, <3>1, <3>4, <3>5, <3>6 DEF StorageRequest
    <2>4. CASE AwaitNdpResponse(d) BY <2>4, <1>1 DEF AwaitNdpResponse, ExecState
    <2>5. CASE TakeResponse(d)
      <3>1. /\ exec' \in [Deliveries -> ExecState]
            /\ request' \in [Deliveries -> {"none", "NdpRead", "NdpWrite"}]
            /\ waitsOn' \in [Deliveries -> Deliveries \cup {None}]
        <4>1. exec' \in [Deliveries -> ExecState]
          BY <2>5 DEF TakeResponse, ExecState
        <4> QED BY <2>5, <4>1 DEF TakeResponse
      <3>2. /\ flag' \in [Deliveries -> BOOLEAN]
            /\ lastMsg' \in [Deliveries -> {"none"} \cup DownMessage]
        BY <2>5 DEF TakeResponse
      <3>3. /\ conn' \in [Deliveries -> ConnState]
            /\ socketMap' \in [Calls -> Deliveries \cup {None}]
        <4>0. \/ /\ conn' = [conn EXCEPT ![waitsOn[d]] = "freed"]
                 /\ socketMap' = [socketMap EXCEPT ![CallOf(waitsOn[d])] = None]
              \/ UNCHANGED <<conn, socketMap>>
          BY <2>5 DEF TakeResponse
        <4>1. conn' \in [Deliveries -> ConnState]
          BY <4>0 DEF ConnState
        <4>2. socketMap' \in [Calls -> Deliveries \cup {None}]
          BY <4>0
        <4> QED BY <4>1, <4>2
      <3> QED BY <2>5, <3>1, <3>2, <3>3 DEF TakeResponse
    <2>6. CASE FunctionReturns(d)
      <3>1. slots' \in 0..MaxSlots
        BY <2>6, <1>4 DEF FunctionReturns, FinishTask, HoldsSlot
      <3>2. exec' \in [Deliveries -> ExecState] /\ outcome' \in [Deliveries -> {0, 1}]
        BY SMT, <2>6 DEF FunctionReturns, FinishTask, ExecState
      <3> QED BY <2>6, <3>1, <3>2 DEF FunctionReturns
    <2>7. CASE SendDirectResult(d)
      <3>1. result' \in [Calls -> [full : BOOLEAN, ret : {0, 1}, base : Memory]]
        BY <2>7, <1>1 DEF SendDirectResult
      <3>2. resultSent' \in [Deliveries -> BOOLEAN]
        BY <2>7 DEF SendDirectResult
      <3> QED BY <2>7, <3>1, <3>2 DEF SendDirectResult
    <2>8. CASE CloseCephSocket(d)
      <3>1. up' \in [Deliveries -> Seq(UpMessage)] /\ endSent' \in [Deliveries -> BOOLEAN]
        BY <2>8, <1>3 DEF CloseCephSocket
      <3> QED BY <2>8, <3>1 DEF CloseCephSocket
    <2> QED BY <2>1, <2>2, <2>3, <2>4, <2>5, <2>6, <2>7, <2>8 DEF ExecutorAction
  <1> QED BY <1>2, <1>5 DEF TypeOK

(* The set of executors holding a slot changes only when one starts or     *)
(* ends, and the semaphore with it.                                        *)
LEMMA ExecutorKeepsSlotBound ==
  ASSUME TypeOK, SlotsBoundExecutors, NEW d \in Deliveries, ExecutorAction(d)
  PROVE  SlotsBoundExecutors'
  <1> USE DEF TypeOK, RuntimeTypeOK, HoldsSlot
  <1>1. Holders \in SUBSET Deliveries
    BY DEF Holders
  <1>2. Cardinality(Holders) \in Nat
    BY <1>1, CountOfDeliveries
  <1>3. CASE StartExecutor(d)
    <2>1. d \notin Holders /\ Holders' = Holders \cup {d}
      BY <1>3 DEF StartExecutor, Holders
    <2>2. slots' = slots - 1
      BY <1>3 DEF StartExecutor
    <2>3. Cardinality(Holders') = Cardinality(Holders) + 1
      BY <1>1, <2>1, CountOfDeliveries
    <2> QED BY SMT, <1>2, <2>2, <2>3, BoundsAreNat DEF SlotsBoundExecutors
  <1>4. ASSUME d \in Holders, exec' = [exec EXCEPT ![d] = "finished"], slots' = slots + 1
        PROVE  SlotsBoundExecutors'
    <2>1. Holders' = Holders \ {d}
      BY <1>4 DEF Holders
    <2>2. Cardinality(Holders') = Cardinality(Holders) - 1
      BY <1>1, <1>4, <2>1, CountOfDeliveries
    <2> QED BY SMT, <1>2, <1>4, <2>2, BoundsAreNat DEF SlotsBoundExecutors
  <1>5. ASSUME slots' = slots, Holders' = Holders
        PROVE  SlotsBoundExecutors'
    BY <1>5 DEF SlotsBoundExecutors
  <1>6. CASE RequestNdpDelta(d)
    <2>1. d \in Holders
      BY <1>6 DEF RequestNdpDelta, Holders
    <2>2. CASE exec' = [exec EXCEPT ![d] = "run"] /\ slots' = slots
      <3>1. Holders' = Holders
        BY <2>1, <2>2 DEF Holders
      <3> QED BY <1>5, <2>2, <3>1
    <2> QED BY <1>4, <1>6, <2>1, <2>2 DEF RequestNdpDelta, FinishTask
  <1>7. ASSUME NEW m \in {"NdpRead", "NdpWrite"}, StorageRequest(d, m)
        PROVE  SlotsBoundExecutors'
    <2>1. Holders' = Holders /\ slots' = slots
      BY SMT, <1>7 DEF StorageRequest, Holders
    <2> QED BY <1>5, <2>1
  <1>8. CASE AwaitNdpResponse(d)
    <2>1. Holders' = Holders /\ slots' = slots
      BY <1>8 DEF AwaitNdpResponse, Holders
    <2> QED BY <1>5, <2>1
  <1>9. CASE TakeResponse(d)
    <2>1. exec[d] = "await" /\ exec' = [exec EXCEPT ![d] = "run"] /\ slots' = slots
      BY <1>9 DEF TakeResponse
    <2>2. Holders' = Holders
      BY <2>1 DEF Holders
    <2> QED BY <1>5, <2>1, <2>2
  <1>10. CASE FunctionReturns(d)
    <2>1. d \in Holders
      BY <1>10 DEF FunctionReturns, Holders
    <2> QED BY <1>4, <1>10, <2>1 DEF FunctionReturns, FinishTask
  <1>11. CASE SendDirectResult(d) \/ CloseCephSocket(d)
    <2>1. Holders' = Holders /\ slots' = slots
      BY <1>11 DEF SendDirectResult, CloseCephSocket, Holders
    <2> QED BY <1>5, <2>1
  <1> QED BY <1>3, <1>6, <1>7, <1>8, <1>9, <1>10, <1>11 DEF ExecutorAction

EndpointAction(d) ==
    \/ OnAcceptable(d) \/ OnFirstReceivable(d) \/ Respond(d)
    \/ OnReceivable(d) \/ OnReceiveError(d)

(* Where a connection goes when it stops receiving.                        *)
LEMMA StopMovesConnections ==
  ASSUME TypeOK, NEW d \in Deliveries, StopReceiving(d)
  PROVE  \A p \in Deliveries :
            \/ conn'[p] = conn[p]
            \/ conn'[p] \in {"stopped", "freed"}
  BY DEF StopReceiving, TypeOK, RuntimeTypeOK

(* A handler of the endpoint starts or ends no execution; it may only use  *)
(* slots up, and decides on a delivery once.                               *)
LEMMA EndpointKeepsSlotBound ==
  ASSUME TypeOK, Admission, SlotsBoundExecutors, NEW d \in Deliveries,
         EndpointAction(d)
  PROVE  SlotsBoundExecutors' /\ Admission'
  <1> USE DEF TypeOK, RuntimeTypeOK, execVars
  <1>1. Cardinality(Holders) \in Nat
    BY CountOfDeliveries DEF Holders
  <1>2. CASE OnFirstReceivable(d)
    <2>1. conn[d] = "accepted" /\ verdict[d] = "none" /\ exec[d] = "none"
      BY <1>2 DEF OnFirstReceivable, Admission
    <2>2. slots' <= slots /\ slots' \in Nat
      BY SMT, <1>2, BoundsAreNat DEF OnFirstReceivable, Refuse, Schedule
    <2>3. \/ /\ exec' = [exec EXCEPT ![d] = "queued"]
             /\ verdict' = [verdict EXCEPT ![d] = "Ok"]
          \/ /\ exec' = exec
             /\ \E v \in {"ProcessLocallyNoSlot", "ProcessLocally", "Error"} :
                   verdict' = [verdict EXCEPT ![d] = v]
      BY <1>2 DEF OnFirstReceivable, Refuse, Schedule
    <2>4. Holders' = Holders
      BY <2>1, <2>3 DEF Holders, HoldsSlot
    <2>5. conn' = [conn EXCEPT ![d] = "responding"]
      BY <1>2 DEF OnFirstReceivable
    <2>6. Admission'
      BY SMT, <2>1, <2>3, <2>5 DEF Admission
    <2> QED BY SMT, <1>1, <2>2, <2>4, <2>6, BoundsAreNat DEF SlotsBoundExecutors
  <1>3. CASE ~OnFirstReceivable(d)
    <2>1. slots' = slots /\ exec' = exec /\ verdict' = verdict
      BY <1>3 DEF EndpointAction, OnAcceptable, Respond, OnReceivable, OnReceiveError
    <2>2. SlotsBoundExecutors'
      BY <2>1 DEF SlotsBoundExecutors, Holders
    <2>3. \A p \in Deliveries : \/ conn'[p] = conn[p]
                                \/ conn'[p] \in {"receiving", "stopped", "freed"}
                                \/ conn[p] = "none" /\ conn'[p] = "accepted"
      BY <1>3, StopMovesConnections
         DEF EndpointAction, OnAcceptable, Respond, OnReceivable, OnReceiveError
    <2> QED BY <2>1, <2>2, <2>3 DEF Admission
  <1> QED BY <1>2, <1>3

(* An execution that has begun is never forgotten, and the executors leave *)
(* admission alone.                                                        *)
LEMMA ExecutorKeepsAdmission ==
  ASSUME TypeOK, Admission, NEW d \in Deliveries, ExecutorAction(d)
  PROVE  Admission'
  <1> USE DEF TypeOK, RuntimeTypeOK, endpointVars
  <1>1. verdict' = verdict
    BY DEF ExecutorAction, StartExecutor, RequestNdpDelta, StorageRequest,
           AwaitNdpResponse, TakeResponse, FunctionReturns, SendDirectResult,
           CloseCephSocket
  <1>2. \A p \in Deliveries : conn'[p] = conn[p] \/ conn'[p] = "freed"
    <2>1. CASE TakeResponse(d) BY SMT, <2>1 DEF TakeResponse
    <2>2. CASE ~TakeResponse(d)
      BY <2>2 DEF ExecutorAction, StartExecutor, RequestNdpDelta, StorageRequest,
                  AwaitNdpResponse, FunctionReturns, SendDirectResult, CloseCephSocket
    <2> QED BY <2>1, <2>2
  <1>3. \/ exec' = exec
        \/ /\ exec[d] # "none"
           /\ \E e \in {"delta", "run", "sent", "await", "finished"} :
                 exec' = [exec EXCEPT ![d] = e]
    BY DEF ExecutorAction, StartExecutor, RequestNdpDelta, StorageRequest,
           AwaitNdpResponse, TakeResponse, FunctionReturns, SendDirectResult,
           CloseCephSocket, FinishTask
  <1> QED BY SMT, <1>1, <1>2, <1>3 DEF Admission

(* The three kinds of runtime steps.                                       *)
LEMMA RuntimeStepCases ==
  ASSUME RuntimeStep
  PROVE  \/ LoadChanges
         \/ \E d \in Deliveries : EndpointAction(d)
         \/ \E d \in Deliveries : ExecutorAction(d)
  BY DEF RuntimeStep, EndpointAction, ExecutorAction

(* The types, the slot accounting and admission, of every step.            *)
LEMMA SlotInvInductive == SlotInv /\ [Next]_vars => SlotInv'
  <1> SUFFICES ASSUME SlotInv, [Next]_vars PROVE SlotInv'
    OBVIOUS
  <1> USE DEF SlotInv
  <1>1. ASSUME UNCHANGED runtimeVars
        PROVE  SlotsBoundExecutors' /\ Admission'
    BY <1>1 DEF runtimeVars, endpointVars, execVars, SlotsBoundExecutors, Holders, Admission
  <1>2. CASE CallerStep /\ UNCHANGED <<cls, runtimeVars>>
    BY <1>1, <1>2, CallerKeepsTypes
  <1>3. CASE ClassStep /\ UNCHANGED <<callerVars, runtimeVars>>
    BY <1>1, <1>3, ClassKeepsTypes
  <1>4. CASE RuntimeStep /\ UNCHANGED <<callerVars, cls>>
    <2>1. CASE LoadChanges
      <3>1. TypeOK'
        BY <1>4, <2>1 DEF LoadChanges, TypeOK, CommonTypeOK, CallerTypeOK, ClassTypeOK,
             RuntimeTypeOK, commonVars, callerVars, endpointVars, execVars
      <3>2. SlotsBoundExecutors' /\ Admission'
        BY <2>1 DEF LoadChanges, endpointVars, execVars, SlotsBoundExecutors, Holders,
             Admission
      <3> QED BY <3>1, <3>2
    <2>2. ASSUME NEW d \in Deliveries, EndpointAction(d) PROVE SlotInv'
      <3>1. TypeOK'
        BY <1>4, <2>2, EndpointKeepsTypes DEF EndpointAction
      <3> QED BY <2>2, <3>1, EndpointKeepsSlotBound
    <2>3. ASSUME NEW d \in Deliveries, ExecutorAction(d) PROVE SlotInv'
      BY <1>4, <2>3, ExecutorKeepsTypes, ExecutorKeepsSlotBound, ExecutorKeepsAdmission
    <2> QED BY <1>4, <2>1, <2>2, <2>3, RuntimeStepCases
  <1>5. CASE UNCHANGED vars
    <2>1. TypeOK'
      BY <1>5 DEF vars, TypeOK, CommonTypeOK, CallerTypeOK, ClassTypeOK,
           RuntimeTypeOK, commonVars, callerVars, runtimeVars, endpointVars, execVars
    <2> QED BY <1>1, <1>5, <2>1 DEF vars
  <1> QED BY <1>2, <1>3, <1>4, <1>5 DEF Next

(* The system starts with all slots free and nothing admitted.             *)
LEMMA SlotInvInitial == Init => SlotInv
  <1> SUFFICES ASSUME Init PROVE SlotInv
    OBVIOUS
  <1> USE DEF Init, CommonInit, CallerInit, ClassInit, RuntimeInit
  <1>1. CommonTypeOK
    BY SMT DEF CommonTypeOK, Memory, NoResult
  <1>2. CallerTypeOK /\ ClassTypeOK
    BY SMT, BoundsAreNat DEF CallerTypeOK, ClassTypeOK
  <1>3. RuntimeTypeOK
    BY SMT, BoundsAreNat DEF RuntimeTypeOK, ConnState, ExecState, Memory
  <1>4. Holders = {}
    BY DEF Holders, HoldsSlot
  <1>5. SlotsBoundExecutors
    BY SMT, <1>4, FS_EmptySet, BoundsAreNat DEF SlotsBoundExecutors
  <1> QED BY <1>1, <1>2, <1>3, <1>5 DEF SlotInv, TypeOK, Admission

(* Every variable of the composed system keeps its type, whatever the      *)
(* number of calls, redeliveries, slots and storage operations.            *)
THEOREM TypesAreKept == Safety => []TypeOK
  <1>1. SlotInv => TypeOK
    BY DEF SlotInv
  <1> QED BY <1>1, SlotInvInitial, SlotInvInductive, PTL DEF Safety

(* onFirstReceivable, the executors and the semaphore never let more       *)
(* functions run than there are execution slots.                           *)
THEOREM SlotsBoundHolds == Safety => []SlotsBoundExecutors
  <1>1. SlotInv => SlotsBoundExecutors
    BY DEF SlotInv
  <1> QED BY <1>1, SlotInvInitial, SlotInvInductive, PTL DEF Safety

(***************************************************************************)
(* An Ok reply comes after the end of the remote run                       *)
(***************************************************************************)
(* What is on the way after one more message was sent.                     *)
LEMMA OnTheWayAfterSend ==
  ASSUME TypeOK, NEW q \in Deliveries, NEW m \in UpMessage, up' = Send(up, q, m),
         NEW d \in Deliveries, NEW x, OnTheWay(d, x)'
  PROVE  OnTheWay(d, x) \/ (d = q /\ x = m)
  <1>1. up \in [Deliveries -> Seq(UpMessage)]
    BY DEF TypeOK, CommonTypeOK
  <1>2. up'[d] = up[d] \/ (d = q /\ up'[d] = Append(up[d], m))
    BY <1>1 DEF Send
  <1>3. PICK i \in 1..Len(up'[d]) : up'[d][i] = x
    BY DEF OnTheWay
  <1>4. CASE up'[d] = up[d]
    BY <1>3, <1>4 DEF OnTheWay
  <1>5. CASE d = q /\ up'[d] = Append(up[d], m)
    <2>1. up[d] \in Seq(UpMessage)
      BY <1>1
    <2>2. i <= Len(up[d]) \/ up'[d][i] = m
      BY SMT, <1>3, <1>5, <2>1
    <2>3. i <= Len(up[d]) => up[d][i] = x /\ i \in 1..Len(up[d])
      BY SMT, <1>3, <1>5, <2>1
    <2> QED BY <1>3, <1>5, <2>2, <2>3 DEF OnTheWay
  <1> QED BY <1>2, <1>4, <1>5

(* What is on the way after the oldest message was taken off was on it     *)
(* before, and so was that message.                                        *)
LEMMA OnTheWayAfterReceive ==
  ASSUME TypeOK, NEW q \in Deliveries, up[q] # <<>>, up' = Receive(up, q)
  PROVE  /\ OnTheWay(q, Head(up[q]))
         /\ \A d \in Deliveries, x \in UpMessage : OnTheWay(d, x)' => OnTheWay(d, x)
  <1>1. up \in [Deliveries -> Seq(UpMessage)]
    BY DEF TypeOK, CommonTypeOK
  <1>2. OnTheWay(q, Head(up[q]))
    <2>1. up[q] \in Seq(UpMessage) /\ 1 \in 1..Len(up[q]) /\ up[q][1] = Head(up[q])
      BY SMT, <1>1
    <2> QED BY <2>1 DEF OnTheWay
  <1>3. ASSUME NEW d \in Deliveries, NEW x \in UpMessage, OnTheWay(d, x)'
        PROVE  OnTheWay(d, x)
    <2>1. PICK i \in 1..Len(up'[d]) : up'[d][i] = x
      BY <1>3 DEF OnTheWay
    <2>2. CASE d # q
      <3>1. up'[d] = up[d]
        BY <1>1, <2>2 DEF Receive
      <3> QED BY <2>1, <3>1 DEF OnTheWay
    <2>3. CASE d = q
      <3>1. up[q] \in Seq(UpMessage) /\ up'[q] = Tail(up[q])
        BY <1>1 DEF Receive
      <3>2. i + 1 \in 1..Len(up[q]) /\ up[q][i + 1] = x
        BY SMT, <2>1, <2>3, <3>1
      <3> QED BY <2>3, <3>2 DEF OnTheWay
    <2> QED BY <2>2, <2>3
  <1> QED BY <1>2, <1>3

RunInv == SlotInv /\ EndOfRun

(* A step of the caller.                                                   *)
LEMMA CallerKeepsEndOfRun ==
  ASSUME TypeOK, EndOfRun, CallerStep, UNCHANGED <<cls, runtimeVars>>
  PROVE  EndOfRun'
  <1>t. /\ rados \in [Deliveries -> {"none", "sent"} \cup Replies]
        /\ delivery \in [Calls -> 0..Resends]
        /\ caller \in [Calls -> {"idle", "waitCeph", "awaitResult", "callLocally"}
                                 \cup Ended]
    BY DEF TypeOK, CommonTypeOK, CallerTypeOK
  <1> USE <1>t DEF commonVars, callerVars, Goto, Current
  <1>1. PICK b \in Calls :
          \/ RunWithoutNdp(b) \/ Offload(b) \/ Redeliver(b) \/ OnResponse(b)
          \/ AwaitResult(b) \/ AwaitTimeout(b) \/ CallLocally(b) \/ CallerGoesOn(b)
    BY DEF CallerStep
  <1>2. up' = up /\ exec' = exec /\ verdict' = verdict /\ cls' = cls
    BY <1>1 DEF RunWithoutNdp, Offload, Redeliver, OnResponse, AwaitResult, AwaitTimeout,
                CallLocally, CallerGoesOn, runtimeVars, endpointVars, execVars
  <1>3. \/ rados' = rados /\ delivery' = delivery
        \/ /\ \E k \in 0..Resends : rados' = [rados EXCEPT ![<<b, k>>] = "sent"]
           /\ caller'[b] = "waitCeph"
           /\ \A c \in Calls : c # b => delivery'[c] = delivery[c]
    <2>1. CASE Offload(b)
      <3>1. delivery[b] \in 0..Resends /\ delivery' = delivery
        BY <2>1 DEF Offload
      <3>2. CASE rados' = rados BY <3>1, <3>2
      <3>3. CASE rados' # rados
        <4>1. /\ rados' = [rados EXCEPT ![<<b, delivery[b]>>] = "sent"]
              /\ caller' = [caller EXCEPT ![b] = "waitCeph"]
          BY <2>1, <3>3 DEF Offload
        <4> QED BY <3>1, <4>1
      <3> QED BY <3>2, <3>3
    <2>2. CASE Redeliver(b)
      <3>1. /\ delivery[b] + 1 \in 0..Resends
            /\ delivery' = [delivery EXCEPT ![b] = delivery[b] + 1]
            /\ rados' = [rados EXCEPT ![<<b, delivery[b] + 1>>] = "sent"]
            /\ caller'[b] = "waitCeph"
        BY SMT, <2>2, BoundsAreNat DEF Redeliver
      <3> QED BY <3>1
    <2>3. CASE ~Offload(b) /\ ~Redeliver(b)
      BY <1>1, <2>3 DEF RunWithoutNdp, OnResponse, AwaitResult, AwaitTimeout,
                        CallLocally, CallerGoesOn
    <2> QED BY <2>1, <2>2, <2>3
  <1>4. \A c \in Calls : caller'[c] = "awaitResult" =>
          caller[c] = "awaitResult" \/ (c = b /\ rados[Current(b)] = "Ok")
    BY <1>1 DEF RunWithoutNdp, Offload, Redeliver, OnResponse, AwaitResult, AwaitTimeout,
                CallLocally, CallerGoesOn
  <1>5. \A d \in Deliveries : rados'[d] = "Ok" => rados[d] = "Ok"
    BY <1>3
  <1>6. \A c \in Calls : caller'[c] = "awaitResult" => rados'[Current(c)'] = "Ok"
    <2> SUFFICES ASSUME NEW c \in Calls, caller'[c] = "awaitResult"
                 PROVE  rados'[Current(c)'] = "Ok"
      OBVIOUS
    <2>1. rados[Current(c)] = "Ok"
      BY <1>4 DEF EndOfRun, EndOfDelivery
    <2>2. CASE rados' = rados /\ delivery' = delivery
      BY <2>1, <2>2
    <2>3. CASE c # b /\ delivery'[c] = delivery[c]
               /\ \E k \in 0..Resends : rados' = [rados EXCEPT ![<<b, k>>] = "sent"]
      BY SMT, <2>1, <2>3
    <2> QED BY <1>3, <2>2, <2>3
  <1>7. \A d \in Deliveries, x \in {"Ok", "NdpEnd"} : OnTheWay(d, x)' <=> OnTheWay(d, x)
    BY <1>2 DEF OnTheWay
  <1> QED BY <1>2, <1>5, <1>6, <1>7 DEF EndOfRun, EndOfDelivery

(* A step of the Ceph class: what it replies is what it read.              *)
LEMMA ClassKeepsEndOfRun ==
  ASSUME TypeOK, EndOfRun, ClassStep, UNCHANGED <<callerVars, runtimeVars>>
  PROVE  EndOfRun'
  <1>t. /\ rados \in [Deliveries -> {"none", "sent"} \cup Replies]
        /\ delivery \in [Calls -> 0..Resends]
        /\ cls \in [Deliveries -> {"none", "first", "loop", "done"}]
    BY DEF TypeOK, CommonTypeOK, CallerTypeOK, ClassTypeOK
  <1> USE <1>t
  <1>1. PICK q \in Deliveries :
          \/ Forward(q) \/ FirstTimeout(q) \/ FirstReceive(q)
          \/ LoopTimeout(q) \/ ServeStorage(q) \/ ServeEnd(q)
    BY DEF ClassStep
  <1>2. exec' = exec /\ verdict' = verdict /\ caller' = caller /\ delivery' = delivery
    BY DEF callerVars, runtimeVars, endpointVars, execVars
  <1>3. up' = up \/ (up[q] # <<>> /\ up' = Receive(up, q))
    BY <1>1 DEF Forward, FirstTimeout, FirstReceive, LoopTimeout, ServeStorage, ServeEnd
  <1>4. \A d \in Deliveries, x \in {"Ok", "NdpEnd"} : OnTheWay(d, x)' => OnTheWay(d, x)
    <2>1. CASE up' = up BY <2>1 DEF OnTheWay
    <2>2. {"Ok", "NdpEnd"} \subseteq UpMessage
      BY DEF UpMessage, NdpResult, StorageMessage
    <2>3. CASE up[q] # <<>> /\ up' = Receive(up, q)
      BY <2>2, <2>3, OnTheWayAfterReceive
    <2> QED BY <1>3, <2>1, <2>3
  <1>5. up[q] # <<>> /\ up' = Receive(up, q) => OnTheWay(q, Head(up[q]))
    BY OnTheWayAfterReceive
  <1>6. cls[q] # "done"
    BY <1>1 DEF Forward, FirstTimeout, FirstReceive, LoopTimeout, ServeStorage, ServeEnd
  <1>7. \A d \in Deliveries : d # q => cls'[d] = cls[d] /\ rados'[d] = rados[d]
    BY <1>1 DEF Forward, FirstTimeout, FirstReceive, LoopTimeout, ServeStorage, ServeEnd,
                ReplyWith
  <1>8. cls'[q] = "loop" => verdict[q] = "Ok"
    <2>1. CASE FirstReceive(q)
      <3>1. CASE Head(up[q]) = "Ok"
        BY <1>2, <1>5, <2>1, <3>1 DEF FirstReceive, EndOfRun, EndOfDelivery
      <3>2. CASE Head(up[q]) # "Ok"
        BY <2>1, <3>2 DEF FirstReceive, ReadAsResponse, ReplyWith
      <3> QED BY <3>1, <3>2
    <2>2. CASE ~FirstReceive(q)
      BY <1>1, <2>2 DEF Forward, FirstTimeout, LoopTimeout, ServeStorage, ServeEnd,
                        ReplyWith, EndOfRun, EndOfDelivery
    <2> QED BY <2>1, <2>2
  <1>9. rados'[q] = "Ok" => cls'[q] = "done" /\ exec[q] = "finished"
    <2>1. rados[q] # "Ok"
      BY <1>6 DEF EndOfRun, EndOfDelivery
    <2>2. CASE ServeEnd(q)
      <3>1. OnTheWay(q, "NdpEnd") /\ verdict[q] = "Ok"
        BY <1>5, <2>2 DEF ServeEnd, EndOfRun, EndOfDelivery
      <3> QED BY <2>2, <3>1 DEF ServeEnd, ReplyWith, EndOfRun, EndOfDelivery
    <2>3. CASE ~ServeEnd(q)
      BY <1>1, <2>1, <2>3 DEF Forward, FirstTimeout, FirstReceive, LoopTimeout,
                              ServeStorage, ReplyWith
    <2> QED BY <2>2, <2>3
  <1>10. \A c \in Calls : caller'[c] = "awaitResult" => rados'[Current(c)'] = "Ok"
    <2> SUFFICES ASSUME NEW c \in Calls, caller[c] = "awaitResult"
                 PROVE  rados'[Current(c)] = "Ok"
      BY <1>2 DEF Current
    <2>1. rados[Current(c)] = "Ok" /\ Current(c) \in Deliveries
      BY DEF EndOfRun, EndOfDelivery, Current, Deliveries, CallerTypeOK
    <2>2. Current(c) # q
      BY <1>6, <2>1 DEF EndOfRun, EndOfDelivery
    <2> QED BY <1>7, <2>1, <2>2
  <1> QED BY <1>2, <1>4, <1>7, <1>8, <1>9, <1>10 DEF EndOfRun, EndOfDelivery

(* A handler of the endpoint: Ok is sent for scheduled functions only, and *)
(* the NdpEnd of a failed scheduling attempt belongs to an error.          *)
LEMMA EndpointKeepsEndOfRun ==
  ASSUME TypeOK, Admission, EndOfRun, UNCHANGED <<callerVars, cls>>,
         NEW q \in Deliveries, EndpointAction(q)
  PROVE  EndOfRun'
  <1>t. /\ verdict \in [Deliveries -> {"none", "ProcessLocallyNoSlot"} \cup NdpResult]
        /\ exec \in [Deliveries -> ExecState]
    BY DEF TypeOK, RuntimeTypeOK
  <1> USE <1>t DEF commonVars, execVars
  <1>1. rados' = rados /\ cls' = cls /\ caller' = caller /\ delivery' = delivery
    BY DEF callerVars, EndpointAction, OnAcceptable, OnFirstReceivable, Respond,
           OnReceivable, OnReceiveError
  <1>2. \A c \in Calls : caller'[c] = "awaitResult" => rados'[Current(c)'] = "Ok"
    BY <1>1 DEF EndOfRun, EndOfDelivery, Current
  <1>3. CASE OnFirstReceivable(q)
    <2>1. verdict[q] = "none" /\ exec[q] = "none"
      BY <1>3 DEF OnFirstReceivable, Admission
    <2>2. ~OnTheWay(q, "Ok") /\ ~OnTheWay(q, "NdpEnd") /\ cls[q] # "loop" /\ rados[q] # "Ok"
      BY <2>1 DEF EndOfRun, EndOfDelivery
    <2>3. \/ /\ up' = up
             /\ verdict' = [verdict EXCEPT ![q] = "Ok"]
             /\ exec' = [exec EXCEPT ![q] = "queued"]
          \/ /\ exec' = exec
             /\ up' = up \/ up' = Send(up, q, "NdpEnd")
             /\ \E v \in {"ProcessLocallyNoSlot", "ProcessLocally", "Error"} :
                   verdict' = [verdict EXCEPT ![q] = v]
      BY <1>3 DEF OnFirstReceivable, Refuse, Schedule
    <2>4. \A d \in Deliveries, x \in {"Ok", "NdpEnd"} :
            OnTheWay(d, x)' => OnTheWay(d, x) \/ (d = q /\ x = "NdpEnd" /\ exec' = exec)
      <3>1. CASE up' = up BY <3>1 DEF OnTheWay
      <3>2. "NdpEnd" \in UpMessage BY DEF UpMessage, StorageMessage
      <3>3. CASE up' # up
        <4>1. up' = Send(up, q, "NdpEnd") /\ exec' = exec
          BY <2>3, <3>3
        <4> QED BY <3>2, <4>1, OnTheWayAfterSend
      <3> QED BY <3>1, <3>3
    <2>5. \A d \in Deliveries : d # q => verdict'[d] = verdict[d] /\ exec'[d] = exec[d]
      BY <2>3
    <2>6. verdict'[q] # "none" /\ (exec' = exec => verdict'[q] # "Ok")
      BY <2>1, <2>3
    <2>7. ASSUME NEW d \in Deliveries
          PROVE  EndOfDelivery(d)'
      <3>1. CASE d = q
        BY <1>1, <2>2, <2>4, <2>6, <3>1 DEF EndOfDelivery
      <3>2. CASE d # q
        BY <1>1, <2>4, <2>5, <3>2 DEF EndOfRun, EndOfDelivery
      <3> QED BY <3>1, <3>2
    <2> QED BY <1>2, <2>7 DEF EndOfRun
  <1>4. CASE ~OnFirstReceivable(q)
    <2>1. verdict' = verdict /\ exec' = exec
      BY <1>4 DEF EndpointAction, OnAcceptable, Respond, OnReceivable, OnReceiveError
    <2>2. \A d \in Deliveries, x \in {"Ok", "NdpEnd"} :
            OnTheWay(d, x)' => OnTheWay(d, x) \/ (x = "Ok" /\ verdict[d] = "Ok")
      <3>1. CASE up' = up BY <3>1 DEF OnTheWay
      <3>2. CASE up' # up
        <4>1. Respond(q) /\ conn[q] = "responding"
          BY <1>4, <3>2 DEF EndpointAction, OnAcceptable, OnReceivable, OnReceiveError, Respond
        <4>2. PICK m \in NdpResult : up' = Send(up, q, m) /\ (m = "Ok" => verdict[q] = "Ok")
          BY <3>2, <4>1 DEF Respond, Admission, NdpResult
        <4>3. m \in UpMessage /\ m # "NdpEnd"
          BY <4>2 DEF UpMessage, NdpResult
        <4> QED BY <4>2, <4>3, OnTheWayAfterSend
      <3> QED BY <3>1, <3>2
    <2> QED BY <1>1, <1>2, <2>1, <2>2 DEF EndOfRun, EndOfDelivery
  <1> QED BY <1>3, <1>4

(* A step of an executor: NdpEnd is sent by a finished one.                *)
LEMMA ExecutorKeepsEndOfRun ==
  ASSUME TypeOK, Admission, EndOfRun, UNCHANGED <<callerVars, cls>>,
         NEW q \in Deliveries, ExecutorAction(q)
  PROVE  EndOfRun'
  <1>t. /\ exec \in [Deliveries -> ExecState]
        /\ socketMap \in [Calls -> Deliveries \cup {None}]
    BY DEF TypeOK, RuntimeTypeOK
  <1> USE <1>t DEF commonVars, endpointVars
  <1>1. rados' = rados /\ cls' = cls /\ caller' = caller /\ delivery' = delivery
        /\ verdict' = verdict
    BY DEF callerVars, ExecutorAction, StartExecutor, RequestNdpDelta, StorageRequest,
           AwaitNdpResponse, TakeResponse, FunctionReturns, SendDirectResult,
           CloseCephSocket
  <1>2. \A c \in Calls : caller'[c] = "awaitResult" => rados'[Current(c)'] = "Ok"
    BY <1>1 DEF EndOfRun, EndOfDelivery, Current
  <1>3. \A d \in Deliveries : exec[d] = "finished" => exec'[d] = "finished"
    BY DEF ExecutorAction, StartExecutor, RequestNdpDelta, StorageRequest,
           AwaitNdpResponse, TakeResponse, FunctionReturns, SendDirectResult,
           CloseCephSocket, FinishTask
  <1>4. \A d \in Deliveries, x \in {"Ok", "NdpEnd"} :
          OnTheWay(d, x)' => OnTheWay(d, x) \/ (x = "NdpEnd" /\ exec[d] = "finished")
    <2>1. CASE up' = up BY <2>1 DEF OnTheWay
    <2>2. CASE CloseCephSocket(q) /\ up' # up
      <3>1. up' = Send(up, q, "NdpEnd") /\ exec[q] = "finished"
        BY <2>2 DEF CloseCephSocket
      <3>2. "NdpEnd" \in UpMessage BY DEF UpMessage, StorageMessage
      <3> QED BY <3>1, <3>2, OnTheWayAfterSend
    <2>3. CASE ~CloseCephSocket(q) /\ up' # up
      <3>1. PICK m \in {"NdpRead", "NdpWrite"} : StorageRequest(q, m)
        BY <2>3 DEF ExecutorAction, StartExecutor, RequestNdpDelta, AwaitNdpResponse,
                    TakeResponse, FunctionReturns, SendDirectResult
      <3>2. CallOf(q) \in Calls
        BY DEF CallOf, Deliveries
      <3>3. /\ socketMap[CallOf(q)] \in Deliveries
            /\ up' = Send(up, socketMap[CallOf(q)], m)
        BY <2>3, <3>1, <3>2 DEF StorageRequest
      <3>4. m \in UpMessage /\ m \notin {"Ok", "NdpEnd"}
        BY DEF UpMessage, StorageMessage
      <3> QED BY <3>3, <3>4, OnTheWayAfterSend
    <2> QED BY <2>1, <2>2, <2>3
  <1>5. ASSUME NEW d \in Deliveries
        PROVE  EndOfDelivery(d)'
    <2>1. EndOfDelivery(d) /\ (exec[d] = "finished" => verdict[d] = "Ok")
      BY DEF EndOfRun, Admission
    <2> QED BY <1>1, <1>3, <1>4, <2>1 DEF EndOfDelivery
  <1> QED BY <1>2, <1>5 DEF EndOfRun

(* The whole of a step keeps EndOfRun.                                     *)
LEMMA RunInvInductive == RunInv /\ [Next]_vars => RunInv'
  <1> SUFFICES ASSUME RunInv, [Next]_vars PROVE EndOfRun'
    BY SlotInvInductive DEF RunInv
  <1> USE DEF RunInv, SlotInv
  <1>1. CASE CallerStep /\ UNCHANGED <<cls, runtimeVars>>
    BY <1>1, CallerKeepsEndOfRun
  <1>2. CASE ClassStep /\ UNCHANGED <<callerVars, runtimeVars>>
    BY <1>2, ClassKeepsEndOfRun
  <1>3. CASE LoadChanges /\ UNCHANGED <<callerVars, cls>>
    BY SMT, <1>3 DEF LoadChanges, commonVars, endpointVars, execVars, callerVars, EndOfRun,
                EndOfDelivery, OnTheWay, Current
  <1>4. CASE RuntimeStep /\ UNCHANGED <<callerVars, cls>>
    BY <1>3, <1>4, RuntimeStepCases, EndpointKeepsEndOfRun, ExecutorKeepsEndOfRun
  <1>5. CASE UNCHANGED vars
    BY SMT, <1>5 DEF vars, commonVars, runtimeVars, endpointVars, execVars, callerVars, EndOfRun,
                     EndOfDelivery, OnTheWay, Current
  <1> QED BY <1>1, <1>2, <1>4, <1>5 DEF Next

(* Nothing is on its way in the initial state.                             *)
LEMMA RunInvInitial == Init => RunInv
  <1>1. Init => EndOfRun
    BY SMT DEF Init, CommonInit, CallerInit, ClassInit, RuntimeInit, EndOfRun, EndOfDelivery, OnTheWay
  <1> QED BY <1>1, SlotInvInitial DEF RunInv

(* A caller that waits for a direct result was told Ok by the class, and   *)
(* the class says Ok only after the function has run to its end: for any   *)
(* number of calls, redeliveries, slots and storage operations, with       *)
(* timeouts, refusals and failed scheduling.                               *)
THEOREM OkOnlyAfterRemoteRunHolds == Safety => []OkOnlyAfterRemoteRun
  <1>1. RunInv => OkOnlyAfterRemoteRun
    <2> SUFFICES ASSUME RunInv, NEW c \in Calls, caller[c] = "awaitResult"
                 PROVE  exec[Current(c)] = "finished"
      BY DEF OkOnlyAfterRemoteRun
    <2>1. Current(c) \in Deliveries
      BY DEF RunInv, SlotInv, TypeOK, CallerTypeOK, Current, Deliveries
    <2> QED BY <2>1 DEF RunInv, EndOfRun, EndOfDelivery
  <1> QED BY <1>1, RunInvInitial, RunInvInductive, PTL DEF Safety

(***************************************************************************)
(* The delta a caller restores was computed on its memory at the call      *)
(***************************************************************************)
Waiting == {"idle", "waitCeph", "awaitResult"}

(* Only a call that is over changes its memory.                            *)
LEMMA CallerKeepsCallMemory ==
  ASSUME TypeOK, CallMemory, CallerStep, UNCHANGED <<cls, runtimeVars>>
  PROVE  CallMemory'
  <1>t. /\ caller \in [Calls -> {"idle", "waitCeph", "awaitResult", "callLocally"}
                                 \cup Ended]
        /\ mem \in [Calls -> Memory]
    BY DEF TypeOK, CommonTypeOK, CallerTypeOK
  <1> USE <1>t DEF commonVars, callerVars, Goto, Ended, Waiting
  <1>1. PICK b \in Calls :
          \/ RunWithoutNdp(b) \/ Offload(b) \/ Redeliver(b) \/ OnResponse(b)
          \/ AwaitResult(b) \/ AwaitTimeout(b) \/ CallLocally(b) \/ CallerGoesOn(b)
    BY DEF CallerStep
  <1>2. base' = base /\ result' = result
    BY <1>1 DEF RunWithoutNdp, Offload, Redeliver, OnResponse, AwaitResult, AwaitTimeout,
                CallLocally, CallerGoesOn, runtimeVars, execVars
  <1>3. \A c \in Calls : caller'[c] \in Waiting => caller[c] \in Waiting /\ mem'[c] = mem[c]
    <2>1. CASE AwaitResult(b) BY <2>1 DEF AwaitResult
    <2>2. CASE CallLocally(b) BY <2>2 DEF CallLocally
    <2>3. CASE CallerGoesOn(b) BY <2>3 DEF CallerGoesOn
    <2>4. CASE Offload(b) \/ Redeliver(b) BY <2>4 DEF Offload, Redeliver
    <2>5. CASE RunWithoutNdp(b) \/ OnResponse(b) \/ AwaitTimeout(b)
      BY <2>5 DEF RunWithoutNdp, OnResponse, AwaitTimeout
    <2> QED BY <1>1, <2>1, <2>2, <2>3, <2>4, <2>5
  <1> QED BY <1>2, <1>3 DEF CallMemory

(* An executor copies the caller's memory and passes on what it copied.    *)
LEMMA ExecutorKeepsCallMemory ==
  ASSUME TypeOK, CallMemory, UNCHANGED <<callerVars, cls>>,
         NEW d \in Deliveries, ExecutorAction(d)
  PROVE  CallMemory'
  <1>1. PICK c \in Calls, k \in 0..Resends : d = <<c, k>> /\ CallOf(d) = c
    <2>1. PICK c \in Calls, k \in 0..Resends : d = <<c, k>>
      BY SMT DEF Deliveries
    <2>2. CallOf(d) = c
      BY <2>1 DEF CallOf
    <2> QED BY <2>1, <2>2
  <1>t. base \in [Deliveries -> Memory] /\ result \in [Calls -> [full : BOOLEAN, ret : {0, 1}, base : Memory]]
    BY DEF TypeOK, CommonTypeOK, RuntimeTypeOK
  <1>2. caller' = caller /\ mem' = mem
    BY DEF commonVars, callerVars, ExecutorAction, StartExecutor, RequestNdpDelta, StorageRequest,
           AwaitNdpResponse, TakeResponse, FunctionReturns, SendDirectResult,
           CloseCephSocket
  <1>3. CASE RequestNdpDelta(d)
    <2>1. result' = result /\ (base' = base \/ base' = [base EXCEPT ![d] = mem[c]])
      BY <1>1, <1>3 DEF RequestNdpDelta, commonVars
    <2>2. \A b \in Calls, j \in 0..Resends :
            base'[<<b, j>>] = base[<<b, j>>] \/ (b = c /\ base'[<<b, j>>] = mem[b])
      <3> SUFFICES ASSUME NEW b \in Calls, NEW j \in 0..Resends
                   PROVE  \/ base'[<<b, j>>] = base[<<b, j>>]
                          \/ b = c /\ base'[<<b, j>>] = mem[b]
        OBVIOUS
      <3>1. <<b, j>> \in Deliveries
        BY DEF Deliveries
      <3>2. CASE <<b, j>> = d
        <4>1. b = c
          BY SMT, <1>1, <3>2
        <4> QED BY <1>t, <2>1, <3>1, <3>2, <4>1
      <3>3. CASE <<b, j>> # d
        BY <1>t, <2>1, <3>1, <3>3
      <3> QED BY <3>2, <3>3
    <2>3. ASSUME NEW b \in Calls, caller[b] \in Waiting
          PROVE  \A j \in 0..Resends : base'[<<b, j>>] = "atCall"
      <3>1. mem[b] = "atCall" /\ \A j \in 0..Resends : base[<<b, j>>] = "atCall"
        BY <2>3 DEF CallMemory, Waiting
      <3> QED BY <2>2, <3>1
    <2> QED BY <1>2, <2>1, <2>3 DEF CallMemory, Waiting
  <1>4. CASE SendDirectResult(d)
    <2>1. base' = base
      BY <1>4 DEF SendDirectResult
    <2>2. \A b \in Calls : \/ result'[b] = result[b]
                           \/ b = c /\ result'[b].base = base[<<c, k>>]
      <3> DEFINE r == [full |-> TRUE, ret |-> outcome[d], base |-> base[d]]
      <3>1. result' = [result EXCEPT ![c] = IF result[c].full THEN result[c] ELSE r]
        BY <1>1, <1>4 DEF SendDirectResult
      <3>2. r.base = base[<<c, k>>]
        BY <1>1
      <3>3. \A b \in Calls : result'[b] = result[b] \/ (b = c /\ result'[b] = r)
        <4> HIDE DEF r
        <4> QED BY <1>t, <3>1
      <3> QED BY <3>2, <3>3
    <2>3. ASSUME NEW b \in Calls, caller[b] \in Waiting
          PROVE  result'[b].base = "atCall"
      <3>1. /\ result[b].base = "atCall"
            /\ \A j \in 0..Resends : base[<<b, j>>] = "atCall"
        BY <2>3 DEF CallMemory, Waiting
      <3>2. CASE b = c
        <4>1. base[<<c, k>>] = "atCall"
          BY <3>1, <3>2
        <4> QED BY <2>2, <3>1, <4>1
      <3>3. CASE b # c
        BY <2>2, <3>1, <3>3
      <3> QED BY <3>2, <3>3
    <2> QED BY <1>2, <2>1, <2>3 DEF CallMemory, Waiting
  <1>5. CASE ~RequestNdpDelta(d) /\ ~SendDirectResult(d)
    <2>1. base' = base /\ result' = result
      BY <1>5 DEF commonVars, ExecutorAction, StartExecutor, StorageRequest, AwaitNdpResponse,
                  TakeResponse, FunctionReturns, CloseCephSocket
    <2> QED BY <1>2, <2>1 DEF CallMemory
  <1> QED BY <1>3, <1>4, <1>5

MemoryInv == SlotInv /\ CallMemory

(* The whole of a step keeps CallMemory.                                   *)
LEMMA MemoryInvInductive == MemoryInv /\ [Next]_vars => MemoryInv'
  <1> SUFFICES ASSUME MemoryInv, [Next]_vars PROVE CallMemory'
    BY SlotInvInductive DEF MemoryInv
  <1> USE DEF MemoryInv, SlotInv
  <1>1. CASE CallerStep /\ UNCHANGED <<cls, runtimeVars>>
    BY <1>1, CallerKeepsCallMemory
  <1>2. ASSUME UNCHANGED <<caller, mem, result, base>> PROVE CallMemory'
    BY <1>2 DEF CallMemory
  <1>3. CASE ClassStep /\ UNCHANGED <<callerVars, runtimeVars>>
    <2>1. UNCHANGED <<caller, mem, result, base>>
      BY <1>3 DEF ClassStep, Forward, FirstTimeout, FirstReceive, LoopTimeout, ServeStorage,
                  ServeEnd, callerVars, runtimeVars, execVars
    <2> QED BY <1>2, <2>1
  <1>4. CASE RuntimeStep /\ UNCHANGED <<callerVars, cls>>
    <2>1. ASSUME NEW d \in Deliveries, EndpointAction(d) PROVE CallMemory'
      <3>1. UNCHANGED <<caller, mem, result, base>>
        BY <1>4, <2>1 DEF EndpointAction, OnAcceptable, OnFirstReceivable, Respond,
                          OnReceivable, OnReceiveError, callerVars, commonVars, execVars
      <3> QED BY <1>2, <3>1
    <2>2. CASE LoadChanges
      <3>1. UNCHANGED <<caller, mem, result, base>>
        BY <1>4, <2>2 DEF LoadChanges, callerVars, commonVars, execVars
      <3> QED BY <1>2, <3>1
    <2> QED BY <1>4, <2>1, <2>2, RuntimeStepCases, ExecutorKeepsCallMemory
  <1>5. CASE UNCHANGED vars
    BY <1>2, <1>5 DEF vars, commonVars, callerVars, runtimeVars, execVars
  <1> QED BY <1>1, <1>3, <1>4, <1>5 DEF Next

(* Whatever delivery produced it, the memory delta a waiting caller finds  *)
(* in its result slot was computed on its memory as it was at the call.    *)
THEOREM DeltaBuiltOnCallMemoryHolds == Safety => []DeltaBuiltOnCallMemory
  <1>1. Init => MemoryInv
    <2>1. Init => CallMemory
      <3> SUFFICES ASSUME Init, NEW c \in Calls
                   PROVE  /\ mem[c] = "atCall" /\ result[c].base = "atCall"
                          /\ \A k \in 0..Resends : base[<<c, k>>] = "atCall"
        BY DEF CallMemory
      <3>1. mem[c] = "atCall" /\ result[c] = NoResult
        BY DEF Init, CommonInit
      <3>2. \A k \in 0..Resends : base[<<c, k>>] = "atCall"
        BY DEF Init, RuntimeInit, Deliveries
      <3>3. NoResult.base = "atCall"
        BY DEF NoResult
      <3> QED BY <3>1, <3>2, <3>3
    <2> QED BY <2>1, SlotInvInitial DEF MemoryInv
  <1>2. MemoryInv => DeltaBuiltOnCallMemory
    BY DEF MemoryInv, CallMemory, DeltaBuiltOnCallMemory
  <1> QED BY <1>1, <1>2, MemoryInvInductive, PTL DEF Safety
=============================================================================
