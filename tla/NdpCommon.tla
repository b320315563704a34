----------------------------- MODULE NdpCommon -----------------------------
(***************************************************************************)
(* What the three parties of a near-data-processing (NDP) call share: the  *)
(* rados operation that carries the call from a compute node to an OSD,    *)
(* the unix domain socket between the Ceph class running in the OSD and    *)
(* the Faasm runtime on the storage node, and the two services of the      *)
(* compute node the storage runtime calls back (the delta handlers and the *)
(* local result slots, both kept by faabric).                              *)
(*                                                                         *)
(* A call is one execution of storageCallAndAwaitImpl.  librados may       *)
(* deliver its operation again when the OSD map changes, so the unit on    *)
(* the storage side is a delivery <<call, k>>, k = 0 being the first.      *)
(***************************************************************************)
EXTENDS Naturals, Sequences, FiniteSets

CONSTANTS
    Calls,      \* the NDP calls (ndpCallId)
    Resends,    \* bound: how often librados delivers one operation again
    MaxSlots,   \* initial count of the scheduler's executionSlotsSemaphore
    MaxOps,     \* bound: storage operations one offloaded function makes
    None

Deliveries == Calls \X (0..Resends)

ASSUME CallsFinite == IsFiniteSet(Calls)
ASSUME BoundsAreNat == Resends \in Nat /\ MaxSlots \in Nat \ {0} /\ MaxOps \in Nat
ASSUME NoneIsFresh == None \notin Deliveries

(* NdpResult as it travels in an NdpResponse; "failed" stands for a rados  *)
(* operation whose class method returned an error code (-ETIMEDOUT).       *)
NdpResult == {"Ok", "ProcessLocally", "Error"}
Replies == NdpResult \cup {"failed"}

(* Messages runtime -> class: an NdpResponse (named by its result) or a    *)
(* StorageMessage; class -> runtime: object data, "ok" of a write, or the  *)
(* UINT64_MAX length of sendError.                                         *)
StorageMessage == {"NdpRead", "NdpWrite", "NdpEnd"}
UpMessage == NdpResult \cup StorageMessage
DownMessage == {"data", "ok", "err"}

(* The caller's linear memory, told apart by the moment it belongs to.     *)
Memory == {"atCall", "restored", "local", "later"}

VARIABLES
    rados,      \* rados[d]: "none", "sent" or the reply of the class method
    sock,       \* sock[d]: "none", "open" or "closed" (by the class)
    up, down,   \* the byte streams of the socket, as sequences of messages
    handlers,   \* calls with a registered NDP delta handler
    mem,        \* mem[c]: the caller module's memory
    result      \* result[c]: the local result slot of the call

commonVars == <<rados, sock, up, down, handlers, mem, result>>

NoResult == [full |-> FALSE, ret |-> 0, base |-> "atCall"]

CommonTypeOK ==
    /\ rados \in [Deliveries -> {"none", "sent"} \cup Replies]
    /\ sock \in [Deliveries -> {"none", "open", "closed"}]
    /\ up \in [Deliveries -> Seq(UpMessage)]
    /\ down \in [Deliveries -> Seq(DownMessage)]
    /\ handlers \subseteq Calls
    /\ mem \in [Calls -> Memory]
    /\ result \in [Calls -> [full : BOOLEAN, ret : {0, 1}, base : Memory]]

CommonInit ==
    /\ rados = [d \in Deliveries |-> "none"]
    /\ sock = [d \in Deliveries |-> "none"]
    /\ up = [d \in Deliveries |-> <<>>]
    /\ down = [d \in Deliveries |-> <<>>]
    /\ handlers = {}
    /\ mem = [c \in Calls |-> "atCall"]
    /\ result = [c \in Calls |-> NoResult]

(* CephFaasmSocket::sendMessage: the length and the bytes enter the stream. *)
Send(stream, d, m) == [stream EXCEPT ![d] = Append(@, m)]

(* CephFaasmSocket::recvMessageVector takes the oldest message off it.      *)
Receive(stream, d) == [stream EXCEPT ![d] = Tail(@)]
=============================================================================
