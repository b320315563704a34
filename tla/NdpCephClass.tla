---------------------------- MODULE NdpCephClass ----------------------------
(***************************************************************************)
(* The object class in the OSD (src/cephclass/cephclass.cpp):              *)
(* maybe_exec_wasm forwards a request to the Faasm runtime of the storage  *)
(* node, waits for its first answer, then serves the object reads and      *)
(* writes of the running function until NdpEnd, and replies to the compute *)
(* node.  Returning destroys its end of the socket.                        *)
(***************************************************************************)
EXTENDS NdpCommon

VARIABLE cls    \* cls[d]: where maybe_exec_wasm is for delivery d

ClassTypeOK == cls \in [Deliveries -> {"none", "first", "loop", "done"}]
ClassInit == cls = [d \in Deliveries |-> "none"]

(* Build the reply, close the socket, return to the OSD. *)
ReplyWith(d, r) ==
    /\ cls' = [cls EXCEPT ![d] = "done"]
    /\ rados' = [rados EXCEPT ![d] = r]
    /\ sock' = [sock EXCEPT ![d] = IF @ = "open" THEN "closed" ELSE @]

(* verifyFlatbuf<NdpResponse> on the first message, and the result it is   *)
(* taken to carry.  A StorageMessage shares the field layout (call_id, a   *)
(* byte, an offset): NdpRead has the byte of ProcessLocally and passes the *)
(* verifier for some object offsets; the other two come out as errors.     *)
ReadAsResponse(m) ==
    {r \in NdpResult : \/ r = m
                       \/ r = "ProcessLocally" /\ m = "NdpRead"
                       \/ r = "Error" /\ m \in StorageMessage}

(* Connect and forward the request; a runtime that is not listening makes  *)
(* the constructor throw and the reply an error.                           *)
Forward(d) ==
    /\ rados[d] = "sent"
    /\ cls[d] = "none"
    /\ \/ /\ cls' = [cls EXCEPT ![d] = "first"]
          /\ sock' = [sock EXCEPT ![d] = "open"]
          /\ UNCHANGED rados
       \/ ReplyWith(d, "Error")
    /\ UNCHANGED <<up, down, handlers, mem, result>>

(* pollFor(POLLIN, 5000) expired: return -ETIMEDOUT. *)
FirstTimeout(d) ==
    /\ cls[d] = "first"
    /\ up[d] = <<>>
    /\ ReplyWith(d, "failed")
    /\ UNCHANGED <<up, down, handlers, mem, result>>

(* Mutant: an Ok is passed on at once, like a refusal. *)
FirstReceive_OkIsFinal(d) ==
    /\ cls[d] = "first"
    /\ up[d] # <<>>
    /\ up' = Receive(up, d)
    /\ \E r \in ReadAsResponse(Head(up[d])) : ReplyWith(d, r)
    /\ UNCHANGED <<down, handlers, mem, result>>

(* The runtime's verdict: go on serving after Ok, forward anything else. *)
FirstReceive(d) ==
    /\ cls[d] = "first"
    /\ up[d] # <<>>
    /\ up' = Receive(up, d)
    /\ \E r \in ReadAsResponse(Head(up[d])) :
          \/ /\ r = "Ok"
             /\ cls' = [cls EXCEPT ![d] = "loop"]
             /\ UNCHANGED <<rados, sock>>
          \/ r # "Ok" /\ ReplyWith(d, r)
    /\ UNCHANGED <<down, handlers, mem, result>>

(* pollFor(POLLIN, 30000) expired while serving. *)
LoopTimeout(d) ==
    /\ cls[d] = "loop"
    /\ up[d] = <<>>
    /\ ReplyWith(d, "Error")
    /\ UNCHANGED <<up, down, handlers, mem, result>>

(* cls_cxx_read / cls_cxx_write on the object and the answer; when they    *)
(* fail, sendError and the exception that ends the operation.              *)
ServeStorage(d) ==
    /\ cls[d] = "loop"
    /\ up[d] # <<>>
    /\ Head(up[d]) \in {"NdpRead", "NdpWrite"}
    /\ up' = Receive(up, d)
    /\ \/ /\ down' = Send(down, d, IF Head(up[d]) = "NdpRead" THEN "data"
                                                             ELSE "ok")
          /\ UNCHANGED <<cls, rados, sock>>
       \/ down' = Send(down, d, "err") /\ ReplyWith(d, "Error")
    /\ UNCHANGED <<handlers, mem, result>>

(* NdpEnd: leave the loop, the result is still NdpResult_Ok. *)
ServeEnd(d) ==
    /\ cls[d] = "loop"
    /\ up[d] # <<>>
    /\ Head(up[d]) = "NdpEnd"
    /\ up' = Receive(up, d)
    /\ ReplyWith(d, "Ok")
    /\ UNCHANGED <<down, handlers, mem, result>>

(* The remaining messages of the switch are rejected by the class.  They   *)
(* cannot be there: the one NdpResponse of a connection is what took the   *)
(* class into the loop (OneResponsePerRequest in NdpOffload).              *)

ClassStep ==
    \E d \in Deliveries :
        \/ Forward(d) \/ FirstTimeout(d) \/ FirstReceive(d)
        \/ LoopTimeout(d) \/ ServeStorage(d) \/ ServeEnd(d)
=============================================================================
