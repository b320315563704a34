------------------------------ MODULE NdpCall ------------------------------
(***************************************************************************)
(* What an offloaded call promises to the function that makes it, without  *)
(* sockets, deliveries, slots or messages.  The call ends: with the effect *)
(* of one complete run of the function on the memory the caller had at the *)
(* call, made there or here, or with an error.  It does not promise that   *)
(* the function runs only once: runs on storage nodes may go on unnoticed. *)
(***************************************************************************)
CONSTANT Calls

VARIABLES
    phase,      \* phase[c]: how far the call is, as its caller sees it
    memory,     \* memory[c]: the caller's memory
    runs        \* runs[c]: return values of the complete remote runs so far

vars == <<phase, memory, runs>>

Init ==
    /\ phase = [c \in Calls |-> "idle"]
    /\ memory = [c \in Calls |-> "atCall"]
    /\ runs = [c \in Calls |-> {}]

Becomes(c, p) == phase' = [phase EXCEPT ![c] = p]

(* The caller blocks, or the call cannot even be submitted. *)
Begin(c) ==
    /\ phase[c] = "idle"
    /\ Becomes(c, "pending") \/ Becomes(c, "ended")
    /\ UNCHANGED <<memory, runs>>

(* A storage node ends a run that started from the memory of the call. *)
RunThere(c) ==
    /\ phase[c] # "idle"
    /\ \E r \in {0, 1} : runs' = [runs EXCEPT ![c] = @ \cup {r}]
    /\ UNCHANGED <<phase, memory>>

(* Success of a remote run: its changes are applied to the memory they     *)
(* were computed from.                                                     *)
ApplyRemote(c) ==
    /\ phase[c] = "pending"
    /\ memory[c] = "atCall"
    /\ 0 \in runs[c]
    /\ Becomes(c, "ended")
    /\ memory' = [memory EXCEPT ![c] = "restored"]
    /\ UNCHANGED runs

(* The caller runs the function itself. *)
RunHere(c) ==
    /\ phase[c] = "pending"
    /\ memory[c] = "atCall"
    /\ Becomes(c, "ended")
    /\ memory' = [memory EXCEPT ![c] = "local"]
    /\ UNCHANGED runs

(* An error is reported, and no remote run has touched the memory. *)
Fail(c) ==
    /\ phase[c] = "pending"
    /\ Becomes(c, "ended")
    /\ UNCHANGED <<memory, runs>>

(* The caller goes on with what it got. *)
GoOn(c) ==
    /\ phase[c] = "ended"
    /\ memory' = [memory EXCEPT ![c] = "later"]
    /\ UNCHANGED <<phase, runs>>

End(c) == ApplyRemote(c) \/ RunHere(c) \/ Fail(c)

Next == \E c \in Calls : Begin(c) \/ RunThere(c) \/ End(c) \/ GoOn(c)

Safety == Init /\ [][Next]_vars

Spec == Safety /\ \A c \in Calls : WF_vars(End(c))
=============================================================================
