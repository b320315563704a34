------------------------------ MODULE CallHost -------------------------------
(***************************************************************************)
(* The calls a worker executes: those of a function and of the functions   *)
(* it chains (FaasletCalls) and the ranks of an MPI application (MpiHost). *)
(* What a Faaslet keeps belongs to its module and a rank's context to its  *)
(* thread: the two share no state, so each is looked at while the other is *)
(* at rest.                                                                *)
(***************************************************************************)
EXTENDS FaasletCalls, MpiHost

workerVars == <<callVars, mpiVars>>

WorkerInit == CallsInit /\ MpiInit

CallMoves(A) == MpiInit /\ A /\ UNCHANGED mpiVars

MpiMoves(A) ==
    CallsInit /\ snapshot = "none" /\ A /\ UNCHANGED callVars

WorkerSpec ==
    /\ WorkerInit
    /\ [][CallMoves(CallsNext) \/ MpiMoves(MpiNext)]_workerVars
    /\ WF_workerVars(CallMoves(CallsGoOn) \/ MpiMoves(RanksGoOn))
=============================================================================
