---------------------------- MODULE GuestThreads -----------------------------
(***************************************************************************)
(* The threads of a guest: the teams of OpenMP parallel sections, the      *)
(* shares of a worksharing loop, and pthreads.  A thread works out its     *)
(* share of a loop from its number and the size of the team alone, and a   *)
(* guest uses OpenMP or pthreads; so each of the three is looked at while  *)
(* the others are as they were at first.                                   *)
(***************************************************************************)
EXTENDS OmpTeam, OmpStaticFor, PthreadBatch

vars == <<ompVars, loopVars, pthreadVars>>

Init == TeamInit /\ LoopInit /\ PthreadInit

Next ==
    \/ LoopInit /\ PthreadInit /\ TeamNext /\ UNCHANGED <<loopVars, pthreadVars>>
    \/ TeamInit /\ PthreadInit /\ LoopNext /\ UNCHANGED <<ompVars, pthreadVars>>
    \/ TeamInit /\ LoopInit /\ PthreadNext /\ UNCHANGED <<ompVars, loopVars>>

Spec == Init /\ [][Next]_vars /\ TeamFairness /\ PthreadFairness
=============================================================================
