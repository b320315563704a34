-------------------------------- MODULE Uffd ---------------------------------
(***************************************************************************)
(* The userfaultfd memory of a worker: the arena's set of ranges, and one  *)
(* range under the life of the memory it backs.  The two share no state:   *)
(* the arena decides which range an operation is about, and all that it    *)
(* does to the range is done under the range's own lock.  So nothing is    *)
(* lost by letting each of them move only while the other is at rest.      *)
(***************************************************************************)
EXTENDS UffdPermissions, UffdArena

vars == <<rangeVars, arenaVars>>

Init == RangeInit /\ ArenaInit

Next ==
    \/ ArenaInit /\ RangeNext /\ UNCHANGED arenaVars
    \/ RangeInit /\ ArenaNext /\ UNCHANGED rangeVars

Spec == Init /\ [][Next]_vars /\ ArenaFairness
=============================================================================
