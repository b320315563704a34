----------------------------- MODULE UffdProofs -----------------------------
(***************************************************************************)
(* Proofs about userfaultfd memory: the set of ranges of a worker          *)
(* (UffdArena), for any number of threads that map, unmap and fault, and   *)
(* one range (UffdPermissions), what of it has content, what is discarded  *)
(* and what may be accessed.                                               *)
(***************************************************************************)
EXTENDS UffdArena, UffdPermissions, WellFoundedInduction, TLAPS

(* Steps are left to Zenon unless they name SMT, which has the arithmetic. *)
USE Zenon

(***************************************************************************)
(* The ranges of a worker                                                  *)
(***************************************************************************)
(* The arena by itself.                                                    *)
ArenaSpec == ArenaInit /\ [][ArenaNext]_arenaVars

(* Threads that change the set ...                                         *)
Updating == {"insert", "unregister", "erase", "drain"}
(* ... and threads in the handler.                                         *)
Handling == {"search", "check", "populate"}

(* A range of S is at address s.                                           *)
At(s, S) == \E r \in S : place[r] = s

(* Ranges to which there are references are mapped, each somewhere else.   *)
Mapped ==
    /\ \A r \in Ranges : Referenced(r) => place[r] \in Slots
    /\ \A r, q \in Ranges : place[r] = place[q] /\ place[r] # None => r = q

(* The thread with the manager's lock works on a copy of the published     *)
(* set, and the replaced set has readers only while it waits for them.     *)
OneWriter ==
    /\ \A t \in Threads : pc[t] \in Updating <=> mx = t
    /\ \A t \in Threads : pc[t] \in {"insert", "unregister", "erase"} => newRanges[t] = ranges
    /\ \A u \in Threads : snap[u] = "old" => \E t \in Threads : pc[t] = "drain"

(* What a thread's operation holds and is about.  A search of the replaced *)
(* set is for a range that was in it, and what the handler goes on with is *)
(* the range at the address, in the published set.                         *)
Operation(t) ==
    /\ pc[t] \in {"idle", "unregister", "erase"} => holds[t] = None
    /\ pc[t] \in {"allocate", "insert"} => holds[t] \in Ranges /\ place[holds[t]] = target[t]
    /\ pc[t] = "drain" /\ holds[t] # None => holds[t] \in ranges /\ place[holds[t]] = target[t]
    /\ pc[t] \in {"unregister", "erase"} => target[t] \notin live /\ At(target[t], ranges)
    /\ pc[t] \in Handling => target[t] \in live
    /\ snap[t] # "none" => pc[t] \in {"modify", "search"}
    /\ pc[t] = "search" /\ snap[t] = "old" => At(target[t], oldRanges)
    /\ pc[t] \in {"check", "populate"} => place[holds[t]] = target[t] /\ holds[t] \in ranges

(* The inductive invariant. HandlerFindsOwner follows from what is said of *)
(* every operation; it is kept because the replaced set, which a handler   *)
(* may still search, had the range of every address in use.                *)
ArenaInv ==
    /\ ArenaTypeOK /\ Mapped /\ OneWriter
    /\ \A t \in Threads : Operation(t)
    /\ \A s \in live : At(s, ranges)

(* Every set of numbers has a least one, if any.                           *)
LEMMA NatHasMin ==
    ASSUME NEW S \in SUBSET Nat, S # {}
    PROVE  \E x \in S : \A y \in S : x <= y
<1>1. \E x \in S : \A y \in S : ~(<<y, x>> \in OpToRel(<, Nat))
  BY NatLessThanWellFounded, WFMin, Zenon
<1>2. PICK x \in S : \A y \in S : ~(<<y, x>> \in OpToRel(<, Nat))
  BY <1>1
<1>3. \A y \in S : ~(y < x)
  BY <1>2 DEF OpToRel
<1> QED BY SMT, <1>3

(* The search returns a range of the set, and that at the address if there *)
(* is one.                                                                 *)
LEMMA FindIsMember ==
    ASSUME NEW S, \A r \in S : place[r] \in Slots, NEW s \in Slots
    PROVE  /\ Find(S, s) = None \/ Find(S, s) \in S
           /\ At(s, S) => Find(S, s) \in S /\ place[Find(S, s)] = s
<1> DEFINE above == {r \in S : place[r] >= s}
           Least(r) == \A q \in above : place[r] <= place[q]
<1>1. CASE above = {}
  <2>1. ~At(s, S)
    BY SMT, <1>1 DEF At, Slots
  <2> QED BY <1>1, <2>1 DEF Find
<1>2. CASE above # {}
  <2>1. \E r \in above : Least(r)
    <3> DEFINE P == {place[r] : r \in above}
    <3>1. P \in SUBSET Nat /\ P # {}
      BY SMT, <1>2 DEF Slots
    <3> HIDE DEF P
    <3>2. PICK x \in P : \A y \in P : x <= y
      BY <3>1, NatHasMin
    <3> USE DEF P
    <3>3. PICK r \in above : place[r] = x
      BY <3>2
    <3>4. \A q \in above : place[r] <= place[q]
      BY <3>2, <3>3
    <3> QED BY <3>4
  <2>2. Find(S, s) \in above /\ Least(Find(S, s))
    <3>1. Find(S, s) = CHOOSE r \in above : Least(r)
      BY <1>2 DEF Find
    <3> HIDE DEF above, Least
    <3> QED BY <2>1, <3>1
  <2>3. ASSUME At(s, S) PROVE place[Find(S, s)] = s
    <3>1. PICK r \in S : place[r] = s
      BY <2>3 DEF At
    <3>2. r \in above
      BY SMT, <3>1 DEF Slots
    <3>3. place[Find(S, s)] <= s /\ place[Find(S, s)] >= s
      BY <2>2, <3>1, <3>2
    <3>4. place[Find(S, s)] \in Int /\ s \in Int
      BY SMT, <2>2 DEF Slots
    <3> QED BY SMT, <3>3, <3>4
  <2> QED BY <2>2, <2>3
<1> QED BY <1>1, <1>2

(* The ranges of a set to which there are references.                      *)
LEMMA SetsAreMapped ==
    ASSUME ArenaTypeOK, Mapped
    PROVE  /\ \A r \in ranges \cup oldRanges : place[r] \in Slots
           /\ \A t \in Threads : \A r \in newRanges[t] : place[r] \in Slots
           /\ \A t \in Threads : holds[t] # None => place[holds[t]] \in Slots
<1>1. \A r \in ranges \cup oldRanges : r \in Ranges /\ Referenced(r)
  BY DEF ArenaTypeOK, Referenced
<1>2. \A t \in Threads : \A r \in newRanges[t] : r \in Ranges /\ Referenced(r)
  BY DEF ArenaTypeOK, Referenced
<1>3. \A t \in Threads : holds[t] # None => holds[t] \in Ranges /\ Referenced(holds[t])
  BY DEF ArenaTypeOK, Referenced
<1> QED BY <1>1, <1>2, <1>3 DEF Mapped

(* Thread t alone moves, outside of updates.                               *)
Others(t) ==
    \A u \in Threads \ {t} :
        pc'[u] = pc[u] /\ target'[u] = target[u] /\ holds'[u] = holds[u] /\ newRanges'[u] = newRanges[u]

(* Such a step of a reader keeps the invariant if what it takes is mapped. *)
LEMMA LocalKeeps ==
    ASSUME ArenaInv, ArenaTypeOK', NEW t \in Threads, Others(t),
           \A u \in Threads \ {t} : snap'[u] = snap[u],
           UNCHANGED <<newRanges, mx, ranges, oldRanges, place, live>>,
           pc[t] \notin Updating, pc'[t] \notin Updating \cup {"idle", "allocate"}, snap'[t] # "old",
           snap'[t] # "none" => pc'[t] \in {"modify", "search"},
           holds'[t] # None => place[holds'[t]] \in Slots,
           pc'[t] \in Handling => target'[t] \in live,
           pc'[t] \in {"check", "populate"} => place[holds'[t]] = target'[t] /\ holds'[t] \in ranges
    PROVE  ArenaInv'
<1>1. Mapped'
  <2> SUFFICES ASSUME NEW r \in Ranges, Referenced(r)' PROVE place[r] \in Slots
    BY DEF ArenaInv, Mapped
  <2>1. CASE r = holds'[t]
    BY <2>1, NoneIsFresh
  <2>2. CASE r # holds'[t]
    BY <2>2 DEF Referenced, Others, ArenaInv, Mapped
  <2> QED BY <2>1, <2>2
<1>2. OneWriter'
  BY SMT DEF ArenaInv, OneWriter, Others, Updating
<1>3. ASSUME NEW u \in Threads PROVE Operation(u)'
  <2>1. CASE u = t
    BY <2>1 DEF Operation, Updating
  <2>2. CASE u # t
    <3>1. Operation(u)
      BY DEF ArenaInv
    <3>2. pc'[u] = pc[u] /\ target'[u] = target[u] /\ holds'[u] = holds[u] /\ snap'[u] = snap[u]
      BY <2>2 DEF Others
    <3>3. (At(target[u], ranges) => At(target[u], ranges)') /\ (At(target[u], oldRanges) => At(target[u], oldRanges)')
      BY <3>2 DEF At
    <3> QED BY <3>1, <3>2, <3>3 DEF Operation
  <2> QED BY <2>1, <2>2
<1>4. \A s \in live' : At(s, ranges)'
  BY DEF ArenaInv, At
<1> QED BY <1>1, <1>2, <1>3, <1>4 DEF ArenaInv

(* The last references to some ranges go: the rest stays mapped where it   *)
(* is.                                                                     *)
LEMMA DropsKeep ==
    ASSUME ArenaInv, DropReferences, \A r \in Ranges : Referenced(r)' => Referenced(r)
    PROVE  /\ place' \in [Ranges -> Slots \cup {None}] /\ cache' \in [Threads -> Ranges \cup {None}]
           /\ Mapped'
           /\ \A r \in Ranges : Referenced(r)' => place'[r] = place[r]
<1> DEFINE kept == {r \in Ranges : Referenced(r)'}
<1>1. /\ place' = [r \in Ranges |-> IF r \in kept THEN place[r] ELSE None]
      /\ cache' = [t \in Threads |-> IF cache[t] \in kept THEN cache[t] ELSE None]
  BY DEF DropReferences
<1> HIDE DEF kept
<1>2. \A r \in kept : r \in Ranges /\ place[r] \in Slots
  BY DEF ArenaInv, Mapped, kept
<1>3. \A r \in Ranges : Referenced(r)' <=> r \in kept
  BY DEF kept
<1>4. place' \in [Ranges -> Slots \cup {None}] /\ cache' \in [Threads -> Ranges \cup {None}]
  BY <1>1, <1>2
<1>5. \A r \in Ranges : place'[r] = IF r \in kept THEN place[r] ELSE None
  BY <1>1
<1>6. Mapped'
  BY <1>2, <1>3, <1>5 DEF ArenaInv, Mapped
<1> QED BY <1>3, <1>4, <1>5, <1>6

(* A thread returns.                                                       *)
LEMMA ReturnFacts ==
    ASSUME ArenaTypeOK, NEW t \in Threads, Return(t)
    PROVE  /\ Others(t)
           /\ pc'[t] = "idle" /\ target'[t] = None /\ holds'[t] = None /\ newRanges'[t] = {}
           /\ snap'[t] = "none" /\ \A u \in Threads \ {t} : snap'[u] = snap[u]
           /\ pc' \in [Threads -> {"idle", "allocate", "insert", "drain", "modify", "unregister",
                                    "erase", "search", "check", "populate", "exit"}]
           /\ target' \in [Threads -> Slots \cup {None}] /\ holds' \in [Threads -> Ranges \cup {None}]
           /\ snap' \in [Threads -> {"none", "current", "old"}]
           /\ newRanges' \in [Threads -> SUBSET Ranges]
BY DEF ArenaTypeOK, Return, Goto, Hold, Others

(* What is true of another thread's operation stays true.                  *)
LEMMA OperationKept ==
    ASSUME ArenaInv, NEW t \in Threads, Others(t), UNCHANGED ranges, oldRanges' = oldRanges,
           \A u \in Threads \ {t} : snap'[u] = snap[u],
           live \subseteq live', live' \subseteq live \/ \A u \in Threads \ {t} : pc[u] \notin Updating,
           \A r \in Ranges : Referenced(r)' => place'[r] = place[r],
           NEW u \in Threads \ {t}
    PROVE  Operation(u)'
<1>1. \A r \in ranges \cup oldRanges : place'[r] = place[r]
  BY DEF ArenaInv, ArenaTypeOK, Referenced
<1>2. holds[u] # None => place'[holds[u]] = place[holds[u]]
  BY SMT DEF ArenaInv, ArenaTypeOK, Referenced, Others
<1>4. Operation(u)
  BY DEF ArenaInv
<1>5. pc'[u] = pc[u] /\ target'[u] = target[u] /\ holds'[u] = holds[u] /\ snap'[u] = snap[u]
  BY DEF Others
<1>6. pc[u] \in {"unregister", "erase"} => live' = live
  BY DEF Updating
<1>8. holds[u] \in Ranges => holds[u] # None
  BY NoneIsFresh
<1>9. ranges' = ranges /\ ranges \subseteq Ranges
  BY DEF ArenaInv, ArenaTypeOK
<1>10. At(target[u], ranges) => At(target[u], ranges)'
  BY <1>1, <1>5 DEF At
<1>11. At(target[u], oldRanges) => At(target[u], oldRanges)'
  BY <1>1, <1>5 DEF At
<1> QED BY <1>2, <1>4, <1>5, <1>6, <1>8, <1>9, <1>10, <1>11 DEF Operation

(* An operation that is no update returns.                                 *)
LEMMA ReturningKeeps ==
    ASSUME ArenaInv, NEW t \in Threads, Return(t), DropReferences, pc[t] \notin Updating,
           perm' \in [Ranges -> BOOLEAN], UNCHANGED <<mx, ranges, oldRanges, registered, live>>
    PROVE  ArenaInv'
<1> USE ReturnFacts
<1>1. ArenaTypeOK
  BY DEF ArenaInv
<1>2. \A r \in Ranges : Referenced(r)' => Referenced(r)
  <2> SUFFICES ASSUME NEW r \in Ranges, Referenced(r)' PROVE Referenced(r)
    OBVIOUS
  <2>1. r \in ranges \cup oldRanges \/ \E u \in Threads : r = holds'[u] \/ r \in newRanges'[u]
    BY DEF Referenced
  <2>2. \A u \in Threads \ {t} : holds'[u] = holds[u] /\ newRanges'[u] = newRanges[u]
    BY <1>1 DEF Others
  <2> QED BY SMT, <1>1, <2>1, <2>2, NoneIsFresh DEF Referenced
<1>3. /\ place' \in [Ranges -> Slots \cup {None}] /\ cache' \in [Threads -> Ranges \cup {None}] /\ Mapped'
      /\ \A r \in Ranges : Referenced(r)' => place'[r] = place[r]
  BY <1>2, DropsKeep
<1>4. ArenaTypeOK'
  BY <1>1, <1>3 DEF ArenaTypeOK
<1>5. OneWriter'
  BY SMT, <1>1 DEF ArenaInv, OneWriter, Others, Updating
<1>6. \A u \in Threads : Operation(u)'
  <2>1. \A u \in Threads \ {t} : Operation(u)'
    BY <1>1, <1>3, OperationKept
  <2>2. Operation(t)'
    BY <1>1 DEF Operation, Handling
  <2> QED BY <2>1, <2>2
<1>7. \A s \in live' : At(s, ranges)'
  <2>1. \A r \in ranges : place'[r] = place[r]
    BY <1>1, <1>3 DEF ArenaTypeOK, Referenced
  <2> QED BY SMT, <2>1 DEF ArenaInv, At
<1> QED BY <1>3, <1>4, <1>5, <1>6, <1>7 DEF ArenaInv

(* The end of an update keeps the invariant: only then is a new address    *)
(* used.                                                                   *)
LEMMA DrainKeeps ==
    ASSUME ArenaInv, NEW t \in Threads, Drain(t)
    PROVE  ArenaInv'
<1> USE ReturnFacts
<1>1. ArenaTypeOK /\ Return(t) /\ DropReferences
  BY DEF ArenaInv, Drain
<1>2. /\ pc[t] = "drain" /\ oldRanges' = {} /\ mx' = None /\ UNCHANGED <<ranges, registered, perm>>
      /\ \A u \in Threads : snap[u] # "old"
      /\ live' = live \cup {s \in Slots : s = target[t] /\ holds[t] # None}
  BY DEF Drain
<1>3. mx = t /\ \A u \in Threads \ {t} : pc[u] \notin Updating
  BY SMT, <1>2 DEF ArenaInv, OneWriter, Updating
<1>4. \A u \in Threads \ {t} : holds'[u] = holds[u] /\ newRanges'[u] = newRanges[u]
                                  /\ pc'[u] = pc[u] /\ target'[u] = target[u] /\ snap'[u] = snap[u]
  BY SMT, <1>1 DEF Others
<1>5. \A r \in Ranges : Referenced(r)' => Referenced(r)
  <2> SUFFICES ASSUME NEW r \in Ranges, Referenced(r)' PROVE Referenced(r)
    OBVIOUS
  <2>1. r \in ranges \/ \E u \in Threads : r = holds'[u] \/ r \in newRanges'[u]
    BY <1>2 DEF Referenced
  <2> QED BY SMT, <1>1, <1>4, <2>1, NoneIsFresh DEF Referenced
<1>6. /\ place' \in [Ranges -> Slots \cup {None}] /\ cache' \in [Threads -> Ranges \cup {None}] /\ Mapped'
      /\ \A r \in Ranges : Referenced(r)' => place'[r] = place[r]
  BY <1>1, <1>5, DropsKeep
<1>7. ArenaTypeOK'
  <2>1. mx' \in Threads \cup {None} /\ ranges' \subseteq Ranges /\ oldRanges' \subseteq Ranges
        /\ registered' \subseteq Ranges /\ perm' \in [Ranges -> BOOLEAN] /\ live' \subseteq Slots
    BY <1>1, <1>2 DEF ArenaTypeOK
  <2> QED BY <1>1, <1>6, <2>1 DEF ArenaTypeOK
<1>8. OneWriter'
  BY SMT, <1>1, <1>2, <1>3, <1>4, NoneIsFresh DEF OneWriter, Updating
<1>9. \A r \in ranges : place'[r] = place[r]
  BY <1>1, <1>2, <1>6 DEF ArenaTypeOK, Referenced
<1>10. \A u \in Threads \ {t} : holds[u] \in Ranges => place'[holds[u]] = place[holds[u]]
  BY <1>4, <1>6 DEF Referenced
<1>11. \A s \in live' : At(s, ranges)'
  <2> SUFFICES ASSUME NEW s \in live' PROVE \E r \in ranges : place'[r] = s
    BY <1>2 DEF At
  <2>1. CASE s \in live
    BY SMT, <1>9, <2>1 DEF ArenaInv, At
  <2>2. CASE s = target[t] /\ holds[t] # None
    BY SMT, <1>2, <1>9, <2>2 DEF ArenaInv, Operation
  <2> QED BY <1>2, <2>1, <2>2
<1>12. ASSUME NEW u \in Threads PROVE Operation(u)'
  <2>1. CASE u = t
    BY <1>1, <2>1 DEF Operation, Handling
  <2>2. CASE u # t
    <3>1. Operation(u)
      BY DEF ArenaInv
    <3>2. pc[u] \notin {"drain", "unregister", "erase"}
      BY <1>3, <2>2 DEF Updating
    <3>3. holds[u] \in Ranges \cup {None}
      BY <1>1 DEF ArenaTypeOK
    <3> QED BY SMT, <1>1, <1>2, <1>4, <1>9, <1>10, <2>2, <3>1, <3>2, <3>3 DEF Operation, ArenaTypeOK
  <2> QED BY <2>1, <2>2
<1> QED BY <1>6, <1>7, <1>8, <1>11, <1>12 DEF ArenaInv

(* Mapping a range keeps the invariant.                                    *)
LEMMA MapRangeKeeps ==
    ASSUME ArenaInv, NEW t \in Threads, NEW r \in Ranges, NEW s \in Slots, MapRange(t, r, s)
    PROVE  ArenaInv'
<1>1. ArenaTypeOK
  BY DEF ArenaInv
<1>2. /\ pc[t] = "idle" /\ place[r] = None /\ \A q \in Ranges : place[q] # s
      /\ UNCHANGED <<snap, newRanges, cache, mx, ranges, oldRanges, registered, live>>
  BY DEF MapRange
<1>3. ArenaTypeOK'
  BY <1>1 DEF ArenaTypeOK, MapRange, Goto, Hold
<1>4. /\ pc'[t] = "allocate" /\ target'[t] = s /\ holds'[t] = r
      /\ \A u \in Threads \ {t} : pc'[u] = pc[u] /\ target'[u] = target[u] /\ holds'[u] = holds[u]
      /\ place'[r] = s /\ \A q \in Ranges \ {r} : place'[q] = place[q]
  BY <1>1 DEF ArenaTypeOK, MapRange, Goto, Hold
<1>5. ~Referenced(r)
  BY <1>2, NoneIsFresh DEF ArenaInv, Mapped
<1>6. Mapped'
  <2>1. \A q \in Ranges \ {r} : Referenced(q)' => Referenced(q)
    BY <1>2, <1>4 DEF Referenced
  <2> QED BY SMT, <1>2, <1>4, <2>1 DEF ArenaInv, Mapped
<1>7. OneWriter'
  BY SMT, <1>2, <1>4 DEF ArenaInv, OneWriter, Updating
<1>8. r \notin ranges \cup oldRanges /\ \A u \in Threads : holds[u] # r
  BY <1>5 DEF Referenced
<1>9. \A q \in ranges \cup oldRanges : place'[q] = place[q]
  BY <1>1, <1>4, <1>8 DEF ArenaTypeOK
<1>10. \A u \in Threads \ {t} : holds[u] \in Ranges => place'[holds[u]] = place[holds[u]]
  BY <1>4, <1>8
<1>11. \A x \in live' : At(x, ranges)'
  BY <1>2, <1>9 DEF ArenaInv, At
<1>12. ASSUME NEW u \in Threads PROVE Operation(u)'
  <2>1. CASE u = t
    <3>1. Operation(t)
      BY DEF ArenaInv
    <3> QED BY <1>2, <1>4, <2>1, <3>1 DEF Operation, Handling
  <2>2. CASE u # t
    <3>1. At(target[u], ranges) => At(target[u], ranges)'
      BY <1>2, <1>4, <1>9, <2>2 DEF At
    <3>2. At(target[u], oldRanges) => At(target[u], oldRanges)'
      BY <1>2, <1>4, <1>9, <2>2 DEF At
    <3>3. Operation(u)
      BY DEF ArenaInv
    <3>4. holds[u] \in Ranges \cup {None} /\ ranges \subseteq Ranges
      BY <1>1 DEF ArenaTypeOK
    <3> QED BY SMT, <1>2, <1>4, <1>9, <1>10, <2>2, <3>1, <3>2, <3>3, <3>4 DEF Operation
  <2> QED BY <2>1, <2>2
<1> QED BY <1>3, <1>6, <1>7, <1>11, <1>12 DEF ArenaInv

(* Looking up a range to modify keeps the invariant.                       *)
LEMMA ModifyFindKeeps ==
    ASSUME ArenaInv, NEW t \in Threads, NEW s \in Slots, ModifyFind(t, s)
    PROVE  ArenaInv'
<1>1. ArenaTypeOK /\ Mapped
  BY DEF ArenaInv
<1>2. Find(ranges, s) \in ranges /\ place[Find(ranges, s)] \in Slots
  BY <1>1, FindIsMember, SetsAreMapped DEF ModifyFind
<1>3. /\ pc[t] = "idle" /\ pc'[t] = "modify" /\ holds'[t] = Find(ranges, s) /\ snap'[t] = "current"
      /\ Others(t) /\ \A u \in Threads \ {t} : snap'[u] = snap[u]
      /\ UNCHANGED <<newRanges, mx, ranges, oldRanges, place, live>>
  BY <1>1 DEF ArenaTypeOK, ModifyFind, Goto, Hold, Others
<1>4. ArenaTypeOK'
  BY <1>1, <1>2 DEF ArenaTypeOK, ModifyFind, Goto, Hold
<1> QED BY <1>2, <1>3, <1>4, LocalKeeps DEF Updating, Handling

(* The begin of the handler keeps the invariant: a cached range at the     *)
(* address is the one in the set, as no two are at one address.            *)
LEMMA FaultKeeps ==
    ASSUME ArenaInv, NEW t \in Threads, NEW s \in Slots, Fault(t, s)
    PROVE  ArenaInv'
<1>1. ArenaTypeOK
  BY DEF ArenaInv
<1>2. /\ pc[t] = "idle" /\ holds[t] = None /\ s \in live /\ target'[t] = s
      /\ target' \in [Threads -> Slots \cup {None}] /\ \A u \in Threads \ {t} : target'[u] = target[u]
      /\ UNCHANGED <<newRanges, cache, mx, ranges, oldRanges, place, registered, perm, live>>
  BY SMT, <1>1 DEF ArenaInv, Operation, ArenaTypeOK, Fault
<1>3. CASE cache[t] # None /\ place[cache[t]] = s /\ Hold(t, cache[t]) /\ Goto(t, "check") /\ UNCHANGED snap
  <2>1. PICK r \in ranges : place[r] = s
    BY <1>2 DEF ArenaInv, At
  <2>2. cache[t] \in Ranges /\ r \in Ranges /\ s # None
    BY <1>1, <1>3, NoneIsFresh DEF ArenaTypeOK
  <2>3. cache[t] = r
    BY <1>3, <2>1, <2>2 DEF ArenaInv, Mapped
  <2>4. /\ pc'[t] = "check" /\ holds'[t] = cache[t] /\ snap'[t] = snap[t] /\ Others(t)
        /\ \A u \in Threads \ {t} : snap'[u] = snap[u]
    BY <1>1, <1>2, <1>3 DEF ArenaTypeOK, Goto, Hold, Others
  <2>5. ArenaTypeOK'
    BY <1>1, <1>2, <1>3 DEF ArenaTypeOK, Goto, Hold
  <2>6. snap[t] = "none"
    BY <1>2 DEF ArenaInv, Operation
  <2> QED BY <1>2, <2>1, <2>3, <2>4, <2>5, <2>6, LocalKeeps DEF Updating, Handling
<1>4. CASE snap' = [snap EXCEPT ![t] = "current"] /\ Goto(t, "search") /\ UNCHANGED holds
  <2>1. /\ pc'[t] = "search" /\ holds'[t] = None /\ snap'[t] = "current" /\ Others(t)
        /\ \A u \in Threads \ {t} : snap'[u] = snap[u]
    BY <1>1, <1>2, <1>4 DEF ArenaTypeOK, Goto, Others
  <2>2. ArenaTypeOK'
    BY <1>1, <1>2, <1>4 DEF ArenaTypeOK, Goto
  <2> QED BY <1>2, <2>1, <2>2, LocalKeeps DEF Updating, Handling
<1> QED BY <1>3, <1>4 DEF Fault

(* The search keeps the invariant, in whichever set it is.                 *)
LEMMA SearchKeeps ==
    ASSUME ArenaInv, NEW t \in Threads, Search(t)
    PROVE  ArenaInv'
<1> DEFINE S == IF snap[t] = "old" THEN oldRanges ELSE ranges
           r == Find(S, target[t])
<1>1. ArenaTypeOK /\ Mapped
  BY DEF ArenaInv
<1>2. pc[t] = "search" /\ target[t] \in live /\ target[t] \in Slots
  BY <1>1 DEF Search, ArenaInv, Operation, ArenaTypeOK, Handling
<1>3. At(target[t], ranges) /\ At(target[t], S)
  BY <1>2 DEF ArenaInv, Operation
<1>4. r \in S /\ place[r] = target[t]
  <2>1. \A q \in S : place[q] \in Slots
    BY <1>1, SetsAreMapped
  <2> HIDE DEF S
  <2> QED BY <1>2, <1>3, <2>1, FindIsMember
<1>5. r \in Ranges /\ r # None
  BY SMT, <1>1, <1>4, NoneIsFresh DEF ArenaTypeOK
<1>6. /\ holds' = [holds EXCEPT ![t] = r] /\ cache' = [cache EXCEPT ![t] = r]
      /\ pc' = [pc EXCEPT ![t] = "check"] /\ snap' = [snap EXCEPT ![t] = "none"]
      /\ UNCHANGED <<target, newRanges, mx, ranges, oldRanges, place, registered, perm, live>>
  BY <1>5 DEF Search, Hold, Goto
<1> HIDE DEF r, S
<1>7. r \in ranges
  <2>1. PICK q \in ranges : place[q] = target[t]
    BY <1>3 DEF At
  <2>2. q \in Ranges /\ target[t] # None
    BY <1>1, <1>2, NoneIsFresh DEF ArenaTypeOK
  <2> QED BY <1>1, <1>4, <1>5, <2>1, <2>2 DEF Mapped
<1>8. ArenaTypeOK'
  BY <1>1, <1>5, <1>6 DEF ArenaTypeOK
<1>9. /\ pc'[t] = "check" /\ holds'[t] = r /\ snap'[t] = "none" /\ target'[t] = target[t] /\ Others(t)
      /\ \A u \in Threads \ {t} : snap'[u] = snap[u]
  BY <1>1, <1>6 DEF ArenaTypeOK, Others
<1> QED BY <1>2, <1>4, <1>6, <1>7, <1>8, <1>9, LocalKeeps DEF Updating, Handling

(* The check of permissions keeps the invariant.                           *)
LEMMA CheckKeeps ==
    ASSUME ArenaInv, NEW t \in Threads, Check(t)
    PROVE  ArenaInv'
<1>1. ArenaTypeOK /\ Mapped
  BY DEF ArenaInv
<1>2. pc[t] = "check" /\ UNCHANGED <<mx, ranges, oldRanges, registered, perm, live>>
  BY DEF Check
<1>3. CASE Goto(t, "populate") /\ UNCHANGED <<target, holds, snap, newRanges, cache, place>>
  <2>1. /\ pc'[t] = "populate" /\ holds'[t] = holds[t] /\ snap'[t] = snap[t] /\ target'[t] = target[t] /\ Others(t)
        /\ \A u \in Threads \ {t} : snap'[u] = snap[u]
    BY <1>1, <1>3 DEF ArenaTypeOK, Goto, Others
  <2>2. ArenaTypeOK'
    BY <1>1, <1>2, <1>3 DEF ArenaTypeOK, Goto
  <2>3. snap[t] = "none" /\ target[t] \in live
    BY <1>2 DEF ArenaInv, Operation, Handling
  <2>4. place[holds[t]] = target[t] /\ holds[t] \in ranges /\ place[holds[t]] \in Slots
    BY <1>1, <1>2, SetsAreMapped DEF ArenaInv, Operation
  <2> QED BY <1>2, <1>3, <2>1, <2>2, <2>3, <2>4, LocalKeeps DEF Updating, Handling
<1>4. CASE Return(t) /\ DropReferences
  <2>1. perm' \in [Ranges -> BOOLEAN]
    BY <1>1, <1>2 DEF ArenaTypeOK
  <2> QED BY <1>2, <1>4, <2>1, ReturningKeeps DEF Updating
<1> QED BY <1>3, <1>4 DEF Check

(* The ends of modifyRange and of the handler keep the invariant.          *)
LEMMA ModifyKeeps ==
    ASSUME ArenaInv, NEW t \in Threads, Modify(t) \/ Populate(t)
    PROVE  ArenaInv'
<1>1. ArenaTypeOK
  BY DEF ArenaInv
<1>2. perm' \in [Ranges -> BOOLEAN]
  BY <1>1 DEF ArenaTypeOK, Modify, Populate
<1>3. /\ pc[t] \in {"modify", "populate"} /\ Return(t) /\ DropReferences
      /\ UNCHANGED <<mx, ranges, oldRanges, registered, live>>
  BY DEF Modify, Populate
<1> QED BY <1>2, <1>3, ReturningKeeps DEF Updating

(* An update begins: the lock is taken and the set copied.                 *)
LEMMA CopyKeeps ==
    ASSUME ArenaInv, ArenaTypeOK', NEW t \in Threads, pc[t] \in {"idle", "allocate"},
           pc'[t] \in {"insert", "unregister"}, mx = None, mx' = t, newRanges'[t] = ranges,
           Operation(t)',
           \A u \in Threads \ {t} : pc'[u] = pc[u] /\ target'[u] = target[u] /\ newRanges'[u] = newRanges[u],
           UNCHANGED <<holds, snap, ranges, oldRanges, place>>,
           live' \subseteq live, \A u \in Threads \ {t} : target[u] \in live => target[u] \in live'
    PROVE  ArenaInv'
<1>1. ArenaTypeOK
  BY DEF ArenaInv
<1>2. Mapped'
  <2> SUFFICES ASSUME NEW r \in Ranges, Referenced(r)' PROVE Referenced(r)
    BY DEF ArenaInv, Mapped
  <2>1. r \in ranges \cup oldRanges \/ \E u \in Threads : r = holds[u] \/ r \in newRanges'[u]
    BY DEF Referenced
  <2> QED BY <2>1 DEF Referenced
<1>3. \A u \in Threads : pc[u] \notin Updating
  BY NoneIsFresh DEF ArenaInv, OneWriter
<1>4. OneWriter'
  <2>1. \A u \in Threads : snap'[u] # "old"
    BY <1>3 DEF ArenaInv, OneWriter, Updating
  <2>2. \A u \in Threads \ {t} : pc'[u] \notin Updating /\ mx' # u
    BY <1>3
  <2>3. pc'[t] \in Updating
    BY DEF Updating
  <2>4. \A u \in Threads : pc'[u] \in {"insert", "unregister", "erase"} => u = t
    BY <2>2 DEF Updating
  <2> QED BY <2>1, <2>2, <2>3, <2>4 DEF OneWriter
<1>5. ASSUME NEW u \in Threads \ {t} PROVE Operation(u)'
  <2>1. Operation(u) /\ pc[u] \notin Updating
    BY <1>3 DEF ArenaInv
  <2>2. At(target[u], oldRanges) => At(target[u], oldRanges)'
    BY DEF At
  <2> QED BY <2>1, <2>2 DEF Operation, Updating
<1>6. \A s \in live' : At(s, ranges)'
  BY DEF ArenaInv, At
<1> QED BY <1>2, <1>4, <1>5, <1>6 DEF ArenaInv

(* allocateRange begins so ...                                             *)
LEMMA CopyForInsertKeeps ==
    ASSUME ArenaInv, NEW t \in Threads, CopyForInsert(t)
    PROVE  ArenaInv'
<1>1. ArenaTypeOK /\ Operation(t)
  BY DEF ArenaInv
<1>2. ArenaTypeOK'
  <2>1. holds[t] \in Ranges
    BY <1>1 DEF CopyForInsert, Operation
  <2> QED BY <1>1, <2>1 DEF ArenaTypeOK, CopyForInsert, Goto
<1>3. /\ pc[t] = "allocate" /\ pc'[t] = "insert" /\ mx = None /\ mx' = t /\ newRanges'[t] = ranges
      /\ \A u \in Threads \ {t} : pc'[u] = pc[u] /\ target'[u] = target[u] /\ newRanges'[u] = newRanges[u]
      /\ UNCHANGED <<target, holds, snap, ranges, oldRanges, place, live>>
  BY <1>1 DEF ArenaTypeOK, CopyForInsert, Goto
<1>4. Operation(t)'
  BY <1>1, <1>3 DEF Operation, Handling
<1> QED BY <1>2, <1>3, <1>4, CopyKeeps

(* ... and freeRange, whose address nobody uses from then on.              *)
LEMMA CopyForEraseKeeps ==
    ASSUME ArenaInv, NEW t \in Threads, NEW s \in Slots, CopyForErase(t, s)
    PROVE  ArenaInv'
<1>1. ArenaTypeOK /\ Operation(t)
  BY DEF ArenaInv
<1>2. ArenaTypeOK'
  BY <1>1 DEF ArenaTypeOK, CopyForErase, Goto
<1>3. /\ pc[t] = "idle" /\ pc'[t] = "unregister" /\ mx = None /\ mx' = t /\ newRanges'[t] = ranges
      /\ target'[t] = s /\ live' = live \ {s} /\ s \in live
      /\ \A u \in Threads \ {t} : pc'[u] = pc[u] /\ target'[u] = target[u] /\ newRanges'[u] = newRanges[u]
      /\ \A u \in Threads \ {t} : target[u] # s
      /\ UNCHANGED <<holds, snap, ranges, oldRanges, place>>
  BY <1>1 DEF ArenaTypeOK, CopyForErase, Goto
<1>4. At(target[t], ranges)'
  BY <1>3 DEF ArenaInv, At
<1>5. Operation(t)'
  BY <1>1, <1>3, <1>4 DEF Operation, Handling
<1> QED BY <1>2, <1>3, <1>5, CopyKeeps

(* Unregistering keeps the invariant.                                      *)
LEMMA UnregisterKeeps ==
    ASSUME ArenaInv, NEW t \in Threads, Unregister(t)
    PROVE  ArenaInv'
<1>1. ArenaTypeOK
  BY DEF ArenaInv
<1>2. /\ registered' \subseteq registered /\ perm' \in [Ranges -> BOOLEAN]
      /\ UNCHANGED <<target, holds, snap, newRanges, cache, mx, ranges, oldRanges, place, live>>
  BY <1>1 DEF ArenaTypeOK, Unregister
<1>3. /\ pc[t] = "unregister" /\ pc' = [pc EXCEPT ![t] = "erase"]
  BY DEF Unregister, Goto
<1>4. ArenaTypeOK'
  BY <1>1, <1>2, <1>3 DEF ArenaTypeOK
<1>5. pc'[t] = "erase" /\ \A u \in Threads \ {t} : pc'[u] = pc[u]
  BY <1>1, <1>3 DEF ArenaTypeOK
<1>6. Mapped'
  BY <1>2 DEF ArenaInv, Mapped, Referenced
<1>7. OneWriter'
  BY <1>2, <1>3, <1>5 DEF ArenaInv, OneWriter, Updating
<1>8. ASSUME NEW u \in Threads PROVE Operation(u)'
  <2>1. Operation(u)
    BY DEF ArenaInv
  <2>2. At(target[u], ranges)' = At(target[u], ranges) /\ At(target[u], oldRanges)' = At(target[u], oldRanges)
    BY <1>2 DEF At
  <2> QED BY <1>2, <1>3, <1>5, <2>1, <2>2 DEF Operation, Handling
<1>9. \A s \in live' : At(s, ranges)'
  BY <1>2 DEF ArenaInv, At
<1> QED BY <1>4, <1>6, <1>7, <1>8, <1>9 DEF ArenaInv

(* The exchange publishes a set that has every range somebody uses.        *)
LEMMA ExchangeKeeps ==
    ASSUME ArenaInv, ArenaTypeOK', NEW t \in Threads, pc[t] \in {"insert", "erase"}, NEW S,
           Exchange(t, S), S \subseteq ranges \cup {holds[t]},
           holds[t] # None => holds[t] \in S /\ place[holds[t]] = target[t],
           \A r \in ranges : place[r] \in live => r \in S,
           newRanges'[t] \subseteq ranges, \A u \in Threads \ {t} : newRanges'[u] = newRanges[u],
           UNCHANGED <<target, holds, mx, place, live>>
    PROVE  ArenaInv'
<1>1. ArenaTypeOK
  BY DEF ArenaInv
<1>2. /\ ranges' = S /\ oldRanges' = ranges
      /\ pc'[t] = "drain" /\ \A u \in Threads \ {t} : pc'[u] = pc[u]
      /\ \A u \in Threads : snap'[u] = IF snap[u] = "current" THEN "old" ELSE snap[u]
  BY <1>1 DEF Exchange, Goto, ArenaTypeOK
<1>3. mx = t /\ \A u \in Threads \ {t} : pc[u] \notin Updating
  BY DEF ArenaInv, OneWriter, Updating
<1>4. Mapped'
  <2> SUFFICES ASSUME NEW r \in Ranges, Referenced(r)' PROVE Referenced(r)
    BY DEF ArenaInv, Mapped
  <2>1. r \in S \cup ranges \/ \E u \in Threads : r = holds[u] \/ r \in newRanges'[u]
    BY <1>2 DEF Referenced
  <2> QED BY <2>1 DEF Referenced
<1>5. OneWriter'
  <2>1. pc'[t] \in Updating /\ pc'[t] \notin {"insert", "unregister", "erase"}
    BY <1>2 DEF Updating
  <2>2. \A u \in Threads \ {t} : pc'[u] \notin Updating /\ pc'[u] \notin {"insert", "unregister", "erase"} /\ mx' # u
    BY <1>2, <1>3 DEF Updating
  <2> QED BY <1>2, <1>3, <2>1, <2>2 DEF OneWriter
<1>6. \A s \in live' : At(s, ranges)'
  BY <1>2 DEF ArenaInv, At
<1>7. ASSUME NEW u \in Threads \ {t} PROVE Operation(u)'
  <2>1. Operation(u) /\ pc[u] \notin Updating /\ pc'[u] = pc[u]
    BY <1>2, <1>3 DEF ArenaInv
  <2>2. pc[u] = "search" => At(target[u], oldRanges)'
    <3>1. pc[u] = "search" => At(target[u], ranges)
      BY <2>1 DEF ArenaInv, Operation, Handling
    <3> QED BY <1>2, <3>1 DEF At
  <2>3. pc[u] \in {"check", "populate"} => holds[u] \in S
    BY <2>1 DEF Operation, Handling
  <2>4. snap'[u] # "none" => snap[u] # "none"
    BY <1>2
  <2> QED BY <1>2, <2>1, <2>2, <2>3, <2>4 DEF Operation, Updating
<1>8. Operation(t)'
  <2>1. snap[t] = "none"
    BY DEF ArenaInv, Operation
  <2> QED BY <1>2, <2>1 DEF Operation, Handling
<1> QED BY <1>4, <1>5, <1>6, <1>7, <1>8 DEF ArenaInv

(* Publishing the new range is such an exchange.                           *)
LEMMA InsertKeeps ==
    ASSUME ArenaInv, NEW t \in Threads, Insert(t)
    PROVE  ArenaInv'
<1>1. ArenaTypeOK /\ Operation(t) /\ OneWriter
  BY DEF ArenaInv
<1>2. /\ pc[t] = "insert" /\ Exchange(t, ranges \cup {holds[t]}) /\ newRanges[t] = ranges
      /\ UNCHANGED <<target, holds, newRanges, cache, mx, place, registered, perm, live>>
  BY <1>1 DEF Insert, OneWriter
<1>3. holds[t] \in Ranges /\ place[holds[t]] = target[t]
  BY <1>1, <1>2 DEF Operation
<1>4. ArenaTypeOK'
  <2>1. ranges' \subseteq Ranges /\ oldRanges' \subseteq Ranges
    BY <1>1, <1>2, <1>3 DEF ArenaTypeOK, Exchange
  <2>2. /\ pc' \in [Threads -> {"idle", "allocate", "insert", "drain", "modify", "unregister",
                                  "erase", "search", "check", "populate", "exit"}]
        /\ snap' \in [Threads -> {"none", "current", "old"}]
    BY <1>1, <1>2 DEF ArenaTypeOK, Exchange, Goto
  <2> QED BY <1>1, <1>2, <2>1, <2>2 DEF ArenaTypeOK
<1> QED BY <1>2, <1>3, <1>4, ExchangeKeeps

(* The range that is erased is the one at the address that is being freed, *)
(* which nobody uses any more.                                             *)
LEMMA EraseKeeps ==
    ASSUME ArenaInv, NEW t \in Threads, Erase(t)
    PROVE  ArenaInv'
<1> DEFINE r == Find(ranges, target[t])
           rest == ranges \ {r}
<1>1. ArenaTypeOK /\ Operation(t) /\ OneWriter /\ Mapped
  BY DEF ArenaInv
<1>2. /\ pc[t] = "erase" /\ newRanges[t] = ranges
      /\ UNCHANGED <<target, holds, cache, mx, place, registered, perm, live>>
  BY <1>1 DEF Erase, OneWriter
<1>3. Exchange(t, rest) /\ newRanges' = [newRanges EXCEPT ![t] = rest]
  BY <1>2 DEF Erase
<1>4. holds[t] = None /\ target[t] \notin live /\ At(target[t], ranges) /\ target[t] \in Slots
  <2>1. holds[t] = None /\ target[t] \notin live /\ At(target[t], ranges)
    BY <1>1, <1>2 DEF Operation
  <2>2. \A q \in ranges : place[q] \in Slots
    BY <1>1, SetsAreMapped
  <2> QED BY <2>1, <2>2 DEF At
<1>5. r \in ranges /\ place[r] = target[t]
  BY <1>1, <1>4, FindIsMember, SetsAreMapped
<1> HIDE DEF r
<1>6. \A q \in ranges : place[q] \in live => q \in rest
  BY <1>4, <1>5
<1>7. ArenaTypeOK'
  <2>1. ranges' \subseteq Ranges /\ oldRanges' \subseteq Ranges
    BY <1>1, <1>3 DEF ArenaTypeOK, Exchange
  <2>2. /\ pc' \in [Threads -> {"idle", "allocate", "insert", "drain", "modify", "unregister",
                                  "erase", "search", "check", "populate", "exit"}]
        /\ snap' \in [Threads -> {"none", "current", "old"}]
    BY <1>1, <1>3 DEF ArenaTypeOK, Exchange, Goto
  <2>3. newRanges' \in [Threads -> SUBSET Ranges]
    BY <1>1, <1>3 DEF ArenaTypeOK
  <2> QED BY <1>1, <1>2, <2>1, <2>2, <2>3 DEF ArenaTypeOK
<1>8. newRanges'[t] \subseteq ranges /\ \A u \in Threads \ {t} : newRanges'[u] = newRanges[u]
  BY <1>1, <1>3 DEF ArenaTypeOK
<1>9. rest \subseteq ranges \cup {holds[t]}
  OBVIOUS
<1> HIDE DEF rest
<1> QED BY <1>2, <1>3, <1>4, <1>6, <1>7, <1>8, <1>9, ExchangeKeeps

(* Every step keeps the invariant.                                         *)
LEMMA ArenaStep ==
    ASSUME ArenaInv, [ArenaNext]_arenaVars
    PROVE  ArenaInv'
<1>1. CASE UNCHANGED arenaVars
  BY SMT, <1>1 DEF arenaVars, ArenaInv, ArenaTypeOK, Mapped, Referenced, OneWriter, Operation, At
<1>2. CASE ArenaNext
  BY <1>2, MapRangeKeeps, ModifyFindKeeps, CopyForEraseKeeps, FaultKeeps, CopyForInsertKeeps, InsertKeeps,
     ModifyKeeps, UnregisterKeeps, EraseKeeps, DrainKeeps, SearchKeeps, CheckKeeps
  DEF ArenaNext, Begin, Step
<1> QED BY <1>1, <1>2

(* The range by which the handler judges an access is the range at the     *)
(* accessed address and is in the published set (HandlerFindsOwner), for   *)
(* any number of threads, ranges and addresses, whatever is allocated,     *)
(* freed and mapped again at the same address in the meantime: neither the *)
(* cached weak reference nor the replaced copy of the set leads it astray. *)
THEOREM HandlersFindOwners == ArenaSpec => []HandlerFindsOwner
<1>1. ArenaInit => ArenaInv
  BY SMT, NoneIsFresh DEF ArenaInit, ArenaInv, ArenaTypeOK, Mapped, Referenced, OneWriter, Operation, At, Updating, Handling
<1>2. ArenaInv => HandlerFindsOwner
  BY DEF ArenaInv, Operation, HandlerFindsOwner
<1> QED BY <1>1, <1>2, ArenaStep, PTL DEF ArenaSpec

(***************************************************************************)
(* What has content                                                        *)
(***************************************************************************)
(* One range by itself.                                                    *)
RangeSpec == RangeInit /\ [][RangeNext]_rangeVars

(* The mark and the size are page counts, pages with content lie in the    *)
(* range and below the mark.                                               *)
MarkInv ==
    /\ maxUsed \in Nat /\ size \in Nat
    /\ populated \subseteq Int
    /\ UsedCoversPopulated

(* Resizing only raises the mark, so what is below it goes.                *)
LEMMA RestoreEmpties ==
    ASSUME MarkInv, NEW n \in 1..MapPages, restore(n)
    PROVE  populated' = {}
<1> DEFINE used == setMemorySize(n).used
           pages == setMemorySize(n).pages
<1>1. used \in Int /\ used >= maxUsed
  BY SMT, MapPagesPositive DEF MarkInv, setMemorySize, Larger
<1>2. pages \subseteq populated
  BY DEF setMemorySize
<1>3. populated' = {p \in pages : p >= mapStart + used}
  BY DEF restore
<1> HIDE DEF used, pages
<1>4. \A p \in pages : ~(p >= mapStart + used)
  BY SMT, <1>1, <1>2 DEF MarkInv, UsedCoversPopulated, mapStart
<1> QED BY <1>3, <1>4

(* Growing, shrinking, restores and faults keep the mark above what is     *)
(* populated.                                                              *)
LEMMA MarkStep ==
    ASSUME MarkInv, [RangeNext]_rangeVars
    PROVE  MarkInv'
<1> USE MapPagesPositive DEF mapStart
<1>1. CASE UNCHANGED rangeVars
  BY <1>1 DEF rangeVars, MarkInv, UsedCoversPopulated
<1>2. ASSUME NEW n \in 1..MapPages, commitVirtualPages(n) PROVE MarkInv'
  BY SMT, <1>2 DEF commitVirtualPages, MarkInv, UsedCoversPopulated, Larger
<1>3. ASSUME NEW n \in 1..MapPages, decommitVirtualPages(n) PROVE MarkInv'
  <2>1. populated' \subseteq populated /\ maxUsed' = Larger(maxUsed, size) /\ size' = size - n /\ n <= size
    BY <1>3 DEF decommitVirtualPages
  <2> QED BY SMT, <2>1 DEF MarkInv, UsedCoversPopulated, Larger
<1>4. ASSUME NEW n \in 1..MapPages, restore(n) PROVE MarkInv'
  <2>1. populated' = {}
    BY <1>4, RestoreEmpties
  <2> QED BY SMT, <1>4, <2>1 DEF restore, MarkInv, UsedCoversPopulated
<1>5. ASSUME NEW addr \in PageAddresses, sigbusHandler(addr) PROVE MarkInv'
  BY SMT, <1>5 DEF sigbusHandler, MarkInv, UsedCoversPopulated, Larger, PageAddresses, mapEnd
<1> QED BY <1>1, <1>2, <1>3, <1>4, <1>5 DEF RangeNext

(* No page above the high-water mark has content (UsedCoversPopulated),    *)
(* for a range of any size.                                                *)
THEOREM MarkStaysAbove == RangeSpec => []UsedCoversPopulated
<1>1. RangeInit => MarkInv
  BY SMT DEF RangeInit, MarkInv, UsedCoversPopulated
<1>2. MarkInv => UsedCoversPopulated
  BY DEF MarkInv
<1> QED BY <1>1, <1>2, MarkStep, PTL DEF RangeSpec

(* A restore leaves no page with content: nothing of the call before is    *)
(* seen by the next one through memory that was not reset. This is what    *)
(* discardAll relies on when it discards only up to maxUsedBytes.          *)
THEOREM RestoreDiscardsAll ==
    RangeSpec => [][\A n \in 1..MapPages : restore(n) => populated' = {}]_rangeVars
<1>1. RangeInit => MarkInv
  BY SMT DEF RangeInit, MarkInv, UsedCoversPopulated
<1>2. MarkInv /\ [RangeNext]_rangeVars => [\A n \in 1..MapPages : restore(n) => populated' = {}]_rangeVars
  BY RestoreEmpties
<1> QED BY <1>1, <1>2, MarkStep, PTL DEF RangeSpec

(***************************************************************************)
(* What may be accessed                                                    *)
(***************************************************************************)
(* The addresses there are.                                                *)
Addresses == 0..UINTPTR_MAX

(* No access, reading, reading and writing.                                *)
Perms == {0, 1, 3}

(* A permission list with its two sentinels.                               *)
IsList(list) ==
    /\ {0, UINTPTR_MAX} \subseteq DOMAIN list
    /\ DOMAIN list \subseteq Addresses
    /\ \A a \in DOMAIN list : list[a] \in Perms

(* The entry of the list at a is the last one at or before p, and          *)
(* decides on p.                                                           *)
Decides(list, p, a) ==
    /\ a \in DOMAIN list /\ a <= p
    /\ \A c \in DOMAIN list : c <= p => c <= a

(* Two lists say the same of p.                                            *)
SameAt(list, out, p) ==
    \E a \in DOMAIN list, c \in DOMAIN out :
        Decides(list, p, a) /\ Decides(out, p, c) /\ list[a] = out[c]

(* A list says v of p.                                                     *)
Says(list, p, v) == \E a \in DOMAIN list : Decides(list, p, a) /\ list[a] = v

(* What the pass has made of the entries below n.                          *)
PassInv(list, begin, end, perms, acc, n) ==
    /\ DOMAIN acc.out \subseteq 0..(n - 1)
    /\ \A a \in DOMAIN acc.out : acc.out[a] \in Perms
    /\ \A a \in DOMAIN acc.out : ~(begin < a /\ a < end)
    /\ acc.endPerm \in Perms
    /\ n > 0 => 0 \in DOMAIN acc.out /\ Says(list, n - 1, acc.lastPerm)
    /\ n = 0 => acc.lastPerm = -1
    /\ acc.beginDone <=> \E a \in DOMAIN list : begin <= a /\ a < n
    /\ \A p \in 0..(begin - 1) : p < n => SameAt(list, acc.out, p)
    /\ begin \in DOMAIN acc.out => acc.out[begin] = perms
    /\ acc.beginDone => begin \in DOMAIN acc.out \/ Says(list, begin - 1, perms)
    /\ n > UINTPTR_MAX => UINTPTR_MAX \in DOMAIN acc.out

(* An interval whose permissions are set; it ends before the last address. *)
IsInterval(begin, end) ==
    begin \in Int /\ end \in Int /\ 0 < begin /\ begin < end /\ end < UINTPTR_MAX

(* The largest address is a number.                                        *)
LEMMA MaxIsNat == UINTPTR_MAX \in Nat
BY SMT, MapPagesPositive DEF UINTPTR_MAX, mapEnd, mapStart

(* The recursion of the pass has a solution. *)
LEMMA PassIsDefined ==
    ASSUME NEW list, NEW begin, NEW end, NEW perms
    PROVE  LET Pass == PassOver(list, begin, end, perms)
           IN  Pass = [n \in 0..(UINTPTR_MAX + 1) |->
                         IF n = 0
                         THEN [out |-> <<>>, lastPerm |-> -1, endPerm |-> list[0],
                               needsEnd |-> TRUE, beginDone |-> FALSE]
                         ELSE IF n - 1 \in DOMAIN list
                              THEN Visit(list, begin, end, perms, Pass[n - 1], n - 1)
                              ELSE Pass[n - 1]]
<1> DEFINE Start == [out |-> <<>>, lastPerm |-> -1, endPerm |-> list[0],
                     needsEnd |-> TRUE, beginDone |-> FALSE]
           After(acc, a) == IF a \in DOMAIN list THEN Visit(list, begin, end, perms, acc, a) ELSE acc
           Body(f, n) == IF n = 0 THEN Start ELSE After(f[n - 1], n - 1)
           Upto(k) == \E f : f = [n \in 0..k |-> Body(f, n)]
           Bad == {k \in Nat : ~Upto(k)}
<1>1. Upto(0)
  <2>1. [n \in {0} |-> Start] = [n \in 0..0 |-> Body([m \in {0} |-> Start], n)]
    <3> HIDE DEF Start, After
    <3> QED BY SMT
  <2> QED BY <2>1
<1>2. ASSUME NEW k \in Nat, Upto(k) PROVE Upto(k + 1)
  <2>1. PICK f : f = [n \in 0..k |-> Body(f, n)]
    BY <1>2
  <2> DEFINE g == [n \in 0..(k + 1) |-> IF n = k + 1 THEN After(f[k], k) ELSE f[n]]
  <2>2. ASSUME NEW n \in 0..(k + 1) PROVE g[n] = Body(g, n)
    <3> HIDE DEF Start, After
    <3>1. CASE n = 0
      BY SMT, <3>1, <2>1
    <3>2. CASE n = k + 1
      BY SMT, <3>2
    <3>3. CASE n # 0 /\ n # k + 1
      BY SMT, <3>3, <2>1
    <3> QED BY <3>1, <3>2, <3>3
  <2>3. g = [n \in 0..(k + 1) |-> Body(g, n)]
    <3> HIDE DEF Body
    <3> QED BY <2>2
  <2> HIDE DEF g, Body
  <2> QED BY <2>3
<1>3. Bad = {}
  <2> SUFFICES ASSUME Bad # {} PROVE FALSE
    OBVIOUS
  <2>1. PICK k \in Bad : \A m \in Bad : k <= m
    <3> HIDE DEF Upto
    <3> QED BY NatHasMin, Zenon
  <2> HIDE DEF Upto
  <2>2. k # 0 /\ k \in Nat
    BY <1>1
  <2>3. k - 1 \in Nat /\ k - 1 \notin Bad /\ (k - 1) + 1 = k
    BY SMT, <2>1, <2>2
  <2>4. Upto((k - 1) + 1)
    BY <1>2, <2>3
  <2> QED BY <2>3, <2>4
<1>4. Upto(UINTPTR_MAX + 1)
  <2> HIDE DEF Upto
  <2>1. UINTPTR_MAX + 1 \in Nat
    BY SMT, MaxIsNat
  <2> QED BY <1>3, <2>1
<1> QED BY <1>4 DEF PassOver

(* What a list says of an address is what the entry deciding on it says.   *)
LEMMA PermissionOf ==
    ASSUME NEW list, IsList(list), NEW p \in 0..(UINTPTR_MAX - 1), NEW v, Says(list, p, v)
    PROVE  pointerPermissions(list, p) = v
<1> USE MaxIsNat DEF Addresses
<1> DEFINE below == {a \in DOMAIN list : a <= p}
           Last(a) == \A b \in below : b <= a
<1>1. PICK a \in below : Last(a) /\ list[a] = v
  BY DEF Says, Decides
<1>2. (CHOOSE x \in below : Last(x)) \in below /\ Last(CHOOSE x \in below : Last(x))
  <2> HIDE DEF below, Last
  <2> QED BY <1>1
<1>3. (CHOOSE x \in below : Last(x)) = a
  BY SMT, <1>1, <1>2 DEF IsList
<1>4. ~(below = {} \/ \A x \in DOMAIN list : x <= p)
  BY SMT, <1>1 DEF IsList
<1> QED BY <1>1, <1>3, <1>4 DEF pointerPermissions

(* An entry put in above p does not change what is said of p.              *)
LEMMA EmplaceAbove ==
    ASSUME NEW list, NEW out, NEW p \in Int, NEW addr \in Int, p < addr, NEW v, SameAt(list, out, p)
    PROVE  SameAt(list, Emplace(out, addr, v), p)
<1> DEFINE new == Emplace(out, addr, v)
<1>1. PICK a \in DOMAIN list, c \in DOMAIN out : Decides(list, p, a) /\ Decides(out, p, c) /\ list[a] = out[c]
  BY DEF SameAt
<1>2. DOMAIN new = DOMAIN out \cup {addr} /\ new[c] = out[c]
  BY SMT, <1>1 DEF Emplace
<1>3. Decides(new, p, c)
  BY SMT, <1>1, <1>2 DEF Decides
<1> QED BY <1>1, <1>2, <1>3 DEF SameAt

(* Between two entries a list goes on saying the same.                     *)
LEMMA NoEntryBetween ==
    ASSUME NEW list, DOMAIN list \subseteq Int, NEW p \in Int, NEW q \in Int, p <= q,
           \A a \in DOMAIN list : ~(p < a /\ a <= q), NEW a, Decides(list, p, a)
    PROVE  Decides(list, q, a)
BY SMT DEF Decides

(* Two lists that say the same say the same.                              *)
LEMMA SaysToo ==
    ASSUME NEW list, IsList(list), NEW new, NEW p \in Int, SameAt(list, new, p), NEW v, Says(list, p, v)
    PROVE  Says(new, p, v)
<1>1. PICK a \in DOMAIN list, c \in DOMAIN new : Decides(list, p, a) /\ Decides(new, p, c) /\ list[a] = new[c]
  BY DEF SameAt
<1>2. PICK d \in DOMAIN list : Decides(list, p, d) /\ list[d] = v
  BY DEF Says
<1>3. a = d
  BY SMT, <1>1, <1>2, MaxIsNat DEF Decides, IsList, Addresses
<1> QED BY <1>1, <1>2, <1>3 DEF Says

(* The list of a new range. *)
LEMMA ResetIsList == IsList(resetPermissions)
BY SMT, MaxIsNat DEF IsList, resetPermissions, Addresses, Perms

(* The pass starts with nothing done. *)
LEMMA PassStarts ==
    ASSUME NEW list, IsList(list), NEW begin, NEW end, IsInterval(begin, end), NEW perms \in Perms
    PROVE  PassInv(list, begin, end, perms,
                   [out |-> <<>>, lastPerm |-> -1, endPerm |-> list[0],
                    needsEnd |-> TRUE, beginDone |-> FALSE], 0)
<1> USE MaxIsNat DEF Addresses
<1>1. DOMAIN <<>> = {}
  BY SMT
<1>2. \A a \in DOMAIN list : ~(begin <= a /\ a < 0)
  BY SMT DEF IsList
<1>3. \A p \in 0..(begin - 1) : ~(p < 0)
  BY SMT DEF IsInterval
<1>4. ~(0 > 0) /\ ~(0 > UINTPTR_MAX)
  BY SMT
<1> QED BY <1>1, <1>2, <1>3, <1>4 DEF PassInv, IsList

(* Where there is no entry nothing happens. *)
LEMMA PassSkips ==
    ASSUME NEW list, IsList(list), NEW begin, NEW end, IsInterval(begin, end), NEW perms \in Perms,
           NEW acc, NEW k \in 0..UINTPTR_MAX, k \notin DOMAIN list,
           PassInv(list, begin, end, perms, acc, k)
    PROVE  PassInv(list, begin, end, perms, acc, k + 1)
<1> USE MaxIsNat DEF Addresses
<1>0. k # 0 /\ k # UINTPTR_MAX
  BY DEF IsList
<1>1. DOMAIN acc.out \subseteq 0..((k + 1) - 1)
  BY SMT DEF PassInv
<1>2. 0 \in DOMAIN acc.out /\ Says(list, (k + 1) - 1, acc.lastPerm)
  <2>1. k > 0 /\ k \in Int /\ k - 1 \in Int /\ (k + 1) - 1 = k /\ k - 1 <= k /\ DOMAIN list \subseteq Int
    BY SMT, <1>0 DEF IsList
  <2>2. PICK a \in DOMAIN list : Decides(list, k - 1, a) /\ list[a] = acc.lastPerm
    BY <2>1 DEF PassInv, Says
  <2>3. \A x \in DOMAIN list : ~(k - 1 < x /\ x <= k)
    BY SMT DEF IsList
  <2>4. Decides(list, k, a)
    BY <2>1, <2>2, <2>3, NoEntryBetween
  <2> QED BY <2>1, <2>2, <2>4 DEF Says, PassInv
<1>3. acc.beginDone <=> \E a \in DOMAIN list : begin <= a /\ a < k + 1
  <2>1. \A a \in DOMAIN list : a < k <=> a < k + 1
    BY SMT DEF IsList
  <2> QED BY <2>1 DEF PassInv
<1>4. ASSUME NEW p \in 0..(begin - 1), p < k + 1 PROVE SameAt(list, acc.out, p)
  <2>1. CASE p < k
    BY <2>1 DEF PassInv
  <2>2. CASE p = k
    <3>1. k - 1 \in 0..(begin - 1) /\ k - 1 < k /\ k - 1 \in Int /\ k \in Int /\ k - 1 <= k
      BY SMT, <1>0, <2>2 DEF IsInterval
    <3>2. PICK a \in DOMAIN list, c \in DOMAIN acc.out :
             Decides(list, k - 1, a) /\ Decides(acc.out, k - 1, c) /\ list[a] = acc.out[c]
      BY <3>1 DEF PassInv, SameAt
    <3>3. DOMAIN list \subseteq Int /\ DOMAIN acc.out \subseteq Int
      BY SMT DEF IsList, PassInv
    <3>4. \A x \in DOMAIN list : ~(k - 1 < x /\ x <= k)
      BY SMT DEF IsList
    <3>5. \A x \in DOMAIN acc.out : ~(k - 1 < x /\ x <= k)
      BY SMT DEF PassInv
    <3>6. Decides(list, k, a) /\ Decides(acc.out, k, c)
      BY <3>1, <3>2, <3>3, <3>4, <3>5, NoEntryBetween
    <3> QED BY <2>2, <3>2, <3>6 DEF SameAt
  <2> QED BY SMT, <1>4, <2>1, <2>2 DEF IsInterval
<1>5. ~(k + 1 > UINTPTR_MAX) /\ k + 1 > 0 /\ k + 1 # 0
  BY SMT, <1>0
<1> QED BY <1>1, <1>2, <1>3, <1>4, <1>5 DEF PassInv

(* The visit of one entry. *)
LEMMA PassVisits ==
    ASSUME NEW list, IsList(list), NEW begin, NEW end, IsInterval(begin, end), NEW perms \in Perms,
           NEW acc, NEW k \in DOMAIN list, acc.beginDone \in BOOLEAN,
           PassInv(list, begin, end, perms, acc, k)
    PROVE  PassInv(list, begin, end, perms, Visit(list, begin, end, perms, acc, k), k + 1)
<1> USE MaxIsNat DEF Addresses
<1> DEFINE opens == ~acc.beginDone /\ k >= begin
           outside == k < begin \/ k >= end
           kept == outside /\ (list[k] # acc.lastPerm \/ k = UINTPTR_MAX)
           opened == IF opens /\ acc.lastPerm # perms THEN Emplace(acc.out, begin, perms) ELSE acc.out
           out == IF kept THEN Emplace(opened, k, list[k]) ELSE opened
           new == Visit(list, begin, end, perms, acc, k)
<1>1. /\ new.out = out /\ new.lastPerm = list[k]
      /\ new.endPerm = IF outside THEN acc.endPerm ELSE list[k]
      /\ new.beginDone = (acc.beginDone \/ opens)
  BY DEF Visit
<1>k. k \in Int /\ 0 <= k /\ k <= UINTPTR_MAX /\ list[k] \in Perms /\ (k + 1) - 1 = k /\ k + 1 > 0 /\ k + 1 # 0
  BY SMT DEF IsList
<1>i. begin \in Int /\ end \in Int /\ 0 < begin /\ begin < end /\ end < UINTPTR_MAX
  BY DEF IsInterval
<1>o. /\ DOMAIN acc.out \subseteq DOMAIN opened
      /\ \A a \in DOMAIN acc.out : opened[a] = acc.out[a]
      /\ \A a \in DOMAIN opened : a \in DOMAIN acc.out \/ (opens /\ a = begin /\ opened[a] = perms)
      /\ opens /\ acc.lastPerm # perms => begin \in DOMAIN opened
  <2> HIDE DEF opens
  <2>1. CASE opens /\ acc.lastPerm # perms
    <3>1. opened = Emplace(acc.out, begin, perms)
      BY <2>1
    <3> HIDE DEF opened
    <3> QED BY SMT, <2>1, <3>1 DEF Emplace
  <2>2. CASE ~(opens /\ acc.lastPerm # perms)
    BY <2>2
  <2> QED BY <2>1, <2>2
<1>u. /\ DOMAIN opened \subseteq DOMAIN out
      /\ \A a \in DOMAIN opened : out[a] = opened[a]
      /\ \A a \in DOMAIN out : a \in DOMAIN opened \/ (kept /\ a = k /\ out[a] = list[k])
      /\ kept => k \in DOMAIN out
  <2> HIDE DEF kept, opened
  <2>1. CASE kept
    <3>1. out = Emplace(opened, k, list[k])
      BY <2>1
    <3> HIDE DEF out
    <3> QED BY SMT, <2>1, <3>1 DEF Emplace
  <2>2. CASE ~kept
    BY <2>2
  <2> QED BY <2>1, <2>2
<1>8. ASSUME NEW p \in 0..(begin - 1), p < k PROVE SameAt(list, opened, p)
  <2>1. SameAt(list, acc.out, p)
    BY <1>8 DEF PassInv
  <2>2. p \in Int /\ p < begin
    BY SMT, <1>i
  <2>3. CASE opened = acc.out
    BY <2>1, <2>3
  <2>4. CASE opened = Emplace(acc.out, begin, perms)
    BY <2>1, <2>2, <2>4, <1>i, EmplaceAbove
  <2> QED BY <2>3, <2>4
<1>17a. ASSUME NEW p \in 0..(begin - 1), p < k PROVE SameAt(list, out, p)
  <2>1. SameAt(list, opened, p)
    BY <1>17a, <1>8
  <2>2. p \in Int
    BY SMT, <1>i
  <2> HIDE DEF opened
  <2>3. CASE out = opened
    BY <2>1, <2>3
  <2>4. CASE out = Emplace(opened, k, list[k])
    BY <1>17a, <2>1, <2>2, <2>4, <1>k, EmplaceAbove
  <2> QED BY <2>3, <2>4
<1>17b. k < begin => opened = acc.out
  <2>1. k < begin => ~(k >= begin)
    BY SMT, <1>k, <1>i
  <2> QED BY <2>1
<1>17c. ~kept => out = opened
  OBVIOUS
<1> HIDE DEF opened, out
<1>2. DOMAIN opened \subseteq 0..k
  BY SMT, <1>o, <1>k, <1>i DEF PassInv
<1>3. \A a \in DOMAIN opened : opened[a] \in Perms
  BY <1>o DEF PassInv
<1>4. begin \in DOMAIN opened => opened[begin] = perms
  BY <1>o DEF PassInv
<1>5. \A a \in DOMAIN opened : ~(begin < a /\ a < end)
  <2>1. ~(begin < begin)
    BY SMT, <1>i
  <2> QED BY <2>1, <1>o DEF PassInv
<1>b. new.beginDone <=> \E a \in DOMAIN list : begin <= a /\ a < k + 1
  <2>1. \A a \in DOMAIN list : a < k + 1 <=> a < k \/ a = k
    BY SMT, <1>k DEF IsList
  <2>2. k >= begin <=> begin <= k
    BY SMT, <1>k, <1>i
  <2> QED BY <1>1, <2>1, <2>2 DEF PassInv
<1>7. ASSUME acc.beginDone \/ opens PROVE begin \in DOMAIN opened \/ Says(list, begin - 1, perms)
  <2>1. CASE acc.beginDone
    BY <2>1, <1>o DEF PassInv
  <2>2. CASE opens /\ acc.lastPerm # perms
    BY <2>2, <1>o
  <2>3. CASE opens /\ acc.lastPerm = perms
    <3>1. k > 0 /\ k - 1 \in Int /\ begin - 1 \in Int /\ begin - 1 <= k - 1 /\ k >= begin
      BY SMT, <2>3, <1>k, <1>i
    <3>2. PICK a \in DOMAIN list : Decides(list, k - 1, a) /\ list[a] = perms
      BY <2>3, <3>1 DEF PassInv, Says
    <3>3. ~(begin <= a /\ a < k)
      BY <2>3, <3>2 DEF PassInv
    <3>4. Decides(list, begin - 1, a)
      BY SMT, <3>1, <3>2, <3>3, <1>i DEF Decides, IsList
    <3> QED BY <3>2, <3>4 DEF Says
  <2> QED BY <1>7, <2>1, <2>2, <2>3
<1>9. Says(list, k, list[k])
  BY SMT, <1>k DEF Says, Decides, IsList
<1> HIDE DEF new
<1>10. DOMAIN out \subseteq 0..k
  BY SMT, <1>2, <1>k, <1>u
<1>11. \A a \in DOMAIN out : out[a] \in Perms
  BY <1>3, <1>k, <1>u
<1>12. \A a \in DOMAIN out : ~(begin < a /\ a < end)
  <2>1. outside => ~(begin < k /\ k < end)
    BY SMT, <1>k, <1>i
  <2> QED BY <2>1, <1>5, <1>u
<1>13. begin \in DOMAIN out => out[begin] = perms
  <2>1. outside => k # begin
    BY SMT, <1>k, <1>i
  <2> QED BY <2>1, <1>4, <1>u
<1>15. 0 \in DOMAIN out
  <2>1. CASE k = 0
    <3>1. kept
      <4>1. acc.lastPerm = -1 /\ list[k] # -1
        BY SMT, <2>1, <1>k DEF PassInv, Perms
      <4> QED BY SMT, <2>1, <4>1, <1>i
    <3> QED BY <3>1, <2>1, <1>u
  <2>2. CASE k # 0
    <3>1. k > 0
      BY SMT, <2>2, <1>k
    <3> QED BY <3>1, <1>o, <1>u DEF PassInv
  <2> QED BY <2>1, <2>2
<1>16. k + 1 > UINTPTR_MAX => UINTPTR_MAX \in DOMAIN out
  <2> SUFFICES ASSUME k + 1 > UINTPTR_MAX PROVE UINTPTR_MAX \in DOMAIN out
    OBVIOUS
  <2>1. k = UINTPTR_MAX /\ k >= end
    BY SMT, <1>k, <1>i
  <2> QED BY <2>1, <1>u
<1>17. ASSUME NEW p \in 0..(begin - 1), p < k + 1 PROVE SameAt(list, out, p)
  <2>0. p \in Int /\ p < begin
    BY SMT, <1>i
  <2>1. CASE p < k
    BY <2>1, <1>17a
  <2>2. CASE p = k
    <3>0. ~opens /\ outside /\ k # UINTPTR_MAX
      BY SMT, <2>2, <2>0, <1>k, <1>i
    <3>1. opened = acc.out
      BY <2>0, <2>2, <1>17b
    <3>2. CASE kept
      <4>1. DOMAIN out = DOMAIN acc.out \cup {k} /\ k \notin DOMAIN acc.out
        <5>1. k \notin DOMAIN acc.out
          BY SMT, <1>k DEF PassInv
        <5> QED BY <3>1, <3>2, <5>1, <1>u
      <4>2. out[k] = list[k]
        BY <3>1, <3>2, <4>1, <1>u
      <4>3. Decides(out, k, k) /\ Decides(list, k, k)
        BY SMT, <4>1, <1>k, <1>10 DEF Decides, IsList
      <4> QED BY <4>1, <4>2, <4>3, <2>2 DEF SameAt
    <3>3. CASE ~kept
      <4>1. out = acc.out /\ list[k] = acc.lastPerm
        BY <3>0, <3>1, <3>3, <1>17c
      <4>2. k > 0
        BY SMT, <4>1, <1>k DEF PassInv, Perms
      <4>3. k - 1 \in 0..(begin - 1) /\ k - 1 < k /\ k - 1 \in Int
        BY SMT, <4>2, <1>k, <1>i, <2>2
      <4>4. PICK a \in DOMAIN list, c \in DOMAIN acc.out :
               Decides(list, k - 1, a) /\ Decides(acc.out, k - 1, c) /\ list[a] = acc.out[c]
        BY <4>3 DEF PassInv, SameAt
      <4>5. PICK d \in DOMAIN list : Decides(list, k - 1, d) /\ list[d] = acc.lastPerm
        BY <4>2 DEF PassInv, Says
      <4>6. a = d
        BY SMT, <4>4, <4>5, <1>k DEF Decides, IsList
      <4>7. Decides(acc.out, k, c)
        BY SMT, <4>4, <1>k DEF Decides, PassInv
      <4>8. Decides(list, k, k)
        BY SMT, <1>k DEF Decides, IsList
      <4> QED BY <2>2, <4>1, <4>4, <4>5, <4>6, <4>7, <4>8 DEF SameAt
    <3> QED BY <3>2, <3>3
  <2> QED BY SMT, <1>17, <1>k, <2>0, <2>1, <2>2
<1>18. new.endPerm \in Perms
  BY <1>1, <1>k DEF PassInv
<1>19. new.beginDone => begin \in DOMAIN out \/ Says(list, begin - 1, perms)
  BY <1>1, <1>7, <1>u
<1> HIDE DEF out, opens, outside, kept
<1>20. DOMAIN new.out \subseteq 0..((k + 1) - 1)
  BY <1>1, <1>k, <1>10
<1>21. 0 \in DOMAIN new.out /\ Says(list, (k + 1) - 1, new.lastPerm)
  BY <1>1, <1>k, <1>9, <1>15
<1>22. PassInv(list, begin, end, perms, new, k + 1)
  BY <1>1, <1>k, <1>b, <1>11, <1>12, <1>13, <1>16, <1>17, <1>18, <1>19, <1>20, <1>21 DEF PassInv
<1> QED BY <1>22 DEF new

(* The pass has looked at all entries. *)
LEMMA PassEnds ==
    ASSUME NEW list, IsList(list), NEW begin, NEW end, IsInterval(begin, end), NEW perms \in Perms
    PROVE  PassInv(list, begin, end, perms,
                   PassOver(list, begin, end, perms)[UINTPTR_MAX + 1], UINTPTR_MAX + 1)
<1> USE MaxIsNat DEF Addresses
<1> DEFINE Pass == PassOver(list, begin, end, perms)
           Start == [out |-> <<>>, lastPerm |-> -1, endPerm |-> list[0],
                     needsEnd |-> TRUE, beginDone |-> FALSE]
           After(acc, a) == IF a \in DOMAIN list THEN Visit(list, begin, end, perms, acc, a) ELSE acc
           Steps == 0..(UINTPTR_MAX + 1)
           Holds(n) == Pass[n].beginDone \in BOOLEAN /\ PassInv(list, begin, end, perms, Pass[n], n)
           Bad == {n \in Steps : ~Holds(n)}
<1>1. Pass = [n \in Steps |-> IF n = 0 THEN Start ELSE After(Pass[n - 1], n - 1)]
  BY SMT, PassIsDefined
<1>2. Holds(0)
  <2>1. Pass[0] = Start
    <3> HIDE DEF Start, After, Pass
    <3> QED BY SMT, <1>1
  <2>2. PassInv(list, begin, end, perms, Start, 0)
    BY PassStarts
  <2>3. Start.beginDone \in BOOLEAN
    OBVIOUS
  <2> QED BY <2>1, <2>2, <2>3
<1>3. ASSUME NEW k \in 0..UINTPTR_MAX, Holds(k) PROVE Holds(k + 1)
  <2>1. Pass[k + 1] = After(Pass[k], k)
    <3>1. k + 1 \in Steps /\ k + 1 # 0 /\ (k + 1) - 1 = k
      BY SMT
    <3> HIDE DEF Start, After, Pass, Steps
    <3> QED BY <1>1, <3>1
  <2> HIDE DEF Pass
  <2>2. CASE k \in DOMAIN list
    <3>1. Pass[k + 1] = Visit(list, begin, end, perms, Pass[k], k)
      BY <2>1, <2>2
    <3>2. PassInv(list, begin, end, perms, Pass[k + 1], k + 1)
      BY <3>1, <2>2, <1>3, PassVisits
    <3>3. Pass[k + 1].beginDone \in BOOLEAN
      BY SMT, <3>1, <1>3 DEF Visit
    <3> QED BY <3>2, <3>3
  <2>3. CASE k \notin DOMAIN list
    BY <2>1, <2>3, <1>3, PassSkips
  <2> QED BY <2>2, <2>3
<1> HIDE DEF Holds
<1>4. Bad = {}
  <2> SUFFICES ASSUME Bad # {} PROVE FALSE
    OBVIOUS
  <2>1. Bad \in SUBSET Nat
    BY SMT
  <2>2. PICK n \in Bad : \A m \in Bad : n <= m
    BY <2>1, NatHasMin
  <2>3. n # 0 /\ n \in Steps
    BY <1>2, <2>2
  <2>4. n - 1 \in 0..UINTPTR_MAX /\ n - 1 \notin Bad /\ n - 1 \in Steps /\ (n - 1) + 1 = n
    BY SMT, <2>2, <2>3
  <2>5. Holds((n - 1) + 1)
    BY <1>3, <2>4
  <2> QED BY <2>2, <2>4, <2>5
<1>5. UINTPTR_MAX + 1 \in Steps
  BY SMT
<1>6. Holds(UINTPTR_MAX + 1)
  BY <1>4, <1>5
<1> QED BY <1>6 DEF Holds

(* What setPermissions makes of a list: below the interval nothing         *)
(* changes, and in it there is the new permission.  (Behind it an entry    *)
(* may be lost, see NoPermissionBeyondMemory.)                             *)
LEMMA SetPermissionsIs ==
    ASSUME NEW list, IsList(list), NEW begin, NEW end, IsInterval(begin, end), NEW perms \in Perms
    PROVE  LET new == setPermissions(list, begin, end, perms)
           IN  /\ IsList(new)
               /\ \A p \in 0..(begin - 1) : SameAt(list, new, p)
               /\ \A p \in begin..(end - 1) : Says(new, p, perms)
<1> USE MaxIsNat DEF Addresses
<1> DEFINE done == PassOver(list, begin, end, perms)[UINTPTR_MAX + 1]
           new == setPermissions(list, begin, end, perms)
<1>1. PassInv(list, begin, end, perms, done, UINTPTR_MAX + 1)
  BY PassEnds
<1>i. begin \in Int /\ end \in Int /\ 0 < begin /\ begin < end /\ end < UINTPTR_MAX
  BY DEF IsInterval
<1>2. new = IF done.needsEnd THEN Emplace(done.out, end, done.endPerm) ELSE done.out
  BY DEF setPermissions
<1> HIDE DEF done, new
<1>3. /\ DOMAIN done.out \subseteq DOMAIN new
      /\ \A a \in DOMAIN done.out : new[a] = done.out[a]
      /\ \A a \in DOMAIN new : a \in DOMAIN done.out \/ (a = end /\ new[a] = done.endPerm)
  <2>1. CASE done.needsEnd
    <3>1. new = Emplace(done.out, end, done.endPerm)
      BY <2>1, <1>2
    <3> QED BY SMT, <3>1 DEF Emplace
  <2>2. CASE ~done.needsEnd
    BY <2>2, <1>2
  <2> QED BY <2>1, <2>2
<1>4. IsList(new)
  <2>1. DOMAIN new \subseteq 0..UINTPTR_MAX
    BY SMT, <1>1, <1>3, <1>i DEF PassInv
  <2>2. UINTPTR_MAX + 1 > 0 /\ UINTPTR_MAX + 1 > UINTPTR_MAX
    BY SMT
  <2> QED BY <2>1, <2>2, <1>1, <1>3 DEF IsList, PassInv
<1>5. \A a \in DOMAIN new : ~(begin < a /\ a < end)
  <2>1. ~(end < end)
    BY SMT, <1>i
  <2> QED BY <2>1, <1>1, <1>3 DEF PassInv
<1>6. ASSUME NEW p \in 0..(begin - 1) PROVE SameAt(list, new, p)
  <2>1. SameAt(list, done.out, p)
    <3>1. p < UINTPTR_MAX + 1
      BY SMT, <1>i
    <3> QED BY <3>1, <1>1 DEF PassInv
  <2>2. p \in Int /\ p < end
    BY SMT, <1>i
  <2> QED BY <2>1, <2>2, <1>2, <1>i, EmplaceAbove
<1>7. ASSUME NEW p \in begin..(end - 1) PROVE Says(new, p, perms)
  <2>1. done.beginDone
    <3>1. begin <= UINTPTR_MAX /\ UINTPTR_MAX < UINTPTR_MAX + 1
      BY SMT, <1>i
    <3> QED BY <3>1, <1>1 DEF PassInv, IsList
  <2>2. CASE begin \in DOMAIN done.out
    <3>1. begin \in DOMAIN new /\ new[begin] = perms
      BY <2>2, <1>1, <1>3 DEF PassInv
    <3>2. Decides(new, p, begin)
      BY SMT, <3>1, <1>4, <1>5, <1>i DEF Decides, IsList
    <3> QED BY <3>1, <3>2 DEF Says
  <2>3. CASE begin \notin DOMAIN done.out
    <3>1. Says(list, begin - 1, perms)
      BY <2>1, <2>3, <1>1 DEF PassInv
    <3>2. PICK a \in DOMAIN list : Decides(list, begin - 1, a) /\ list[a] = perms
      BY <3>1 DEF Says
    <3>3. begin - 1 \in 0..(begin - 1) /\ begin - 1 \in Int /\ p \in Int /\ begin - 1 <= p
      BY SMT, <1>i
    <3>4. PICK d \in DOMAIN list, c \in DOMAIN new :
             Decides(list, begin - 1, d) /\ Decides(new, begin - 1, c) /\ list[d] = new[c]
      BY <3>3, <1>6 DEF SameAt
    <3>5. a = d
      BY SMT, <3>2, <3>4, <1>i DEF Decides, IsList
    <3>6. DOMAIN new \subseteq Int
      BY SMT, <1>4 DEF IsList
    <3>7. begin \notin DOMAIN new
      BY SMT, <2>3, <1>3, <1>i
    <3>8. \A x \in DOMAIN new : ~(begin - 1 < x /\ x <= p)
      BY SMT, <3>6, <3>7, <1>5, <1>i
    <3>9. Decides(new, p, c)
      BY <3>3, <3>4, <3>6, <3>8, NoEntryBetween
    <3> QED BY <3>2, <3>4, <3>5, <3>9 DEF Says
  <2> QED BY <2>2, <2>3
<1> QED BY <1>4, <1>6, <1>7 DEF new

(* The inductive invariant: the list is one, and says of the memory's      *)
(* pages that they are accessible.                                         *)
PermInv ==
    /\ IsList(permissions)
    /\ size \in 0..MapPages
    /\ \A p \in mapStart..(mapStart + size - 1) : \E v \in {1, 3} : Says(permissions, p, v)

(* Every step keeps the invariant: setPermissions says of the pages that   *)
(* are added that they are accessible, and leaves those before them alone. *)
LEMMA PermStep ==
    ASSUME PermInv, [RangeNext]_rangeVars
    PROVE  PermInv'
<1> USE MapPagesPositive
<1>1. CASE UNCHANGED rangeVars
  BY <1>1 DEF rangeVars, PermInv
<1>2. ASSUME NEW n \in 1..MapPages, commitVirtualPages(n) PROVE PermInv'
  <2> DEFINE begin == mapStart + size
  <2>1. /\ size' = size + n /\ size + n <= MapPages
        /\ permissions' = setPermissions(permissions, begin, begin + n, 1)
    BY <1>2 DEF commitVirtualPages
  <2>2. IsInterval(begin, begin + n) /\ size + n \in 0..MapPages
    BY SMT, <2>1 DEF IsInterval, UINTPTR_MAX, mapEnd, mapStart, PermInv
  <2>3. /\ IsList(permissions')
        /\ \A p \in 0..(begin - 1) : SameAt(permissions, permissions', p)
        /\ \A p \in begin..((begin + n) - 1) : Says(permissions', p, 1)
    BY <2>1, <2>2, SetPermissionsIs DEF PermInv, Perms
  <2>4. ASSUME NEW p \in mapStart..(mapStart + size' - 1) PROVE \E v \in {1, 3} : Says(permissions', p, v)
    <3>1. CASE p < begin
      <4>1. p \in mapStart..(mapStart + size - 1) /\ p \in 0..(begin - 1) /\ p \in Int
        BY SMT, <3>1 DEF mapStart, PermInv
      <4>2. PICK v \in {1, 3} : Says(permissions, p, v)
        BY <4>1 DEF PermInv
      <4>3. Says(permissions', p, v)
        BY <4>1, <4>2, <2>3, SaysToo DEF PermInv
      <4> QED BY <4>3
    <3>2. CASE ~(p < begin)
      <4>1. p \in begin..((begin + n) - 1)
        BY SMT, <3>2, <2>1 DEF mapStart, PermInv
      <4> QED BY <4>1, <2>3
    <3> QED BY <3>1, <3>2
  <2> QED BY <2>1, <2>2, <2>3, <2>4 DEF PermInv
<1>3. ASSUME NEW n \in 1..MapPages, decommitVirtualPages(n) PROVE PermInv'
  <2> DEFINE begin == mapStart + size - n
             end == mapStart + size
  <2>1. /\ size' = size - n /\ n <= size
        /\ permissions' = setPermissions(permissions, begin, end, 0)
    BY <1>3 DEF decommitVirtualPages
  <2>2. IsInterval(begin, end) /\ size - n \in 0..MapPages
    BY SMT, <2>1 DEF IsInterval, UINTPTR_MAX, mapEnd, mapStart, PermInv
  <2>3. /\ IsList(permissions')
        /\ \A p \in 0..(begin - 1) : SameAt(permissions, permissions', p)
    BY <2>1, <2>2, SetPermissionsIs DEF PermInv, Perms
  <2>4. ASSUME NEW p \in mapStart..(mapStart + size' - 1) PROVE \E v \in {1, 3} : Says(permissions', p, v)
    <3>1. p \in mapStart..(mapStart + size - 1) /\ p \in 0..(begin - 1) /\ p \in Int
      BY SMT, <2>1 DEF mapStart, PermInv
    <3>2. PICK v \in {1, 3} : Says(permissions, p, v)
      BY <3>1 DEF PermInv
    <3>3. Says(permissions', p, v)
      BY <3>1, <3>2, <2>3, SaysToo DEF PermInv
    <3> QED BY <3>3
  <2> QED BY <2>1, <2>2, <2>3, <2>4 DEF PermInv
<1>4. ASSUME NEW n \in 1..MapPages, restore(n) PROVE PermInv'
  <2>1. /\ size' = n
        /\ permissions' = setPermissions(resetPermissions, mapStart, mapStart + n, 3)
    BY <1>4 DEF restore
  <2>2. IsInterval(mapStart, mapStart + n) /\ n \in 0..MapPages
    BY SMT DEF IsInterval, UINTPTR_MAX, mapEnd, mapStart
  <2>3. /\ IsList(permissions')
        /\ \A p \in mapStart..((mapStart + n) - 1) : Says(permissions', p, 3)
    BY <2>1, <2>2, ResetIsList, SetPermissionsIs DEF Perms
  <2>4. mapStart + n - 1 = (mapStart + n) - 1
    BY SMT DEF mapStart
  <2> QED BY <2>1, <2>2, <2>3, <2>4 DEF PermInv
<1>5. ASSUME NEW addr \in PageAddresses, sigbusHandler(addr) PROVE PermInv'
  BY <1>5 DEF sigbusHandler, PermInv
<1> QED BY <1>1, <1>2, <1>3, <1>4, <1>5 DEF RangeNext

(* The handler finds the permissions of every page of the memory to be     *)
(* those the page was given (OwnedPagesAccessible), for a range of any     *)
(* size and any sequence of growing, shrinking and restoring: merging and  *)
(* splitting the entries of the list by setPermissions loses none that     *)
(* decides on a page in use.                                               *)
THEOREM PagesStayAccessible == RangeSpec => []OwnedPagesAccessible
<1>1. RangeInit => PermInv
  <2> SUFFICES ASSUME RangeInit PROVE PermInv
    OBVIOUS
  <2>1. \A p \in mapStart..(mapStart + size - 1) : FALSE
    BY SMT DEF RangeInit, mapStart
  <2>2. size \in 0..MapPages
    BY SMT, MapPagesPositive DEF RangeInit
  <2> QED BY <2>1, <2>2, ResetIsList DEF RangeInit, PermInv
<1>2. PermInv => OwnedPagesAccessible
  <2> SUFFICES ASSUME PermInv, NEW p \in PageAddresses, p < mapStart + size
               PROVE  pointerPermissions(permissions, p) # 0
    BY DEF OwnedPagesAccessible
  <2>1. p \in mapStart..(mapStart + size - 1) /\ p \in 0..(UINTPTR_MAX - 1)
    BY SMT, MapPagesPositive DEF PermInv, PageAddresses, mapStart, mapEnd, UINTPTR_MAX
  <2>2. PICK v \in {1, 3} : Says(permissions, p, v)
    BY <2>1 DEF PermInv
  <2>3. pointerPermissions(permissions, p) = v
    BY <2>1, <2>2, PermissionOf DEF PermInv
  <2>4. v # 0
    BY SMT
  <2> QED BY <2>3, <2>4
<1> QED BY <1>1, <1>2, PermStep, PTL DEF RangeSpec
=============================================================================
