------------------------------ MODULE UffdArena ------------------------------
(***************************************************************************)
(* UffdMemoryArenaManager: the set of userfaultfd ranges that every thread *)
(* of the process allocates from, modifies and frees, and that the SIGBUS  *)
(* handler searches without taking the manager's lock.  The set is copied, *)
(* changed and exchanged under mx; readers hold counted references to the  *)
(* copy they started with, and the writer spins until the old copy has no  *)
(* reader.  A range is unmapped when its last reference goes.              *)
(*                                                                         *)
(* The sections under a range's own lock are atomic here: whoever holds    *)
(* that lock takes no other one before releasing it.                       *)
(*                                                                         *)
(* WAVM frees a memory only when no function runs in it: the environment   *)
(* does not free a slot while another operation on it is under way.        *)
(***************************************************************************)
EXTENDS Integers, FiniteSets

CONSTANTS Threads, Ranges, MaxSlot, None

Slots == 1..MaxSlot   \* places in the address space that a range can occupy

ASSUME NoneIsFresh == MaxSlot \in Nat /\ None \notin Threads \cup Ranges \cup Slots

VARIABLES
    pc,         \* where each thread is in its operation
    target,     \* the slot its operation is about
    holds,      \* the range it holds a shared_ptr to
    snap,       \* its rangesSnapshot(): none, the current set or the replaced one
    newRanges,  \* the copy it is changing
    cache,      \* thread_local rangeCache, a weak_ptr
    mx,         \* who holds the manager's lock
    ranges,     \* the published set
    oldRanges,  \* the set updateRanges waits on
    place,      \* place[r]: the slot r is mapped at
    registered, \* ranges registered with the userfaultfd
    perm,       \* whether a range's pages have permissions
    live        \* slots handed out by allocateRange and not yet freed

arenaVars == <<pc, target, holds, snap, newRanges, cache, mx, ranges, oldRanges,
          place, registered, perm, live>>

ArenaInit ==
    /\ pc = [t \in Threads |-> "idle"]
    /\ target = [t \in Threads |-> None]
    /\ holds = [t \in Threads |-> None]
    /\ snap = [t \in Threads |-> "none"]
    /\ newRanges = [t \in Threads |-> {}]
    /\ cache = [t \in Threads |-> None]
    /\ mx = None
    /\ ranges = {} /\ oldRanges = {}
    /\ place = [r \in Ranges |-> None]
    /\ registered = {}
    /\ perm = [r \in Ranges |-> FALSE]
    /\ live = {}

(* Some shared_ptr to r exists. *)
Referenced(r) ==
    \/ r \in ranges \cup oldRanges
    \/ \E t \in Threads : r = holds[t] \/ r \in newRanges[t]

(* ~UffdMemoryRange with the last reference; weak references expire.  The  *)
(* conjuncts before it say which references are left.                      *)
DropReferences ==
    LET kept == {r \in Ranges : Referenced(r)'}
    IN /\ place' = [r \in Ranges |-> IF r \in kept THEN place[r] ELSE None]
       /\ cache' = [t \in Threads |-> IF cache[t] \in kept THEN cache[t] ELSE None]

(* RangeSet::find with UffdMemoryRangeLess: the range at the address.  The *)
(* comparison of an address with a range is that of the range with the     *)
(* address, so for an address in no range the next one above is returned.  *)
Find(S, s) ==
    LET above == {r \in S : place[r] >= s}
    IN IF above = {} THEN None
       ELSE CHOOSE r \in above : \A q \in above : place[r] <= place[q]

Goto(t, l) == pc' = [pc EXCEPT ![t] = l]
Hold(t, r) == holds' = [holds EXCEPT ![t] = r]

(* Return from an operation: the locals go out of scope. *)
Return(t) ==
    /\ Goto(t, "idle")
    /\ target' = [target EXCEPT ![t] = None]
    /\ Hold(t, None)
    /\ snap' = [snap EXCEPT ![t] = "none"]
    /\ newRanges' = [newRanges EXCEPT ![t] = {}]

(***************************************************************************)
(* updateRanges                                                            *)
(***************************************************************************)
(* The exchange: whoever reads the current set now reads the replaced one. *)
Exchange(t, S) ==
    /\ ranges' = S
    /\ oldRanges' = ranges
    /\ snap' = [u \in Threads |-> IF snap[u] = "current" THEN "old" ELSE snap[u]]
    /\ Goto(t, "drain")

(* Mutant: readers of the new set are waited for too. *)
Drain_AnyReader(t) ==
    /\ pc[t] = "drain"
    /\ \A u \in Threads : snap[u] = "none"
    /\ oldRanges' = {}
    /\ mx' = None
    /\ live' = live \cup {s \in Slots : s = target[t] /\ holds[t] # None}
    /\ Return(t)
    /\ UNCHANGED <<ranges, registered, perm>>
    /\ DropReferences

(* use_count() is down to one: the old set is destroyed and mx released. *)
Drain(t) ==
    /\ pc[t] = "drain"
    /\ \A u \in Threads : snap[u] # "old"
    /\ oldRanges' = {}
    /\ mx' = None
    /\ live' = live \cup {s \in Slots : s = target[t] /\ holds[t] # None}
    /\ Return(t)
    /\ UNCHANGED <<ranges, registered, perm>>
    /\ DropReferences

(***************************************************************************)
(* allocateRange                                                           *)
(***************************************************************************)
(* The constructor maps a part of the address space that is free. *)
MapRange(t, r, s) ==
    /\ pc[t] = "idle"
    /\ place[r] = None
    /\ \A q \in Ranges : place[q] # s
    /\ place' = [place EXCEPT ![r] = s]
    /\ perm' = [perm EXCEPT ![r] = FALSE]
    /\ target' = [target EXCEPT ![t] = s]
    /\ Hold(t, r)
    /\ Goto(t, "allocate")
    /\ UNCHANGED <<snap, newRanges, cache, mx, ranges, oldRanges, registered, live>>

CopyForInsert(t) ==
    /\ pc[t] = "allocate"
    /\ mx = None
    /\ mx' = t
    /\ registered' = registered \cup {holds[t]}
    /\ newRanges' = [newRanges EXCEPT ![t] = ranges]
    /\ Goto(t, "insert")
    /\ UNCHANGED <<target, holds, snap, cache, ranges, oldRanges, place, perm, live>>

Insert(t) ==
    /\ pc[t] = "insert"
    /\ Exchange(t, newRanges[t] \cup {holds[t]})
    /\ UNCHANGED <<target, holds, newRanges, cache, mx, place, registered, perm, live>>

(***************************************************************************)
(* modifyRange                                                             *)
(***************************************************************************)
(* The snapshot stays referenced until the function returns.  A pointer    *)
(* that is in no range and above them all throws at once.                  *)
ModifyFind(t, s) ==
    /\ pc[t] = "idle"
    /\ Find(ranges, s) # None
    /\ snap' = [snap EXCEPT ![t] = "current"]
    /\ target' = [target EXCEPT ![t] = s]
    /\ Hold(t, Find(ranges, s))
    /\ Goto(t, "modify")
    /\ UNCHANGED <<newRanges, cache, mx, ranges, oldRanges, place, registered, perm, live>>

(* Under the range's lock: the action sets or removes permissions if the   *)
(* pointer is in the range, and the function throws if it is not.          *)
Modify(t) ==
    /\ pc[t] = "modify"
    /\ \E b \in BOOLEAN :
          perm' = IF place[holds[t]] = target[t] THEN [perm EXCEPT ![holds[t]] = b] ELSE perm
    /\ Return(t)
    /\ UNCHANGED <<mx, ranges, oldRanges, registered, live>>
    /\ DropReferences

(***************************************************************************)
(* freeRange                                                               *)
(***************************************************************************)
CopyForErase(t, s) ==
    /\ pc[t] = "idle"
    /\ s \in live
    /\ \A u \in Threads : target[u] # s
    /\ mx = None
    /\ mx' = t
    /\ live' = live \ {s}
    /\ target' = [target EXCEPT ![t] = s]
    /\ newRanges' = [newRanges EXCEPT ![t] = ranges]
    /\ Goto(t, "unregister")
    /\ UNCHANGED <<holds, snap, cache, ranges, oldRanges, place, registered, perm>>

(* Under the range's lock. *)
Unregister(t) ==
    /\ pc[t] = "unregister"
    /\ LET r == Find(newRanges[t], target[t])
       IN /\ registered' = registered \ {r}
          /\ perm' = [perm EXCEPT ![r] = FALSE]
    /\ Goto(t, "erase")
    /\ UNCHANGED <<target, holds, snap, newRanges, cache, mx, ranges, oldRanges, place, live>>

Erase(t) ==
    /\ pc[t] = "erase"
    /\ LET rest == newRanges[t] \ {Find(newRanges[t], target[t])}
       IN /\ Exchange(t, rest)
          /\ newRanges' = [newRanges EXCEPT ![t] = rest]
    /\ UNCHANGED <<target, holds, cache, mx, place, registered, perm, live>>

(***************************************************************************)
(* sigbusHandler                                                           *)
(***************************************************************************)
(* Mutant: a cached range is used whatever the address. *)
Fault_AnyCached(t, s) ==
    /\ pc[t] = "idle"
    /\ s \in live
    /\ target' = [target EXCEPT ![t] = s]
    /\ \/ /\ cache[t] # None
          /\ Hold(t, cache[t])
          /\ Goto(t, "check")
          /\ UNCHANGED snap
       \/ /\ cache[t] = None
          /\ snap' = [snap EXCEPT ![t] = "current"]
          /\ Goto(t, "search")
          /\ UNCHANGED holds
    /\ UNCHANGED <<newRanges, cache, mx, ranges, oldRanges, place, registered, perm, live>>

(* A first access to a page: the cached range if it is the one, or else a  *)
(* snapshot of the set.                                                    *)
Fault(t, s) ==
    /\ pc[t] = "idle"
    /\ s \in live
    /\ target' = [target EXCEPT ![t] = s]
    /\ \/ /\ cache[t] # None /\ place[cache[t]] = s
          /\ Hold(t, cache[t])
          /\ Goto(t, "check")
          /\ UNCHANGED snap
       \/ /\ cache[t] # None => place[cache[t]] # s
          /\ snap' = [snap EXCEPT ![t] = "current"]
          /\ Goto(t, "search")
          /\ UNCHANGED holds
    /\ UNCHANGED <<newRanges, cache, mx, ranges, oldRanges, place, registered, perm, live>>

(* The snapshot is released with the block it is local to.  Not found:     *)
(* exit(1).                                                                *)
Search(t) ==
    /\ pc[t] = "search"
    /\ LET r == Find(IF snap[t] = "old" THEN oldRanges ELSE ranges, target[t])
       IN /\ Hold(t, r)
          /\ cache' = [cache EXCEPT ![t] = r]
          /\ Goto(t, IF r = None THEN "exit" ELSE "check")
    /\ snap' = [snap EXCEPT ![t] = "none"]
    /\ UNCHANGED <<target, newRanges, mx, ranges, oldRanges, place, registered, perm, live>>

(* Under the range's lock: no permission is a SIGSEGV, which ends the call *)
(* the thread is making.                                                   *)
Check(t) ==
    /\ pc[t] = "check"
    /\ \/ /\ perm[holds[t]]
          /\ Goto(t, "populate")
          /\ UNCHANGED <<target, holds, snap, newRanges, cache, place>>
       \/ /\ ~perm[holds[t]]
          /\ Return(t)
          /\ UNCHANGED <<ranges, oldRanges>>
          /\ DropReferences
    /\ UNCHANGED <<mx, ranges, oldRanges, registered, perm, live>>

(* copyPages or zeroPages, after the lock was released. *)
Populate(t) ==
    /\ pc[t] = "populate"
    /\ Return(t)
    /\ UNCHANGED <<mx, ranges, oldRanges, registered, perm, live>>
    /\ DropReferences

Step(t) ==
    \/ CopyForInsert(t) \/ Insert(t) \/ Modify(t) \/ Unregister(t) \/ Erase(t)
    \/ Drain(t) \/ Search(t) \/ Check(t) \/ Populate(t)

Begin(t) ==
    \/ \E r \in Ranges, s \in Slots : MapRange(t, r, s)
    \/ \E s \in Slots : ModifyFind(t, s) \/ CopyForErase(t, s) \/ Fault(t, s)

ArenaNext == \E t \in Threads : Begin(t) \/ Step(t)

(* A thread that is inside an operation goes on with it. *)
ArenaFairness == \A t \in Threads : WF_arenaVars(Step(t))

(***************************************************************************)
(* Properties                                                              *)
(***************************************************************************)
(* Every variable has its type: sets hold ranges, threads hold at most one *)
(* range and one lock, a range is at one place of the address space.       *)
ArenaTypeOK ==
    /\ pc \in [Threads -> {"idle", "allocate", "insert", "drain", "modify", "unregister",
                           "erase", "search", "check", "populate", "exit"}]
    /\ target \in [Threads -> Slots \cup {None}]
    /\ holds \in [Threads -> Ranges \cup {None}]
    /\ cache \in [Threads -> Ranges \cup {None}]
    /\ snap \in [Threads -> {"none", "current", "old"}]
    /\ newRanges \in [Threads -> SUBSET Ranges]
    /\ mx \in Threads \cup {None}
    /\ ranges \subseteq Ranges /\ oldRanges \subseteq Ranges /\ registered \subseteq Ranges
    /\ place \in [Ranges -> Slots \cup {None}]
    /\ perm \in [Ranges -> BOOLEAN]
    /\ live \subseteq Slots

(* The handler judges an access by the range it is in, through whatever    *)
(* cached reference or old copy of the set it found that range, also when  *)
(* the address was another range's before.                                 *)
HandlerFindsOwner ==
    \A t \in Threads :
        pc[t] \in {"check", "populate"} =>
            place[holds[t]] = target[t] /\ holds[t] \in ranges

(* "Don't hold a reference to old ranges or a deadlock will happen": an    *)
(* update that waits for the readers of the old set gets to its end, so    *)
(* again and again none is waiting.                                        *)
UpdateEnds == []<>(\A t \in Threads : pc[t] # "drain")
=============================================================================
