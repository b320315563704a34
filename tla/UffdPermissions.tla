--------------------------- MODULE UffdPermissions ---------------------------
(***************************************************************************)
(* One range of the userfaultfd memory arena (UffdMemoryRange) under the   *)
(* life of the wasm memory it backs: the list of permissions, the pages    *)
(* with content, and the high-water mark that says how much to discard.    *)
(* The memory grows and shrinks at its end (Runtime::growMemory and        *)
(* Runtime::shrinkMemory of WAVM commit and decommit those pages through   *)
(* WavmUffdHooks), it is restored from snapshots, and guests touch it.     *)
(*                                                                         *)
(* The unit is the wasm page of 64 KiB, which is also FAULT_PAGE_SIZE.     *)
(***************************************************************************)
EXTENDS Integers

CONSTANT MapPages   \* pages in the range (mapBytes)

ASSUME MapPagesPositive == MapPages \in Nat \ {0}

mapStart == 1
mapEnd == mapStart + MapPages
UINTPTR_MAX == mapEnd + 1
PageAddresses == mapStart..(mapEnd - 1)

VARIABLES
    permissions,    \* address |-> permission until the next address listed
    maxUsed,        \* maxUsedBytes
    populated,      \* pages with content, as the kernel sees them
    size,           \* pages of the wasm memory, numPages of WAVM
    discardThrew    \* discardContent has thrown out_of_range

rangeVars == <<permissions, maxUsed, populated, size, discardThrew>>

(***************************************************************************)
(* The permission list                                                     *)
(***************************************************************************)
resetPermissions == [addr \in {0, UINTPTR_MAX} |-> 0]

(* flat_map::emplace leaves an entry that is there alone. *)
Emplace(list, addr, perm) ==
    [a \in DOMAIN list \cup {addr} |-> IF a \in DOMAIN list THEN list[a] ELSE perm]

(* Mutant: the last page of the interval keeps what follows it. *)
setPermissions_OffByOne(list, begin, end, perms) ==
    [a \in {x \in DOMAIN list : x < begin \/ x >= end} \cup {begin, end - 1} |->
        IF a = begin THEN perms ELSE IF a = end - 1 THEN 0 ELSE list[a]]

(* The pass over the old list, at one entry: entries outside of            *)
(* [begin, end) are kept unless they repeat the permission of the old      *)
(* entry before them, and the new interval is opened at the first entry at *)
(* or after begin.                                                         *)
Visit(list, begin, end, perms, acc, addr) ==
    LET opens == ~acc.beginDone /\ addr >= begin
        outside == addr < begin \/ addr >= end
        kept == outside /\ (list[addr] # acc.lastPerm \/ addr = UINTPTR_MAX)
        opened == IF opens /\ acc.lastPerm # perms
                  THEN Emplace(acc.out, begin, perms) ELSE acc.out
    IN [out |-> IF kept THEN Emplace(opened, addr, list[addr]) ELSE opened,
        lastPerm |-> list[addr],
        endPerm |-> IF outside THEN acc.endPerm ELSE list[addr],
        needsEnd |-> acc.needsEnd /\ ~(outside /\ addr = end),
        beginDone |-> acc.beginDone \/ opens]

(* The pass in address order; Pass[n] is after the entries below n. *)
PassOver(list, begin, end, perms) ==
    LET Pass[n \in 0..(UINTPTR_MAX + 1)] ==
            IF n = 0
            THEN [out |-> <<>>, lastPerm |-> -1, endPerm |-> list[0],
                  needsEnd |-> TRUE, beginDone |-> FALSE]
            ELSE IF n - 1 \in DOMAIN list
                 THEN Visit(list, begin, end, perms, Pass[n - 1], n - 1)
                 ELSE Pass[n - 1]
    IN Pass

(* The new interval is closed with the last permission it hides. *)
setPermissions(list, begin, end, perms) ==
    LET done == PassOver(list, begin, end, perms)[UINTPTR_MAX + 1]
    IN IF done.needsEnd THEN Emplace(done.out, end, done.endPerm) ELSE done.out

(* The entry before the first one above addr. *)
pointerPermissions(list, addr) ==
    LET below == {a \in DOMAIN list : a <= addr}
    IN IF below = {} \/ \A a \in DOMAIN list : a <= addr
       THEN 0
       ELSE list[CHOOSE a \in below : \A b \in below : b <= a]

Larger(a, b) == IF a >= b THEN a ELSE b

(***************************************************************************)
(* Operations                                                              *)
(***************************************************************************)
RangeInit ==
    /\ permissions = resetPermissions
    /\ maxUsed = 0
    /\ populated = {}
    /\ size = 0
    /\ discardThrew = FALSE

(* commitVirtualPages for the pages a memory grows by. *)
commitVirtualPages(n) ==
    LET begin == mapStart + size
    IN /\ size + n <= MapPages
       /\ size' = size + n
       /\ permissions' = setPermissions(permissions, begin, begin + n, 1)
       /\ maxUsed' = Larger(maxUsed, size + n)
       /\ UNCHANGED <<populated, discardThrew>>

(* decommitVirtualPages for the pages a memory shrinks by: numPages is     *)
(* already lowered when discardContent throws, which it does for a region  *)
(* that begins at mapStart.                                                *)
decommitVirtualPages(n) ==
    LET begin == mapStart + size - n
        end == mapStart + size
    IN /\ n <= size
       /\ size' = size - n
       /\ permissions' = setPermissions(permissions, begin, end, 0)
       /\ maxUsed' = Larger(maxUsed, size)
       /\ IF begin <= mapStart
          THEN discardThrew' = TRUE /\ UNCHANGED populated
          ELSE populated' = populated \ (begin..(end - 1)) /\ UNCHANGED discardThrew

(* setMemorySize: the mark and the pages after growing or shrinking to n.  *)
setMemorySize(n) ==
    [used |-> IF n = size THEN maxUsed ELSE Larger(maxUsed, Larger(size, n)),
     pages |-> populated \ ((mapStart + n)..(mapStart + size - 1))]

(* WasmModule::restore of a snapshot of n pages: the memory gets its size, *)
(* permissions start over and contents are discarded up to the high-water  *)
(* mark.  Reading the snapshot in then faults page after page              *)
(* (sigbusHandler).                                                        *)
restore(n) ==
    /\ size' = n
    /\ permissions' = setPermissions(resetPermissions, mapStart, mapStart + n, 3)
    /\ populated' = {p \in setMemorySize(n).pages : p >= mapStart + setMemorySize(n).used}
    /\ maxUsed' = n
    /\ UNCHANGED discardThrew

(* Mutant: the handler populates the page and does not record it. *)
sigbusHandler_NoTouch(addr) ==
    /\ addr \notin populated
    /\ pointerPermissions(permissions, addr) # 0
    /\ populated' = populated \cup {addr}
    /\ UNCHANGED <<permissions, maxUsed, size, discardThrew>>

(* A first access to a page; without permission the thread gets a SIGSEGV  *)
(* and nothing changes here.                                               *)
sigbusHandler(addr) ==
    /\ addr \notin populated
    /\ pointerPermissions(permissions, addr) # 0
    /\ populated' = populated \cup {addr}
    /\ maxUsed' = Larger(maxUsed, addr - mapStart + 1)
    /\ UNCHANGED <<permissions, size, discardThrew>>

RangeNext ==
    \/ \E n \in 1..MapPages : commitVirtualPages(n) \/ decommitVirtualPages(n) \/ restore(n)
    \/ \E addr \in PageAddresses : sigbusHandler(addr)

(***************************************************************************)
(* Properties                                                              *)
(***************************************************************************)
(* The list keeps the two sentinels every lookup relies on; the mark and   *)
(* the populated pages stay in the range.                                  *)
RangeTypeOK ==
    /\ {0, UINTPTR_MAX} \subseteq DOMAIN permissions
    /\ DOMAIN permissions \subseteq 0..UINTPTR_MAX
    /\ \A a \in DOMAIN permissions : permissions[a] \in {0, 1, 3}
    /\ maxUsed \in 0..MapPages /\ size \in 0..MapPages
    /\ populated \subseteq PageAddresses
    /\ discardThrew \in BOOLEAN

(* No page of the guest's memory ever faults as out of bounds, whatever    *)
(* growth, shrinking and restores came before.                             *)
OwnedPagesAccessible ==
    \A p \in PageAddresses :
        p < mapStart + size => pointerPermissions(permissions, p) # 0

(* restore discards every page with content: none is above the mark that   *)
(* discardAll goes by, so nothing of an earlier run survives a restore.    *)
UsedCoversPopulated == \A p \in populated : p < mapStart + maxUsed

(* "key = starting address, value = permissions until next address on the  *)
(* list": the interval set for the memory ends where the memory ends, and  *)
(* an access behind it is the handler's "out of bounds access".            *)
NoPermissionBeyondMemory ==
    \A p \in PageAddresses :
        p >= mapStart + size => pointerPermissions(permissions, p) = 0

(* "Discard UFFD range out of bounds" is said of regions out of bounds     *)
(* only; every region decommitted here lies inside its range.              *)
DiscardThrowsOnlyOutOfBounds == ~discardThrew
=============================================================================
