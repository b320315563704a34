----------------------------- MODULE WasmMemory ------------------------------
(***************************************************************************)
(* The linear memory of a WasmModule that several guest threads map and    *)
(* unmap: growMemory and shrinkMemory work under moduleMutex, unmapMemory  *)
(* looks at the size before it takes it, mapSharedStateMemory has a lock   *)
(* of its own around growMemory.  Sizes are in bytes, in words that wrap.  *)
(***************************************************************************)
EXTENDS Integers, FiniteSets

CONSTANTS
    Threads,        \* guest threads of the module
    SerialUnmap,    \* the guest calls munmap while no other thread maps
    Keys,           \* shared state segments
    PageBytes,      \* WASM_BYTES_PER_PAGE
    Word,           \* 2^32: one more than UINT32_MAX
    MaxPages,       \* getMaxMemoryPages
    MaxLength,      \* the longest mapping asked for
    PoolSize,       \* the most thread stacks that are added
    Nil

ASSUME PagesFitWord ==
    /\ PageBytes \in Nat \ {0} /\ Word % PageBytes = 0
    /\ Word \in Nat /\ PageBytes < Word /\ MaxPages \in Nat \ {0} /\ MaxLength \in Nat
    /\ MaxPages * PageBytes <= Word /\ MaxLength < Word
    /\ SerialUnmap \in BOOLEAN

(* What stands for nothing is neither an address nor a thread or a key.    *)
ASSUME NamesApart ==
    Nil \notin Nat /\ Nil \notin Threads \cup Keys /\ Threads \cap Keys = {}

Lengths == 1..MaxLength

VARIABLES
    size,           \* getMemorySizeBytes, and so getCurrentBrk
    regions,        \* what the guest was told is mapped for it
    stacks,         \* threadStacks: number of stacks made so far
    segments,       \* sharedMemWasmPtrs: key |-> base, Nil if absent
    segmentLock,    \* who holds sharedMemWasmPtrsMutex
    pc, work        \* where a thread is in an operation, and its operands

memoryVars == <<size, regions, stacks, segments, segmentLock, pc, work>>

Region(t, base, len) == [by |-> t, base |-> base, len |-> len]

MemoryInit ==
    /\ size = PageBytes
    /\ regions = {}
    /\ stacks = 0
    /\ segments = [k \in Keys |-> Nil]
    /\ segmentLock = Nil
    /\ pc = [t \in Threads |-> "idle"]
    /\ work = [t \in Threads |-> Nil]

getNumberOfWasmPagesForBytes(n) == (n + PageBytes - 1) \div PageBytes

(* The product of pages and page size is cut to 32 bits. *)
roundUpToWasmPageAligned(n) == (getNumberOfWasmPagesForBytes(n) * PageBytes) % Word

(* growMemory throws beyond these. *)
CanGrow(n) == size + n < Word /\ getNumberOfWasmPagesForBytes(size + n) <= MaxPages

(* Grow by a multiple of the page size; base is what is returned.  A       *)
(* growth by nothing returns the current size.                             *)
growMemory(n, base) ==
    /\ CanGrow(n)
    /\ size' = size + n
    /\ base = size

Idle(t) ==
    /\ pc[t] = "idle"
    /\ SerialUnmap => \A u \in Threads : pc[u] # "shrink"

(***************************************************************************)
(* Operations that take moduleMutex for all they do                        *)
(***************************************************************************)
(* executeTask adds stacks until its place in the thread pool has one, a   *)
(* guard region on either side of each.                                    *)
addThreadStack(t) ==
    /\ Idle(t)
    /\ stacks < PoolSize
    /\ stacks' = stacks + 1
    /\ \E base \in 0..(Word - 1) :
          /\ growMemory(3 * PageBytes, base)
          /\ regions' = regions \cup {Region(Nil, base, 3 * PageBytes)}
    /\ UNCHANGED <<segments, segmentLock, pc, work>>

(* doMmap without a file, __faasmndp_mmap.  mmapFile maps the same region  *)
(* and puts a file in its place.                                           *)
mmapMemory(t, len) ==
    /\ Idle(t)
    /\ \E base \in 0..(Word - 1) :
          /\ growMemory(roundUpToWasmPageAligned(len), base)
          /\ regions' = regions \cup {Region(t, base, len)}
    /\ UNCHANGED <<stacks, segments, segmentLock, pc, work>>

(* __sbrk, page-aligned as its comment has it.  The guest lowers the break *)
(* only over memory that is not mapped for something else.                 *)
sbrk(t, pages) ==
    LET n == pages * PageBytes
    IN /\ Idle(t)
       /\ \/ /\ pages > 0
             /\ CanGrow(n)
             /\ size' = size + n
          \/ /\ pages < 0
             /\ size + n > 0
             /\ \A r \in regions : r.base + r.len <= size + n
             /\ size' = size + n
       /\ UNCHANGED <<regions, stacks, segments, segmentLock, pc, work>>

(***************************************************************************)
(* unmapMemory                                                             *)
(***************************************************************************)
(* Mutant: memory is reclaimed wherever the region lies. *)
UnmapCheck_Anywhere(t, r) ==
    LET bytes == roundUpToWasmPageAligned(r.len)
        top == (r.base + bytes) % Word
    IN /\ Idle(t)
       /\ SerialUnmap => \A u \in Threads : pc[u] = "idle"
       /\ r \in regions /\ r.by = t
       /\ regions' = regions \ {r}
       /\ pc' = [pc EXCEPT ![t] = "shrink"]
       /\ work' = [work EXCEPT ![t] = [top |-> top, bytes |-> bytes]]
       /\ UNCHANGED <<size, stacks, segments, segmentLock>>

(* The guest gives up a region of its own.  Its end is compared with the   *)
(* size; below the end of memory nothing is reclaimed.                     *)
UnmapCheck(t, r) ==
    LET bytes == roundUpToWasmPageAligned(r.len)
        top == (r.base + bytes) % Word
    IN /\ Idle(t)
       /\ SerialUnmap => \A u \in Threads : pc[u] = "idle"
       /\ r \in regions /\ r.by = t
       /\ top <= MaxPages * PageBytes
       /\ regions' = regions \ {r}
       /\ \/ /\ top = size
             /\ pc' = [pc EXCEPT ![t] = "shrink"]
             /\ work' = [work EXCEPT ![t] = [top |-> top, bytes |-> bytes]]
          \/ /\ top # size
             /\ UNCHANGED <<pc, work>>
       /\ UNCHANGED <<size, stacks, segments, segmentLock>>

(* shrinkMemory takes moduleMutex only now, and shrinks what is then the   *)
(* end of memory.                                                          *)
UnmapShrink(t) ==
    /\ pc[t] = "shrink"
    /\ work[t].bytes <= size
    /\ size' = size - work[t].bytes
    /\ pc' = [pc EXCEPT ![t] = "idle"]
    /\ work' = [work EXCEPT ![t] = Nil]
    /\ UNCHANGED <<regions, stacks, segments, segmentLock>>

(***************************************************************************)
(* mapSharedStateMemory                                                    *)
(***************************************************************************)
(* The first count() is not under the lock: a key that another thread is   *)
(* just inserting may or may not be seen.                                  *)
SegmentCount(t, k) ==
    /\ Idle(t)
    /\ work' = [work EXCEPT ![t] = k]
    /\ \/ /\ segments[k] = Nil
          /\ pc' = [pc EXCEPT ![t] = "segmentLock"]
       \/ /\ segments[k] # Nil
             \/ \E u \in Threads : pc[u] = "segmentInsert" /\ work[u] = k
          /\ pc' = [pc EXCEPT ![t] = "segmentRead"]
    /\ UNCHANGED <<size, regions, stacks, segments, segmentLock>>

(* Mutant: the key is not looked up again under the lock. *)
SegmentLocked_NoRecheck(t) ==
    /\ pc[t] = "segmentLock"
    /\ segmentLock = Nil
    /\ segmentLock' = t
    /\ \E base \in 0..(Word - 1) :
          /\ growMemory(PageBytes, base)
          /\ regions' = regions \cup {Region(work[t], base, PageBytes)}
    /\ pc' = [pc EXCEPT ![t] = "segmentInsert"]
    /\ UNCHANGED <<stacks, segments, work>>

(* Lock and double check; map a page for the segment. *)
SegmentLocked(t) ==
    /\ pc[t] = "segmentLock"
    /\ segmentLock = Nil
    /\ \/ /\ segments[work[t]] # Nil
          /\ pc' = [pc EXCEPT ![t] = "segmentRead"]
          /\ UNCHANGED <<size, regions, segmentLock>>
       \/ /\ segments[work[t]] = Nil
          /\ segmentLock' = t
          /\ \E base \in 0..(Word - 1) :
                /\ growMemory(PageBytes, base)
                /\ regions' = regions \cup {Region(work[t], base, PageBytes)}
          /\ pc' = [pc EXCEPT ![t] = "segmentInsert"]
    /\ UNCHANGED <<stacks, segments, work>>

(* Out of memory: growMemory throws, the lock goes with the exception. *)
SegmentFails(t) ==
    /\ pc[t] = "segmentLock"
    /\ segmentLock = Nil
    /\ segments[work[t]] = Nil
    /\ ~CanGrow(PageBytes)
    /\ pc' = [pc EXCEPT ![t] = "idle"]
    /\ work' = [work EXCEPT ![t] = Nil]
    /\ UNCHANGED <<size, regions, stacks, segments, segmentLock>>

SegmentInsert(t) ==
    /\ pc[t] = "segmentInsert"
    /\ \E r \in regions :
          /\ r.by = work[t]
          /\ segments' = [segments EXCEPT ![work[t]] = r.base]
    /\ segmentLock' = Nil
    /\ pc' = [pc EXCEPT ![t] = "segmentRead"]
    /\ UNCHANGED <<size, regions, stacks, work>>

(* The pointer is read under a shared lock. *)
SegmentRead(t) ==
    /\ pc[t] = "segmentRead"
    /\ segmentLock = Nil
    /\ pc' = [pc EXCEPT ![t] = "idle"]
    /\ work' = [work EXCEPT ![t] = Nil]
    /\ UNCHANGED <<size, regions, stacks, segments, segmentLock>>

MemoryNext ==
    \E t \in Threads :
          \/ addThreadStack(t)
          \/ \E len \in Lengths : mmapMemory(t, len)
          \/ \E pages \in {-1, 1} : sbrk(t, pages)
          \/ \E r \in regions : UnmapCheck(t, r)
          \/ UnmapShrink(t)
          \/ \E k \in Keys : SegmentCount(t, k)
          \/ SegmentLocked(t) \/ SegmentFails(t) \/ SegmentInsert(t) \/ SegmentRead(t)

(***************************************************************************)
(* Properties                                                              *)
(***************************************************************************)
(* The size is a whole number of pages within the maximum.                 *)
MemoryTypeOK ==
    /\ size \in {p * PageBytes : p \in 0..MaxPages}
    /\ \A r \in regions : r.base \in 0..(Word - 1) /\ r.len \in 1..(Word - 1)
    /\ stacks \in 0..PoolSize
    /\ segmentLock \in Threads \cup {Nil}
    /\ \A k \in Keys : segments[k] = Nil \/ segments[k] \in 0..(Word - 1)
    /\ pc \in [Threads -> {"idle", "shrink", "segmentLock", "segmentInsert", "segmentRead"}]

(* What two threads, thread stacks and shared segments were given never    *)
(* overlaps, and stays inside memory until it is given back, provided that *)
(* no thread maps memory while another unmaps.                             *)
RegionsApart ==
    SerialUnmap =>
    /\ \A r \in regions : r.base + r.len <= size
    /\ \A r, q \in regions :
          r # q => r.base + r.len <= q.base \/ q.base + q.len <= r.base

(* A segment of state is mapped once however many threads ask for it, and  *)
(* every thread that gets to read its pointer finds one.                   *)
SegmentMappedOnce ==
    /\ \A r, q \in regions : r.by \in Keys /\ r.by = q.by => r = q
    /\ \A t \in Threads :
          pc[t] = "segmentRead" /\ segmentLock = Nil => segments[work[t]] # Nil

(* "The mmap interface allows non page-aligned values, and rounds up": a   *)
(* mapping that succeeds has at least the length asked for.                *)
MappingHasItsLength ==
    [][\A r \in regions' \ regions : size' - size >= r.len]_memoryVars

(* "Check shrinking memory reduces brk but not size": no step makes memory *)
(* smaller.                                                                *)
ShrinkKeepsSize == [][size' >= size]_memoryVars

(* "Check unmapping elsewhere cannot reclaim memory": a munmap lowers the  *)
(* size only if its region is at the end of memory.                        *)
UnmapReclaimsOnlyTop ==
    [][\A t \in Threads :
          pc[t] = "shrink" /\ pc'[t] = "idle" /\ size' < size => work[t].top = size]_memoryVars
=============================================================================
