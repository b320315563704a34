------------------------- MODULE WasmModulesProofs --------------------------
(***************************************************************************)
(* Proofs about the modules of a worker: their memory (WasmMemory), their  *)
(* cache (ModuleCache) and the enclave that runs them (Enclave).           *)
(***************************************************************************)
EXTENDS ModuleCache, WasmMemory, Enclave, TLAPS

(* Steps are left to Zenon unless they name SMT, which has the arithmetic. *)
USE Zenon

(***************************************************************************)
(* Memory                                                                  *)
(***************************************************************************)
(* A whole number of wasm pages.                                           *)
Aligned(n) == \E k \in Nat : n = k * PageBytes

(* Lengths whose rounding up to pages does not wrap.                       *)
NoWrap == MaxLength + PageBytes <= Word

(* Page and word sizes are positive numbers.                               *)
LEMMA PageFacts ==
    PageBytes \in Nat /\ PageBytes > 0 /\ Word \in Nat /\ Word > 0 /\ MaxLength \in Nat
BY SMT, PagesFitWord

(* Rounding up gives whole pages that hold the length and are less than a  *)
(* page longer.                                                            *)
LEMMA RoundsUp ==
    ASSUME NoWrap, NEW n \in Lengths
    PROVE  /\ roundUpToWasmPageAligned(n) \in Nat
           /\ roundUpToWasmPageAligned(n) >= n
           /\ roundUpToWasmPageAligned(n) < n + PageBytes
           /\ Aligned(roundUpToWasmPageAligned(n))
<1> DEFINE q == (n + PageBytes - 1) \div PageBytes
<1>0. n \in Nat /\ n >= 1 /\ n + PageBytes <= Word /\ Word \in Nat
  BY SMT, PageFacts DEF Lengths, NoWrap
<1>1. q \in Nat /\ q * PageBytes >= n /\ q * PageBytes < n + PageBytes /\ q * PageBytes \in Nat
  BY SMT, <1>0, PageFacts
<1> HIDE DEF q
<1>2. (q * PageBytes) % Word = q * PageBytes
  <2> DEFINE m == q * PageBytes
  <2>1. m \in Nat /\ m < Word
    BY SMT, <1>0, <1>1, PageFacts
  <2> HIDE DEF m
  <2>2. m % Word = m
    BY SMT, <1>0, <2>1
  <2> QED BY <2>2 DEF m
<1>3. roundUpToWasmPageAligned(n) = q * PageBytes
  BY <1>2 DEF q, roundUpToWasmPageAligned, getNumberOfWasmPagesForBytes
<1> QED BY <1>1, <1>3 DEF Aligned

(* Sums of whole pages are whole pages ...                                 *)
LEMMA AlignedSum == ASSUME NEW a, NEW b, Aligned(a), Aligned(b) PROVE Aligned(a + b) /\ a \in Nat
<1>1. PICK j \in Nat : a = j * PageBytes
  BY DEF Aligned
<1>2. PICK k \in Nat : b = k * PageBytes
  BY DEF Aligned
<1>3. a + b = (j + k) * PageBytes /\ j + k \in Nat
  BY SMT, <1>1, <1>2, PageFacts
<1>4. a \in Nat
  BY SMT, <1>1, PageFacts
<1> QED BY <1>3, <1>4 DEF Aligned

(* ... and so are differences.                                             *)
LEMMA AlignedDiff == ASSUME NEW a, NEW b, Aligned(a), Aligned(b), b <= a PROVE Aligned(a - b)
<1>1. PICK j \in Nat : a = j * PageBytes
  BY DEF Aligned
<1>2. PICK k \in Nat : b = k * PageBytes
  BY DEF Aligned
<1>3. k <= j
  <2> SUFFICES ASSUME k >= j + 1 PROVE FALSE
    BY SMT, <1>1, <1>2
  <2>1. PICK d \in Nat : k = j + 1 + d
    BY SMT, k - j - 1 \in Nat
  <2>2. k * PageBytes = j * PageBytes + PageBytes + d * PageBytes
    BY SMT, <2>1, PageFacts
  <2>3. j * PageBytes \in Nat /\ d * PageBytes \in Nat
    BY SMT, PageFacts
  <2> QED BY SMT, <1>1, <1>2, <2>2, <2>3, PageFacts
<1>4. a - b = (j - k) * PageBytes /\ j - k \in Nat
  BY SMT, <1>1, <1>2, <1>3, PageFacts
<1> QED BY <1>4 DEF Aligned

(* Between a page-aligned address and the next there is no other.          *)
LEMMA NextPage ==
    ASSUME NEW a, NEW b, Aligned(a), Aligned(b), NEW n \in Nat, a >= n, b < n + PageBytes
    PROVE  b <= a
<1>1. PICK j \in Nat : a = j * PageBytes
  BY DEF Aligned
<1>2. PICK k \in Nat : b = k * PageBytes
  BY DEF Aligned
<1>3. k <= j
  <2> SUFFICES ASSUME k >= j + 1 PROVE FALSE
    BY SMT, <1>1, <1>2
  <2>1. PICK d \in Nat : k = j + 1 + d
    BY SMT, k - j - 1 \in Nat
  <2>2. k * PageBytes = j * PageBytes + PageBytes + d * PageBytes
    BY SMT, <2>1, PageFacts
  <2>3. j * PageBytes \in Nat /\ d * PageBytes \in Nat
    BY SMT, PageFacts
  <2> QED BY SMT, <1>1, <1>2, <2>2, <2>3, PageFacts
<1>4. PICK d \in Nat : j = k + d
  BY SMT, <1>3, j - k \in Nat
<1>5. j * PageBytes = k * PageBytes + d * PageBytes /\ d * PageBytes \in Nat /\ k * PageBytes \in Nat
  BY SMT, <1>4, PageFacts
<1> QED BY SMT, <1>1, <1>2, <1>5

(* The memory and the bases of regions are whole pages, and a region's     *)
(* length is one that was asked for.                                       *)
MemTypes ==
    /\ Aligned(size) /\ size < Word
    /\ \A r \in regions : /\ Aligned(r.base) /\ r.len \in Nat \ {0}
                          /\ r.by \in Threads => r.len \in Lengths
    /\ pc \in [Threads -> {"idle", "shrink", "segmentLock", "segmentInsert", "segmentRead"}]
    /\ DOMAIN work = Threads
    /\ \A t \in Threads : pc[t] \in {"segmentLock", "segmentInsert", "segmentRead"} => work[t] \in Keys

(* While a thread is about to shrink, the others rest, and the memory it   *)
(* gives up is the end of memory and no longer anyone's.                   *)
ShrinksAlone ==
    \A t \in Threads : pc[t] = "shrink" =>
       /\ \A u \in Threads \ {t} : pc[u] = "idle"
       /\ work[t].top = size /\ Aligned(work[t].bytes) /\ work[t].bytes <= size
       /\ \A r \in regions : r.base + r.len <= size - work[t].bytes

(* The inductive invariant when unmaps do not overlap with other calls: to *)
(* prove that regions stay apart one has to know who is about to shrink    *)
(* the memory and by how much.                                             *)
MemInv == MemTypes /\ ShrinksAlone /\ RegionsApart

(* A module starts with one page and without regions.                      *)
LEMMA MemInitInv == MemoryInit => MemInv
<1> SUFFICES ASSUME MemoryInit PROVE MemInv
  OBVIOUS
<1>1. Aligned(PageBytes)
  BY SMT, PageFacts, PageBytes = 1 * PageBytes DEF Aligned
<1>2. PageBytes < Word
  BY PagesFitWord
<1>3. MemTypes
  BY <1>1, <1>2 DEF MemoryInit, MemTypes
<1> QED BY <1>3 DEF MemInv, ShrinksAlone, RegionsApart, MemoryInit

(* A mapping takes its region from the end of memory, while no thread is   *)
(* about to shrink it.                                                     *)
LEMMA GrowthKeeps ==
    ASSUME MemInv, SerialUnmap, NEW q, NEW n, Aligned(n), size + n < Word,
           q.base = size, q.len \in Nat \ {0}, q.len <= n, q.by \in Threads => q.len \in Lengths,
           size' = size + n, regions' = regions \cup {q},
           \A t \in Threads : pc[t] # "shrink" /\ pc'[t] # "shrink",
           pc' \in [Threads -> {"idle", "shrink", "segmentLock", "segmentInsert", "segmentRead"}],
           DOMAIN work' = Threads,
           \A u \in Threads : pc'[u] \in {"segmentLock", "segmentInsert", "segmentRead"} => work'[u] \in Keys
    PROVE  MemInv'
<1>1. /\ size \in Nat /\ n \in Nat /\ Aligned(size + n)
      /\ \A r \in regions : r.base \in Nat /\ Aligned(r.base) /\ r.len \in Nat
      /\ \A r \in regions : r.base + r.len <= size
  BY AlignedSum DEF MemInv, MemTypes, RegionsApart
<1>2. MemTypes'
  <2>1. Aligned(size)
    BY DEF MemInv, MemTypes
  <2> QED BY <1>1, <2>1 DEF MemInv, MemTypes, Lengths, Aligned
<1>3. ShrinksAlone'
  BY DEF ShrinksAlone
<1>4. RegionsApart'
  <2>1. \A r \in regions' : r.base + r.len <= size'
    BY SMT, <1>1
  <2>2. ASSUME NEW r \in regions', NEW s \in regions', r # s
        PROVE  r.base + r.len <= s.base \/ s.base + s.len <= r.base
    <3>1. CASE r \in regions /\ s \in regions
      BY <2>2, <3>1 DEF MemInv, RegionsApart
    <3>2. CASE r = q \/ s = q
      BY <1>1, <2>2, <3>2
    <3> QED BY <3>1, <3>2
  <2> QED BY <2>1, <2>2 DEF RegionsApart
<1> QED BY <1>2, <1>3, <1>4 DEF MemInv

(* The sizes of a segment and of a thread stack are whole pages.           *)
LEMMA PagesAligned == Aligned(PageBytes) /\ Aligned(3 * PageBytes) /\ PageBytes \in Nat \ {0} /\ 3 * PageBytes \in Nat \ {0}
BY SMT, PageFacts, PageBytes = 1 * PageBytes DEF Aligned

(* A step that only moves threads about, and none into shrinking.          *)
LEMMA MovingKeeps ==
    ASSUME MemInv, NEW t \in Threads, UNCHANGED <<size, regions>>, pc[t] # "shrink",
           NEW p \in {"idle", "segmentLock", "segmentInsert", "segmentRead"},
           pc' = [pc EXCEPT ![t] = p], \A u \in Threads : pc[u] # "shrink",
           DOMAIN work' = Threads,
           \A u \in Threads : pc'[u] \in {"segmentLock", "segmentInsert", "segmentRead"} => work'[u] \in Keys
    PROVE  MemInv'
<1>1. MemTypes'
  BY DEF MemInv, MemTypes, Aligned, Lengths
<1>2. \A u \in Threads : pc'[u] # "shrink"
  BY DEF MemInv, MemTypes
<1> QED BY <1>1, <1>2 DEF MemInv, ShrinksAlone, RegionsApart

(* The rest of the thread's region, up to its last page, is its own, so it *)
(* is the end of memory when it ends there.                                *)
LEMMA CheckKeeps ==
    ASSUME MemInv, SerialUnmap, NoWrap, NEW t \in Threads, NEW r \in regions, UnmapCheck(t, r)
    PROVE  MemInv'
<1> DEFINE bytes == roundUpToWasmPageAligned(r.len)
           top == (r.base + bytes) % Word
<1>1. /\ r.len \in Lengths /\ Aligned(r.base) /\ Aligned(size) /\ size < Word /\ size \in Nat
      /\ r.base \in Nat /\ r.len \in Nat /\ r.base + r.len <= size
  BY AlignedSum DEF MemInv, MemTypes, UnmapCheck, RegionsApart
<1>2. bytes \in Nat /\ bytes >= r.len /\ bytes < r.len + PageBytes /\ Aligned(bytes)
  BY <1>1, RoundsUp
<1>3. /\ \A u \in Threads : pc[u] = "idle"
      /\ regions' = regions \ {r} /\ size' = size
  BY DEF UnmapCheck
<1> HIDE DEF bytes
<1>4. r.base + bytes <= size
  <2>1. Aligned(r.base + bytes)
    BY <1>1, <1>2, AlignedSum
  <2>2. r.base + bytes < r.base + r.len + PageBytes
    BY SMT, <1>1, <1>2, PageFacts
  <2> QED BY SMT, <1>1, <2>1, <2>2, NextPage
<1>5. top = r.base + bytes
  BY SMT, <1>1, <1>2, <1>4, PageFacts
<1>6. MemTypes' /\ RegionsApart'
  <2>1. MemTypes'
    BY <1>3 DEF MemInv, MemTypes, UnmapCheck, Aligned, Lengths
  <2> QED BY <1>3, <2>1 DEF MemInv, RegionsApart
<1>7. ShrinksAlone'
  <2>1. CASE UNCHANGED <<pc, work>>
    BY <1>3, <2>1 DEF ShrinksAlone
  <2>2. CASE top = size /\ pc' = [pc EXCEPT ![t] = "shrink"]
                       /\ work' = [work EXCEPT ![t] = [top |-> top, bytes |-> bytes]]
    <3>1. work'[t].top = size /\ work'[t].bytes = bytes /\ \A u \in Threads \ {t} : pc'[u] = "idle"
      BY <1>3, <2>2 DEF MemInv, MemTypes
    <3>2. ASSUME NEW q \in regions' PROVE q.base + q.len <= size - bytes
      <4>1. q \in regions /\ q # r
        BY <1>3, <3>2
      <4>2. q.base \in Nat /\ q.len \in Nat \ {0} /\ q.base + q.len <= size /\ Aligned(q.base)
        BY <4>1, AlignedSum DEF MemInv, MemTypes, RegionsApart
      <4>3. q.base + q.len <= r.base \/ r.base + r.len <= q.base
        BY <4>1 DEF MemInv, RegionsApart
      <4>4. CASE r.base + r.len <= q.base
        <5>1. Aligned(r.base + bytes)
          BY <1>1, <1>2, AlignedSum
        <5>2. r.base + bytes < r.base + r.len + PageBytes /\ r.base + r.len \in Nat
          BY SMT, <1>1, <1>2, PageFacts
        <5>3. r.base + bytes <= q.base
          BY <4>2, <4>4, <5>1, <5>2, NextPage
        <5> QED BY SMT, <1>1, <1>2, <1>5, <2>2, <4>2, <5>3
      <4>5. CASE q.base + q.len <= r.base
        BY SMT, <1>1, <1>2, <1>5, <2>2, <4>2, <4>5
      <4> QED BY <4>3, <4>4, <4>5
    <3>3. bytes <= size
      BY SMT, <1>1, <1>2, <1>4
    <3>4. \A u \in Threads : pc'[u] = "shrink" => u = t
      BY <3>1
    <3> QED BY <1>2, <1>3, <3>1, <3>2, <3>3, <3>4 DEF ShrinksAlone, Aligned
  <2> QED BY <2>1, <2>2 DEF UnmapCheck, bytes
<1> QED BY <1>6, <1>7 DEF MemInv

(* The shrinking call gives up what is no longer anyone's.                 *)
LEMMA ShrinkKeeps ==
    ASSUME MemInv, SerialUnmap, NEW t \in Threads, UnmapShrink(t) PROVE MemInv'
<1>1. /\ pc[t] = "shrink" /\ Aligned(work[t].bytes) /\ work[t].bytes <= size /\ Aligned(size)
      /\ size < Word /\ \A u \in Threads \ {t} : pc[u] = "idle"
      /\ \A r \in regions : r.base + r.len <= size - work[t].bytes
  BY DEF MemInv, ShrinksAlone, MemTypes, UnmapShrink
<1>2. size' = size - work[t].bytes /\ regions' = regions
  BY DEF UnmapShrink
<1>3. size \in Nat /\ work[t].bytes \in Nat
  BY <1>1, AlignedSum
<1>4. Aligned(size') /\ size' < Word
  BY SMT, <1>1, <1>2, <1>3, AlignedDiff, PageFacts
<1>5. \A u \in Threads : pc'[u] = "idle"
  BY <1>1 DEF UnmapShrink, MemInv, MemTypes
<1>6. MemTypes'
  BY <1>2, <1>4 DEF MemInv, MemTypes, UnmapShrink, Aligned, Lengths
<1>7. RegionsApart'
  BY <1>1, <1>2 DEF MemInv, RegionsApart
<1> QED BY <1>5, <1>6, <1>7 DEF MemInv, ShrinksAlone

(* Moving the break adds a page that is nobody's yet, or takes back a page *)
(* in which there is no region.                                            *)
LEMMA BreakKeeps ==
    ASSUME MemInv, SerialUnmap, NEW t \in Threads, NEW pages \in {-1, 1}, sbrk(t, pages)
    PROVE  MemInv'
<1>1. /\ Aligned(size) /\ size \in Nat /\ size < Word /\ UNCHANGED <<regions, pc, work>>
      /\ \A u \in Threads : pc[u] # "shrink"
      /\ \A r \in regions : r.base \in Nat /\ r.len \in Nat /\ r.base + r.len <= size
  BY AlignedSum DEF MemInv, MemTypes, sbrk, Idle, RegionsApart
<1>2. Aligned(size') /\ size' < Word /\ \A r \in regions : r.base + r.len <= size'
  <2>1. CASE pages = 1
    <3>1. size' = size + PageBytes /\ size + PageBytes < Word
      BY SMT, <2>1, PageFacts DEF sbrk, CanGrow
    <3> QED BY SMT, <1>1, <3>1, AlignedSum, PagesAligned
  <2>2. CASE pages = -1
    <3>0. pages * PageBytes = -PageBytes /\ size + (-PageBytes) = size - PageBytes
      BY SMT, <1>1, <2>2, PageFacts
    <3>1. /\ size' = size - PageBytes /\ PageBytes <= size
          /\ \A r \in regions : r.base + r.len <= size - PageBytes
      BY SMT, <1>1, <2>2, <3>0, PageFacts DEF sbrk
    <3>2. Aligned(size')
      BY <1>1, <3>1, AlignedDiff, PagesAligned
    <3>3. size' < Word
      BY SMT, <1>1, <3>1, PageFacts
    <3> QED BY <3>1, <3>2, <3>3
  <2> QED BY <2>1, <2>2
<1>3. MemTypes'
  BY <1>1, <1>2 DEF MemInv, MemTypes, Lengths, Aligned
<1>4. RegionsApart'
  BY <1>1, <1>2 DEF MemInv, RegionsApart
<1> QED BY <1>1, <1>3, <1>4 DEF MemInv, ShrinksAlone

(* Every operation on the memory keeps the invariant.                      *)
LEMMA MemStepInv ==
    ASSUME MemInv, SerialUnmap, NoWrap, MemoryNext PROVE MemInv'
<1>1. PICK t \in Threads :
          \/ addThreadStack(t)
          \/ \E len \in Lengths : mmapMemory(t, len)
          \/ \E pages \in {-1, 1} : sbrk(t, pages)
          \/ \E r \in regions : UnmapCheck(t, r)
          \/ UnmapShrink(t)
          \/ \E k \in Keys : SegmentCount(t, k)
          \/ SegmentLocked(t) \/ SegmentFails(t) \/ SegmentInsert(t) \/ SegmentRead(t)
  BY DEF MemoryNext
<1>2. pc \in [Threads -> {"idle", "shrink", "segmentLock", "segmentInsert", "segmentRead"}]
      /\ DOMAIN work = Threads
      /\ \A u \in Threads : pc[u] \in {"segmentLock", "segmentInsert", "segmentRead"} => work[u] \in Keys
  BY DEF MemInv, MemTypes
<1>3. Idle(t) \/ pc[t] \in {"segmentLock", "segmentInsert", "segmentRead"}
      => \A u \in Threads : pc[u] # "shrink"
  BY DEF Idle, MemInv, ShrinksAlone
<1>4. CASE addThreadStack(t)
  <2> DEFINE n == 3 * PageBytes  q == Region(Nil, size, n)
  <2>1. q.base = size /\ q.len = n /\ q.by = Nil /\ q.by \notin Threads
    BY NamesApart DEF Region
  <2>2. size' = size + n /\ size + n < Word /\ regions' = regions \cup {q} /\ UNCHANGED <<pc, work>>
    BY <1>4 DEF addThreadStack, growMemory, CanGrow
  <2>3. \A u \in Threads : pc[u] # "shrink"
    BY <1>3, <1>4 DEF addThreadStack
  <2>4. Aligned(n) /\ n \in Nat \ {0} /\ n <= n
    BY SMT, PagesAligned
  <2> HIDE DEF n, q
  <2> QED BY <1>2, <2>1, <2>2, <2>3, <2>4, GrowthKeeps
<1>5. ASSUME NEW len \in Lengths, mmapMemory(t, len) PROVE MemInv'
  <2> DEFINE q == Region(t, size, len)  n == roundUpToWasmPageAligned(len)
  <2>1. q.base = size /\ q.len = len /\ q.by = t
    BY DEF Region
  <2>2. size' = size + n /\ size + n < Word /\ regions' = regions \cup {q} /\ UNCHANGED <<pc, work>>
    BY <1>5 DEF mmapMemory, growMemory, CanGrow
  <2>3. \A u \in Threads : pc[u] # "shrink"
    BY <1>3, <1>5 DEF mmapMemory
  <2>4. len \in Nat \ {0} /\ Aligned(n) /\ len <= n
    BY SMT, RoundsUp, PageFacts DEF Lengths
  <2> HIDE DEF q, n
  <2> QED BY <1>2, <2>1, <2>2, <2>3, <2>4, GrowthKeeps
<1>6. ASSUME NEW k \in Keys, SegmentCount(t, k) PROVE MemInv'
  <2>1. \A u \in Threads : pc[u] # "shrink"
    BY <1>3, <1>6 DEF SegmentCount
  <2> QED BY <1>2, <1>6, <2>1, MovingKeeps DEF SegmentCount
<1>7. CASE SegmentLocked(t)
  <2>0. \A u \in Threads : pc[u] # "shrink"
    BY <1>3, <1>7 DEF SegmentLocked
  <2>1. CASE UNCHANGED <<size, regions, segmentLock>> /\ pc' = [pc EXCEPT ![t] = "segmentRead"]
    BY <1>2, <1>7, <2>0, <2>1, MovingKeeps DEF SegmentLocked
  <2>2. CASE /\ \E base \in 0..(Word - 1) :
                   /\ growMemory(PageBytes, base)
                   /\ regions' = regions \cup {Region(work[t], base, PageBytes)}
             /\ pc' = [pc EXCEPT ![t] = "segmentInsert"]
    <3> DEFINE q == Region(work[t], size, PageBytes)
    <3>0. q.by \notin Threads
      BY <1>2, <1>7, NamesApart DEF Region, SegmentLocked
    <3>1. q.base = size /\ q.len = PageBytes /\ PageBytes <= PageBytes
      BY SMT, PageFacts DEF Region
    <3>2. size' = size + PageBytes /\ size + PageBytes < Word /\ regions' = regions \cup {q} /\ work' = work
      BY <1>7, <2>2 DEF SegmentLocked, growMemory, CanGrow
    <3>3. \A u \in Threads : pc'[u] # "shrink"
      BY <1>2, <2>0, <2>2
    <3>4. \A u \in Threads : pc'[u] \in {"segmentLock", "segmentInsert", "segmentRead"} => work'[u] \in Keys
      BY <1>2, <1>7, <2>2, <3>2 DEF SegmentLocked
    <3>5. pc' \in [Threads -> {"idle", "shrink", "segmentLock", "segmentInsert", "segmentRead"}]
      BY <1>2, <2>2
    <3> HIDE DEF q
    <3> QED BY <1>2, <2>0, <3>0, <3>1, <3>2, <3>3, <3>4, <3>5, GrowthKeeps, PagesAligned
  <2> QED BY <1>7, <2>1, <2>2 DEF SegmentLocked
<1>8. CASE SegmentFails(t) \/ SegmentRead(t) \/ SegmentInsert(t)
  <2>0. \A u \in Threads : pc[u] # "shrink"
    BY <1>3, <1>8 DEF SegmentFails, SegmentRead, SegmentInsert
  <2> QED BY <1>2, <1>8, <2>0, MovingKeeps DEF SegmentFails, SegmentRead, SegmentInsert
<1> QED
  BY <1>1, <1>4, <1>5, <1>6, <1>7, <1>8, BreakKeeps, CheckKeeps, ShrinkKeeps

(* Sizes are numbers and every thread that is at a segment has its key.    *)
SegTypes ==
    /\ size \in Nat /\ \A r \in regions : r.base \in Nat /\ r.len \in Nat
    /\ pc \in [Threads -> {"idle", "shrink", "segmentLock", "segmentInsert", "segmentRead"}]
    /\ DOMAIN work = Threads /\ DOMAIN segments = Keys
    /\ \A t \in Threads : pc[t] = "shrink" => work[t].bytes \in Nat
    /\ \A t \in Threads : pc[t] \in {"segmentLock", "segmentInsert", "segmentRead"} => work[t] \in Keys

(* A thread that has mapped the page of key k and holds the lock to note   *)
(* it.                                                                     *)
Inserts(t, k) == pc[t] = "segmentInsert" /\ work[t] = k

(* A segment has a page while its pointer is being inserted and after.     *)
MappedFirst ==
    /\ \A t \in Threads : pc[t] = "segmentInsert" =>
          segmentLock = t /\ segments[work[t]] = Nil
    /\ \A r \in regions : r.by \in Keys =>
          segments[r.by] # Nil \/ \E t \in Threads : Inserts(t, r.by)
    /\ \A r, q \in regions : r.by \in Keys /\ r.by = q.by => r = q

(* A thread that has seen the key reads a pointer that is there, or is     *)
(* about to be and kept from it by the lock.                               *)
ReadersFind ==
    \A t \in Threads : pc[t] = "segmentRead" =>
       segments[work[t]] # Nil \/ \E u \in Threads : Inserts(u, work[t])

(* The inductive invariant for shared-memory segments.                     *)
SegInv == SegTypes /\ MappedFirst /\ ReadersFind

(* A module starts without segments.                                       *)
LEMMA SegInitInv == MemoryInit => SegInv
BY PageFacts DEF MemoryInit, SegInv, SegTypes, MappedFirst, ReadersFind, Inserts

(* A step that leaves the segments, and those who read or insert them,     *)
(* alone.                                                                  *)
LEMMA OtherMemoryKeeps ==
    ASSUME SegInv, SegTypes', UNCHANGED <<segments, segmentLock>>,
           \A r \in regions' : r.by \in Keys => r \in regions,
           \A t \in Threads : /\ pc'[t] = "segmentInsert" <=> pc[t] = "segmentInsert"
                              /\ pc'[t] = "segmentRead" => pc[t] = "segmentRead"
                              /\ pc'[t] \in {"segmentInsert", "segmentRead"} => work'[t] = work[t]
    PROVE  SegInv'
<1>1. \A t \in Threads : \A k : Inserts(t, k)' <=> Inserts(t, k)
  BY DEF Inserts
<1>2. MappedFirst'
  BY SMT, <1>1 DEF SegInv, MappedFirst
<1>3. ReadersFind'
  BY <1>1 DEF SegInv, ReadersFind
<1> QED BY <1>2, <1>3 DEF SegInv

(* Rounding up gives a number, also where it wraps.                        *)
LEMMA RoundsToNat == \A n \in Nat : roundUpToWasmPageAligned(n) \in Nat
<1> SUFFICES ASSUME NEW n \in Nat PROVE roundUpToWasmPageAligned(n) \in Nat
  OBVIOUS
<1> DEFINE q == (n + PageBytes - 1) \div PageBytes
<1>1. q \in Nat
  BY SMT, PageFacts
<1> HIDE DEF q
<1>2. q * PageBytes \in Nat
  BY SMT, <1>1, PageFacts
<1>3. \A m \in Nat : m % Word \in Nat
  BY SMT, PageFacts
<1> QED BY <1>2, <1>3 DEF q, roundUpToWasmPageAligned, getNumberOfWasmPagesForBytes

(* Every operation on the memory keeps the invariant.                      *)
LEMMA SegStepInv == ASSUME SegInv, MemoryNext PROVE SegInv'
<1>1. PICK t \in Threads :
          \/ addThreadStack(t)
          \/ \E len \in Lengths : mmapMemory(t, len)
          \/ \E pages \in {-1, 1} : sbrk(t, pages)
          \/ \E r \in regions : UnmapCheck(t, r)
          \/ UnmapShrink(t)
          \/ \E k \in Keys : SegmentCount(t, k)
          \/ SegmentLocked(t) \/ SegmentFails(t) \/ SegmentInsert(t) \/ SegmentRead(t)
  BY DEF MemoryNext
<1>2. SegTypes
  BY DEF SegInv
<1>3. CASE addThreadStack(t)
  <2>1. /\ regions' = regions \cup {Region(Nil, size, 3 * PageBytes)} /\ size' = size + 3 * PageBytes
        /\ UNCHANGED <<segments, segmentLock, pc, work>>
    BY <1>3 DEF addThreadStack, growMemory
  <2>2. Region(Nil, size, 3 * PageBytes).by \notin Keys /\ Region(Nil, size, 3 * PageBytes).base = size
        /\ Region(Nil, size, 3 * PageBytes).len \in Nat
    BY NamesApart, PagesAligned DEF Region
  <2>3. SegTypes'
    BY SMT, <1>2, <2>1, <2>2, PageFacts DEF SegTypes
  <2> QED BY <2>1, <2>2, <2>3, OtherMemoryKeeps
<1>4. ASSUME NEW len \in Lengths, mmapMemory(t, len) PROVE SegInv'
  <2> DEFINE n == roundUpToWasmPageAligned(len)
  <2>1. /\ regions' = regions \cup {Region(t, size, len)} /\ size' = size + n
        /\ UNCHANGED <<segments, segmentLock, pc, work>>
    BY <1>4 DEF mmapMemory, growMemory
  <2>2. Region(t, size, len).by \notin Keys /\ Region(t, size, len).base = size
        /\ Region(t, size, len).len \in Nat
    BY SMT, NamesApart, PageFacts DEF Region, Lengths
  <2>3. n \in Nat
    BY SMT, RoundsToNat, PageFacts DEF Lengths
  <2> HIDE DEF n
  <2>4. SegTypes'
    BY SMT, <1>2, <2>1, <2>2, <2>3 DEF SegTypes
  <2> QED BY <2>1, <2>2, <2>4, OtherMemoryKeeps
<1>5. ASSUME NEW pages \in {-1, 1}, sbrk(t, pages) PROVE SegInv'
  <2>1. size' \in Nat
    <3>1. CASE pages = 1
      BY SMT, <1>2, <1>5, <3>1, PageFacts DEF sbrk, SegTypes
    <3>2. CASE pages = -1
      BY SMT, <1>2, <1>5, <3>2, PageFacts DEF sbrk, SegTypes
    <3> QED BY <3>1, <3>2
  <2>2. SegTypes'
    BY <1>2, <1>5, <2>1 DEF sbrk, SegTypes
  <2> QED BY <1>5, <2>2, OtherMemoryKeeps DEF sbrk
<1>6. ASSUME NEW r \in regions, UnmapCheck(t, r) PROVE SegInv'
  <2> DEFINE w == [top |-> (r.base + roundUpToWasmPageAligned(r.len)) % Word,
                   bytes |-> roundUpToWasmPageAligned(r.len)]
  <2>1. /\ pc[t] = "idle" /\ r.by = t /\ regions' = regions \ {r}
        /\ UNCHANGED <<size, segments, segmentLock>>
    BY <1>6 DEF UnmapCheck, Idle
  <2>2. \/ UNCHANGED <<pc, work>>
        \/ pc' = [pc EXCEPT ![t] = "shrink"] /\ work' = [work EXCEPT ![t] = w]
    BY <1>6 DEF UnmapCheck
  <2>3. w.bytes \in Nat
    BY <1>2, RoundsToNat DEF SegTypes
  <2> HIDE DEF w
  <2>4. SegTypes'
    BY SMT, <1>2, <2>1, <2>2, <2>3 DEF SegTypes
  <2> QED BY SMT, <1>2, <2>1, <2>2, <2>4, OtherMemoryKeeps DEF SegTypes
<1>7. CASE UnmapShrink(t)
  <2>1. /\ pc[t] = "shrink" /\ pc' = [pc EXCEPT ![t] = "idle"] /\ work' = [work EXCEPT ![t] = Nil]
        /\ UNCHANGED <<regions, segments, segmentLock>>
    BY <1>7 DEF UnmapShrink
  <2>2. size' \in Nat
    BY SMT, <1>2, <1>7 DEF UnmapShrink, SegTypes
  <2>3. SegTypes'
    BY <1>2, <2>1, <2>2 DEF SegTypes
  <2> QED BY <1>2, <2>1, <2>3, OtherMemoryKeeps DEF SegTypes
<1>8. ASSUME NEW k \in Keys, SegmentCount(t, k) PROVE SegInv'
  <2>1. /\ pc[t] = "idle" /\ work' = [work EXCEPT ![t] = k]
        /\ UNCHANGED <<size, regions, segments, segmentLock>>
    BY <1>8 DEF SegmentCount, Idle
  <2>2. \/ pc' = [pc EXCEPT ![t] = "segmentLock"]
        \/ /\ pc' = [pc EXCEPT ![t] = "segmentRead"]
           /\ segments[k] # Nil \/ \E u \in Threads : Inserts(u, k)
    BY <1>8 DEF SegmentCount, Inserts
  <2>3. SegTypes'
    BY SMT, <1>2, <2>1, <2>2 DEF SegTypes
  <2>4. \A u \in Threads, j \in Keys : Inserts(u, j)' <=> Inserts(u, j)
    BY <1>2, <2>1, <2>2 DEF Inserts, SegTypes
  <2>5. MappedFirst'
    BY SMT, <1>2, <2>1, <2>2, <2>4 DEF SegInv, MappedFirst, SegTypes, Inserts
  <2>6. ReadersFind'
    BY SMT, <1>2, <2>1, <2>2, <2>4 DEF SegInv, ReadersFind, SegTypes
  <2> QED BY <2>3, <2>5, <2>6 DEF SegInv
<1>9. CASE SegmentLocked(t)
  <2>0. pc[t] = "segmentLock" /\ work[t] \in Keys /\ UNCHANGED <<work, segments>> /\ segmentLock = Nil
    BY <1>2, <1>9 DEF SegmentLocked, SegTypes
  <2>1. CASE /\ segments[work[t]] # Nil
             /\ UNCHANGED <<size, regions, segmentLock>> /\ pc' = [pc EXCEPT ![t] = "segmentRead"]
    <3>1. SegTypes'
      BY <1>2, <2>0, <2>1 DEF SegTypes
    <3>2. \A u \in Threads, j \in Keys : Inserts(u, j)' <=> Inserts(u, j)
      BY <1>2, <2>0, <2>1 DEF Inserts, SegTypes
    <3>3. MappedFirst'
      BY <1>2, <2>0, <2>1, <3>2 DEF SegInv, MappedFirst, SegTypes
    <3>4. ReadersFind'
      BY <1>2, <2>0, <2>1, <3>2 DEF SegInv, ReadersFind, SegTypes
    <3> QED BY <3>1, <3>3, <3>4 DEF SegInv
  <2>2. CASE /\ segments[work[t]] = Nil /\ segmentLock' = t
             /\ \E base \in 0..(Word - 1) :
                   /\ growMemory(PageBytes, base)
                   /\ regions' = regions \cup {Region(work[t], base, PageBytes)}
             /\ pc' = [pc EXCEPT ![t] = "segmentInsert"]
    <3> DEFINE q == Region(work[t], size, PageBytes)
    <3>1. q.base = size /\ q.by = work[t] /\ q.len \in Nat
      BY PageFacts DEF Region
    <3>2. regions' = regions \cup {q} /\ size' = size + PageBytes
      BY <2>2 DEF growMemory
    <3> HIDE DEF q
    <3>3. SegTypes'
      BY SMT, <1>2, <2>0, <2>2, <3>1, <3>2, PageFacts DEF SegTypes
    <3>4. \A u \in Threads : pc[u] # "segmentInsert"
      BY <2>0, NamesApart DEF SegInv, MappedFirst
    <3>5. \A u \in Threads, j \in Keys : Inserts(u, j)' <=> u = t /\ j = work[t]
      BY <1>2, <2>0, <2>2, <3>4 DEF Inserts, SegTypes
    <3>6. \A r \in regions : r.by # work[t]
      BY <2>0, <2>2, <3>4 DEF SegInv, MappedFirst, Inserts
    <3>7. MappedFirst'
      <4>1. \A u \in Threads : pc'[u] = "segmentInsert" => segmentLock' = u /\ segments'[work'[u]] = Nil
        BY <1>2, <2>0, <2>2, <3>4 DEF SegTypes
      <4>2. \A r \in regions' : r.by \in Keys =>
               segments'[r.by] # Nil \/ \E u \in Threads : Inserts(u, r.by)'
        BY SMT, <2>0, <3>1, <3>2, <3>4, <3>5 DEF SegInv, MappedFirst, Inserts
      <4>3. \A r, p \in regions' : r.by \in Keys /\ r.by = p.by => r = p
        BY SMT, <3>1, <3>2, <3>6 DEF SegInv, MappedFirst
      <4> QED BY <4>1, <4>2, <4>3 DEF MappedFirst
    <3>8. ReadersFind'
      BY <1>2, <2>0, <2>2, <3>4 DEF SegInv, ReadersFind, SegTypes, Inserts
    <3> QED BY <3>3, <3>7, <3>8 DEF SegInv
  <2> QED BY <1>9, <2>1, <2>2 DEF SegmentLocked
<1>10. CASE SegmentFails(t)
  <2>1. /\ pc[t] = "segmentLock" /\ pc' = [pc EXCEPT ![t] = "idle"] /\ work' = [work EXCEPT ![t] = Nil]
        /\ UNCHANGED <<size, regions, segments, segmentLock>>
    BY <1>10 DEF SegmentFails
  <2>2. SegTypes'
    BY <1>2, <2>1 DEF SegTypes
  <2> QED BY <1>2, <2>1, <2>2, OtherMemoryKeeps DEF SegTypes
<1>11. CASE SegmentInsert(t)
  <2>1. /\ pc[t] = "segmentInsert" /\ pc' = [pc EXCEPT ![t] = "segmentRead"]
        /\ UNCHANGED <<size, regions, work>> /\ segmentLock' = Nil /\ work[t] \in Keys
    BY <1>2, <1>11 DEF SegmentInsert, SegTypes
  <2>2. PICK r \in regions : segments' = [segments EXCEPT ![work[t]] = r.base]
    BY <1>11 DEF SegmentInsert
  <2>3. SegTypes'
    BY <1>2, <2>1, <2>2 DEF SegTypes
  <2>4. r.base # Nil /\ segments'[work[t]] = r.base
    BY <1>2, <2>1, <2>2, NamesApart DEF SegTypes
  <2>5. \A k \in Keys : k # work[t] => segments'[k] = segments[k]
    BY <1>2, <2>2 DEF SegTypes
  <2>6. \A u \in Threads : pc[u] = "segmentInsert" => u = t
    BY <2>1 DEF SegInv, MappedFirst
  <2>7. \A u \in Threads : pc'[u] # "segmentInsert"
    BY <1>2, <2>1, <2>6 DEF SegTypes
  <2>8. MappedFirst'
    <3>1. \A q \in regions : q.by \in Keys => segments'[q.by] # Nil
      BY SMT, <2>4, <2>5, <2>6 DEF SegInv, MappedFirst, Inserts
    <3> QED BY <2>1, <2>7, <3>1 DEF SegInv, MappedFirst
  <2>9. ReadersFind'
    <3> SUFFICES ASSUME NEW u \in Threads, pc'[u] = "segmentRead" PROVE segments'[work[u]] # Nil
      BY <2>1 DEF ReadersFind
    <3>1. work[u] = work[t] \/ (work[u] \in Keys /\ segments[work[u]] # Nil)
      BY <1>2, <2>1, <2>6 DEF SegInv, ReadersFind, SegTypes, Inserts
    <3> QED BY <2>4, <2>5, <3>1
  <2> QED BY <2>3, <2>8, <2>9 DEF SegInv
<1>12. CASE SegmentRead(t)
  <2>1. /\ pc[t] = "segmentRead" /\ pc' = [pc EXCEPT ![t] = "idle"] /\ work' = [work EXCEPT ![t] = Nil]
        /\ UNCHANGED <<size, regions, segments, segmentLock>>
    BY <1>12 DEF SegmentRead
  <2>2. SegTypes'
    BY <1>2, <2>1 DEF SegTypes
  <2> QED BY <1>2, <2>1, <2>2, OtherMemoryKeeps DEF SegTypes
<1> QED
  BY <1>1, <1>3, <1>4, <1>5, <1>6, <1>7, <1>8, <1>9, <1>10, <1>11, <1>12

(* The memory of one module by itself.                                     *)
MemorySpec == MemoryInit /\ [][MemoryNext]_memoryVars

(* Mappings, thread stacks and segments never overlap and stay inside the  *)
(* memory (RegionsApart), for any page size and number of threads, and for *)
(* lengths whose rounding up does not wrap: mmapMemory, growMemory,        *)
(* addThreadStack and the segments of state hand out what is nobody        *)
(* else's, and unmapMemory gives back only what is at the end. That is so  *)
(* provided that no thread maps while another unmaps (SerialUnmap).        *)
THEOREM MappingsStayApart == NoWrap => (MemorySpec => []RegionsApart)
<1> SUFFICES ASSUME NoWrap PROVE MemorySpec => []RegionsApart
  OBVIOUS
<1>1. CASE SerialUnmap
  <2>1. MemInv /\ [MemoryNext]_memoryVars => MemInv'
    BY SMT, <1>1, MemStepInv DEF memoryVars, MemInv, MemTypes, ShrinksAlone, RegionsApart, Aligned, Lengths
  <2>2. MemInv => RegionsApart
    BY DEF MemInv
  <2> QED BY <2>1, <2>2, MemInitInv, PTL DEF MemorySpec
<1>2. CASE ~SerialUnmap
  <2>1. RegionsApart
    BY <1>2 DEF RegionsApart
  <2> QED BY <2>1, PTL
<1> QED BY <1>1, <1>2

(* "Check unmapping elsewhere cannot reclaim memory": unmapMemory shrinks  *)
(* the memory only by a region at its end.                                 *)
THEOREM ReclaimsOnlyTop == SerialUnmap /\ NoWrap => (MemorySpec => UnmapReclaimsOnlyTop)
<1> SUFFICES ASSUME SerialUnmap, NoWrap PROVE MemorySpec => UnmapReclaimsOnlyTop
  OBVIOUS
<1>1. MemInv /\ [MemoryNext]_memoryVars => MemInv'
  BY SMT, MemStepInv DEF memoryVars, MemInv, MemTypes, ShrinksAlone, RegionsApart, Aligned, Lengths
<1>2. MemInv => [\A t \in Threads :
          pc[t] = "shrink" /\ pc'[t] = "idle" /\ size' < size => work[t].top = size]_memoryVars
  BY DEF MemInv, ShrinksAlone
<1> QED BY <1>1, <1>2, MemInitInv, PTL DEF MemorySpec, UnmapReclaimsOnlyTop

(* "The mmap interface allows non page-aligned values, and rounds up": a   *)
(* mapping grows the memory by at least what was asked for.                *)
THEOREM MappingsHaveTheirLength == NoWrap => (MemorySpec => MappingHasItsLength)
<1> SUFFICES ASSUME NoWrap PROVE MemorySpec => MappingHasItsLength
  OBVIOUS
<1>1. SegInv /\ [MemoryNext]_memoryVars => SegInv'
  BY SMT, SegStepInv DEF memoryVars, SegInv, SegTypes, MappedFirst, ReadersFind, Inserts
<1>2. SegInv /\ [MemoryNext]_memoryVars => [\A r \in regions' \ regions : size' - size >= r.len]_memoryVars
  <2> SUFFICES ASSUME SegInv, MemoryNext, NEW r \in regions', r \notin regions
               PROVE size' - size >= r.len
    OBVIOUS
  <2>1. \A n \in Nat : size' = size + n => size' - size = n
    BY SMT DEF SegInv, SegTypes
  <2>2. PICK t \in Threads :
          addThreadStack(t) \/ SegmentLocked(t) \/ \E len \in Lengths : mmapMemory(t, len)
    BY SMT DEF MemoryNext, sbrk, UnmapCheck, UnmapShrink, SegmentCount, SegmentFails, SegmentInsert, SegmentRead
  <2>3. CASE addThreadStack(t)
    <3>1. r.len = 3 * PageBytes /\ size' = size + 3 * PageBytes
      BY SMT, <2>3 DEF addThreadStack, growMemory, Region
    <3> QED BY SMT, <2>1, <3>1, PageFacts
  <2>4. CASE SegmentLocked(t)
    <3>1. r.len = PageBytes /\ size' = size + PageBytes
      BY SMT, <2>4 DEF SegmentLocked, growMemory, Region
    <3> QED BY SMT, <2>1, <3>1, PageFacts
  <2>5. ASSUME NEW len \in Lengths, mmapMemory(t, len) PROVE size' - size >= r.len
    <3>1. r.len = len /\ size' = size + roundUpToWasmPageAligned(len)
      BY SMT, <2>5 DEF mmapMemory, growMemory, Region
    <3> QED BY <2>1, <3>1, RoundsUp
  <2> QED BY <2>2, <2>3, <2>4, <2>5
<1> QED BY <1>1, <1>2, SegInitInv, PTL DEF MemorySpec, MappingHasItsLength

(* A shared-memory segment is mapped once in a module however many threads *)
(* attach it at the same time, and a thread that has seen the key finds    *)
(* the pointer (SegmentMappedOnce).                                        *)
THEOREM SegmentsMappedOnce == MemorySpec => []SegmentMappedOnce
<1>1. SegInv /\ [MemoryNext]_memoryVars => SegInv'
  BY SMT, SegStepInv DEF memoryVars, SegInv, SegTypes, MappedFirst, ReadersFind, Inserts
<1>2. SegInv => SegmentMappedOnce
  BY SMT, NamesApart DEF SegInv, SegTypes, MappedFirst, ReadersFind, SegmentMappedOnce, Inserts
<1> QED
  BY <1>1, <1>2, SegInitInv, PTL DEF MemorySpec

(***************************************************************************)
(* The module cache                                                        *)
(***************************************************************************)
(* No update is waiting for its flush.                                     *)
Serving == flush = "none" /\ updated = stored

(* A cached module that is bound to version v.                             *)
BoundEntry(v) == [bound |-> TRUE, code |-> v, mem |-> v]
(* Version v compiled.                                                     *)
Compiled(v) == [ir |-> v, code |-> v]

(* While functions are served, all that is cached is of the stored version *)
(* and a bound module has its zygote.                                      *)
CachesCurrent ==
    /\ {wasmFile, objectFile, ir, zygote} \subseteq {None, stored}
    /\ compiledIr \in {None, Compiled(stored)}
    /\ writer = None => entry = None \/ (entry = BoundEntry(stored) /\ zygote = stored)
    /\ writer # None => entry = EmptyEntry

(* From an update to the end of its flush there is no Faaslet, and what    *)
(* the flush has passed is empty.                                          *)
Flushing ==
    /\ updated < stored /\ writer = None /\ \A f \in Faaslets : step[f] = "none"
    /\ flush \in {"files", "ir", "modules"} => zygote = None
    /\ flush \in {"ir", "modules"} => wasmFile = None /\ objectFile = None
    /\ flush = "modules" => ir = None /\ compiledIr = None

(* The steps of the Faaslet that makes an entry under the write lock.      *)
Making == {"load", "compile", "instantiate"}

(* A Faaslet is of the stored version once its module is bound, and keeps  *)
(* that through resets.                                                    *)
FaasletCurrent(f) ==
    /\ step[f] # "none" => Serving /\ need[f] = stored
    /\ step[f] \in Making <=> writer = f
    /\ step[f] = "compile" => ir = stored
    /\ step[f] = "instantiate" => building = Compiled(stored)
    /\ step[f] = "take" => writer = None /\ entry # None
    /\ step[f] = "zygote" => zygote = stored
    /\ step[f] \in {"register", "zygote", "ready"} => mod[f] = Module(stored, stored, stored)
    /\ step[f] \in {"lookup", "create", "take"} \cup Making /\ job[f] # "bind" =>
          mod[f] = Module(stored, stored, stored)

(* Versions are numbers, Faaslets have a step, a job and a module each,    *)
(* and at most one of them is making an entry.                             *)
QuietTypes ==
    /\ stored \in Nat \ {0} /\ updated \in Nat
    /\ flush \in {"none", "files", "ir", "modules"}
    /\ {DOMAIN step, DOMAIN job, DOMAIN need} = {Faaslets}
    /\ mod = [f \in Faaslets |-> mod[f]]
    /\ writer \in Faaslets \cup {None}

(* The inductive invariant where updates wait until no Faaslet is left.    *)
QuietInv ==
    /\ QuietTypes
    /\ Serving => CachesCurrent
    /\ ~Serving => Flushing
    /\ \A f \in Faaslets : FaasletCurrent(f)

(* A worker starts with empty caches.                                      *)
LEMMA QuietInitInv == CacheInit => QuietInv
BY SMT, NoneIsNothing DEF CacheInit, QuietInv, QuietTypes, Serving, CachesCurrent, Flushing,
   FaasletCurrent, Making

(* What is known in a step of a Faaslet.                                   *)
LEMMA Served ==
    ASSUME QuietInv, NEW f \in Faaslets, step[f] # "none"
    PROVE  /\ flush = "none" /\ updated = stored /\ Serving /\ CachesCurrent /\ QuietTypes
           /\ stored \in Nat /\ stored # None /\ FaasletCurrent(f) /\ need[f] = stored
BY NoneIsNothing DEF QuietInv, QuietTypes, FaasletCurrent, Serving

(* A step of f, after which p is its place and m its module, that leaves   *)
(* the caches as they are, except for who makes an entry.                  *)
LEMMA FaasletMoves ==
    ASSUME QuietInv, NEW f \in Faaslets, step[f] \notin Making \cup {"none"},
           NEW p, NEW m, step' = [step EXCEPT ![f] = p], mod' = [mod EXCEPT ![f] = m],
           p \notin Making, UNCHANGED <<files, caches, cacheMap, zygote, job, need, system>>,
           p = "take" => writer = None /\ entry # None,
           p = "zygote" => zygote = stored,
           p \in {"register", "zygote", "ready"} => m = Module(stored, stored, stored),
           p \in {"lookup", "create", "take"} /\ job[f] # "bind" => m = Module(stored, stored, stored)
    PROVE  QuietInv'
<1>1. /\ Serving /\ CachesCurrent /\ QuietTypes /\ FaasletCurrent(f) /\ need[f] = stored
  BY Served
<1>2. QuietTypes'
  BY <1>1 DEF QuietTypes, cacheMap, system
<1>3. Serving' /\ CachesCurrent'
  BY <1>1 DEF Serving, CachesCurrent, files, caches, cacheMap, system
<1>4. ASSUME NEW g \in Faaslets PROVE FaasletCurrent(g)'
  <2>1. CASE g = f
    <3>1. step'[g] = p /\ mod'[g] = m
      BY <1>1, <2>1 DEF QuietTypes
    <3> QED BY <1>1, <1>3, <2>1, <3>1 DEF FaasletCurrent, Making, caches, cacheMap, system, Serving
  <2>2. CASE g # f
    <3>1. step'[g] = step[g] /\ mod'[g] = mod[g]
      BY <1>1, <2>2 DEF QuietTypes
    <3>2. FaasletCurrent(g)
      BY DEF QuietInv
    <3> QED BY <1>3, <3>1, <3>2 DEF FaasletCurrent, Making, caches, cacheMap, system, Serving
  <2> QED BY <2>1, <2>2
<1> QED BY <1>2, <1>3, <1>4 DEF QuietInv

(* Copying a module from the cache keeps the invariant.                    *)
LEMMA UseKeeps ==
    ASSUME QuietInv, NEW f \in Faaslets, step[f] \in {"lookup", "take"}, writer = None,
           entry # None, UseEntry(f, entry),
           UNCHANGED <<files, caches, cacheMap, zygote, job, need, system>>
    PROVE  QuietInv'
<1>1. /\ CachesCurrent /\ QuietTypes /\ FaasletCurrent(f) /\ step[f] \notin Making \cup {"none"}
  BY Served DEF Making
<1>2. entry = BoundEntry(stored) /\ zygote = stored
  BY <1>1 DEF CachesCurrent
<1>3. CASE job[f] = "bind"
  <2>1. step' = [step EXCEPT ![f] = "register"] /\ mod' = [mod EXCEPT ![f] = Module(stored, stored, stored)]
    BY <1>2, <1>3 DEF UseEntry, GoesTo, BoundEntry
  <2> QED BY <1>1, <2>1, FaasletMoves DEF Making
<1>4. CASE job[f] # "bind"
  <2>1. mod[f] = Module(stored, stored, stored)
    BY <1>1, <1>4 DEF FaasletCurrent
  <2>2. step' = [step EXCEPT ![f] = "zygote"] /\ mod' = [mod EXCEPT ![f].globals = stored]
    BY <1>2, <1>4 DEF UseEntry, GoesTo, BoundEntry
  <2>3. mod' = [mod EXCEPT ![f] = Module(stored, stored, stored)]
    <3>1. [mod[f] EXCEPT !.globals = stored] = Module(stored, stored, stored)
      BY SMT, <2>1 DEF Module
    <3> QED BY <2>2, <3>1
  <2> QED BY <1>1, <1>2, <2>2, <2>3, FaasletMoves DEF Making
<1> QED BY <1>3, <1>4

(* A Faaslet comes, and one that has run a call is reset.                  *)
LEMMA StartKeeps ==
    ASSUME QuietInv, quiesced, NEW f \in Faaslets, NewFaaslet(f) \/ ResetFaaslet(f) PROVE QuietInv'
<1>1. Serving /\ step[f] \in {"none", "ready"} /\ QuietTypes /\ CachesCurrent /\ FaasletCurrent(f)
  BY DEF QuietInv, NewFaaslet, ResetFaaslet, AtStep, Serving, FaasletCurrent
<1>2. /\ step' = [step EXCEPT ![f] = "lookup"]
      /\ UNCHANGED <<files, caches, cacheMap, snapshots, mod, system>>
  BY DEF NewFaaslet, ResetFaaslet, GoesTo
<1>3. QuietTypes'
  BY <1>1, <1>2 DEF QuietTypes, cacheMap, system, NewFaaslet, ResetFaaslet
<1>4. Serving' /\ CachesCurrent'
  BY <1>1, <1>2 DEF Serving, CachesCurrent, files, caches, cacheMap, system, snapshots
<1>5. /\ \A g \in Faaslets \ {f} : job'[g] = job[g] /\ need'[g] = need[g] /\ step'[g] = step[g]
      /\ step'[f] = "lookup" /\ need'[f] = stored
      /\ job'[f] # "bind" => step[f] = "ready"
  BY <1>1, <1>2 DEF QuietTypes, NewFaaslet, ResetFaaslet, Serving, FaasletCurrent, AtStep
<1>6. ASSUME NEW g \in Faaslets PROVE FaasletCurrent(g)'
  <2>1. FaasletCurrent(g)
    BY DEF QuietInv
  <2>2. CASE g = f
    BY <1>1, <1>2, <1>4, <1>5, <2>2
       DEF FaasletCurrent, Making, caches, cacheMap, system, snapshots
  <2>3. CASE g # f
    BY <1>2, <1>4, <1>5, <2>1, <2>3 DEF FaasletCurrent, Making, caches, cacheMap, system, snapshots
  <2> QED BY <2>2, <2>3
<1> QED BY <1>3, <1>4, <1>6 DEF QuietInv

(* The maker of the entry moves: nobody else is between taking and using   *)
(* the module.                                                             *)
LEMMA MakerMoves ==
    ASSUME QuietInv, NEW f \in Faaslets, NEW p, step' = [step EXCEPT ![f] = p],
           step[f] # "none", p \in Making \cup {"take", "failed"},
           writer = f \/ (writer = None /\ entry = None),
           UNCHANGED <<mod, job, need, system>>,
           QuietTypes', CachesCurrent', p \in Making <=> writer' = f,
           writer' \in {f, None}, zygote # None => zygote' = zygote,
           p = "compile" => ir' = stored,
           p = "instantiate" => building' = Compiled(stored),
           p = "take" => entry' # None,
           step[f] \in {"create"} \cup Making
    PROVE  QuietInv'
<1>1. /\ Serving /\ CachesCurrent /\ QuietTypes /\ FaasletCurrent(f) /\ need[f] = stored /\ stored # None
  BY Served
<1>2. Serving' /\ stored' = stored
  BY <1>1 DEF Serving, system
<1>3. ASSUME NEW g \in Faaslets PROVE FaasletCurrent(g)'
  <2>1. FaasletCurrent(g) /\ g # None
    BY NoneIsNothing DEF QuietInv
  <2>2. CASE g = f
    <3>1. step'[g] = p /\ mod'[g] = mod[g] /\ job'[g] = job[g] /\ need'[g] = need[g]
      BY <1>1, <2>2 DEF QuietTypes
    <3> QED BY <1>1, <1>2, <2>1, <2>2, <3>1 DEF FaasletCurrent, Making
  <2>3. CASE g # f
    <3>1. step'[g] = step[g] /\ mod'[g] = mod[g] /\ job'[g] = job[g] /\ need'[g] = need[g]
      BY <1>1, <2>3 DEF QuietTypes
    <3>2. step[g] \notin Making \cup {"take"}
      BY <1>1, <2>1, <2>3, NoneIsNothing DEF FaasletCurrent, CachesCurrent
    <3> QED BY <1>1, <1>2, <2>1, <2>3, <3>1, <3>2 DEF FaasletCurrent, Making
  <2> QED BY <2>2, <2>3
<1> QED BY <1>2, <1>3 DEF QuietInv

(* An entry is not "no entry".                                             *)
LEMMA EntryDiffers == ASSUME NEW v \in Nat PROVE BoundEntry(v) # None /\ EmptyEntry # None /\ Compiled(v) # None
<1>1. BoundEntry(v) \in [bound : BOOLEAN, code : Nat, mem : Nat]
  BY DEF BoundEntry
<1>2. EmptyEntry \in [bound : BOOLEAN, code : Nat, mem : Nat]
  BY DEF EmptyEntry, NoModule
<1>3. Compiled(v) \in [ir : Nat, code : Nat]
  BY DEF Compiled
<1> QED BY <1>1, <1>2, <1>3, NoneIsNothing

(* Loading, compiling and instantiating keep the invariant.                *)
LEMMA MakingKeeps ==
    ASSUME QuietInv, NEW f \in Faaslets,
           Create(f) \/ LoadIR(f) \/ Compile(f) \/ InstantiateBound(f)
    PROVE  QuietInv'
<1>1. step[f] \in {"create"} \cup Making
  BY DEF Create, LoadIR, Compile, InstantiateBound, AtStep, Making
<1>2. /\ CachesCurrent /\ QuietTypes /\ FaasletCurrent(f) /\ stored # None /\ stored \in Nat
  BY <1>1, Served DEF Making
<1>3. f # None
  BY NoneIsNothing
<1>4. CASE Create(f)
  <2>1. CASE entry = None
    <3>1. /\ step' = [step EXCEPT ![f] = "load"] /\ writer' = f /\ entry' = EmptyEntry
          /\ writer = None /\ step[f] = "create"
          /\ UNCHANGED <<files, caches, building, snapshots, mod, job, need, system>>
      BY <1>4, <2>1 DEF Create, GoesTo, AtStep
    <3>2. QuietTypes' /\ CachesCurrent'
      BY <1>2, <1>3, <3>1 DEF QuietTypes, CachesCurrent, files, caches, snapshots, system
    <3> QED BY <2>1, <3>1, <3>2, MakerMoves DEF Making, snapshots
  <2>2. CASE entry # None
    <3>1. /\ step' = [step EXCEPT ![f] = "take"] /\ writer = None /\ step[f] = "create"
          /\ UNCHANGED <<files, caches, cacheMap, snapshots, mod, job, need, system>>
      BY <1>4, <2>2 DEF Create, GoesTo, AtStep, cacheMap
    <3>2. mod' = [mod EXCEPT ![f] = mod[f]] /\ (job[f] # "bind" => mod[f] = Module(stored, stored, stored))
      BY <1>2, <3>1 DEF QuietTypes, FaasletCurrent
    <3> QED BY <2>2, <3>1, <3>2, FaasletMoves DEF Making, snapshots
  <2> QED BY <2>1, <2>2
<1>5. CASE LoadIR(f)
  <2>1. /\ writer = f /\ step[f] = "load" /\ entry = EmptyEntry
        /\ UNCHANGED <<compiledIr, snapshots, mod, job, need, system>>
    BY <1>2, <1>3, <1>5 DEF LoadIR, AtStep, FaasletCurrent, Making, CachesCurrent
  <2>2. CASE CreateFails(f) /\ UNCHANGED <<files, ir>>
    <3>1. /\ step' = [step EXCEPT ![f] = "failed"] /\ writer' = None /\ entry' = None
      BY <2>2 DEF CreateFails, GoesTo
    <3>2. QuietTypes' /\ CachesCurrent'
      BY <1>2, <2>1, <2>2, <3>1 DEF QuietTypes, CachesCurrent, files, snapshots, system
    <3> QED BY <1>3, <2>1, <2>2, <3>1, <3>2, MakerMoves DEF Making, snapshots
  <2>3. CASE /\ ir' = stored /\ {wasmFile', objectFile'} \subseteq {None, stored}
             /\ GoesTo(f, "compile") /\ UNCHANGED cacheMap
    <3>1. QuietTypes' /\ CachesCurrent'
      BY <1>2, <2>1, <2>3 DEF QuietTypes, CachesCurrent, snapshots, system, cacheMap, GoesTo
    <3> QED BY <1>3, <2>1, <2>3, <3>1, MakerMoves DEF Making, snapshots, GoesTo, cacheMap
  <2> QED BY <1>2, <1>5, <2>2, <2>3 DEF LoadIR, CachesCurrent, files, NoModule, QuietTypes
<1>6. CASE Compile(f)
  <2>1. /\ writer = f /\ step[f] = "compile" /\ entry = EmptyEntry /\ ir = stored
        /\ UNCHANGED <<entry, writer, snapshots, mod, job, need, system>>
        /\ step' = [step EXCEPT ![f] = "instantiate"]
    BY <1>2, <1>3, <1>6 DEF Compile, AtStep, FaasletCurrent, Making, CachesCurrent, GoesTo
  <2>2. /\ {wasmFile', objectFile', ir'} \subseteq {None, stored}
        /\ compiledIr' = Compiled(stored) /\ building' = Compiled(stored)
    BY <1>2, <1>6, <2>1 DEF Compile, CachesCurrent, files, Compiled
  <2>3. QuietTypes' /\ CachesCurrent'
    BY <1>2, <2>1, <2>2 DEF QuietTypes, CachesCurrent, snapshots, system
  <2> QED BY <1>3, <2>1, <2>2, <2>3, MakerMoves DEF Making, snapshots
<1>7. CASE InstantiateBound(f)
  <2>1. /\ writer = f /\ step[f] = "instantiate" /\ building = Compiled(stored)
        /\ UNCHANGED <<files, caches, mod, job, need, system>>
    BY <1>2, <1>3, <1>7 DEF InstantiateBound, AtStep, FaasletCurrent, Making
  <2>2. /\ entry' = BoundEntry(stored) /\ zygote' = stored
        /\ writer' = None /\ step' = [step EXCEPT ![f] = "take"]
    BY <1>2, <1>7, <2>1 DEF InstantiateBound, Compiled, BoundEntry, GoesTo, CachesCurrent, QuietTypes, NoModule
  <2>3. QuietTypes' /\ CachesCurrent'
    BY <1>2, <2>1, <2>2 DEF QuietTypes, CachesCurrent, files, caches, system
  <2>4. zygote # None => zygote' = zygote
    BY <1>2, <2>2 DEF CachesCurrent
  <2> QED BY <1>2, <1>3, <2>1, <2>2, <2>3, <2>4, MakerMoves, EntryDiffers DEF Making
<1> QED BY <1>4, <1>5, <1>6, <1>7

(* So do the other steps of a Faaslet.                                     *)
LEMMA FaasletStepKeeps ==
    ASSUME QuietInv, NEW f \in Faaslets,
           DropFaaslet(f) \/ Lookup(f) \/ Take(f) \/ RegisterSnapshot(f) \/ RestoreZygote(f)
    PROVE  QuietInv'
<1>1. step[f] \notin Making \cup {"none"}
  BY DEF DropFaaslet, Lookup, Take, RegisterSnapshot, RestoreZygote, AtStep, Making
<1>2. /\ CachesCurrent /\ QuietTypes /\ FaasletCurrent(f) /\ stored # None /\ stored \in Nat
  BY <1>1, Served
<1>3. CASE DropFaaslet(f)
  BY <1>1, <1>3, FaasletMoves DEF DropFaaslet, GoesTo, Making, snapshots
<1>4. CASE Lookup(f)
  <2>1. CASE entry = None
    <3>1. /\ step' = [step EXCEPT ![f] = "create"] /\ step[f] = "lookup"
          /\ UNCHANGED <<files, caches, cacheMap, snapshots, mod, job, need, system>>
      BY <1>4, <2>1 DEF Lookup, GoesTo, AtStep
    <3>2. mod' = [mod EXCEPT ![f] = mod[f]] /\ (job[f] # "bind" => mod[f] = Module(stored, stored, stored))
      BY <1>2, <3>1 DEF QuietTypes, FaasletCurrent
    <3> QED BY <1>1, <3>1, <3>2, FaasletMoves DEF Making, snapshots
  <2>2. CASE entry # None
    BY <1>4, <2>2, UseKeeps DEF Lookup, AtStep, snapshots
  <2> QED BY <2>1, <2>2
<1>5. CASE Take(f)
  <2>1. entry # None /\ entry' = entry
    BY <1>2, <1>5 DEF Take, AtStep, FaasletCurrent
  <2> QED BY <1>5, <2>1, UseKeeps DEF Take, AtStep, snapshots, cacheMap
<1>6. CASE RegisterSnapshot(f)
  <2>1. mod[f] = Module(stored, stored, stored) /\ mod' = [mod EXCEPT ![f] = mod[f]]
    BY <1>2, <1>6 DEF RegisterSnapshot, AtStep, FaasletCurrent, QuietTypes
  <2> QED BY <1>1, <1>6, <2>1, FaasletMoves DEF RegisterSnapshot, GoesTo, Making
<1>7. CASE RestoreZygote(f)
  <2>1. zygote = stored /\ mod[f] = Module(stored, stored, stored)
    BY <1>2, <1>7 DEF RestoreZygote, AtStep, FaasletCurrent
  <2>2. mod' = [mod EXCEPT ![f].mem = stored] /\ step' = [step EXCEPT ![f] = "ready"] /\ UNCHANGED zygote
    BY <1>2, <1>7, <2>1 DEF RestoreZygote, GoesTo
  <2>3. mod' = [mod EXCEPT ![f] = Module(stored, stored, stored)]
    <3>1. [mod[f] EXCEPT !.mem = stored] = Module(stored, stored, stored)
      BY SMT, <2>1 DEF Module
    <3> QED BY <2>2, <3>1
  <2> QED BY <1>1, <1>7, <2>2, <2>3, FaasletMoves DEF RestoreZygote, Making
<1> QED BY <1>3, <1>4, <1>5, <1>6, <1>7

(* An update and the steps of its flush keep the invariant.                *)
LEMMA FlushKeeps ==
    ASSUME QuietInv, quiesced, FlushClearsState,
           Upload \/ FlushBegins \/ clearLocalCache \/ ClearIR \/ ClearModules
    PROVE  QuietInv'
<1>1. CASE Upload
  <2>1. Serving /\ \A f \in Faaslets : step[f] = "none"
    BY <1>1 DEF Upload, Serving, Gone, AtStep
  <2>2. writer = None
    BY <2>1, NoneIsNothing DEF QuietInv, QuietTypes, FaasletCurrent, Making
  <2>3. QuietTypes' /\ Flushing' /\ ~Serving'
    BY SMT, <1>1, <2>1, <2>2 DEF Upload, QuietInv, QuietTypes, Serving, Flushing, cacheMap, faaslet
  <2>4. \A f \in Faaslets : FaasletCurrent(f)'
    BY <1>1, <2>1, <2>2, NoneIsNothing DEF Upload, FaasletCurrent, Making, cacheMap, faaslet
  <2> QED BY <2>3, <2>4 DEF QuietInv
<1>2. CASE FlushBegins \/ clearLocalCache \/ ClearIR
  <2>1. ~Serving /\ Flushing /\ QuietTypes
    BY SMT, <1>2 DEF FlushBegins, clearLocalCache, ClearIR, Serving, QuietInv, QuietTypes
  <2>2. QuietTypes' /\ Flushing' /\ ~Serving'
    BY <1>2, <2>1 DEF FlushBegins, clearLocalCache, ClearIR, QuietTypes, Serving, Flushing,
       cacheMap, faaslet, files, caches, snapshots
  <2>3. \A f \in Faaslets : FaasletCurrent(f)'
    BY <2>2, NoneIsNothing DEF FaasletCurrent, Making, Flushing
  <2> QED BY <2>2, <2>3 DEF QuietInv
<1>3. CASE ClearModules
  <2>1. ~Serving /\ Flushing /\ QuietTypes
    BY <1>3 DEF ClearModules, Serving, QuietInv
  <2>2. QuietTypes' /\ Serving' /\ CachesCurrent' /\ writer' = None /\ \A f \in Faaslets : step'[f] = "none"
    BY <1>3, <2>1 DEF ClearModules, QuietTypes, Serving, Flushing, CachesCurrent,
       faaslet, files, caches, snapshots
  <2>3. \A f \in Faaslets : FaasletCurrent(f)'
    BY <2>2, NoneIsNothing DEF FaasletCurrent, Making
  <2> QED BY <2>2, <2>3 DEF QuietInv
<1> QED BY <1>1, <1>2, <1>3

(* The module cache by itself.                                             *)
CacheSpec == CacheInit /\ [][CacheNext]_cacheVars

(* Behaviours where updates overlap with running Faaslets are not meant    *)
(* here.                                                                   *)
QuietOnes == quiesced /\ FlushClearsState => QuietInv

(* After an update and a flush every Faaslet runs the code, globals and    *)
(* memory of the updated function (RunsUpdatedFunction), for any number of *)
(* Faaslets and updates, where the flush came when no Faaslet was running  *)
(* and the state was emptied too: no cache is left that a version could    *)
(* survive in.                                                             *)
THEOREM UpdatesTakeEffect == CacheSpec => []RunsUpdatedFunction
<1>1. CacheInit => QuietOnes
  BY QuietInitInv DEF QuietOnes
<1>2. QuietOnes /\ [CacheNext]_cacheVars => QuietOnes'
  <2> SUFFICES ASSUME quiesced', FlushClearsState, QuietOnes, [CacheNext]_cacheVars PROVE QuietInv'
    BY DEF QuietOnes
  <2>1. quiesced /\ QuietInv
    BY DEF QuietOnes, CacheNext, cacheVars
  <2>2. CASE CacheNext
    BY <2>1, <2>2, StartKeeps, FaasletStepKeeps, MakingKeeps, FlushKeeps DEF CacheNext
  <2>3. CASE UNCHANGED cacheVars
    BY SMT, <2>1, <2>3 DEF cacheVars, files, caches, cacheMap, snapshots, faaslet, system,
       QuietInv, QuietTypes, Serving, CachesCurrent, Flushing, FaasletCurrent, Making
  <2> QED BY <2>2, <2>3
<1>3. QuietOnes => RunsUpdatedFunction
  <2> SUFFICES ASSUME QuietOnes, NEW f \in Faaslets, quiesced, FlushClearsState, step[f] = "ready",
                      NEW part \in {"code", "globals", "mem"}
               PROVE  mod[f][part] = need[f]
    BY DEF RunsUpdatedFunction, AtStep
  <2>1. mod[f] = Module(stored, stored, stored) /\ need[f] = stored
    BY DEF QuietOnes, QuietInv, FaasletCurrent
  <2> QED BY SMT, <2>1 DEF Module
<1> QED BY <1>1, <1>2, <1>3, PTL DEF CacheSpec

(***************************************************************************)
(* Enclave                                                                 *)
(***************************************************************************)
(* The global id, once it is not 0, is the id of an enclave. *)
LEMMA GlobalIsEnclave ==
    ASSUME EnclaveTypeOK, globalEnclaveId # 0
    PROVE globalEnclaveId \in Enclaves
BY SMT, EnclaveBound DEF EnclaveTypeOK, Enclaves

(* Every step keeps the types; the one enclave is made within the bound.   *)
LEMMA EnclaveTypesKept ==
    ASSUME EnclaveTypeOK, EnclaveInv, EnclaveNext PROVE EnclaveTypeOK'
<1> USE DEF EnclaveTypeOK, MovesTo, Phases
<1>1. PICK i \in Interfaces : EnclaveStep(i)
  BY DEF EnclaveNext
<1>2. CASE Construct(i)
  <2>1. CASE globalEnclaveId # 0
    BY <1>2, <2>1 DEF Construct, checkSgxSetup
  <2>2. CASE globalEnclaveId = 0
    <3>1. PICK o \in SetupOutcomes :
             /\ IF o \in {"noFile", "notCreated"}
                THEN UNCHANGED globalEnclaveId
                ELSE globalEnclaveId' = globalEnclaveId + 1
             /\ wamrReady' = IF o \in {"ready", "notAttested"}
                             THEN wamrReady \cup {globalEnclaveId'} ELSE wamrReady
             /\ iface' = [iface EXCEPT ![i] = IF o = "ready" THEN "built" ELSE "none"]
      BY <1>2, <2>2 DEF Construct, checkSgxSetup, createEnclave, ecallInitWamr
    <3>2. globalEnclaveId' \in 0..MaxEnclaves
      BY SMT, <2>2, <3>1, EnclaveBound
    <3>3. wamrReady' \in SUBSET Enclaves
      <4>1. o \in {"ready", "notAttested"} => globalEnclaveId' = 1
        BY SMT, <2>2, <3>1
      <4>2. 1 \in Enclaves
        BY SMT, EnclaveBound DEF Enclaves
      <4>3. wamrReady' = wamrReady \/ wamrReady' = wamrReady \cup {1}
        BY <3>1, <4>1
      <4> QED
        BY <4>2, <4>3
    <3>4. iface' \in [Interfaces -> Phases]
      BY <3>1
    <3> QED
      BY <1>2, <3>2, <3>3, <3>4 DEF Construct
  <2> QED
    BY <2>1, <2>2
<1>3. CASE doBindToFunction(i)
  <2>1. globalEnclaveId \in Enclaves
    BY <1>3, GlobalIsEnclave DEF doBindToFunction, EnclaveInv
  <2>2. enclaveModules' \in [Enclaves -> [Interfaces -> Entries]]
    BY SMT, <1>3, <2>1 DEF doBindToFunction, ecallLoadModule, Entries
  <2>3. iface' \in [Interfaces -> Phases]
    BY <1>3 DEF doBindToFunction, ecallLoadModule
  <2> QED
    BY <1>3, <2>2, <2>3 DEF doBindToFunction
<1>4. CASE unbindFunction(i)
  BY SMT, <1>4 DEF unbindFunction, ecallUnloadModule, Entries
<1>5. CASE executeFunction(i)
  BY <1>5 DEF executeFunction, ecallCallFunction
<1>6. CASE callFunction(i)
  BY <1>6 DEF callFunction
<1>7. CASE wasi_args_get(i)
  <2>1. globalEnclaveId \in Enclaves
    BY <1>7, GlobalIsEnclave DEF wasi_args_get, EnclaveInv
  <2>2. argsRead' \in [Interfaces -> Args \cup {NoArgs}]
    BY SMT, <1>7, <2>1 DEF wasi_args_get, getExecutingEnclaveWasmModule
  <2>3. iface' \in [Interfaces -> Phases]
    BY <1>7 DEF wasi_args_get
  <2> QED
    BY <1>7, <2>2, <2>3 DEF wasi_args_get
<1>8. CASE ocallFaasmWriteOutput(i)
  BY <1>8 DEF ocallFaasmWriteOutput
<1>9. CASE Return(i)
  BY <1>9 DEF Return
<1> QED
  BY <1>1, <1>2, <1>3, <1>4, <1>5, <1>6, <1>7, <1>8, <1>9 DEF EnclaveStep

(* Every step keeps EnclaveInv.  A step of one interface changes only its  *)
(* own entry, its own arguments and its own answer; the enclave is made    *)
(* when no interface needs one yet.                                        *)
LEMMA EnclaveInvKept ==
    ASSUME EnclaveTypeOK, EnclaveInv, EnclaveNext PROVE EnclaveInv'
<1> USE DEF EnclaveTypeOK, MovesTo, Phases
<1>1. PICK i \in Interfaces : EnclaveStep(i)
  BY DEF EnclaveNext
<1>2. CASE Construct(i)
  <2>1. CASE globalEnclaveId # 0
    BY SMT, <1>2, <2>1 DEF Construct, checkSgxSetup, EnclaveInv
  <2>2. CASE globalEnclaveId = 0
    <3>1. \A j \in Interfaces : iface[j] = "none"
      BY <2>2 DEF EnclaveInv
    <3>2. /\ \A j \in Interfaces : iface'[j] \in {"none", "built"}
          /\ iface'[i] = "built" => globalEnclaveId' = 1
          /\ \A j \in Interfaces : j # i => iface'[j] = "none"
      BY SMT, <1>2, <2>2, <3>1 DEF Construct, checkSgxSetup, createEnclave, ecallInitWamr
    <3> QED
      BY SMT, <1>2, <3>1, <3>2 DEF Construct, EnclaveInv
  <2> QED
    BY <2>1, <2>2
<1>3. CASE doBindToFunction(i)
  <2>1. globalEnclaveId \in Enclaves
    BY <1>3, GlobalIsEnclave DEF doBindToFunction, EnclaveInv
  <2>2. /\ iface'[i] \in {"broken", "bound"}
        /\ iface'[i] = "bound" => enclaveModules'[globalEnclaveId][i] = "loaded"
    BY SMT, <1>3, <2>1 DEF doBindToFunction, ecallLoadModule
  <2>3. \A j \in Interfaces : j # i =>
           /\ iface'[j] = iface[j]
           /\ enclaveModules'[globalEnclaveId][j] = enclaveModules[globalEnclaveId][j]
    BY SMT, <1>3, <2>1 DEF doBindToFunction, ecallLoadModule
  <2> QED
    BY SMT, <1>3, <2>1, <2>2, <2>3 DEF doBindToFunction, EnclaveInv
<1>4. CASE unbindFunction(i)
  <2>1. globalEnclaveId \in Enclaves
    BY <1>4, GlobalIsEnclave DEF unbindFunction, ecallUnloadModule, EnclaveInv
  <2>2. iface'[i] \in {"gone", "terminated"}
    BY <1>4 DEF unbindFunction, ecallUnloadModule
  <2>3. \A j \in Interfaces : j # i =>
           /\ iface'[j] = iface[j]
           /\ enclaveModules'[globalEnclaveId][j] = enclaveModules[globalEnclaveId][j]
    BY SMT, <1>4, <2>1 DEF unbindFunction, ecallUnloadModule
  <2> QED
    BY SMT, <1>4, <2>1, <2>2, <2>3 DEF unbindFunction, ecallUnloadModule, EnclaveInv
<1>5. CASE executeFunction(i)
  BY SMT, <1>5 DEF executeFunction, ecallCallFunction, EnclaveInv
<1>6. CASE callFunction(i)
  <2>1. globalEnclaveId \in Enclaves
    BY <1>6, GlobalIsEnclave DEF callFunction, EnclaveInv
  <2> QED
    BY <1>6, <2>1 DEF callFunction, EnclaveInv
<1>7. CASE wasi_args_get(i)
  <2>1. getExecutingEnclaveWasmModule(globalEnclaveId, i) = {i}
    BY <1>7 DEF wasi_args_get, getExecutingEnclaveWasmModule, EnclaveInv
  <2>2. argsRead' = [argsRead EXCEPT ![i] = sent[i]] /\ UNCHANGED iface
    BY <1>7, <2>1 DEF wasi_args_get, EnclaveInv
  <2> QED
    BY <1>7, <2>2 DEF wasi_args_get, EnclaveInv
<1>8. CASE ocallFaasmWriteOutput(i)
  BY <1>8 DEF ocallFaasmWriteOutput, EnclaveInv
<1>9. CASE Return(i)
  BY SMT, <1>9 DEF Return, EnclaveInv
<1> QED
  BY <1>1, <1>2, <1>3, <1>4, <1>5, <1>6, <1>7, <1>8, <1>9 DEF EnclaveStep

(* A bound interface stays usable and is answered from its own arguments,  *)
(* with any number of interfaces calling, being made and destroyed at once *)
(* (ecallCallFunction, getExecutingEnclaveWasmModule).                     *)
THEOREM OwnCallAnswered == EnclaveSpec => []EnclaveAnswersOwnCall
<1>1. EnclaveInit => EnclaveTypeOK /\ EnclaveInv
  BY SMT, EnclaveBound DEF EnclaveInit, EnclaveTypeOK, EnclaveInv, Enclaves, Entries, Phases
<1>2. EnclaveTypeOK /\ EnclaveInv /\ [EnclaveNext]_enclaveVars => (EnclaveTypeOK /\ EnclaveInv)'
  <2>1. CASE EnclaveNext
    BY <2>1, EnclaveTypesKept, EnclaveInvKept
  <2>2. CASE UNCHANGED enclaveVars
    BY <2>2 DEF enclaveVars, EnclaveTypeOK, EnclaveInv
  <2> QED
    BY <2>1, <2>2
<1>3. EnclaveInv => EnclaveAnswersOwnCall
  BY DEF EnclaveInv, EnclaveAnswersOwnCall
<1> QED
  BY <1>1, <1>2, <1>3, PTL DEF EnclaveSpec
=============================================================================
