------------------------- MODULE SharedFilesProofs --------------------------
(***************************************************************************)
(* Proofs about the files a guest sees: shared ones (SharedFiles), what is *)
(* unlinked stays so and what is fetched after a flush is current, and the *)
(* listings of its directories (DirListing).                               *)
(***************************************************************************)
EXTENDS SharedFiles, DirListing, WellFoundedInduction, TLAPS

(* Steps are left to Zenon unless they name SMT, which has the arithmetic. *)
USE Zenon

(***************************************************************************)
(* Shared files                                                            *)
(***************************************************************************)
(* One thread on a host works with files where they are unlinked.          *)
OneThreadUnlinks == SingleWriter /\ \A w \in Workloads : "unlink" \in w => "create" \in w

(* Every host has a disk, a map and a lock, every thread its registers.    *)
FileShapes ==
    /\ workload \in Workloads
    /\ disk = [h \in Hosts |-> disk[h]]
    /\ map = [h \in Hosts |-> map[h]] /\ \A h \in Hosts : map[h] = [k \in Keys |-> map[h][k]]
    /\ lock = [h \in Hosts |-> lock[h]]
    /\ pc = [t \in Threads |-> pc[t]] /\ op = [t \in Threads |-> op[t]]
    /\ bytes = [t \in Threads |-> bytes[t]] /\ fd = [t \in Threads |-> fd[t]]
    /\ res = [t \in Threads |-> res[t]]
    /\ fresh \subseteq Hosts /\ gone \subseteq Hosts /\ flushing \subseteq Hosts

(* On a host of which the file is gone, no thread is about to bring it     *)
(* back.                                                                   *)
Removed(h) ==
    /\ disk[h] = NoFile
    /\ \A t \in Threads : HostOf(t) = h =>
          /\ fd[t] # "live"
          /\ pc[t] \notin {"upload", "truncate", "rewrite"}
          /\ pc[t] \in {"load", "store"} => bytes[t] = NoFile

(* A thread that does something does it alone on its host where files are  *)
(* created, and only a thread of an unlink removes.                        *)
Alone ==
    /\ \A t \in Threads : pc[t] # "idle" => op[t] # "none"
    /\ "create" \in workload =>
          \A t, u \in Threads : HostOf(t) = HostOf(u) /\ op[t] # "none" /\ op[u] # "none" => t = u
    /\ \A t \in Threads : pc[t] \in {"remove", "erase"} => "unlink" \in workload
    /\ \A t \in Threads : pc[t] = "upload" => bytes[t] # NoFile

(* The inductive invariant for unlinking.                                  *)
UnlinkInv ==
    /\ FileShapes /\ Alone
    /\ gone # {} => s3 = NoFile /\ "unlink" \in workload
    /\ \A h \in gone : Removed(h)
    /\ \A t \in Threads : pc[t] = "erase" => Removed(HostOf(t))

(* Guests only read; the files come in through the upload endpoint.        *)
ReadOnly == workload \subseteq {"read", "upload", "flush"}
(* What a read should say.                                                 *)
Answer == IF s3 = NoFile THEN "ENOENT" ELSE s3

(* A host that was flushed since the object last changed.                  *)
Fresh(h) ==
    /\ disk[h] \in {NoFile, s3}
    /\ h \notin flushing =>
          /\ map[h][Url] = "EXISTS" => disk[h] = s3 /\ s3 # NoFile
          /\ map[h][Url] = "NOT_EXISTS" => s3 = NoFile
          /\ map[h][Url] = "NOT_CHECKED" => ~Unlocked(h)
          /\ map[h][Url] \in FileStates \cup {Unknown}
    /\ \A t \in Threads : HostOf(t) = h =>
          /\ pc[t] \in {"load", "store"} => bytes[t] = s3
          /\ pc[t] = "open" => disk[h] = s3 /\ s3 # NoFile
          /\ pc[t] = "idle" /\ op[t] = "read" /\ res[t] # "none" => res[t] = Answer

(* The inductive invariant for flushing: the object changes and hosts are  *)
(* flushed while nobody reads there.                                       *)
FlushInv ==
    /\ FileShapes
    /\ s3 \in Values \cup {NoFile}
    /\ \A t \in Threads : pc[t] \in {"idle", "sync", "load", "store", "open"} /\ op[t] \in {"none", "read"}
    /\ \A t \in Threads : pc[t] # "idle" => op[t] = "read"
    /\ \A t \in Threads : pc[t] \in {"load", "store"} <=> lock[HostOf(t)] = t
    /\ \A h \in Hosts : lock[h] \in Threads \cup {NoThread} /\ (~Unlocked(h) => HostOf(lock[h]) = h)
    /\ \A h \in flushing : Idle(h) /\ disk[h] = NoFile
    /\ \A h \in fresh : Fresh(h)

(* Both, as TLC checks them.                                               *)
FilesInv == (OneThreadUnlinks => UnlinkInv) /\ (Quiesced /\ ReadOnly => FlushInv)

(* A thread is on a host.                                                  *)
LEMMA HostsOfThreads == \A t \in Threads : HostOf(t) \in Hosts
BY DEF Threads, HostOf

(* The path with the shared prefix and the one without are two keys of the *)
(* map.                                                                    *)
LEMMA KeysAreApart == Url \in Keys /\ stripSharedPrefix(Url) \in Keys /\ stripSharedPrefix(Url) # Url
BY DEF Keys, Url, stripSharedPrefix

(* Where a sync leads to.                                                  *)
LEMMA AfterSyncGoes ==
    ASSUME NEW t, NEW o, NEW result, AfterSync(t, o, result)
    PROVE  \/ (result = "ok" \/ o = "python") /\ pc' = [pc EXCEPT ![t] = "open"] /\ res' = res
           \/ result # "ok" /\ o = "create" /\ pc' = [pc EXCEPT ![t] = "clear"] /\ res' = res
           \/ result # "ok" /\ pc' = [pc EXCEPT ![t] = "idle"] /\ res' = [res EXCEPT ![t] = "ENOENT"]
BY DEF AfterSync, Goto, Returns

(* No step changes the shapes.                                             *)
LEMMA ShapesKept == FileShapes /\ [SharedNext]_sharedVars => FileShapes'
<1> SUFFICES ASSUME FileShapes, [SharedNext]_sharedVars PROVE FileShapes'
  OBVIOUS
<1> USE HostsOfThreads
<1>1. CASE UNCHANGED sharedVars
  BY <1>1 DEF FileShapes, sharedVars, local, thread, history
<1>2. ASSUME NEW t \in Threads, NEW o \in AllOps, Sync(t, o) PROVE FileShapes'
  <2>1. \E where : pc' = [pc EXCEPT ![t] = where]
    BY <1>2, AfterSyncGoes DEF Sync, Goto
  <2>2. res' = res \/ res' = [res EXCEPT ![t] = "ENOENT"]
    BY <1>2, AfterSyncGoes DEF Sync
  <2>3. UNCHANGED <<workload, disk, map, lock, bytes, fd, fresh, gone, flushing>> /\ op' = [op EXCEPT ![t] = o]
    BY <1>2 DEF Sync, local
  <2>4. pc' = [u \in Threads |-> pc'[u]]
    BY <2>1 DEF FileShapes
  <2>5. res' = [u \in Threads |-> res'[u]]
    BY <2>2 DEF FileShapes
  <2>6. op' = [u \in Threads |-> op'[u]]
    BY <2>3 DEF FileShapes
  <2> QED BY SMT, <2>3, <2>4, <2>5, <2>6 DEF FileShapes
<1>3. ASSUME NEW t \in Threads, SyncLocked(t) PROVE FileShapes'
  <2>1. \E where : pc' = [pc EXCEPT ![t] = where]
    BY <1>3, AfterSyncGoes DEF SyncLocked, Goto
  <2>2. res' = res \/ res' = [res EXCEPT ![t] = "ENOENT"]
    BY <1>3, AfterSyncGoes DEF SyncLocked
  <2>3. UNCHANGED <<workload, disk, op, fd, fresh, gone, flushing>>
    BY <1>3 DEF SyncLocked, local, history
  <2>4. /\ map' = map \/ \E state : map' = [map EXCEPT ![HostOf(t)][Url] = state]
        /\ lock' = lock \/ lock' = [lock EXCEPT ![HostOf(t)] = t]
        /\ bytes' = bytes \/ \E b : bytes' = [bytes EXCEPT ![t] = b]
    BY <1>3 DEF SyncLocked, Mark
  <2>5. pc' = [u \in Threads |-> pc'[u]]
    BY <2>1 DEF FileShapes
  <2>6. res' = [u \in Threads |-> res'[u]]
    BY <2>2 DEF FileShapes
  <2>7. map' = [h \in Hosts |-> map'[h]] /\ \A h \in Hosts : map'[h] = [k \in Keys |-> map'[h][k]]
    BY SMT, <2>4 DEF FileShapes
  <2>8. lock' = [h \in Hosts |-> lock'[h]] /\ bytes' = [u \in Threads |-> bytes'[u]]
    BY <2>4 DEF FileShapes
  <2> QED BY <2>3, <2>5, <2>6, <2>7, <2>8 DEF FileShapes
<1>4. ASSUME NEW t \in Threads, SyncLoad(t) PROVE FileShapes'
  BY SMT, <1>4 DEF FileShapes, SyncLoad, Goto, Returns, local, history
<1>5. ASSUME NEW t \in Threads, SyncStore(t) PROVE FileShapes'
  <2>1. \E where : pc' = [pc EXCEPT ![t] = where]
    BY <1>5, AfterSyncGoes DEF SyncStore
  <2>2. res' = res \/ res' = [res EXCEPT ![t] = "ENOENT"]
    BY <1>5, AfterSyncGoes DEF SyncStore
  <2>3. UNCHANGED <<workload, op, fd, fresh, gone, flushing>>
    BY <1>5 DEF SyncStore, history
  <2>4. /\ \E state : map' = [map EXCEPT ![HostOf(t)][Url] = state]
        /\ \E b : disk' = [disk EXCEPT ![HostOf(t)] = b]
        /\ lock' = [lock EXCEPT ![HostOf(t)] = NoThread]
        /\ bytes' = [bytes EXCEPT ![t] = NoFile]
    BY <1>5 DEF SyncStore, Mark
  <2>5. pc' = [u \in Threads |-> pc'[u]]
    BY <2>1 DEF FileShapes
  <2>6. res' = [u \in Threads |-> res'[u]]
    BY <2>2 DEF FileShapes
  <2>7. map' = [h \in Hosts |-> map'[h]] /\ \A h \in Hosts : map'[h] = [k \in Keys |-> map'[h][k]]
    <3>1. PICK state : map' = [map EXCEPT ![HostOf(t)][Url] = state]
      BY <2>4
    <3> QED BY <3>1 DEF FileShapes
  <2>8. disk' = [h \in Hosts |-> disk'[h]] /\ lock' = [h \in Hosts |-> lock'[h]]
    BY <2>4 DEF FileShapes
  <2>9. bytes' = [u \in Threads |-> bytes'[u]]
    BY <2>4 DEF FileShapes
  <2> QED BY <2>3, <2>5, <2>6, <2>7, <2>8, <2>9 DEF FileShapes
<1>6. ASSUME NEW t \in Threads, ClearCache(t) PROVE FileShapes'
  BY <1>6 DEF FileShapes, ClearCache, Goto, Mark, local, history
<1>7. ASSUME NEW t \in Threads, OpenLocal(t) PROVE FileShapes'
  BY SMT, <1>7 DEF FileShapes, OpenLocal, Goto, Returns
<1>8. ASSUME NEW t \in Threads, NEW v \in Values, Write(t, v) PROVE FileShapes'
  BY <1>8 DEF FileShapes, Write, Goto
<1>9. ASSUME NEW t \in Threads, UpdateLoad(t) PROVE FileShapes'
  <2>1. \E where : pc' = [pc EXCEPT ![t] = where]
    BY <1>9 DEF UpdateLoad, Goto, Returns
  <2>2. res' = res \/ res' = [res EXCEPT ![t] = "threw"]
    BY <1>9 DEF UpdateLoad, Returns
  <2>3. UNCHANGED <<workload, map, lock, op, fd, fresh, gone, flushing>>
    BY <1>9 DEF UpdateLoad, history
  <2>4. /\ disk' = disk \/ \E b : disk' = [disk EXCEPT ![HostOf(t)] = b]
        /\ \E b : bytes' = [bytes EXCEPT ![t] = b]
    BY <1>9 DEF UpdateLoad
  <2>5. pc' = [u \in Threads |-> pc'[u]]
    BY <2>1 DEF FileShapes
  <2>6. res' = [u \in Threads |-> res'[u]]
    BY <2>2 DEF FileShapes
  <2>7. disk' = [h \in Hosts |-> disk'[h]] /\ bytes' = [u \in Threads |-> bytes'[u]]
    BY <2>4 DEF FileShapes
  <2> QED BY <2>3, <2>5, <2>6, <2>7 DEF FileShapes
<1>10. ASSUME NEW t \in Threads, UpdateUpload(t) PROVE FileShapes'
  BY <1>10 DEF FileShapes, UpdateUpload, Goto, SetObject, local
<1>11. ASSUME NEW t \in Threads, UpdateTruncate(t) \/ UpdateRewrite(t) PROVE FileShapes'
  BY SMT, <1>11 DEF FileShapes, UpdateTruncate, UpdateRewrite, Goto, Returns, history
<1>12. ASSUME NEW t \in Threads, Unlink(t) PROVE FileShapes'
  BY <1>12 DEF FileShapes, Unlink, Goto, SetObject, local
<1>13. ASSUME NEW t \in Threads, UnlinkLocal(t) PROVE FileShapes'
  BY <1>13 DEF FileShapes, UnlinkLocal, Goto, RemoveLocal, history
<1>14. ASSUME NEW t \in Threads, UnlinkErase(t) PROVE FileShapes'
  BY <1>14 DEF FileShapes, UnlinkErase, Goto, Returns, local
<1>15. ASSUME NEW v \in Values, handleSharedFileUpload(v) PROVE FileShapes'
  BY <1>15 DEF FileShapes, handleSharedFileUpload, SetObject, local, thread
<1>16. ASSUME NEW h \in Hosts, clearSharedFiles(h) PROVE FileShapes'
  BY <1>16 DEF FileShapes, clearSharedFiles, RemoveLocal, history
<1>17. ASSUME NEW h \in Hosts, clear(h) PROVE FileShapes'
  BY <1>17 DEF FileShapes, clear, local
<1> QED BY <1>1, <1>2, <1>3, <1>4, <1>5, <1>6, <1>7, <1>8, <1>9, <1>10, <1>11, <1>12, <1>13, <1>14, <1>15,
           <1>16, <1>17 DEF SharedNext

(* A step of thread t that touches only what is on its host, and what it   *)
(* has to see to.                                                          *)
ActsAlone(t) ==
    /\ pc[t] # "idle" \/ MayStart(t)
    /\ op'[t] # "none" /\ workload' = workload
    /\ \A u \in Threads \ {t} : pc'[u] = pc[u] /\ op'[u] = op[u]
    /\ \A u \in Threads \ {t} : pc[u] = "upload" => bytes'[u] = bytes[u]
    /\ \A u \in Threads : HostOf(u) # HostOf(t) => fd'[u] = fd[u] /\ bytes'[u] = bytes[u]
    /\ \A h \in Hosts \ {HostOf(t)} : disk'[h] = disk[h]
    /\ pc'[t] \in {"remove", "erase"} => "unlink" \in workload
    /\ pc'[t] = "upload" => bytes'[t] # NoFile
    /\ gone' \subseteq gone \cup {HostOf(t)}
    /\ gone' # {} => s3' = NoFile /\ "unlink" \in workload
    /\ HostOf(t) \in gone' \/ pc'[t] = "erase" => Removed(HostOf(t))'

(* Such a step keeps the invariant for unlinking.                          *)
LEMMA ActingKeeps ==
    ASSUME OneThreadUnlinks, UnlinkInv, FileShapes', NEW t \in Threads, ActsAlone(t)
    PROVE  UnlinkInv'
<1> USE HostsOfThreads
<1>1. \A u \in Threads : pc'[u] # "idle" => op'[u] # "none"
  BY DEF ActsAlone, UnlinkInv, Alone
<1>2. "create" \in workload =>
          \A u, v \in Threads : HostOf(u) = HostOf(v) /\ op'[u] # "none" /\ op'[v] # "none" => u = v
  BY SMT DEF ActsAlone, UnlinkInv, Alone, MayStart, OneThreadUnlinks
<1>3. Alone'
  BY SMT, <1>1, <1>2 DEF ActsAlone, UnlinkInv, Alone
<1>4. \A h \in Hosts : h # HostOf(t) /\ Removed(h) => Removed(h)'
  BY SMT DEF ActsAlone, Removed
<1>5. \A h \in gone' : Removed(h)'
  BY <1>4 DEF ActsAlone, UnlinkInv, FileShapes
<1>6. ASSUME NEW u \in Threads, pc'[u] = "erase" PROVE Removed(HostOf(u))'
  <2>1. CASE u = t
    BY <1>6, <2>1 DEF ActsAlone
  <2>2. CASE u # t
    <3>1. pc[u] = "erase" /\ Removed(HostOf(u)) /\ "unlink" \in workload
      BY <1>6, <2>2 DEF ActsAlone, UnlinkInv, Alone
    <3>2. "create" \in workload
      BY <3>1 DEF UnlinkInv, FileShapes, OneThreadUnlinks
    <3>3. HostOf(u) # HostOf(t)
      BY <1>1, <1>2, <1>6, <2>2, <3>2 DEF ActsAlone
    <3> QED BY <1>4, <3>1, <3>3
  <2> QED BY <2>1, <2>2
<1> QED BY <1>3, <1>5, <1>6 DEF UnlinkInv, ActsAlone

(* Every step keeps the invariant for unlinking.                           *)
LEMMA UnlinkStep == OneThreadUnlinks /\ UnlinkInv /\ [SharedNext]_sharedVars => UnlinkInv'
<1> SUFFICES ASSUME OneThreadUnlinks, UnlinkInv, [SharedNext]_sharedVars PROVE UnlinkInv'
  OBVIOUS
<1> USE HostsOfThreads
<1>0. FileShapes /\ FileShapes' /\ Alone
  BY ShapesKept DEF UnlinkInv
<1>1. CASE UNCHANGED sharedVars
  BY <1>0, <1>1 DEF UnlinkInv, Alone, Removed, sharedVars, local, thread, history
<1>2. ASSUME NEW t \in Threads, NEW o \in AllOps, Sync(t, o) PROVE ActsAlone(t)
  <2>1. \E where \in {"sync", "open", "clear", "idle"} : pc' = [pc EXCEPT ![t] = where]
    BY <1>2, AfterSyncGoes DEF Sync, Goto
  <2>2. /\ UNCHANGED <<workload, s3, disk, bytes, fd, gone>> /\ op' = [op EXCEPT ![t] = o]
        /\ o # "none" /\ MayStart(t)
    BY <1>2 DEF Sync, local
  <2>3. pc'[t] \in {"sync", "open", "clear", "idle"} /\ op'[t] # "none"
    BY <1>0, <2>1, <2>2 DEF FileShapes
  <2>4. \A u \in Threads \ {t} : pc'[u] = pc[u] /\ op'[u] = op[u]
    BY <1>0, <2>1, <2>2 DEF FileShapes
  <2>5. HostOf(t) \in gone' => Removed(HostOf(t))'
    BY <2>2, <2>3, <2>4 DEF UnlinkInv, Removed
  <2> QED BY <2>2, <2>3, <2>4, <2>5 DEF ActsAlone, UnlinkInv
<1>3. ASSUME NEW t \in Threads, SyncLocked(t) PROVE ActsAlone(t)
  <2>1. \E where \in {"load", "open", "clear", "idle"} : pc' = [pc EXCEPT ![t] = where]
    BY <1>3, AfterSyncGoes DEF SyncLocked, Goto
  <2>2. UNCHANGED <<workload, s3, disk, op, fd, gone>> /\ pc[t] = "sync"
    BY <1>3 DEF SyncLocked, local, history, At
  <2>3. pc'[t] \in {"load", "open", "clear", "idle"} /\ \A u \in Threads \ {t} : pc'[u] = pc[u]
    BY <1>0, <2>1 DEF FileShapes
  <2>4. \A u \in Threads \ {t} : bytes'[u] = bytes[u]
    BY <1>0, <1>3 DEF SyncLocked, FileShapes
  <2>5. pc'[t] = "load" => bytes'[t] = IF disk[HostOf(t)] # NoFile THEN disk[HostOf(t)] ELSE s3
    <3>1. ASSUME NEW result, AfterSync(t, op[t], result) PROVE pc'[t] # "load"
      <4>1. \E where \in {"open", "clear", "idle"} : pc' = [pc EXCEPT ![t] = where]
        BY <3>1, AfterSyncGoes
      <4> QED BY <1>0, <4>1 DEF FileShapes
    <3>2. pc'[t] = "load" => bytes' = [bytes EXCEPT ![t] = IF disk[HostOf(t)] # NoFile THEN disk[HostOf(t)] ELSE s3]
      BY <1>3, <3>1 DEF SyncLocked
    <3> QED BY <1>0, <3>2 DEF FileShapes
  <2>6. HostOf(t) \in gone' => Removed(HostOf(t))'
    BY <2>2, <2>3, <2>4, <2>5 DEF UnlinkInv, Removed
  <2>7. op[t] # "none"
    BY <1>0, <2>2 DEF Alone
  <2> QED BY <2>2, <2>3, <2>4, <2>6, <2>7 DEF ActsAlone, UnlinkInv
<1>4. ASSUME NEW t \in Threads, SyncLoad(t) PROVE ActsAlone(t)
  <2>1. UNCHANGED <<workload, s3, disk, op, fd, gone>> /\ pc[t] = "load" /\ op[t] # "none"
    BY <1>0, <1>4 DEF SyncLoad, local, history, At, Alone
  <2>2. pc'[t] \in {"store", "idle"} /\ \A u \in Threads \ {t} : pc'[u] = pc[u] /\ bytes'[u] = bytes[u]
    BY <1>0, <1>4 DEF SyncLoad, FileShapes, Goto, Returns
  <2>3. bytes[t] = NoFile => bytes'[t] = NoFile
    BY <1>0, <1>4 DEF SyncLoad, FileShapes
  <2>4. HostOf(t) \in gone' => Removed(HostOf(t))'
    BY <2>1, <2>2, <2>3 DEF UnlinkInv, Removed
  <2> QED BY <2>1, <2>2, <2>4 DEF ActsAlone, UnlinkInv
<1>5. ASSUME NEW t \in Threads, SyncStore(t) PROVE ActsAlone(t)
  <2>1. UNCHANGED <<workload, s3, op, fd, gone>> /\ pc[t] = "store" /\ op[t] # "none"
    BY <1>0, <1>5 DEF SyncStore, local, history, At, Alone
  <2>2. \E where \in {"open", "clear", "idle"} : pc' = [pc EXCEPT ![t] = where]
    BY <1>5, AfterSyncGoes DEF SyncStore, Goto
  <2>3. pc'[t] \in {"open", "clear", "idle"} /\ \A u \in Threads \ {t} : pc'[u] = pc[u]
    BY <1>0, <2>2 DEF FileShapes
  <2>4. \A u \in Threads \ {t} : bytes'[u] = bytes[u]
    BY <1>0, <1>5 DEF SyncStore, FileShapes
  <2>5. /\ \A h \in Hosts \ {HostOf(t)} : disk'[h] = disk[h]
        /\ bytes[t] = NoFile => disk'[HostOf(t)] = disk[HostOf(t)]
    BY <1>0, <1>5 DEF SyncStore, FileShapes, NoBytes
  <2>6. HostOf(t) \in gone' => Removed(HostOf(t))'
    BY SMT, <2>1, <2>3, <2>4, <2>5 DEF UnlinkInv, Removed
  <2> QED BY <2>1, <2>3, <2>4, <2>5, <2>6 DEF ActsAlone, UnlinkInv
<1>6. ASSUME NEW t \in Threads, ClearCache(t) PROVE ActsAlone(t)
  <2>1. UNCHANGED <<workload, s3, disk, bytes, op, fd, gone>> /\ pc[t] = "clear" /\ op[t] # "none"
    BY <1>0, <1>6 DEF ClearCache, local, history, At, Alone
  <2>2. pc'[t] = "open" /\ \A u \in Threads \ {t} : pc'[u] = pc[u]
    BY <1>0, <1>6 DEF ClearCache, FileShapes, Goto
  <2>3. HostOf(t) \in gone' => Removed(HostOf(t))'
    BY <2>1, <2>2 DEF UnlinkInv, Removed
  <2> QED BY <2>1, <2>2, <2>3 DEF ActsAlone, UnlinkInv
<1>7. ASSUME NEW t \in Threads, OpenLocal(t) PROVE ActsAlone(t)
  <2>1. UNCHANGED <<workload, s3, bytes, op>> /\ pc[t] = "open" /\ op[t] # "none"
    BY <1>0, <1>7 DEF OpenLocal, local, At, Alone
  <2>2. pc'[t] = "idle" /\ \A u \in Threads \ {t} : pc'[u] = pc[u]
    BY <1>0, <1>7 DEF OpenLocal, FileShapes, Goto, Returns
  <2>3. /\ \A u \in Threads \ {t} : fd'[u] = fd[u]
        /\ \A h \in Hosts \ {HostOf(t)} : disk'[h] = disk[h]
        /\ gone' \subseteq gone
        /\ HostOf(t) \in gone' => fd' = fd /\ disk' = disk
    BY <1>0, <1>7 DEF OpenLocal, FileShapes
  <2>4. HostOf(t) \in gone' => Removed(HostOf(t))'
    BY SMT, <2>1, <2>2, <2>3 DEF UnlinkInv, Removed
  <2> QED BY <2>1, <2>2, <2>3, <2>4 DEF ActsAlone, UnlinkInv
<1>8. ASSUME NEW t \in Threads, NEW v \in Values, Write(t, v) PROVE ActsAlone(t)
  <2>1. UNCHANGED <<workload, s3, bytes, fd, gone>> /\ MayStart(t)
    BY <1>8 DEF Write
  <2>2. pc'[t] = "update" /\ op'[t] = "write" /\ \A u \in Threads \ {t} : pc'[u] = pc[u] /\ op'[u] = op[u]
    BY <1>0, <1>8 DEF Write, FileShapes, Goto
  <2>3. /\ \A h \in Hosts \ {HostOf(t)} : disk'[h] = disk[h]
        /\ fd[t] # "live" => disk'[HostOf(t)] = disk[HostOf(t)]
    BY <1>0, <1>8 DEF Write, FileShapes
  <2>4. HostOf(t) \in gone' => Removed(HostOf(t))'
    BY <2>1, <2>2, <2>3 DEF UnlinkInv, Removed
  <2> QED BY <2>1, <2>2, <2>3, <2>4 DEF ActsAlone, UnlinkInv
<1>9. ASSUME NEW t \in Threads, UpdateLoad(t) PROVE ActsAlone(t)
  <2> DEFINE loaded == IF disk[HostOf(t)] # NoFile THEN disk[HostOf(t)] ELSE s3
  <2>1. UNCHANGED <<workload, s3, op, fd, gone>> /\ pc[t] = "update" /\ op[t] # "none"
    BY <1>0, <1>9 DEF UpdateLoad, history, At, Alone
  <2>2. /\ bytes'[t] = loaded
        /\ \A u \in Threads \ {t} : pc'[u] = pc[u] /\ bytes'[u] = bytes[u]
        /\ \A h \in Hosts \ {HostOf(t)} : disk'[h] = disk[h]
        /\ pc'[t] \in {"idle", "upload"}
        /\ loaded = NoFile => pc'[t] = "idle" /\ disk' = disk
    BY <1>0, <1>9 DEF UpdateLoad, FileShapes, Goto, Returns, NoBytes
  <2>3. HostOf(t) \in gone' => Removed(HostOf(t))'
    BY <2>1, <2>2 DEF UnlinkInv, Removed
  <2> QED BY <2>1, <2>2, <2>3 DEF ActsAlone, UnlinkInv
<1>10. ASSUME NEW t \in Threads, UpdateUpload(t) PROVE ActsAlone(t)
  <2>1. UNCHANGED <<workload, disk, op, bytes, fd>> /\ pc[t] = "upload" /\ op[t] # "none" /\ gone' = {}
    BY <1>0, <1>10 DEF UpdateUpload, SetObject, local, At, Alone
  <2>2. pc'[t] = "truncate" /\ \A u \in Threads \ {t} : pc'[u] = pc[u]
    BY <1>0, <1>10 DEF UpdateUpload, FileShapes, Goto
  <2> QED BY <2>1, <2>2 DEF ActsAlone, UnlinkInv
<1>11. ASSUME NEW t \in Threads, UpdateTruncate(t) \/ UpdateRewrite(t) PROVE ActsAlone(t)
  <2>1. UNCHANGED <<workload, s3, op, fd, gone>> /\ pc[t] \in {"truncate", "rewrite"} /\ op[t] # "none"
    BY <1>0, <1>11 DEF UpdateTruncate, UpdateRewrite, history, At, Alone
  <2>2. /\ \A u \in Threads \ {t} : pc'[u] = pc[u] /\ bytes'[u] = bytes[u]
        /\ \A h \in Hosts \ {HostOf(t)} : disk'[h] = disk[h]
        /\ pc'[t] \in {"idle", "rewrite"}
    BY <1>0, <1>11 DEF UpdateTruncate, UpdateRewrite, FileShapes, Goto, Returns
  <2>3. HostOf(t) \notin gone
    BY <2>1 DEF UnlinkInv, Removed
  <2> QED BY <2>1, <2>2, <2>3 DEF ActsAlone, UnlinkInv
<1>12. ASSUME NEW t \in Threads, Unlink(t) PROVE ActsAlone(t)
  <2>1. /\ UNCHANGED <<workload, disk, bytes, fd, gone>> /\ MayStart(t)
        /\ s3' = NoFile /\ "unlink" \in workload
    BY <1>12 DEF Unlink, SetObject, local
  <2>2. pc'[t] = "remove" /\ op'[t] = "unlink" /\ \A u \in Threads \ {t} : pc'[u] = pc[u] /\ op'[u] = op[u]
    BY <1>0, <1>12 DEF Unlink, FileShapes, Goto
  <2>3. HostOf(t) \in gone' => Removed(HostOf(t))'
    BY <2>1, <2>2 DEF UnlinkInv, Removed
  <2> QED BY <2>1, <2>2, <2>3 DEF ActsAlone
<1>13. ASSUME NEW t \in Threads, UnlinkLocal(t) PROVE ActsAlone(t)
  <2>1. /\ UNCHANGED <<workload, s3, op, gone>> /\ pc[t] = "remove" /\ op[t] # "none" /\ "unlink" \in workload
    BY <1>0, <1>13 DEF UnlinkLocal, At, Alone, history
  <2>2. pc'[t] = "erase" /\ \A u \in Threads \ {t} : pc'[u] = pc[u]
    BY <1>0, <1>13 DEF UnlinkLocal, FileShapes, Goto
  <2>3. /\ \A u \in Threads : HostOf(u) # HostOf(t) => fd'[u] = fd[u] /\ bytes'[u] = bytes[u]
        /\ \A u \in Threads : HostOf(u) = HostOf(t) => fd'[u] # "live"
        /\ \A u \in Threads \ {t} : pc[u] = "upload" => bytes'[u] = bytes[u]
        /\ \A h \in Hosts \ {HostOf(t)} : disk'[h] = disk[h]
        /\ disk'[HostOf(t)] = NoFile
    BY <1>0, <1>13 DEF UnlinkLocal, RemoveLocal, FileShapes, At
  <2>4. "create" \in workload
    BY <1>0, <2>1 DEF OneThreadUnlinks, FileShapes
  <2>5. \A u \in Threads \ {t} : HostOf(u) = HostOf(t) => pc[u] = "idle"
    BY <1>0, <2>1, <2>4 DEF Alone
  <2>6. Removed(HostOf(t))'
    BY <2>2, <2>3, <2>5 DEF Removed
  <2> QED BY <2>1, <2>2, <2>3, <2>6 DEF ActsAlone, UnlinkInv
<1>14. ASSUME NEW t \in Threads, UnlinkErase(t) PROVE ActsAlone(t)
  <2>1. /\ UNCHANGED <<workload, s3, disk, op, fd, bytes>> /\ pc[t] = "erase" /\ op[t] # "none" /\ "unlink" \in workload
        /\ gone' = IF s3 = NoFile THEN gone \cup {HostOf(t)} ELSE gone
    BY <1>0, <1>14 DEF UnlinkErase, At, Alone, local
  <2>2. pc'[t] = "idle" /\ \A u \in Threads \ {t} : pc'[u] = pc[u]
    BY <1>0, <1>14 DEF UnlinkErase, FileShapes, Goto, Returns
  <2>3. Removed(HostOf(t))'
    BY <2>1, <2>2 DEF UnlinkInv, Removed
  <2> QED BY <2>1, <2>2, <2>3 DEF ActsAlone, UnlinkInv
<1>15. ASSUME NEW v \in Values, handleSharedFileUpload(v) PROVE UnlinkInv'
  <2>1. gone' = {} /\ UNCHANGED <<workload, disk, pc, op, bytes, fd>>
    BY <1>15, NamesAreApart DEF handleSharedFileUpload, SetObject, local, thread, NoBytes
  <2> QED BY <1>0, <2>1 DEF UnlinkInv, Alone, Removed
<1>16. ASSUME NEW h \in Hosts, clearSharedFiles(h) PROVE UnlinkInv'
  <2>1. /\ UNCHANGED <<workload, s3, pc, op, gone>>
        /\ \A g \in Hosts : disk'[g] \in {disk[g], NoFile}
        /\ \A t \in Threads : fd'[t] = fd[t] \/ fd'[t] = "orphan"
        /\ \A t \in Threads : bytes'[t] = bytes[t] \/ (pc[t] = "rewrite" /\ bytes'[t] = NoFile)
    BY <1>0, <1>16 DEF clearSharedFiles, RemoveLocal, FileShapes, history, At
  <2>2. \A g \in Hosts : Removed(g) => Removed(g)'
    BY <2>1 DEF Removed
  <2>3. Alone'
    BY SMT, <1>0, <2>1 DEF Alone
  <2> QED BY <1>0, <2>1, <2>2, <2>3 DEF UnlinkInv, FileShapes
<1>17. ASSUME NEW h \in Hosts, clear(h) PROVE UnlinkInv'
  <2>1. UNCHANGED <<workload, s3, disk, pc, op, bytes, fd, gone>>
    BY <1>17 DEF clear, local
  <2> QED BY <1>0, <2>1 DEF UnlinkInv, Alone, Removed
<1>18. ASSUME NEW t \in Threads, ActsAlone(t) PROVE UnlinkInv'
  BY <1>0, <1>18, ActingKeeps
<1> QED BY <1>1, <1>2, <1>3, <1>4, <1>5, <1>6, <1>7, <1>8, <1>9, <1>10, <1>11, <1>12, <1>13, <1>14, <1>15,
           <1>16, <1>17, <1>18 DEF SharedNext

(* A file that was unlinked on a host does not come back there until       *)
(* somebody makes it again (UnlinkedIsGone), for any number of hosts,      *)
(* threads and contents, where one thread of a host at a time works with a *)
(* file that is created and unlinked.                                      *)
THEOREM UnlinkedStaysGone == OneThreadUnlinks => (SharedSpec => []UnlinkedIsGone)
<1> SUFFICES ASSUME OneThreadUnlinks PROVE SharedSpec => []UnlinkedIsGone
  OBVIOUS
<1>1. SharedInit => UnlinkInv
  BY SMT DEF SharedInit, UnlinkInv, FileShapes, Alone, Removed
<1>2. UnlinkInv /\ [SharedNext]_sharedVars => UnlinkInv'
  BY UnlinkStep
<1>3. UnlinkInv => UnlinkedIsGone
  BY DEF UnlinkInv, UnlinkedIsGone, Removed
<1> QED BY <1>1, <1>2, <1>3, PTL DEF SharedSpec

(* A step of a thread that reads the file.                                 *)
Reading(t) ==
    /\ HostOf(t) \notin flushing /\ UNCHANGED <<s3, flushing, fresh>>
    /\ \A u \in Threads \ {t} : pc'[u] = pc[u] /\ op'[u] = op[u] /\ bytes'[u] = bytes[u] /\ res'[u] = res[u]
    /\ \A h \in Hosts \ {HostOf(t)} : disk'[h] = disk[h] /\ map'[h] = map[h] /\ lock'[h] = lock[h]
    /\ pc'[t] \in {"idle", "sync", "load", "store", "open"} /\ op'[t] = "read"
    /\ \/ lock'[HostOf(t)] = lock[HostOf(t)]
       \/ {lock[HostOf(t)], lock'[HostOf(t)]} \subseteq {NoThread, t}
    /\ pc'[t] \in {"load", "store"} <=> lock'[HostOf(t)] = t
    /\ HostOf(t) \in fresh => Fresh(HostOf(t))'

(* What the guests do is chosen once.                                      *)
LEMMA WorkloadKept == [SharedNext]_sharedVars => workload' = workload
<1> SUFFICES ASSUME [SharedNext]_sharedVars PROVE workload' = workload
  OBVIOUS
<1>1. ASSUME NEW t \in Threads, NEW o, Sync(t, o) PROVE workload' = workload
  BY <1>1 DEF Sync
<1>2. ASSUME NEW t \in Threads,
             SyncLocked(t) \/ SyncLoad(t) \/ SyncStore(t) \/ ClearCache(t) \/ OpenLocal(t)
      PROVE  workload' = workload
  BY <1>2 DEF SyncLocked, SyncLoad, SyncStore, ClearCache, OpenLocal
<1>3. ASSUME NEW t \in Threads, UpdateLoad(t) \/ UpdateUpload(t) \/ UpdateTruncate(t) \/ UpdateRewrite(t)
      PROVE  workload' = workload
  BY <1>3 DEF UpdateLoad, UpdateUpload, UpdateTruncate, UpdateRewrite
<1>4. ASSUME NEW t \in Threads, (\E v \in Values : Write(t, v)) \/ Unlink(t) \/ UnlinkLocal(t) \/ UnlinkErase(t)
      PROVE  workload' = workload
  BY <1>4 DEF Write, Unlink, UnlinkLocal, UnlinkErase
<1>5. ASSUME NEW v, handleSharedFileUpload(v) PROVE workload' = workload
  BY <1>5 DEF handleSharedFileUpload
<1>6. ASSUME NEW h, clearSharedFiles(h) \/ clear(h) PROVE workload' = workload
  BY <1>6 DEF clearSharedFiles, clear
<1> QED BY <1>1, <1>2, <1>3, <1>4, <1>5, <1>6 DEF SharedNext, sharedVars

(* A step of a read keeps the invariant for flushing.                      *)
LEMMA ReadingKeeps ==
    ASSUME FlushInv, FileShapes', NEW t \in Threads, Reading(t)
    PROVE  FlushInv'
<1> USE HostsOfThreads
<1>1. \A u \in Threads : pc'[u] \in {"idle", "sync", "load", "store", "open"} /\ op'[u] \in {"none", "read"}
  BY DEF FlushInv, Reading
<1>2. \A u \in Threads : pc'[u] # "idle" => op'[u] = "read"
  BY SMT DEF FlushInv, Reading
<1>3. \A u \in Threads : pc'[u] \in {"load", "store"} <=> lock'[HostOf(u)] = u
  BY SMT, NamesAreApart DEF FlushInv, Reading
<1>4. \A h \in Hosts : lock'[h] \in Threads \cup {NoThread} /\ (~Unlocked(h)' => HostOf(lock'[h]) = h)
  BY SMT DEF FlushInv, Reading, Unlocked
<1>5. ASSUME NEW h \in flushing' PROVE Idle(h)' /\ disk'[h] = NoFile
  <2>1. h \in flushing /\ h # HostOf(t) /\ h \in Hosts
    BY SMT DEF FlushInv, Reading, FileShapes
  <2>2. Idle(h) /\ disk[h] = NoFile
    BY <2>1 DEF FlushInv
  <2> QED BY SMT, <2>1, <2>2 DEF Reading, Idle, At
<1>6. \A h \in fresh' : Fresh(h)'
  <2> SUFFICES ASSUME NEW h \in fresh, h # HostOf(t) PROVE Fresh(h)'
    BY DEF Reading
  <2>1. h \in Hosts /\ Fresh(h)
    BY DEF FlushInv, FileShapes
  <2> QED BY SMT, <2>1 DEF Reading, Fresh, Unlocked, Answer
<1> QED BY <1>1, <1>2, <1>3, <1>4, <1>5, <1>6 DEF FlushInv, Reading

(* Every step keeps the invariant for flushing.                            *)
LEMMA FlushStep == Quiesced /\ ReadOnly /\ FlushInv /\ [SharedNext]_sharedVars => FlushInv' /\ ReadOnly'
<1> SUFFICES ASSUME Quiesced, ReadOnly, FlushInv, [SharedNext]_sharedVars PROVE FlushInv' /\ ReadOnly'
  OBVIOUS
<1> USE HostsOfThreads
<1>0. FileShapes /\ FileShapes'
  BY ShapesKept DEF FlushInv
<1>1. CASE UNCHANGED sharedVars
  BY SMT, <1>0, <1>1 DEF FlushInv, Fresh, Idle, At, Unlocked, Answer, ReadOnly, sharedVars, local, thread, history
<1>2. ASSUME NEW t \in Threads, NEW o \in AllOps, Sync(t, o) PROVE Reading(t)
  <2> DEFINE h == HostOf(t)
             state == map[h][Url]
  <2>1. /\ o = "read" /\ h \notin flushing /\ Unlocked(h) /\ pc[t] = "idle" /\ op' = [op EXCEPT ![t] = "read"]
        /\ UNCHANGED <<s3, disk, map, lock, bytes, flushing, fresh>>
    BY <1>2 DEF Sync, ReadOnly, local, MayStart, At
  <2>2. \/ state = Unknown /\ pc' = [pc EXCEPT ![t] = "sync"] /\ res' = res
        \/ state = "EXISTS" /\ pc' = [pc EXCEPT ![t] = "open"] /\ res' = res
        \/ state # "EXISTS" /\ state # Unknown /\ pc' = [pc EXCEPT ![t] = "idle"]
           /\ res' = [res EXCEPT ![t] = "ENOENT"]
    BY <1>2, <2>1, AfterSyncGoes DEF Sync, Goto, getReturnValueForSharedFileState
  <2>3. \A u \in Threads \ {t} : pc'[u] = pc[u] /\ op'[u] = op[u] /\ res'[u] = res[u]
    BY SMT, <1>0, <2>1, <2>2 DEF FileShapes
  <2>4. \/ state = Unknown /\ pc'[t] = "sync"
        \/ state = "EXISTS" /\ pc'[t] = "open"
        \/ state # "EXISTS" /\ state # Unknown /\ pc'[t] = "idle" /\ res'[t] = "ENOENT"
    BY <1>0, <2>2 DEF FileShapes
  <2>5. op'[t] = "read"
    BY <1>0, <2>1 DEF FileShapes
  <2>6. lock[h] # t
    BY <2>1, NamesAreApart DEF Unlocked
  <2>7. h \in fresh => Fresh(h)'
    <3> SUFFICES ASSUME h \in fresh PROVE Fresh(h)'
      OBVIOUS
    <3>1. Fresh(h)
      BY DEF FlushInv
    <3>2. pc'[t] = "open" => disk[h] = s3 /\ s3 # NoFile
      BY <2>1, <2>4, <3>1 DEF Fresh, Unknown
    <3>3. pc'[t] = "idle" => res'[t] = Answer
      BY <2>1, <2>4, <3>1 DEF Fresh, Unknown, FileStates, Answer
    <3> QED BY SMT, <2>1, <2>3, <2>4, <3>1, <3>2, <3>3 DEF Fresh, Unlocked, Answer
  <2> QED BY <2>1, <2>3, <2>4, <2>5, <2>6, <2>7 DEF Reading
<1>2a. ASSUME NEW t \in Threads, pc[t] # "idle" PROVE HostOf(t) \notin flushing /\ op[t] = "read"
  BY <1>2a DEF FlushInv, Idle, At
<1>3. ASSUME NEW t \in Threads, SyncLocked(t) PROVE Reading(t)
  <2> DEFINE h == HostOf(t)
             state == map[h][Url]
  <2>1. /\ Unlocked(h) /\ pc[t] = "sync" /\ UNCHANGED <<s3, disk, op, flushing, fresh>>
    BY <1>3 DEF SyncLocked, local, At, history
  <2>2. h \notin flushing /\ op[t] = "read"
    BY <1>2a, <2>1
  <2>3. \/ /\ state = "EXISTS" /\ pc' = [pc EXCEPT ![t] = "open"] /\ res' = res
           /\ UNCHANGED <<map, lock, bytes>>
        \/ /\ state # "EXISTS" /\ state # Unknown /\ pc' = [pc EXCEPT ![t] = "idle"]
           /\ res' = [res EXCEPT ![t] = "ENOENT"] /\ UNCHANGED <<map, lock, bytes>>
        \/ /\ state = Unknown /\ disk[h] # NoFile /\ pc' = [pc EXCEPT ![t] = "open"] /\ res' = res
           /\ map' = [map EXCEPT ![h][Url] = "EXISTS"] /\ UNCHANGED <<lock, bytes>>
        \/ /\ state = Unknown /\ disk[h] = NoFile /\ pc' = [pc EXCEPT ![t] = "load"] /\ res' = res
           /\ map' = [map EXCEPT ![h][Url] = "NOT_CHECKED"]
           /\ lock' = [lock EXCEPT ![h] = t] /\ bytes' = [bytes EXCEPT ![t] = s3]
    <3>1. CASE state # Unknown
      BY <1>3, <2>2, <3>1, AfterSyncGoes DEF SyncLocked, getReturnValueForSharedFileState
    <3>2. CASE state = Unknown /\ disk[h] # NoFile
      BY <1>3, <2>2, <3>2, AfterSyncGoes DEF SyncLocked, Mark, RealPath
    <3>3. CASE state = Unknown /\ disk[h] = NoFile
      BY <1>3, <2>2, <3>3 DEF SyncLocked, Mark, RealPath, Goto
    <3> QED BY <3>1, <3>2, <3>3
  <2>4. \A u \in Threads \ {t} : pc'[u] = pc[u] /\ op'[u] = op[u] /\ bytes'[u] = bytes[u] /\ res'[u] = res[u]
    BY SMT, <1>0, <2>1, <2>3 DEF FileShapes
  <2>5. \A g \in Hosts \ {h} : disk'[g] = disk[g] /\ map'[g] = map[g] /\ lock'[g] = lock[g]
    BY <1>0, <2>1, <2>3 DEF FileShapes
  <2>6. \/ /\ state = "EXISTS" /\ pc'[t] = "open" /\ map'[h][Url] = state /\ lock'[h] = NoThread
        \/ /\ state # "EXISTS" /\ state # Unknown /\ pc'[t] = "idle"
           /\ res'[t] = "ENOENT" /\ map'[h][Url] = state /\ lock'[h] = NoThread
        \/ /\ state = Unknown /\ disk[h] # NoFile /\ pc'[t] = "open"
           /\ map'[h][Url] = "EXISTS" /\ lock'[h] = NoThread
        \/ /\ state = Unknown /\ disk[h] = NoFile /\ pc'[t] = "load"
           /\ map'[h][Url] = "NOT_CHECKED" /\ lock'[h] = t /\ bytes'[t] = s3
    BY SMT, <1>0, <2>1, <2>3, KeysAreApart DEF FileShapes, Unlocked
  <2>7. h \in fresh => Fresh(h)'
    <3> SUFFICES ASSUME h \in fresh PROVE Fresh(h)'
      OBVIOUS
    <3>1. Fresh(h) /\ h \notin flushing'
      BY <2>1, <2>2 DEF FlushInv
    <3>2. pc'[t] = "open" => disk[h] = s3 /\ s3 # NoFile
      BY <2>2, <2>6, <3>1 DEF Fresh, Unknown
    <3>3. pc'[t] = "idle" => res'[t] = Answer
      BY <2>1, <2>2, <2>6, <3>1 DEF Fresh, Unknown, FileStates, Answer
    <3>4. /\ map'[h][Url] = "EXISTS" => disk[h] = s3 /\ s3 # NoFile
          /\ map'[h][Url] = "NOT_EXISTS" => s3 = NoFile
          /\ map'[h][Url] = "NOT_CHECKED" => lock'[h] # NoThread
          /\ map'[h][Url] \in FileStates \cup {Unknown}
      BY <2>1, <2>2, <2>6, <3>1, NamesAreApart DEF Fresh, Unlocked, Unknown, FileStates
    <3> QED BY SMT, <2>1, <2>4, <2>6, <3>1, <3>2, <3>3, <3>4 DEF Fresh, Unlocked, Answer
  <2>8. lock[h] = NoThread /\ t # NoThread
    BY <2>1, NamesAreApart DEF Unlocked
  <2> QED BY <2>1, <2>2, <2>4, <2>5, <2>6, <2>7, <2>8 DEF Reading
<1>4. ASSUME NEW t \in Threads, SyncLoad(t) PROVE Reading(t)
  <2> DEFINE h == HostOf(t)
             fromObject == disk[h] = NoFile /\ bytes[t] # NoFile
  <2>1. pc[t] = "load" /\ lock[h] = t /\ UNCHANGED <<s3, disk, map, op, flushing, fresh>>
    BY <1>4 DEF SyncLoad, local, At, history, FlushInv
  <2>2. h \notin flushing /\ op[t] = "read"
    BY <1>2a, <2>1
  <2>3. \/ /\ fromObject /\ s3 = NoFile /\ pc' = [pc EXCEPT ![t] = "idle"]
           /\ lock' = [lock EXCEPT ![h] = NoThread] /\ bytes' = [bytes EXCEPT ![t] = NoFile]
           /\ res' = [res EXCEPT ![t] = "threw"]
        \/ /\ ~(fromObject /\ s3 = NoFile) /\ pc' = [pc EXCEPT ![t] = "store"]
           /\ bytes' = [bytes EXCEPT ![t] = IF fromObject THEN s3 ELSE @] /\ UNCHANGED <<lock, res>>
    BY <1>4 DEF SyncLoad, Goto, Returns
  <2>4. \A u \in Threads \ {t} : pc'[u] = pc[u] /\ op'[u] = op[u] /\ bytes'[u] = bytes[u] /\ res'[u] = res[u]
    BY SMT, <1>0, <2>1, <2>3 DEF FileShapes
  <2>5. \A g \in Hosts \ {h} : disk'[g] = disk[g] /\ map'[g] = map[g] /\ lock'[g] = lock[g]
    BY <1>0, <2>1, <2>3 DEF FileShapes
  <2>6. \/ fromObject /\ s3 = NoFile /\ pc'[t] = "idle" /\ lock'[h] = NoThread
        \/ /\ ~(fromObject /\ s3 = NoFile) /\ pc'[t] = "store" /\ lock'[h] = t
           /\ bytes'[t] = IF fromObject THEN s3 ELSE bytes[t]
    BY <1>0, <2>1, <2>3 DEF FileShapes
  <2>7. h \in fresh => Fresh(h)'
    <3> SUFFICES ASSUME h \in fresh PROVE Fresh(h)'
      OBVIOUS
    <3>1. Fresh(h) /\ h \notin flushing'
      BY <2>1, <2>2 DEF FlushInv
    <3>2. pc'[t] = "store" /\ lock'[h] = t
      BY <2>1, <2>6, <3>1 DEF Fresh
    <3>3. bytes'[t] = s3
      BY <2>1, <2>6, <3>1, <3>2 DEF Fresh
    <3> QED BY SMT, <2>1, <2>2, <2>4, <3>1, <3>2, <3>3, NamesAreApart DEF Fresh, Unlocked, Answer
  <2>8. t # NoThread
    BY NamesAreApart
  <2>9. pc'[t] \in {"idle", "store"} /\ (pc'[t] \in {"load", "store"} <=> lock'[h] = t)
        /\ {lock[h], lock'[h]} \subseteq {NoThread, t}
    BY <2>1, <2>6, <2>8
  <2> QED BY <2>1, <2>2, <2>4, <2>5, <2>7, <2>9 DEF Reading
<1>5. ASSUME NEW t \in Threads, SyncStore(t) PROVE Reading(t)
  <2> DEFINE h == HostOf(t)
             found == bytes[t] \notin NoBytes
  <2>1. pc[t] = "store" /\ lock[h] = t /\ UNCHANGED <<s3, op, flushing, fresh>>
    BY <1>5 DEF SyncStore, local, At, history, FlushInv
  <2>2. h \notin flushing /\ op[t] = "read"
    BY <1>2a, <2>1
  <2>3. /\ map' = [map EXCEPT ![h][Url] = IF found THEN "EXISTS" ELSE "NOT_EXISTS"]
        /\ disk' = [disk EXCEPT ![h] = IF found THEN bytes[t] ELSE @]
        /\ lock' = [lock EXCEPT ![h] = NoThread]
        /\ bytes' = [bytes EXCEPT ![t] = NoFile]
    BY <1>5 DEF SyncStore, Mark
  <2>3a. \/ found /\ pc' = [pc EXCEPT ![t] = "open"] /\ res' = res
         \/ ~found /\ pc' = [pc EXCEPT ![t] = "idle"] /\ res' = [res EXCEPT ![t] = "ENOENT"]
    <3>1. AfterSync(t, op[t], IF found THEN "ok" ELSE "ENOENT")
      BY <1>5 DEF SyncStore
    <3>2. CASE found
      BY <3>1, <3>2, <2>2 DEF AfterSync, Goto
    <3>3. CASE ~found
      BY <3>1, <3>3, <2>2 DEF AfterSync, Goto, Returns
    <3> QED BY <3>2, <3>3
  <2> HIDE DEF found
  <2>4. \A u \in Threads \ {t} : pc'[u] = pc[u] /\ op'[u] = op[u] /\ bytes'[u] = bytes[u] /\ res'[u] = res[u]
    <3>1. pc' = [pc EXCEPT ![t] = "open"] \/ pc' = [pc EXCEPT ![t] = "idle"]
      BY <2>3a
    <3>2. res' = res \/ res' = [res EXCEPT ![t] = "ENOENT"]
      BY <2>3a
    <3>3. \A u \in Threads \ {t} : pc'[u] = pc[u]
      BY <1>0, <3>1 DEF FileShapes
    <3>4. \A u \in Threads \ {t} : res'[u] = res[u]
      BY <1>0, <3>2 DEF FileShapes
    <3>5. \A u \in Threads \ {t} : op'[u] = op[u] /\ bytes'[u] = bytes[u]
      BY <1>0, <2>1, <2>3 DEF FileShapes
    <3> QED BY <3>3, <3>4, <3>5
  <2>5. \A g \in Hosts \ {h} : disk'[g] = disk[g] /\ map'[g] = map[g] /\ lock'[g] = lock[g]
    BY <1>0, <2>1, <2>3 DEF FileShapes
  <2>6. /\ map'[h][Url] = (IF found THEN "EXISTS" ELSE "NOT_EXISTS")
        /\ disk'[h] = (IF found THEN bytes[t] ELSE disk[h]) /\ lock'[h] = NoThread
    BY <1>0, <2>3, KeysAreApart DEF FileShapes
  <2>7. \/ found /\ pc'[t] = "open"
        \/ ~found /\ pc'[t] = "idle" /\ res'[t] = "ENOENT"
    BY <1>0, <2>3a DEF FileShapes
  <2>8. h \in fresh => Fresh(h)'
    <3> SUFFICES ASSUME h \in fresh PROVE Fresh(h)'
      OBVIOUS
    <3>1. Fresh(h) /\ h \notin flushing'
      BY <2>1, <2>2 DEF FlushInv
    <3>2. bytes[t] = s3 /\ (found <=> s3 # NoFile)
      BY SMT, <2>1, <3>1, NamesAreApart DEF Fresh, found, FlushInv, NoBytes
    <3>3. disk'[h] \in {NoFile, s3} /\ (found => disk'[h] = s3)
      BY <2>6, <3>1, <3>2 DEF Fresh
    <3>4. \A u \in Threads \ {t} : HostOf(u) = h => pc[u] \notin {"load", "store"}
      BY SMT, <2>1 DEF FlushInv
    <3>5. \A u \in Threads \ {t} : HostOf(u) = h /\ pc[u] = "open" => disk'[h] = s3 /\ s3 # NoFile
      BY <3>1, <3>2, <3>3 DEF Fresh
    <3>6. \A u \in Threads : HostOf(u) = h =>
             /\ pc'[u] \in {"load", "store"} => bytes'[u] = s3
             /\ pc'[u] = "open" => disk'[h] = s3 /\ s3 # NoFile
             /\ pc'[u] = "idle" /\ op'[u] = "read" /\ res'[u] # "none" => res'[u] = Answer
      BY SMT, <2>4, <2>7, <3>1, <3>2, <3>3, <3>4, <3>5 DEF Fresh, Answer
    <3>7. Answer' = Answer /\ s3' = s3
      BY <2>1 DEF Answer
    <3>8. /\ map'[h][Url] = "EXISTS" => disk'[h] = s3 /\ s3 # NoFile
          /\ map'[h][Url] = "NOT_EXISTS" => s3 = NoFile
          /\ map'[h][Url] # "NOT_CHECKED" /\ map'[h][Url] \in FileStates \cup {Unknown}
      BY <2>6, <3>2, <3>3 DEF FileStates
    <3> QED BY <3>3, <3>6, <3>7, <3>8 DEF Fresh
  <2>9. t # NoThread
    BY NamesAreApart
  <2>10. pc'[t] \in {"idle", "open"} /\ (pc'[t] \in {"load", "store"} <=> lock'[h] = t)
        /\ {lock[h], lock'[h]} \subseteq {NoThread, t}
    BY <2>1, <2>6, <2>7, <2>9
  <2> QED BY <2>1, <2>2, <2>4, <2>5, <2>8, <2>10 DEF Reading
<1>6. ASSUME NEW t \in Threads, OpenLocal(t) PROVE Reading(t)
  <2> DEFINE h == HostOf(t)
  <2>1. pc[t] = "open" /\ UNCHANGED <<s3, map, lock, op, bytes, flushing, fresh>>
    BY <1>6 DEF OpenLocal, At
  <2>2. h \notin flushing /\ op[t] = "read" /\ lock[h] # t
    BY <1>2a, <2>1 DEF FlushInv
  <2>3. /\ disk' = disk /\ pc' = [pc EXCEPT ![t] = "idle"]
        /\ res' = [res EXCEPT ![t] = IF disk[h] = NoFile THEN "ENOENT" ELSE disk[h]]
    BY <1>6, <2>2 DEF OpenLocal, RealPath, Returns, Goto
  <2>4. \A u \in Threads \ {t} : pc'[u] = pc[u] /\ op'[u] = op[u] /\ bytes'[u] = bytes[u] /\ res'[u] = res[u]
    BY <1>0, <2>1, <2>3 DEF FileShapes
  <2>5. pc'[t] = "idle" /\ res'[t] = (IF disk[h] = NoFile THEN "ENOENT" ELSE disk[h])
    BY <1>0, <2>3 DEF FileShapes
  <2>6. h \in fresh => Fresh(h)'
    <3> SUFFICES ASSUME h \in fresh PROVE Fresh(h)'
      OBVIOUS
    <3>1. Fresh(h) /\ h \notin flushing'
      BY <2>1, <2>2 DEF FlushInv
    <3>2. res'[t] = Answer
      BY <2>1, <2>5, <3>1 DEF Fresh, Answer
    <3> QED BY SMT, <2>1, <2>2, <2>3, <2>4, <2>5, <3>1, <3>2 DEF Fresh, Unlocked, Answer
  <2> QED BY <2>1, <2>2, <2>3, <2>4, <2>5, <2>6 DEF Reading
<1>7. ASSUME NEW v \in Values, handleSharedFileUpload(v) PROVE FlushInv'
  <2>1. s3' = v /\ fresh' = {} /\ UNCHANGED <<disk, lock, pc, op, flushing>>
    BY <1>7 DEF handleSharedFileUpload, SetObject, local, thread
  <2> QED BY <1>0, <2>1 DEF FlushInv, Idle, At, Unlocked
<1>8. ASSUME NEW h \in Hosts, clearSharedFiles(h) PROVE FlushInv'
  <2>1. /\ Idle(h) /\ flushing' = flushing \cup {h} /\ disk' = [disk EXCEPT ![h] = NoFile]
        /\ UNCHANGED <<s3, map, lock, pc, op, res, fresh>>
    BY <1>8 DEF clearSharedFiles, RemoveLocal, history, Idle
  <2>2. \A u \in Threads : HostOf(u) # h => bytes'[u] = bytes[u]
    BY <1>8 DEF clearSharedFiles, RemoveLocal
  <2>3. disk'[h] = NoFile /\ \A g \in Hosts \ {h} : disk'[g] = disk[g]
    BY <1>0, <2>1 DEF FileShapes
  <2>4. ASSUME NEW g \in flushing' PROVE Idle(g)' /\ disk'[g] = NoFile
    <3>0. g \in flushing \/ g = h
      BY <2>1
    <3>1. g \in Hosts /\ Idle(g) /\ (g # h => disk[g] = NoFile)
      <4>1. CASE g = h
        BY <2>1, <4>1
      <4>2. CASE g # h
        BY <1>0, <3>0, <4>2 DEF FlushInv, FileShapes
      <4> QED BY <4>1, <4>2
    <3> QED BY <2>1, <2>3, <3>1 DEF Idle, At
  <2>5. ASSUME NEW g \in fresh' PROVE Fresh(g)'
    <3>1. g \in Hosts /\ Fresh(g)
      BY <1>0, <2>1 DEF FlushInv, FileShapes
    <3>2. CASE g = h
      BY <2>1, <2>3, <3>1, <3>2 DEF Fresh, Idle, At, Answer
    <3>3. CASE g # h
      BY <2>1, <2>2, <2>3, <3>1, <3>3 DEF Fresh, Unlocked, Answer
    <3> QED BY <3>2, <3>3
  <2>6. \A g \in Hosts : Unlocked(g)' <=> Unlocked(g)
    BY <2>1 DEF Unlocked
  <2> QED BY <1>0, <2>1, <2>4, <2>5, <2>6 DEF FlushInv
<1>9. ASSUME NEW h \in Hosts, clear(h) PROVE FlushInv'
  <2>1. /\ h \in flushing /\ flushing' = flushing \ {h} /\ fresh' = fresh \cup {h}
        /\ map' = [map EXCEPT ![h] = [k \in Keys |-> Unknown]]
        /\ UNCHANGED <<s3, disk, lock, pc, op, bytes>>
    BY <1>9 DEF clear, local
  <2>2. \A u \in Threads : res'[u] = IF HostOf(u) = h THEN "none" ELSE res[u]
    BY <1>9 DEF clear
  <2>3. map'[h][Url] = Unknown /\ \A g \in Hosts \ {h} : map'[g] = map[g]
    BY <1>0, <2>1, KeysAreApart DEF FileShapes
  <2>4. Idle(h) /\ disk[h] = NoFile
    BY <2>1 DEF FlushInv
  <2>5. ASSUME NEW g \in fresh' PROVE Fresh(g)'
    <3>2. CASE g = h
      BY <2>1, <2>2, <2>3, <2>4, <3>2 DEF Fresh, Idle, At, Answer, Unknown, FileStates
    <3>3. CASE g # h
      <4>1. g \in Hosts /\ Fresh(g)
        BY <1>0, <2>1, <3>3 DEF FlushInv, FileShapes
      <4> QED BY <2>1, <2>2, <2>3, <3>3, <4>1 DEF Fresh, Unlocked, Answer
    <3> QED BY <3>2, <3>3
  <2>6. ASSUME NEW g \in flushing' PROVE Idle(g)' /\ disk'[g] = NoFile
    BY <2>1 DEF FlushInv, Idle, At
  <2>7. \A g \in Hosts : Unlocked(g)' <=> Unlocked(g)
    BY <2>1 DEF Unlocked
  <2> QED BY <1>0, <2>1, <2>5, <2>6, <2>7 DEF FlushInv
<1>10. ASSUME NEW t \in Threads
       PROVE  /\ ~ClearCache(t) /\ ~UpdateLoad(t) /\ ~UpdateUpload(t) /\ ~UpdateTruncate(t)
              /\ ~UpdateRewrite(t) /\ ~Unlink(t) /\ ~UnlinkLocal(t) /\ ~UnlinkErase(t)
              /\ \A v : ~Write(t, v)
  BY SMT DEF ClearCache, UpdateLoad, UpdateUpload, UpdateTruncate, UpdateRewrite, Unlink, UnlinkLocal,
         UnlinkErase, Write, At, FlushInv, ReadOnly
<1>11. FlushInv'
  BY <1>0, <1>1, <1>2, <1>3, <1>4, <1>5, <1>6, <1>7, <1>8, <1>9, <1>10, ReadingKeeps DEF SharedNext
<1>12. workload' = workload
  BY WorkloadKept
<1> QED BY <1>11, <1>12 DEF ReadOnly

(* After an upload and a flush of a host, a read there gives what was      *)
(* uploaded, not what was cached (FlushedIsCurrent), where hosts are       *)
(* flushed while they rest and files are changed by uploads only:          *)
(* clearSharedFiles empties the disk and the map that syncSharedFile goes  *)
(* by.                                                                     *)
THEOREM FlushedStaysCurrent == Quiesced => (SharedSpec => []FlushedIsCurrent)
<1> SUFFICES ASSUME Quiesced PROVE SharedSpec => []FlushedIsCurrent
  OBVIOUS
<1> DEFINE Inv == ReadOnly => FlushInv
<1>1. SharedInit => Inv
  BY SMT, HostsOfThreads, NamesAreApart DEF SharedInit, FlushInv, FileShapes, Unlocked
<1>2. Inv /\ [SharedNext]_sharedVars => Inv'
  <2>1. [SharedNext]_sharedVars => workload' = workload
    BY WorkloadKept
  <2> QED BY <2>1, FlushStep DEF ReadOnly
<1>3. Inv => FlushedIsCurrent
  BY DEF FlushInv, Fresh, Answer, FlushedIsCurrent, ReadOnly, At
<1> QED BY <1>1, <1>2, <1>3, PTL DEF SharedSpec

(***************************************************************************)
(* Directories                                                             *)
(***************************************************************************)
(* One descriptor of a directory by itself.                                *)
ListingSpec == ListingInit /\ [][ListingNext]_listingVars

(* Names of a listing, as the iterator has them.                           *)
Listings == Seq(Nat \ {0})

(* The inductive invariant. What the guest has read so far is the          *)
(* beginning of the listing that the iterator goes through, and a new      *)
(* listing is taken only at the start.                                     *)
ListingInv ==
    /\ directory \in Listings
    /\ dirContentsLoaded \in [DirFds -> BOOLEAN]
    /\ dirContents \in [DirFds -> Listings]
    /\ dirContentsIdx \in [DirFds -> Nat]
    /\ listed \in [DirFds -> Seq(Nat)]
    /\ outcome \in [DirFds -> {"listing", "end", "EINVAL"}]
    /\ \A f \in DirFds :
          /\ dirContentsIdx[f] <= Len(dirContents[f])
          /\ ~dirContentsLoaded[f] => dirContentsIdx[f] = 0 /\ outcome[f] = "listing"
          /\ listed[f] = [n \in 1 .. dirContentsIdx[f] |-> n]
          /\ outcome[f] = "end" => dirContentsIdx[f] = Len(dirContents[f])

(* Every set of numbers has a least one, if any.                           *)
LEMMA NatHasMin ==
    ASSUME NEW S \in SUBSET Nat, S # {}
    PROVE  \E x \in S : \A y \in S : x <= y
<1>1. \E x \in S : \A y \in S : ~(<<y, x>> \in OpToRel(<, Nat))
  BY NatLessThanWellFounded, WFMin, Zenon
<1>2. PICK x \in S : \A y \in S : ~(<<y, x>> \in OpToRel(<, Nat))
  BY <1>1
<1>3. \A y \in S : ~(y < x)
  BY <1>2 DEF OpToRel
<1> QED BY SMT, <1>3

(* The sum that BytesFor works out is a number, and none for no entries.   *)
LEMMA BytesAreANumber ==
    ASSUME NEW names \in Listings, NEW i \in Nat, NEW j \in i .. Len(names)
    PROVE  /\ BytesFor(names, i, j) \in Nat
           /\ BytesFor(names, i, i) = 0
<1> USE SizesAssumption DEF Listings
<1> DEFINE Body(f, k) == IF k = i THEN 0 ELSE f[k - 1] + DirentSize + names[k]
           Upto(m) == \E f \in [i .. m -> Nat] : f = [k \in i .. m |-> Body(f, k)]
           Bad == {m \in i .. Len(names) : ~Upto(m)}
<1>1. Upto(i)
  <2> DEFINE f == [k \in i .. i |-> 0]
  <2>1. f = [k \in i .. i |-> Body(f, k)] /\ f \in [i .. i -> Nat]
    BY SMT
  <2> QED BY <2>1
<1>2. ASSUME NEW m \in i .. Len(names), m < Len(names), Upto(m) PROVE Upto(m + 1)
  <2>1. PICK f \in [i .. m -> Nat] : f = [k \in i .. m |-> Body(f, k)]
    BY <1>2
  <2> DEFINE g == [k \in i .. (m + 1) |-> IF k = m + 1 THEN f[m] + DirentSize + names[m + 1] ELSE f[k]]
  <2>0. names[m + 1] \in Nat /\ f[m] \in Nat
    <3>1. m + 1 \in 1 .. Len(names) /\ m \in i .. m
      BY SMT, <1>2
    <3>2. \A k \in 1 .. Len(names) : names[k] \in Nat
      <4>1. names \in Seq(Nat)
        BY SMT
      <4>2. names \in [1 .. Len(names) -> Nat]
        BY SMT, <4>1
      <4> QED BY <4>2
    <3> QED BY <3>1, <3>2
  <2>2. g \in [i .. (m + 1) -> Nat]
    <3>1. f[m] + DirentSize + names[m + 1] \in Nat
      BY SMT, <2>0
    <3>2. \A k \in i .. (m + 1) : k # m + 1 => k \in i .. m
      BY SMT
    <3> QED BY <3>1, <3>2
  <2>3. ASSUME NEW k \in i .. (m + 1) PROVE g[k] = Body(g, k)
    <3>1. CASE k = i
      BY SMT, <3>1, <2>1
    <3>2. CASE k = m + 1
      BY SMT, <3>2
    <3>3. CASE k # i /\ k # m + 1
      <4>1. k \in i .. m /\ k - 1 \in i .. (m + 1) /\ k - 1 # m + 1
        BY SMT, <3>3
      <4>2. g[k] = f[k] /\ g[k - 1] = f[k - 1]
        BY <4>1, <3>3
      <4> HIDE DEF g
      <4> QED BY <4>1, <4>2, <3>3, <2>1
    <3> QED BY <3>1, <3>2, <3>3
  <2>4. g = [k \in i .. (m + 1) |-> Body(g, k)]
    <3> HIDE DEF Body
    <3> QED BY <2>3
  <2> HIDE DEF g, Body
  <2> QED BY <2>2, <2>4
<1> HIDE DEF Upto
<1>3. Bad = {}
  <2> SUFFICES ASSUME Bad # {} PROVE FALSE
    OBVIOUS
  <2>1. Bad \in SUBSET Nat
    BY SMT
  <2>2. PICK m \in Bad : \A x \in Bad : m <= x
    BY <2>1, NatHasMin
  <2>3. m # i /\ m \in i .. Len(names) /\ ~Upto(m)
    BY <1>1, <2>2
  <2>4. m - 1 \in i .. Len(names) /\ m - 1 < Len(names) /\ (m - 1) + 1 = m /\ m - 1 \notin Bad
    BY SMT, <2>2, <2>3
  <2>5. Upto(m - 1)
    BY <2>4
  <2>6. Upto((m - 1) + 1)
    BY <1>2, <2>4, <2>5
  <2> QED BY <2>3, <2>4, <2>6
<1>4. ASSUME NEW m \in i .. Len(names) PROVE BytesFor(names, i, m) \in Nat
  <2>1. Upto(m)
    BY <1>3
  <2> DEFINE u == CHOOSE f : f = [k \in i .. m |-> Body(f, k)]
  <2>2. u = [k \in i .. m |-> Body(u, k)]
    <3> HIDE DEF Body
    <3> QED BY <2>1 DEF Upto
  <2>3. PICK f \in [i .. m -> Nat] : f = [k \in i .. m |-> Body(f, k)]
    BY <2>1 DEF Upto
  <2> HIDE DEF u
  <2> DEFINE Off == {k \in i .. m : u[k] # f[k]}
  <2>4. Off = {}
    <3> SUFFICES ASSUME Off # {} PROVE FALSE
      OBVIOUS
    <3>1. Off \in SUBSET Nat
      BY SMT
    <3>2. PICK k \in Off : \A x \in Off : k <= x
      BY <3>1, NatHasMin
    <3>3. k # i
      BY SMT, <3>2, <2>2, <2>3
    <3>4. k - 1 \in i .. m /\ k - 1 \notin Off
      BY SMT, <3>2, <3>3
    <3>5. u[k - 1] = f[k - 1]
      BY <3>4
    <3> QED BY SMT, <3>2, <3>3, <3>5, <2>2, <2>3
  <2>5. u[m] \in Nat
    <3>1. m \in i .. m
      BY SMT
    <3>2. u[m] = f[m]
      BY <3>1, <2>4
    <3> QED BY <3>1, <3>2, <2>3
  <2> QED BY <2>5 DEF u, BytesFor
<1>5. BytesFor(names, i, i) = 0
  <2> DEFINE u == CHOOSE f : f = [k \in i .. i |-> Body(f, k)]
  <2>2. u = [k \in i .. i |-> Body(u, k)]
    <3> HIDE DEF Body
    <3> QED BY <1>1 DEF Upto
  <2> HIDE DEF u
  <2>3. u[i] = 0
    BY SMT, <2>2
  <2> QED BY <2>3 DEF u, BytesFor
<1> QED BY <1>4, <1>5

(* There is a last entry that fits, so the loop of                         *)
(* copyDirentsToWasiBuffer ends somewhere in the listing.                  *)
LEMMA SomethingFits ==
    ASSUME NEW names \in Listings, NEW i \in Nat, i <= Len(names), NEW len \in Nat
    PROVE  LastThatFits(names, i, len) \in i .. Len(names)
<1> USE DEF Listings
<1> DEFINE Fits(j) == BytesFor(names, i, j) <= len
           Left == {n \in Nat : n <= Len(names) - i /\ Fits(Len(names) - n)}
<1>1. i \in i .. Len(names) /\ Len(names) - i \in Nat /\ Len(names) - (Len(names) - i) = i
  BY SMT
<1>2. Fits(i)
  BY SMT, <1>1, BytesAreANumber
<1>3. Left # {} /\ Left \in SUBSET Nat
  <2> HIDE DEF Fits
  <2>1. Len(names) - i \in Left
    BY SMT, <1>1, <1>2
  <2> QED BY <2>1
<1> HIDE DEF Fits
<1>4. PICK n \in Left : \A m \in Left : n <= m
  BY <1>3, NatHasMin
<1> DEFINE j == Len(names) - n
<1>5. j \in i .. Len(names) /\ Fits(j)
  BY SMT, <1>4
<1>6. ASSUME j # Len(names) PROVE BytesFor(names, i, j + 1) > len
  <2>1. j + 1 = Len(names) - (n - 1) /\ n - 1 \in Nat /\ n - 1 <= Len(names) - i /\ ~(n <= n - 1) /\ j + 1 \in i .. Len(names)
    BY SMT, <1>6, <1>4
  <2>2. ~Fits(j + 1)
    BY <2>1, <1>4
  <2>3. BytesFor(names, i, j + 1) \in Nat
    BY <2>1, BytesAreANumber
  <2> QED BY SMT, <2>2, <2>3 DEF Fits
<1> HIDE DEF j
<1>7. \E x \in i .. Len(names) :
        /\ BytesFor(names, i, x) <= len
        /\ x = Len(names) \/ BytesFor(names, i, x + 1) > len
  BY <1>5, <1>6 DEF Fits
<1> QED BY <1>7 DEF LastThatFits

(* The contents of the directories are listings.                           *)
LEMMA DirectoriesAreListings == \A d \in Directories : d \in Listings
<1> SUFFICES ASSUME NEW n \in 1 .. MaxEntries, NEW d \in [1 .. n -> NameSizes] PROVE d \in Listings
  BY DEF Directories
<1>1. d \in [1 .. n -> Nat \ {0}] /\ n \in Nat
  <2>1. n \in Nat /\ NameSizes \subseteq Nat \ {0}
    BY SMT, SizesAssumption
  <2> QED BY <2>1
<1> QED BY SMT, <1>1 DEF Listings

(* Every step keeps the invariant: a call of fd_readdir ends at an entry   *)
(* that does not fit, and the next one with its cookie goes on there.      *)
LEMMA ListingStep ==
    ASSUME ListingInv, [ListingNext]_listingVars
    PROVE  ListingInv'
<1> USE SizesAssumption
<1>0. \A d \in Directories : d \in Listings
  BY DirectoriesAreListings
<1>1. CASE UNCHANGED listingVars
  BY <1>1 DEF listingVars, iter, caller, ListingInv
<1>2. ASSUME NEW f \in DirFds, NEW len \in BufferSizes, fd_readdir(f, len) PROVE ListingInv'
  <2> DEFINE names == Contents(f)
             i == dirContentsIdx[f]
             j == LastThatFits(names, i, len)
  <2>1. names \in Listings /\ i \in Nat /\ i <= Len(names) /\ len \in Nat
    <3>1. CASE dirContentsLoaded[f]
      BY <3>1 DEF Contents, ListingInv
    <3>2. CASE ~dirContentsLoaded[f]
      BY SMT, <3>2 DEF Contents, ListingInv, Listings
    <3> QED BY <3>1, <3>2
  <2>2. j \in i .. Len(names)
    BY <2>1, SomethingFits
  <2>3. /\ dirContentsLoaded' = [dirContentsLoaded EXCEPT ![f] = TRUE]
        /\ dirContents' = [dirContents EXCEPT ![f] = names]
        /\ dirContentsIdx' = [dirContentsIdx EXCEPT ![f] = j]
        /\ listed' = [listed EXCEPT ![f] = @ \o [n \in 1 .. j - i |-> i + n]]
        /\ UNCHANGED directory
    BY <1>2 DEF fd_readdir, iterAfterCopy
  <2>4. /\ outcome' = [outcome EXCEPT ![f] = outcome'[f]]
        /\ outcome'[f] \in {"listing", "end", "EINVAL"}
        /\ outcome'[f] = "end" => j = Len(names)
    <3>1. outcome' = [outcome EXCEPT ![f] = IF bytesCopied(names, i, len) < len THEN "end" ELSE outcome[f]]
          /\ outcome[f] = "listing"
      BY <1>2 DEF fd_readdir
    <3>2. j < Len(names) => ~(bytesCopied(names, i, len) < len)
      BY SMT, <2>1 DEF bytesCopied
    <3>3. ~(j < Len(names)) => j = Len(names)
      BY SMT, <2>1, <2>2 DEF Listings
    <3> HIDE DEF j, names
    <3> QED BY <3>1, <3>2, <3>3 DEF ListingInv
  <2>5. listed[f] = [n \in 1 .. i |-> n] /\ listed[f] \in Seq(Nat)
    BY DEF ListingInv
  <2> HIDE DEF names, i, j
  <2>6. listed[f] \o [n \in 1 .. j - i |-> i + n] = [n \in 1 .. j |-> n]
    BY SMT, <2>1, <2>2, <2>5
  <2>7. listed' = [listed EXCEPT ![f] = [n \in 1 .. j |-> n]]
    BY <2>3, <2>6
  <2>8. j \in Nat /\ j <= Len(names) /\ [n \in 1 .. j |-> n] \in Seq(Nat)
    BY SMT, <2>1, <2>2 DEF Listings
  <2>9. /\ dirContents' \in [DirFds -> Listings] /\ dirContentsIdx' \in [DirFds -> Nat]
        /\ dirContentsLoaded' \in [DirFds -> BOOLEAN] /\ listed' \in [DirFds -> Seq(Nat)]
        /\ outcome' \in [DirFds -> {"listing", "end", "EINVAL"}] /\ directory' \in Listings
    <3>1. dirContents' \in [DirFds -> Listings]
      BY <2>1, <2>3 DEF ListingInv
    <3>2. dirContentsIdx' \in [DirFds -> Nat]
      BY <2>3, <2>8 DEF ListingInv
    <3>3. dirContentsLoaded' \in [DirFds -> BOOLEAN] /\ directory' \in Listings
      BY <2>3 DEF ListingInv
    <3>4. listed' \in [DirFds -> Seq(Nat)]
      BY <2>7, <2>8 DEF ListingInv
    <3>5. outcome' \in [DirFds -> {"listing", "end", "EINVAL"}]
      BY <2>4 DEF ListingInv
    <3> QED BY <3>1, <3>2, <3>3, <3>4, <3>5
  <2>10. /\ dirContents'[f] = names /\ dirContentsIdx'[f] = j /\ dirContentsLoaded'[f] = TRUE
         /\ listed'[f] = [n \in 1 .. j |-> n]
    BY <2>3, <2>7 DEF ListingInv
  <2>11. ASSUME NEW g \in DirFds, g # f
         PROVE  /\ dirContents'[g] = dirContents[g] /\ dirContentsIdx'[g] = dirContentsIdx[g]
                /\ dirContentsLoaded'[g] = dirContentsLoaded[g] /\ listed'[g] = listed[g]
                /\ outcome'[g] = outcome[g]
    <3>1. dirContents'[g] = dirContents[g] /\ dirContentsIdx'[g] = dirContentsIdx[g]
      BY <2>11, <2>3 DEF ListingInv
    <3>2. dirContentsLoaded'[g] = dirContentsLoaded[g]
      BY <2>11, <2>3 DEF ListingInv
    <3>3. listed'[g] = listed[g] /\ outcome'[g] = outcome[g]
      BY <2>11, <2>4, <2>7 DEF ListingInv
    <3> QED BY <3>1, <3>2, <3>3
  <2>12. ASSUME NEW g \in DirFds
         PROVE  /\ dirContentsIdx'[g] <= Len(dirContents'[g])
                /\ ~dirContentsLoaded'[g] => dirContentsIdx'[g] = 0 /\ outcome'[g] = "listing"
                /\ listed'[g] = [n \in 1 .. dirContentsIdx'[g] |-> n]
                /\ outcome'[g] = "end" => dirContentsIdx'[g] = Len(dirContents'[g])
    <3>1. CASE g = f
      BY <3>1, <2>4, <2>8, <2>10
    <3>2. CASE g # f
      BY <3>2, <2>11 DEF ListingInv
    <3> QED BY <3>1, <3>2
  <2> QED BY <2>9, <2>12 DEF ListingInv
<1>3. ASSUME NEW f \in DirFds, rewinddir(f) PROVE ListingInv'
  BY <1>3 DEF rewinddir, iter, ListingInv
<1>4. ASSUME NEW f \in DirFds, fd_readdirInvalid(f) PROVE ListingInv'
  BY <1>4 DEF fd_readdirInvalid, iter, ListingInv
<1>5. ASSUME NEW f \in DirFds, NEW g \in DirFds, duplicateIter(f, g) PROVE ListingInv'
  BY <1>5 DEF duplicateIter, ListingInv
<1>6. ASSUME NEW d, ChangeDirectory(d) PROVE ListingInv'
  BY <1>0, <1>6 DEF ChangeDirectory, iter, caller, ListingInv
<1> QED BY <1>1, <1>2, <1>3, <1>4, <1>5, <1>6 DEF ListingNext

(* What a guest has read of a directory when the calls of fd_readdir are   *)
(* over is the directory as it was when the first of them was made, each   *)
(* entry once (ListingIsExact), for directories of any length, names of    *)
(* any length and any size of buffer that has room for an entry.           *)
THEOREM ListingsAreExact == ListingSpec => []ListingIsExact
<1>1. ListingInit => ListingInv
  <2> SUFFICES ASSUME ListingInit PROVE ListingInv
    OBVIOUS
  <2>1. directory \in Listings
    BY DirectoriesAreListings DEF ListingInit
  <2>2. <<>> \in Seq(Nat) /\ <<>> \in Listings /\ 0 <= Len(<<>>) /\ <<>> = [n \in 1 .. 0 |-> n] /\ 0 \in Nat
    BY SMT DEF Listings
  <2> QED BY <2>1, <2>2 DEF ListingInit, ListingInv
<1>2. ListingInv => ListingIsExact
  <2> SUFFICES ASSUME ListingInv, NEW f \in DirFds
               PROVE  /\ listed[f] = [n \in 1 .. dirContentsIdx[f] |-> n]
                      /\ outcome[f] = "end" => Len(listed[f]) = Len(dirContents[f])
    BY DEF ListingIsExact
  <2>1. dirContentsIdx[f] \in Nat /\ listed[f] = [n \in 1 .. dirContentsIdx[f] |-> n]
        /\ (outcome[f] = "end" => dirContentsIdx[f] = Len(dirContents[f]))
    BY DEF ListingInv
  <2>2. Len([n \in 1 .. dirContentsIdx[f] |-> n]) = dirContentsIdx[f]
    BY SMT, <2>1
  <2> QED BY <2>1, <2>2
<1> QED BY <1>1, <1>2, ListingStep, PTL DEF ListingSpec
=============================================================================
