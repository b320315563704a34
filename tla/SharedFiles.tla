----------------------------- MODULE SharedFiles -----------------------------
(***************************************************************************)
(* The shared file system: one file of the object store, opened, written   *)
(* and unlinked as faasm://... by the threads of functions on several      *)
(* hosts.  A host has a local copy of it, a map of what is known of it     *)
(* (sharedFileMap), and, for a Python function, a second copy under the    *)
(* runtime root.  Users upload the file; hosts are flushed.                *)
(* Contents are the values that are written; a file may also be empty.     *)
(***************************************************************************)
EXTENDS FiniteSets, TLC

CONSTANTS
    Hosts, Slots,   \* threads are named by their host and a slot in it
    Values,         \* contents that are written or uploaded
    Workloads,      \* what may happen: sets of operations
    SingleWriter,   \* a workload that creates files has one thread on a host
    Quiesced,       \* a host is flushed when no thread is in an operation
    NoFile, Empty, NoThread

AllOps == {"read", "create", "write", "unlink", "python", "upload", "flush"}

ASSUME WorkloadsAssumption ==
    Workloads \subseteq SUBSET AllOps /\ {SingleWriter, Quiesced} \subseteq BOOLEAN

Threads == Hosts \X Slots
HostOf(t) == t[1]

Url == "faasm://file"       \* SHARED_FILE_PREFIX and the path
stripSharedPrefix(path) == "file"
Keys == {Url, stripSharedPrefix(Url)}

Unknown == "unknown"        \* not in the map
FileStates == {"NOT_CHECKED", "NOT_EXISTS", "EXISTS"}
Bytes == Values \cup {Empty}
NoBytes == {NoFile, Empty}  \* both are an empty vector

ASSUME NamesAreApart == Values \cap NoBytes = {} /\ NoThread \notin Threads

VARIABLES
    workload,       \* the operations of this behaviour
    s3,             \* the object
    disk, runtime,  \* host |-> copy under sharedFilesDir, under runtimeFilesDir
    map,            \* host |-> sharedFileMap
    lock,           \* host |-> the thread with the full lock across steps
    pc, op,         \* thread |-> where it is in which operation
    bytes,          \* thread |-> what it has loaded
    fd,             \* thread |-> its file for writing: none, live, or orphan
    res,            \* thread |-> result of its last operation since a flush
    flushing,       \* hosts whose files are removed and map is not yet cleared
    \* history
    fresh,          \* hosts flushed since the object last changed
    gone            \* hosts that unlinked the file since anyone made it again

local == <<disk, runtime>>
thread == <<pc, op, bytes, fd, res>>
history == <<fresh, gone>>
sharedVars == <<workload, s3, local, map, lock, thread, flushing, history>>

SharedInit ==
    /\ workload \in Workloads
    /\ s3 = NoFile
    /\ disk = [h \in Hosts |-> NoFile] /\ runtime = [h \in Hosts |-> NoFile]
    /\ map = [h \in Hosts |-> [k \in Keys |-> Unknown]]
    /\ lock = [h \in Hosts |-> NoThread]
    /\ pc = [t \in Threads |-> "idle"] /\ op = [t \in Threads |-> "none"]
    /\ bytes = [t \in Threads |-> NoFile] /\ fd = [t \in Threads |-> "none"]
    /\ res = [t \in Threads |-> "none"]
    /\ flushing = {} /\ fresh = {} /\ gone = {}

At(t, where) == pc[t] = where
Goto(t, where) == pc' = [pc EXCEPT ![t] = where]
Returns(t, r) == Goto(t, "idle") /\ res' = [res EXCEPT ![t] = r]
MayStart(t) ==
    /\ At(t, "idle")
    /\ SingleWriter /\ "create" \in workload =>
          \A u \in Threads \ {t} : HostOf(u) = HostOf(t) => op[u] = "none"
Unlocked(h) == lock[h] = NoThread
Mark(h, state) == map' = [map EXCEPT ![h][Url] = state]

(* The object becomes v, made (or removed) on behalf of host h or a user.  *)
SetObject(v) ==
    /\ s3' = v
    /\ fresh' = {}
    /\ gone' = IF v = NoFile THEN gone ELSE {}

(* The local copy that operation o of a thread on h is synced to.          *)
RealPath(h, o) == IF o = "python" THEN runtime[h] ELSE disk[h]

(***************************************************************************)
(* SharedFiles::syncSharedFile                                             *)
(***************************************************************************)
getReturnValueForSharedFileState(state) == IF state = "EXISTS" THEN "ok" ELSE "ENOENT"

(* Where pathOpen and syncPythonFunctionFile go on from the result.        *)
AfterSync(t, o, result) ==
    IF result = "ok" \/ o = "python" THEN Goto(t, "open") /\ UNCHANGED res
    ELSE IF o = "create" THEN Goto(t, "clear") /\ UNCHANGED res
    ELSE Returns(t, "ENOENT")

(* The first look, under the shared lock.                                  *)
Sync(t, o) ==
    LET h == HostOf(t) IN
    /\ o \in workload \cap {"read", "create", "python"}
    /\ MayStart(t) /\ Unlocked(h)
    /\ Quiesced => h \notin flushing
    /\ op' = [op EXCEPT ![t] = o]
    /\ IF map[h][Url] = Unknown THEN Goto(t, "sync") /\ UNCHANGED res
       ELSE AfterSync(t, o, getReturnValueForSharedFileState(map[h][Url]))
    /\ UNCHANGED <<workload, s3, local, map, lock, bytes, fd, flushing, fresh, gone>>

(* Under the full lock: known by now, or found on disk, or to be loaded,   *)
(* which for an object that is not on disk starts with rados_stat.         *)
SyncLocked(t) ==
    LET h == HostOf(t) IN
    /\ At(t, "sync") /\ Unlocked(h)
    /\ IF map[h][Url] # Unknown
       THEN /\ AfterSync(t, op[t], getReturnValueForSharedFileState(map[h][Url]))
            /\ UNCHANGED <<map, lock, bytes>>
       ELSE IF RealPath(h, op[t]) # NoFile
       THEN /\ Mark(h, "EXISTS")
            /\ AfterSync(t, op[t], "ok")
            /\ UNCHANGED <<lock, bytes>>
       ELSE /\ Mark(h, "NOT_CHECKED")
            /\ lock' = [lock EXCEPT ![h] = t]
            /\ bytes' = [bytes EXCEPT ![t] = IF disk[h] # NoFile THEN disk[h] ELSE s3]
            /\ Goto(t, "load") /\ UNCHANGED res
    /\ UNCHANGED <<workload, s3, local, op, fd, flushing, history>>

(* loadSharedFile: an object that was there at the stat is read, and an    *)
(* error of the read is no SharedFileNotExistsException, so it escapes.    *)
SyncLoad(t) ==
    LET h == HostOf(t)
        fromObject == disk[h] = NoFile /\ bytes[t] # NoFile IN
    /\ At(t, "load")
    /\ IF fromObject /\ s3 = NoFile
       THEN /\ Returns(t, "threw")
            /\ lock' = [lock EXCEPT ![h] = NoThread]
            /\ bytes' = [bytes EXCEPT ![t] = NoFile]
       ELSE /\ bytes' = [bytes EXCEPT ![t] = IF fromObject THEN s3 ELSE @]
            /\ Goto(t, "store") /\ UNCHANGED <<lock, res>>
    /\ UNCHANGED <<workload, s3, local, map, op, fd, flushing, history>>

(* The bytes are written (by the loader under sharedFilesDir, and to the   *)
(* real path), the state is set and the lock is given up.                  *)
SyncStore(t) ==
    LET h == HostOf(t)
        found == bytes[t] \notin NoBytes IN
    /\ At(t, "store")
    /\ Mark(h, IF found THEN "EXISTS" ELSE "NOT_EXISTS")
    /\ disk' = [disk EXCEPT ![h] = IF found THEN bytes[t] ELSE @]
    /\ runtime' = [runtime EXCEPT ![h] = IF found /\ op[t] = "python" THEN bytes[t] ELSE @]
    /\ lock' = [lock EXCEPT ![h] = NoThread]
    /\ bytes' = [bytes EXCEPT ![t] = NoFile]
    /\ AfterSync(t, op[t], IF found THEN "ok" ELSE "ENOENT")
    /\ UNCHANGED <<workload, s3, op, fd, flushing, history>>

(***************************************************************************)
(* FileDescriptor::pathOpen after the sync, and reading the file           *)
(***************************************************************************)
ClearCache(t) ==
    /\ At(t, "clear") /\ Unlocked(HostOf(t))
    /\ Mark(HostOf(t), Unknown)
    /\ Goto(t, "open")
    /\ UNCHANGED <<workload, s3, local, lock, op, bytes, fd, res, flushing, history>>

OpenLocal(t) ==
    LET h == HostOf(t)
        found == RealPath(h, op[t]) IN
    /\ At(t, "open")
    /\ IF op[t] = "create"
       THEN /\ disk' = [disk EXCEPT ![h] = IF @ = NoFile THEN Empty ELSE @]
            /\ fd' = [fd EXCEPT ![t] = "live"]
            /\ gone' = gone \ {h}
            /\ Returns(t, "ok")
       ELSE /\ Returns(t, IF found = NoFile THEN "ENOENT" ELSE found)
            /\ UNCHANGED <<disk, fd, gone>>
    /\ UNCHANGED <<workload, s3, runtime, map, lock, op, bytes, flushing, fresh>>

(***************************************************************************)
(* FileDescriptor::write: writev, then SharedFiles::updateSharedFile       *)
(***************************************************************************)
Write(t, v) ==
    LET h == HostOf(t) IN
    /\ "write" \in workload /\ MayStart(t) /\ fd[t] # "none"
    /\ disk' = [disk EXCEPT ![h] = IF fd[t] = "live" THEN v ELSE @]
    /\ op' = [op EXCEPT ![t] = "write"]
    /\ Goto(t, "update")
    /\ UNCHANGED <<workload, s3, runtime, map, lock, bytes, fd, res, flushing, fresh, gone>>

(* loadSharedFile; an empty file is one that does not exist.               *)
UpdateLoad(t) ==
    LET h == HostOf(t)
        loaded == IF disk[h] # NoFile THEN disk[h] ELSE s3 IN
    /\ At(t, "update")
    /\ bytes' = [bytes EXCEPT ![t] = loaded]
    /\ IF loaded \in NoBytes
       THEN Returns(t, "threw") /\ UNCHANGED disk
       ELSE /\ disk' = [disk EXCEPT ![h] = loaded]
            /\ Goto(t, "upload") /\ UNCHANGED res
    /\ UNCHANGED <<workload, s3, runtime, map, lock, op, fd, flushing, history>>

UpdateUpload(t) ==
    /\ At(t, "upload")
    /\ SetObject(bytes[t])
    /\ Goto(t, "truncate")
    /\ UNCHANGED <<workload, local, map, lock, op, bytes, fd, res, flushing>>

(* uploadFileBytes writes the local copy anew: the file is opened, which   *)
(* truncates it, and then the bytes are written to it.                     *)
UpdateTruncate(t) ==
    /\ At(t, "truncate")
    /\ disk' = [disk EXCEPT ![HostOf(t)] = Empty]
    /\ Goto(t, "rewrite")
    /\ UNCHANGED <<workload, s3, runtime, map, lock, op, bytes, fd, res, flushing, history>>

UpdateRewrite(t) ==
    /\ At(t, "rewrite")
    /\ disk' = [disk EXCEPT ![HostOf(t)] = IF bytes[t] = NoFile THEN @ ELSE bytes[t]]
    /\ bytes' = [bytes EXCEPT ![t] = NoFile]
    /\ Returns(t, "ok")
    /\ UNCHANGED <<workload, s3, runtime, map, lock, op, fd, flushing, fresh, gone>>

(***************************************************************************)
(* FileDescriptor::unlink: SharedFiles::deleteSharedFile                   *)
(***************************************************************************)
(* Removing the local copy leaves what is open of it without a name.       *)
RemoveLocal(h) ==
    /\ disk' = [disk EXCEPT ![h] = NoFile]
    /\ fd' = [t \in Threads |-> IF HostOf(t) = h /\ fd[t] = "live" THEN "orphan" ELSE fd[t]]
    /\ bytes' = [t \in Threads |->
                    IF HostOf(t) = h /\ At(t, "rewrite") THEN NoFile ELSE bytes[t]]

Unlink(t) ==
    /\ "unlink" \in workload /\ MayStart(t)
    /\ Quiesced => HostOf(t) \notin flushing
    /\ SetObject(NoFile)
    /\ op' = [op EXCEPT ![t] = "unlink"]
    /\ Goto(t, "remove")
    /\ UNCHANGED <<workload, local, map, lock, bytes, fd, res, flushing>>

(* Mutant: the local copy is kept. *)
UnlinkLocal_Kept(t) ==
    /\ At(t, "remove")
    /\ Goto(t, "erase")
    /\ UNCHANGED <<workload, s3, local, map, lock, op, bytes, fd, res, flushing, history>>

UnlinkLocal(t) ==
    /\ At(t, "remove")
    /\ RemoveLocal(HostOf(t))
    /\ Goto(t, "erase")
    /\ UNCHANGED <<workload, s3, runtime, map, lock, op, res, flushing, history>>

(* The entry that is erased from the map is that of the stripped path.     *)
UnlinkErase(t) ==
    LET h == HostOf(t) IN
    /\ At(t, "erase") /\ Unlocked(h)
    /\ map' = [map EXCEPT ![h][stripSharedPrefix(Url)] = Unknown]
    /\ gone' = IF s3 = NoFile THEN gone \cup {h} ELSE gone
    /\ Returns(t, "ok")
    /\ UNCHANGED <<workload, s3, local, lock, op, bytes, fd, flushing, fresh>>

(***************************************************************************)
(* The upload server, and FileLoader::clearLocalCache                      *)
(***************************************************************************)
handleSharedFileUpload(v) ==
    /\ "upload" \in workload
    /\ SetObject(v)
    /\ UNCHANGED <<workload, local, map, lock, thread, flushing>>

clearSharedFiles(h) ==
    /\ "flush" \in workload /\ h \notin flushing
    /\ Quiesced => \A t \in Threads : HostOf(t) = h => At(t, "idle")
    /\ RemoveLocal(h)
    /\ flushing' = flushing \cup {h}
    /\ UNCHANGED <<workload, s3, runtime, map, lock, pc, op, res, history>>

(* Mutant: the map is kept. *)
clear_Kept(h) ==
    /\ h \in flushing
    /\ flushing' = flushing \ {h}
    /\ res' = [t \in Threads |-> IF HostOf(t) = h THEN "none" ELSE res[t]]
    /\ fresh' = fresh \cup {h}
    /\ UNCHANGED <<workload, s3, local, map, lock, pc, op, bytes, fd, gone>>

(* SharedFiles::clear, with no lock.                                       *)
clear(h) ==
    /\ h \in flushing
    /\ flushing' = flushing \ {h}
    /\ map' = [map EXCEPT ![h] = [k \in Keys |-> Unknown]]
    /\ res' = [t \in Threads |-> IF HostOf(t) = h THEN "none" ELSE res[t]]
    /\ fresh' = fresh \cup {h}
    /\ UNCHANGED <<workload, s3, local, lock, pc, op, bytes, fd, gone>>

SharedNext ==
    \/ \E t \in Threads :
        \/ \E o \in AllOps : Sync(t, o)
        \/ SyncLocked(t) \/ SyncLoad(t) \/ SyncStore(t)
        \/ ClearCache(t) \/ OpenLocal(t)
        \/ \E v \in Values : Write(t, v)
        \/ UpdateLoad(t) \/ UpdateUpload(t) \/ UpdateTruncate(t) \/ UpdateRewrite(t)
        \/ Unlink(t) \/ UnlinkLocal(t) \/ UnlinkErase(t)
    \/ \E v \in Values : handleSharedFileUpload(v)
    \/ \E h \in Hosts : clearSharedFiles(h) \/ clear(h)

SharedSpec == SharedInit /\ [][SharedNext]_sharedVars

(* For TLC: hosts, threads of a host and values are interchangeable.       *)
Symmetry == Permutations(Hosts) \cup Permutations(Slots) \cup Permutations(Values)

(***************************************************************************)
(* Properties                                                              *)
(***************************************************************************)
Idle(h) == \A t \in Threads : HostOf(t) = h => At(t, "idle")

(* Every variable has its type; in particular a thread that loads or       *)
(* stores the file in syncSharedFile is the one with the host's full lock. *)
SharedTypeOK ==
    /\ s3 \in Values \cup {NoFile}
    /\ disk \in [Hosts -> Bytes \cup {NoFile}] /\ runtime \in [Hosts -> Values \cup {NoFile}]
    /\ map \in [Hosts -> [Keys -> FileStates \cup {Unknown}]]
    /\ lock \in [Hosts -> Threads \cup {NoThread}]
    /\ fd \in [Threads -> {"none", "live", "orphan"}]
    /\ \A t \in Threads : pc[t] \in {"load", "store"} <=> lock[HostOf(t)] = t

(* A file that unlink has removed, and nobody has made again, does not     *)
(* come back on the host that removed it.                                  *)
UnlinkedIsGone == \A h \in gone : Idle(h) => disk[h] = NoFile

(* Once a host is flushed, a function on it opens the file that is in the  *)
(* object store, as long as that is not changed, where files are changed   *)
(* by uploads only and not opened through the Python runtime's directory.  *)
FlushedIsCurrent ==
    workload \subseteq {"read", "upload", "flush"} =>
    \A t \in Threads :
        HostOf(t) \in fresh /\ At(t, "idle") /\ op[t] = "read" /\ res[t] # "none"
            => res[t] = IF s3 = NoFile THEN "ENOENT" ELSE s3

(* Writing to an open shared file does not throw.                          *)
WritesSucceed == \A t \in Threads : res[t] # "threw"

(* A file is NOT_CHECKED only while syncSharedFile is at work on it.       *)
CheckedWhenUnlocked ==
    \A h \in Hosts : Unlocked(h) => map[h][Url] # "NOT_CHECKED"
=============================================================================
