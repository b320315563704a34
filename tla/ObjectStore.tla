----------------------------- MODULE ObjectStore -----------------------------
(***************************************************************************)
(* The S3 wrapper of a host over librados: a bucket is a rados pool, and    *)
(* the process keeps one io context per bucket (RadosState) for all its     *)
(* threads.  An io context is bound to the pool that had the name when it   *)
(* was made: if the bucket is deleted and made again it is a context of the *)
(* old pool.  One bucket and one key of it are followed, with calls of      *)
(* several threads between which librados takes its steps.                  *)
(***************************************************************************)
EXTENDS Integers, Sequences

CONSTANTS Callers,      \* threads that use the wrapper
          MaxPools,     \* pools that have the bucket's name, one after another
          MaxSize,      \* length of an object
          NoObject      \* the key is not there

ASSUME NoObjectIsApart == NoObject \notin Seq({"a", "b"})

VARIABLES cluster,      \* S3Wrapper::cluster is connected
          bucket,       \* the pool that has the bucket's name, 0 if none
          pools,        \* pools made so far
          object,       \* the contents of the key
          entry,       \* RadosState's entry: 0 for none, or the pool
          call          \* what each thread is doing

s3Vars == <<cluster, bucket, pools, object, entry, call>>

(* The entry of a bucket whose RadosPool could not be constructed.          *)
NullPool == -1

(* seen: what the key had since a read began, in no field of the code.      *)
NoCall == [op |-> "none", pc |-> "idle", io |-> 0, size |-> 0, seen |-> {}, ret |-> <<>>]

Data == {<<"a">>, <<"b", "b">>}

Adds == {"addKeyBytes", "appendKeyBytes"}
Reads == {"getKeyBytes", "getKeyBytes_tolerateMissing", "getKeyPartIntoBuf"}
InPool == Adds \cup Reads \cup {"addKeyStr", "deleteKey", "listKeys"}

S3Init ==
    /\ cluster = FALSE /\ bucket = 0 /\ pools = 0 /\ object = NoObject
    /\ entry = 0 /\ call = [t \in Callers |-> NoCall]

-----------------------------------------------------------------------------
AtPc(t, pc) == call[t].pc = pc
Starts(t, op, pc) ==
    /\ cluster /\ AtPc(t, "idle")
    /\ call' = [call EXCEPT ![t] = [NoCall EXCEPT !.op = op, !.pc = pc,
                                       !.seen = IF op \in Reads THEN {object} ELSE {}]]

Continues(t, pc) == call' = [call EXCEPT ![t].pc = pc]
Ends(t) == call' = [call EXCEPT ![t] = NoCall]
Gives(t, ret) == call' = [call EXCEPT ![t].pc = "done", ![t].ret = ret]

(* The key has new contents; reads under way may see them.                  *)
SetKey(calls, c) ==
    /\ object' = c
    /\ call' = [t \in Callers |-> IF calls[t].op \notin Reads THEN calls[t]
                                  ELSE [calls[t] EXCEPT !.seen = @ \cup {c}]]

(* An operation on an io context whose pool is gone says -ENOENT.           *)
Reaches(t) == bucket # 0 /\ call[t].io = bucket

-----------------------------------------------------------------------------
(* The bucket.  A process whose connection fails ends.                      *)
NewPool == bucket' = pools + 1 /\ pools' = pools + 1

initFaasmS3 ==
    /\ ~cluster
    /\ cluster' = TRUE
    /\ IF bucket # 0 THEN UNCHANGED <<bucket, pools>> ELSE NewPool
    /\ entry' = IF entry = 0 THEN bucket' ELSE entry
    /\ UNCHANGED <<object, call>>

shutdownFaasmS3 ==
    /\ cluster /\ \A t \in Callers : AtPc(t, "idle")
    /\ cluster' = FALSE /\ entry' = 0
    /\ UNCHANGED <<bucket, pools, object, call>>

(* A bucket that exists stays.                                              *)
createBucket(t) ==
    /\ cluster /\ AtPc(t, "idle")
    /\ bucket = 0 /\ NewPool
    /\ UNCHANGED <<cluster, object, entry, call>>

deleteBucket(t) ==
    /\ cluster /\ AtPc(t, "idle") /\ bucket # 0
    /\ pools < MaxPools
    /\ bucket' = 0
    /\ SetKey([call EXCEPT ![t] = [NoCall EXCEPT !.op = "deleteBucket", !.pc = "reset"]],
              NoObject)
    /\ UNCHANGED <<cluster, pools, entry>>

resetPool_Kept(t) ==
    /\ AtPc(t, "reset")
    /\ Ends(t)
    /\ UNCHANGED <<cluster, bucket, pools, object, entry>>

resetPool(t) ==
    /\ AtPc(t, "reset")
    /\ entry' = 0
    /\ Ends(t)
    /\ UNCHANGED <<cluster, bucket, pools, object>>

-----------------------------------------------------------------------------
(* Calls that work in the pool.  Those that add bytes look for the bucket   *)
(* and make it first.                                                       *)
InPoolCall(t, op) ==
    /\ op \in InPool
    /\ Starts(t, op, IF op \in Adds /\ bucket = 0 THEN "create" ELSE "pool")
    /\ UNCHANGED <<cluster, bucket, pools, object, entry>>

CreateMissing(t) ==
    /\ AtPc(t, "create")
    /\ IF bucket # 0 THEN UNCHANGED <<bucket, pools>> ELSE NewPool
    /\ Continues(t, "pool")
    /\ UNCHANGED <<cluster, object, entry>>

(* RadosState::getPool, under poolMx.  The entry is made before its pool    *)
(* is, and stays if the pool cannot be made.                                *)
getPool(t) ==
    /\ AtPc(t, "pool")
    /\ \/ /\ entry = 0 /\ bucket = 0
          /\ entry' = NullPool
          /\ Ends(t)
       \/ /\ entry > 0 \/ (entry = 0 /\ bucket # 0)
          /\ entry' = IF entry > 0 THEN entry ELSE bucket
          /\ call' = [call EXCEPT ![t].pc = "io", ![t].io = entry']
    /\ UNCHANGED <<cluster, bucket, pools, object>>

(* The pool of such an entry is a null pointer: the process ends, and is    *)
(* started anew.                                                            *)
UsesNullPool(t) ==
    /\ AtPc(t, "pool") /\ entry = NullPool
    /\ cluster' = FALSE /\ entry' = 0
    /\ call' = [u \in Callers |-> NoCall]
    /\ UNCHANGED <<bucket, pools, object>>

Fails(t) == Ends(t) /\ UNCHANGED object

Changes(t, ops, c) ==
    /\ AtPc(t, "io") /\ call[t].op \in ops
    /\ IF Reaches(t) THEN SetKey([call EXCEPT ![t] = NoCall], c) ELSE Fails(t)
    /\ UNCHANGED <<cluster, bucket, pools, entry>>

addKeyBytes(t) == \E c \in Data : Changes(t, {"addKeyBytes"}, c)
addKeyStr(t) == \E c \in Data : Changes(t, {"addKeyStr"}, c)
deleteKey(t) == Changes(t, {"deleteKey"}, NoObject)

appendKeyBytes(t) ==
    LET old == IF object = NoObject THEN <<>> ELSE object
    IN /\ Len(old) < MaxSize
       /\ Changes(t, {"appendKeyBytes"}, Append(old, "a"))

(* The names are read out of the pool, none if it is gone.                  *)
listKeys(t) ==
    /\ AtPc(t, "io") /\ call[t].op = "listKeys"
    /\ Ends(t)
    /\ UNCHANGED <<cluster, bucket, pools, object, entry>>

(* What is asked for of contents c, and how much of it there is.            *)
Asked(op, c) == IF op = "getKeyPartIntoBuf" THEN Tail(c) ELSE c
AskedSize(op, c) == Len(Asked(op, c))

(* rados_stat ...                                                           *)
StatKey(t) ==
    LET op == call[t].op
    IN /\ AtPc(t, "io") /\ op \in Reads
       /\ \/ /\ Reaches(t) /\ object # NoObject
             /\ call' = [call EXCEPT ![t].pc = "read", ![t].size = AskedSize(op, object)]
          \/ /\ ~(Reaches(t) /\ object # NoObject)
             /\ IF op = "getKeyBytes_tolerateMissing" THEN Gives(t, NoObject) ELSE Ends(t)
       /\ UNCHANGED <<cluster, bucket, pools, object, entry>>

FirstOf(s, n) == SubSeq(s, 1, IF n < Len(s) THEN n ELSE Len(s))

(* ... and rados_read of that many bytes, for which the object may have     *)
(* become too short.                                                        *)
ReadKey(t) ==
    LET op == call[t].op
    IN /\ AtPc(t, "read")
       /\ \/ /\ op = "getKeyPartIntoBuf" /\ call[t].size = 0
             /\ Gives(t, <<>>)
          \/ /\ op # "getKeyPartIntoBuf" \/ call[t].size > 0
             /\ IF Reaches(t) /\ object # NoObject
                THEN Gives(t, FirstOf(Asked(op, object), call[t].size))
                ELSE Ends(t)
       /\ UNCHANGED <<cluster, bucket, pools, object, entry>>

ReadReturns(t) == AtPc(t, "done") /\ Ends(t) /\ UNCHANGED <<cluster, bucket, pools, object, entry>>

(* Other hosts write too, but not into a bucket that this one is deleting.  *)
OtherHostWrites ==
    /\ bucket # 0 /\ \A t \in Callers : ~AtPc(t, "reset")
    /\ \E c \in Data : SetKey(call, c)
    /\ UNCHANGED <<cluster, bucket, pools, entry>>

S3Next ==
    \/ initFaasmS3 \/ shutdownFaasmS3 \/ OtherHostWrites
    \/ \E t \in Callers :
          \/ createBucket(t) \/ deleteBucket(t) \/ resetPool(t)
          \/ \E op \in InPool : InPoolCall(t, op)
          \/ CreateMissing(t) \/ getPool(t) \/ UsesNullPool(t)
          \/ addKeyBytes(t) \/ addKeyStr(t) \/ appendKeyBytes(t) \/ deleteKey(t)
          \/ listKeys(t) \/ StatKey(t) \/ ReadKey(t) \/ ReadReturns(t)

-----------------------------------------------------------------------------
S3TypeOK ==
    /\ bucket \in 0 .. pools /\ pools \in 0 .. MaxPools /\ entry \in NullPool .. pools
    /\ cluster \in BOOLEAN
    /\ \A t \in Callers : call[t].io \in 0 .. pools

(* s is the start of t.                                                     *)
StartOf(s, t) == Len(s) <= Len(t) /\ s = SubSeq(t, 1, Len(s))

(* What a read answers is a beginning of what was asked for, of contents    *)
(* that the key had during the call, whatever is written between the stat   *)
(* and the read; and "missing" is answered only if the key was missing at   *)
(* some time during the call, so never for an object of a bucket that was   *)
(* deleted and made again, of which the process keeps no old io context.    *)
ReadsAreCurrent ==
    \A t \in Callers : AtPc(t, "done") =>
       IF call[t].ret = NoObject THEN NoObject \in call[t].seen
       ELSE \E c \in call[t].seen \ {NoObject} : StartOf(call[t].ret, Asked(call[t].op, c))

(* A read gives the whole of an object: not kept, as an object that is      *)
(* replaced by a longer one after the stat is cut off.                      *)
ReadsAreWhole ==
    \A t \in Callers : AtPc(t, "done") /\ call[t].ret # NoObject =>
       \E c \in call[t].seen \ {NoObject} : call[t].ret = Asked(call[t].op, c)
=============================================================================
