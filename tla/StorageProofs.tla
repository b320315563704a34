--------------------------- MODULE StorageProofs ----------------------------
(***************************************************************************)
(* Proofs about what is stored: functions (FunctionUpload) and the object  *)
(* store below them (ObjectStore).                                         *)
(***************************************************************************)
EXTENDS FunctionUpload, ObjectStore, TLAPS

(* Steps are left to Zenon unless they name SMT, which has the arithmetic. *)
USE Zenon

(***************************************************************************)
(* The object store                                                        *)
(***************************************************************************)
(* The object store by itself.                                             *)
S3Spec == S3Init /\ [][S3Next]_s3Vars

(* What a key may hold ...                                                 *)
Strings == Seq({"a", "b"})
(* ... which is not empty if there is a key.                               *)
Contents == (Strings \ {<<>>}) \cup {NoObject}
(* Where a call can be.                                                    *)
Pcs == {"idle", "reset", "create", "pool", "io", "read", "done"}
(* What a call can be.                                                     *)
Ops == InPool \cup {"none", "deleteBucket"}

(* A call with what it has of the store.                                   *)
Calls == [op : Ops, pc : Pcs, io : Nat, size : Nat,
          seen : SUBSET Contents, ret : Strings \cup {NoObject}]

(* An answer of a read that has seen these contents of the key.            *)
Current(kind, ret, seen) ==
    IF ret = NoObject THEN NoObject \in seen
    ELSE \E c \in seen \ {NoObject} : StartOf(ret, Asked(kind, c))

(* What holds of a call c while the key has contents o in the pool b.      *)
CallOK(c, o, b) ==
    /\ c.op \in Reads => o \in c.seen
    /\ c.op \in Reads /\ c.pc = "io" /\ (b = 0 \/ c.io # b) => NoObject \in c.seen
    /\ c.pc = "read" => c.op \in Reads /\ \E x \in c.seen : x # NoObject
    /\ c.pc = "done" => c.op \in Reads /\ Current(c.op, c.ret, c.seen)

(* Pools are numbered as they are made, calls and the entry have one that  *)
(* was.                                                                    *)
S3Types ==
    /\ bucket \in Nat /\ pools \in Nat /\ bucket <= pools
    /\ entry \in Int /\ entry <= pools
    /\ object \in Contents
    /\ call \in [Callers -> Calls]
    /\ \A t \in Callers : call[t].io <= pools

(* The cached entry is of a pool that is gone.                             *)
StaleEntry == entry > 0 /\ entry # bucket

(* The inductive invariant: while the entry is stale the thread that       *)
(* deleted the bucket is about to reset it, nobody reaches the new pool    *)
(* and there is no key in it; and every read has seen what it may answer.  *)
S3Inv ==
    /\ S3Types
    /\ bucket = 0 => object = NoObject
    /\ StaleEntry => /\ object = NoObject
                     /\ \E t \in Callers : AtPc(t, "reset")
                     /\ \A t \in Callers : ~Reaches(t)
    /\ \A t \in Callers : CallOK(call[t], object, bucket)

(* A thread without a call has nothing to keep.                            *)
LEMMA NoCallOK == /\ NoCall \in Calls /\ NoCall.io = 0 /\ NoCall.pc = "idle"
                  /\ \A o, b : CallOK(NoCall, o, b)
<1>1. NoCall \in Calls
  <2>1. <<>> \in Strings
    BY SMT DEF Strings
  <2> QED BY <2>1 DEF NoCall, Calls, Ops, Pcs
<1>2. NoCall.op \notin Reads
  BY DEF NoCall, Reads
<1> QED BY <1>1, <1>2 DEF NoCall, CallOK

(* What is uploaded may be in a key.                                       *)
LEMMA DataAreContents == Data \subseteq Contents
<1>1. <<"a">> \in Strings
  BY SMT DEF Strings
<1>2. <<"b", "b">> \in Strings
  BY SMT DEF Strings
<1>3. <<"a">> # <<>> /\ <<"b", "b">> # <<>>
  OBVIOUS
<1> QED BY <1>1, <1>2, <1>3 DEF Data, Contents

(* What a thread does leaves the calls of the others as they are.          *)
LEMMA CallMoves ==
    ASSUME S3Inv, NEW t \in Callers, NEW x \in Calls, call' = [call EXCEPT ![t] = x],
           UNCHANGED <<object, bucket, pools>>, x.io <= pools, CallOK(x, object, bucket),
           entry' \in Int, entry' <= pools,
           StaleEntry' => StaleEntry /\ ~(bucket # 0 /\ x.io = bucket) /\ ~AtPc(t, "reset")
    PROVE  S3Inv'
<1>1. \A u \in Callers : call'[u] = IF u = t THEN x ELSE call[u]
  BY DEF S3Inv, S3Types
<1>2. S3Types'
  BY <1>1 DEF S3Inv, S3Types
<1>3. \A u \in Callers : CallOK(call'[u], object, bucket)
  BY <1>1 DEF S3Inv
<1>4. StaleEntry' => /\ object = NoObject
                     /\ \E u \in Callers : AtPc(u, "reset")'
                     /\ \A u \in Callers : ~Reaches(u)'
  BY <1>1 DEF S3Inv, AtPc, Reaches
<1> QED BY <1>2, <1>3, <1>4 DEF S3Inv

(* The key changes: reads under way have seen the new contents too.        *)
LEMMA SeenGrows ==
    ASSUME NEW x \in Calls, NEW o, NEW b, NEW c \in Contents, NEW b2,
           CallOK(x, o, b), b2 = b \/ c = NoObject
    PROVE  LET y == IF x.op \notin Reads THEN x ELSE [x EXCEPT !.seen = @ \cup {c}]
           IN y \in Calls /\ y.io = x.io /\ y.pc = x.pc /\ CallOK(y, c, b2)
<1> DEFINE y == IF x.op \notin Reads THEN x ELSE [x EXCEPT !.seen = @ \cup {c}]
<1>1. y \in Calls /\ y.io = x.io /\ y.pc = x.pc /\ y.op = x.op /\ y.ret = x.ret
  BY DEF Calls
<1>2. x.seen \subseteq y.seen /\ (x.op \in Reads => c \in y.seen)
  BY DEF Calls
<1> HIDE DEF y
<1>3. CallOK(y, c, b2)
  <2>1. y.op \in Reads /\ y.pc = "io" /\ (b2 = 0 \/ y.io # b2) => NoObject \in y.seen
    BY <1>1, <1>2 DEF CallOK
  <2>2. y.pc = "read" => y.op \in Reads /\ \E z \in y.seen : z # NoObject
    BY <1>1, <1>2 DEF CallOK
  <2>3. y.pc = "done" => y.op \in Reads /\ Current(y.op, y.ret, y.seen)
    BY <1>1, <1>2 DEF CallOK, Current
  <2> QED BY <1>1, <1>2, <2>1, <2>2, <2>3 DEF CallOK
<1> QED BY <1>1, <1>3 DEF y

(* Setting the key keeps what is said of every call.                       *)
LEMMA KeyChanges ==
    ASSUME S3Inv, NEW calls \in [Callers -> Calls], NEW c \in Contents, SetKey(calls, c),
           \A t \in Callers : calls[t].io <= pools /\ CallOK(calls[t], object, bucket),
           bucket' = bucket \/ c = NoObject
    PROVE  /\ object' = c /\ call' \in [Callers -> Calls]
           /\ \A t \in Callers : /\ call'[t].io = calls[t].io /\ call'[t].pc = calls[t].pc
                                 /\ CallOK(call'[t], c, bucket')
<1> DEFINE Y(x) == IF x.op \notin Reads THEN x ELSE [x EXCEPT !.seen = @ \cup {c}]
<1>1. call' = [t \in Callers |-> Y(calls[t])] /\ object' = c
  BY DEF SetKey
<1>2. \A t \in Callers : /\ Y(calls[t]) \in Calls /\ Y(calls[t]).io = calls[t].io /\ Y(calls[t]).pc = calls[t].pc
                         /\ CallOK(Y(calls[t]), c, bucket')
  BY SeenGrows
<1> HIDE DEF Y
<1> QED BY <1>1, <1>2

(* A new pool is empty, and no call has an io context of it.               *)
LEMMA PoolMade ==
    ASSUME S3Inv, bucket = 0, NewPool, UNCHANGED object, call' \in [Callers -> Calls],
           entry' = entry \/ entry' = bucket',
           \A u \in Callers : /\ call'[u].io = call[u].io /\ (AtPc(u, "reset") => AtPc(u, "reset")')
                              /\ CallOK(call'[u], object, 0)
    PROVE  S3Inv'
<1>1. bucket' = pools + 1 /\ pools' = pools + 1 /\ object = NoObject
  BY DEF NewPool, S3Inv
<1>2. S3Types'
  <2>1. bucket' \in Nat /\ pools' \in Nat /\ bucket' <= pools' /\ object' \in Contents
    BY SMT, <1>1 DEF S3Inv, S3Types
  <2>2. entry' \in Int /\ entry' <= pools'
    BY SMT, <1>1 DEF S3Inv, S3Types
  <2>3. \A u \in Callers : call[u].io <= pools /\ call[u].io \in Nat
    BY DEF S3Inv, S3Types, Calls
  <2>4. \A u \in Callers : call'[u].io <= pools'
    BY SMT, <1>1, <2>3 DEF S3Inv, S3Types
  <2> QED BY <2>1, <2>2, <2>4 DEF S3Types
<1>3. \A u \in Callers : CallOK(call'[u], object, bucket')
  BY <1>1 DEF CallOK
<1>4. \A u \in Callers : ~Reaches(u)'
  BY SMT, <1>1 DEF S3Inv, S3Types, Reaches
<1>5. StaleEntry' => StaleEntry
  BY SMT, <1>1 DEF S3Inv, S3Types, StaleEntry
<1>6. StaleEntry' => \E u \in Callers : AtPc(u, "reset")'
  BY <1>5 DEF S3Inv
<1>7. (bucket = 0 => object = NoObject)'
  BY <1>1
<1>8. (StaleEntry => /\ object = NoObject
                     /\ \E u \in Callers : AtPc(u, "reset")
                     /\ \A u \in Callers : ~Reaches(u))'
  BY <1>1, <1>4, <1>6
<1> QED BY <1>2, <1>3, <1>7, <1>8 DEF S3Inv

(* initFaasmS3 keeps the invariant.                                        *)
LEMMA InitKeeps == S3Inv /\ initFaasmS3 => S3Inv'
<1> SUFFICES ASSUME S3Inv, initFaasmS3 PROVE S3Inv'
  OBVIOUS
<1>1. CASE bucket = 0
  <2>1. NewPool /\ UNCHANGED <<object, call>> /\ (entry' = entry \/ entry' = bucket')
    BY <1>1 DEF initFaasmS3
  <2>2. \A u \in Callers : (AtPc(u, "reset") => AtPc(u, "reset")') /\ CallOK(call'[u], object, 0)
    BY <1>1, <2>1 DEF S3Inv, AtPc
  <2> QED BY <1>1, <2>1, <2>2, PoolMade DEF S3Inv, S3Types
<1>2. CASE bucket # 0
  <2>1. UNCHANGED <<bucket, pools, object, call>> /\ (entry' = entry \/ entry' = bucket)
    BY <1>2 DEF initFaasmS3
  <2> QED BY SMT, <1>2, <2>1 DEF S3Inv, S3Types, StaleEntry, AtPc, Reaches
<1> QED BY <1>1, <1>2

(* shutdownFaasmS3 keeps the invariant.                                    *)
LEMMA ShutdownKeeps == S3Inv /\ shutdownFaasmS3 => S3Inv'
<1> SUFFICES ASSUME S3Inv, shutdownFaasmS3 PROVE S3Inv'
  OBVIOUS
<1>1. UNCHANGED <<bucket, pools, object, call>> /\ entry' = 0
  BY DEF shutdownFaasmS3
<1> QED BY SMT, <1>1 DEF S3Inv, S3Types, StaleEntry

(* A write of another host keeps the invariant.                            *)
LEMMA OtherWriteKeeps == S3Inv /\ OtherHostWrites => S3Inv'
<1> SUFFICES ASSUME S3Inv, OtherHostWrites PROVE S3Inv'
  OBVIOUS
<1>1. UNCHANGED <<bucket, pools, entry>> /\ bucket # 0 /\ ~StaleEntry
  BY DEF OtherHostWrites, S3Inv
<1>2. PICK c \in Data : SetKey(call, c)
  BY DEF OtherHostWrites
<1>3. c \in Contents
  BY DataAreContents
<1>4. /\ object' = c /\ call' \in [Callers -> Calls]
      /\ \A t \in Callers : /\ call'[t].io = call[t].io /\ call'[t].pc = call[t].pc
                            /\ CallOK(call'[t], c, bucket')
  <2>1. call \in [Callers -> Calls] /\ \A t \in Callers : call[t].io <= pools /\ CallOK(call[t], object, bucket)
    BY DEF S3Inv, S3Types
  <2> QED BY <1>1, <1>2, <1>3, <2>1, KeyChanges
<1>5. S3Types'
  BY <1>1, <1>3, <1>4 DEF S3Inv, S3Types
<1>6. ~StaleEntry'
  BY <1>1 DEF StaleEntry
<1> QED BY <1>1, <1>4, <1>5, <1>6 DEF S3Inv

(* createBucket keeps the invariant.                                       *)
LEMMA CreateKeeps == \A t \in Callers : S3Inv /\ createBucket(t) => S3Inv'
<1> SUFFICES ASSUME S3Inv, NEW t \in Callers, createBucket(t) PROVE S3Inv'
  OBVIOUS
<1>1. bucket = 0 /\ NewPool /\ UNCHANGED <<object, call, entry>>
  BY DEF createBucket
<1>2. \A u \in Callers : (AtPc(u, "reset") => AtPc(u, "reset")') /\ CallOK(call'[u], object, 0)
  BY <1>1 DEF S3Inv, AtPc
<1> QED BY <1>1, <1>2, PoolMade DEF S3Inv, S3Types

(* deleteBucket keeps the invariant: from here on its entry may be stale.  *)
LEMMA DeleteKeeps == \A t \in Callers : S3Inv /\ deleteBucket(t) => S3Inv'
<1> SUFFICES ASSUME S3Inv, NEW t \in Callers, deleteBucket(t) PROVE S3Inv'
  OBVIOUS
<1> DEFINE x == [NoCall EXCEPT !.op = "deleteBucket", !.pc = "reset"]
           calls == [call EXCEPT ![t] = x]
<1>1. UNCHANGED <<pools, entry>> /\ bucket' = 0 /\ SetKey(calls, NoObject)
  BY DEF deleteBucket
<1>2. x \in Calls /\ x.op = "deleteBucket" /\ x.pc = "reset" /\ x.io = 0
  BY NoCallOK DEF Calls, Ops, Pcs, NoCall
<1>3. CallOK(x, object, bucket)
  BY <1>2 DEF CallOK, Reads
<1> HIDE DEF x
<1>4. /\ calls \in [Callers -> Calls] /\ calls[t] = x
      /\ \A u \in Callers : calls[u].io <= pools /\ CallOK(calls[u], object, bucket)
  BY SMT, <1>2, <1>3 DEF S3Inv, S3Types
<1> HIDE DEF calls
<1>5. /\ object' = NoObject /\ call' \in [Callers -> Calls]
      /\ \A u \in Callers : /\ call'[u].io = calls[u].io /\ call'[u].pc = calls[u].pc
                            /\ CallOK(call'[u], NoObject, bucket')
  BY <1>1, <1>4, KeyChanges DEF Contents
<1>6. S3Types'
  BY SMT, <1>1, <1>4, <1>5 DEF S3Inv, S3Types, Contents
<1>7. AtPc(t, "reset")' /\ \A u \in Callers : ~Reaches(u)'
  BY <1>1, <1>2, <1>4, <1>5 DEF AtPc, Reaches
<1> QED BY <1>5, <1>6, <1>7 DEF S3Inv

(* The reset of the entry keeps the invariant.                             *)
LEMMA ResetKeeps == \A t \in Callers : S3Inv /\ resetPool(t) => S3Inv'
<1> SUFFICES ASSUME S3Inv, NEW t \in Callers, resetPool(t) PROVE S3Inv'
  OBVIOUS
<1>1. call' = [call EXCEPT ![t] = NoCall] /\ entry' = 0 /\ UNCHANGED <<bucket, pools, object>>
  BY DEF resetPool, Ends
<1>2. ~StaleEntry'
  BY SMT, <1>1 DEF StaleEntry
<1>3. NoCall.io <= pools /\ entry' \in Int /\ entry' <= pools
  BY SMT, <1>1, NoCallOK DEF S3Inv, S3Types
<1>4. CallOK(NoCall, object, bucket) /\ NoCall \in Calls
  BY NoCallOK
<1> HIDE DEF NoCall
<1> QED BY <1>1, <1>2, <1>3, <1>4, CallMoves

(* A call that ends, other than deleteBucket.                              *)
LEMMA EndKeeps ==
    ASSUME S3Inv, NEW t \in Callers, Ends(t), ~AtPc(t, "reset"), UNCHANGED <<bucket, pools, object>>,
           entry' = entry \/ entry' = NullPool
    PROVE  S3Inv'
<1>1. call' = [call EXCEPT ![t] = NoCall]
  BY DEF Ends
<1>2. StaleEntry' => StaleEntry /\ ~(bucket # 0 /\ NoCall.io = bucket)
  BY SMT, NoCallOK DEF StaleEntry, NullPool
<1>3. NoCall.io <= pools /\ entry' \in Int /\ entry' <= pools
  BY SMT, NoCallOK DEF S3Inv, S3Types, NullPool
<1>4. CallOK(NoCall, object, bucket) /\ NoCall \in Calls
  BY NoCallOK
<1> HIDE DEF NoCall
<1> QED BY <1>1, <1>2, <1>3, <1>4, CallMoves

(* The start of a call in the pool keeps the invariant.                    *)
LEMMA StartKeeps == \A t \in Callers, kind \in InPool : S3Inv /\ InPoolCall(t, kind) => S3Inv'
<1> SUFFICES ASSUME S3Inv, NEW t \in Callers, NEW kind \in InPool, InPoolCall(t, kind) PROVE S3Inv'
  OBVIOUS
<1> DEFINE where == IF kind \in Adds /\ bucket = 0 THEN "create" ELSE "pool"
           x == [NoCall EXCEPT !.op = kind, !.pc = where, !.seen = IF kind \in Reads THEN {object} ELSE {}]
<1>1. call' = [call EXCEPT ![t] = x] /\ AtPc(t, "idle") /\ UNCHANGED <<bucket, pools, object, entry>>
  BY DEF InPoolCall, Starts
<1>2. x \in Calls /\ x.op = kind /\ x.pc \in {"create", "pool"} /\ x.io = 0 /\ (kind \in Reads => object \in x.seen)
  BY NoCallOK DEF Calls, Ops, Pcs, NoCall, S3Inv, S3Types
<1> HIDE DEF x
<1>3. CallOK(x, object, bucket)
  BY <1>2 DEF CallOK
<1>4. StaleEntry' => StaleEntry /\ ~(bucket # 0 /\ x.io = bucket)
  BY <1>1, <1>2 DEF StaleEntry
<1>5. ~AtPc(t, "reset") /\ x.io <= pools /\ entry' \in Int /\ entry' <= pools
  BY SMT, <1>1, <1>2 DEF AtPc, S3Inv, S3Types
<1> QED BY <1>1, <1>2, <1>3, <1>4, <1>5, CallMoves

(* A write that makes the missing bucket keeps the invariant.              *)
LEMMA CreateMissingKeeps == \A t \in Callers : S3Inv /\ CreateMissing(t) => S3Inv'
<1> SUFFICES ASSUME S3Inv, NEW t \in Callers, CreateMissing(t) PROVE S3Inv'
  OBVIOUS
<1> DEFINE x == [call[t] EXCEPT !.pc = "pool"]
<1>0. call[t] \in Calls /\ CallOK(call[t], object, bucket) /\ call[t].io <= pools
  BY DEF S3Inv, S3Types
<1>1. call' = [call EXCEPT ![t] = x] /\ AtPc(t, "create") /\ UNCHANGED <<object, entry>>
  BY DEF CreateMissing, Continues
<1>2. x \in Calls /\ x.op = call[t].op /\ x.pc = "pool" /\ x.io = call[t].io /\ x.seen = call[t].seen
  BY <1>0 DEF Calls, Pcs
<1> HIDE DEF x
<1>3. CallOK(x, object, bucket)
  BY <1>0, <1>2 DEF CallOK
<1>4. CASE bucket = 0
  <2>1. NewPool
    BY <1>4 DEF CreateMissing
  <2>2. call' \in [Callers -> Calls] /\ \A u \in Callers : call'[u] = IF u = t THEN x ELSE call[u]
    BY <1>1, <1>2 DEF S3Inv, S3Types
  <2>3. \A u \in Callers : /\ call'[u].io = call[u].io /\ (AtPc(u, "reset") => AtPc(u, "reset")')
                           /\ CallOK(call'[u], object, 0)
    BY <1>1, <1>2, <1>3, <1>4, <2>2 DEF S3Inv, AtPc
  <2> QED BY <1>1, <1>4, <2>1, <2>2, <2>3, PoolMade
<1>5. CASE bucket # 0
  <2>1. UNCHANGED <<bucket, pools>>
    BY <1>5 DEF CreateMissing
  <2>2. StaleEntry' => StaleEntry /\ ~(bucket # 0 /\ x.io = bucket)
    BY <1>1, <1>2, <2>1 DEF StaleEntry, S3Inv, Reaches
  <2>3. ~AtPc(t, "reset") /\ x.io <= pools /\ entry' \in Int /\ entry' <= pools
    BY <1>0, <1>1, <1>2 DEF AtPc, S3Inv, S3Types
  <2> QED BY <1>1, <1>2, <1>3, <2>1, <2>2, <2>3, CallMoves
<1> QED BY <1>4, <1>5

(* Getting the io context of the pool keeps the invariant.                 *)
LEMMA GetPoolKeeps == \A t \in Callers : S3Inv /\ getPool(t) => S3Inv'
<1> SUFFICES ASSUME S3Inv, NEW t \in Callers, getPool(t) PROVE S3Inv'
  OBVIOUS
<1>0. /\ call[t] \in Calls /\ CallOK(call[t], object, bucket) /\ call[t].io <= pools
      /\ entry \in Int /\ entry <= pools /\ bucket \in Nat /\ bucket <= pools
      /\ AtPc(t, "pool") /\ ~AtPc(t, "reset") /\ UNCHANGED <<bucket, pools, object>>
  BY DEF S3Inv, S3Types, getPool, AtPc
<1>1. CASE entry = 0 /\ bucket = 0
  <2>1. Ends(t) /\ entry' = NullPool
    BY SMT, <1>1 DEF getPool
  <2> QED BY <1>0, <2>1, EndKeeps
<1>2. CASE entry > 0 \/ (entry = 0 /\ bucket # 0)
  <2> DEFINE x == [call[t] EXCEPT !.pc = "io", !.io = entry']
  <2>1. call' = [call EXCEPT ![t] = x] /\ entry' = IF entry > 0 THEN entry ELSE bucket
    <3>1. call' = [call EXCEPT ![t].pc = "io", ![t].io = entry'] /\ entry' = IF entry > 0 THEN entry ELSE bucket
      BY SMT, <1>0, <1>2 DEF getPool
    <3>2. call \in [Callers -> Calls]
      BY DEF S3Inv, S3Types
    <3> QED BY <3>1, <3>2 DEF Calls
  <2>2. entry' \in Nat /\ entry' <= pools /\ entry' > 0
    BY SMT, <1>0, <1>2, <2>1
  <2>3. /\ x \in Calls /\ x.op = call[t].op /\ x.pc = "io" /\ x.io = entry' /\ x.seen = call[t].seen
    BY <1>0, <2>2 DEF Calls, Pcs
  <2> HIDE DEF x
  <2>4. StaleEntry' => StaleEntry /\ ~(bucket # 0 /\ x.io = bucket)
    BY <1>0, <2>1, <2>3 DEF StaleEntry
  <2>5. CallOK(x, object, bucket)
    <3>1. x.op \in Reads => object \in x.seen
      BY <1>0, <2>3 DEF CallOK
    <3>2. bucket = 0 \/ x.io # bucket => object = NoObject
      BY <1>0, <1>2, <2>1, <2>3 DEF StaleEntry, S3Inv
    <3> QED BY <2>3, <3>1, <3>2 DEF CallOK
  <2>6. x.io <= pools /\ entry' \in Int
    BY SMT, <2>2, <2>3
  <2> QED BY <1>0, <2>1, <2>2, <2>3, <2>4, <2>5, <2>6, CallMoves
<1> QED BY <1>1, <1>2 DEF getPool

(* A call that finds no pool keeps the invariant.                          *)
LEMMA NullPoolKeeps == \A t \in Callers : S3Inv /\ UsesNullPool(t) => S3Inv'
<1> SUFFICES ASSUME S3Inv, NEW t \in Callers, UsesNullPool(t) PROVE S3Inv'
  OBVIOUS
<1>1. call' = [u \in Callers |-> NoCall] /\ entry' = 0 /\ UNCHANGED <<bucket, pools, object>>
  BY DEF UsesNullPool
<1>2. ~StaleEntry'
  BY SMT, <1>1 DEF StaleEntry
<1>3. S3Types'
  BY SMT, <1>1, NoCallOK DEF S3Inv, S3Types
<1>4. \A u \in Callers : CallOK(call'[u], object, bucket)
  BY <1>1, NoCallOK
<1> QED BY <1>1, <1>2, <1>3, <1>4 DEF S3Inv

(* A write or a delete that is done keeps the invariant.                   *)
LEMMA ChangeKeeps ==
    ASSUME S3Inv, NEW t \in Callers, NEW ops, NEW c \in Contents, Changes(t, ops, c)
    PROVE  S3Inv'
<1>1. UNCHANGED <<bucket, pools, entry>> /\ ~AtPc(t, "reset")
  BY DEF Changes, AtPc
<1>2. CASE Reaches(t)
  <2> DEFINE calls == [call EXCEPT ![t] = NoCall]
  <2>1. SetKey(calls, c)
    BY <1>2 DEF Changes
  <2>2. /\ calls \in [Callers -> Calls]
        /\ \A u \in Callers : calls[u].io <= pools /\ CallOK(calls[u], object, bucket)
    <3>1. NoCall.io <= pools /\ CallOK(NoCall, object, bucket) /\ NoCall \in Calls
      BY SMT, NoCallOK DEF S3Inv, S3Types
    <3> QED BY <3>1 DEF S3Inv, S3Types
  <2> HIDE DEF calls
  <2>3. /\ object' = c /\ call' \in [Callers -> Calls]
        /\ \A u \in Callers : call'[u].io = calls[u].io /\ CallOK(call'[u], c, bucket')
    BY <1>1, <2>1, <2>2, KeyChanges
  <2>4. S3Types'
    BY <1>1, <2>2, <2>3 DEF S3Inv, S3Types
  <2>5. ~StaleEntry' /\ bucket # 0
    BY <1>1, <1>2 DEF S3Inv, StaleEntry, Reaches
  <2> QED BY <1>1, <2>3, <2>4, <2>5 DEF S3Inv
<1>3. CASE ~Reaches(t)
  BY <1>1, <1>3, EndKeeps DEF Changes, Fails
<1> QED BY <1>2, <1>3

(* Appending is such a write.                                              *)
LEMMA AppendKeeps == \A t \in Callers : S3Inv /\ appendKeyBytes(t) => S3Inv'
<1> SUFFICES ASSUME S3Inv, NEW t \in Callers, appendKeyBytes(t) PROVE S3Inv'
  OBVIOUS
<1> DEFINE old == IF object = NoObject THEN <<>> ELSE object
           new == Append(old, "a")
<1>1. old \in Seq({"a", "b"})
  BY SMT DEF S3Inv, S3Types, Contents, Strings
<1>2. Changes(t, {"appendKeyBytes"}, new)
  BY DEF appendKeyBytes
<1> HIDE DEF old
<1>3. new \in Contents
  BY SMT, <1>1 DEF Contents, Strings
<1> HIDE DEF new
<1> QED BY <1>2, <1>3, ChangeKeeps

(* So are the other writes and the delete.                                 *)
LEMMA WritesKeep == \A t \in Callers : S3Inv /\ (addKeyBytes(t) \/ addKeyStr(t) \/ deleteKey(t)) => S3Inv'
<1> SUFFICES ASSUME S3Inv, NEW t \in Callers, addKeyBytes(t) \/ addKeyStr(t) \/ deleteKey(t) PROVE S3Inv'
  OBVIOUS
<1>1. CASE addKeyBytes(t) \/ addKeyStr(t)
  BY <1>1, DataAreContents, ChangeKeeps DEF addKeyBytes, addKeyStr
<1>2. CASE deleteKey(t)
  BY <1>2, ChangeKeeps DEF deleteKey, Contents
<1> QED BY <1>1, <1>2

(* The first bytes of a string are a prefix of it.                         *)
LEMMA FirstOfIsPrefix ==
    ASSUME NEW s \in Strings, NEW n \in Nat
    PROVE  FirstOf(s, n) \in Strings /\ StartOf(FirstOf(s, n), s)
<1> DEFINE m == IF n < Len(s) THEN n ELSE Len(s)
           p == SubSeq(s, 1, m)
<1>1. m \in Nat /\ m <= Len(s) /\ Len(s) \in Nat
  BY SMT DEF Strings
<1> HIDE DEF m
<1>2. p \in Strings /\ Len(p) = m
  BY SMT, <1>1 DEF Strings
<1>4. FirstOf(s, n) = p
  BY DEF FirstOf, m
<1>5. StartOf(p, s)
  BY <1>1, <1>2 DEF StartOf
<1> HIDE DEF p
<1> QED BY <1>2, <1>4, <1>5

(* What a read asks for is a string with a size.                           *)
LEMMA AskedIsString ==
    ASSUME NEW c \in Contents, c # NoObject, NEW kind
    PROVE  Asked(kind, c) \in Strings /\ AskedSize(kind, c) \in Nat
<1>1. c \in Seq({"a", "b"}) /\ c # <<>>
  BY DEF Contents, Strings
<1>2. Tail(c) \in Seq({"a", "b"})
  BY SMT, <1>1
<1>3. Asked(kind, c) \in Strings
  BY <1>1, <1>2 DEF Asked, Strings
<1> QED BY SMT, <1>3 DEF AskedSize, Strings

(* Nothing is a prefix of everything.                                      *)
LEMMA EmptyIsPrefix == ASSUME NEW s \in Strings PROVE StartOf(<<>>, s)
BY SMT DEF Strings, StartOf

(* A read that gives a current answer.                                     *)
LEMMA AnswerKeeps ==
    ASSUME S3Inv, NEW t \in Callers, NEW ret \in Strings \cup {NoObject}, Gives(t, ret),
           UNCHANGED <<bucket, pools, object, entry>>, ~AtPc(t, "reset"),
           call[t].op \in Reads, Current(call[t].op, ret, call[t].seen)
    PROVE  S3Inv'
<1> DEFINE x == [call[t] EXCEPT !.pc = "done", !.ret = ret]
<1>0. call \in [Callers -> Calls] /\ call[t] \in Calls /\ CallOK(call[t], object, bucket) /\ call[t].io <= pools
  BY DEF S3Inv, S3Types
<1>1. call' = [call EXCEPT ![t] = x]
  BY <1>0 DEF Gives, Calls
<1>2. /\ x \in Calls /\ x.op = call[t].op /\ x.pc = "done" /\ x.io = call[t].io /\ x.seen = call[t].seen
      /\ x.ret = ret
  BY <1>0 DEF Calls, Pcs
<1> HIDE DEF x
<1>3. CallOK(x, object, bucket)
  BY <1>0, <1>2 DEF CallOK
<1>4. StaleEntry' => StaleEntry /\ ~(bucket # 0 /\ x.io = bucket)
  BY <1>2 DEF StaleEntry, S3Inv, Reaches
<1>5. x.io <= pools /\ entry' \in Int /\ entry' <= pools
  BY <1>0, <1>2 DEF S3Inv, S3Types
<1> QED BY <1>1, <1>2, <1>3, <1>4, <1>5, CallMoves

(* Asking for the size keeps the invariant.                                *)
LEMMA StatKeeps == \A t \in Callers : S3Inv /\ StatKey(t) => S3Inv'
<1> SUFFICES ASSUME S3Inv, NEW t \in Callers, StatKey(t) PROVE S3Inv'
  OBVIOUS
<1> DEFINE kind == call[t].op
<1>0. /\ call \in [Callers -> Calls] /\ call[t] \in Calls /\ CallOK(call[t], object, bucket) /\ call[t].io <= pools
      /\ object \in Contents
  BY DEF S3Inv, S3Types
<1>1. AtPc(t, "io") /\ kind \in Reads /\ ~AtPc(t, "reset") /\ UNCHANGED <<bucket, pools, object, entry>>
  BY DEF StatKey, AtPc
<1>2. CASE Reaches(t) /\ object # NoObject
  <2> DEFINE n == AskedSize(kind, object)
             x == [call[t] EXCEPT !.pc = "read", !.size = n]
  <2>1. n \in Nat
    BY <1>0, <1>2, AskedIsString
  <2>2. call' = [call EXCEPT ![t] = x]
    BY <1>0, <1>2 DEF StatKey, Calls
  <2> HIDE DEF n
  <2>3. /\ x \in Calls /\ x.op = kind /\ x.pc = "read" /\ x.io = call[t].io /\ x.seen = call[t].seen
    BY <1>0, <2>1 DEF Calls, Pcs
  <2> HIDE DEF x
  <2>4. CallOK(x, object, bucket)
    BY <1>0, <1>1, <1>2, <2>3 DEF CallOK
  <2>5. StaleEntry' => StaleEntry /\ ~(bucket # 0 /\ x.io = bucket)
    BY <1>1, <2>3 DEF StaleEntry, S3Inv, Reaches
  <2>6. x.io <= pools /\ entry' \in Int /\ entry' <= pools
    BY <1>0, <1>1, <2>3 DEF S3Inv, S3Types
  <2> QED BY <1>1, <2>2, <2>3, <2>4, <2>5, <2>6, CallMoves
<1>3. CASE ~(Reaches(t) /\ object # NoObject)
  <2>1. NoObject \in call[t].seen
    BY <1>0, <1>1, <1>3 DEF CallOK, Reaches, AtPc
  <2>2. Current(kind, NoObject, call[t].seen)
    BY <2>1 DEF Current
  <2>3. Gives(t, NoObject) \/ Ends(t)
    BY <1>3 DEF StatKey
  <2> QED BY <1>1, <2>2, <2>3, AnswerKeeps, EndKeeps
<1> QED BY <1>2, <1>3

(* The read after it keeps the invariant.                                  *)
LEMMA ReadKeeps == \A t \in Callers : S3Inv /\ ReadKey(t) => S3Inv'
<1> SUFFICES ASSUME S3Inv, NEW t \in Callers, ReadKey(t) PROVE S3Inv'
  OBVIOUS
<1> DEFINE kind == call[t].op
<1>0. /\ call[t] \in Calls /\ CallOK(call[t], object, bucket)
      /\ object \in Contents /\ call[t].seen \subseteq Contents /\ call[t].size \in Nat
  BY DEF S3Inv, S3Types, Calls
<1>1. AtPc(t, "read") /\ kind \in Reads /\ ~AtPc(t, "reset") /\ UNCHANGED <<bucket, pools, object, entry>>
  BY <1>0 DEF ReadKey, AtPc, CallOK
<1>2. CASE Gives(t, <<>>)
  <2>1. PICK c \in call[t].seen : c # NoObject
    BY <1>0, <1>1 DEF CallOK, AtPc
  <2>2. StartOf(<<>>, Asked(kind, c))
    BY <1>0, <2>1, AskedIsString, EmptyIsPrefix
  <2>3. <<>> \in Strings /\ <<>> # NoObject
    <3>1. <<>> \in Seq({"a", "b"})
      BY SMT
    <3> QED BY <3>1, NoObjectIsApart DEF Strings
  <2>4. Current(kind, <<>>, call[t].seen)
    BY <2>1, <2>2, <2>3 DEF Current
  <2> QED BY <1>1, <1>2, <2>3, <2>4, AnswerKeeps
<1>3. CASE object # NoObject /\ Gives(t, FirstOf(Asked(kind, object), call[t].size))
  <2> DEFINE ret == FirstOf(Asked(kind, object), call[t].size)
  <2>1. ret \in Strings /\ StartOf(ret, Asked(kind, object))
    BY <1>0, <1>3, AskedIsString, FirstOfIsPrefix
  <2>2. Gives(t, ret)
    BY <1>3
  <2> HIDE DEF ret
  <2>3. ret # NoObject
    BY <2>1, NoObjectIsApart DEF Strings
  <2>4. object \in call[t].seen
    BY <1>0, <1>1 DEF CallOK
  <2>5. Current(kind, ret, call[t].seen)
    BY <1>3, <2>1, <2>3, <2>4 DEF Current
  <2> QED BY <1>1, <2>1, <2>2, <2>5, AnswerKeeps
<1>4. CASE Ends(t)
  BY <1>1, <1>4, EndKeeps
<1> QED BY <1>2, <1>3, <1>4 DEF ReadKey

(* Returning keeps the invariant.                                          *)
LEMMA ReturnKeeps == \A t \in Callers : S3Inv /\ (ReadReturns(t) \/ listKeys(t)) => S3Inv'
<1> SUFFICES ASSUME S3Inv, NEW t \in Callers, ReadReturns(t) \/ listKeys(t) PROVE S3Inv'
  OBVIOUS
<1>1. Ends(t) /\ ~AtPc(t, "reset") /\ UNCHANGED <<bucket, pools, object, entry>>
  BY DEF ReadReturns, listKeys, AtPc
<1> QED BY <1>1, EndKeeps

(* At first there is no bucket.                                            *)
LEMMA S3InitInv == S3Init => S3Inv
<1> SUFFICES ASSUME S3Init PROVE S3Inv
  OBVIOUS
<1>1. S3Types
  BY SMT, NoCallOK DEF S3Init, S3Types, Contents
<1>2. \A t \in Callers : CallOK(call[t], object, bucket)
  BY NoCallOK DEF S3Init
<1> QED BY <1>1, <1>2 DEF S3Init, S3Inv, StaleEntry

(* Every step keeps the invariant.                                         *)
LEMMA S3StepInv == S3Inv /\ [S3Next]_s3Vars => S3Inv'
<1> SUFFICES ASSUME S3Inv, [S3Next]_s3Vars PROVE S3Inv'
  OBVIOUS
<1>1. CASE UNCHANGED s3Vars
  BY <1>1 DEF s3Vars, S3Inv, S3Types, StaleEntry, AtPc, Reaches
<1>2. CASE initFaasmS3 \/ shutdownFaasmS3 \/ OtherHostWrites
  BY <1>2, InitKeeps, ShutdownKeeps, OtherWriteKeeps
<1>3. ASSUME NEW t \in Callers, createBucket(t) \/ deleteBucket(t) \/ resetPool(t)
      PROVE  S3Inv'
  BY <1>3, CreateKeeps, DeleteKeeps, ResetKeeps
<1>4. ASSUME NEW t \in Callers, NEW kind \in InPool, InPoolCall(t, kind)
      PROVE  S3Inv'
  BY <1>4, StartKeeps
<1>5. ASSUME NEW t \in Callers,
             \/ CreateMissing(t) \/ getPool(t) \/ UsesNullPool(t)
             \/ addKeyBytes(t) \/ addKeyStr(t) \/ appendKeyBytes(t) \/ deleteKey(t)
             \/ listKeys(t) \/ StatKey(t) \/ ReadKey(t) \/ ReadReturns(t)
      PROVE  S3Inv'
  BY <1>5, CreateMissingKeeps, GetPoolKeeps, NullPoolKeeps, WritesKeep, AppendKeeps,
     StatKeeps, ReadKeeps, ReturnKeeps
<1> QED BY <1>1, <1>2, <1>3, <1>4, <1>5 DEF S3Next

(* Every read (getKeyBytes, getKeyPartial, getKeyStr) gives a beginning of *)
(* contents the key had during the call, or says there is none when at     *)
(* some time in it there was none (ReadsAreCurrent), however many threads  *)
(* and other hosts write, append, delete keys and delete buckets in        *)
(* between.                                                                *)
THEOREM ReadsStayCurrent == S3Spec => []ReadsAreCurrent
<1>1. S3Inv => ReadsAreCurrent
  BY DEF S3Inv, CallOK, Current, ReadsAreCurrent, AtPc
<1> QED BY <1>1, S3InitInv, S3StepInv, PTL DEF S3Spec

(***************************************************************************)
(* Functions                                                               *)
(***************************************************************************)
(* The upload server handles one request at a time.                        *)
OneRequest == \A q, r \in Requests : q = r

(* The steps of code generation for one target.                            *)
Generating == {"compare", "skip", "generate", "record"}

(* Files have a version or none, a request is at a step of a target.       *)
UploadTypes ==
    /\ store \in [Files -> Content] /\ cached \in [Disks -> [Files -> Content]]
    /\ at \in [Requests -> {"idle", "load"} \cup Generating]
    /\ wasm \in [Requests -> Content] /\ target \in [Requests -> Targets]
    /\ main \in [Workers -> Content] /\ compiled \in [Workers -> Content]
    /\ \A r \in Requests : at[r] \in {"idle", "load"} => target[r] = 1
    /\ upToDate \subseteq Workers
    /\ complete \in BOOLEAN /\ failed \in BOOLEAN /\ startedClean \in BOOLEAN

(* The target whose machine code is stored and whose hash is not yet.      *)
Pending(n) == \E r \in Requests : at[r] = "record" /\ target[r] = n

(* A hash that is stored is that of the stored machine code, unless that   *)
(* code was just stored and its hash is next.                              *)
HashesFollow ==
    /\ \A n \in Targets : store[Hash(n)] # NoVersion /\ ~Pending(n) => store[Object(n)] = store[Hash(n)]
    /\ \A r \in Requests : at[r] = "record" => store[Object(target[r])] = wasm[r]
    /\ \A r \in Requests : at[r] = "skip" => store[Hash(target[r])] = wasm[r]

(* Targets whose code and hash an upload has not got to yet.               *)
Untouched(n) ==
    \A r \in Requests : at[r] \in Generating => n >= target[r]

(* Without failures the targets a request has been through have its        *)
(* version, and those it has not been to yet are alike.                    *)
TargetsAlike ==
    /\ \A n \in Targets : ~Pending(n) => store[Object(n)] = store[Hash(n)]
    /\ \A m, n \in Targets : Untouched(m) /\ Untouched(n) => store[Hash(m)] = store[Hash(n)]
    /\ \A r \in Requests : at[r] \in Generating =>
          \A n \in Targets : n < target[r] => store[Hash(n)] = wasm[r]

(* A disk has nothing, or what the store has.                              *)
Mirrors(d, f) == cached[d][f] \in {NoVersion, store[f]}

(* The upload server's disk mirrors machine code and hashes, and the wasm  *)
(* if it started without one.                                              *)
ServerDisk ==
    /\ \A n \in Targets : Mirrors(UploadDisk, Object(n)) /\ Mirrors(UploadDisk, Hash(n))
    /\ startedClean => Mirrors(UploadDisk, Wasm)
    /\ startedClean => \A r \in Requests : at[r] \in Generating => wasm[r] = store[Wasm]

(* Once all requests were answered, and none failed, all machine code is   *)
(* that of the stored wasm.                                                *)
Answered ==
    /\ complete => Quiet
    /\ complete /\ startedClean /\ ~failed => \A n \in Targets : store[Object(n)] = store[Wasm]

(* Workers that were flushed since have nothing that is older.             *)
WorkersCurrent ==
    \A w \in upToDate :
        /\ complete
        /\ Mirrors(DiskOf(w), Wasm) /\ Mirrors(DiskOf(w), Object(w))
        /\ main[w] \in {NoVersion, store[Wasm]} /\ compiled[w] \in {NoVersion, store[Object(w)]}

(* The inductive invariant for uploads.                                    *)
UploadInv ==
    /\ UploadTypes /\ HashesFollow /\ (~failed => TargetsAlike)
    /\ ServerDisk /\ Answered /\ WorkersCurrent

(* Wasm, machine code and hashes are different files.                      *)
LEMMA FilesDiffer ==
    /\ Wasm \in Files
    /\ \A n \in Targets : Object(n) \in Files /\ Hash(n) \in Files /\ Object(n) # Wasm /\ Hash(n) # Wasm
    /\ \A m, n \in Targets : Object(m) # Hash(n)
    /\ \A m, n \in Targets : (Object(m) = Object(n) => m = n) /\ (Hash(m) = Hash(n) => m = n)
BY DEF Files, Wasm, Object, Hash

(* There is a target, each has its worker, every machine has its disk.     *)
LEMMA TargetFacts ==
    /\ NTargets \in Nat /\ NTargets > 0
    /\ \A n \in Targets : n \in Nat /\ n >= 1 /\ n <= NTargets
    /\ Workers = Targets
    /\ UploadDisk \in Disks /\ \A w \in Workers : DiskOf(w) \in Disks
BY SMT, NTargetsAssumption DEF Targets, Workers, Disks

(* At first nothing is stored.                                             *)
LEMMA UploadInitInv == UploadInit => UploadInv
<1> SUFFICES ASSUME UploadInit PROVE UploadInv
  OBVIOUS
<1>0. NothingStored \in [Files -> Content] /\ \A f \in Files : NothingStored[f] = NoVersion
  BY DEF NothingStored, Content
<1>1. UploadTypes
  <2>1. 1 \in Targets /\ NoVersion \in Content
    BY SMT, TargetFacts DEF Targets, Content
  <2>2. store \in [Files -> Content] /\ cached \in [Disks -> [Files -> Content]]
    BY <1>0 DEF UploadInit
  <2> QED BY <2>1, <2>2 DEF UploadInit, UploadTypes
<1>2. \A f \in Files : store[f] = NoVersion /\ cached[UploadDisk][f] = NoVersion
  BY <1>0, TargetFacts DEF UploadInit
<1>3. HashesFollow /\ TargetsAlike
  BY <1>2, FilesDiffer DEF UploadInit, HashesFollow, TargetsAlike, Pending, Untouched, Generating
<1>4. ServerDisk /\ Answered /\ WorkersCurrent
  BY <1>2, FilesDiffer DEF UploadInit, ServerDisk, Answered, WorkersCurrent, Mirrors, Generating
<1> QED BY <1>1, <1>3, <1>4 DEF UploadInv

(* A load fills a disk with what the store has, or leaves what is there.   *)
LEMMA LoadFills ==
    ASSUME UploadTypes, NEW d \in Disks, NEW f \in Files, loadFileBytes(d, f)
    PROVE  /\ cached' \in [Disks -> [Files -> Content]]
           /\ \A e \in Disks, g \in Files : cached'[e][g] \in {cached[e][g], store[g]}
           /\ \A e \in Disks, g \in Files : cached[e][g] # NoVersion => cached'[e][g] = cached[e][g]
           /\ Loaded(d, f) \in Content
<1>1. Loaded(d, f) \in Content
  BY DEF Loaded, UploadTypes
<1> QED BY <1>1 DEF loadFileBytes, UploadTypes, Loaded

(* An upload writes one file to the store and to the disk.                 *)
LEMMA UploadWrites ==
    ASSUME UploadTypes, NEW d \in Disks, NEW f \in Files, NEW x \in Content, uploadFileBytes(d, f, x)
    PROVE  /\ cached' \in [Disks -> [Files -> Content]] /\ store' \in [Files -> Content]
           /\ store'[f] = x /\ \A g \in Files : g # f => store'[g] = store[g]
           /\ cached'[d][f] = x
           /\ \A e \in Disks, g \in Files : e # d \/ g # f => cached'[e][g] = cached[e][g]
BY DEF uploadFileBytes, UploadTypes

(* A new upload keeps the invariant.                                       *)
LEMMA UploadingKeeps ==
    ASSUME OneRequest, UploadInv, NEW r \in Requests, NEW v \in Versions, uploadFunction(r, v)
    PROVE  UploadInv'
<1> USE FilesDiffer
<1>1. UploadTypes'
  BY DEF UploadInv, UploadTypes, uploadFunction, Moves, Content, Generating, worker
<1>2. \A n \in Targets : store'[Hash(n)] = store[Hash(n)] /\ store'[Object(n)] = store[Object(n)]
  BY DEF UploadInv, UploadTypes, uploadFunction
<1>3. /\ \A q \in Requests : at[q] = "idle" /\ at'[q] = "load"
      /\ UNCHANGED <<cached, wasm, target, failed>> /\ upToDate' = {} /\ complete' = FALSE
  BY DEF UploadInv, UploadTypes, uploadFunction, Moves, OneRequest, worker, Generating
<1>4. HashesFollow'
  BY <1>2, <1>3 DEF UploadInv, HashesFollow, Pending
<1>5. ~failed' => TargetsAlike'
  BY SMT, <1>2, <1>3 DEF UploadInv, TargetsAlike, Pending, Untouched, Generating
<1>6. ServerDisk'
  <2>1. startedClean' => cached[UploadDisk][Wasm] = NoVersion
    BY DEF uploadFunction, NothingStored
  <2> QED BY <1>2, <1>3, <2>1 DEF UploadInv, ServerDisk, Mirrors, Generating
<1>7. Answered' /\ WorkersCurrent'
  BY <1>3 DEF Answered, WorkersCurrent
<1> QED BY <1>1, <1>4, <1>5, <1>6, <1>7 DEF UploadInv

(* Loading the wasm to compile keeps the invariant.                        *)
LEMMA LoadingKeeps ==
    ASSUME OneRequest, UploadInv, NEW r \in Requests, loadFunctionWasm(r)
    PROVE  UploadInv'
<1> USE FilesDiffer, TargetFacts
<1>0. UploadTypes
  BY DEF UploadInv
<1>1. /\ cached' \in [Disks -> [Files -> Content]]
      /\ \A e \in Disks, g \in Files : cached'[e][g] \in {cached[e][g], store[g]}
      /\ Loaded(UploadDisk, Wasm) \in Content
  BY <1>0, LoadFills DEF loadFunctionWasm
<1>2. UploadTypes'
  BY <1>0, <1>1 DEF UploadTypes, loadFunctionWasm, Moves, Generating, past, worker
<1>3. /\ \A q \in Requests : at[q] = "load" /\ at'[q] = "compare" /\ wasm'[q] = Loaded(UploadDisk, Wasm)
      /\ UNCHANGED <<store, target, complete, upToDate, startedClean, failed>>
  BY <1>0 DEF UploadTypes, loadFunctionWasm, Moves, OneRequest, past
<1>4. HashesFollow'
  BY <1>3 DEF UploadInv, HashesFollow, Pending
<1>5. ~failed' => TargetsAlike'
  <2>1. \A q \in Requests : target[q] = 1
    BY <1>0, <1>3 DEF UploadTypes
  <2> QED BY SMT, <1>3, <2>1 DEF UploadInv, TargetsAlike, Pending, Untouched, Generating
<1>6. ServerDisk'
  BY <1>1, <1>3 DEF UploadInv, ServerDisk, Mirrors, Generating, Loaded
<1>7. Answered' /\ WorkersCurrent'
  BY <1>3 DEF UploadInv, Answered, WorkersCurrent, Quiet
<1> QED BY <1>2, <1>4, <1>5, <1>6, <1>7 DEF UploadInv

(* Comparing hashes keeps the invariant.                                   *)
LEMMA ComparingKeeps ==
    ASSUME OneRequest, UploadInv, NEW r \in Requests, CompareHashes(r)
    PROVE  UploadInv'
<1> USE FilesDiffer, TargetFacts
<1> DEFINE n == target[r]
<1>0. UploadTypes /\ n \in Targets
  BY DEF UploadInv, UploadTypes
<1>1. /\ cached' \in [Disks -> [Files -> Content]]
      /\ \A e \in Disks, g \in Files : cached'[e][g] \in {cached[e][g], store[g]}
  <2>1. Hash(n) \in Files /\ loadFileBytes(UploadDisk, Hash(n))
    BY <1>0 DEF CompareHashes
  <2> HIDE DEF n
  <2> QED BY <1>0, <2>1, LoadFills
<1>2. /\ at[r] = "compare" /\ at'[r] \in {"skip", "generate"} /\ Requests = {r}
      /\ at'[r] = "skip" => Loaded(UploadDisk, Hash(n)) = wasm[r]
      /\ UNCHANGED <<store, wasm, target, complete, upToDate, startedClean, failed, main, compiled>>
  BY SMT, <1>0 DEF UploadTypes, CompareHashes, Moves, OneRequest, past, worker
<1>3. UploadTypes'
  BY <1>0, <1>1, <1>2 DEF UploadTypes, CompareHashes, Moves, Generating
<1>4. HashesFollow'
  <2>1. Loaded(UploadDisk, Hash(n)) = store[Hash(n)]
    BY <1>0 DEF UploadInv, ServerDisk, Mirrors, Loaded
  <2> QED BY <1>2, <2>1 DEF UploadInv, HashesFollow, Pending
<1>5. ~failed' => TargetsAlike'
  BY <1>2 DEF UploadInv, TargetsAlike, Pending, Untouched, Generating
<1>6. ServerDisk'
  BY <1>1, <1>2 DEF UploadInv, ServerDisk, Mirrors, Generating
<1>7. Answered' /\ WorkersCurrent'
  BY <1>2 DEF UploadInv, Answered, WorkersCurrent, Quiet
<1> QED BY <1>3, <1>4, <1>5, <1>6, <1>7 DEF UploadInv

(* What an answer leaves of the request.                                   *)
LEMMA Replies ==
    ASSUME OneRequest, UploadTypes, NEW r \in Requests, NEW ok \in BOOLEAN, Reply(r, ok)
    PROVE  /\ Requests = {r} /\ at' = [q \in Requests |-> "idle"] /\ target' = [q \in Requests |-> 1]
           /\ wasm' \in [Requests -> Content]
           /\ complete' = ok
<1>1. NoVersion \in Content
  BY DEF Content
<1> QED BY <1>1 DEF Reply, Moves, OneRequest, UploadTypes

(* Skipping a target whose hash is the same keeps the invariant.           *)
LEMMA SkippingKeeps ==
    ASSUME OneRequest, UploadInv, NEW r \in Requests, SkipCodegen(r)
    PROVE  UploadInv'
<1> USE FilesDiffer, TargetFacts
<1> DEFINE n == target[r]
<1>0. UploadTypes /\ n \in Targets
  BY DEF UploadInv, UploadTypes
<1>1. /\ cached' \in [Disks -> [Files -> Content]]
      /\ \A e \in Disks, g \in Files : cached'[e][g] \in {cached[e][g], store[g]}
  <2>1. Object(n) \in Files /\ loadFileBytes(UploadDisk, Object(n))
    BY <1>0 DEF SkipCodegen
  <2> HIDE DEF n
  <2> QED BY <1>0, <2>1, LoadFills
<1>2. /\ Requests = {r} /\ at' = [q \in Requests |-> "idle"] /\ target' = [q \in Requests |-> 1]
      /\ wasm' \in [Requests -> Content] /\ complete'
  BY <1>0, Replies DEF SkipCodegen
<1>3. at[r] = "skip" /\ UNCHANGED <<store, upToDate, startedClean, failed, main, compiled>>
  BY DEF SkipCodegen, past, worker
<1>4. UploadTypes'
  <2>1. 1 \in Targets
    BY SMT DEF Targets
  <2> QED BY <1>0, <1>1, <1>2, <1>3, <2>1 DEF UploadTypes
<1>5. HashesFollow'
  BY <1>2, <1>3 DEF UploadInv, HashesFollow, Pending
<1>6. ~failed => \A m \in Targets : store[Hash(m)] = wasm[r] /\ store[Object(m)] = wasm[r]
  <2> SUFFICES ASSUME ~failed, NEW m \in Targets PROVE store[Hash(m)] = wasm[r] /\ store[Object(m)] = wasm[r]
    OBVIOUS
  <2>1. store[Hash(n)] = wasm[r]
    BY <1>3 DEF UploadInv, HashesFollow
  <2>2. store[Object(m)] = store[Hash(m)]
    BY <1>2, <1>3 DEF UploadInv, TargetsAlike, Pending
  <2>3. CASE m < n
    BY <2>2, <2>3, <1>3 DEF UploadInv, TargetsAlike, Generating
  <2>4. CASE m >= n
    <3>1. Untouched(m) /\ Untouched(n)
      BY SMT, <2>4, <1>0, <1>2 DEF Untouched
    <3> QED BY <3>1, <2>1, <2>2, <1>0 DEF UploadInv, TargetsAlike
  <2> QED BY SMT, <2>3, <2>4, <1>0
<1>7. ~failed' => TargetsAlike'
  BY <1>2, <1>3, <1>6 DEF TargetsAlike, Generating
<1>8. ServerDisk'
  BY <1>1, <1>2, <1>3 DEF UploadInv, ServerDisk, Mirrors, Generating
<1>9. Answered'
  BY <1>2, <1>3, <1>6 DEF UploadInv, ServerDisk, Answered, Quiet, Generating
<1>10. WorkersCurrent'
  BY <1>2, <1>3 DEF UploadInv, Answered, WorkersCurrent, Quiet
<1> QED BY <1>4, <1>5, <1>7, <1>8, <1>9, <1>10 DEF UploadInv

(* Storing machine code keeps the invariant: its hash is pending from then *)
(* on.                                                                     *)
LEMMA CodegenKeeps ==
    ASSUME OneRequest, UploadInv, NEW r \in Requests, doCodegen(r)
    PROVE  UploadInv'
<1> USE FilesDiffer, TargetFacts
<1> DEFINE n == target[r]
<1>0. UploadTypes /\ n \in Targets /\ wasm[r] \in Content
  BY DEF UploadInv, UploadTypes
<1>1. /\ cached' \in [Disks -> [Files -> Content]] /\ store' \in [Files -> Content]
      /\ store'[Object(n)] = wasm[r] /\ \A g \in Files : g # Object(n) => store'[g] = store[g]
      /\ cached'[UploadDisk][Object(n)] = wasm[r]
      /\ \A e \in Disks, g \in Files : e # UploadDisk \/ g # Object(n) => cached'[e][g] = cached[e][g]
  <2>1. Object(n) \in Files /\ uploadFileBytes(UploadDisk, Object(n), wasm[r])
    BY <1>0 DEF doCodegen
  <2> HIDE DEF n
  <2> QED BY SMT, <1>0, <2>1, UploadWrites
<1>2. /\ at[r] = "generate" /\ at'[r] = "record" /\ Requests = {r}
      /\ UNCHANGED <<wasm, target, complete, upToDate, startedClean, failed, main, compiled>>
  BY SMT, <1>0 DEF UploadTypes, doCodegen, Moves, OneRequest, past, worker
<1>3. UploadTypes'
  BY <1>0, <1>1, <1>2 DEF UploadTypes, doCodegen, Moves, Generating
<1>4. HashesFollow'
  BY SMT, <1>0, <1>1, <1>2 DEF UploadInv, HashesFollow, Pending
<1>5. ~failed' => TargetsAlike'
  <2> SUFFICES ASSUME ~failed PROVE TargetsAlike'
    BY <1>2
  <2>1. TargetsAlike
    BY DEF UploadInv
  <2>2. \A m \in Targets : store'[Hash(m)] = store[Hash(m)]
    BY <1>0, <1>1
  <2>3. \A m \in Targets : ~Pending(m)' => store'[Object(m)] = store'[Hash(m)]
    <3> SUFFICES ASSUME NEW m \in Targets, ~Pending(m)' PROVE store'[Object(m)] = store'[Hash(m)]
      OBVIOUS
    <3>1. m # n
      BY <1>2 DEF Pending
    <3>2. store'[Object(m)] = store[Object(m)] /\ ~Pending(m)
      BY <3>1, <1>0, <1>1, <1>2 DEF Pending
    <3> QED BY <3>2, <2>1, <2>2 DEF TargetsAlike
  <2>4. \A m \in Targets : Untouched(m)' = Untouched(m)
    BY <1>2 DEF Untouched, Generating
  <2> QED BY SMT, <1>2, <2>1, <2>2, <2>3, <2>4 DEF TargetsAlike, Generating
<1>6. ServerDisk'
  <2>1. store'[Wasm] = store[Wasm] /\ cached'[UploadDisk][Wasm] = cached[UploadDisk][Wasm]
    BY <1>0, <1>1
  <2> QED BY SMT, <1>0, <1>1, <1>2, <2>1 DEF UploadInv, ServerDisk, Mirrors, Generating
<1>7. Answered' /\ WorkersCurrent'
  BY <1>2 DEF UploadInv, Answered, WorkersCurrent, Quiet
<1> QED BY <1>3, <1>4, <1>5, <1>6, <1>7 DEF UploadInv

(* A failing code generation keeps the invariant.                          *)
LEMMA FailingKeeps ==
    ASSUME OneRequest, UploadInv, NEW r \in Requests, doCodegenFails(r)
    PROVE  UploadInv'
<1> USE FilesDiffer, TargetFacts
<1>0. UploadTypes
  BY DEF UploadInv
<1>1. /\ Requests = {r} /\ at' = [q \in Requests |-> "idle"] /\ target' = [q \in Requests |-> 1]
      /\ wasm' \in [Requests -> Content] /\ ~complete'
  BY <1>0, Replies DEF doCodegenFails
<1>2. /\ at[r] = "generate" /\ failed'
      /\ UNCHANGED <<store, cached, upToDate, startedClean, main, compiled>>
  BY DEF doCodegenFails, worker
<1>3. UploadTypes'
  <2>1. 1 \in Targets
    BY SMT DEF Targets
  <2> QED BY <1>0, <1>1, <1>2, <2>1 DEF UploadTypes, doCodegenFails, Reply
<1>4. HashesFollow'
  BY <1>1, <1>2 DEF UploadInv, HashesFollow, Pending
<1>5. ServerDisk'
  BY <1>1, <1>2 DEF UploadInv, ServerDisk, Mirrors, Generating
<1>6. Answered' /\ WorkersCurrent'
  BY <1>1, <1>2 DEF UploadInv, Answered, WorkersCurrent, Quiet
<1> QED BY <1>2, <1>3, <1>4, <1>5, <1>6 DEF UploadInv

(* Storing the hash keeps the invariant.                                   *)
LEMMA RecordingKeeps ==
    ASSUME OneRequest, UploadInv, NEW r \in Requests, uploadFunctionObjectHash(r)
    PROVE  UploadInv'
<1> USE FilesDiffer, TargetFacts
<1> DEFINE n == target[r]
<1>0. UploadTypes /\ n \in Targets /\ wasm[r] \in Content
  BY DEF UploadInv, UploadTypes
<1>1. /\ cached' \in [Disks -> [Files -> Content]] /\ store' \in [Files -> Content]
      /\ store'[Hash(n)] = wasm[r] /\ \A g \in Files : g # Hash(n) => store'[g] = store[g]
      /\ cached'[UploadDisk][Hash(n)] = wasm[r]
      /\ \A e \in Disks, g \in Files : e # UploadDisk \/ g # Hash(n) => cached'[e][g] = cached[e][g]
  <2>1. Hash(n) \in Files /\ uploadFileBytes(UploadDisk, Hash(n), wasm[r])
    BY <1>0 DEF uploadFunctionObjectHash
  <2> HIDE DEF n
  <2> QED BY SMT, <1>0, <2>1, UploadWrites
<1>2. at[r] = "record" /\ Requests = {r} /\ UNCHANGED <<upToDate, startedClean, failed, main, compiled>>
  BY SMT DEF uploadFunctionObjectHash, OneRequest, past, worker
<1>3. upToDate = {} /\ WorkersCurrent'
  BY <1>2 DEF UploadInv, Answered, WorkersCurrent, Quiet
<1>4. store[Object(n)] = wasm[r]
  BY <1>2 DEF UploadInv, HashesFollow
<1>5. \A m \in Targets : store'[Object(m)] = store[Object(m)]
  BY <1>0, <1>1
<1>6. ~failed => \A m \in Targets : store'[Object(m)] = store'[Hash(m)]
  <2> SUFFICES ASSUME ~failed, NEW m \in Targets PROVE store'[Object(m)] = store'[Hash(m)]
    OBVIOUS
  <2>1. CASE m = n
    BY <2>1, <1>1, <1>4, <1>5
  <2>2. CASE m # n
    <3>1. ~Pending(m)
      BY <1>2, <2>2 DEF Pending
    <3> QED BY <3>1, <2>2, <1>0, <1>1, <1>5 DEF UploadInv, TargetsAlike
  <2> QED BY <2>1, <2>2
<1>7. ~failed => \A m \in Targets : m <= n => store'[Hash(m)] = wasm[r]
  <2> SUFFICES ASSUME ~failed, NEW m \in Targets, m <= n PROVE store'[Hash(m)] = wasm[r]
    OBVIOUS
  <2>1. CASE m = n
    BY <1>1, <2>1
  <2>2. CASE m # n
    <3>1. m < n /\ Hash(m) # Hash(n) /\ Hash(m) \in Files
      BY SMT, <1>0, <2>2
    <3>2. store[Hash(m)] = wasm[r]
      BY <1>2, <3>1 DEF UploadInv, TargetsAlike, Generating
    <3> QED BY <1>1, <3>1, <3>2
  <2> QED BY <2>1, <2>2
<1>8. /\ \A m \in Targets : Mirrors(UploadDisk, Object(m))' /\ Mirrors(UploadDisk, Hash(m))'
      /\ startedClean' => Mirrors(UploadDisk, Wasm)' /\ wasm[r] = store'[Wasm]
  <2>1. store'[Wasm] = store[Wasm] /\ cached'[UploadDisk][Wasm] = cached[UploadDisk][Wasm]
    BY <1>0, <1>1
  <2> QED BY SMT, <1>0, <1>1, <1>2, <2>1 DEF UploadInv, ServerDisk, Mirrors, Generating
<1>9. CASE target[r] < NTargets
  <2>1. /\ at' = [q \in Requests |-> "compare"] /\ target' = [q \in Requests |-> n + 1]
        /\ UNCHANGED <<wasm, complete>> /\ n + 1 \in Targets
    BY SMT, <1>0, <1>2, <1>9 DEF uploadFunctionObjectHash, Moves, UploadTypes, Targets
  <2>2. UploadTypes'
    BY <1>0, <1>1, <1>2, <2>1 DEF UploadTypes, Generating
  <2>3. HashesFollow'
    <3>1. \A m \in Targets : store'[Hash(m)] # NoVersion => store'[Object(m)] = store'[Hash(m)]
      BY SMT, <1>0, <1>1, <1>2, <1>4, <1>5 DEF UploadInv, HashesFollow, Pending
    <3> QED BY <2>1, <3>1 DEF HashesFollow
  <2>4. ~failed' => TargetsAlike'
    <3> SUFFICES ASSUME ~failed PROVE TargetsAlike'
      BY <1>2
    <3>1. \A k, m \in Targets : k >= n + 1 /\ m >= n + 1 => store'[Hash(k)] = store'[Hash(m)]
      <4> SUFFICES ASSUME NEW k \in Targets, NEW m \in Targets, k >= n + 1, m >= n + 1
                   PROVE  store'[Hash(k)] = store'[Hash(m)]
        OBVIOUS
      <4>1. Untouched(k) /\ Untouched(m)
        BY SMT, <1>0, <1>2 DEF Untouched
      <4>2. k # n /\ m # n
        BY SMT, <1>0
      <4> QED BY SMT, <1>0, <1>1, <4>1, <4>2 DEF UploadInv, TargetsAlike
    <3>2. \A m \in Targets : Untouched(m)' => m >= n + 1
      BY <1>2, <2>1 DEF Untouched, Generating
    <3>3. \A m \in Targets : m < n + 1 => m <= n
      BY SMT, <1>0
    <3> QED BY SMT, <1>2, <1>6, <1>7, <2>1, <3>1, <3>2, <3>3 DEF TargetsAlike
  <2>5. ServerDisk' /\ Answered'
    BY <1>2, <1>8, <2>1 DEF ServerDisk, UploadInv, Answered, Quiet
  <2> QED BY <1>3, <2>2, <2>3, <2>4, <2>5 DEF UploadInv
<1>10. CASE ~(target[r] < NTargets)
  <2>1. /\ at' = [q \in Requests |-> "idle"] /\ target' = [q \in Requests |-> 1]
        /\ wasm' \in [Requests -> Content] /\ complete'
    BY <1>0, <1>10, Replies DEF uploadFunctionObjectHash
  <2>2. UploadTypes'
    <3>1. 1 \in Targets
      BY SMT DEF Targets
    <3> QED BY <1>0, <1>1, <1>2, <2>1, <3>1 DEF UploadTypes
  <2>3. HashesFollow'
    <3>1. \A m \in Targets : store'[Hash(m)] # NoVersion => store'[Object(m)] = store'[Hash(m)]
      BY SMT, <1>0, <1>1, <1>2, <1>4, <1>5 DEF UploadInv, HashesFollow, Pending
    <3> QED BY <2>1, <3>1 DEF HashesFollow
  <2>4. ~failed => \A m \in Targets : store'[Hash(m)] = wasm[r]
    BY SMT, <1>0, <1>7, <1>10
  <2>5. ~failed' => TargetsAlike'
    BY <1>2, <1>6, <2>1, <2>4 DEF TargetsAlike, Generating
  <2>6. ServerDisk'
    BY <1>8, <2>1 DEF ServerDisk, Generating
  <2>7. Answered'
    BY <1>2, <1>6, <1>8, <2>1, <2>4 DEF Answered, Quiet
  <2> QED BY <1>3, <2>2, <2>3, <2>5, <2>6, <2>7 DEF UploadInv
<1> QED BY <1>9, <1>10

(* A worker that loads the wasm keeps the invariant.                       *)
LEMMA MainModuleKeeps ==
    ASSUME UploadInv, NEW w \in Workers, getMainModule(w)
    PROVE  UploadInv'
<1> USE FilesDiffer, TargetFacts
<1> DEFINE d == DiskOf(w)
<1>0. UploadTypes /\ d \in Disks
  BY DEF UploadInv
<1>1. /\ cached' \in [Disks -> [Files -> Content]]
      /\ \A e \in Disks, g \in Files : cached'[e][g] \in {cached[e][g], store[g]}
      /\ Loaded(d, Wasm) \in Content
  <2>1. loadFileBytes(d, Wasm)
    BY DEF getMainModule
  <2> HIDE DEF d
  <2> QED BY <1>0, <2>1, LoadFills
<1>2. /\ main' = [main EXCEPT ![w] = Loaded(d, Wasm)]
      /\ UNCHANGED <<store, at, wasm, target, complete, upToDate, startedClean, failed, compiled>>
  BY DEF getMainModule, request, past
<1> HIDE DEF d
<1>3. UploadTypes'
  BY <1>0, <1>1, <1>2 DEF UploadTypes
<1>4. HashesFollow' /\ (~failed' => TargetsAlike')
  BY SMT, <1>2 DEF UploadInv, HashesFollow, TargetsAlike, Pending, Untouched
<1>5. ServerDisk'
  BY <1>1, <1>2 DEF UploadInv, ServerDisk, Mirrors
<1>6. Answered'
  BY <1>2 DEF UploadInv, Answered, Quiet
<1>7. WorkersCurrent'
  <2> SUFFICES ASSUME NEW u \in upToDate
               PROVE  /\ complete /\ Mirrors(DiskOf(u), Wasm)' /\ Mirrors(DiskOf(u), Object(u))'
                      /\ main'[u] \in {NoVersion, store[Wasm]} /\ compiled[u] \in {NoVersion, store[Object(u)]}
    BY <1>2 DEF WorkersCurrent
  <2>1. u \in Workers /\ DiskOf(u) \in Disks
    BY <1>0 DEF UploadTypes
  <2>2. /\ complete /\ Mirrors(DiskOf(u), Wasm) /\ Mirrors(DiskOf(u), Object(u))
        /\ main[u] \in {NoVersion, store[Wasm]} /\ compiled[u] \in {NoVersion, store[Object(u)]}
    BY DEF UploadInv, WorkersCurrent
  <2>3. Mirrors(DiskOf(u), Wasm)' /\ Mirrors(DiskOf(u), Object(u))'
    BY <1>1, <1>2, <2>1, <2>2 DEF Mirrors
  <2>4. main'[u] \in {NoVersion, store[Wasm]}
    BY <1>0, <1>2, <2>1, <2>2 DEF Loaded, Mirrors, UploadTypes, d
  <2> QED BY <2>2, <2>3, <2>4
<1> QED BY <1>3, <1>4, <1>5, <1>6, <1>7 DEF UploadInv

(* A worker that loads machine code keeps the invariant.                   *)
LEMMA CompiledModuleKeeps ==
    ASSUME UploadInv, NEW w \in Workers, getCompiledMainModule(w)
    PROVE  UploadInv'
<1> USE FilesDiffer, TargetFacts
<1> DEFINE d == DiskOf(w)
           file == Object(w)
<1>0. UploadTypes /\ d \in Disks /\ file \in Files
  BY DEF UploadInv
<1>1. /\ cached' \in [Disks -> [Files -> Content]]
      /\ \A e \in Disks, g \in Files : cached'[e][g] \in {cached[e][g], store[g]}
      /\ Loaded(d, file) \in Content
  <2>1. loadFileBytes(d, file)
    BY DEF getCompiledMainModule
  <2> HIDE DEF d, file
  <2> QED BY <1>0, <2>1, LoadFills
<1>2. /\ compiled' = [compiled EXCEPT ![w] = Loaded(d, file)]
      /\ UNCHANGED <<store, at, wasm, target, complete, upToDate, startedClean, failed, main>>
  BY DEF getCompiledMainModule, request, past
<1> HIDE DEF d, file
<1>3. UploadTypes'
  BY <1>0, <1>1, <1>2 DEF UploadTypes
<1>4. HashesFollow' /\ (~failed' => TargetsAlike')
  BY SMT, <1>2 DEF UploadInv, HashesFollow, TargetsAlike, Pending, Untouched
<1>5. ServerDisk'
  BY <1>1, <1>2 DEF UploadInv, ServerDisk, Mirrors
<1>6. Answered'
  BY <1>2 DEF UploadInv, Answered, Quiet
<1>7. WorkersCurrent'
  <2> SUFFICES ASSUME NEW u \in upToDate
               PROVE  /\ complete /\ Mirrors(DiskOf(u), Wasm)' /\ Mirrors(DiskOf(u), Object(u))'
                      /\ main[u] \in {NoVersion, store[Wasm]} /\ compiled'[u] \in {NoVersion, store[Object(u)]}
    BY <1>2 DEF WorkersCurrent
  <2>1. u \in Workers /\ DiskOf(u) \in Disks
    BY <1>0 DEF UploadTypes
  <2>2. /\ complete /\ Mirrors(DiskOf(u), Wasm) /\ Mirrors(DiskOf(u), Object(u))
        /\ main[u] \in {NoVersion, store[Wasm]} /\ compiled[u] \in {NoVersion, store[Object(u)]}
    BY DEF UploadInv, WorkersCurrent
  <2>3. Mirrors(DiskOf(u), Wasm)' /\ Mirrors(DiskOf(u), Object(u))'
    BY <1>1, <1>2, <2>1, <2>2 DEF Mirrors
  <2>4. compiled'[u] \in {NoVersion, store[Object(u)]}
    BY <1>0, <1>2, <2>1, <2>2 DEF Loaded, Mirrors, UploadTypes, d, file
  <2> QED BY <2>2, <2>3, <2>4
<1> QED BY <1>3, <1>4, <1>5, <1>6, <1>7 DEF UploadInv

(* Flushing a worker keeps the invariant.                                  *)
LEMMA FlushingKeeps ==
    ASSUME UploadInv, NEW w \in Workers, flushHost(w)
    PROVE  UploadInv'
<1> USE FilesDiffer, TargetFacts
<1>0. UploadTypes /\ DiskOf(w) \in Disks
  BY DEF UploadInv
<1>1. /\ cached' \in [Disks -> [Files -> Content]]
      /\ \A e \in Disks, g \in Files : cached'[e][g] \in {cached[e][g], NoVersion}
      /\ \A g \in Files : cached'[DiskOf(w)][g] = NoVersion
  <2>1. NothingStored \in [Files -> Content] /\ \A f \in Files : NothingStored[f] = NoVersion
    BY DEF NothingStored, Content
  <2>2. cached' = [cached EXCEPT ![DiskOf(w)] = NothingStored]
    BY DEF flushHost
  <2> QED BY <1>0, <2>1, <2>2 DEF UploadTypes
<1>2. /\ main' = [main EXCEPT ![w] = NoVersion] /\ compiled' = [compiled EXCEPT ![w] = NoVersion]
      /\ upToDate' = IF complete /\ Quiet THEN upToDate \cup {w} ELSE upToDate
      /\ UNCHANGED <<store, at, wasm, target, complete, startedClean, failed>>
  BY DEF flushHost, request, past
<1>3. UploadTypes'
  BY <1>0, <1>1, <1>2 DEF UploadTypes, Content
<1>4. HashesFollow' /\ (~failed' => TargetsAlike')
  BY SMT, <1>2 DEF UploadInv, HashesFollow, TargetsAlike, Pending, Untouched
<1>5. ServerDisk'
  BY <1>1, <1>2 DEF UploadInv, ServerDisk, Mirrors
<1>6. Answered'
  BY <1>2 DEF UploadInv, Answered, Quiet
<1>7. WorkersCurrent'
  <2> SUFFICES ASSUME NEW u \in upToDate'
               PROVE  /\ complete /\ Mirrors(DiskOf(u), Wasm)' /\ Mirrors(DiskOf(u), Object(u))'
                      /\ main'[u] \in {NoVersion, store[Wasm]} /\ compiled'[u] \in {NoVersion, store[Object(u)]}
    BY <1>2 DEF WorkersCurrent
  <2>1. CASE u = w
    <3>1. complete
      BY <1>2, <2>1 DEF UploadInv, WorkersCurrent
    <3>2. main'[u] = NoVersion /\ compiled'[u] = NoVersion
      BY <1>0, <1>2, <2>1 DEF UploadTypes
    <3> QED BY <1>1, <2>1, <3>1, <3>2 DEF Mirrors
  <2>2. CASE u # w
    <3>1. u \in upToDate /\ u \in Workers /\ DiskOf(u) \in Disks
      BY <1>0, <1>2, <2>2 DEF UploadTypes
    <3>2. /\ complete /\ Mirrors(DiskOf(u), Wasm) /\ Mirrors(DiskOf(u), Object(u))
          /\ main[u] \in {NoVersion, store[Wasm]} /\ compiled[u] \in {NoVersion, store[Object(u)]}
      BY <3>1 DEF UploadInv, WorkersCurrent
    <3>3. main'[u] = main[u] /\ compiled'[u] = compiled[u]
      BY <1>0, <1>2, <2>2, <3>1 DEF UploadTypes
    <3> QED BY <1>1, <1>2, <3>1, <3>2, <3>3 DEF Mirrors
  <2> QED BY <2>1, <2>2
<1> QED BY <1>3, <1>4, <1>5, <1>6, <1>7 DEF UploadInv

(* Every step keeps the invariant.                                         *)
LEMMA UploadStepInv == OneRequest /\ UploadInv /\ [UploadNext]_uploadVars => UploadInv'
<1> SUFFICES ASSUME OneRequest, UploadInv, [UploadNext]_uploadVars PROVE UploadInv'
  OBVIOUS
<1>1. CASE UNCHANGED uploadVars
  BY <1>1 DEF UploadInv, UploadTypes, HashesFollow, TargetsAlike, ServerDisk, Answered, WorkersCurrent,
              Pending, Untouched, Mirrors, Quiet, uploadVars, request, worker, past
<1>2. ASSUME NEW r \in Requests, NEW v \in Versions, uploadFunction(r, v) PROVE UploadInv'
  BY <1>2, UploadingKeeps
<1>3. ASSUME NEW r \in Requests,
             \/ loadFunctionWasm(r) \/ CompareHashes(r) \/ SkipCodegen(r)
             \/ doCodegen(r) \/ doCodegenFails(r) \/ uploadFunctionObjectHash(r)
      PROVE  UploadInv'
  BY <1>3, LoadingKeeps, ComparingKeeps, SkippingKeeps, CodegenKeeps, FailingKeeps, RecordingKeeps
<1>4. ASSUME NEW w \in Workers, getMainModule(w) \/ getCompiledMainModule(w) \/ flushHost(w) PROVE UploadInv'
  BY <1>4, MainModuleKeeps, CompiledModuleKeeps, FlushingKeeps
<1> QED BY <1>1, <1>2, <1>3, <1>4 DEF UploadNext

(* The invariant says of hashes what HashDescribesObject says.             *)
LEMMA InvDescribes == UploadInv => HashDescribesObject
<1> SUFFICES ASSUME UploadInv, Quiet PROVE \A n \in Targets : store[Hash(n)] # NoVersion => store[Object(n)] = store[Hash(n)]
  BY DEF HashDescribesObject
<1>1. \A n \in Targets : ~Pending(n)
  BY DEF Pending, Quiet
<1> QED BY <1>1 DEF UploadInv, HashesFollow

(* The invariant says of workers what CleanUpdateTakesEffect says.         *)
LEMMA InvTakesEffect == UploadInv => CleanUpdateTakesEffect
<1> SUFFICES ASSUME UploadInv, startedClean, ~failed, NEW w \in upToDate
             PROVE main[w] \in {NoVersion, store[Wasm]} /\ compiled[w] \in {NoVersion, store[Wasm]}
  BY DEF CleanUpdateTakesEffect, UpdateTakesEffect
<1>1. w \in Targets /\ complete
  BY TargetFacts DEF UploadInv, UploadTypes, WorkersCurrent
<1>2. store[Object(w)] = store[Wasm]
  BY <1>1 DEF UploadInv, Answered
<1> QED BY <1>2 DEF UploadInv, WorkersCurrent

(* When no code generation is under way, the hash that is stored for a     *)
(* target is that of the machine code stored for it, also after failed     *)
(* code generations (HashDescribesObject), so skipping codegen on an equal *)
(* hash is right. For one request at a time: two may leave the hash of one *)
(* beside the code of the other when a worker flushes a disk it shares     *)
(* with the upload server.                                                 *)
THEOREM HashesDescribeObjects == OneRequest => (UploadSpec => []HashDescribesObject)
<1> SUFFICES ASSUME OneRequest PROVE UploadSpec => []HashDescribesObject
  OBVIOUS
<1>1. UploadInv /\ [UploadNext]_uploadVars => UploadInv'
  BY UploadStepInv
<1> QED BY <1>1, UploadInitInv, InvDescribes, PTL DEF UploadSpec

(* A function uploaded to a server that had no local copy of it is, after  *)
(* the flush, what workers run, both as wasm and as machine code           *)
(* (CleanUpdateTakesEffect).                                               *)
THEOREM CleanUpdatesTakeEffect == OneRequest => (UploadSpec => []CleanUpdateTakesEffect)
<1> SUFFICES ASSUME OneRequest PROVE UploadSpec => []CleanUpdateTakesEffect
  OBVIOUS
<1>1. UploadInv /\ [UploadNext]_uploadVars => UploadInv'
  BY UploadStepInv
<1> QED BY <1>1, UploadInitInv, InvTakesEffect, PTL DEF UploadSpec
=============================================================================
