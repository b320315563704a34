------------------------------- MODULE Storage -------------------------------
(***************************************************************************)
(* What a deployment keeps in its object store and on the disks of its     *)
(* hosts: shared files (SharedFiles), functions with their machine code    *)
(* (FunctionUpload) and, below both, the wrapper of the object store       *)
(* (ObjectStore).  Files and functions are under different keys and in     *)
(* different directories and no operation on one reads the other; each is  *)
(* looked at while the others are at rest.                                 *)
(***************************************************************************)
EXTENDS SharedFiles, FunctionUpload, ObjectStore

storageVars == <<sharedVars, uploadVars, s3Vars>>

StorageInit == SharedInit /\ UploadInit /\ S3Init

FilesAtRest == SharedInit /\ workload = CHOOSE w \in Workloads : TRUE

FilesMove == UploadInit /\ S3Init /\ SharedNext /\ UNCHANGED <<uploadVars, s3Vars>>
FunctionsMove == FilesAtRest /\ S3Init /\ UploadNext /\ UNCHANGED <<sharedVars, s3Vars>>
ObjectsMove == FilesAtRest /\ UploadInit /\ S3Next /\ UNCHANGED <<sharedVars, uploadVars>>

StorageSpec ==
    StorageInit /\ [][FilesMove \/ FunctionsMove \/ ObjectsMove]_storageVars
=============================================================================
