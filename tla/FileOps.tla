------------------------------- MODULE FileOps -------------------------------
(***************************************************************************)
(* Where the path calls of two Faaslets, one per virtual machine, end up.  *)
(* A call names a file by a descriptor and a path relative to it, and each *)
(* operation joins the two in its own way before it decides whether the    *)
(* file is shared (faasm://) or below the runtime root: path_open in       *)
(* FileSystem::openFileDescriptor, stat, unlink, rename and mkdir in       *)
(* FileDescriptor.  The Faaslets share the files.  What is read and        *)
(* written is the host's own affair and left out; pulls and pushes of      *)
(* shared files are in SharedFiles, rights in WasiFiles, listings in       *)
(* DirListing.  A path is the sequence of its parts, with "/" and "."      *)
(* as parts of their own.                                                  *)
(***************************************************************************)
EXTENDS Integers, Sequences

CONSTANTS
    FilePaths,      \* relative paths that calls name
    MaxDescs,       \* bound on the two Faaslets' descriptors
    MaxFiles        \* bound on the files and directories made

ASSUME PathsAreSequences == FilePaths \subseteq Seq(STRING)

VARIABLES
    tree,           \* place |-> number of the file there
    files,          \* number |-> is it a directory, where and under which
                    \* descriptor's path and name it was made
    descs           \* Faaslet |-> the paths of its descriptors

fileVars == <<tree, files, descs>>

VMs == {"wavm", "wamr"}
Slash == <<"/">>
Dot == <<".">>

-----------------------------------------------------------------------------
(* Resolving a name. *)

isPathShared(p) == p # <<>> /\ Head(p) = "faasm:"

(* What the first n parts of a path name: "/" and "." name nothing. *)
Named(p) ==
    LET Upto[n \in 0 .. Len(p)] ==
            IF n = 0 THEN <<>>
            ELSE IF p[n] \in {"/", "."} THEN Upto[n - 1] ELSE Append(Upto[n - 1], p[n])
    IN  Upto

(* A file below the runtime root, and one of the shared directory. *)
prependRuntimeRoot(p) == [shared |-> FALSE, path |-> Named(p)[Len(p)]]
SharedPlace(p) == [shared |-> TRUE, path |-> Tail(p)]
Place(p) == IF isPathShared(p) THEN SharedPlace(p) ELSE prependRuntimeRoot(p)
Root == prependRuntimeRoot(Slash)

(* Mutant: the descriptor's own path is dropped. *)
absPath_Relative(root, rel) == IF rel = <<>> THEN root ELSE rel
absPath(root, rel) ==
    IF rel = <<>> THEN root
    ELSE (IF root = Dot THEN <<>> ELSE root) \o rel

openFullPath(root, rel) ==
    IF isPathShared(rel) \/ root = Dot THEN rel ELSE root \o rel

statPlace(root, rel) == Place(absPath(root, rel))
unlinkPlace(root, rel) ==
    IF isPathShared(rel) THEN SharedPlace(rel) ELSE prependRuntimeRoot(absPath(root, rel))
renamePlace(root, rel) == prependRuntimeRoot(absPath(root, rel))
mkdirPlace(rel) == prependRuntimeRoot(rel)

-----------------------------------------------------------------------------
(* The host's system calls. *)

OnHost(w) == w \in DOMAIN tree
IsDir(w) == files[tree[w]].dir
Parent(w) == [w EXCEPT !.path = SubSeq(@, 1, Len(@) - 1)]
Below(v, w) ==
    /\ v.shared = w.shared /\ Len(w.path) > Len(v.path)
    /\ SubSeq(w.path, 1, Len(v.path)) = v.path

ParentErrno(w) ==
    IF Len(w.path) <= 1 THEN "ok"
    ELSE IF ~OnHost(Parent(w)) THEN "ENOENT"
    ELSE IF ~IsDir(Parent(w)) THEN "ENOTDIR" ELSE "ok"

LookupErrno(w) ==
    IF ParentErrno(w) # "ok" THEN ParentErrno(w)
    ELSE IF OnHost(w) THEN "ok" ELSE "ENOENT"

MkdirErrno(w) == IF ParentErrno(w) = "ok" /\ OnHost(w) THEN "EEXIST" ELSE ParentErrno(w)

UnlinkErrno(w) == IF LookupErrno(w) = "ok" /\ IsDir(w) THEN "EISDIR" ELSE LookupErrno(w)

RenameErrno(v, w) ==
    IF LookupErrno(v) # "ok" THEN LookupErrno(v)
    ELSE IF ParentErrno(w) # "ok" THEN ParentErrno(w)
    ELSE IF Below(v, w) THEN "EINVAL"
    ELSE IF ~OnHost(w) \/ v = w THEN "ok"
    ELSE IF IsDir(w) # IsDir(v) THEN (IF IsDir(w) THEN "EISDIR" ELSE "ENOTDIR")
    ELSE IF \E x \in DOMAIN tree : Below(w, x) THEN "ENOTEMPTY" ELSE "ok"

OpenErrno(w, mode) ==
    CASE mode = "CREATE" -> IF OnHost(w) /\ IsDir(w) THEN "EISDIR" ELSE ParentErrno(w)
      [] mode = "DIRECTORY" -> IF LookupErrno(w) = "ok" /\ ~IsDir(w) THEN "ENOTDIR"
                               ELSE LookupErrno(w)
      [] OTHER -> UnlinkErrno(w)

Without(ws) == [w \in DOMAIN tree \ ws |-> tree[w]]
Within(v) == {w \in DOMAIN tree : w = v \/ Below(v, w)}

Renamed(v, w) ==
    IF v = w THEN tree
    ELSE LET to(x) == [w EXCEPT !.path = @ \o SubSeq(x.path, Len(v.path) + 1, Len(x.path))]
             rest  == Without(Within(v) \cup {w})
             moved == {to(x) : x \in Within(v)}
         IN  [y \in DOMAIN rest \cup moved |->
                 IF y \in moved THEN tree[CHOOSE x \in Within(v) : to(x) = y] ELSE rest[y]]

NewFile(w, isDir, root, rel) ==
    /\ Len(files) < MaxFiles
    /\ files' = Append(files, [dir |-> isDir, at |-> w, root |-> root, rel |-> rel])
    /\ tree' = [x \in DOMAIN tree \cup {w} |-> IF x = w THEN Len(files) + 1 ELSE tree[x]]

-----------------------------------------------------------------------------
(* storage/FileSystem.cpp and storage/FileDescriptor.cpp *)

(* The predefined descriptors of directories. *)
Predefined == <<Slash, Dot>>

FilesInit ==
    /\ tree = [w \in {Root, [Root EXCEPT !.shared = TRUE]} |-> 1]
    /\ files = <<[dir |-> TRUE, at |-> Root, root |-> Slash, rel |-> <<>>]>>
    /\ descs = [f \in VMs |-> Predefined]

FdsOf(f) == 1 .. Len(descs[f])

(* The first of the flags that is tested decides. *)
getOpenMode(flags) ==
    IF "CREAT" \in flags THEN "CREATE"
    ELSE IF "DIRECTORY" \in flags THEN "DIRECTORY"
    ELSE IF "TRUNC" \in flags THEN "TRUNC"
    ELSE IF "EXCL" \in flags THEN "EXCL" ELSE "NONE"

(* A new descriptor is in the table whether or not the file is opened. *)
NewDesc(f, p) ==
    /\ Len(descs["wavm"]) + Len(descs["wamr"]) < MaxDescs
    /\ descs' = [descs EXCEPT ![f] = Append(@, p)]

openFileDescriptor(f, root, rel, flags) ==
    LET p == openFullPath(root, rel)
        creates == OpenErrno(Place(p), getOpenMode(flags)) = "ok" /\ ~OnHost(Place(p))
    IN  /\ NewDesc(f, p)
        /\ IF creates THEN NewFile(Place(p), FALSE, root, rel) ELSE UNCHANGED <<tree, files>>

duplicateDesc(f, fd) == NewDesc(f, descs[f][fd]) /\ UNCHANGED <<tree, files>>

(* The path is the runtime root's, whatever the descriptor is. *)
mkdir(root, rel) ==
    /\ IF MkdirErrno(mkdirPlace(rel)) = "ok" THEN NewFile(mkdirPlace(rel), TRUE, root, rel)
       ELSE UNCHANGED <<tree, files>>
    /\ UNCHANGED descs

UnlinkFile(w) ==
    /\ tree' = IF UnlinkErrno(w) = "ok" THEN Without({w}) ELSE tree
    /\ UNCHANGED <<files, descs>>
unlink(root, rel) == UnlinkFile(unlinkPlace(root, rel))

Rename(v, w) ==
    /\ tree' = IF RenameErrno(v, w) = "ok" THEN Renamed(v, w) ELSE tree
    /\ UNCHANGED <<files, descs>>
rename(root, rel, newPath) == Rename(renamePlace(root, rel), prependRuntimeRoot(newPath))

(* What a stat finds, 0 for nothing. *)
stat(root, rel) ==
    IF LookupErrno(statPlace(root, rel)) = "ok" THEN tree[statPlace(root, rel)] ELSE 0

(* A call that throws or traps ends the function's call; the module is     *)
(* reset to its zygote's descriptors before the next one.                  *)
EndsCall(f) ==
    /\ descs' = [descs EXCEPT ![f] = Predefined]
    /\ UNCHANGED <<tree, files>>

-----------------------------------------------------------------------------
OpenFlags == {{}, {"CREAT", "TRUNC"}, {"TRUNC"}, {"EXCL"}, {"DIRECTORY"}}

(* wavm/io.cpp *)
wasi_path_open(root, rel) == \E flags \in OpenFlags : openFileDescriptor("wavm", root, rel, flags)
doWasiDup(fd) == duplicateDesc("wavm", fd)
path_create_directory(root, rel) == mkdir(root, rel)
path_rename(root, rel, newRoot, newRel) == rename(root, rel, absPath(newRoot, newRel))
path_unlink_file(root, rel) == unlink(root, rel)
doFileStat(root, rel) == UNCHANGED fileVars     \* tells stat(root, rel)
UnsupportedDescriptorCalls == EndsCall("wavm")
UnsupportedPathCalls == EndsCall("wavm")

(* The system calls that take a path and no descriptor throw on an error. *)
s__mkdir(p) ==
    IF MkdirErrno(mkdirPlace(p)) = "ok" THEN mkdir(Slash, p) ELSE EndsCall("wavm")
s__rename(p, q) ==
    LET v == prependRuntimeRoot(p)
        w == prependRuntimeRoot(q)
    IN  IF RenameErrno(v, w) = "ok" THEN Rename(v, w) ELSE EndsCall("wavm")
s__unlink(p) ==
    LET w == prependRuntimeRoot(p)
    IN  IF UnlinkErrno(w) = "ok" THEN UnlinkFile(w) ELSE EndsCall("wavm")

UnsupportedFormat == EndsCall("wavm")

executeSyscall ==
    \/ \E p \in FilePaths : s__unlink(p) \/ s__mkdir(p)
    \/ \E p, q \in FilePaths : s__rename(p, q)
    \/ EndsCall("wavm")         \* a number that is not supported

(* wamr/filesystem.cpp *)
wamr_fd_dup(fd) == duplicateDesc("wamr", fd)
wamr_path_open(root, rel) == \E flags \in OpenFlags : openFileDescriptor("wamr", root, rel, flags)
wamr_path_rename(root, rel, newRoot, newRel) == rename(root, rel, absPath(newRoot, newRel))
wamr_path_unlink_file(root, rel) == unlink(root, rel)
wamr_doFileStat(root, rel) == UNCHANGED fileVars     \* tells stat(root, rel)
wamr_fd_fdstat_set_flags == EndsCall("wamr")
wamr_fd_readdir == EndsCall("wamr")
wamr_path_create_directory == EndsCall("wamr")
wamr_path_link == EndsCall("wamr")
wamr_path_readlink == EndsCall("wamr")
wamr_path_symlink == EndsCall("wamr")

WavmCall(root, rel) ==
    \/ wasi_path_open(root, rel) \/ path_create_directory(root, rel)
    \/ path_unlink_file(root, rel) \/ doFileStat(root, rel)
    \/ \E fd \in FdsOf("wavm"), newRel \in FilePaths : path_rename(root, rel, descs["wavm"][fd], newRel)

WamrCall(root, rel) ==
    \/ wamr_path_open(root, rel) \/ wamr_path_unlink_file(root, rel) \/ wamr_doFileStat(root, rel)
    \/ \E fd \in FdsOf("wamr"), newRel \in FilePaths : wamr_path_rename(root, rel, descs["wamr"][fd], newRel)

FilesNext ==
    \/ \E fd \in FdsOf("wavm"), rel \in FilePaths : WavmCall(descs["wavm"][fd], rel)
    \/ \E fd \in FdsOf("wamr"), rel \in FilePaths : WamrCall(descs["wamr"][fd], rel)
    \/ \E fd \in FdsOf("wavm") : doWasiDup(fd)
    \/ \E fd \in FdsOf("wamr") : wamr_fd_dup(fd)
    \/ executeSyscall
    \/ UnsupportedFormat \/ UnsupportedDescriptorCalls \/ UnsupportedPathCalls
    \/ wamr_fd_fdstat_set_flags \/ wamr_fd_readdir \/ wamr_path_create_directory
    \/ wamr_path_link \/ wamr_path_readlink \/ wamr_path_symlink

-----------------------------------------------------------------------------
FilesTypeOK ==
    /\ OnHost(Root)
    /\ \A w \in DOMAIN tree : tree[w] \in 1 .. Len(files) /\ ParentErrno(w) = "ok"
    /\ \A f \in VMs : \A fd \in 1 .. 2 : descs[f][fd] = Predefined[fd]

Stays(k) == OnHost(files[k].at) /\ tree[files[k].at] = k

(* A file that path_open made under a descriptor and a name is what stat   *)
(* and unlink find under the same descriptor and name, by either virtual   *)
(* machine, for as long as nobody has renamed or unlinked it or what is    *)
(* above it: openFileDescriptor joins the two as absPath does.  It asks    *)
(* for "." where the name itself is shared (absPath puts another root in   *)
(* front of faasm://), and unlink finds no file below a shared directory's *)
(* descriptor (it asks whether the relative path is shared).               *)
CreatedIsFound ==
    \A k \in 2 .. Len(files) :
        LET c == files[k] IN
        (~c.dir /\ Stays(k) /\ (isPathShared(c.rel) => c.root = Dot)) =>
            /\ stat(c.root, c.rel) = k
            /\ isPathShared(c.root) \/ unlinkPlace(c.root, c.rel) = c.at

(* Not kept by mkdir, which leaves the descriptor's path out. *)
MadeWhereNamed ==
    \A k \in 2 .. Len(files) : (files[k].dir /\ Stays(k)) => stat(files[k].root, files[k].rel) = k
=============================================================================
