------------------------------ MODULE WasiFiles -------------------------------
(***************************************************************************)
(* The file descriptor table of a Faaslet: the predefined descriptors,     *)
(* path_open relative to a descriptor, dup, the rights that pass from a    *)
(* descriptor to those opened below it, and the host's descriptors behind  *)
(* them.  The threads of a Faaslet share the table, which has no lock; a   *)
(* number is taken by a read and a write of nextFd.  fd_close does nothing *)
(* and so is no action.                                                    *)
(***************************************************************************)
EXTENDS Integers, FiniteSets

CONSTANTS
    Threads,            \* threads of the Faaslet
    Rights,             \* WASI rights
    ReadRights,         \* WASI_RIGHTS_READ
    WriteRights,        \* WASI_RIGHTS_WRITE
    StdRights,          \* of stdin, stdout and stderr, also to inherit
    DirectoryRights,    \* of the preopened directories
    InheritingDirectoryRights,
    MaxFd               \* bound on the numbers taken

ASSUME RightsAssumption ==
    /\ ReadRights \subseteq Rights /\ WriteRights \subseteq Rights
    /\ StdRights \subseteq Rights /\ DirectoryRights \subseteq Rights
    /\ InheritingDirectoryRights \subseteq Rights
    /\ StdRights \cap WriteRights # {}
    /\ DirectoryRights \subseteq InheritingDirectoryRights
    /\ MaxFd \in Nat /\ MaxFd >= 5

VARIABLES
    fileDescriptors,    \* the table
    nextFd,
    nextHostFd,         \* descriptors of the host's process are not closed
    call                \* what each thread is doing

vars == <<fileDescriptors, nextFd, nextHostFd, call>>

Std == 0 .. 2
Preopened == 3 .. 4
Fds == 0 .. MaxFd
NoHostFd == -1
Calls == [op : {"idle", "open", "dup"}, numbered : BOOLEAN, fd : Nat, from : Fds,
          base : SUBSET Rights, inheriting : SUBSET Rights]
Idle == [op |-> "idle", numbered |-> FALSE, fd |-> 0, from |-> 0,
         base |-> {}, inheriting |-> {}]

(* root: the predefined descriptor that it was opened below.  writes: the  *)
(* host's descriptor was opened for writing.                               *)
Descriptors ==
    [base : SUBSET Rights, inheriting : SUBSET Rights, linuxFd : Int,
     writes : BOOLEAN, root : Std \cup Preopened]

stdFdFactory(fd) ==
    [base |-> StdRights, inheriting |-> StdRights, linuxFd |-> fd,
     writes |-> TRUE, root |-> fd]

createPreopenedFileDescriptor(fd) ==
    [base |-> DirectoryRights, inheriting |-> InheritingDirectoryRights,
     linuxFd |-> fd, writes |-> FALSE, root |-> fd]

prepareFilesystem ==
    /\ fileDescriptors = [fd \in Std \cup Preopened |->
            IF fd \in Std THEN stdFdFactory(fd) ELSE createPreopenedFileDescriptor(fd)]
    /\ nextFd = 5

Init ==
    /\ prepareFilesystem
    /\ nextHostFd = 5
    /\ call = [t \in Threads |-> Idle]

Exists(fd) == fd \in DOMAIN fileDescriptors
Put(fd, desc) ==
    [f \in DOMAIN fileDescriptors \cup {fd} |->
        IF f = fd THEN desc ELSE fileDescriptors[f]]

(* path_open: the root is looked up before a number is taken, and the call *)
(* throws without a trace when there is none.                              *)
path_open(t, root, base, inheriting) ==
    /\ call[t].op = "idle" /\ Exists(root) /\ nextFd <= MaxFd
    /\ call' = [call EXCEPT ![t] =
            [op |-> "open", numbered |-> FALSE, fd |-> nextFd, from |-> root,
             base |-> base, inheriting |-> inheriting]]
    /\ UNCHANGED <<fileDescriptors, nextFd, nextHostFd>>

(* dup: a number is taken before the lookup.                               *)
dup(t, fd) ==
    /\ call[t].op = "idle" /\ nextFd <= MaxFd
    /\ call' = [call EXCEPT ![t] =
            [op |-> "dup", numbered |-> FALSE, fd |-> nextFd, from |-> fd,
             base |-> {}, inheriting |-> {}]]
    /\ UNCHANGED <<fileDescriptors, nextFd, nextHostFd>>

(* getNewFd: thisFd is read and nextFd is written back, one larger.        *)
getNewFd(t) ==
    /\ call[t].op # "idle" /\ ~call[t].numbered
    /\ nextFd' = call[t].fd + 1
    /\ call' = [call EXCEPT ![t].numbered = TRUE]
    /\ UNCHANGED <<fileDescriptors, nextHostFd>>

(***************************************************************************)
(* openFileDescriptor                                                      *)
(***************************************************************************)
(* Mutant: what is inherited is what was asked for. *)
effectiveRights_Asked(t) ==
    [base |-> call[t].base \cap fileDescriptors[call[t].from].inheriting,
     inheriting |-> call[t].inheriting]

effectiveRights(t) ==
    LET permitted == fileDescriptors[call[t].from].inheriting IN
    [base |-> call[t].base \cap permitted,
     inheriting |-> call[t].inheriting \cap permitted]

(* getRwType: any write right gives O_WRONLY or O_RDWR.                    *)
opensForWriting(base) == base \cap WriteRights # {}

(* No read or write right but some other right: pathOpen throws.           *)
Custom(base) == base # {} /\ base \cap (ReadRights \cup WriteRights) = {}

OpenedBelow(t, hostFd, writes) ==
    [base |-> effectiveRights(t).base, inheriting |-> effectiveRights(t).inheriting,
     linuxFd |-> hostFd, writes |-> writes,
     root |-> fileDescriptors[call[t].from].root]

(* With O_DIRECTORY the host's descriptor is read only.                    *)
pathOpen(t, isDirectory) ==
    LET base == effectiveRights(t).base IN
    /\ call[t].op = "open" /\ call[t].numbered
    /\ isDirectory \/ ~Custom(base)
    /\ fileDescriptors' = Put(call[t].fd,
            OpenedBelow(t, nextHostFd, ~isDirectory /\ opensForWriting(base)))
    /\ nextHostFd' = nextHostFd + 1
    /\ call' = [call EXCEPT ![t] = Idle]
    /\ UNCHANGED nextFd

(* The host refuses, a shared file is missing, or the flags throw: the     *)
(* entry and its rights stay in the table.                                 *)
pathOpenFails(t) ==
    /\ call[t].op = "open" /\ call[t].numbered
    /\ fileDescriptors' = Put(call[t].fd, OpenedBelow(t, NoHostFd, FALSE))
    /\ call' = [call EXCEPT ![t] = Idle]
    /\ UNCHANGED <<nextFd, nextHostFd>>

(***************************************************************************)
(* dup                                                                     *)
(***************************************************************************)
(* Mutant: the host's descriptor is shared. *)
duplicate_Shared(t) ==
    /\ call[t].op = "dup" /\ call[t].numbered /\ Exists(call[t].from)
    /\ fileDescriptors' = Put(call[t].fd, fileDescriptors[call[t].from])
    /\ call' = [call EXCEPT ![t] = Idle]
    /\ UNCHANGED <<nextFd, nextHostFd>>

duplicate(t) ==
    LET original == fileDescriptors[call[t].from]
        isOpen == original.linuxFd # NoHostFd IN
    /\ call[t].op = "dup" /\ call[t].numbered /\ Exists(call[t].from)
    /\ fileDescriptors' = Put(call[t].fd,
            [original EXCEPT !.linuxFd = IF isOpen THEN nextHostFd ELSE NoHostFd])
    /\ nextHostFd' = IF isOpen THEN nextHostFd + 1 ELSE nextHostFd
    /\ call' = [call EXCEPT ![t] = Idle]
    /\ UNCHANGED nextFd

(* No such descriptor: the call throws, the number is lost.                *)
dupThrows(t) ==
    /\ call[t].op = "dup" /\ call[t].numbered /\ ~Exists(call[t].from)
    /\ call' = [call EXCEPT ![t] = Idle]
    /\ UNCHANGED <<fileDescriptors, nextFd, nextHostFd>>

Next ==
    \E t \in Threads :
        \/ \E root \in Fds, base, inheriting \in SUBSET Rights :
               path_open(t, root, base, inheriting)
        \/ \E fd \in Fds : dup(t, fd)
        \/ getNewFd(t)
        \/ \E isDirectory \in BOOLEAN : pathOpen(t, isDirectory)
        \/ pathOpenFails(t) \/ duplicate(t) \/ dupThrows(t)

Spec == Init /\ [][Next]_vars

(***************************************************************************)
(* Properties                                                              *)
(***************************************************************************)
(* Numbers of the predefined descriptors are never given out: they are in  *)
(* the table and the next number is above them.                            *)
TypeOK ==
    /\ DOMAIN fileDescriptors \subseteq Fds
    /\ Std \cup Preopened \subseteq DOMAIN fileDescriptors
    /\ \A fd \in DOMAIN fileDescriptors : fileDescriptors[fd] \in Descriptors
    /\ nextFd \in 5 .. MaxFd + 1 /\ nextHostFd \in Nat
    /\ call \in [Threads -> Calls]

(* "children of this file descriptor can only inherit rights permitted by  *)
(* their ancestors": through any chain of opens and dups, a descriptor has *)
(* and passes on only what its predefined ancestor lets be inherited.      *)
RightsWithinRoot ==
    \A fd \in DOMAIN fileDescriptors :
        LET desc == fileDescriptors[fd]
            permitted == fileDescriptors[desc.root].inheriting IN
        desc.base \subseteq permitted /\ desc.inheriting \subseteq permitted

(* The host's descriptor can be written to only if the rights of the       *)
(* descriptor in front of it, as inherited, include one to write.          *)
WritesNeedRight ==
    \A fd \in DOMAIN fileDescriptors :
        fileDescriptors[fd].writes => fileDescriptors[fd].base \cap WriteRights # {}

(* No two descriptors stand for one descriptor of the host.                *)
HostFdsApart ==
    \A f, g \in DOMAIN fileDescriptors :
        f # g /\ fileDescriptors[f].linuxFd # NoHostFd
            => fileDescriptors[f].linuxFd # fileDescriptors[g].linuxFd

(* "Assign a new file descriptor": the number that path_open or dup gives  *)
(* out is new, so what a number stands for never changes.                  *)
DescriptorsKept ==
    [][\A fd \in DOMAIN fileDescriptors :
            fd \in DOMAIN fileDescriptors' /\ fileDescriptors'[fd] = fileDescriptors[fd]]_vars
=============================================================================
