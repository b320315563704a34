------------------------------ MODULE DirListing ------------------------------
(***************************************************************************)
(* Listing a directory with repeated fd_readdir calls: the iterator of a   *)
(* FileDescriptor, the buffer it fills, and the C library that calls it    *)
(* until a buffer comes back that is not full.  An entry is identified by  *)
(* its place in the host's listing; its size in the buffer is that of a    *)
(* dirent and of its name.  A descriptor can be duplicated at any time.    *)
(***************************************************************************)
EXTENDS Naturals, Sequences, FiniteSets

CONSTANTS
    DirFds,                \* descriptors of one directory
    OpenedFd,              \* the one that is opened, the others are duplicates
    MaxEntries,         \* bound on the entries of the directory
    NameSizes,          \* lengths of names
    DirentSize,         \* sizeof(__wasi_dirent_t)
    BufferSizes         \* buffers offered to fd_readdir

(* The C library's buffers hold at least one entry. *)
ASSUME SizesAssumption ==
    /\ OpenedFd \in DirFds /\ MaxEntries \in Nat \ {0} /\ DirentSize \in Nat \ {0}
    /\ NameSizes \subseteq Nat \ {0} /\ BufferSizes \subseteq Nat
    /\ \A b \in BufferSizes, n \in NameSizes : DirentSize + n <= b

VARIABLES
    directory,          \* name lengths of the entries on the host, in order
    \* of a descriptor
    dirContentsLoaded, dirContents, dirContentsIdx,
    \* of the caller, for each descriptor it has open
    open, cookie, listed, outcome

iter == <<dirContentsLoaded, dirContents, dirContentsIdx>>
caller == <<open, cookie, listed, outcome>>
listingVars == <<directory, iter, caller>>

(* There are always the entries . and ..                                   *)
Directories == UNION {[1 .. n -> NameSizes] : n \in 1 .. MaxEntries}
StartCookie == 0

ListingInit ==
    /\ directory \in Directories
    /\ dirContentsLoaded = [f \in DirFds |-> FALSE]
    /\ dirContents = [f \in DirFds |-> <<>>] /\ dirContentsIdx = [f \in DirFds |-> 0]
    /\ open = {OpenedFd} /\ cookie = [f \in DirFds |-> StartCookie]
    /\ listed = [f \in DirFds |-> <<>>] /\ outcome = [f \in DirFds |-> "listing"]

(***************************************************************************)
(* FileDescriptor                                                          *)
(***************************************************************************)
(* loadDirContents: the whole listing is read when the iterator starts.    *)
Contents(f) == IF dirContentsLoaded[f] THEN dirContents[f] ELSE directory

(* Bytes that the entries i + 1 .. j take in the buffer.                   *)
BytesFor(names, i, j) ==
    LET upTo[k \in i .. j] ==
            IF k = i THEN 0 ELSE upTo[k - 1] + DirentSize + names[k]
    IN  upTo[j]

(* How far the loop gets with a buffer of len bytes: to the last entry     *)
(* whose dirent and path fit.                                              *)
LastThatFits(names, i, len) ==
    CHOOSE j \in i .. Len(names) :
        /\ BytesFor(names, i, j) <= len
        /\ j = Len(names) \/ BytesFor(names, i, j + 1) > len

(* Mutant: no step back over an entry that does not fit. *)
iterAfterCopy_NoBack(names, i, len) ==
    LET j == LastThatFits(names, i, len) IN
    IF j < Len(names) THEN j + 1 ELSE j

(* The iterator stands at an entry that did not fit, having gone past it   *)
(* and back again (iterBack).                                              *)
iterAfterCopy(names, i, len) == LastThatFits(names, i, len)

(* What copyDirentsToWasiBuffer returns: the buffer length as long as      *)
(* there is an entry that did not fit.                                     *)
bytesCopied(names, i, len) ==
    LET j == LastThatFits(names, i, len) IN
    IF j < Len(names) THEN len ELSE BytesFor(names, i, j)

(***************************************************************************)
(* The caller: the C library's readdir (external) calls fd_readdir with    *)
(* the cookie of the last whole entry it got, takes the whole entries out  *)
(* of the buffer, and ends at a buffer that is not full.                   *)
(***************************************************************************)
fd_readdir(f, len) ==
    LET names == Contents(f)
        i == dirContentsIdx[f]
        j == LastThatFits(names, i, len) IN
    /\ f \in open /\ outcome[f] = "listing"
    /\ dirContentsLoaded[f] <=> cookie[f] # StartCookie
    /\ dirContentsLoaded' = [dirContentsLoaded EXCEPT ![f] = TRUE]
    /\ dirContents' = [dirContents EXCEPT ![f] = names]
    /\ dirContentsIdx' = [dirContentsIdx EXCEPT ![f] = iterAfterCopy(names, i, len)]
    /\ listed' = [listed EXCEPT ![f] = @ \o [n \in 1 .. j - i |-> i + n]]
    /\ cookie' = [cookie EXCEPT ![f] = IF j > i THEN j ELSE @]
    /\ outcome' = [outcome EXCEPT ![f] =
                     IF bytesCopied(names, i, len) < len THEN "end" ELSE @]
    /\ UNCHANGED <<directory, open>>

(* rewinddir sets the cookie back without a call to the host.              *)
rewinddir(f) ==
    /\ f \in open /\ outcome[f] = "listing" /\ cookie[f] # StartCookie
    /\ cookie' = [cookie EXCEPT ![f] = StartCookie]
    /\ UNCHANGED <<directory, iter, open, listed, outcome>>

(* The start cookie on an iterator that has started is an error.           *)
fd_readdirInvalid(f) ==
    /\ f \in open /\ outcome[f] = "listing"
    /\ dirContentsLoaded[f] /\ cookie[f] = StartCookie
    /\ outcome' = [outcome EXCEPT ![f] = "EINVAL"]
    /\ UNCHANGED <<directory, iter, open, cookie, listed>>

(* dup in the middle of a listing; the caller goes on with both.           *)
duplicateIter(f, g) ==
    /\ f \in open /\ g \in DirFds \ open
    /\ open' = open \cup {g}
    /\ dirContentsLoaded' = [dirContentsLoaded EXCEPT ![g] = dirContentsLoaded[f]]
    /\ dirContents' = [dirContents EXCEPT ![g] = dirContents[f]]
    /\ dirContentsIdx' = [dirContentsIdx EXCEPT ![g] = dirContentsIdx[f]]
    /\ cookie' = [cookie EXCEPT ![g] = cookie[f]]
    /\ listed' = [listed EXCEPT ![g] = listed[f]]
    /\ outcome' = [outcome EXCEPT ![g] = outcome[f]]
    /\ UNCHANGED directory

(* Files come and go on the host at any time.                              *)
ChangeDirectory(d) ==
    /\ d \in Directories
    /\ directory' = d
    /\ UNCHANGED <<iter, caller>>

ListingNext ==
    \/ \E f \in DirFds, len \in BufferSizes : fd_readdir(f, len)
    \/ \E f \in DirFds : rewinddir(f) \/ fd_readdirInvalid(f)
    \/ \E f, g \in DirFds : duplicateIter(f, g)
    \/ ChangeDirectory(Tail(directory))
    \/ \E n \in NameSizes : ChangeDirectory(Append(directory, n))

(***************************************************************************)
(* Properties                                                              *)
(***************************************************************************)
(* The iterator stays inside the listing it has loaded.                    *)
ListingTypeOK ==
    /\ directory \in Directories
    /\ dirContentsLoaded \in [DirFds -> BOOLEAN]
    /\ \A f \in DirFds : dirContentsIdx[f] \in 0 .. Len(dirContents[f])
    /\ open \subseteq DirFds /\ cookie \in [DirFds -> 0 .. MaxEntries]
    /\ outcome \in [DirFds -> {"listing", "end", "EINVAL"}]

(* "the caller will expect the next result to contain that same dirent/    *)
(* path": whatever the buffers, the entries come in order, none is left    *)
(* out and none is repeated, also when the directory changes meanwhile.    *)
(* "The caller knows they've reached the end when the buffer is _not_      *)
(* filled": it has then got every entry there was when it began.           *)
ListingIsExact ==
    \A f \in DirFds :
        /\ listed[f] = [n \in 1 .. dirContentsIdx[f] |-> n]
        /\ outcome[f] = "end" => Len(listed[f]) = Len(dirContents[f])
=============================================================================
