----------------------------- MODULE FaasletHost -----------------------------
(***************************************************************************)
(* The Faaslets of a worker: the network namespace their threads run in    *)
(* (Isolation), their tables of descriptors (WasiFiles), the iterators of  *)
(* those descriptors that are directories (DirListing), the files their    *)
(* path calls reach (FileOps) and the state their functions share with     *)
(* other hosts (StateHost).  Claiming a namespace touches no descriptor    *)
(* and no value of the state, and nothing in the table reads an iterator   *)
(* or a path: no part's moves depend on another's, so each is looked at    *)
(* while the others are at rest, the listing from every directory there    *)
(* can be and the rest beside one of them.                                 *)
(***************************************************************************)
EXTENDS Isolation, WasiFiles, DirListing, FileOps, StateHost

hostVars == <<netVars, vars, listingVars, fileVars, stateVars>>

HostInit == NetInit /\ Init /\ ListingInit /\ FilesInit /\ StateInit

ADirectory == ListingInit /\ directory = CHOOSE d \in Directories : TRUE

NetMoves ==
    /\ Init /\ ADirectory /\ FilesInit /\ StateInit
    /\ NetNext /\ UNCHANGED <<vars, listingVars, fileVars, stateVars>>

TableMoves ==
    /\ NetInit /\ ADirectory /\ FilesInit /\ StateInit
    /\ Next /\ UNCHANGED <<netVars, listingVars, fileVars, stateVars>>

ListingMoves ==
    /\ NetInit /\ Init /\ FilesInit /\ StateInit
    /\ ListingNext /\ UNCHANGED <<netVars, vars, fileVars, stateVars>>

FileMoves ==
    /\ NetInit /\ Init /\ ADirectory /\ StateInit
    /\ FilesNext /\ UNCHANGED <<netVars, vars, listingVars, stateVars>>

StateMoves ==
    /\ NetInit /\ Init /\ ADirectory /\ FilesInit
    /\ StateNext /\ UNCHANGED <<netVars, vars, listingVars, fileVars>>

HostSpec ==
    /\ HostInit
    /\ [][NetMoves \/ TableMoves \/ ListingMoves \/ FileMoves \/ StateMoves]_hostVars
=============================================================================
