---------------------------- MODULE MCFaasletHost ----------------------------
(***************************************************************************)
(* FaasletHost with functions on two hosts: f1 and f2 share a host's copy  *)
(* of the state, f3 has its own.  The chunks of one value belong to both   *)
(* hosts, those of the other to one.  Files have one name, which may be a  *)
(* directory's with a file of the same name in it, and one shared name.    *)
(***************************************************************************)
EXTENDS FaasletHost, TLC

MCFilePaths == {<<"a">>, <<"faasm:", "a">>}

MCHostOf == [f \in Fns |-> IF f = "f3" THEN "h2" ELSE "h1"]

MCOwnerOf ==
    ("shared" :> (1 :> "h1" @@ 2 :> "h2")) @@ ("single" :> (1 :> "h1" @@ 2 :> "h1"))
=============================================================================
