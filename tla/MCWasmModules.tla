---------------------------- MODULE MCWasmModules ----------------------------
(***************************************************************************)
(* WasmModules with wasm files that between them export functions that are *)
(* in their table or not, take pointers to functions that are there, come  *)
(* later or never come, call each other's functions, and are rejected.     *)
(***************************************************************************)
EXTENDS WasmModules

Wasm(elems, exports, got, calls, own) ==
    [elems |-> elems, exports |-> exports, got |-> got, calls |-> calls, ownMemory |-> own]

MCLibraries == {
    Wasm(<<"f">>, {"f"}, {}, {}, FALSE),
    Wasm(<<"g">>, {"f", "g"}, {"f"}, {}, FALSE),
    Wasm(<<>>, {}, {"f"}, {"g"}, FALSE),
    Wasm(<<"f">>, {"f"}, {}, {}, TRUE)}

MCMains == {Wasm(<<>>, {}, {}, {}, TRUE), Wasm(<<"g">>, {"f"}, {}, {}, TRUE)}
=============================================================================
