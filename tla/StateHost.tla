----------------------------- MODULE StateHost ------------------------------
(***************************************************************************)
(* The state functions of the host interface (wavm/faasm.cpp): functions on *)
(* several hosts read and change key-value state.  A host keeps one copy of *)
(* a value (faabric's StateKeyValue), shared by its functions through       *)
(* buffers or mapped memory; pulls and pushes move it from and to the       *)
(* global state.                                                            *)
(*                                                                          *)
(* A value is a few chunks; a chunk's content is a number, so that an       *)
(* update is an increment and a lost update is seen.  The functions follow  *)
(* the discipline the interface is made for: an update is a read and a      *)
(* write under the write lock, and then a push; a chunk is changed on one   *)
(* host only; a value is written or pushed as a whole only where all of its *)
(* chunks are this host's.                                                  *)
(***************************************************************************)
EXTENDS Naturals, FiniteSets

CONSTANTS Fns,            \* functions that run
          HostOf,         \* [Fns -> hosts]
          OwnerOf,        \* [keys -> [chunks -> host]]
          MaxUpdates,     \* updates of one function
          AtStart         \* content of the global state at the start

VARIABLES kv,             \* StateKeyValue by host and key
          global,         \* global state by key and chunk
          appended,       \* values appended to a key
          fn,             \* where each function is in its update
          updates         \* updates made by key and chunk

stateVars == <<kv, global, appended, fn, updates>>

Hosts == {HostOf[f] : f \in Fns}
Keys == DOMAIN OwnerOf
Chunks(k) == DOMAIN OwnerOf[k]
Own(h, k) == {c \in Chunks(k) : OwnerOf[k][c] = h}
IsSole(h, k) == Own(h, k) = Chunks(k)

(* Every chunk is changed on a host where functions run.                    *)
ASSUME OwnersAreHosts ==
    /\ \A k \in Keys : \A c \in Chunks(k) : OwnerOf[k][c] \in Hosts
    /\ MaxUpdates \in Nat /\ AtStart \in Nat

NotUpdating == [at |-> "idle", key |-> "", chunk |-> 0, buffer |-> 0, ptr |-> FALSE, done |-> 0]

StateInit ==
    /\ kv = [h \in Hosts |-> [k \in Keys |->
               [val |-> [c \in Chunks(k) |-> 0], pulled |-> {}, dirty |-> FALSE,
                mask |-> {}, lock |-> {}]]]
    /\ global = [k \in Keys |-> [c \in Chunks(k) |-> AtStart]]
    /\ appended = [k \in Keys |-> 0]
    /\ fn = [f \in Fns |-> NotUpdating]
    /\ updates = [k \in Keys |-> [c \in Chunks(k) |-> 0]]

-----------------------------------------------------------------------------
(* faabric's StateKeyValue, from how the host functions use it.             *)
pull(v, k) == [v EXCEPT !.val = global[k], !.pulled = Chunks(k), !.dirty = FALSE, !.mask = {}]

(* A read fetches what has not been fetched.                                *)
get(v, k, cs) ==
    [v EXCEPT !.val = [c \in Chunks(k) |-> IF c \in cs \ v.pulled THEN global[k][c]
                                           ELSE v.val[c]],
              !.pulled = @ \cup cs]

setChunk(v, c, x) ==
    [v EXCEPT !.val[c] = x, !.pulled = @ \cup {c}, !.dirty = TRUE, !.mask = @ \cup {c}]

(* Writes the whole value.                                                  *)
set(v, k, c, x) ==
    [v EXCEPT !.val[c] = x, !.pulled = Chunks(k), !.dirty = TRUE]

Clean(v) == [v EXCEPT !.dirty = FALSE, !.mask = {}]

Push(h, k, cs) ==
    LET v == kv[h][k]
    IN /\ global' = IF v.dirty
                    THEN [global EXCEPT ![k] = [c \in Chunks(k) |->
                            IF c \in cs THEN v.val[c] ELSE global[k][c]]]
                    ELSE global
       /\ kv' = [kv EXCEPT ![h][k] = Clean(v)]

-----------------------------------------------------------------------------
At(f, p) == fn[f].at = p
H(f) == HostOf[f]
K(f) == fn[f].key
Value(f) == kv[H(f)][K(f)]
Goes(f, p) == fn' = [fn EXCEPT ![f].at = p]

(* The function begins an update of chunk c of key k.                       *)
lock_state_write_Shared(f, k, c) ==
    /\ At(f, "idle") /\ fn[f].done < MaxUpdates
    /\ c \in Own(H(f), k)
    /\ fn' = [fn EXCEPT ![f].at = "locked", ![f].key = k, ![f].chunk = c]
    /\ kv' = [kv EXCEPT ![H(f)][k].lock = @ \cup {<<"w", f>>}]
    /\ UNCHANGED <<global, appended, updates>>

lock_state_write(f, k, c) ==
    /\ At(f, "idle") /\ fn[f].done < MaxUpdates
    /\ c \in Own(H(f), k)
    /\ kv[H(f)][k].lock = {}
    /\ fn' = [fn EXCEPT ![f].at = "locked", ![f].key = k, ![f].chunk = c]
    /\ kv' = [kv EXCEPT ![H(f)][k].lock = {<<"w", f>>}]
    /\ UNCHANGED <<global, appended, updates>>

unlock_state_write(f) ==
    /\ At(f, "pushed")
    /\ fn' = [fn EXCEPT ![f] = [NotUpdating EXCEPT !.done = fn[f].done + 1]]
    /\ kv' = [kv EXCEPT ![H(f)][K(f)].lock = @ \ {<<"w", f>>}]
    /\ UNCHANGED <<global, appended, updates>>

(* Readers keep a writer out.                                               *)
lock_state_read(f, k) ==
    /\ At(f, "idle") /\ fn[f].done < MaxUpdates
    /\ \A l \in kv[H(f)][k].lock : l[1] = "r"
    /\ fn' = [fn EXCEPT ![f].at = "reads", ![f].key = k]
    /\ kv' = [kv EXCEPT ![H(f)][k].lock = @ \cup {<<"r", f>>}]
    /\ UNCHANGED <<global, appended, updates>>

unlock_state_read(f) ==
    /\ At(f, "reads")
    /\ fn' = [fn EXCEPT ![f] = [NotUpdating EXCEPT !.done = fn[f].done + 1]]
    /\ kv' = [kv EXCEPT ![H(f)][K(f)].lock = @ \ {<<"r", f>>}]
    /\ UNCHANGED <<global, appended, updates>>

(* A pull takes the global value, and drops what was not pushed.            *)
pull_state(f) ==
    /\ At(f, "locked")
    /\ kv' = [kv EXCEPT ![H(f)][K(f)] = pull(@, K(f))]
    /\ Goes(f, "pulled")
    /\ UNCHANGED <<global, appended, updates>>

Reads(f, v, isPtr) ==
    /\ kv' = [kv EXCEPT ![H(f)][K(f)] = v]
    /\ fn' = [fn EXCEPT ![f].at = "read", ![f].buffer = v.val[fn[f].chunk], ![f].ptr = isPtr]
    /\ UNCHANGED <<global, appended, updates>>

Locked(f) == At(f, "locked") \/ At(f, "pulled")

read_state(f) == Locked(f) /\ Reads(f, get(Value(f), K(f), Chunks(K(f))), FALSE)

read_state_offset(f) == Locked(f) /\ Reads(f, get(Value(f), K(f), {fn[f].chunk}), FALSE)

(* The value is mapped, and fetched before the pointer is returned.         *)
read_state_ptr(f) == Locked(f) /\ Reads(f, get(Value(f), K(f), Chunks(K(f))), TRUE)

read_state_offset_ptr(f) == Locked(f) /\ Reads(f, get(Value(f), K(f), {fn[f].chunk}), TRUE)

Writes(f, v, p) ==
    /\ kv' = [kv EXCEPT ![H(f)][K(f)] = v]
    /\ updates' = [updates EXCEPT ![K(f)][fn[f].chunk] = @ + 1]
    /\ Goes(f, p)
    /\ UNCHANGED <<global, appended>>

(* __faasm_write_state and __faasm_write_state_from_file.                   *)
write_state(f) ==
    /\ At(f, "read") /\ ~fn[f].ptr /\ IsSole(H(f), K(f))
    /\ Value(f).pulled = Chunks(K(f))
    /\ Writes(f, set(Value(f), K(f), fn[f].chunk, fn[f].buffer + 1), "full")

write_state_offset(f) ==
    /\ At(f, "read") /\ ~fn[f].ptr
    /\ Writes(f, setChunk(Value(f), fn[f].chunk, fn[f].buffer + 1), "chunk")

(* A store through the pointer, which the state does not see ...            *)
StoreThroughPtr(f) ==
    /\ At(f, "read") /\ fn[f].ptr
    /\ Writes(f, [Value(f) EXCEPT !.val[fn[f].chunk] = fn[f].buffer + 1], "stored")

(* ... until it is told.                                                    *)
flag_state_dirty(f) ==
    /\ At(f, "stored") /\ IsSole(H(f), K(f)) /\ Value(f).pulled = Chunks(K(f))
    /\ kv' = [kv EXCEPT ![H(f)][K(f)].dirty = TRUE]
    /\ Goes(f, "full")
    /\ UNCHANGED <<global, appended, updates>>

flag_state_offset_dirty(f) ==
    /\ At(f, "stored")
    /\ kv' = [kv EXCEPT ![H(f)][K(f)] =
                 [Value(f) EXCEPT !.dirty = TRUE, !.mask = @ \cup {fn[f].chunk}]]
    /\ Goes(f, "chunk")
    /\ UNCHANGED <<global, appended, updates>>

push_state(f) ==
    /\ At(f, "full") \/ (At(f, "chunk") /\ IsSole(H(f), K(f)) /\ Value(f).pulled = Chunks(K(f)))
    /\ Push(H(f), K(f), Chunks(K(f)))
    /\ Goes(f, "pushed")
    /\ UNCHANGED <<appended, updates>>

push_state_partial_Full(f) ==
    /\ At(f, "chunk")
    /\ Push(H(f), K(f), Chunks(K(f)))
    /\ Goes(f, "pushed")
    /\ UNCHANGED <<appended, updates>>

push_state_partial(f) ==
    /\ At(f, "chunk")
    /\ Push(H(f), K(f), Value(f).mask)
    /\ Goes(f, "pushed")
    /\ UNCHANGED <<appended, updates>>

(* The function keeps the mask of what it changed in a value of its own.    *)
push_state_partial_mask(f) ==
    /\ At(f, "chunk")
    /\ Push(H(f), K(f), {fn[f].chunk})
    /\ Goes(f, "pushed")
    /\ UNCHANGED <<appended, updates>>

(* Appending and clearing go to the global state at once.                   *)
append_state(f) ==
    /\ At(f, "reads") /\ appended[K(f)] < MaxUpdates
    /\ appended' = [appended EXCEPT ![K(f)] = @ + 1]
    /\ UNCHANGED <<kv, global, fn, updates>>

read_appended_state(f) == At(f, "reads") /\ UNCHANGED stateVars

clear_appended_state(f) ==
    /\ At(f, "reads") /\ appended[K(f)] > 0
    /\ appended' = [appended EXCEPT ![K(f)] = 0]
    /\ UNCHANGED <<kv, global, fn, updates>>

-----------------------------------------------------------------------------
StateStep(f) ==
    \/ \E k \in Keys : lock_state_read(f, k) \/ \E c \in Chunks(k) : lock_state_write(f, k, c)
    \/ unlock_state_write(f) \/ unlock_state_read(f)
    \/ pull_state(f) \/ read_state(f) \/ read_state_offset(f)
    \/ read_state_ptr(f) \/ read_state_offset_ptr(f)
    \/ write_state(f) \/ write_state_offset(f)
    \/ StoreThroughPtr(f) \/ flag_state_dirty(f) \/ flag_state_offset_dirty(f)
    \/ push_state(f) \/ push_state_partial(f) \/ push_state_partial_mask(f)
    \/ append_state(f) \/ read_appended_state(f) \/ clear_appended_state(f)

StateNext == \E f \in Fns : StateStep(f)

-----------------------------------------------------------------------------
StateTypeOK ==
    /\ \A h \in Hosts, k \in Keys : /\ kv[h][k].pulled \subseteq Chunks(k)
                                    /\ kv[h][k].mask \subseteq Chunks(k)
                                    /\ DOMAIN kv[h][k].val = Chunks(k)
    /\ \A f \in Fns : fn[f].done \in 0 .. MaxUpdates

(* An update made under the write lock is never lost: the copy of the host  *)
(* that changes a chunk counts every update, also those of other functions  *)
(* of the host, made through buffers or through mapped memory, and on top   *)
(* of what the global state held.                                           *)
LockedUpdatesAreKept ==
    \A k \in Keys : \A c \in Chunks(k) :
       LET v == kv[OwnerOf[k][c]][k]
       IN c \in v.pulled => v.val[c] = AtStart + updates[k][c]

(* Once a function has pushed, the global state has its update, and hosts   *)
(* that push their own chunks of the same value leave it alone.             *)
PushesReachGlobal ==
    \A k \in Keys : \A c \in Chunks(k) :
       kv[OwnerOf[k][c]][k].lock = {} => global[k][c] = AtStart + updates[k][c]
=============================================================================
