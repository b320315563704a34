---------------------------- MODULE PthreadBatch -----------------------------
(***************************************************************************)
(* pthreads of a WasmModule.  pthread_create only queues a call; the first *)
(* pthread_join runs all that is queued as one batch of THREADS tasks and  *)
(* keeps the results.  Each task takes a stack by its place in the thread  *)
(* pool, adding stacks to a vector no lock protects, and may lock guest    *)
(* mutexes that are made on first use.                                     *)
(***************************************************************************)
EXTENDS Integers, Sequences, FiniteSets

CONSTANTS
    Pthreads,       \* pointers to the guest's pthread structs
    Mutexes,        \* guest addresses of pthread mutexes
    MaxCreates,     \* how many pthreads the guest creates
    MaxBatch,       \* the size of the thread pool besides the main thread
    Absent

ASSUME PthreadBounds == MaxCreates \in Nat /\ MaxBatch \in Nat /\ Absent \notin Nat

VARIABLES
    queued,         \* queuedPthreadCalls: <<pthread, call>> in order
    chained,        \* pthreadPtrsToChainedCalls
    results,        \* lastPthreadResults: <<call, value>>; call n returns n
    creates,        \* calls made so far; the last one's message id
    live,           \* the call a pthread struct stands for, to the guest
    creator, joining,  \* what the main thread does, and on which pthread
    joined,         \* outcomes of joins: what was wanted, what came back
    mixed,          \* history: a pthread was created between joins of a batch
    tasks,          \* the tasks of the running batch by place in the pool
    threadStacks,   \* the vector's memory: stacks, first to last
    stackEnd,       \* and its size
    stackCount,     \* stacks made in memory
    pthreadLocks,   \* guest mutex |-> the std::mutex made for it
    held            \* std::mutex objects made so far |-> task that holds it

creatorVars == <<queued, chained, results, creates, live, creator, joining, joined, mixed>>
taskVars == <<threadStacks, stackEnd, stackCount, pthreadLocks, held>>
pthreadVars == <<creatorVars, tasks, taskVars>>

Places == 1..MaxBatch
NoTask == [call |-> Absent, pc |-> "none", stack |-> Absent, slot |-> 0, mx |-> Absent, lock |-> Absent, try |-> FALSE]

PthreadInit ==
    /\ queued = <<>> /\ chained = [p \in Pthreads |-> Absent] /\ results = {}
    /\ creates = 0 /\ live = [p \in Pthreads |-> Absent]
    /\ creator = "running" /\ joining = Absent /\ joined = {} /\ mixed = FALSE
    /\ tasks = [i \in Places |-> NoTask]
    /\ threadStacks = <<>> /\ stackEnd = 0 /\ stackCount = 0
    /\ pthreadLocks = [m \in Mutexes |-> Absent] /\ held = <<>>

(***************************************************************************)
(* The main thread                                                         *)
(***************************************************************************)
(* The comment in queuePthreadCall assumes that all calls are queued       *)
(* before the first await; mixed says whether the guest keeps to that.     *)
pthread_create(p) ==
    /\ creator = "running"
    /\ live[p] = Absent
    /\ creates < MaxCreates /\ Len(queued) < MaxBatch
    /\ creates' = creates + 1
    /\ mixed' = (mixed \/ \E q \in Pthreads : chained[q] # Absent)
    /\ live' = [live EXCEPT ![p] = creates']
    /\ queued' = Append(queued, <<p, creates'>>)
    /\ UNCHANGED <<chained, results, creator, joining, joined, tasks, taskVars>>

(* awaitPthreadCall: a batch of what is queued is handed to the executor;  *)
(* a pthread that is in the map already keeps its old call.                *)
pthread_join(p) ==
    /\ creator = "running"
    /\ live[p] # Absent
    /\ joining' = p
    /\ \/ /\ queued # <<>>
          /\ chained' = [q \in Pthreads |->
                IF chained[q] = Absent /\ \E i \in DOMAIN queued : queued[i][1] = q
                THEN queued[CHOOSE i \in DOMAIN queued : queued[i][1] = q][2]
                ELSE chained[q]]
          /\ tasks' = [i \in Places |->
                IF i \in DOMAIN queued
                THEN [NoTask EXCEPT !.call = queued[i][2], !.pc = "enter"]
                ELSE NoTask]
          /\ creator' = "batch"
       \/ /\ queued = <<>>
          /\ creator' = "result"
          /\ UNCHANGED <<chained, tasks>>
    /\ UNCHANGED <<queued, results, creates, live, joined, mixed, taskVars>>

(* executeThreads returns with one result per task. *)
BatchReturns ==
    /\ creator = "batch"
    /\ \A i \in Places : tasks[i].pc \in {"none", "done"}
    /\ results' = {<<tasks[i].call, tasks[i].call>> : i \in {j \in Places : tasks[j].pc = "done"}}
    /\ queued' = <<>>
    /\ tasks' = [i \in Places |-> NoTask]
    /\ creator' = "result"
    /\ UNCHANGED <<chained, creates, live, joining, joined, mixed, taskVars>>

(* Mutant: the results are dropped as soon as one of them is taken. *)
JoinReturns_ClearsEarly ==
    /\ creator = "result"
    /\ \E r \in results :
          /\ r[1] = chained[joining]
          /\ joined' = joined \cup {<<live[joining], r[2]>>}
    /\ chained' = [chained EXCEPT ![joining] = Absent]
    /\ results' = {}
    /\ live' = [live EXCEPT ![joining] = Absent]
    /\ joining' = Absent
    /\ creator' = "running"
    /\ UNCHANGED <<queued, creates, mixed, tasks, taskVars>>

(* The result of this pthread's call is looked up and its entry dropped;   *)
(* the results go when no entry is left.                                   *)
JoinReturns ==
    /\ creator = "result"
    /\ \E r \in results :
          /\ r[1] = chained[joining]
          /\ joined' = joined \cup {<<live[joining], r[2]>>}
    /\ chained' = [chained EXCEPT ![joining] = Absent]
    /\ results' = IF \A p \in Pthreads : chained'[p] = Absent THEN {} ELSE results
    /\ live' = [live EXCEPT ![joining] = Absent]
    /\ joining' = Absent
    /\ creator' = "running"
    /\ UNCHANGED <<queued, creates, mixed, tasks, taskVars>>

(* "Result not found for pthread": the function fails. *)
JoinThrows ==
    /\ creator = "result"
    /\ \A r \in results : r[1] # chained[joining]
    /\ creator' = "failed"
    /\ UNCHANGED <<queued, chained, results, creates, live, joining, joined, mixed, tasks, taskVars>>

(***************************************************************************)
(* The tasks of a batch                                                    *)
(***************************************************************************)
At(i, pc) == tasks[i].pc = pc
GoTo(i, pc) == tasks' = [tasks EXCEPT ![i].pc = pc]

(* executeTask: the module is expected to have a stack. *)
EnterTask(i) ==
    /\ At(i, "enter")
    /\ GoTo(i, "stack")
    /\ UNCHANGED <<creatorVars, taskVars>>

(* Mutant: every task takes the last stack. *)
TakeStack_Last(i) ==
    /\ At(i, "stack")
    /\ stackEnd > i
    /\ tasks' = [tasks EXCEPT ![i].pc = "lookup",
                              ![i].stack = threadStacks[stackEnd]]
    /\ UNCHANGED <<creatorVars, taskVars>>

(* The vector is long enough for this place in the pool (the main thread   *)
(* has place 0, so that place i is element i + 1).                         *)
TakeStack(i) ==
    /\ At(i, "stack")
    /\ stackEnd > i
    /\ tasks' = [tasks EXCEPT ![i].pc = "lookup", ![i].stack = threadStacks[i + 1]]
    /\ UNCHANGED <<creatorVars, taskVars>>

(* addThreadStack grows memory under moduleMutex ...                       *)
GrowForStack(i) ==
    /\ At(i, "stack")
    /\ stackEnd <= i
    /\ stackCount' = stackCount + 1
    /\ tasks' = [tasks EXCEPT ![i].pc = "push", ![i].stack = stackCount']
    /\ UNCHANGED <<creatorVars, threadStacks, stackEnd, pthreadLocks, held>>

(* ... and appends to the vector under no lock: it is written at the end   *)
(* and the end then moved, so that two tasks may write the same element    *)
(* and the end may move back.                                              *)
PushReads(i) ==
    /\ At(i, "push")
    /\ tasks' = [tasks EXCEPT ![i].pc = "pushed", ![i].slot = stackEnd]
    /\ UNCHANGED <<creatorVars, taskVars>>

PushWrites(i) ==
    /\ At(i, "pushed")
    /\ threadStacks' = [k \in (DOMAIN threadStacks) \cup {tasks[i].slot + 1} |->
                          IF k = tasks[i].slot + 1 THEN tasks[i].stack ELSE threadStacks[k]]
    /\ stackEnd' = tasks[i].slot + 1
    /\ tasks' = [tasks EXCEPT ![i].pc = "stack", ![i].slot = 0, ![i].stack = Absent]
    /\ UNCHANGED <<creatorVars, stackCount, pthreadLocks, held>>

(* executePthread: a guest thread that locks no mutex ... *)
RunPlain(i) ==
    /\ At(i, "lookup")
    /\ GoTo(i, "done")
    /\ UNCHANGED <<creatorVars, taskVars>>

(* ... or one, by lock or trylock: getOrCreatePthreadMutex looks it up     *)
(* under a shared lock.                                                    *)
FindMutex(i, m, try) ==
    /\ At(i, "lookup")
    /\ tasks' = [tasks EXCEPT ![i].mx = m, ![i].try = try, ![i].lock = pthreadLocks[m],
                              ![i].pc = IF pthreadLocks[m] = Absent THEN "create" ELSE "lock"]
    /\ UNCHANGED <<creatorVars, taskVars>>

CreateMutex(i) ==
    LET m == tasks[i].mx
    IN /\ At(i, "create")
       /\ \/ /\ pthreadLocks[m] # Absent
             /\ UNCHANGED <<pthreadLocks, held>>
          \/ /\ pthreadLocks[m] = Absent
             /\ held' = Append(held, Absent)
             /\ pthreadLocks' = [pthreadLocks EXCEPT ![m] = Len(held')]
       /\ tasks' = [tasks EXCEPT ![i].lock = pthreadLocks'[m], ![i].pc = "lock"]
       /\ UNCHANGED <<creatorVars, threadStacks, stackEnd, stackCount>>

LockMutex(i) ==
    /\ At(i, "lock")
    /\ held[tasks[i].lock] = Absent
    /\ held' = [held EXCEPT ![tasks[i].lock] = i]
    /\ GoTo(i, "locked")
    /\ UNCHANGED <<creatorVars, threadStacks, stackEnd, stackCount, pthreadLocks>>

(* pthread_mutex_trylock of a mutex that is held: EBUSY, the guest goes on *)
(* without it.                                                             *)
TrylockBusy(i) ==
    /\ At(i, "lock")
    /\ tasks[i].try
    /\ held[tasks[i].lock] # Absent
    /\ GoTo(i, "done")
    /\ UNCHANGED <<creatorVars, taskVars>>

(* Mutant: unlocking does nothing. *)
UnlockMutex_Stub(i) ==
    /\ At(i, "locked")
    /\ GoTo(i, "done")
    /\ UNCHANGED <<creatorVars, taskVars>>

UnlockMutex(i) ==
    /\ At(i, "locked")
    /\ held' = [held EXCEPT ![tasks[i].lock] = Absent]
    /\ GoTo(i, "done")
    /\ UNCHANGED <<creatorVars, threadStacks, stackEnd, stackCount, pthreadLocks>>

(* Calls that only say success: the guest's thread goes on.  pthread_exit  *)
(* does not end it, and a condition variable wakes no one.                 *)
NoEffect(i) == At(i, "lookup") /\ UNCHANGED pthreadVars

pthread_exit(i) == NoEffect(i)
pthread_mutex_init(i) == NoEffect(i)
StubbedPthreads(i) == NoEffect(i)

Task(i) ==
    \/ EnterTask(i) \/ TakeStack(i) \/ GrowForStack(i) \/ PushReads(i) \/ PushWrites(i)
    \/ RunPlain(i) \/ CreateMutex(i) \/ LockMutex(i) \/ TrylockBusy(i) \/ UnlockMutex(i)
    \/ \E m \in Mutexes, try \in BOOLEAN : FindMutex(i, m, try)
    \/ pthread_exit(i) \/ pthread_mutex_init(i) \/ StubbedPthreads(i)

PthreadNext ==
    \/ \E p \in Pthreads : pthread_create(p) \/ pthread_join(p)
    \/ BatchReturns \/ JoinReturns \/ JoinThrows
    \/ \E i \in Places : Task(i)

(* The host's threads keep running, and so does the guest they run.        *)
PthreadFairness ==
    /\ WF_pthreadVars(BatchReturns) /\ WF_pthreadVars(JoinReturns) /\ WF_pthreadVars(JoinThrows)
    /\ \A i \in Places : WF_pthreadVars(Task(i))

(***************************************************************************)
(* Properties                                                              *)
(***************************************************************************)
(* Every variable has its type; an element of threadStacks is a stack that *)
(* was made, and a guest mutex stands for a std::mutex that was made.      *)
PthreadTypeOK ==
    /\ \A i \in DOMAIN queued : queued[i] \in Pthreads \X (1..creates)
    /\ chained \in [Pthreads -> (1..creates) \cup {Absent}]
    /\ live \in [Pthreads -> (1..creates) \cup {Absent}]
    /\ creator \in {"running", "batch", "result", "failed"}
    /\ \A i \in Places : tasks[i].pc \in {"none", "enter", "stack", "push", "pushed",
                                          "lookup", "create", "lock", "locked", "done"}
    /\ \A k \in DOMAIN threadStacks : threadStacks[k] \in 1..stackCount
    /\ pthreadLocks \in [Mutexes -> DOMAIN held \cup {Absent}]

(* Two threads that run at once never run on the same wasm stack, however  *)
(* their unlocked appends to threadStacks interleave.                      *)
StacksDistinct ==
    \A i, j \in Places :
       /\ {tasks[i].pc, tasks[j].pc} \subseteq {"lookup", "create", "lock", "locked"}
       /\ tasks[i].stack = tasks[j].stack
       => i = j

(* "Faasm supports simple creation and joining of pthreads": a join gets   *)
(* the value its pthread returned, never that of another call or of an     *)
(* earlier pthread in the same struct; and it finds a value, as long as    *)
(* the guest creates no pthread between the joins of a batch.              *)
JoinGetsItsResult ==
    /\ \A r \in joined : r[1] = r[2]
    /\ creator = "failed" => mixed

(* "Modules must have provisioned their own thread stacks": the assertion  *)
(* in executeTask before it takes a stack.                                 *)
StacksProvisioned == \A i \in Places : At(i, "enter") => stackEnd > 0

(* A join ends: the batch it waits for always finishes.                    *)
JoinEnds == (creator = "batch") ~> (creator \in {"running", "failed"})
=============================================================================
