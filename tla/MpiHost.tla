------------------------------- MODULE MpiHost -------------------------------
(***************************************************************************)
(* The MPI host interface (wavm/mpi.cpp) and the migration of a rank to     *)
(* another host (__faasm_migrate_point).  A job is a call that creates an   *)
(* MPI world; the world's other ranks are calls the world chains.  All      *)
(* ranks make the same sequence of MPI calls, chosen as the job goes on.    *)
(* MpiWorld is part of faabric: it is modelled by what the host functions   *)
(* ask of it, mail in order between two ranks and exchanges of buffers.     *)
(***************************************************************************)
EXTENDS Integers, Sequences, FiniteSets

CONSTANTS NRanks,       \* size of a world
          Pool,         \* the executors' threads
          MaxMpiCalls,  \* MPI calls the programs make before MPI_Finalize
          MaxJobs,      \* worlds
          Byte,         \* number of values of a U8
          InPlace,      \* FAABRIC_IN_PLACE
          Addresses,    \* addresses the program passes as send buffer
          Movable,      \* ranks the scheduler may move to another host
          NoCtx,        \* a thread without a ContextWrapper
          Unsent        \* no buffer yet

Ranks == 0 .. NRanks - 1
MaxTasks == MaxJobs * NRanks + 1

Rooted == {"MPI_Bcast", "MPI_Scatter", "MPI_Gather", "MPI_Reduce"}
WithInPlace == {"MPI_Gather", "MPI_Allgather", "MPI_Reduce", "MPI_Allreduce", "MPI_Scan"}
OtherCalls == {"MPI_Bcast", "MPI_Scatter", "MPI_Alltoall", "MPI_Barrier",
               "MPI_Send", "MPI_Probe", "MPI_Sendrecv", "MPI_Irecv",
               "MPI_Finalize", "migrate_point", "refused"}

CollectiveCalls == Rooted \cup WithInPlace \cup {"MPI_Alltoall", "MPI_Barrier"}

(* A call of the program; a "refused" one is a call with a communicator     *)
(* that is not MPI_COMM_WORLD, or a call of a function that only throws.    *)
MpiCalls == {c \in [op : WithInPlace \cup OtherCalls, root : Ranks,
                 send : Addresses] :
            /\ c.op \in Rooted \/ c.root = 0
            /\ c.op \in WithInPlace \/ c.send = CHOOSE a \in Addresses : a # InPlace}

VARIABLES program,   \* the calls chosen so far, of all jobs
          task,      \* the calls (faabric::Message) of all ranks
          ctx,       \* thread-local executingContext and ctx
          world,     \* the worlds of the registry
          moved      \* a call has been migrated

mpiVars == <<program, task, ctx, world, moved>>

Buffer == [Ranks -> SUBSET (Ranks \X (1 .. MaxMpiCalls + MaxJobs) \X Ranks)]
NoItems == [j \in Ranks |-> {}]

(* The contents a rank prepares for the k-th call, an item for every rank.  *)
Fill(r, k) == [j \in Ranks |-> {<<r, k, j>>}]

NewTask(rank, w, at) ==
    [st |-> "queued", rank |-> rank, world |-> w, at |-> at, step |-> "init",
     thread |-> NoCtx, me |-> 0, send |-> NoItems, recv |-> NoItems,
     req |-> <<0, 0, 0>>, did |-> 0]

NewWorld ==
    [given |-> [k \in 1 .. MaxMpiCalls + MaxJobs |-> [r \in Ranks |-> Unsent]],
     mail  |-> [r \in Ranks |-> [q \in Ranks |-> <<>>]]]

MpiInit ==
    /\ program = <<>>
    /\ task = <<>>
    /\ ctx = [t \in Pool |-> NoCtx]
    /\ world = <<>>
    /\ moved = FALSE

-----------------------------------------------------------------------------
(* What the host functions use: the world and the rank of the thread's      *)
(* ContextWrapper.                                                          *)
W(i) == ctx[task[i].thread].world
R(i) == ctx[task[i].thread].rank
Op(i) == program[task[i].at]
Given(i) == world[W(i)].given[task[i].at]
Next1(r) == (r + 1) % NRanks
Prev1(r) == (r + NRanks - 1) % NRanks

RankAt(i, step) == i \in DOMAIN task /\ task[i].st = "running" /\ task[i].step = step
Calling(i, op, step) ==
    RankAt(i, step) /\ task[i].at \in DOMAIN program /\ Op(i).op = op

ToStep(i, step) == task' = [task EXCEPT ![i].step = step]

(* The host function returned: the guest goes on with the next call.        *)
Returned(i, recv) ==
    task' = [task EXCEPT ![i].step = "begin", ![i].at = @ + 1,
                         ![i].recv = recv, ![i].did = task[i].at]

(* Reference: what MPI promises of the receive buffer of rank r after the   *)
(* k-th call; the set of the contents it may have.                          *)
Expected(k, r) ==
    LET c == program[k]
        first == [NoItems EXCEPT ![0] = {<<Prev1(r), k, 0>>}]
        own(q) == IF c.send = InPlace /\ (c.op = "MPI_Allgather" \/ q = c.root)
                  THEN q ELSE 0
    IN CASE c.op \in {"MPI_Send", "MPI_Probe", "MPI_Sendrecv"} -> first
         [] c.op = "MPI_Irecv" -> [first EXCEPT ![1] = {<<Prev1(r), k, 1>>}]
         [] c.op = "MPI_Bcast" -> Fill(c.root, k)
         [] c.op = "MPI_Scatter" -> [NoItems EXCEPT ![0] = {<<c.root, k, r>>}]
         [] c.op \in {"MPI_Gather", "MPI_Allgather"} ->
                [j \in Ranks |-> {<<j, k, own(j)>>}]
         [] c.op \in {"MPI_Reduce", "MPI_Allreduce"} ->
                [j \in Ranks |-> {<<q, k, j>> : q \in Ranks}]
         [] c.op = "MPI_Scan" -> [j \in Ranks |-> {<<q, k, j>> : q \in 0 .. r}]
         [] c.op = "MPI_Alltoall" -> [j \in Ranks |-> {<<j, k, r>>}]
         [] OTHER -> NoItems

AllEnded == \A i \in DOMAIN task : task[i].st \in {"done", "failed", "migrated"}

-----------------------------------------------------------------------------
(* An application asks for a job, once the previous one is over.            *)
CallFunction ==
    /\ Len(world) < MaxJobs
    /\ AllEnded
    /\ task' = Append(task, NewTask(0, 0, Len(program) + 1))
    /\ UNCHANGED <<program, ctx, world, moved>>

(* An executor's thread takes a queued call.                                *)
ExecuteTask(i) ==
    /\ i \in DOMAIN task /\ task[i].st = "queued"
    /\ \E t \in Pool :
          /\ \A j \in DOMAIN task : task[j].st = "running" => task[j].thread # t
          /\ task' = [task EXCEPT ![i].st = "running", ![i].thread = t]
    /\ UNCHANGED <<program, ctx, world, moved>>

(* MpiWorld::create: a world, and a call for each of its other ranks.       *)
CreateWorld(i) ==
    /\ world' = Append(world, NewWorld)
    /\ task' = [task EXCEPT ![i].world = Len(world) + 1, ![i].step = "rank"]
               \o [n \in 1 .. NRanks - 1 |->
                     NewTask(n, Len(world) + 1, task[i].at)]

ContextWrapper(i, w) ==
    ctx' = [ctx EXCEPT ![task[i].thread] =
               [module |-> task[i].thread, world |-> w, rank |-> task[i].rank]]

MPI_Init_KeepsCtx(i) ==
    /\ RankAt(i, "init")
    /\ IF task[i].rank <= 0 THEN CreateWorld(i) ELSE ToStep(i, "rank") /\ UNCHANGED world
    /\ IF ctx[task[i].thread] # NoCtx THEN UNCHANGED ctx
       ELSE ContextWrapper(i, task'[i].world)
    /\ UNCHANGED <<program, moved>>

MPI_Init(i) ==
    /\ RankAt(i, "init")
    /\ IF task[i].rank <= 0 THEN CreateWorld(i) ELSE ToStep(i, "rank") /\ UNCHANGED world
    /\ ContextWrapper(i, task'[i].world)
    /\ UNCHANGED <<program, moved>>

(* The guest learns its rank, and uses it from now on.                      *)
MPI_Comm_rank(i) ==
    /\ RankAt(i, "rank")
    /\ task' = [task EXCEPT ![i].me = R(i), ![i].step = "begin"]
    /\ UNCHANGED <<program, ctx, world, moved>>

(* The guest gets to its next call and prepares the buffers for it.  One    *)
(* collective call in a program is enough: each has buffers of its own.     *)
Prepare(i) ==
    /\ RankAt(i, "begin")
    /\ LET k == task[i].at
           r == task[i].me
       IN \E c \in MpiCalls :
            /\ IF k <= Len(program) THEN c = program[k] /\ UNCHANGED program
               ELSE /\ Len(program) < MaxMpiCalls \/ c.op = "MPI_Finalize"
                    /\ c.op \in CollectiveCalls =>
                          \A j \in DOMAIN program : program[j].op \notin CollectiveCalls
                    /\ program' = Append(program, c)
            /\ task' = [task EXCEPT
                  ![i].step = IF c.op = "MPI_Irecv" THEN "irecv" ELSE "call",
                  ![i].send = IF c.op = "migrate_point" THEN @ ELSE Fill(r, k),
                  ![i].recv = CASE c.op = "migrate_point" -> @
                                [] \/ c.send = InPlace /\ (c.op \notin Rooted \/ r = c.root)
                                   \/ c.op = "MPI_Bcast" -> Fill(r, k)
                                [] OTHER -> NoItems,
                  ![i].did = IF c.op = "migrate_point" THEN @ ELSE 0]
    /\ UNCHANGED <<ctx, world, moved>>

(* The send buffer as an address: only the root of a rooted call may say    *)
(* MPI_IN_PLACE.                                                            *)
Address(i) ==
    IF Op(i).send = InPlace /\ Op(i).op \in Rooted /\ task[i].me # Op(i).root
    THEN CHOOSE a \in Addresses : a # InPlace ELSE Op(i).send

(* isInPlace takes its argument as a U8.                                    *)
isInPlace(wasmPtr) == wasmPtr % Byte = InPlace

SendBuffer(i) == IF isInPlace(Address(i)) THEN task[i].recv ELSE task[i].send

-----------------------------------------------------------------------------
(* Collective calls: a rank hands its buffer to the world, waits for the    *)
(* buffers of the ranks in needs and gets its receive buffer.               *)
Collective(i, op, gives, needs, gets) ==
    /\ \/ /\ Calling(i, op, "call")
          /\ world' = [world EXCEPT ![W(i)].given[task[i].at][R(i)] = gives]
          /\ ToStep(i, "wait")
       \/ /\ Calling(i, op, "wait")
          /\ \A q \in needs : Given(i)[q] # Unsent
          /\ Returned(i, gets)
          /\ UNCHANGED world
    /\ UNCHANGED <<program, ctx, moved>>

AtRoot(i, s) == IF task[i].me = Op(i).root THEN s ELSE {}

MPI_Bcast(i) ==
    Collective(i, "MPI_Bcast", task[i].recv, {Op(i).root}, Given(i)[Op(i).root])

MPI_Barrier(i) ==
    Collective(i, "MPI_Barrier", NoItems, Ranks, task[i].recv)

MPI_Scatter(i) ==
    Collective(i, "MPI_Scatter", task[i].send, {Op(i).root},
               [NoItems EXCEPT ![0] = Given(i)[Op(i).root][R(i)]])

(* The item of this rank; in place it is already where it belongs.          *)
Contribution(i) ==
    [NoItems EXCEPT ![0] = SendBuffer(i)[IF isInPlace(Address(i)) THEN R(i) ELSE 0]]

MPI_Gather(i) ==
    Collective(i, "MPI_Gather", Contribution(i), AtRoot(i, Ranks),
               IF R(i) = Op(i).root THEN [j \in Ranks |-> Given(i)[j][0]] ELSE task[i].recv)

MPI_Allgather(i) ==
    Collective(i, "MPI_Allgather", Contribution(i), Ranks,
               [j \in Ranks |-> Given(i)[j][0]])

ReductionOf(c, ranks) == [j \in Ranks |-> UNION {c[q][j] : q \in ranks}]

MPI_Reduce(i) ==
    Collective(i, "MPI_Reduce", SendBuffer(i), AtRoot(i, Ranks),
               IF R(i) = Op(i).root THEN ReductionOf(Given(i), Ranks) ELSE task[i].recv)

MPI_Allreduce(i) ==
    Collective(i, "MPI_Allreduce", SendBuffer(i), Ranks, ReductionOf(Given(i), Ranks))

MPI_Scan(i) ==
    Collective(i, "MPI_Scan", SendBuffer(i), 0 .. R(i),
               ReductionOf(Given(i), 0 .. R(i)))

MPI_Alltoall(i) ==
    Collective(i, "MPI_Alltoall", task[i].send, Ranks,
               [j \in Ranks |-> Given(i)[j][R(i)]])

(* The host function throws: the call ends with an error, and its thread    *)
(* keeps the context.  The other ranks go on, and end on their own calls.   *)
Refused(i) ==
    /\ Calling(i, "refused", "call")
    /\ task' = [task EXCEPT ![i].st = "failed"]
    /\ UNCHANGED <<program, ctx, world, moved>>

checkMpiComm(i) == Refused(i)

(* The functions of the interface that are not implemented.                 *)
MPI_Get_version(i) == Refused(i)
MPI_Comm_dup(i) == Refused(i)
MPI_Comm_split(i) == Refused(i)
MPI_Rsend(i) == Refused(i)
MPI_Waitall(i) == Refused(i)
MPI_Allgatherv(i) == Refused(i)
MPI_Reduce_scatter(i) == Refused(i)
MPI_Alltoallv(i) == Refused(i)
MPI_Op_create(i) == Refused(i)
MPI_Win_create(i) == Refused(i)
MPI_Request_free(i) == Refused(i)
MPI_Type_free(i) == Refused(i)

NotImplemented(i) ==
    \/ MPI_Get_version(i) \/ MPI_Comm_dup(i) \/ MPI_Comm_split(i) \/ MPI_Rsend(i)
    \/ MPI_Waitall(i) \/ MPI_Allgatherv(i) \/ MPI_Reduce_scatter(i)
    \/ MPI_Alltoallv(i) \/ MPI_Op_create(i) \/ MPI_Win_create(i)
    \/ MPI_Request_free(i) \/ MPI_Type_free(i)

(* Functions that say MPI_SUCCESS and do nothing.                           *)
DoesNothing(i) == RankAt(i, "begin") /\ UNCHANGED mpiVars

MPI_Comm_free(i) == DoesNothing(i)
MPI_Free_mem(i) == DoesNothing(i)
MPI_Type_contiguous(i) == DoesNothing(i)
MPI_Type_commit(i) == DoesNothing(i)

-----------------------------------------------------------------------------
(* Point to point, in a ring: every rank sends to the next and receives     *)
(* from the previous one.                                                   *)
Post(i, item) ==
    world' = [world EXCEPT ![W(i)].mail[R(i)][Next1(task[i].me)] =
                 Append(@, task[i].send[item])]

Inbox(i) == world[W(i)].mail[Prev1(task[i].me)][R(i)]
TakeFrom(i, n) ==
    world' = [world EXCEPT ![W(i)].mail[Prev1(task[i].me)][R(i)] = SubSeq(@, n + 1, Len(@))]

MPI_Send(i) ==
    /\ \E op \in {"MPI_Send", "MPI_Probe"} :
          /\ Calling(i, op, "call")
          /\ ToStep(i, IF op = "MPI_Probe" THEN "probe" ELSE "recv")
    /\ Post(i, 0)
    /\ UNCHANGED <<program, ctx, moved>>

MPI_Probe(i) ==
    /\ Calling(i, "MPI_Probe", "probe")
    /\ Inbox(i) # <<>>
    /\ ToStep(i, "recv")
    /\ UNCHANGED <<program, ctx, world, moved>>

MPI_Recv(i) ==
    /\ RankAt(i, "recv")
    /\ Inbox(i) # <<>>
    /\ TakeFrom(i, 1)
    /\ Returned(i, [task[i].recv EXCEPT ![0] = Inbox(i)[1]])
    /\ UNCHANGED <<program, ctx, moved>>

(* One host call: it sends and then waits, in MpiWorld::sendRecv.           *)
MPI_Sendrecv(i) ==
    /\ Calling(i, "MPI_Sendrecv", "call")
    /\ Post(i, 0)
    /\ ToStep(i, "recv")
    /\ UNCHANGED <<program, ctx, moved>>

(* The id of a request is kept in the guest's request pointer.  Requests    *)
(* are numbered as they are made: 1 and 2 receive, 3 sends.                 *)
writeFaasmRequestId_First(i, requestPtrPtr, requestId) ==
    [task[i].req EXCEPT ![IF requestPtrPtr = 2 THEN 1 ELSE requestPtrPtr] = requestId]

writeFaasmRequestId(i, requestPtrPtr, requestId) ==
    [task[i].req EXCEPT ![requestPtrPtr] = requestId]

(* Two receives are posted, for the first two items of the buffer.          *)
MPI_Irecv(i) ==
    /\ \E p \in {1, 2} :
          /\ Calling(i, "MPI_Irecv", IF p = 1 THEN "irecv" ELSE "irecv2")
          /\ task' = [task EXCEPT ![i].req = writeFaasmRequestId(i, p, p),
                                  ![i].step = IF p = 1 THEN "irecv2" ELSE "isend"]
    /\ UNCHANGED <<program, ctx, world, moved>>

(* The first item is sent and then, by another call, the second.            *)
MPI_Isend(i) ==
    /\ \/ /\ Calling(i, "MPI_Irecv", "isend")
          /\ Post(i, 0)
          /\ ToStep(i, "isend2")
       \/ /\ Calling(i, "MPI_Irecv", "isend2")
          /\ Post(i, 1)
          /\ task' = [task EXCEPT ![i].req = writeFaasmRequestId(i, 3, 3),
                                  ![i].step = "waits"]
    /\ UNCHANGED <<program, ctx, moved>>

(* MpiWorld::awaitAsyncRequest: receives posted earlier get their messages  *)
(* first.  A request that was received along with a later one is complete.  *)
Pending(i) == {id \in {1, 2} : task[i].recv[id - 1] = {}}

MPI_Wait(i) ==
    /\ Calling(i, "MPI_Irecv", "waits")
    /\ \E p \in {q \in 1 .. 3 : task[i].req[q] # -1} :
          LET id == task[i].req[p]
              due == {q \in Pending(i) : q <= id}
              n == Cardinality(due)
              low == CHOOSE q \in due : \A q2 \in due : q <= q2
              recv == [j \in Ranks |-> IF id \in {1, 2} /\ j + 1 \in due
                                       THEN Inbox(i)[j + 2 - low] ELSE task[i].recv[j]]
              req == [task[i].req EXCEPT ![p] = -1]
          IN /\ id # 0
             /\ id \in {1, 2} => Len(Inbox(i)) >= n
             /\ IF id \in {1, 2} THEN TakeFrom(i, n) ELSE UNCHANGED world
             /\ IF req = <<-1, -1, -1>>
                THEN task' = [task EXCEPT ![i].step = "begin", ![i].at = @ + 1,
                                          ![i].recv = recv, ![i].did = task[i].at,
                                          ![i].req = <<0, 0, 0>>]
                ELSE task' = [task EXCEPT ![i].recv = recv, ![i].req = req]
    /\ UNCHANGED <<program, ctx, moved>>

-----------------------------------------------------------------------------
(* MPI_Finalize and MPI_Abort: the world is left and the context dropped.   *)
terminateMpi(i) ==
    /\ Calling(i, "MPI_Finalize", "call")
    /\ ctx' = [ctx EXCEPT ![task[i].thread] = NoCtx]
    /\ task' = [task EXCEPT ![i].st = "done"]
    /\ UNCHANGED <<program, world, moved>>

(* The message that goes on elsewhere: it starts at the entry point, which  *)
(* calls MPI_Init again, with the memory of the snapshot.                   *)
Migrated(i) ==
    [NewTask(task[i].rank, task[i].world, task[i].at + 1) EXCEPT
        !.send = task[i].send, !.recv = task[i].recv, !.did = task[i].did]

(* The scheduler may have found a better host for this call by the time it  *)
(* looks; one migration at most, as each needs another call.                *)
faasm_migrate_point(i) ==
    /\ Calling(i, "migrate_point", "call")
    /\ \/ /\ task' = [task EXCEPT ![i].step = "begin", ![i].at = @ + 1]
          /\ UNCHANGED moved
       \/ /\ ~moved /\ task[i].rank \in Movable
          /\ task' = Append([task EXCEPT ![i].st = "migrated"], Migrated(i))
          /\ moved' = TRUE
    /\ UNCHANGED <<program, ctx, world>>

-----------------------------------------------------------------------------
CollectiveStep(i) ==
    \/ MPI_Bcast(i) \/ MPI_Barrier(i) \/ MPI_Scatter(i) \/ MPI_Gather(i)
    \/ MPI_Allgather(i) \/ MPI_Reduce(i) \/ MPI_Allreduce(i) \/ MPI_Scan(i)
    \/ MPI_Alltoall(i)

PointToPointStep(i) ==
    \/ MPI_Send(i) \/ MPI_Probe(i) \/ MPI_Recv(i) \/ MPI_Sendrecv(i)
    \/ MPI_Irecv(i) \/ MPI_Isend(i) \/ MPI_Wait(i)

SaysSuccess(i) ==
    \/ MPI_Comm_free(i) \/ MPI_Free_mem(i) \/ MPI_Type_contiguous(i) \/ MPI_Type_commit(i)

RankStep(i) ==
    \/ ExecuteTask(i)
    \/ /\ i \in DOMAIN task /\ task[i].st = "running"
       /\ \/ MPI_Init(i) \/ MPI_Comm_rank(i) \/ Prepare(i) \/ SaysSuccess(i)
          \/ /\ task[i].at \in DOMAIN program
             /\ \/ Op(i).op \in CollectiveCalls /\ CollectiveStep(i)
                \/ Op(i).op \notin CollectiveCalls /\ PointToPointStep(i)
                \/ Op(i).op = "refused" /\ (checkMpiComm(i) \/ NotImplemented(i))
                \/ terminateMpi(i) \/ faasm_migrate_point(i)

(* As long as some executor's thread can go on, one does.                   *)
RanksGoOn == \E i \in 1 .. MaxTasks : RankStep(i)

MpiNext == CallFunction \/ RanksGoOn

-----------------------------------------------------------------------------
MpiTypeOK ==
    /\ program \in Seq(MpiCalls)
    /\ \A i \in DOMAIN task :
          /\ task[i].st \in {"queued", "running", "done", "failed", "migrated"}
          /\ task[i].rank \in Ranks /\ task[i].world \in 0 .. Len(world)
          /\ task[i].send \in Buffer /\ task[i].recv \in Buffer
    /\ \A t \in Pool : ctx[t] = NoCtx \/ ctx[t].rank \in Ranks
    /\ moved \in BOOLEAN

(* After an MPI call a rank has in its receive buffer what MPI promises,    *)
(* computed from the buffers the ranks of its world passed: whether it      *)
(* worked in place, however requests were waited for, on whichever thread   *)
(* it runs and whatever that thread ran before, and also if the rank was    *)
(* moved to another host since.                                             *)
ResultsAreExact ==
    \A i \in DOMAIN task :
       /\ task[i].did # 0
       /\ program[task[i].did].op \in {"MPI_Gather", "MPI_Reduce"} =>
             task[i].rank = program[task[i].did].root
       => task[i].recv = Expected(task[i].did, task[i].rank)

(* The ranks of a world get to the end of their calls: no rank waits for    *)
(* good in a collective call, for a message or for a request, as all make   *)
(* the same calls.                                                          *)
RanksEnd == (task # <<>>) ~> AllEnded
=============================================================================
