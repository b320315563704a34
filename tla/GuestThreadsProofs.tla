------------------------- MODULE GuestThreadsProofs -------------------------
(***************************************************************************)
(* Proofs about the threads of a guest: OpenMP teams (OmpTeam) and         *)
(* pthreads (PthreadBatch).                                                *)
(***************************************************************************)
EXTENDS OmpTeam, PthreadBatch, FiniteSetTheorems, TLAPS

(* Steps are left to Zenon unless they name SMT, which has the arithmetic. *)
USE Zenon

(***************************************************************************)
(* pthreads                                                                *)
(***************************************************************************)
(* The threads of a guest by themselves.                                   *)
PthreadSpec == PthreadInit /\ [][PthreadNext]_pthreadVars

(* A task that has its stack ...                                           *)
Running == {"lookup", "create", "lock", "locked"}
(* ... and one that has made it and appends it to the vector.              *)
Pushing == {"push", "pushed"}

(* Tasks are records, one at each place of the pool.                       *)
TaskShape(r) ==
    r \in [call : {r.call}, pc : {r.pc}, stack : {r.stack}, slot : {r.slot},
           mx : {r.mx}, lock : {r.lock}, try : {r.try}]

(* Tasks are records, one at each place of the pool.                       *)
TaskShapes ==
    /\ tasks = [i \in Places |-> tasks[i]]
    /\ \A i \in Places : TaskShape(tasks[i])

(* Every stack that was made is in at most one place: in the hands of the  *)
(* one task that appends it, or in one element of the vector.  A task that *)
(* runs has the stack of its own element, which may have been overwritten  *)
(* since.                                                                  *)
StackInv ==
    /\ TaskShapes
    /\ stackCount \in Nat /\ stackEnd \in Nat /\ 1..stackEnd \subseteq DOMAIN threadStacks
    /\ \A k \in DOMAIN threadStacks : threadStacks[k] \in 1..stackCount
    /\ \A k, l \in DOMAIN threadStacks : threadStacks[k] = threadStacks[l] => k = l
    /\ \A i \in Places : tasks[i].slot \in Nat /\ 1..tasks[i].slot \subseteq DOMAIN threadStacks
    /\ \A i \in Places : tasks[i].pc \in Running \cup Pushing => tasks[i].stack \in 1..stackCount
    /\ \A i \in Places : tasks[i].pc \in Pushing =>
          /\ \A k \in DOMAIN threadStacks : threadStacks[k] # tasks[i].stack
          /\ \A j \in Places \ {i} : tasks[j].pc \in Running \cup Pushing => tasks[j].stack # tasks[i].stack
    /\ \A i \in Places : tasks[i].pc \in Running =>
          \A k \in DOMAIN threadStacks : threadStacks[k] = tasks[i].stack => k = i + 1
    /\ StacksDistinct

(* What is queued, what is in the map and what the guest holds agree.      *)
QueuedFor(p) == \E i \in DOMAIN queued : queued[i][1] = p

(* The inductive invariant for joins. Unless the guest mixes creates with  *)
(* unfinished joins, the results at hand are those of the threads that     *)
(* were started.                                                           *)
JoinInv ==
    /\ TaskShapes
    /\ queued \in Seq(Pthreads \X Nat) /\ Len(queued) <= MaxBatch
    /\ creates \in Nat /\ creator \in {"running", "batch", "result", "failed"}
    /\ chained = [p \in Pthreads |-> chained[p]] /\ live = [p \in Pthreads |-> live[p]]
    /\ \A p \in Pthreads :
          /\ chained[p] # Absent => chained[p] = live[p]
          /\ live[p] # Absent => chained[p] # Absent \/ QueuedFor(p)
    /\ \A i \in DOMAIN queued :
          /\ live[queued[i][1]] = queued[i][2] /\ queued[i][2] # Absent
          /\ creator \notin {"batch", "failed"} => chained[queued[i][1]] = Absent
    /\ creator = "batch" =>
          \A i \in Places : tasks[i].pc # "none" <=> i \in DOMAIN queued
    /\ creator = "batch" =>
          \A i \in DOMAIN queued : tasks[i].call = queued[i][2] /\ chained[queued[i][1]] = queued[i][2]
    /\ creator \in {"batch", "result"} => joining \in Pthreads /\ chained[joining] # Absent
    /\ creator = "result" => queued = <<>>
    /\ \A r \in results : r[1] = r[2]
    /\ \A r \in joined : r[1] = r[2]
    /\ mixed \in BOOLEAN
    /\ ~mixed =>
          /\ creator = "running" /\ queued # <<>> => \A p \in Pthreads : chained[p] = Absent
          /\ creator = "batch" => \A p \in Pthreads : chained[p] # Absent => QueuedFor(p)
          /\ creator \in {"running", "result"} =>
                \A p \in Pthreads : chained[p] # Absent => <<chained[p], chained[p]>> \in results
          /\ creator # "failed"

(* What a step of a task does to the tasks.                                *)
TaskMoves(i) ==
    /\ tasks' = [tasks EXCEPT ![i] = tasks'[i]] /\ TaskShape(tasks'[i])
    /\ tasks'[i].call = tasks[i].call
    /\ tasks[i].pc # "none" /\ tasks'[i].pc # "none"
    /\ UNCHANGED creatorVars

(* What it does to the stacks: it leaves them alone, takes one, makes one, *)
(* looks at the end of the vector, or writes to the vector.                *)
LeavesStacks(i) ==
    /\ UNCHANGED <<threadStacks, stackEnd, stackCount>>
    /\ tasks'[i].stack = tasks[i].stack /\ tasks'[i].slot = tasks[i].slot
    /\ tasks'[i].pc \in Running \cup Pushing => {tasks[i].pc, tasks'[i].pc} \subseteq Running

(* A task takes the stack at its place of the vector.                      *)
TakesStack(i) ==
    /\ UNCHANGED <<threadStacks, stackEnd, stackCount>>
    /\ stackEnd > i
    /\ tasks'[i].stack = threadStacks[i + 1] /\ tasks'[i].slot = tasks[i].slot
    /\ tasks'[i].pc = "lookup"

(* A task makes a stack.                                                   *)
MakesStack(i) ==
    /\ UNCHANGED <<threadStacks, stackEnd>> /\ stackCount' = stackCount + 1
    /\ tasks'[i].stack = stackCount + 1 /\ tasks'[i].slot = tasks[i].slot
    /\ tasks'[i].pc = "push"

(* A task reads the end of the vector.                                     *)
ReadsEnd(i) ==
    /\ UNCHANGED <<threadStacks, stackEnd, stackCount>>
    /\ tasks'[i].stack = tasks[i].stack /\ tasks'[i].slot = stackEnd
    /\ tasks[i].pc = "push" /\ tasks'[i].pc = "pushed"

(* A task writes its stack and the end it read, one further.               *)
WritesStack(i) ==
    /\ threadStacks' = [k \in (DOMAIN threadStacks) \cup {tasks[i].slot + 1} |->
                          IF k = tasks[i].slot + 1 THEN tasks[i].stack ELSE threadStacks[k]]
    /\ stackEnd' = tasks[i].slot + 1 /\ stackCount' = stackCount
    /\ tasks[i].pc = "pushed" /\ tasks'[i].pc = "stack" /\ tasks'[i].slot = 0

(* A step of a task is one of these.                                       *)
LEMMA TaskDoes ==
    ASSUME TaskShapes, NEW i \in Places, Task(i)
    PROVE  \/ UNCHANGED pthreadVars
           \/ /\ TaskMoves(i)
              /\ LeavesStacks(i) \/ TakesStack(i) \/ MakesStack(i) \/ ReadsEnd(i) \/ WritesStack(i)
<1> USE DEF At, GoTo
<1>0. tasks = [j \in Places |-> tasks[j]] /\ TaskShape(tasks[i])
  BY DEF TaskShapes
<1>1. CASE EnterTask(i)
  <2>1. tasks'[i] = [tasks[i] EXCEPT !.pc = "stack"] /\ tasks' = [tasks EXCEPT ![i] = tasks'[i]]
    BY <1>0, <1>1 DEF EnterTask
  <2>2. TaskShape(tasks'[i]) /\ tasks'[i].call = tasks[i].call
    BY <1>0, <2>1 DEF TaskShape
  <2> QED BY <1>0, <1>1, <2>1, <2>2 DEF EnterTask, TaskMoves, TaskShape, LeavesStacks, taskVars, Running, Pushing
<1>2. CASE TakeStack(i)
  <2>1. tasks'[i] = [tasks[i] EXCEPT !.pc = "lookup", !.stack = threadStacks[i + 1]] /\ tasks' = [tasks EXCEPT ![i] = tasks'[i]]
    BY <1>0, <1>2 DEF TakeStack
  <2>2. TaskShape(tasks'[i]) /\ tasks'[i].call = tasks[i].call
    BY <1>0, <2>1 DEF TaskShape
  <2> QED BY <1>0, <1>2, <2>1, <2>2 DEF TakeStack, TaskMoves, TaskShape, TakesStack, taskVars
<1>3. CASE GrowForStack(i)
  <2>1. tasks'[i] = [tasks[i] EXCEPT !.pc = "push", !.stack = stackCount + 1] /\ tasks' = [tasks EXCEPT ![i] = tasks'[i]]
    BY <1>0, <1>3 DEF GrowForStack
  <2>2. TaskShape(tasks'[i]) /\ tasks'[i].call = tasks[i].call
    BY <1>0, <2>1 DEF TaskShape
  <2> QED BY <1>0, <1>3, <2>1, <2>2 DEF GrowForStack, TaskMoves, TaskShape, MakesStack, taskVars
<1>4. CASE PushReads(i)
  <2>1. tasks'[i] = [tasks[i] EXCEPT !.pc = "pushed", !.slot = stackEnd] /\ tasks' = [tasks EXCEPT ![i] = tasks'[i]]
    BY <1>0, <1>4 DEF PushReads
  <2>2. TaskShape(tasks'[i]) /\ tasks'[i].call = tasks[i].call
    BY <1>0, <2>1 DEF TaskShape
  <2> QED BY <1>0, <1>4, <2>1, <2>2 DEF PushReads, TaskMoves, TaskShape, ReadsEnd, taskVars
<1>5. CASE PushWrites(i)
  <2>1. tasks'[i] = [tasks[i] EXCEPT !.pc = "stack", !.slot = 0, !.stack = Absent] /\ tasks' = [tasks EXCEPT ![i] = tasks'[i]]
    BY <1>0, <1>5 DEF PushWrites
  <2>2. TaskShape(tasks'[i]) /\ tasks'[i].call = tasks[i].call
    BY <1>0, <2>1 DEF TaskShape
  <2> QED BY <1>0, <1>5, <2>1, <2>2 DEF PushWrites, TaskMoves, TaskShape, WritesStack, taskVars
<1>6. CASE RunPlain(i)
  <2>1. tasks'[i] = [tasks[i] EXCEPT !.pc = "done"] /\ tasks' = [tasks EXCEPT ![i] = tasks'[i]]
    BY <1>0, <1>6 DEF RunPlain
  <2>2. TaskShape(tasks'[i]) /\ tasks'[i].call = tasks[i].call
    BY <1>0, <2>1 DEF TaskShape
  <2> QED BY <1>0, <1>6, <2>1, <2>2 DEF RunPlain, TaskMoves, TaskShape, LeavesStacks, taskVars, Running, Pushing
<1>7. CASE CreateMutex(i)
  <2>1. tasks'[i] = [tasks[i] EXCEPT !.lock = pthreadLocks'[tasks[i].mx], !.pc = "lock"] /\ tasks' = [tasks EXCEPT ![i] = tasks'[i]]
    BY <1>0, <1>7 DEF CreateMutex
  <2>2. TaskShape(tasks'[i]) /\ tasks'[i].call = tasks[i].call
    BY <1>0, <2>1 DEF TaskShape
  <2> QED BY <1>0, <1>7, <2>1, <2>2 DEF CreateMutex, TaskMoves, TaskShape, LeavesStacks, taskVars, Running, Pushing
<1>8. CASE LockMutex(i)
  <2>1. tasks'[i] = [tasks[i] EXCEPT !.pc = "locked"] /\ tasks' = [tasks EXCEPT ![i] = tasks'[i]]
    BY <1>0, <1>8 DEF LockMutex
  <2>2. TaskShape(tasks'[i]) /\ tasks'[i].call = tasks[i].call
    BY <1>0, <2>1 DEF TaskShape
  <2> QED BY <1>0, <1>8, <2>1, <2>2 DEF LockMutex, TaskMoves, TaskShape, LeavesStacks, taskVars, Running, Pushing
<1>9. CASE TrylockBusy(i)
  <2>1. tasks'[i] = [tasks[i] EXCEPT !.pc = "done"] /\ tasks' = [tasks EXCEPT ![i] = tasks'[i]]
    BY <1>0, <1>9 DEF TrylockBusy
  <2>2. TaskShape(tasks'[i]) /\ tasks'[i].call = tasks[i].call
    BY <1>0, <2>1 DEF TaskShape
  <2> QED BY <1>0, <1>9, <2>1, <2>2 DEF TrylockBusy, TaskMoves, TaskShape, LeavesStacks, taskVars, Running, Pushing
<1>10. CASE UnlockMutex(i)
  <2>1. tasks'[i] = [tasks[i] EXCEPT !.pc = "done"] /\ tasks' = [tasks EXCEPT ![i] = tasks'[i]]
    BY <1>0, <1>10 DEF UnlockMutex
  <2>2. TaskShape(tasks'[i]) /\ tasks'[i].call = tasks[i].call
    BY <1>0, <2>1 DEF TaskShape
  <2> QED BY <1>0, <1>10, <2>1, <2>2 DEF UnlockMutex, TaskMoves, TaskShape, LeavesStacks, taskVars, Running, Pushing
<1>11. ASSUME NEW m \in Mutexes, NEW try \in BOOLEAN, FindMutex(i, m, try)
       PROVE  TaskMoves(i) /\ LeavesStacks(i)
  <2>1. tasks'[i] = [tasks[i] EXCEPT !.mx = m, !.try = try, !.lock = pthreadLocks[m], !.pc = IF pthreadLocks[m] = Absent THEN "create" ELSE "lock"] /\ tasks' = [tasks EXCEPT ![i] = tasks'[i]]
    BY <1>0, <1>11 DEF FindMutex
  <2>2. TaskShape(tasks'[i]) /\ tasks'[i].call = tasks[i].call
    BY <1>0, <2>1 DEF TaskShape
  <2> QED BY SMT, <1>0, <1>11, <2>1, <2>2 DEF FindMutex, TaskMoves, TaskShape, LeavesStacks, taskVars, Running, Pushing
<1>12. CASE pthread_exit(i) \/ pthread_mutex_init(i) \/ StubbedPthreads(i)
  BY <1>12 DEF pthread_exit, pthread_mutex_init, StubbedPthreads, NoEffect
<1> QED
  BY <1>1, <1>2, <1>3, <1>4, <1>5, <1>6, <1>7, <1>8, <1>9, <1>10, <1>11, <1>12 DEF Task

(* A step of a task leaves the others as they are.                         *)
LEMMA MovesShape ==
    ASSUME TaskShapes, NEW i \in Places, TaskMoves(i)
    PROVE  TaskShapes' /\ \A j \in Places \ {i} : tasks'[j] = tasks[j]
BY DEF TaskShapes, TaskMoves, TaskShape

(* A step that leaves the stacks alone keeps the invariant.                *)
LEMMA LeavesKeeps ==
    ASSUME StackInv, NEW i \in Places, TaskMoves(i), LeavesStacks(i)
    PROVE  StackInv'
<1>1. TaskShapes' /\ \A j \in Places \ {i} : tasks'[j] = tasks[j]
  BY MovesShape DEF StackInv
<1>2. StacksDistinct'
  <2> SUFFICES ASSUME NEW j \in Places, NEW k \in Places,
                      {tasks'[j].pc, tasks'[k].pc} \subseteq Running, tasks'[j].stack = tasks'[k].stack
               PROVE  j = k
    BY DEF StacksDistinct, Running
  <2> QED BY SMT, <1>1 DEF StackInv, StacksDistinct, LeavesStacks, Running, Pushing
<1> QED BY SMT, <1>1, <1>2 DEF StackInv, LeavesStacks, Running, Pushing

(* Taking a stack keeps it: nobody else is at that place.                  *)
LEMMA TakesKeeps ==
    ASSUME StackInv, NEW i \in Places, TaskMoves(i), TakesStack(i)
    PROVE  StackInv'
<1> USE DEF TakesStack
<1>1. TaskShapes' /\ \A j \in Places \ {i} : tasks'[j] = tasks[j]
  BY MovesShape DEF StackInv
<1>2. i + 1 \in DOMAIN threadStacks
  BY SMT, PthreadBounds DEF StackInv, Places
<1>3. \A j \in Places \ {i} : tasks[j].pc \in Running \cup Pushing => tasks[j].stack # threadStacks[i + 1]
  BY SMT, <1>2, PthreadBounds DEF StackInv, Places
<1>4. StacksDistinct'
  <2> SUFFICES ASSUME NEW j \in Places, NEW k \in Places,
                      {tasks'[j].pc, tasks'[k].pc} \subseteq Running, tasks'[j].stack = tasks'[k].stack
               PROVE  j = k
    BY DEF StacksDistinct, Running
  <2> QED BY SMT, <1>1, <1>3 DEF StackInv, StacksDistinct, Running, Pushing
<1>5. tasks'[i].stack = threadStacks[i + 1] /\ tasks'[i].pc \in Running /\ tasks'[i].pc \notin Pushing
  BY DEF Running, Pushing
<1>6. \A k \in DOMAIN threadStacks : threadStacks[k] = tasks'[i].stack => k = i + 1
  BY <1>2 DEF StackInv
<1>7. tasks'[i].stack \in 1..stackCount
  BY <1>2 DEF StackInv
<1> QED BY SMT, <1>1, <1>2, <1>3, <1>4, <1>5, <1>6, <1>7 DEF StackInv

(* Making a stack keeps it: no place has the new one.                      *)
LEMMA MakesKeeps ==
    ASSUME StackInv, NEW i \in Places, TaskMoves(i), MakesStack(i)
    PROVE  StackInv'
<1> USE DEF MakesStack
<1>1. TaskShapes' /\ \A j \in Places \ {i} : tasks'[j] = tasks[j]
  BY MovesShape DEF StackInv
<1>2. tasks'[i].pc \in Pushing /\ tasks'[i].pc \notin Running
  BY DEF Running, Pushing
<1>3. \A k \in DOMAIN threadStacks : threadStacks[k] # stackCount + 1
  BY SMT DEF StackInv
<1>4. \A j \in Places \ {i} : tasks[j].pc \in Running \cup Pushing => tasks[j].stack # stackCount + 1
  BY SMT DEF StackInv
<1>5. StacksDistinct'
  <2> SUFFICES ASSUME NEW j \in Places, NEW k \in Places,
                      {tasks'[j].pc, tasks'[k].pc} \subseteq Running, tasks'[j].stack = tasks'[k].stack
               PROVE  j = k
    BY DEF StacksDistinct, Running
  <2> QED BY SMT, <1>1, <1>2 DEF StackInv, StacksDistinct, Running
<1>6. stackCount' \in Nat /\ 1..stackCount \subseteq 1..stackCount' /\ stackCount + 1 \in 1..stackCount'
  BY SMT DEF StackInv
<1> QED BY SMT, <1>1, <1>2, <1>3, <1>4, <1>5, <1>6 DEF StackInv

(* Reading the end keeps it.                                               *)
LEMMA ReadsKeeps ==
    ASSUME StackInv, NEW i \in Places, TaskMoves(i), ReadsEnd(i)
    PROVE  StackInv'
<1> USE DEF ReadsEnd
<1>1. TaskShapes' /\ \A j \in Places \ {i} : tasks'[j] = tasks[j]
  BY MovesShape DEF StackInv
<1>2. /\ tasks'[i].pc \in Pushing /\ tasks'[i].pc \notin Running
      /\ tasks[i].pc \in Pushing /\ tasks[i].pc \notin Running
  BY DEF Running, Pushing
<1>5. StacksDistinct'
  <2> SUFFICES ASSUME NEW j \in Places, NEW k \in Places,
                      {tasks'[j].pc, tasks'[k].pc} \subseteq Running, tasks'[j].stack = tasks'[k].stack
               PROVE  j = k
    BY DEF StacksDistinct, Running
  <2> QED BY SMT, <1>1, <1>2 DEF StackInv, StacksDistinct, Running
<1> QED BY SMT, <1>1, <1>2, <1>5 DEF StackInv

(* Writing keeps it, also over another task's element: the stack that is   *)
(* overwritten is then in no element.                                      *)
LEMMA WritesKeeps ==
    ASSUME StackInv, NEW i \in Places, TaskMoves(i), WritesStack(i)
    PROVE  StackInv'
<1> USE DEF WritesStack
<1>1. TaskShapes' /\ \A j \in Places \ {i} : tasks'[j] = tasks[j]
  BY MovesShape DEF StackInv
<1>2. tasks'[i].pc \notin Running \cup Pushing /\ tasks[i].pc \in Pushing
  BY DEF Running, Pushing
<1>3. DOMAIN threadStacks' = (DOMAIN threadStacks) \cup {tasks[i].slot + 1}
  OBVIOUS
<1>4. tasks[i].stack \in 1..stackCount
  BY <1>2 DEF StackInv
<1>5. \A k \in DOMAIN threadStacks' :
         threadStacks'[k] = IF k = tasks[i].slot + 1 THEN tasks[i].stack ELSE threadStacks[k]
  BY <1>3
<1>6. /\ stackEnd' \in Nat /\ 1..stackEnd' \subseteq DOMAIN threadStacks'
      /\ \A j \in Places : tasks'[j].slot \in Nat /\ 1..tasks'[j].slot \subseteq DOMAIN threadStacks'
  BY SMT, <1>1, <1>3 DEF StackInv
<1>7. \A k \in DOMAIN threadStacks' : threadStacks'[k] \in 1..stackCount
  BY <1>3, <1>4, <1>5 DEF StackInv
<1>8. \A k, l \in DOMAIN threadStacks' : threadStacks'[k] = threadStacks'[l] => k = l
  BY SMT, <1>2, <1>3, <1>5 DEF StackInv
<1>9. ASSUME NEW j \in Places, tasks'[j].pc \in Pushing
      PROVE  \A k \in DOMAIN threadStacks' : threadStacks'[k] # tasks'[j].stack
  BY SMT, <1>1, <1>2, <1>3, <1>5, <1>9 DEF StackInv
<1>10. ASSUME NEW j \in Places, tasks'[j].pc \in Running
       PROVE  \A k \in DOMAIN threadStacks' : threadStacks'[k] = tasks'[j].stack => k = j + 1
  BY SMT, <1>1, <1>2, <1>3, <1>5, <1>10 DEF StackInv
<1>11. StacksDistinct'
  <2> SUFFICES ASSUME NEW j \in Places, NEW k \in Places,
                      {tasks'[j].pc, tasks'[k].pc} \subseteq Running, tasks'[j].stack = tasks'[k].stack
               PROVE  j = k
    BY DEF StacksDistinct, Running
  <2> QED BY SMT, <1>1, <1>2 DEF StackInv, StacksDistinct, Running
<1>12. ASSUME NEW j \in Places, tasks'[j].pc \in Pushing
       PROVE  \A k \in Places \ {j} :
                 tasks'[k].pc \in Running \cup Pushing => tasks'[k].stack # tasks'[j].stack
  BY SMT, <1>1, <1>2, <1>12 DEF StackInv
<1>13. \A j \in Places : tasks'[j].pc \in Running \cup Pushing => tasks'[j].stack \in 1..stackCount'
  BY <1>1, <1>2 DEF StackInv
<1> QED BY <1>1, <1>6, <1>7, <1>8, <1>9, <1>10, <1>11, <1>12, <1>13 DEF StackInv

(* No task runs: the stacks are those of the vector.                       *)
LEMMA FreshTasksKeep ==
    ASSUME StackInv, TaskShapes', UNCHANGED <<threadStacks, stackEnd, stackCount>>,
           \A i \in Places : tasks'[i].pc \notin Running \cup Pushing /\ tasks'[i].slot = 0
    PROVE  StackInv'
<1>1. StacksDistinct'
  BY DEF StacksDistinct, Running
<1> QED BY SMT, <1>1 DEF StackInv

(* Every step keeps the invariant for stacks.                              *)
LEMMA StackStep == StackInv /\ [PthreadNext]_pthreadVars => StackInv'
<1> SUFFICES ASSUME StackInv, [PthreadNext]_pthreadVars PROVE StackInv'
  OBVIOUS
<1>1. CASE UNCHANGED <<tasks, threadStacks, stackEnd, stackCount>>
  BY SMT, <1>1 DEF StackInv, TaskShapes, TaskShape, StacksDistinct
<1>2. ASSUME NEW p \in Pthreads, pthread_create(p) \/ JoinReturns \/ JoinThrows PROVE StackInv'
  BY <1>1, <1>2 DEF pthread_create, JoinReturns, JoinThrows, taskVars
<1>3. ASSUME NEW p \in Pthreads, pthread_join(p) PROVE StackInv'
  <2>1. UNCHANGED <<threadStacks, stackEnd, stackCount>>
    BY <1>3 DEF pthread_join, taskVars
  <2>2. CASE UNCHANGED tasks
    BY <1>1, <2>1, <2>2
  <2>3. CASE tasks' = [i \in Places |->
                IF i \in DOMAIN queued
                THEN [NoTask EXCEPT !.call = queued[i][2], !.pc = "enter"]
                ELSE NoTask]
    <3>1. TaskShapes' /\ \A i \in Places : tasks'[i].pc \in {"enter", "none"} /\ tasks'[i].slot = 0
      BY <2>3 DEF TaskShapes, TaskShape, NoTask
    <3> QED BY <2>1, <3>1, FreshTasksKeep DEF Running, Pushing
  <2> QED BY <1>3, <2>2, <2>3 DEF pthread_join
<1>4. CASE BatchReturns
  <2>1. UNCHANGED <<threadStacks, stackEnd, stackCount>> /\ tasks' = [i \in Places |-> NoTask]
    BY <1>4 DEF BatchReturns, taskVars
  <2>2. TaskShapes' /\ \A i \in Places : tasks'[i].pc = "none" /\ tasks'[i].slot = 0
    BY <2>1 DEF TaskShapes, TaskShape, NoTask
  <2> QED BY <2>1, <2>2, FreshTasksKeep DEF Running, Pushing
<1>5. ASSUME NEW i \in Places, Task(i) PROVE StackInv'
  <2>1. TaskShapes
    BY DEF StackInv
  <2>2. CASE UNCHANGED pthreadVars
    BY <1>1, <2>2 DEF pthreadVars, taskVars
  <2> QED BY <1>5, <2>1, <2>2, TaskDoes, LeavesKeeps, TakesKeeps, MakesKeeps, ReadsKeeps, WritesKeeps
<1>6. CASE JoinReturns \/ JoinThrows
  BY <1>1, <1>6 DEF JoinReturns, JoinThrows, taskVars
<1>7. CASE UNCHANGED pthreadVars
  BY <1>1, <1>7 DEF pthreadVars, taskVars
<1> QED BY <1>2, <1>3, <1>4, <1>5, <1>6, <1>7 DEF PthreadNext

(* No two threads that run have the same stack (StacksDistinct), for any   *)
(* number of threads: also not when the unsynchronised appends to          *)
(* threadStacks overwrite one another.                                     *)
THEOREM StacksStayDistinct == PthreadSpec => []StacksDistinct
<1>1. PthreadInit => StackInv
  <2> SUFFICES ASSUME PthreadInit PROVE StackInv
    OBVIOUS
  <2>1. tasks = [i \in Places |-> NoTask] /\ threadStacks = <<>> /\ stackEnd = 0 /\ stackCount = 0
    BY DEF PthreadInit
  <2>2. TaskShapes /\ \A i \in Places : tasks[i].pc = "none" /\ tasks[i].slot = 0
    BY <2>1 DEF TaskShapes, TaskShape, NoTask
  <2>3. DOMAIN threadStacks = {}
    BY SMT, <2>1
  <2> QED BY SMT, <2>1, <2>2, <2>3 DEF StackInv, StacksDistinct, Running, Pushing
<1>2. StackInv => StacksDistinct
  BY DEF StackInv
<1> QED BY <1>1, <1>2, StackStep, PTL DEF PthreadSpec

(* A step of a task keeps the invariant for joins.                         *)
LEMMA JoinTaskKeeps ==
    ASSUME JoinInv, NEW i \in Places, TaskMoves(i)
    PROVE  JoinInv'
<1>1. TaskShapes' /\ \A j \in Places \ {i} : tasks'[j] = tasks[j]
  BY MovesShape DEF JoinInv
<1>2. \A j \in Places : (tasks'[j].pc # "none" <=> tasks[j].pc # "none") /\ tasks'[j].call = tasks[j].call
  BY <1>1 DEF TaskMoves
<1>3. UNCHANGED <<queued, chained, results, creates, live, creator, joining, joined, mixed>>
  BY DEF TaskMoves, creatorVars
<1>4. \A p \in Pthreads : QueuedFor(p)' <=> QueuedFor(p)
  BY <1>3 DEF QueuedFor
<1>5. creator = "batch" => DOMAIN queued \subseteq Places
  BY SMT, PthreadBounds DEF JoinInv, Places
<1> QED BY <1>1, <1>2, <1>3, <1>4, <1>5 DEF JoinInv

(* pthread_create keeps it.                                                *)
LEMMA CreateKeepsJoins ==
    ASSUME JoinInv, NEW p \in Pthreads, pthread_create(p)
    PROVE  JoinInv'
<1> DEFINE q == <<p, creates + 1>>
<1>1. /\ creator = "running" /\ live[p] = Absent /\ Len(queued) < MaxBatch
      /\ creates' = creates + 1 /\ live' = [live EXCEPT ![p] = creates + 1]
      /\ queued' = Append(queued, q) /\ mixed' = (mixed \/ \E r \in Pthreads : chained[r] # Absent)
      /\ UNCHANGED <<chained, results, creator, joining, joined, tasks>>
  BY DEF pthread_create
<1>2. TaskShapes' /\ queued \in Seq(Pthreads \X Nat) /\ creates \in Nat
  BY <1>1 DEF JoinInv, TaskShapes, TaskShape
<1>3. q \in Pthreads \X Nat /\ q[1] = p /\ q[2] = creates + 1
  BY SMT, <1>2
<1> HIDE DEF q
<1>4. /\ queued' \in Seq(Pthreads \X Nat) /\ Len(queued') = Len(queued) + 1
      /\ DOMAIN queued' = (DOMAIN queued) \cup {Len(queued) + 1}
      /\ \A i \in DOMAIN queued : queued'[i] = queued[i] /\ queued[i] \in Pthreads \X Nat
      /\ queued'[Len(queued) + 1] = q /\ Len(queued) \in Nat
  BY SMT, <1>1, <1>2, <1>3
<1>5. Len(queued') <= MaxBatch
  BY SMT, <1>1, <1>4, PthreadBounds
<1>6. \A r \in Pthreads : (QueuedFor(r) => QueuedFor(r)') /\ QueuedFor(p)'
  BY <1>3, <1>4 DEF QueuedFor
<1>7. live'[p] = creates + 1 /\ creates + 1 # Absent /\ \A r \in Pthreads \ {p} : live'[r] = live[r]
  BY SMT, <1>1, <1>2, PthreadBounds DEF JoinInv
<1>8. chained[p] = Absent /\ \A i \in DOMAIN queued : queued[i][1] # p
  BY SMT, <1>1 DEF JoinInv
<1>9. \A r \in Pthreads :
         /\ chained'[r] # Absent => chained'[r] = live'[r]
         /\ live'[r] # Absent => chained'[r] # Absent \/ QueuedFor(r)'
  BY <1>1, <1>6, <1>7, <1>8 DEF JoinInv
<1>10. \A i \in DOMAIN queued' :
         /\ live'[queued'[i][1]] = queued'[i][2] /\ queued'[i][2] # Absent
         /\ chained'[queued'[i][1]] = Absent
  <2>1. ASSUME NEW i \in DOMAIN queued
        PROVE  /\ live'[queued'[i][1]] = queued'[i][2] /\ queued'[i][2] # Absent
               /\ chained'[queued'[i][1]] = Absent
    <3>1. queued'[i] = queued[i] /\ queued[i][1] \in Pthreads \ {p}
      BY <1>4, <1>8
    <3> QED BY SMT, <1>1, <1>7, <3>1 DEF JoinInv
  <2> QED BY SMT, <1>1, <1>3, <1>4, <1>7, <1>8, <2>1
<1>11. mixed' \in BOOLEAN /\ (~mixed' => ~mixed /\ \A r \in Pthreads : chained[r] = Absent)
  BY <1>1 DEF JoinInv
<1>12. chained' = [r \in Pthreads |-> chained'[r]] /\ live' = [r \in Pthreads |-> live'[r]]
  BY <1>1 DEF JoinInv
<1>13. /\ creates' \in Nat /\ creator' = "running"
       /\ \A r \in results' : r[1] = r[2]
       /\ \A r \in joined' : r[1] = r[2]
  BY SMT, <1>1, <1>2 DEF JoinInv
<1> QED BY <1>1, <1>2, <1>4, <1>5, <1>9, <1>10, <1>11, <1>12, <1>13 DEF JoinInv

(* The first half of pthread_join, which starts what is queued, keeps it.  *)
LEMMA JoinKeeps ==
    ASSUME JoinInv, NEW p \in Pthreads, pthread_join(p)
    PROVE  JoinInv'
<1>1. /\ creator = "running" /\ live[p] # Absent /\ joining' = p
      /\ UNCHANGED <<queued, results, creates, live, joined, mixed>>
  BY DEF pthread_join
<1>2. \A r \in Pthreads : QueuedFor(r)' <=> QueuedFor(r)
  BY <1>1 DEF QueuedFor
<1>3. CASE queued = <<>> /\ creator' = "result" /\ UNCHANGED <<chained, tasks>>
  <2>1. \A r \in Pthreads : ~QueuedFor(r)
    BY SMT, <1>3 DEF QueuedFor
  <2>2. chained[p] # Absent
    BY <1>1, <2>1 DEF JoinInv
  <2>3. TaskShapes'
    BY <1>3 DEF JoinInv, TaskShapes, TaskShape
  <2> QED BY SMT, <1>1, <1>2, <1>3, <2>2, <2>3 DEF JoinInv
<1>4. CASE /\ queued # <<>>
           /\ chained' = [q \in Pthreads |->
                 IF chained[q] = Absent /\ \E i \in DOMAIN queued : queued[i][1] = q
                 THEN queued[CHOOSE i \in DOMAIN queued : queued[i][1] = q][2]
                 ELSE chained[q]]
           /\ tasks' = [i \in Places |->
                 IF i \in DOMAIN queued
                 THEN [NoTask EXCEPT !.call = queued[i][2], !.pc = "enter"]
                 ELSE NoTask]
           /\ creator' = "batch"
  <2>1. /\ \A r \in Pthreads : chained'[r] = IF QueuedFor(r) THEN live[r] ELSE chained[r]
        /\ chained' = [r \in Pthreads |-> chained'[r]]
    <3> SUFFICES ASSUME NEW r \in Pthreads PROVE chained'[r] = IF QueuedFor(r) THEN live[r] ELSE chained[r]
      BY <1>4
    <3>1. CASE QueuedFor(r)
      <4> DEFINE i == CHOOSE i \in DOMAIN queued : queued[i][1] = r
      <4>1. i \in DOMAIN queued /\ queued[i][1] = r
        BY <3>1 DEF QueuedFor
      <4> HIDE DEF i
      <4>2. queued[i][2] = live[r] /\ chained[r] = Absent
        BY <1>1, <4>1 DEF JoinInv
      <4>3. chained'[r] = queued[i][2]
        BY <1>4, <3>1, <4>2 DEF QueuedFor, i
      <4> QED BY <3>1, <4>2, <4>3
    <3>2. CASE ~QueuedFor(r)
      BY <1>4, <3>2 DEF QueuedFor
    <3> QED BY <3>1, <3>2
  <2>2. TaskShapes' /\ \A i \in Places :
           IF i \in DOMAIN queued THEN tasks'[i].pc = "enter" /\ tasks'[i].call = queued[i][2]
           ELSE tasks'[i].pc = "none"
    BY <1>4 DEF TaskShapes, TaskShape, NoTask
  <2>3. DOMAIN queued \subseteq Places
    BY SMT, PthreadBounds DEF JoinInv, Places
  <2>4. chained'[p] # Absent
    BY SMT, <1>1, <2>1 DEF JoinInv
  <2>5. \A r \in Pthreads :
           /\ chained'[r] # Absent => chained'[r] = live[r]
           /\ live[r] # Absent => chained'[r] # Absent
    BY SMT, <2>1 DEF JoinInv
  <2>6. ~mixed => \A r \in Pthreads : chained'[r] # Absent => QueuedFor(r)
    BY <1>1, <1>4, <2>1 DEF JoinInv
  <2>7. \A i \in DOMAIN queued : queued[i][1] \in Pthreads /\ chained'[queued[i][1]] = queued[i][2]
    BY SMT, <2>1 DEF JoinInv, QueuedFor
  <2>8. \A i \in DOMAIN queued : live[queued[i][1]] = queued[i][2] /\ queued[i][2] # Absent
    BY DEF JoinInv
  <2>9. /\ queued \in Seq(Pthreads \X Nat) /\ Len(queued) <= MaxBatch /\ creates \in Nat
        /\ live = [r \in Pthreads |-> live[r]] /\ mixed \in BOOLEAN
        /\ \A r \in results : r[1] = r[2]
        /\ \A r \in joined : r[1] = r[2]
    BY DEF JoinInv
  <2>10. creator' = "batch"
    BY <1>4
  <2> QED BY SMT, <1>1, <1>2, <2>1, <2>2, <2>3, <2>4, <2>5, <2>6, <2>7, <2>8, <2>9, <2>10 DEF JoinInv
<1> QED BY <1>3, <1>4 DEF pthread_join

(* The end of the batch keeps it.                                          *)
LEMMA BatchKeeps ==
    ASSUME JoinInv, BatchReturns
    PROVE  JoinInv'
<1>1. /\ creator = "batch" /\ \A i \in Places : tasks[i].pc \in {"none", "done"}
      /\ results' = {<<tasks[i].call, tasks[i].call>> : i \in {j \in Places : tasks[j].pc = "done"}}
      /\ queued' = <<>> /\ tasks' = [i \in Places |-> NoTask] /\ creator' = "result"
      /\ UNCHANGED <<chained, creates, live, joining, joined, mixed>>
  BY DEF BatchReturns
<1>2. TaskShapes'
  BY <1>1 DEF TaskShapes, TaskShape, NoTask
<1>3. queued' \in Seq(Pthreads \X Nat) /\ Len(queued') <= MaxBatch /\ DOMAIN queued' = {}
  BY SMT, <1>1, PthreadBounds
<1>4. \A r \in Pthreads : live[r] # Absent => chained[r] # Absent
  <2> SUFFICES ASSUME NEW r \in Pthreads, live[r] # Absent, chained[r] = Absent PROVE FALSE
    OBVIOUS
  <2>1. PICK i \in DOMAIN queued : queued[i][1] = r
    BY DEF JoinInv, QueuedFor
  <2> QED BY <1>1, <2>1 DEF JoinInv
<1>5. ASSUME ~mixed, NEW r \in Pthreads, chained[r] # Absent PROVE <<chained[r], chained[r]>> \in results'
  <2>1. PICK i \in DOMAIN queued : queued[i][1] = r
    BY <1>1, <1>5 DEF JoinInv, QueuedFor
  <2>2. queued[i][2] = chained[r] /\ tasks[i].call = queued[i][2] /\ i \in Places
    BY SMT, <1>1, <1>5, <2>1, PthreadBounds DEF JoinInv, Places
  <2>3. tasks[i].pc = "done"
    BY <1>1, <2>2 DEF JoinInv
  <2> QED BY <1>1, <2>2, <2>3
<1>6. \A r \in results' : r[1] = r[2]
  BY SMT, <1>1
<1> QED BY SMT, <1>1, <1>2, <1>3, <1>4, <1>5, <1>6 DEF JoinInv

(* Returning the result of the thread that is joined keeps it.             *)
LEMMA JoinReturnsKeeps ==
    ASSUME JoinInv, JoinReturns
    PROVE  JoinInv'
<1>1. /\ creator = "result" /\ chained' = [chained EXCEPT ![joining] = Absent]
      /\ results' = IF \A p \in Pthreads : chained'[p] = Absent THEN {} ELSE results
      /\ live' = [live EXCEPT ![joining] = Absent] /\ creator' = "running"
      /\ UNCHANGED <<queued, creates, mixed, tasks>>
  BY DEF JoinReturns
<1>2. PICK r \in results : r[1] = chained[joining] /\ joined' = joined \cup {<<live[joining], r[2]>>}
  BY DEF JoinReturns
<1>3. joining \in Pthreads /\ chained[joining] = live[joining] /\ queued = <<>>
  BY <1>1 DEF JoinInv
<1>4. \A j \in joined' : j[1] = j[2]
  BY SMT, <1>2, <1>3 DEF JoinInv
<1>5. chained'[joining] = Absent /\ live'[joining] = Absent
      /\ \A p \in Pthreads \ {joining} : chained'[p] = chained[p] /\ live'[p] = live[p]
  BY <1>1, <1>3 DEF JoinInv
<1>6. TaskShapes'
  BY <1>1 DEF JoinInv, TaskShapes, TaskShape
<1>7. \A p \in Pthreads : ~QueuedFor(p)
  BY SMT, <1>3 DEF QueuedFor
<1>8. \A p \in Pthreads :
         /\ chained'[p] # Absent => chained'[p] = live'[p]
         /\ live'[p] # Absent => chained'[p] # Absent
  BY SMT, <1>5, <1>7 DEF JoinInv
<1>9. ~mixed => \A p \in Pthreads : chained'[p] # Absent => <<chained'[p], chained'[p]>> \in results'
  BY <1>1, <1>5 DEF JoinInv
<1>10. \A j \in results' : j[1] = j[2]
  BY <1>1 DEF JoinInv
<1>11. chained' = [p \in Pthreads |-> chained'[p]] /\ live' = [p \in Pthreads |-> live'[p]]
  BY <1>1 DEF JoinInv
<1> QED BY SMT, <1>1, <1>3, <1>4, <1>6, <1>8, <1>9, <1>10, <1>11 DEF JoinInv

(* A join throws only where creates and joins were mixed.                  *)
LEMMA JoinThrowsKeeps ==
    ASSUME JoinInv, JoinThrows
    PROVE  JoinInv'
<1>1. /\ creator = "result" /\ \A r \in results : r[1] # chained[joining]
      /\ creator' = "failed"
      /\ UNCHANGED <<queued, chained, results, creates, live, joining, joined, mixed, tasks>>
  BY DEF JoinThrows
<1>2. mixed
  <2> SUFFICES ASSUME ~mixed PROVE FALSE
    OBVIOUS
  <2> QED BY <1>1 DEF JoinInv
<1>3. TaskShapes'
  BY <1>1 DEF JoinInv, TaskShapes, TaskShape
<1>4. \A r \in Pthreads : QueuedFor(r)' <=> QueuedFor(r)
  BY <1>1 DEF QueuedFor
<1> QED BY SMT, <1>1, <1>2, <1>3, <1>4 DEF JoinInv

(* Every step keeps the invariant for joins.                               *)
LEMMA JoinStep == JoinInv /\ [PthreadNext]_pthreadVars => JoinInv'
<1> SUFFICES ASSUME JoinInv, [PthreadNext]_pthreadVars PROVE JoinInv'
  OBVIOUS
<1>1. CASE UNCHANGED pthreadVars
  BY <1>1 DEF JoinInv, TaskShapes, TaskShape, QueuedFor, pthreadVars, creatorVars
<1>2. ASSUME NEW i \in Places, Task(i) PROVE JoinInv'
  <2>1. TaskShapes
    BY DEF JoinInv
  <2> QED BY <1>1, <1>2, <2>1, TaskDoes, JoinTaskKeeps
<1> QED
  BY <1>1, <1>2, CreateKeepsJoins, JoinKeeps, BatchKeeps, JoinReturnsKeeps, JoinThrowsKeeps
  DEF PthreadNext

(* A join returns the result of the thread that was created under that     *)
(* pthread id, and finds one unless the guest mixed creates with           *)
(* unfinished joins (JoinGetsItsResult), for any number of threads.        *)
THEOREM JoinsGetTheirResults == PthreadSpec => []JoinGetsItsResult
<1>1. PthreadInit => JoinInv
  <2> SUFFICES ASSUME PthreadInit PROVE JoinInv
    OBVIOUS
  <2>1. TaskShapes
    BY DEF PthreadInit, TaskShapes, TaskShape, NoTask
  <2>2. queued = <<>> /\ queued \in Seq(Pthreads \X Nat) /\ Len(queued) <= MaxBatch /\ DOMAIN queued = {}
    BY SMT, PthreadBounds DEF PthreadInit
  <2> QED BY <2>1, <2>2 DEF PthreadInit, JoinInv
<1>2. JoinInv => JoinGetsItsResult
  BY DEF JoinInv, JoinGetsItsResult
<1> QED BY <1>1, <1>2, JoinStep, PTL DEF PthreadSpec

(***************************************************************************)
(* OpenMP                                                                  *)
(***************************************************************************)
(* The OpenMP team by itself.                                              *)
TeamSpec == TeamInit /\ [][TeamNext]_ompVars

(* Constructs at which the team meets.                                     *)
Meetings == {"barrier", "reduce"}

(* While a section runs every thread of its team is somewhere in the body. *)
TeamShapes ==
    /\ level \in [maxActive : Int, wanted : Int, pushed : Int]
    /\ body \in Seq(Constructs)
    /\ main = "section" =>
          /\ team \in Nat \ {0}
          /\ at \in [Workers -> Nat \ {0}]
          /\ pc \in [Workers -> {"begin", "critical", "reduce", "unlocked", "barrier", "end", "failed"}]
          /\ notes \in [Workers -> Int]

(* A lock is held by the thread that is in its section, if any.            *)
LockInv ==
    /\ TeamShapes
    /\ main # "section" => lock = -1 /\ localLock = -1
    /\ main = "section" =>
          /\ lock \in {-1} \cup Workers /\ localLock \in {-1} \cup Workers
          /\ \A t \in Workers : lock = t <=> pc[t] = "critical" /\ team > 1
          /\ \A t \in Workers : localLock = t <=> pc[t] = "reduce"

(* The reductions of which thread t has told thread 0.                     *)
Notified(t) ==
    {k \in 1..Len(body) :
        /\ body[k] \in Reductions
        /\ at[t] > k \/ (at[t] = k /\ body[k] = "reduce" /\ pc[t] = "barrier")}

(* The inductive invariant for reductions: no thread passes a barrier      *)
(* before all are at it, and thread 0 has yet to consume exactly the       *)
(* notifications of the reductions it has not finished.                    *)
NoteInv ==
    /\ TeamShapes
    /\ main = "section" =>
          /\ \A t \in Workers : pc[t] = "barrier" => at[t] <= Len(body) /\ body[at[t]] \in Meetings
          /\ \A t, u \in Workers : \A k \in 1..Len(body) :
                body[k] \in Meetings /\ at[t] > k => at[u] > k
          /\ \A t \in Workers \ {0} :
                /\ Notified(0) \subseteq Notified(t)
                /\ notes[t] = Cardinality(Notified(t) \ Notified(0))

(* A step of thread t of the team moves t alone.                           *)
Moves(t) ==
    /\ main = "section" /\ t \in Workers /\ UNCHANGED mainVars
    /\ at[t] <= Len(body)
    /\ at' = [at EXCEPT ![t] = at'[t]] /\ pc' = [pc EXCEPT ![t] = pc'[t]]
    /\ \/ at'[t] = at[t] /\ pc'[t] \in {"critical", "reduce", "unlocked", "barrier", "failed"}
       \/ at'[t] = at[t] + 1 /\ pc'[t] \in {"begin", "end"}

(* What it does to the locks ...                                           *)
Locks(t) ==
    \/ /\ pc[t] = "begin" /\ pc'[t] = "critical" /\ localLock' = localLock
       /\ (team <= 1 /\ lock' = lock) \/ (team > 1 /\ lock = -1 /\ lock' = t)
    \/ /\ pc[t] = "critical" /\ pc'[t] \notin {"critical", "reduce"} /\ localLock' = localLock
       /\ lock' = IF team > 1 THEN -1 ELSE lock
    \/ /\ pc[t] = "begin" /\ pc'[t] = "reduce" /\ lock' = lock
       /\ localLock = -1 /\ localLock' = t
    \/ /\ pc[t] = "reduce" /\ pc'[t] = "unlocked" /\ lock' = lock
       /\ localLock' = -1
    \/ /\ pc[t] \notin {"critical", "reduce"} /\ pc'[t] \notin {"critical", "reduce"}
       /\ UNCHANGED <<lock, localLock>>

(* ... and to the notifications.                                           *)
Notes(t) ==
    \/ /\ notes' = notes /\ pc[t] # "barrier"
       /\ \/ at'[t] = at[t] /\ (pc'[t] = "barrier" => body[at[t]] = "barrier")
          \/ at'[t] = at[t] + 1 /\ body[at[t]] \notin Meetings \cup Reductions
    \/ /\ pc[t] = "unlocked" /\ body[at[t]] \in Reductions
       /\ \/ t # 0 /\ notes' = [notes EXCEPT ![t] = @ + 1]
          \/ /\ t = 0
             /\ \A u \in Workers \ {0} : notes[u] > 0
             /\ notes' = [u \in Workers |-> IF u = 0 THEN 0 ELSE notes[u] - 1]
       /\ \/ body[at[t]] = "reduce" /\ at'[t] = at[t] /\ pc'[t] = "barrier"
          \/ body[at[t]] = "reduce_nowait" /\ at'[t] = at[t] + 1

(* A step of a thread of the team is one of these.                         *)
LEMMA WorkerDoes ==
    ASSUME TeamShapes, NEW t, Worker(t)
    PROVE  UNCHANGED ompVars \/ (Moves(t) /\ Locks(t) /\ Notes(t))
<1> DEFINE Past == at'[t] = at[t] + 1 /\ pc'[t] \in {"begin", "end"}
           Alone == at' = [at EXCEPT ![t] = at'[t]] /\ pc' = [pc EXCEPT ![t] = pc'[t]]
<1>1. ASSUME NEW where, Goto(t, where), main = "section", t \in Workers
      PROVE  at'[t] = at[t] /\ pc'[t] = where /\ Alone
  BY <1>1 DEF Goto, TeamShapes
<1>2. ASSUME Advance(t), main = "section", t \in Workers
      PROVE  Past /\ Alone
  BY <1>2 DEF Advance, TeamShapes
<1> USE DEF Moves, Locks, Notes, In, Reductions, Meetings
<1> HIDE DEF Past, Alone
<1>3. CASE kmpc_critical(t)
  BY <1>1, <1>3 DEF kmpc_critical, Alone
<1>4. CASE kmpc_end_critical(t)
  BY <1>2, <1>4 DEF kmpc_end_critical, Past, Alone
<1>5. CASE kmpc_single(t) \/ kmpc_master(t)
  BY <1>2, <1>5 DEF kmpc_single, kmpc_master, Past, Alone
<1>6. CASE kmpc_barrier(t)
  BY <1>1, <1>6 DEF kmpc_barrier, Alone
<1>7. CASE kmpc_flush(t) \/ kmpc_for_static_fini(t)
  BY <1>7 DEF kmpc_flush, kmpc_for_static_fini
<1>8. CASE startReduceCritical(t)
  BY SMT, <1>1, <1>8 DEF startReduceCritical, Alone
<1>9. CASE ReduceUnlock(t)
  BY SMT, <1>1, <1>9 DEF ReduceUnlock, Alone
<1>10. CASE ReduceNotify(t)
  <2>1. CASE body[at[t]] = "reduce"
    BY SMT, <1>1, <1>10, <2>1 DEF ReduceNotify, AfterNotify, Alone
  <2>2. CASE body[at[t]] # "reduce"
    BY <1>2, <1>10, <2>2 DEF ReduceNotify, AfterNotify, Past, Alone
  <2> QED BY <2>1, <2>2
<1>11. CASE NestedFork(t)
  BY SMT, <1>1, <1>11 DEF NestedFork, Alone
<1> QED
  BY <1>3, <1>4, <1>5, <1>6, <1>7, <1>8, <1>9, <1>10, <1>11
  DEF Worker, kmpc_reduce, kmpc_reduce_nowait, kmpc_end_reduce, kmpc_end_reduce_nowait, endReduceCritical

(* Steps outside of sections; Forks and Ends begin and end one.            *)
OutsideSection ==
    /\ main # "section" /\ main' # "section"
    /\ level' \in [maxActive : Int, wanted : Int, pushed : Int]
    /\ UNCHANGED <<body, teamVars>>

(* A section begins.                                                       *)
Forks ==
    /\ main # "section" /\ main' = "section" /\ team' \in Nat \ {0}
    /\ body' \in Seq(Constructs)
    /\ at' = [t \in Workers' |-> 1] /\ pc' = [t \in Workers' |-> "begin"]
    /\ notes' = [t \in Workers' |-> 0]
    /\ UNCHANGED <<level, lock, localLock>>

(* A section ends.                                                         *)
Ends ==
    /\ main = "section" /\ main' # "section"
    /\ \A t \in Workers : Finished(t)
    /\ level' \in [maxActive : Int, wanted : Int, pushed : Int]
    /\ UNCHANGED <<body, lock, localLock>>

(* A section is a sequence of constructs.                                  *)
LEMMA BodiesAreSequences == Bodies \subseteq Seq(Constructs)
<1> SUFFICES ASSUME NEW b \in Bodies PROVE b \in Seq(Constructs)
  OBVIOUS
<1>1. PICK n \in 1..MaxLength : b \in [1..n -> Constructs]
  BY DEF Bodies
<1>2. n \in Nat
  BY SMT, OmpBounds
<1> QED BY SMT, <1>1, <1>2

(* A team has a thread.                                                    *)
LEMMA TeamIsPositive ==
    ASSUME TeamShapes PROVE getMaxThreadsAtNextLevel(level) \in Nat \ {0}
BY SMT, OmpBounds DEF TeamShapes, getMaxThreadsAtNextLevel

(* What a step of the team does.                                           *)
LEMMA TeamDoes ==
    ASSUME TeamShapes, [TeamNext]_ompVars
    PROVE  \/ UNCHANGED ompVars \/ OutsideSection \/ Forks \/ Ends \/ BarrierOpens
           \/ \E t : Moves(t) /\ Locks(t) /\ Notes(t)
<1>1. CASE CallStarts \/ CallEnds
  BY <1>1 DEF CallStarts, CallEnds, OutsideSection, TeamShapes
<1>2. ASSUME NEW n \in 0..MaxPushed, omp_set_num_threads(n) \/ kmpc_push_num_threads(n) PROVE OutsideSection
  <2>1. n \in Int
    BY SMT, OmpBounds
  <2> QED BY SMT, <1>2, <2>1 DEF omp_set_num_threads, kmpc_push_num_threads, OutsideSection, TeamShapes
<1>3. ASSUME NEW n \in (-1)..1, omp_set_max_active_levels(n) PROVE OutsideSection
  BY SMT, <1>3 DEF omp_set_max_active_levels, OutsideSection, TeamShapes
<1>4. ASSUME NEW b \in Bodies, kmpc_fork_call(b) PROVE Forks
  BY <1>4, BodiesAreSequences, TeamIsPositive DEF kmpc_fork_call, Forks, Workers
<1>5. CASE SectionReturns \/ SectionThrows
  BY SMT, <1>5 DEF SectionReturns, SectionThrows, Ends, Finished, teamVars, TeamShapes
<1> QED BY <1>1, <1>2, <1>3, <1>4, <1>5, WorkerDoes DEF TeamNext

(* No step changes the shapes.                                             *)
LEMMA TeamShapesKept == TeamShapes /\ [TeamNext]_ompVars => TeamShapes'
<1> SUFFICES ASSUME TeamShapes, [TeamNext]_ompVars PROVE TeamShapes'
  OBVIOUS
<1>1. CASE UNCHANGED ompVars
  BY <1>1 DEF TeamShapes, ompVars, mainVars, teamVars, Workers
<1>2. CASE OutsideSection \/ Ends
  BY <1>2 DEF OutsideSection, Ends, TeamShapes
<1>3. CASE Forks
  BY SMT, <1>3 DEF Forks, TeamShapes
<1>4. CASE BarrierOpens
  BY SMT, <1>4 DEF BarrierOpens, TeamShapes, mainVars, Workers
<1>5. ASSUME NEW t, Moves(t), Notes(t) PROVE TeamShapes'
  <2>1. UNCHANGED <<level, main, team, body>> /\ Workers' = Workers /\ main = "section" /\ t \in Workers
    BY <1>5 DEF Moves, mainVars, Workers
  <2>2. at' \in [Workers -> Nat \ {0}]
    <3>1. at \in [Workers -> Nat \ {0}] /\ at[t] \in Nat \ {0}
      BY <2>1 DEF TeamShapes
    <3>2. at'[t] \in Nat \ {0} /\ at' = [at EXCEPT ![t] = at'[t]]
      BY SMT, <1>5, <3>1 DEF Moves
    <3> QED BY <2>1, <3>1, <3>2
  <2>3. pc' \in [Workers -> {"begin", "critical", "reduce", "unlocked", "barrier", "end", "failed"}]
    BY <1>5, <2>1 DEF Moves, TeamShapes
  <2>4. notes' \in [Workers -> Int]
    BY SMT, <1>5, <2>1 DEF Notes, TeamShapes
  <2> QED BY <2>1, <2>2, <2>3, <2>4 DEF TeamShapes
<1> QED BY <1>1, <1>2, <1>3, <1>4, <1>5, TeamDoes

(* Every step keeps the invariant for locks.                               *)
LEMMA LockStep == LockInv /\ [TeamNext]_ompVars => LockInv'
<1> SUFFICES ASSUME LockInv, [TeamNext]_ompVars PROVE LockInv'
  OBVIOUS
<1>0. TeamShapes /\ TeamShapes'
  BY TeamShapesKept DEF LockInv
<1>1. CASE UNCHANGED ompVars
  BY <1>0, <1>1 DEF LockInv, ompVars, mainVars, teamVars, Workers
<1>2. CASE OutsideSection
  BY <1>0, <1>2 DEF LockInv, OutsideSection, teamVars
<1>3. CASE Forks
  <2>1. lock' = -1 /\ localLock' = -1 /\ \A t \in Workers' : t # -1 /\ pc'[t] = "begin"
    <3>1. \A t \in Workers' : t # -1
      BY SMT, <1>3 DEF Forks, Workers
    <3> QED BY <1>3, <3>1 DEF LockInv, Forks
  <2> QED BY <1>0, <1>3, <2>1 DEF LockInv, Forks
<1>4. CASE Ends
  BY <1>0, <1>4 DEF LockInv, Ends, Finished
<1>5. CASE BarrierOpens
  <2>1. /\ main = "section" /\ main' = main /\ team' = team /\ Workers' = Workers
        /\ UNCHANGED <<lock, localLock>>
        /\ \A t \in Workers : pc[t] = "barrier" /\ pc'[t] \in {"begin", "end"}
    BY <1>5 DEF BarrierOpens, mainVars, Workers
  <2> QED BY <1>0, <2>1 DEF LockInv
<1>6. ASSUME NEW t, Moves(t), Locks(t) PROVE LockInv'
  <2>1. UNCHANGED <<main, team>> /\ Workers' = Workers /\ main = "section" /\ t \in Workers
    BY <1>6 DEF Moves, mainVars, Workers
  <2>2. \A u \in Workers \ {t} : pc'[u] = pc[u]
    BY <1>0, <1>6, <2>1 DEF Moves, TeamShapes
  <2>3. team \in Nat \ {0} /\ (team <= 1 => \A u \in Workers : u = t) /\ -1 \notin Workers
    BY SMT, <1>0, <2>1 DEF TeamShapes, Workers
  <2>4. lock' \in {-1} \cup Workers /\ localLock' \in {-1} \cup Workers
    BY <1>6, <2>1 DEF LockInv, Locks
  <2>5. \A u \in Workers : lock' = u <=> pc'[u] = "critical" /\ team > 1
    <3>1. \A u \in Workers : lock = u <=> pc[u] = "critical" /\ team > 1
      BY <2>1 DEF LockInv
    <3>2. CASE UNCHANGED lock /\ team > 1
      <4>1. pc[t] = "critical" <=> pc'[t] = "critical"
        BY SMT, <1>6, <2>1, <2>3, <3>1, <3>2 DEF Locks
      <4> QED BY <2>2, <3>1, <3>2, <4>1
    <3>3. CASE team <= 1
      BY SMT, <1>6, <2>1, <2>2, <2>3, <3>1, <3>3 DEF Locks, LockInv
    <3>4. CASE team > 1 /\ pc[t] = "critical"
      BY <1>6, <2>1, <2>2, <2>3, <3>1, <3>4 DEF Locks
    <3>5. CASE team > 1 /\ pc'[t] = "critical" /\ pc[t] = "begin"
      BY SMT, <1>6, <2>1, <2>2, <2>3, <3>1, <3>5 DEF Locks
    <3> QED BY SMT, <1>6, <2>3, <3>2, <3>3, <3>4, <3>5 DEF Locks
  <2>6. \A u \in Workers : localLock' = u <=> pc'[u] = "reduce"
    BY SMT, <1>6, <2>1, <2>2, <2>3 DEF LockInv, Locks
  <2> QED BY <1>0, <2>1, <2>4, <2>5, <2>6 DEF LockInv
<1> QED BY <1>0, <1>1, <1>2, <1>3, <1>4, <1>5, <1>6, TeamDoes

(* No two threads of a team are in a critical section at the same time,    *)
(* and no two reduce into the shared variables at the same time            *)
(* (SectionsExclude), for any body and any size of team.                   *)
THEOREM SectionsStayExclusive == TeamSpec => []SectionsExclude
<1>1. TeamInit => LockInv
  <2> SUFFICES ASSUME TeamInit PROVE LockInv
    OBVIOUS
  <2>1. body \in Seq(Constructs)
    BY SMT DEF TeamInit
  <2> QED BY SMT, <2>1 DEF TeamInit, LockInv, TeamShapes
<1>2. LockInv => SectionsExclude
  <2> SUFFICES ASSUME LockInv, main = "section", NEW t \in Workers, NEW u \in Workers, t # u,
                      NEW where \in {"critical", "reduce"}, {pc[t], pc[u]} = {where}
               PROVE  FALSE
    BY DEF SectionsExclude
  <2>1. pc[t] = where /\ pc[u] = where
    OBVIOUS
  <2>2. team > 1 /\ team \in Nat
    BY SMT DEF LockInv, TeamShapes, Workers
  <2> QED BY <2>1, <2>2 DEF LockInv
<1> QED BY <1>1, <1>2, LockStep, PTL DEF TeamSpec

(* There are finitely many reductions.                                     *)
LEMMA NotifiedIsFinite ==
    ASSUME TeamShapes, NEW t, NEW u
    PROVE  IsFiniteSet(Notified(t)) /\ IsFiniteSet(Notified(t) \ Notified(u))
<1>1. IsFiniteSet(1..Len(body))
  BY SMT, FS_Interval DEF TeamShapes
<1>2. Notified(t) \subseteq 1..Len(body) /\ Notified(t) \ Notified(u) \subseteq 1..Len(body)
  BY DEF Notified
<1> QED BY <1>1, <1>2, FS_Subset

(* The sets of reductions of which the threads have told stay the same.    *)
LEMMA SameNotesKeep ==
    ASSUME NoteInv, TeamShapes', main = "section", main' = "section",
           UNCHANGED <<notes, body>>, Workers' = Workers,
           \A u \in Workers : Notified(u)' = Notified(u),
           \A u \in Workers : pc'[u] = "barrier" => at'[u] <= Len(body) /\ body[at'[u]] \in Meetings,
           \A u, v \in Workers : \A k \in 1..Len(body) :
                body[k] \in Meetings /\ at'[u] > k => at'[v] > k
    PROVE  NoteInv'
<1>1. 0 \in Workers
  BY SMT DEF NoteInv, TeamShapes, Workers
<1> QED BY <1>1 DEF NoteInv

(* What a step of one thread leaves alone.                                 *)
LEMMA MovesFacts ==
    ASSUME TeamShapes, NEW t, Moves(t)
    PROVE  /\ main = "section" /\ main' = "section" /\ body' = body /\ Workers' = Workers
           /\ t \in Workers /\ 0 \in Workers
           /\ at[t] \in 1..Len(body) /\ Len(body) \in Nat
           /\ at'[t] = at[t] \/ (at'[t] = at[t] + 1 /\ pc'[t] \in {"begin", "end"})
           /\ \A u \in Workers \ {t} : at'[u] = at[u] /\ pc'[u] = pc[u]
           /\ \A u \in Workers : at[u] \in Nat \ {0} /\ at'[u] \in Nat \ {0}
<1>1. /\ main = "section" /\ main' = main /\ body' = body /\ Workers' = Workers
      /\ t \in Workers /\ 0 \in Workers
  BY SMT DEF Moves, mainVars, TeamShapes, Workers
<1>2. at \in [Workers -> Nat \ {0}] /\ pc = [u \in Workers |-> pc[u]] /\ Len(body) \in Nat
  BY SMT, <1>1 DEF TeamShapes
<1>3. at[t] \in 1..Len(body) /\ (at'[t] = at[t] \/ (at'[t] = at[t] + 1 /\ pc'[t] \in {"begin", "end"}))
  BY SMT, <1>1, <1>2 DEF Moves
<1>4. \A u \in Workers \ {t} : at'[u] = at[u] /\ pc'[u] = pc[u]
  BY <1>1, <1>2 DEF Moves
<1> QED BY SMT, <1>1, <1>2, <1>3, <1>4

(* The other threads have told of what they had.                           *)
LEMMA OthersNotify ==
    ASSUME TeamShapes, NEW t, Moves(t), NEW u \in Workers \ {t}
    PROVE  Notified(u)' = Notified(u)
BY SMT, MovesFacts DEF Notified

(* A step without a notification keeps the invariant for reductions.       *)
LEMMA QuietKeeps ==
    ASSUME NoteInv, TeamShapes', NEW t, Moves(t), notes' = notes, pc[t] # "barrier",
           \/ at'[t] = at[t] /\ (pc'[t] = "barrier" => body[at[t]] = "barrier")
           \/ at'[t] = at[t] + 1 /\ body[at[t]] \notin Meetings \cup Reductions
    PROVE  NoteInv'
<1>1. TeamShapes
  BY DEF NoteInv
<1>2. Notified(t)' = Notified(t)
  <2> SUFFICES ASSUME NEW k \in 1..Len(body), body[k] \in Reductions
               PROVE  /\ at[t] > k \/ (at[t] = k /\ body[k] = "reduce" /\ pc[t] = "barrier") <=> at[t] > k
                      /\ at'[t] > k \/ (at'[t] = k /\ body[k] = "reduce" /\ pc'[t] = "barrier") <=> at[t] > k
    BY SMT, <1>1, MovesFacts DEF Notified
  <2> QED BY SMT, <1>1, MovesFacts
<1>3. \A u \in Workers : Notified(u)' = Notified(u)
  BY <1>1, <1>2, OthersNotify
<1>4. \A u \in Workers : pc'[u] = "barrier" => at'[u] <= Len(body) /\ body[at'[u]] \in Meetings
  BY SMT, <1>1, MovesFacts DEF NoteInv, Meetings
<1>5. \A u, v \in Workers : \A k \in 1..Len(body) :
         body[k] \in Meetings /\ at'[u] > k => at'[v] > k
  <2> SUFFICES ASSUME NEW u \in Workers, NEW v \in Workers, NEW k \in 1..Len(body),
                      body[k] \in Meetings, at'[u] > k
               PROVE  at'[v] > k
    OBVIOUS
  <2>1. at[u] > k
    BY SMT, <1>1, MovesFacts
  <2>2. at[v] > k
    BY <1>1, <2>1, MovesFacts DEF NoteInv
  <2> QED BY SMT, <1>1, <2>2, MovesFacts
<1> QED BY <1>1, <1>3, <1>4, <1>5, MovesFacts, SameNotesKeep

(* A notification and its being consumed keep it.                          *)
LEMMA NotifyKeeps ==
    ASSUME NoteInv, TeamShapes', NEW t, Moves(t), pc[t] = "unlocked", body[at[t]] \in Reductions,
           \/ t # 0 /\ notes' = [notes EXCEPT ![t] = @ + 1]
           \/ /\ t = 0
              /\ \A u \in Workers \ {0} : notes[u] > 0
              /\ notes' = [u \in Workers |-> IF u = 0 THEN 0 ELSE notes[u] - 1],
           \/ body[at[t]] = "reduce" /\ at'[t] = at[t] /\ pc'[t] = "barrier"
           \/ body[at[t]] = "reduce_nowait" /\ at'[t] = at[t] + 1
    PROVE  NoteInv'
<1> DEFINE k0 == at[t]
<1>1. TeamShapes /\ notes \in [Workers -> Int]
  BY MovesFacts DEF NoteInv, TeamShapes
<1>2. Notified(t)' = Notified(t) \cup {k0} /\ k0 \notin Notified(t)
  <2> SUFFICES ASSUME NEW k \in 1..Len(body), body[k] \in Reductions
               PROVE  /\ at[t] > k \/ (at[t] = k /\ body[k] = "reduce" /\ pc[t] = "barrier") <=> at[t] > k
                      /\ at'[t] > k \/ (at'[t] = k /\ body[k] = "reduce" /\ pc'[t] = "barrier")
                            <=> at[t] > k \/ k = at[t]
    BY SMT, <1>1, MovesFacts DEF Notified
  <2> QED BY SMT, <1>1, MovesFacts
<1>3. \A u \in Workers \ {t} : Notified(u)' = Notified(u)
  BY <1>1, OthersNotify
<1>4. \A u \in Workers : pc'[u] = "barrier" => at'[u] <= Len(body) /\ body[at'[u]] \in Meetings
  BY SMT, <1>1, MovesFacts DEF NoteInv, Meetings
<1>5. \A u, v \in Workers : \A k \in 1..Len(body) :
         body[k] \in Meetings /\ at'[u] > k => at'[v] > k
  <2> SUFFICES ASSUME NEW u \in Workers, NEW v \in Workers, NEW k \in 1..Len(body),
                      body[k] \in Meetings, at'[u] > k
               PROVE  at'[v] > k
    OBVIOUS
  <2>1. at[u] > k
    BY SMT, <1>1, MovesFacts DEF Meetings
  <2>2. at[v] > k
    BY <1>1, <2>1, MovesFacts DEF NoteInv
  <2> QED BY SMT, <1>1, <2>2, MovesFacts
<1>6. ASSUME NEW u \in Workers \ {0}
      PROVE  Notified(0)' \subseteq Notified(u)' /\ notes'[u] = Cardinality(Notified(u)' \ Notified(0)')
  <2>1. Notified(0) \subseteq Notified(u) /\ notes[u] = Cardinality(Notified(u) \ Notified(0))
    BY <1>1, MovesFacts DEF NoteInv
  <2>2. IsFiniteSet(Notified(u) \ Notified(0))
    BY <1>1, NotifiedIsFinite
  <2>3. CASE t # 0 /\ u # t
    <3>1. Notified(u)' = Notified(u) /\ Notified(0)' = Notified(0)
      BY <1>1, <1>3, <2>3, MovesFacts
    <3>2. notes'[u] = notes[u]
      BY <1>1, <2>3
    <3> QED BY <2>1, <3>1, <3>2
  <2>4. CASE t # 0 /\ u = t
    <3>1. Notified(0)' = Notified(0) /\ notes'[u] = notes[u] + 1
      BY <1>1, <1>3, <2>4, MovesFacts
    <3>2. Notified(u)' \ Notified(0)' = (Notified(u) \ Notified(0)) \cup {k0} /\ k0 \notin Notified(u) \ Notified(0)
      BY SMT, <1>2, <2>1, <2>4, <3>1
    <3>3. Cardinality((Notified(u) \ Notified(0)) \cup {k0}) = Cardinality(Notified(u) \ Notified(0)) + 1
      BY <2>2, <3>2, FS_AddElement
    <3> QED BY <1>2, <2>1, <2>4, <3>1, <3>2, <3>3
  <2>5. CASE t = 0
    <3>1. notes[u] > 0 /\ notes'[u] = notes[u] - 1 /\ Notified(u)' = Notified(u)
      BY SMT, <1>1, <1>3, <2>5, MovesFacts
    <3>2. PICK j : j \in Notified(u) \ Notified(0)
      <4>1. Cardinality({}) = 0 /\ Cardinality(Notified(u) \ Notified(0)) > 0
        BY <2>1, <3>1, FS_EmptySet
      <4>2. Notified(u) \ Notified(0) # {}
        BY SMT, <4>1
      <4> QED BY <4>2
    <3>3. k0 \in Notified(u)
      <4>1. j \in 1..Len(body) /\ body[j] \in Reductions /\ ~(at[0] > j)
        BY <3>2 DEF Notified
      <4>2. at[u] > j \/ (at[u] = j /\ body[j] = "reduce" /\ pc[u] = "barrier")
        BY <3>2 DEF Notified
      <4>3. at[u] \in Nat /\ k0 \in 1..Len(body) /\ k0 <= j
        BY SMT, <1>1, <2>5, <4>1, MovesFacts
      <4> QED BY SMT, <4>1, <4>2, <4>3 DEF Notified
    <3>4. Notified(0)' = Notified(0) \cup {k0}
      BY <1>2, <2>5
    <3>5. Notified(u)' \ Notified(0)' = (Notified(u) \ Notified(0)) \ {k0} /\ k0 \in Notified(u) \ Notified(0)
      BY SMT, <1>2, <2>5, <3>1, <3>3, <3>4
    <3>6. Cardinality((Notified(u) \ Notified(0)) \ {k0}) = Cardinality(Notified(u) \ Notified(0)) - 1
      BY <2>2, <3>5, FS_RemoveElement
    <3> QED BY SMT, <2>1, <3>1, <3>3, <3>4, <3>5, <3>6
  <2> QED BY <2>3, <2>4, <2>5
<1> QED BY <1>1, <1>4, <1>5, <1>6, MovesFacts DEF NoteInv

(* The opening of a barrier keeps it.                                      *)
LEMMA BarrierKeeps ==
    ASSUME NoteInv, TeamShapes', BarrierOpens
    PROVE  NoteInv'
<1>1. /\ main = "section" /\ main' = "section" /\ body' = body /\ Workers' = Workers /\ notes' = notes
      /\ \A t \in Workers : pc[t] = "barrier" /\ at'[t] = at[t] + 1 /\ pc'[t] \in {"begin", "end"}
  BY DEF BarrierOpens, mainVars, Workers
<1>2. \A t \in Workers : at[t] \in 1..Len(body) /\ body[at[t]] \in Meetings
  BY SMT, <1>1 DEF NoteInv, TeamShapes
<1>3. \A t, u \in Workers : at[t] = at[u]
  <2> SUFFICES ASSUME NEW t \in Workers, NEW u \in Workers PROVE ~(at[t] > at[u])
    BY SMT, <1>2
  <2> QED BY SMT, <1>1, <1>2 DEF NoteInv
<1>4. ASSUME NEW t \in Workers PROVE Notified(t)' = Notified(t)
  <2> SUFFICES ASSUME NEW k \in 1..Len(body), body[k] \in Reductions
               PROVE  at[t] > k \/ (at[t] = k /\ body[k] = "reduce" /\ pc[t] = "barrier")
                      <=> at'[t] > k \/ (at'[t] = k /\ body[k] = "reduce" /\ pc'[t] = "barrier")
    BY SMT, <1>1 DEF Notified
  <2> QED BY SMT, <1>1, <1>2 DEF Reductions, Meetings
<1>5. \A u, v \in Workers : at'[u] = at'[v]
  BY SMT, <1>1, <1>3
<1> QED BY <1>1, <1>4, <1>5, SameNotesKeep

(* Every step keeps the invariant for reductions.                          *)
LEMMA NoteStep == NoteInv /\ [TeamNext]_ompVars => NoteInv'
<1> SUFFICES ASSUME NoteInv, [TeamNext]_ompVars PROVE NoteInv'
  OBVIOUS
<1>0. TeamShapes /\ TeamShapes'
  BY TeamShapesKept DEF NoteInv
<1>1. CASE UNCHANGED ompVars
  BY SMT, <1>0, <1>1 DEF NoteInv, Notified, ompVars, mainVars, teamVars, Workers
<1>2. CASE OutsideSection \/ Ends
  BY <1>0, <1>2 DEF NoteInv, OutsideSection, Ends
<1>3. CASE Forks
  <2>1. \A t \in Workers' : at'[t] = 1 /\ pc'[t] = "begin" /\ notes'[t] = 0
    BY <1>3 DEF Forks
  <2>2. 0 \in Workers'
    <3>1. team' \in Nat \ {0}
      BY <1>3 DEF Forks
    <3>2. Workers' = 0..(team' - 1)
      BY DEF Workers
    <3>3. ASSUME NEW n \in Nat \ {0} PROVE 0 \in 0..(n - 1)
      BY SMT
    <3> QED BY <3>1, <3>2, <3>3
  <2>3. \A t \in Workers' : Notified(t)' = {}
    BY SMT, <2>1 DEF Notified
  <2>4. Cardinality({}) = 0
    BY FS_EmptySet
  <2>5. \A t \in Workers' : Notified(t)' \ Notified(0)' = {}
    BY <2>3
  <2>6. \A k \in 1..Len(body') : \A t \in Workers' : ~(at'[t] > k)
    BY SMT, <2>1
  <2> QED BY <1>0, <2>1, <2>2, <2>3, <2>4, <2>5, <2>6 DEF NoteInv
<1>4. ASSUME NEW t, Moves(t), Notes(t) PROVE NoteInv'
  BY <1>0, <1>4, QuietKeeps, NotifyKeeps DEF Notes
<1> QED BY <1>0, <1>1, <1>2, <1>3, <1>4, BarrierKeeps, TeamDoes

(* When thread 0 is past a reduction all the others are                    *)
(* (MasterLeavesLast), for any body, any size of team and with reductions  *)
(* that do not wait: counting notifications per thread is enough.          *)
THEOREM MasterStaysLast == TeamSpec => []MasterLeavesLast
<1>1. TeamInit => NoteInv
  <2> SUFFICES ASSUME TeamInit PROVE NoteInv
    OBVIOUS
  <2>1. body \in Seq(Constructs)
    BY SMT DEF TeamInit
  <2> QED BY SMT, <2>1 DEF TeamInit, NoteInv, TeamShapes
<1>2. NoteInv => MasterLeavesLast
  <2> SUFFICES ASSUME NoteInv, main = "section", NEW t \in Workers, NEW k \in 1..Len(body),
                      body[k] \in Reductions, at[0] > k
               PROVE  at[t] > k
    BY DEF MasterLeavesLast
  <2>1. k \in Notified(0) /\ 0 \in Workers
    BY SMT DEF Notified, NoteInv, TeamShapes, Workers
  <2>2. t # 0 => k \in Notified(t)
    BY <2>1 DEF NoteInv
  <2>3. CASE body[k] = "reduce"
    BY <2>1, <2>3 DEF NoteInv, Meetings
  <2> QED BY <2>2, <2>3 DEF Notified
<1> QED BY <1>1, <1>2, NoteStep, PTL DEF TeamSpec
=============================================================================
