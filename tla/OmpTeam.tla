------------------------------- MODULE OmpTeam -------------------------------
(***************************************************************************)
(* OpenMP parallel sections.  The thread-local Level of the thread that    *)
(* runs a function says how many threads its next section gets; the fork   *)
(* runs a team as a batch of tasks, which meet in critical sections,       *)
(* barriers and reductions of their point-to-point group.  The Level stays *)
(* with the host thread from one function call to the next.                *)
(***************************************************************************)
EXTENDS Integers, Sequences, FiniteSets

CONSTANTS
    Cores,          \* getUsableCores
    Constructs,     \* what the body of a section is made of
    MaxLength,      \* constructs in a body
    MaxPushed,      \* largest num_threads asked for
    MaxSections,    \* parallel sections run
    MaxCalls        \* function calls on the host thread

ASSUME OmpBounds ==
    /\ Cores \in Nat \ {0, 1} /\ MaxPushed \in Nat /\ MaxLength \in Nat
    /\ Constructs \subseteq {"critical", "barrier", "reduce", "reduce_nowait", "single", "nested"}

Bodies == UNION {[1..n -> Constructs] : n \in 1..MaxLength}

VARIABLES
    level,          \* currentLevel of the host thread that runs functions
    main,           \* "idle", "running" a function, or in a "section"
    calls, sections,
    asked,          \* num_threads of the coming section in the program, 0 if none
    team,           \* size of the team
    body,           \* the section's constructs
    at, pc,         \* thread |-> construct it is in, and where in it
    lock,           \* who holds the group's lock, -1 for no one
    localLock,      \* who holds its local lock
    notes           \* thread |-> notifications not yet received by thread 0

mainVars == <<level, main, calls, sections, asked, team, body>>
teamVars == <<at, pc, lock, localLock, notes>>
ompVars == <<mainVars, teamVars>>

Workers == 0..(team - 1)

TeamInit ==
    /\ level = [maxActive |-> 1, wanted |-> -1, pushed |-> -1]
    /\ main = "idle" /\ calls = 0 /\ sections = 0 /\ asked = 0
    /\ team = 0 /\ body = <<>>
    /\ at = <<>> /\ pc = <<>> /\ lock = -1 /\ localLock = -1 /\ notes = <<>>

(***************************************************************************)
(* The thread that runs the function                                       *)
(***************************************************************************)
CallStarts ==
    /\ main = "idle" /\ calls < MaxCalls
    /\ calls' = calls + 1
    /\ main' = "running"
    /\ asked' = 0
    /\ UNCHANGED <<level, sections, team, body, teamVars>>

CallEnds ==
    /\ main = "running" /\ asked = 0
    /\ main' = "idle"
    /\ UNCHANGED <<level, calls, sections, asked, team, body, teamVars>>

omp_set_num_threads(n) ==
    /\ main = "running" /\ asked = 0
    /\ level' = IF n > 0 THEN [level EXCEPT !.wanted = n] ELSE level
    /\ UNCHANGED <<main, calls, sections, asked, team, body, teamVars>>

omp_set_max_active_levels(n) ==
    /\ main = "running" /\ asked = 0
    /\ level' = IF n >= 0 THEN [level EXCEPT !.maxActive = n] ELSE level
    /\ UNCHANGED <<main, calls, sections, asked, team, body, teamVars>>

(* The compiler emits it before the fork of a section with num_threads.    *)
kmpc_push_num_threads(n) ==
    /\ main = "running" /\ asked = 0
    /\ sections < MaxSections
    /\ level' = IF n > 0 THEN [level EXCEPT !.pushed = n] ELSE level
    /\ asked' = n
    /\ UNCHANGED <<main, calls, sections, team, body, teamVars>>

(* The running thread's level has no active level above it. *)
getMaxThreadsAtNextLevel(l) ==
    IF l.maxActive <= 0 THEN 1
    ELSE IF l.pushed > 0 THEN l.pushed
    ELSE IF l.wanted > 0 THEN l.wanted
    ELSE Cores - 1

kmpc_fork_call(b) ==
    /\ main = "running" /\ sections < MaxSections
    /\ sections' = sections + 1
    /\ team' = getMaxThreadsAtNextLevel(level)
    /\ body' = b
    /\ at' = [t \in 0..(team' - 1) |-> 1]
    /\ pc' = [t \in 0..(team' - 1) |-> "begin"]
    /\ notes' = [t \in 0..(team' - 1) |-> 0]
    /\ main' = "section"
    /\ UNCHANGED <<level, calls, asked, lock, localLock>>

Finished(t) == pc[t] \in {"end", "failed"}

(* All results are zero: the number pushed for this section is dropped.    *)
SectionReturns ==
    /\ main = "section"
    /\ \A t \in Workers : pc[t] = "end"
    /\ level' = [level EXCEPT !.pushed = -1]
    /\ asked' = 0
    /\ main' = "running"
    /\ UNCHANGED <<calls, sections, team, body, teamVars>>

(* "OpenMP threads failed": the exception ends the function.               *)
SectionThrows ==
    /\ main = "section"
    /\ \A t \in Workers : Finished(t)
    /\ \E t \in Workers : pc[t] = "failed"
    /\ asked' = 0
    /\ main' = "idle"
    /\ UNCHANGED <<level, calls, sections, team, body, teamVars>>

(***************************************************************************)
(* The team                                                                *)
(***************************************************************************)
In(t, construct, where) ==
    /\ main = "section" /\ t \in Workers
    /\ at[t] <= Len(body) /\ body[at[t]] \in construct /\ pc[t] = where

Goto(t, where) == pc' = [pc EXCEPT ![t] = where] /\ at' = at

Advance(t) ==
    /\ at' = [at EXCEPT ![t] = at[t] + 1]
    /\ pc' = [pc EXCEPT ![t] = IF at[t] = Len(body) THEN "end" ELSE "begin"]

(* Mutant: the lock is taken only by teams of more than two. *)
kmpc_critical_SkipsPairs(t) ==
    /\ In(t, {"critical"}, "begin")
    /\ \/ team <= 2 /\ UNCHANGED lock
       \/ team > 2 /\ lock = -1 /\ lock' = t
    /\ Goto(t, "critical")
    /\ UNCHANGED <<mainVars, localLock, notes>>

(* A team of one does not lock. *)
kmpc_critical(t) ==
    /\ In(t, {"critical"}, "begin")
    /\ \/ team <= 1 /\ UNCHANGED lock
       \/ team > 1 /\ lock = -1 /\ lock' = t
    /\ Goto(t, "critical")
    /\ UNCHANGED <<mainVars, localLock, notes>>

(* Mutant: the lock is kept by teams of two. *)
kmpc_end_critical_KeepsLock(t) ==
    /\ In(t, {"critical"}, "critical")
    /\ lock' = IF team > 2 THEN -1 ELSE lock
    /\ Advance(t)
    /\ UNCHANGED <<mainVars, localLock, notes>>

kmpc_end_critical(t) ==
    /\ In(t, {"critical"}, "critical")
    /\ lock' = IF team > 1 THEN -1 ELSE lock
    /\ Advance(t)
    /\ UNCHANGED <<mainVars, localLock, notes>>

(* Thread 0 of the team runs the block. *)
kmpc_single(t) ==
    /\ In(t, {"single"}, "begin")
    /\ Advance(t)
    /\ UNCHANGED <<mainVars, lock, localLock, notes>>

(* A master block too: thread 0 is the master.                             *)
kmpc_master(t) ==
    /\ In(t, {"single"}, "begin")
    /\ Advance(t)
    /\ UNCHANGED <<mainVars, lock, localLock, notes>>

(* A fence, where the threads share memory anyway; and the end of a loop.  *)
kmpc_flush(t) ==
    /\ main = "section" /\ t \in Workers /\ pc[t] = "begin"
    /\ UNCHANGED ompVars

kmpc_for_static_fini(t) ==
    /\ main = "section" /\ t \in Workers /\ pc[t] = "begin"
    /\ UNCHANGED ompVars

kmpc_barrier(t) ==
    /\ In(t, {"barrier"}, "begin")
    /\ Goto(t, "barrier")
    /\ UNCHANGED <<mainVars, lock, localLock, notes>>

(* The group lets a barrier go when the whole team has come to it.         *)
BarrierOpens ==
    /\ main = "section" /\ team > 0
    /\ \A t \in Workers : pc[t] = "barrier"
    /\ at' = [t \in Workers |-> at[t] + 1]
    /\ pc' = [t \in Workers |-> IF at[t] = Len(body) THEN "end" ELSE "begin"]
    /\ UNCHANGED <<mainVars, lock, localLock, notes>>

Reductions == {"reduce", "reduce_nowait"}

startReduceCritical(t) ==
    /\ In(t, Reductions, "begin")
    /\ localLock = -1 /\ localLock' = t
    /\ Goto(t, "reduce")
    /\ UNCHANGED <<mainVars, lock, notes>>

kmpc_reduce(t) == In(t, {"reduce"}, "begin") /\ startReduceCritical(t)

kmpc_reduce_nowait(t) == In(t, {"reduce_nowait"}, "begin") /\ startReduceCritical(t)

(* endReduceCritical: unlock ... *)
ReduceUnlock(t) ==
    /\ In(t, Reductions, "reduce")
    /\ localLock' = -1
    /\ Goto(t, "unlocked")
    /\ UNCHANGED <<mainVars, lock, notes>>

AfterNotify(t) ==
    IF body[at[t]] = "reduce" THEN Goto(t, "barrier") ELSE Advance(t)

(* Mutant: thread 0 does not wait for the others. *)
ReduceNotify_NoWait(t) ==
    /\ In(t, Reductions, "unlocked")
    /\ notes' = IF t = 0 THEN notes ELSE [notes EXCEPT ![t] = @ + 1]
    /\ AfterNotify(t)
    /\ UNCHANGED <<mainVars, lock, localLock>>

(* ... notify: thread 0 waits for a notification of each other thread ...  *)
(* and a blocking reduction ends in a barrier.                             *)
ReduceNotify(t) ==
    /\ In(t, Reductions, "unlocked")
    /\ \/ t # 0 /\ notes' = [notes EXCEPT ![t] = @ + 1]
       \/ /\ t = 0
          /\ \A u \in Workers \ {0} : notes[u] > 0
          /\ notes' = [u \in Workers |-> IF u = 0 THEN 0 ELSE notes[u] - 1]
    /\ AfterNotify(t)
    /\ UNCHANGED <<mainVars, lock, localLock>>

endReduceCritical(t) == ReduceUnlock(t) \/ ReduceNotify(t)

(* Both end their calls' critical sections.                                *)
kmpc_end_reduce(t) == In(t, {"reduce"}, pc[t]) /\ endReduceCritical(t)

kmpc_end_reduce_nowait(t) == In(t, {"reduce_nowait"}, pc[t]) /\ endReduceCritical(t)

(* A fork in a thread of a team: nested sections were removed, it throws.  *)
NestedFork(t) ==
    /\ In(t, {"nested"}, "begin")
    /\ Goto(t, "failed")
    /\ UNCHANGED <<mainVars, lock, localLock, notes>>

Worker(t) ==
    \/ kmpc_critical(t) \/ kmpc_end_critical(t) \/ kmpc_single(t) \/ kmpc_master(t)
    \/ kmpc_barrier(t) \/ kmpc_flush(t) \/ kmpc_for_static_fini(t)
    \/ kmpc_reduce(t) \/ kmpc_reduce_nowait(t)
    \/ kmpc_end_reduce(t) \/ kmpc_end_reduce_nowait(t) \/ NestedFork(t)

MaxTeam == IF Cores - 1 > MaxPushed THEN Cores - 1 ELSE MaxPushed

TeamNext ==
    \/ CallStarts \/ CallEnds \/ SectionReturns \/ SectionThrows \/ BarrierOpens
    \/ \E n \in 0..MaxPushed : omp_set_num_threads(n) \/ kmpc_push_num_threads(n)
    \/ \E n \in (-1)..1 : omp_set_max_active_levels(n)
    \/ \E b \in Bodies : kmpc_fork_call(b)
    \/ \E t \in 0..(MaxTeam - 1) : Worker(t)

(* Every task of a batch has a host thread, and the threads keep running.  *)
(* A task may be passed over at a lock only as often as others use it.     *)
TeamFairness ==
    /\ WF_ompVars(SectionReturns) /\ WF_ompVars(SectionThrows) /\ WF_ompVars(BarrierOpens)
    /\ \A t \in 0..(MaxTeam - 1) : WF_ompVars(Worker(t))

(***************************************************************************)
(* Properties                                                              *)
(***************************************************************************)
(* Every variable has its type: the numbers of threads that functions set  *)
(* or compilers push are positive where they are set, and locks are held   *)
(* by members of the team.                                                 *)
TeamTypeOK ==
    /\ level \in [maxActive : 0..1, wanted : {-1} \cup 1..MaxPushed, pushed : {-1} \cup 1..MaxPushed]
    /\ main \in {"idle", "running", "section"}
    /\ team \in 0..MaxTeam /\ body \in Bodies \cup {<<>>}
    /\ lock \in {-1} \cup Workers /\ localLock \in {-1} \cup Workers
    /\ \A t \in Workers : notes[t] \in 0..MaxLength

(* One thread of a team at a time is in a critical section, and one at a   *)
(* time reduces into the shared variables.                                 *)
SectionsExclude ==
    \A t, u \in Workers :
       main = "section" /\ t # u =>
          \A where \in {"critical", "reduce"} : {pc[t], pc[u]} # {where}

(* "Master must make sure all other threads are done": when thread 0 is    *)
(* past a reduction every other thread has made its own reduction.         *)
MasterLeavesLast ==
    \A t \in Workers : \A k \in 1..Len(body) :
       main = "section" /\ body[k] \in Reductions /\ at[0] > k =>
          at[t] > k

(* A parallel section ends: no team waits for a thread that never comes.   *)
SectionEnds == (main = "section") ~> (main # "section")
=============================================================================
