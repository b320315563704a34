------------------------------ MODULE Isolation ------------------------------
(***************************************************************************)
(* Network isolation of Faaslets (NETNS_MODE on).  A pool thread claims a  *)
(* namespace when it executes its first task and joins the one that the    *)
(* Faaslet's ns member names; shutdown gives the member's one back.        *)
(***************************************************************************)
EXTENDS Naturals, Sequences, FiniteSets

CONSTANTS
    NetFaaslets,
    PoolThreads,    \* pool threads of a Faaslet, a set
    MaxNetNs        \* MAX_NET_NAMESPACES

ASSUME NamespacesExist == MaxNetNs \in Nat \ {0}

Names == 1..MaxNetNs
NoNs == 0

VARIABLES
    namespaces,     \* the free namespaces, claimed from the back
    initialised,    \* namespacesInitialised
    ns,             \* faaslet |-> its member ns
    down,           \* Faaslets that are shut down
    taskPc,         \* <<faaslet, thread>> |-> "idle", "claimed" or "running"
    joined          \* <<faaslet, thread>> |-> namespace the thread is in

netVars == <<namespaces, initialised, ns, down, taskPc, joined>>
NetThreads == NetFaaslets \X PoolThreads

NetInit ==
    /\ namespaces = <<>> /\ initialised = FALSE
    /\ ns = [f \in NetFaaslets |-> NoNs]
    /\ down = {}
    /\ taskPc = [t \in NetThreads |-> "idle"]
    /\ joined = [t \in NetThreads |-> NoNs]

(* The list is filled at the first claim; n is the one claimed.            *)
claimNetworkNamespace(n) ==
    LET free == IF namespaces = <<>> /\ ~initialised THEN [i \in Names |-> i] ELSE namespaces
    IN  /\ free # <<>>
        /\ n = free[Len(free)]
        /\ namespaces' = SubSeq(free, 1, Len(free) - 1)
        /\ initialised' = TRUE

(* The first task of a thread, threadIsIsolated being false: it claims a   *)
(* namespace for the Faaslet's member, or fails if they have run out.      *)
ClaimForTask(f, i) ==
    /\ f \notin down /\ taskPc[<<f, i>>] = "idle" /\ joined[<<f, i>>] = NoNs
    /\ \E n \in Names : claimNetworkNamespace(n) /\ ns' = [ns EXCEPT ![f] = n]
    /\ taskPc' = [taskPc EXCEPT ![<<f, i>>] = "claimed"]
    /\ UNCHANGED <<down, joined>>

(* ns->addCurrentThread(): the member may be another thread's by now.      *)
JoinNamespace(f, i) ==
    /\ taskPc[<<f, i>>] = "claimed"
    /\ joined' = [joined EXCEPT ![<<f, i>>] = ns[f]]
    /\ taskPc' = [taskPc EXCEPT ![<<f, i>>] = "running"]
    /\ UNCHANGED <<namespaces, initialised, ns, down>>

(* setns fails: the exception ends the task, the thread is not isolated.   *)
JoinFails(f, i) ==
    /\ taskPc[<<f, i>>] = "claimed"
    /\ taskPc' = [taskPc EXCEPT ![<<f, i>>] = "idle"]
    /\ UNCHANGED <<namespaces, initialised, ns, down, joined>>

(* A later task of a thread that is isolated.                              *)
NextTask(f, i) ==
    /\ f \notin down /\ taskPc[<<f, i>>] = "idle" /\ joined[<<f, i>>] # NoNs
    /\ taskPc' = [taskPc EXCEPT ![<<f, i>>] = "running"]
    /\ UNCHANGED <<namespaces, initialised, ns, down, joined>>

TaskEnds(f, i) ==
    /\ taskPc[<<f, i>>] = "running"
    /\ taskPc' = [taskPc EXCEPT ![<<f, i>>] = "idle"]
    /\ UNCHANGED <<namespaces, initialised, ns, down, joined>>

returnNetworkNamespace(n) == namespaces' = Append(namespaces, n)

(* Mutant: a Faaslet is shut down although its threads have tasks. *)
Shutdown_Busy(f) ==
    /\ f \notin down
    /\ IF ns[f] # NoNs THEN returnNetworkNamespace(ns[f]) ELSE UNCHANGED namespaces
    /\ down' = down \cup {f}
    /\ UNCHANGED <<initialised, ns, taskPc, joined>>

(* The scheduler shuts a Faaslet down when none of its threads has a task; *)
(* its pool threads end.                                                   *)
Shutdown(f) ==
    /\ f \notin down /\ \A i \in PoolThreads : taskPc[<<f, i>>] = "idle"
    /\ IF ns[f] # NoNs THEN returnNetworkNamespace(ns[f]) ELSE UNCHANGED namespaces
    /\ down' = down \cup {f}
    /\ joined' = [t \in NetThreads |-> IF t[1] = f THEN NoNs ELSE joined[t]]
    /\ UNCHANGED <<initialised, ns, taskPc>>

(* A new Faaslet, with new threads. *)
Start(f) ==
    /\ f \in down
    /\ down' = down \ {f}
    /\ ns' = [ns EXCEPT ![f] = NoNs]
    /\ UNCHANGED <<namespaces, initialised, taskPc, joined>>

NetNext ==
    \E f \in NetFaaslets :
       \/ Shutdown(f) \/ Start(f)
       \/ \E i \in PoolThreads :
             ClaimForTask(f, i) \/ JoinNamespace(f, i) \/ JoinFails(f, i)
             \/ NextTask(f, i) \/ TaskEnds(f, i)

(***************************************************************************)
(* Properties                                                              *)
(***************************************************************************)
Running(t) == taskPc[t] = "running"

(* "Each function executes in its own network namespace": tasks of         *)
(* different Faaslets are never in one namespace at the same time.         *)
OwnNamespace ==
    \A t, u \in NetThreads : Running(t) /\ Running(u) /\ t[1] # u[1] => joined[t] # joined[u]

(* A function has one namespace, the "N" of its interfaces and their       *)
(* traffic shaping: all its threads are in it.                             *)
OneNamespacePerFunction ==
    \A t, u \in NetThreads : Running(t) /\ Running(u) /\ t[1] = u[1] => joined[t] = joined[u]
=============================================================================
