------------------------- MODULE FaasletHostProofs --------------------------
(***************************************************************************)
(* Proofs about what a host gives its Faaslets: network namespaces         *)
(* (Isolation), a table of file descriptors (WasiFiles) and state          *)
(* (StateHost).                                                            *)
(***************************************************************************)
EXTENDS WasiFiles, Isolation, StateHost, TLAPS

(* Steps are left to Zenon unless they name SMT, which has the arithmetic. *)
USE Zenon

(***************************************************************************)
(* Isolation                                                               *)
(***************************************************************************)
(***************************************************************************)
(* Isolation                                                               *)
(***************************************************************************)
(* The free list holds names, a Faaslet has one or none, a thread is in    *)
(* one or none.                                                            *)
NetTypeOK ==
    /\ namespaces \in Seq(Names) /\ initialised \in BOOLEAN
    /\ ns \in [NetFaaslets -> Names \cup {NoNs}]
    /\ down \subseteq NetFaaslets
    /\ taskPc \in [NetThreads -> {"idle", "claimed", "running"}]
    /\ joined \in [NetThreads -> Names \cup {NoNs}]

(* A namespace is a Faaslet's as long as its member names it or one of its *)
(* threads is in it.                                                       *)
Uses(f, n) ==
    \/ f \notin down /\ ns[f] = n
    \/ \E i \in PoolThreads : joined[<<f, i>>] = n

(* Until the first claim fills the list no namespace is in use.            *)
NothingUsed == ~initialised => namespaces = <<>> /\ \A f \in NetFaaslets, n \in Names : ~Uses(f, n)

(* A namespace is on the free list at most once ...                        *)
FreeOnce == \A a, b \in 1..Len(namespaces) : a # b => namespaces[a] # namespaces[b]

(* ... and only while no Faaslet uses it.                                  *)
FreeUnused == \A f \in NetFaaslets : \A a \in 1..Len(namespaces) : ~Uses(f, namespaces[a])

(* No two Faaslets use the same namespace.                                 *)
OneUser == \A f, g \in NetFaaslets : \A n \in Names : Uses(f, n) /\ Uses(g, n) => f = g

(* A task that has claimed has a namespace to join, and one that runs is   *)
(* in one.                                                                 *)
TasksIsolated ==
    \A f \in NetFaaslets, i \in PoolThreads :
       /\ taskPc[<<f, i>>] = "claimed" => ns[f] # NoNs /\ f \notin down
       /\ taskPc[<<f, i>>] = "running" => joined[<<f, i>>] # NoNs

(* The inductive invariant. OwnNamespace speaks of running threads only;   *)
(* it is kept because the member, the threads and the free list never      *)
(* share a name.                                                           *)
NetInv == NetTypeOK /\ NothingUsed /\ FreeOnce /\ FreeUnused /\ OneUser /\ TasksIsolated

(* "Not in a namespace" is not the name of one.                            *)
LEMMA NoNsIsNoName == NoNs \notin Names
BY SMT, NamespacesExist DEF NoNs, Names

(* The empty list is the one of length 0.                                  *)
LEMMA EmptyList == ASSUME NEW S PROVE <<>> \in Seq(S) /\ \A s \in Seq(S) : s = <<>> <=> Len(s) = 0
BY SMT

(* What is in a list is of its type.                                       *)
LEMMA InList == ASSUME NEW S, NEW s \in Seq(S), NEW i \in 1..Len(s) PROVE s[i] \in S
BY SMT

(* The first m elements of a list; a claim takes the last one off.         *)
LEMMA FirstPart ==
    ASSUME NEW S, NEW s \in Seq(S), NEW m \in Nat, m <= Len(s)
    PROVE  /\ SubSeq(s, 1, m) \in Seq(S) /\ Len(SubSeq(s, 1, m)) = m
           /\ \A a \in 1..m : SubSeq(s, 1, m)[a] = s[a]
<1>1. SubSeq(s, 1, m) \in Seq(S) /\ Len(SubSeq(s, 1, m)) = m
  BY SMT
<1>2. \A a \in 1..m : SubSeq(s, 1, m)[a] = s[a]
  BY SMT
<1> QED BY <1>1, <1>2

(* A list with one more element; a namespace that is given back is         *)
(* appended.                                                               *)
LEMMA WithLast ==
    ASSUME NEW S, NEW s \in Seq(S), NEW e \in S
    PROVE  /\ Append(s, e) \in Seq(S) /\ Len(Append(s, e)) = Len(s) + 1 /\ Len(s) \in Nat
           /\ \A a \in 1..Len(s) : Append(s, e)[a] = s[a]
           /\ Append(s, e)[Len(s) + 1] = e
BY SMT

(* A host starts with nothing claimed.                                     *)
LEMMA NetInitInv == NetInit => NetInv
<1> SUFFICES ASSUME NetInit PROVE NetInv
  OBVIOUS
<1> USE NoNsIsNoName DEF NetInit
<1>1. NetTypeOK
  BY EmptyList DEF NetTypeOK
<1>2. \A f \in NetFaaslets, n \in Names : ~Uses(f, n)
  BY DEF Uses, NetThreads
<1>3. Len(namespaces) = 0
  BY EmptyList
<1>4. TasksIsolated
  BY DEF TasksIsolated, NetThreads
<1>5. NothingUsed /\ FreeOnce /\ FreeUnused
  BY SMT, <1>2, <1>3 DEF NothingUsed, FreeOnce, FreeUnused
<1>6. OneUser
  BY <1>2 DEF OneUser
<1> QED
  BY <1>1, <1>4, <1>5, <1>6 DEF NetInv

(* What a claim finds: a list of distinct namespaces that no Faaslet uses. *)
LEMMA ClaimedIsUnused ==
    ASSUME NetInv, NEW n \in Names, claimNetworkNamespace(n)
    PROVE  /\ namespaces' \in Seq(Names) /\ initialised' = TRUE
           /\ \A a, b \in 1..Len(namespaces') : a # b => namespaces'[a] # namespaces'[b]
           /\ \A a \in 1..Len(namespaces') :
                 namespaces'[a] # n /\ \A f \in NetFaaslets : ~Uses(f, namespaces'[a])
           /\ \A f \in NetFaaslets : ~Uses(f, n)
<1> DEFINE free == IF namespaces = <<>> /\ ~initialised THEN [i \in Names |-> i] ELSE namespaces
<1>1. free # <<>> /\ n = free[Len(free)] /\ namespaces' = SubSeq(free, 1, Len(free) - 1) /\ initialised' = TRUE
  BY DEF claimNetworkNamespace
<1>2. /\ free \in Seq(Names)
      /\ \A a, b \in 1..Len(free) : a # b => free[a] # free[b]
      /\ \A a \in 1..Len(free) : \A f \in NetFaaslets : ~Uses(f, free[a])
  <2>1. CASE namespaces = <<>> /\ ~initialised
    <3>1. [i \in Names |-> i] \in Seq(Names) /\ Len([i \in Names |-> i]) = MaxNetNs
      BY SMT, NamespacesExist DEF Names
    <3> QED
      BY <2>1, <3>1, NamespacesExist DEF Names, NetInv, NothingUsed
  <2>2. CASE ~(namespaces = <<>> /\ ~initialised)
    BY <2>2 DEF NetInv, NetTypeOK, FreeOnce, FreeUnused
  <2> QED BY <2>1, <2>2
<1> HIDE DEF free
<1>3. Len(free) \in Nat \ {0}
  BY SMT, <1>1, <1>2, EmptyList
<1>4. /\ namespaces' \in Seq(Names) /\ Len(namespaces') = Len(free) - 1
      /\ \A a \in 1..Len(namespaces') : namespaces'[a] = free[a]
  <2>1. Len(free) - 1 \in Nat /\ Len(free) - 1 <= Len(free)
    BY SMT, <1>3
  <2> QED BY <1>1, <1>2, <2>1, FirstPart
<1>5. /\ 1..Len(namespaces') \subseteq 1..Len(free) /\ Len(free) \in 1..Len(free)
      /\ Len(free) \notin 1..Len(namespaces')
  BY SMT, <1>3, <1>4
<1>6. \A a, b \in 1..Len(namespaces') : a # b => namespaces'[a] # namespaces'[b]
  BY <1>2, <1>4, <1>5
<1>7. ASSUME NEW a \in 1..Len(namespaces')
      PROVE namespaces'[a] # n /\ \A f \in NetFaaslets : ~Uses(f, namespaces'[a])
  <2>1. namespaces'[a] = free[a] /\ a \in 1..Len(free) /\ a # Len(free)
    BY <1>4, <1>5
  <2> QED
    BY <1>1, <1>2, <1>5, <2>1
<1>8. \A f \in NetFaaslets : ~Uses(f, n)
  BY <1>1, <1>2, <1>5
<1> QED
  BY <1>1, <1>4, <1>6, <1>7, <1>8

(* Claiming, joining, ending a task, shutdown and start keep the           *)
(* invariant.                                                              *)
LEMMA NetStepInv == ASSUME NetInv, NetNext PROVE NetInv'
<1> USE NoNsIsNoName DEF NetThreads
<1>1. NetTypeOK
  BY DEF NetInv
<1>2. PICK f \in NetFaaslets :
         \/ Shutdown(f) \/ Start(f)
         \/ \E i \in PoolThreads :
               ClaimForTask(f, i) \/ JoinNamespace(f, i) \/ JoinFails(f, i)
               \/ NextTask(f, i) \/ TaskEnds(f, i)
  BY DEF NetNext
<1>3. CASE Shutdown(f)
  <2>1. \A g \in NetFaaslets, m \in Names : Uses(g, m)' => Uses(g, m) /\ g # f
    BY <1>1, <1>3 DEF Shutdown, NetTypeOK, Uses
  <2>2. CASE ns[f] = NoNs
    <3>1. UNCHANGED namespaces
      BY <1>3, <2>2 DEF Shutdown
    <3>2. NetTypeOK'
      BY <1>1, <1>3, <3>1 DEF Shutdown, NetTypeOK
    <3>3. NothingUsed' /\ FreeOnce' /\ FreeUnused'
      BY SMT, <1>1, <1>3, <2>1, <3>1 DEF Shutdown, NothingUsed, FreeOnce, FreeUnused, NetInv, NetTypeOK
    <3>4. OneUser'
      BY <2>1 DEF OneUser, NetInv
    <3>5. TasksIsolated'
      BY <1>1, <1>3 DEF Shutdown, TasksIsolated, NetInv, NetTypeOK
    <3> QED BY <3>2, <3>3, <3>4, <3>5 DEF NetInv
  <2>3. CASE ns[f] # NoNs
    <3>1. ns[f] \in Names /\ namespaces' = Append(namespaces, ns[f]) /\ Uses(f, ns[f])
      BY <1>1, <1>3, <2>3 DEF Shutdown, returnNetworkNamespace, NetTypeOK, Uses
    <3>2. /\ namespaces' \in Seq(Names) /\ Len(namespaces') = Len(namespaces) + 1
          /\ \A a \in 1..Len(namespaces) : namespaces'[a] = namespaces[a]
          /\ namespaces'[Len(namespaces) + 1] = ns[f] /\ Len(namespaces) \in Nat
      BY SMT, <1>1, <3>1, WithLast DEF NetTypeOK
    <3>3. NetTypeOK'
      BY <1>1, <1>3, <3>2 DEF Shutdown, NetTypeOK
    <3>4. initialised = TRUE
      BY <1>1, <3>1 DEF NetInv, NothingUsed, NetTypeOK
    <3>5. NothingUsed'
      BY <1>3, <3>4 DEF Shutdown, NothingUsed
    <3>6. FreeOnce'
      BY SMT, <3>1, <3>2 DEF FreeOnce, FreeUnused, NetInv
    <3>7. FreeUnused'
      <4> SUFFICES ASSUME NEW g \in NetFaaslets, NEW a \in 1..Len(namespaces'),
                          NEW m, m = namespaces'[a], Uses(g, m)'
                   PROVE FALSE
        BY DEF FreeUnused
      <4>1. m \in Names
        BY <3>2, InList
      <4>2. Uses(g, m) /\ g # f
        BY <2>1, <4>1
      <4> QED
        BY SMT, <3>1, <3>2, <4>1, <4>2 DEF NetInv, FreeUnused, OneUser
    <3>8. OneUser'
      BY <2>1 DEF OneUser, NetInv
    <3>9. TasksIsolated'
      BY <1>1, <1>3 DEF Shutdown, TasksIsolated, NetInv, NetTypeOK
    <3> QED BY <3>3, <3>5, <3>6, <3>7, <3>8, <3>9 DEF NetInv
  <2> QED BY <2>2, <2>3
<1>4. CASE Start(f)
  <2>1. \A g \in NetFaaslets, m \in Names : Uses(g, m)' => Uses(g, m)
    BY <1>1, <1>4 DEF Start, NetTypeOK, Uses
  <2>2. NetTypeOK'
    BY <1>1, <1>4 DEF Start, NetTypeOK
  <2>3. NothingUsed' /\ FreeOnce' /\ FreeUnused'
    BY SMT, <1>1, <1>4, <2>1 DEF Start, NothingUsed, FreeOnce, FreeUnused, NetInv, NetTypeOK
  <2>4. OneUser'
    BY <2>1 DEF OneUser, NetInv
  <2>5. TasksIsolated'
    BY <1>1, <1>4 DEF Start, NetTypeOK, TasksIsolated, NetInv
  <2> QED BY <2>2, <2>3, <2>4, <2>5 DEF NetInv
<1>5. ASSUME NEW i \in PoolThreads, ClaimForTask(f, i) PROVE NetInv'
  <2>1. PICK n \in Names : claimNetworkNamespace(n) /\ ns' = [ns EXCEPT ![f] = n]
    BY <1>5 DEF ClaimForTask
  <2>2. /\ namespaces' \in Seq(Names) /\ initialised' = TRUE
        /\ \A a, b \in 1..Len(namespaces') : a # b => namespaces'[a] # namespaces'[b]
        /\ \A a \in 1..Len(namespaces') :
              namespaces'[a] # n /\ \A g \in NetFaaslets : ~Uses(g, namespaces'[a])
        /\ \A g \in NetFaaslets : ~Uses(g, n)
    BY <2>1, ClaimedIsUnused
  <2>3. \A g \in NetFaaslets, m \in Names : Uses(g, m)' => Uses(g, m) \/ (g = f /\ m = n)
    BY <1>1, <1>5, <2>1 DEF ClaimForTask, NetTypeOK, Uses
  <2>4. NetTypeOK'
    BY <1>1, <1>5, <2>1, <2>2 DEF ClaimForTask, NetTypeOK
  <2>5. NothingUsed' /\ FreeOnce'
    BY <2>2 DEF NothingUsed, FreeOnce
  <2>6. FreeUnused'
    BY SMT, <2>2, <2>3 DEF FreeUnused
  <2>7. OneUser'
    BY SMT, <2>2, <2>3 DEF OneUser, NetInv
  <2>8. TasksIsolated'
    <3>1. \A g \in NetFaaslets : ns'[g] = (IF g = f THEN n ELSE ns[g])
      BY <1>1, <2>1 DEF NetTypeOK
    <3>2. \A g \in NetFaaslets, j \in PoolThreads :
             taskPc'[<<g, j>>] = (IF g = f /\ j = i THEN "claimed" ELSE taskPc[<<g, j>>])
      BY <1>1, <1>5 DEF ClaimForTask, NetTypeOK, NetThreads
    <3>3. n # NoNs /\ f \notin down /\ UNCHANGED <<down, joined>>
      BY <1>5, NoNsIsNoName DEF ClaimForTask
    <3> QED BY <3>1, <3>2, <3>3 DEF TasksIsolated, NetInv
  <2> QED BY <2>4, <2>5, <2>6, <2>7, <2>8 DEF NetInv
<1>6. ASSUME NEW i \in PoolThreads, JoinNamespace(f, i) PROVE NetInv'
  <2>1. \A g \in NetFaaslets, m \in Names : Uses(g, m)' => Uses(g, m)
    BY <1>1, <1>6 DEF JoinNamespace, NetTypeOK, Uses, NetInv, TasksIsolated
  <2>2. NetTypeOK'
    BY <1>1, <1>6 DEF JoinNamespace, NetTypeOK
  <2>3. NothingUsed' /\ FreeOnce' /\ FreeUnused'
    BY SMT, <1>1, <1>6, <2>1 DEF JoinNamespace, NothingUsed, FreeOnce, FreeUnused, NetInv, NetTypeOK
  <2>4. OneUser'
    BY <2>1 DEF OneUser, NetInv
  <2>5. TasksIsolated'
    BY <1>1, <1>6 DEF JoinNamespace, NetTypeOK, TasksIsolated, NetInv
  <2> QED BY <2>2, <2>3, <2>4, <2>5 DEF NetInv
<1>7. ASSUME NEW i \in PoolThreads, JoinFails(f, i) \/ NextTask(f, i) \/ TaskEnds(f, i) PROVE NetInv'
  <2>1. NetTypeOK' /\ UNCHANGED <<namespaces, initialised, ns, down, joined>>
    BY <1>1, <1>7 DEF JoinFails, NextTask, TaskEnds, NetTypeOK
  <2>2. \A g, m : Uses(g, m)' <=> Uses(g, m)
    BY <2>1 DEF Uses
  <2>3. NothingUsed' /\ FreeOnce' /\ FreeUnused' /\ OneUser'
    BY SMT, <2>1, <2>2 DEF NothingUsed, FreeOnce, FreeUnused, OneUser, NetInv
  <2>4. TasksIsolated'
    BY <1>1, <1>7 DEF JoinFails, NextTask, TaskEnds, NetTypeOK, TasksIsolated, NetInv
  <2> QED BY <2>1, <2>3, <2>4 DEF NetInv
<1> QED BY <1>2, <1>3, <1>4, <1>5, <1>6, <1>7

(* The namespaces of a host by themselves.                                 *)
NetSpec == NetInit /\ [][NetNext]_netVars

(* No Faaslet's task is ever in a namespace that a task of another Faaslet *)
(* is in (OwnNamespace), for any number of Faaslets, pool threads and      *)
(* namespaces: what claimNetworkNamespace hands out is free until          *)
(* returnNetworkNamespace, and a Faaslet returns only its own.             *)
THEOREM NamespacesStayApart == NetSpec => []OwnNamespace
<1>1. NetInit => NetInv
  BY NetInitInv
<1>2. NetInv /\ [NetNext]_netVars => NetInv'
  <2>1. ASSUME NetInv, UNCHANGED netVars PROVE NetInv'
    <3>1. \A f, n : Uses(f, n)' <=> Uses(f, n)
      BY <2>1 DEF netVars, Uses
    <3> QED
      BY SMT, <2>1, <3>1 DEF NetInv, netVars, NetTypeOK, NothingUsed, FreeOnce, FreeUnused, OneUser, TasksIsolated
  <2> QED
    BY <2>1, NetStepInv
<1>3. NetInv => OwnNamespace
  <2> SUFFICES ASSUME NetInv, NEW t \in NetThreads, NEW u \in NetThreads,
                      Running(t), Running(u), t[1] # u[1], joined[t] = joined[u]
               PROVE FALSE
    BY DEF OwnNamespace
  <2>1. PICK f \in NetFaaslets, i \in PoolThreads : t = <<f, i>>
    BY SMT DEF NetThreads
  <2>2. PICK g \in NetFaaslets, j \in PoolThreads : u = <<g, j>>
    BY SMT DEF NetThreads
  <2>3. joined[t] \in Names
    BY <2>1 DEF NetInv, TasksIsolated, NetTypeOK, Running
  <2>4. Uses(f, joined[t]) /\ Uses(g, joined[t])
    BY <2>1, <2>2 DEF Uses
  <2> QED BY <2>1, <2>2, <2>3, <2>4 DEF NetInv, OneUser
<1> QED BY <1>1, <1>2, <1>3, PTL DEF NetSpec

(***************************************************************************)
(* The file descriptor table                                               *)
(***************************************************************************)
(* A call holds a number that is not one of the predefined, and a          *)
(* path_open a root that exists.                                           *)
NumbersTaken ==
    \A t \in Threads :
        /\ call[t].op # "idle" => call[t].fd \in 5 .. MaxFd
        /\ call[t].op = "open" => call[t].from \in DOMAIN fileDescriptors

(* The host's numbers in the table have been given out by the host.        *)
HostFdsGiven ==
    \A fd \in DOMAIN fileDescriptors :
        fileDescriptors[fd].linuxFd \in -1 .. nextHostFd - 1

(* The inductive invariant. *)
IInv ==
    /\ TypeOK /\ NumbersTaken /\ HostFdsGiven
    /\ RightsWithinRoot /\ WritesNeedRight /\ HostFdsApart

(* The table after an entry that respects the invariant has been put under *)
(* a number that is not predefined still respects it.  All three actions   *)
(* that change the table rest on this.                                     *)
LEMMA PutKeepsTable ==
    ASSUME TypeOK, HostFdsGiven, RightsWithinRoot, WritesNeedRight, HostFdsApart,
           NEW fd \in 5 .. MaxFd, NEW desc \in Descriptors,
           fileDescriptors' = Put(fd, desc),
           nextHostFd' \in {nextHostFd, nextHostFd + 1},
           \/ desc.linuxFd = -1
           \/ desc.linuxFd = nextHostFd /\ nextHostFd' = nextHostFd + 1,
           desc.base \subseteq fileDescriptors[desc.root].inheriting,
           desc.inheriting \subseteq fileDescriptors[desc.root].inheriting,
           desc.writes => desc.base \cap WriteRights # {}
    PROVE  /\ DOMAIN fileDescriptors \subseteq DOMAIN fileDescriptors'
           /\ DOMAIN fileDescriptors' \subseteq Fds
           /\ \A f \in DOMAIN fileDescriptors' : fileDescriptors'[f] \in Descriptors
           /\ nextHostFd' \in Nat
           /\ HostFdsGiven' /\ RightsWithinRoot' /\ WritesNeedRight' /\ HostFdsApart'
<1>t. /\ DOMAIN fileDescriptors \subseteq Fds /\ nextHostFd \in Nat
      /\ 0 .. 4 \subseteq DOMAIN fileDescriptors
      /\ \A f \in DOMAIN fileDescriptors : fileDescriptors[f] \in Descriptors
  BY SMT DEF TypeOK, Std, Preopened
<1>d. /\ DOMAIN fileDescriptors' = DOMAIN fileDescriptors \cup {fd}
      /\ fileDescriptors'[fd] = desc
      /\ \A f \in DOMAIN fileDescriptors : f # fd => fileDescriptors'[f] = fileDescriptors[f]
  BY DEF Put
<1>n. fd \in Nat /\ fd \notin 0 .. 4 /\ fd \in Fds
  BY SMT, RightsAssumption DEF Fds
<1>r. \A d \in Descriptors : d.root \in 0 .. 4 /\ d.linuxFd \in Int
  BY SMT DEF Descriptors, Std, Preopened
<1>1. \A f \in DOMAIN fileDescriptors' : fileDescriptors'[f] \in Descriptors
  BY <1>t, <1>d
<1>2. HostFdsGiven'
  BY SMT, <1>t, <1>d, <1>r DEF HostFdsGiven
<1>3. WritesNeedRight'
  BY SMT, <1>t, <1>d DEF WritesNeedRight
<1>4. RightsWithinRoot'
  <2> SUFFICES ASSUME NEW f \in DOMAIN fileDescriptors'
               PROVE  /\ fileDescriptors'[f].base
                            \subseteq fileDescriptors'[fileDescriptors'[f].root].inheriting
                      /\ fileDescriptors'[f].inheriting
                            \subseteq fileDescriptors'[fileDescriptors'[f].root].inheriting
    BY DEF RightsWithinRoot
  <2>1. fileDescriptors'[f].root \in 0 .. 4
    BY <1>1, <1>r
  <2>2. fileDescriptors'[fileDescriptors'[f].root] = fileDescriptors[fileDescriptors'[f].root]
    BY <2>1, <1>t, <1>d, <1>n
  <2>3. CASE f = fd
    BY <2>2, <2>3, <1>d
  <2>4. CASE f # fd
    <3>1. f \in DOMAIN fileDescriptors /\ fileDescriptors'[f] = fileDescriptors[f]
      BY <2>4, <1>d
    <3> QED BY <3>1, <2>2 DEF RightsWithinRoot
  <2> QED BY <2>3, <2>4
<1>5. HostFdsApart'
  <2> SUFFICES ASSUME NEW f \in DOMAIN fileDescriptors', NEW g \in DOMAIN fileDescriptors',
                      f # g, fileDescriptors'[f].linuxFd # -1
               PROVE  fileDescriptors'[f].linuxFd # fileDescriptors'[g].linuxFd
    BY SMT DEF HostFdsApart, NoHostFd
  <2>1. CASE f # fd /\ g # fd
    BY SMT, <2>1, <1>d DEF HostFdsApart, NoHostFd
  <2>2. CASE f = fd
    <3>1. g \in DOMAIN fileDescriptors /\ fileDescriptors'[g] = fileDescriptors[g]
      BY <2>2, <1>d
    <3>2. desc.linuxFd = nextHostFd
      BY <2>2, <1>d
    <3> QED BY SMT, <2>2, <3>1, <3>2, <1>d, <1>t DEF HostFdsGiven
  <2>3. CASE g = fd
    <3>1. f \in DOMAIN fileDescriptors /\ fileDescriptors'[f] = fileDescriptors[f]
      BY <2>3, <1>d
    <3> QED BY SMT, <2>3, <3>1, <1>d, <1>t DEF HostFdsGiven
  <2> QED BY <2>1, <2>2, <2>3
<1> QED BY SMT, <1>t, <1>d, <1>n, <1>1, <1>2, <1>3, <1>4, <1>5

(* The predefined descriptors satisfy the invariant. *)
LEMMA InitInv == Init => IInv
<1> SUFFICES ASSUME Init PROVE IInv
  OBVIOUS
<1>d. /\ DOMAIN fileDescriptors = 0 .. 4
      /\ \A fd \in 0 .. 2 : fileDescriptors[fd] = stdFdFactory(fd)
      /\ \A fd \in 3 .. 4 : fileDescriptors[fd] = createPreopenedFileDescriptor(fd)
      /\ nextFd = 5 /\ nextHostFd = 5 /\ call = [t \in Threads |-> Idle]
  BY SMT DEF Init, prepareFilesystem, Std, Preopened
<1>f. \A fd \in DOMAIN fileDescriptors :
          /\ fileDescriptors[fd] \in Descriptors
          /\ fileDescriptors[fd].root = fd /\ fileDescriptors[fd].linuxFd = fd
          /\ fileDescriptors[fd].base \subseteq fileDescriptors[fd].inheriting
          /\ fileDescriptors[fd].writes => fileDescriptors[fd].base \cap WriteRights # {}
  <2> SUFFICES ASSUME NEW fd \in 0 .. 4
               PROVE  /\ fileDescriptors[fd] \in Descriptors
                      /\ fileDescriptors[fd].root = fd /\ fileDescriptors[fd].linuxFd = fd
                      /\ fileDescriptors[fd].base \subseteq fileDescriptors[fd].inheriting
                      /\ fileDescriptors[fd].writes =>
                            fileDescriptors[fd].base \cap WriteRights # {}
    BY <1>d
  <2>1. CASE fd \in 0 .. 2
    <3>1. stdFdFactory(fd) \in Descriptors
      BY SMT, RightsAssumption DEF stdFdFactory, Descriptors, Std, Preopened
    <3>2. /\ stdFdFactory(fd).root = fd /\ stdFdFactory(fd).linuxFd = fd
          /\ stdFdFactory(fd).base = StdRights /\ stdFdFactory(fd).inheriting = StdRights
      BY DEF stdFdFactory
    <3>3. fileDescriptors[fd] = stdFdFactory(fd)
      BY <1>d, <2>1
    <3> QED BY <3>1, <3>2, <3>3, RightsAssumption
  <2>2. CASE fd \in 3 .. 4
    <3>1. createPreopenedFileDescriptor(fd) \in Descriptors
      BY SMT, <2>2, RightsAssumption DEF createPreopenedFileDescriptor, Descriptors, Std, Preopened
    <3>2. LET desc == createPreopenedFileDescriptor(fd) IN
          /\ desc.root = fd /\ desc.linuxFd = fd /\ desc.writes = FALSE
          /\ desc.base = DirectoryRights /\ desc.inheriting = InheritingDirectoryRights
      BY DEF createPreopenedFileDescriptor
    <3>3. fileDescriptors[fd] = createPreopenedFileDescriptor(fd)
      BY <1>d, <2>2
    <3> QED BY <3>1, <3>2, <3>3, RightsAssumption
  <2> QED BY SMT, <2>1, <2>2
<1>1. TypeOK
  BY SMT, <1>d, <1>f, RightsAssumption DEF TypeOK, Fds, Std, Preopened, Calls, Idle
<1>2. NumbersTaken
  BY <1>d DEF NumbersTaken, Idle
<1>3. HostFdsGiven /\ RightsWithinRoot /\ WritesNeedRight /\ HostFdsApart
  BY SMT, <1>d, <1>f DEF HostFdsGiven, RightsWithinRoot, WritesNeedRight, HostFdsApart
<1> QED BY <1>1, <1>2, <1>3 DEF IInv

(* A step that leaves the table alone and changes the calls as typed keeps *)
(* the invariant if NumbersTaken is kept.                                  *)
LEMMA CallStepInv ==
    ASSUME IInv, UNCHANGED <<fileDescriptors, nextHostFd>>,
           nextFd' \in 5 .. MaxFd + 1, call' \in [Threads -> Calls], NumbersTaken'
    PROVE  IInv'
BY SMT DEF IInv, TypeOK, HostFdsGiven, RightsWithinRoot, WritesNeedRight, HostFdsApart

(* Every step of a thread preserves the invariant. *)
LEMMA NextInv == IInv /\ [Next]_vars => IInv'
<1> SUFFICES ASSUME IInv, [Next]_vars PROVE IInv'
  OBVIOUS
<1>t. /\ DOMAIN fileDescriptors \subseteq Fds /\ nextHostFd \in Nat
      /\ \A f \in DOMAIN fileDescriptors : fileDescriptors[f] \in Descriptors
      /\ nextFd \in 5 .. MaxFd + 1 /\ call \in [Threads -> Calls]
      /\ MaxFd \in Nat /\ NumbersTaken
  BY RightsAssumption DEF IInv, TypeOK
<1>i. Idle \in Calls /\ Idle.op = "idle"
  BY SMT, RightsAssumption DEF Idle, Calls, Fds
<1>1. ASSUME NEW t \in Threads, NEW root \in Fds,
             NEW base \in SUBSET Rights, NEW inheriting \in SUBSET Rights,
             path_open(t, root, base, inheriting)
      PROVE  IInv'
  <2> DEFINE c == [op |-> "open", numbered |-> FALSE, fd |-> nextFd, from |-> root,
                   base |-> base, inheriting |-> inheriting]
  <2>1. c \in Calls /\ c.fd = nextFd /\ c.op = "open" /\ c.from = root
    BY SMT, <1>t DEF Calls
  <2>2. call' = [call EXCEPT ![t] = c] /\ nextFd \in 5 .. MaxFd /\ Exists(root)
    BY SMT, <1>1, <1>t DEF path_open
  <2> HIDE DEF c
  <2>3. NumbersTaken'
    BY <1>1, <2>1, <2>2, <1>t DEF NumbersTaken, Exists, path_open
  <2> QED BY <1>1, <2>1, <2>2, <2>3, <1>t, CallStepInv DEF path_open
<1>2. ASSUME NEW t \in Threads, NEW fd \in Fds, dup(t, fd)
      PROVE  IInv'
  <2> DEFINE c == [op |-> "dup", numbered |-> FALSE, fd |-> nextFd, from |-> fd,
                   base |-> {}, inheriting |-> {}]
  <2>1. c \in Calls /\ c.fd = nextFd /\ c.op = "dup"
    BY SMT, <1>t DEF Calls
  <2>2. call' = [call EXCEPT ![t] = c] /\ nextFd \in 5 .. MaxFd
    BY SMT, <1>2, <1>t DEF dup
  <2> HIDE DEF c
  <2>3. NumbersTaken'
    BY <1>2, <2>1, <2>2, <1>t DEF NumbersTaken, dup
  <2> QED BY <1>2, <2>1, <2>2, <2>3, <1>t, CallStepInv DEF dup
<1>3. ASSUME NEW t \in Threads, getNewFd(t)
      PROVE  IInv'
  <2>1. nextFd' \in 5 .. MaxFd + 1
    BY SMT, <1>3, <1>t DEF getNewFd, NumbersTaken
  <2> DEFINE c == [call[t] EXCEPT !.numbered = TRUE]
  <2>4. call \in [Threads -> Calls] /\ call' = [call EXCEPT ![t] = c]
    BY <1>3, <1>t DEF getNewFd
  <2>5. call[t] \in Calls
    BY <2>4
  <2>6. c \in Calls
    BY <2>5 DEF Calls
  <2> HIDE DEF c
  <2>2. call' \in [Threads -> Calls]
    BY <2>4, <2>6
  <2> USE DEF c
  <2>3. NumbersTaken'
    BY SMT, <1>3, <1>t DEF getNewFd, NumbersTaken, Calls
  <2> QED BY <1>3, <2>1, <2>2, <2>3, CallStepInv DEF getNewFd
<1>q. ASSUME NEW t \in Threads, call' = [call EXCEPT ![t] = Idle],
             DOMAIN fileDescriptors \subseteq DOMAIN fileDescriptors'
      PROVE  call' \in [Threads -> Calls] /\ NumbersTaken'
  BY <1>q, <1>t, <1>i DEF NumbersTaken
<1>o. ASSUME NEW t \in Threads, call[t].op = "open",
             NEW hostFd \in Int, NEW writes \in BOOLEAN,
             writes => effectiveRights(t).base \cap WriteRights # {},
             fileDescriptors' = Put(call[t].fd, OpenedBelow(t, hostFd, writes)),
             nextHostFd' \in {nextHostFd, nextHostFd + 1},
             \/ hostFd = -1
             \/ hostFd = nextHostFd /\ nextHostFd' = nextHostFd + 1,
             call' = [call EXCEPT ![t] = Idle], nextFd' = nextFd
      PROVE  IInv'
  <2> DEFINE from == fileDescriptors[call[t].from]
             desc == OpenedBelow(t, hostFd, writes)
  <2>1. /\ call[t].fd \in 5 .. MaxFd /\ call[t].from \in DOMAIN fileDescriptors
        /\ call[t].base \in SUBSET Rights /\ call[t].inheriting \in SUBSET Rights
        /\ from \in Descriptors
    BY <1>o, <1>t DEF NumbersTaken, Calls
  <2>2. /\ desc.base = call[t].base \cap from.inheriting
        /\ desc.inheriting = call[t].inheriting \cap from.inheriting
        /\ desc.linuxFd = hostFd /\ desc.writes = writes /\ desc.root = from.root
        /\ desc.base = effectiveRights(t).base
    BY DEF OpenedBelow, effectiveRights
  <2>3. desc \in Descriptors
    BY <2>1, <1>o DEF OpenedBelow, effectiveRights, Descriptors
  <2>4. from.inheriting \subseteq fileDescriptors[from.root].inheriting
    BY <2>1 DEF IInv, RightsWithinRoot
  <2> HIDE DEF from, desc
  <2>5. fileDescriptors' = Put(call[t].fd, desc)
    BY <1>o DEF desc
  <2>6. /\ desc.base \subseteq fileDescriptors[desc.root].inheriting
        /\ desc.inheriting \subseteq fileDescriptors[desc.root].inheriting
        /\ desc.writes => desc.base \cap WriteRights # {}
        /\ desc.linuxFd = -1 \/ (desc.linuxFd = nextHostFd /\ nextHostFd' = nextHostFd + 1)
    BY <2>2, <2>4, <1>o
  <2>7. /\ DOMAIN fileDescriptors \subseteq DOMAIN fileDescriptors'
        /\ DOMAIN fileDescriptors' \subseteq Fds
        /\ \A f \in DOMAIN fileDescriptors' : fileDescriptors'[f] \in Descriptors
        /\ nextHostFd' \in Nat
        /\ HostFdsGiven' /\ RightsWithinRoot' /\ WritesNeedRight' /\ HostFdsApart'
    BY <2>1, <2>3, <2>5, <2>6, <1>o, PutKeepsTable DEF IInv
  <2> QED BY <2>7, <1>q, <1>o, <1>t DEF IInv, TypeOK
<1>4. ASSUME NEW t \in Threads, NEW isDirectory \in BOOLEAN, pathOpen(t, isDirectory)
      PROVE  IInv'
  <2> DEFINE writes == ~isDirectory /\ opensForWriting(effectiveRights(t).base)
  <2>1. writes \in BOOLEAN /\ (writes => effectiveRights(t).base \cap WriteRights # {})
    BY DEF opensForWriting
  <2>2. /\ call[t].op = "open"
        /\ fileDescriptors' = Put(call[t].fd, OpenedBelow(t, nextHostFd, writes))
        /\ nextHostFd' = nextHostFd + 1 /\ call' = [call EXCEPT ![t] = Idle]
        /\ nextFd' = nextFd
    BY <1>4 DEF pathOpen
  <2>3. /\ nextHostFd \in Int /\ nextHostFd' \in {nextHostFd, nextHostFd + 1}
        /\ \/ nextHostFd = -1
           \/ nextHostFd = nextHostFd /\ nextHostFd' = nextHostFd + 1
    BY SMT, <2>2, <1>t
  <2> HIDE DEF writes
  <2> QED BY <2>1, <2>2, <2>3, <1>o
<1>5. ASSUME NEW t \in Threads, pathOpenFails(t)
      PROVE  IInv'
  <2>1. /\ call[t].op = "open"
        /\ fileDescriptors' = Put(call[t].fd, OpenedBelow(t, -1, FALSE))
        /\ nextHostFd' = nextHostFd /\ call' = [call EXCEPT ![t] = Idle]
        /\ nextFd' = nextFd
    BY <1>5 DEF pathOpenFails, NoHostFd
  <2>2. nextHostFd' \in {nextHostFd, nextHostFd + 1} /\ -1 \in Int
    BY SMT, <2>1
  <2> QED BY <2>1, <2>2, <1>o
<1>6. ASSUME NEW t \in Threads, duplicate(t)
      PROVE  IInv'
  <2> DEFINE original == fileDescriptors[call[t].from]
             isOpen == original.linuxFd # NoHostFd
             desc == [original EXCEPT !.linuxFd = IF isOpen THEN nextHostFd ELSE NoHostFd]
  <2>1. /\ call[t].fd \in 5 .. MaxFd /\ call[t].from \in DOMAIN fileDescriptors
        /\ original \in Descriptors
    BY <1>6, <1>t DEF duplicate, NumbersTaken, Exists
  <2>2. /\ desc \in Descriptors /\ desc.base = original.base
        /\ desc.inheriting = original.inheriting /\ desc.writes = original.writes
        /\ desc.root = original.root
        /\ desc.linuxFd = IF isOpen THEN nextHostFd ELSE -1
    BY SMT, <2>1, <1>t DEF Descriptors, NoHostFd
  <2>3. /\ original.base \subseteq fileDescriptors[original.root].inheriting
        /\ original.inheriting \subseteq fileDescriptors[original.root].inheriting
        /\ original.writes => original.base \cap WriteRights # {}
    BY <2>1 DEF IInv, RightsWithinRoot, WritesNeedRight
  <2>4. /\ fileDescriptors' = Put(call[t].fd, desc)
        /\ nextHostFd' = IF isOpen THEN nextHostFd + 1 ELSE nextHostFd
        /\ call' = [call EXCEPT ![t] = Idle] /\ nextFd' = nextFd
    BY <1>6 DEF duplicate
  <2> HIDE DEF desc, isOpen, original
  <2>5. /\ desc.base \subseteq fileDescriptors[desc.root].inheriting
        /\ desc.inheriting \subseteq fileDescriptors[desc.root].inheriting
        /\ desc.writes => desc.base \cap WriteRights # {}
        /\ desc.linuxFd = -1 \/ (desc.linuxFd = nextHostFd /\ nextHostFd' = nextHostFd + 1)
        /\ nextHostFd' \in {nextHostFd, nextHostFd + 1}
    BY <2>2, <2>3, <2>4
  <2>6. /\ DOMAIN fileDescriptors \subseteq DOMAIN fileDescriptors'
        /\ DOMAIN fileDescriptors' \subseteq Fds
        /\ \A f \in DOMAIN fileDescriptors' : fileDescriptors'[f] \in Descriptors
        /\ nextHostFd' \in Nat
        /\ HostFdsGiven' /\ RightsWithinRoot' /\ WritesNeedRight' /\ HostFdsApart'
    BY <2>1, <2>2, <2>4, <2>5, PutKeepsTable DEF IInv
  <2> QED BY <2>4, <2>6, <1>q, <1>t DEF IInv, TypeOK
<1>7. ASSUME NEW t \in Threads, dupThrows(t)
      PROVE  IInv'
  <2>1. call' \in [Threads -> Calls] /\ NumbersTaken'
    BY <1>7, <1>q DEF dupThrows
  <2> QED BY <1>7, <2>1, <1>t, CallStepInv DEF dupThrows
<1>8. CASE UNCHANGED vars
  <2>1. NumbersTaken'
    BY <1>8, <1>t DEF vars, NumbersTaken
  <2> QED BY <1>8, <2>1, <1>t, CallStepInv DEF vars
<1> QED BY <1>1, <1>2, <1>3, <1>4, <1>5, <1>6, <1>7, <1>8 DEF Next

(* Type correctness: in particular no path_open or dup, even of threads    *)
(* that race for a number, is given the number of a predefined descriptor. *)
THEOREM TypesAreKept == Spec => []TypeOK
<1>1. IInv => TypeOK
  BY DEF IInv
<1> QED BY <1>1, InitInv, NextInv, PTL DEF Spec

(* openFileDescriptor and dup: rights never grow along a chain of opens    *)
(* and dups.                                                               *)
THEOREM RightsNeverGrow == Spec => []RightsWithinRoot
<1>1. IInv => RightsWithinRoot
  BY DEF IInv
<1> QED BY <1>1, InitInv, NextInv, PTL DEF Spec

(* pathOpen: the host's descriptor is writable only with a right to write. *)
THEOREM WritesArePermitted == Spec => []WritesNeedRight
<1>1. IInv => WritesNeedRight
  BY DEF IInv
<1> QED BY <1>1, InitInv, NextInv, PTL DEF Spec

(* duplicate: no two entries of the table share a descriptor of the host.  *)
THEOREM HostFdsStayApart == Spec => []HostFdsApart
<1>1. IInv => HostFdsApart
  BY DEF IInv
<1> QED BY <1>1, InitInv, NextInv, PTL DEF Spec

(***************************************************************************)
(* State                                                                   *)
(***************************************************************************)
(* The places of a function that has the write lock of its value, and      *)
(* those between its store and its push.                                   *)
Updating == {"locked", "pulled", "read", "stored", "chunk", "full", "pushed"}
(* ... between its store to the local copy and the push.                   *)
Unpushed == {"stored", "chunk", "full"}

(* A local copy of a value.                                                *)
CopyOf(k) ==
    [val : [Chunks(k) -> Nat], pulled : SUBSET Chunks(k), dirty : BOOLEAN,
     mask : SUBSET Chunks(k), lock : SUBSET ({"r", "w"} \X Fns)]

(* The chunks of all values.                                               *)
AnyChunk == UNION {Chunks(k) : k \in Keys}

(* How far a function is with its use of a value.                          *)
Progress ==
    [at : Updating \cup {"idle", "reads"}, key : Keys \cup {""},
     chunk : AnyChunk \cup {0}, buffer : Nat, ptr : BOOLEAN, done : Nat]

(* Copies, global values and counts of updates have a number for each      *)
(* chunk.                                                                  *)
StateTypes ==
    /\ kv = [h \in Hosts |-> [k \in Keys |-> kv[h][k]]]
    /\ \A h \in Hosts, k \in Keys : kv[h][k] \in CopyOf(k)
    /\ global = [k \in Keys |-> [c \in Chunks(k) |-> global[k][c]]]
    /\ updates = [k \in Keys |-> [c \in Chunks(k) |-> updates[k][c]]]
    /\ \A k \in Keys : \A c \in Chunks(k) : global[k][c] \in Nat /\ updates[k][c] \in Nat
    /\ fn \in [Fns -> Progress]

(* An update has the only lock of its host's copy and is about a chunk of  *)
(* that host; a read has a read lock.                                      *)
WritersAlone ==
    \A f \in Fns :
       /\ fn[f].at \in Updating =>
             K(f) \in Keys /\ fn[f].chunk \in Own(H(f), K(f)) /\ Value(f).lock = {<<"w", f>>}
       /\ At(f, "reads") => K(f) \in Keys /\ <<"r", f>> \in Value(f).lock

(* What a host has pulled of its own chunks is the starting value and all  *)
(* updates, and only its own chunks are marked dirty.                      *)
CopiesCurrent ==
    \A h \in Hosts, k \in Keys :
       /\ \A c \in Own(h, k) : c \in kv[h][k].pulled => kv[h][k].val[c] = AtStart + updates[k][c]
       /\ kv[h][k].mask \subseteq kv[h][k].pulled \cap Own(h, k)

(* What an update has read is what the copy has, and what it is about to   *)
(* push is marked.                                                         *)
UpdateUnderWay ==
    \A f \in Fns :
       /\ At(f, "read") \/ fn[f].at \in Unpushed => fn[f].chunk \in Value(f).pulled
       /\ At(f, "read") => fn[f].buffer = Value(f).val[fn[f].chunk]
       /\ At(f, "chunk") \/ At(f, "full") => Value(f).dirty
       /\ At(f, "chunk") => fn[f].chunk \in Value(f).mask
       /\ At(f, "full") => IsSole(H(f), K(f)) /\ Value(f).pulled = Chunks(K(f))

(* The global value has every update except those that somebody is about   *)
(* to push.                                                                *)
GlobalCurrent ==
    \A k \in Keys : \A c \in Chunks(k) :
       \/ global[k][c] = AtStart + updates[k][c]
       \/ \E f \in Fns : fn[f].at \in Unpushed /\ K(f) = k /\ fn[f].chunk = c

(* The inductive invariant: locks, local copies, updates under way and the *)
(* global value agree.                                                     *)
StateInv == StateTypes /\ WritersAlone /\ CopiesCurrent /\ UpdateUnderWay /\ GlobalCurrent

(* At first every copy is empty and every count is zero.                   *)
LEMMA StateInitInv == StateInit => StateInv
<1> SUFFICES ASSUME StateInit PROVE StateInv
  OBVIOUS
<1>1. StateTypes
  <2>1. NotUpdating \in Progress
    BY DEF NotUpdating, Progress
  <2>2. fn \in [Fns -> Progress]
    BY <2>1 DEF StateInit
  <2>3. \A h \in Hosts, k \in Keys : kv[h][k] \in CopyOf(k)
    BY DEF StateInit, CopyOf
  <2>4. kv = [h \in Hosts |-> [k \in Keys |-> kv[h][k]]]
    BY DEF StateInit
  <2>5. \A k \in Keys : \A c \in Chunks(k) : global[k][c] \in Nat /\ updates[k][c] \in Nat
    BY OwnersAreHosts DEF StateInit
  <2>6. /\ global = [k \in Keys |-> [c \in Chunks(k) |-> global[k][c]]]
        /\ updates = [k \in Keys |-> [c \in Chunks(k) |-> updates[k][c]]]
    BY DEF StateInit
  <2> QED BY <2>2, <2>3, <2>4, <2>5, <2>6 DEF StateTypes
<1>2. \A f \in Fns : fn[f].at = "idle"
  BY DEF StateInit, NotUpdating
<1>3. WritersAlone /\ UpdateUnderWay
  BY <1>2 DEF WritersAlone, UpdateUnderWay, Updating, Unpushed, At
<1>4. CopiesCurrent
  BY DEF StateInit, CopiesCurrent
<1>5. GlobalCurrent
  BY SMT, OwnersAreHosts DEF StateInit, GlobalCurrent
<1> QED BY <1>1, <1>3, <1>4, <1>5 DEF StateInv

(* The places of a host's copy and of a function's progress in an update.  *)
LEMMA HostsOfFns == \A f \in Fns : H(f) \in Hosts
BY DEF H, Hosts

(* A chunk is the own chunk of one host at most.                           *)
LEMMA OwnChunks ==
    \A h, k : /\ Own(h, k) \subseteq Chunks(k)
              /\ \A g, c : c \in Own(h, k) /\ c \in Own(g, k) => g = h
BY DEF Own

(* Two functions that update have their write locks on different copies.   *)
LEMMA UpdatesApart ==
    ASSUME WritersAlone, NEW f \in Fns, NEW g \in Fns, f # g,
           fn[f].at \in Updating, fn[g].at \in Updating \cup {"reads"}
    PROVE  H(f) # H(g) \/ K(f) # K(g)
<1> SUFFICES ASSUME H(f) = H(g), K(f) = K(g) PROVE FALSE
  OBVIOUS
<1>1. Value(f) = Value(g)
  BY DEF Value
<1>2. Value(f).lock = {<<"w", f>>}
  BY DEF WritersAlone
<1>3. CASE fn[g].at \in Updating
  <2>1. Value(g).lock = {<<"w", g>>}
    BY <1>3 DEF WritersAlone
  <2>2. <<"w", f>> \in {<<"w", g>>}
    BY <1>1, <1>2, <2>1
  <2> QED BY <2>2
<1>4. CASE fn[g].at = "reads"
  <2>1. <<"r", g>> \in {<<"w", f>>}
    BY <1>1, <1>2, <1>4 DEF WritersAlone, At
  <2> QED BY <2>1
<1> QED BY <1>3, <1>4

(* A step of f's update: w is its copy of the value and r its progress     *)
(* afterwards.                                                             *)
UpdateStep(f, w, r) ==
    /\ fn[f].at \in Updating
    /\ kv' = [kv EXCEPT ![H(f)][K(f)] = w]
    /\ fn' = [fn EXCEPT ![f] = r]
    /\ w \in CopyOf(K(f)) /\ w.lock = Value(f).lock
    /\ r \in Progress /\ r.at \in Updating /\ r.key = K(f) /\ r.chunk = fn[f].chunk
    /\ w.mask \subseteq w.pulled \cap Own(H(f), K(f))
    /\ r.at = "read" \/ r.at \in Unpushed => r.chunk \in w.pulled
    /\ r.at = "read" => r.buffer = w.val[r.chunk]
    /\ r.at \in {"chunk", "full"} => w.dirty
    /\ r.at = "chunk" => r.chunk \in w.mask
    /\ r.at = "full" => IsSole(H(f), K(f)) /\ w.pulled = Chunks(K(f))

(* Where a step of an update writes, and what it leaves alone.             *)
LEMMA StepPlaces ==
    ASSUME StateInv, NEW f \in Fns, NEW w, NEW r, UpdateStep(f, w, r)
    PROVE  /\ K(f) \in Keys /\ H(f) \in Hosts
           /\ fn'[f] = r /\ kv'[H(f)][K(f)] = w
           /\ \A g \in Fns : g # f => fn'[g] = fn[g]
           /\ \A h \in Hosts, k \in Keys : h # H(f) \/ k # K(f) => kv'[h][k] = kv[h][k]
           /\ kv' = [h \in Hosts |-> [k \in Keys |-> kv'[h][k]]]
           /\ \A h \in Hosts, k \in Keys : kv'[h][k] \in CopyOf(k)
           /\ fn' \in [Fns -> Progress]
<1>1. K(f) \in Keys /\ H(f) \in Hosts
  BY HostsOfFns DEF StateInv, WritersAlone, UpdateStep
<1>2. fn \in [Fns -> Progress] /\ fn' = [fn EXCEPT ![f] = r] /\ r \in Progress
  BY DEF StateInv, StateTypes, UpdateStep
<1>3. fn'[f] = r /\ fn' \in [Fns -> Progress] /\ \A g \in Fns : g # f => fn'[g] = fn[g]
  BY <1>2
<1>4. kv = [h \in Hosts |-> [k \in Keys |-> kv[h][k]]] /\ kv' = [kv EXCEPT ![H(f)][K(f)] = w]
  BY DEF StateInv, StateTypes, UpdateStep
<1>5. \A h \in Hosts, k \in Keys : kv'[h][k] = IF h = H(f) /\ k = K(f) THEN w ELSE kv[h][k]
  BY <1>1, <1>4
<1>6. kv' = [h \in Hosts |-> [k \in Keys |-> kv'[h][k]]]
  BY <1>1, <1>4
<1>7. \A h \in Hosts, k \in Keys : kv'[h][k] \in CopyOf(k)
  BY SMT, <1>5 DEF StateInv, StateTypes, UpdateStep
<1> QED BY <1>1, <1>3, <1>5, <1>6, <1>7

(* Such a step keeps the invariant if the own chunks of the copy count the *)
(* updates, at most the function's chunk has one more, and the global      *)
(* state is right wherever no update is on its way.                        *)
LEMMA UpdateKeepsInv ==
    ASSUME StateInv, NEW f \in Fns, NEW w, NEW r, UpdateStep(f, w, r),
           updates' = [k \in Keys |-> [c \in Chunks(k) |-> updates'[k][c]]],
           \A k \in Keys : \A c \in Chunks(k) :
              /\ updates'[k][c] \in Nat
              /\ k # K(f) \/ c # fn[f].chunk => updates'[k][c] = updates[k][c],
           \A c \in Own(H(f), K(f)) : c \in w.pulled => w.val[c] = AtStart + updates'[K(f)][c],
           global' = [k \in Keys |-> [c \in Chunks(k) |-> global'[k][c]]],
           \A k \in Keys : \A c \in Chunks(k) : global'[k][c] \in Nat,
           GlobalCurrent'
    PROVE  StateInv'
<1> DEFINE h0 == H(f)  k0 == K(f)  c0 == fn[f].chunk
<1>1. /\ k0 \in Keys /\ h0 \in Hosts
      /\ fn'[f] = r /\ kv'[h0][k0] = w
      /\ \A g \in Fns : g # f => fn'[g] = fn[g]
      /\ \A h \in Hosts, k \in Keys : h # h0 \/ k # k0 => kv'[h][k] = kv[h][k]
      /\ kv' = [h \in Hosts |-> [k \in Keys |-> kv'[h][k]]]
      /\ \A h \in Hosts, k \in Keys : kv'[h][k] \in CopyOf(k)
      /\ fn' \in [Fns -> Progress]
  BY StepPlaces
<1>2. StateTypes'
  BY <1>1 DEF StateTypes
<1>3. c0 \in Own(h0, k0) /\ Value(f).lock = {<<"w", f>>} /\ fn[f].at \in Updating
  BY DEF StateInv, WritersAlone, UpdateStep
<1>4. K(f)' = k0 /\ r.chunk = c0 /\ Value(f)' = w
  BY <1>1 DEF UpdateStep, K, Value, H
<1>5. ASSUME NEW g \in Fns, g # f
      PROVE  /\ fn'[g] = fn[g] /\ K(g)' = K(g)
             /\ fn[g].at \in Updating \cup {"reads"} => K(g) \in Keys /\ Value(g)' = Value(g)
  <2>1. fn'[g] = fn[g] /\ K(g)' = K(g)
    BY <1>1, <1>5 DEF K
  <2>2. ASSUME fn[g].at \in Updating \cup {"reads"} PROVE K(g) \in Keys /\ Value(g)' = Value(g)
    <3>1. h0 # H(g) \/ k0 # K(g)
      BY <1>3, <1>5, <2>2, UpdatesApart DEF StateInv
    <3>2. K(g) \in Keys /\ H(g) \in Hosts
      BY <2>2, HostsOfFns DEF StateInv, WritersAlone, At
    <3>3. kv'[H(g)][K(g)] = kv[H(g)][K(g)]
      BY <1>1, <3>1, <3>2
    <3> QED
      BY <2>1, <3>2, <3>3 DEF Value, H
  <2> QED BY <2>1, <2>2
<1>6. WritersAlone'
  <2> SUFFICES ASSUME NEW g \in Fns
               PROVE /\ fn'[g].at \in Updating =>
                           K(g)' \in Keys /\ fn'[g].chunk \in Own(H(g), K(g)') /\ Value(g)'.lock = {<<"w", g>>}
                     /\ fn'[g].at = "reads" => K(g)' \in Keys /\ <<"r", g>> \in Value(g)'.lock
    BY DEF WritersAlone, At, H, Own, Chunks
  <2>1. CASE g = f
    BY SMT, <1>1, <1>3, <1>4, <2>1 DEF UpdateStep, Updating
  <2>2. CASE g # f
    BY <1>5, <2>2 DEF StateInv, WritersAlone, At
  <2> QED BY <2>1, <2>2
<1>7. CopiesCurrent'
  <2> SUFFICES ASSUME NEW h \in Hosts, NEW k \in Keys
               PROVE /\ \A c \in Own(h, k) : c \in kv'[h][k].pulled => kv'[h][k].val[c] = AtStart + updates'[k][c]
                     /\ kv'[h][k].mask \subseteq kv'[h][k].pulled \cap Own(h, k)
    BY DEF CopiesCurrent, Own, Chunks
  <2>1. CASE h = h0 /\ k = k0
    BY SMT, <1>1, <2>1 DEF UpdateStep
  <2>2. CASE h # h0 \/ k # k0
    <3>1. kv'[h][k] = kv[h][k]
      BY <1>1, <2>2
    <3>2. \A c \in Own(h, k) : updates'[k][c] = updates[k][c]
      BY <1>3, <2>2, OwnChunks
    <3> QED
      BY SMT, <3>1, <3>2 DEF StateInv, CopiesCurrent
  <2> QED BY <2>1, <2>2
<1>8. UpdateUnderWay'
  <2> SUFFICES ASSUME NEW g \in Fns
               PROVE /\ fn'[g].at = "read" \/ fn'[g].at \in Unpushed => fn'[g].chunk \in Value(g)'.pulled
                     /\ fn'[g].at = "read" => fn'[g].buffer = Value(g)'.val[fn'[g].chunk]
                     /\ fn'[g].at = "chunk" \/ fn'[g].at = "full" => Value(g)'.dirty
                     /\ fn'[g].at = "chunk" => fn'[g].chunk \in Value(g)'.mask
                     /\ fn'[g].at = "full" => IsSole(H(g), K(g)') /\ Value(g)'.pulled = Chunks(K(g)')
    BY DEF UpdateUnderWay, At, H, IsSole, Own, Chunks
  <2>1. CASE g = f
    BY <1>1, <1>4, <2>1 DEF UpdateStep
  <2>2. CASE g # f
    BY SMT, <1>5, <2>2 DEF StateInv, UpdateUnderWay, At, Updating, Unpushed
  <2> QED BY <2>1, <2>2
<1> QED BY <1>2, <1>6, <1>7, <1>8 DEF StateInv

(* The global state stays right as long as an update that is not pushed    *)
(* stays one, or a step begins one.                                        *)
LEMMA GlobalKept ==
    ASSUME StateInv, NEW f \in Fns, NEW w, NEW r, UpdateStep(f, w, r),
           global' = global, fn[f].at \in Unpushed => r.at \in Unpushed,
           \A k \in Keys : \A c \in Chunks(k) :
              updates'[k][c] = updates[k][c] \/ (k = K(f) /\ c = fn[f].chunk /\ r.at \in Unpushed)
    PROVE  GlobalCurrent'
<1> SUFFICES ASSUME NEW k \in Keys, NEW c \in Chunks(k)
             PROVE \/ global'[k][c] = AtStart + updates'[k][c]
                   \/ \E g \in Fns : fn'[g].at \in Unpushed /\ K(g)' = k /\ fn'[g].chunk = c
  BY DEF GlobalCurrent, Chunks
<1>1. /\ fn'[f] = r /\ r.key = K(f) /\ r.chunk = fn[f].chunk
      /\ \A g \in Fns : g # f => fn'[g] = fn[g]
  BY StepPlaces DEF UpdateStep
<1>2. CASE updates'[k][c] = updates[k][c] /\ global[k][c] = AtStart + updates[k][c]
  BY <1>2
<1>3. CASE \E g \in Fns : fn[g].at \in Unpushed /\ K(g) = k /\ fn[g].chunk = c
  BY <1>1, <1>3 DEF K
<1>4. CASE k = K(f) /\ c = fn[f].chunk /\ r.at \in Unpushed
  BY <1>1, <1>4 DEF K
<1> QED BY <1>2, <1>3, <1>4 DEF StateInv, GlobalCurrent

(* What the lemmas on updates ask, where neither the global state nor the  *)
(* counts change.                                                          *)
LEMMA QuietUpdate ==
    ASSUME StateInv, NEW f \in Fns, NEW w, NEW r, UpdateStep(f, w, r),
           UNCHANGED <<global, updates>>, fn[f].at \in Unpushed => r.at \in Unpushed,
           \A c \in Own(H(f), K(f)) : c \in w.pulled => w.val[c] = AtStart + updates[K(f)][c]
    PROVE  StateInv'
<1>1. GlobalCurrent'
  BY GlobalKept
<1>2. StateTypes
  BY DEF StateInv
<1> QED BY <1>1, <1>2, UpdateKeepsInv DEF StateTypes

(* What is known of a function that updates.                               *)
LEMMA Updater ==
    ASSUME StateInv, NEW f \in Fns, fn[f].at \in Updating
    PROVE  /\ H(f) \in Hosts /\ K(f) \in Keys /\ fn[f] \in Progress
           /\ Value(f) \in CopyOf(K(f)) /\ Value(f) = kv[H(f)][K(f)]
           /\ fn[f].chunk \in Own(H(f), K(f)) /\ fn[f].chunk \in Chunks(K(f))
           /\ \A c \in Own(H(f), K(f)) :
                 c \in Value(f).pulled => Value(f).val[c] = AtStart + updates[K(f)][c]
           /\ Value(f).mask \subseteq Value(f).pulled \cap Own(H(f), K(f))
<1>1. H(f) \in Hosts /\ K(f) \in Keys /\ fn[f] \in Progress /\ fn[f].chunk \in Own(H(f), K(f))
  BY HostsOfFns DEF StateInv, StateTypes, WritersAlone
<1>2. Value(f) = kv[H(f)][K(f)]
  BY DEF Value
<1>3. Value(f) \in CopyOf(K(f))
  BY <1>1, <1>2 DEF StateInv, StateTypes
<1>4. /\ \A c \in Own(H(f), K(f)) : c \in Value(f).pulled => Value(f).val[c] = AtStart + updates[K(f)][c]
      /\ Value(f).mask \subseteq Value(f).pulled \cap Own(H(f), K(f))
  BY <1>1, <1>2 DEF StateInv, CopiesCurrent
<1> QED BY <1>1, <1>2, <1>3, <1>4, OwnChunks

(* Where no update is on its way, the global state is right for the chunks *)
(* of a function that has the lock.                                        *)
LEMMA GlobalRight ==
    ASSUME StateInv, NEW f \in Fns, fn[f].at \in Updating \ Unpushed
    PROVE  \A c \in Own(H(f), K(f)) : global[K(f)][c] = AtStart + updates[K(f)][c]
<1> SUFFICES ASSUME NEW c \in Own(H(f), K(f)), global[K(f)][c] # AtStart + updates[K(f)][c]
             PROVE FALSE
  OBVIOUS
<1>1. K(f) \in Keys /\ c \in Chunks(K(f))
  BY Updater, OwnChunks
<1>2. PICK g \in Fns : fn[g].at \in Unpushed /\ K(g) = K(f) /\ fn[g].chunk = c
  BY <1>1 DEF StateInv, GlobalCurrent
<1>3. fn[g].at \in Updating /\ c \in Own(H(g), K(f))
  BY <1>2, Updater DEF Unpushed, Updating
<1>4. H(g) = H(f)
  BY <1>3, OwnChunks
<1> QED
  BY <1>2, <1>3, <1>4, UpdatesApart DEF StateInv

(* Pulling the whole value keeps the invariant: no update of this host is  *)
(* unpushed.                                                               *)
LEMMA PullKeeps == ASSUME StateInv, NEW f \in Fns, pull_state(f) PROVE StateInv'
<1> DEFINE w == pull(Value(f), K(f))
           r == [fn[f] EXCEPT !.at = "pulled"]
<1>1. fn[f].at = "locked" /\ fn[f].at \in Updating \ Unpushed
  BY DEF pull_state, At, Updating, Unpushed
<1>2. /\ w \in CopyOf(K(f)) /\ w.lock = Value(f).lock /\ w.mask = {}
      /\ w.val = global[K(f)]
  <2>1. global[K(f)] \in [Chunks(K(f)) -> Nat]
    BY <1>1, Updater DEF StateInv, StateTypes
  <2>2. Value(f) \in CopyOf(K(f))
    BY <1>1, Updater
  <2> QED BY <2>1, <2>2 DEF pull, CopyOf
<1>3. r \in Progress /\ r.at = "pulled" /\ r.key = K(f) /\ r.chunk = fn[f].chunk
  <2>1. fn[f] \in Progress
    BY <1>1, Updater
  <2> QED BY <2>1 DEF Progress, Updating, K
<1>4. kv' = [kv EXCEPT ![H(f)][K(f)] = w] /\ fn' = [fn EXCEPT ![f] = r]
  BY <1>1, Updater DEF pull_state, Goes
<1>5. UpdateStep(f, w, r)
  BY <1>1, <1>2, <1>3, <1>4 DEF UpdateStep, Updating, Unpushed
<1> HIDE DEF w, r
<1> QED
  BY <1>1, <1>2, <1>3, <1>5, GlobalRight, QuietUpdate DEF pull_state

(* A read that pulls what is missing keeps the invariant.                  *)
LEMMA ReadKeeps ==
    ASSUME StateInv, NEW f \in Fns, Locked(f), NEW isPtr \in BOOLEAN,
           NEW cs \in SUBSET Chunks(K(f)), fn[f].chunk \in cs, Reads(f, get(Value(f), K(f), cs), isPtr)
    PROVE  StateInv'
<1> DEFINE w == get(Value(f), K(f), cs)
           r == [fn[f] EXCEPT !.at = "read", !.buffer = w.val[fn[f].chunk], !.ptr = isPtr]
<1>1. fn[f].at \in Updating \ Unpushed
  BY DEF Locked, At, Updating, Unpushed
<1>2. /\ w \in CopyOf(K(f)) /\ w.lock = Value(f).lock /\ w.mask = Value(f).mask
      /\ w.pulled = Value(f).pulled \cup cs
      /\ w.val = [c \in Chunks(K(f)) |-> IF c \in cs \ Value(f).pulled THEN global[K(f)][c] ELSE Value(f).val[c]]
  <2>1. \A c \in Chunks(K(f)) : global[K(f)][c] \in Nat
    BY <1>1, Updater DEF StateInv, StateTypes
  <2>2. Value(f) \in CopyOf(K(f))
    BY <1>1, Updater
  <2> QED BY <2>1, <2>2 DEF get, CopyOf
<1>3. w.val[fn[f].chunk] \in Nat
  BY <1>1, <1>2, Updater DEF CopyOf
<1>4. /\ r \in Progress /\ r.at = "read" /\ r.key = K(f) /\ r.chunk = fn[f].chunk
      /\ r.buffer = w.val[fn[f].chunk]
  <2>1. fn[f] \in Progress
    BY <1>1, Updater
  <2> QED BY <1>3, <2>1 DEF Progress, Updating, K
<1>5. kv' = [kv EXCEPT ![H(f)][K(f)] = w] /\ fn' = [fn EXCEPT ![f] = r]
  BY DEF Reads
<1> HIDE DEF w, r
<1>6. \A c \in Own(H(f), K(f)) : c \in w.pulled => w.val[c] = AtStart + updates[K(f)][c]
  <2> SUFFICES ASSUME NEW c \in Own(H(f), K(f)), c \in w.pulled
               PROVE w.val[c] = AtStart + updates[K(f)][c]
    OBVIOUS
  <2>1. c \in Chunks(K(f))
    BY OwnChunks
  <2>2. CASE c \in cs \ Value(f).pulled
    <3>1. w.val[c] = global[K(f)][c]
      BY <1>2, <2>1, <2>2
    <3> QED BY <1>1, <3>1, GlobalRight
  <2>3. CASE c \in Value(f).pulled
    <3>1. w.val[c] = Value(f).val[c]
      BY <1>2, <2>1, <2>3
    <3>2. \A d \in Own(H(f), K(f)) : d \in Value(f).pulled => Value(f).val[d] = AtStart + updates[K(f)][d]
      BY <1>1, Updater
    <3> QED BY <2>3, <3>1, <3>2
  <2> QED BY <1>2, <2>2, <2>3
<1>7. w.mask \subseteq w.pulled \cap Own(H(f), K(f))
  BY <1>1, <1>2, Updater
<1>8. UpdateStep(f, w, r)
  BY <1>1, <1>2, <1>4, <1>5, <1>7 DEF UpdateStep, Updating, Unpushed
<1> QED
  BY <1>1, <1>6, <1>8, QuietUpdate DEF Reads

(* All four ways to read are such a read.                                  *)
LEMMA AllReadsKeep ==
    ASSUME StateInv, NEW f \in Fns,
           read_state(f) \/ read_state_offset(f) \/ read_state_ptr(f) \/ read_state_offset_ptr(f)
    PROVE  StateInv'
<1>1. Locked(f) /\ fn[f].at \in Updating
  BY DEF read_state, read_state_offset, read_state_ptr, read_state_offset_ptr, Locked, At, Updating
<1>2. fn[f].chunk \in Chunks(K(f))
  BY <1>1, Updater
<1>3. PICK isPtr \in BOOLEAN, cs \in {Chunks(K(f)), {fn[f].chunk}} : Reads(f, get(Value(f), K(f), cs), isPtr)
  BY DEF read_state, read_state_offset, read_state_ptr, read_state_offset_ptr
<1> QED
  BY SMT, <1>1, <1>2, <1>3, ReadKeeps

(* The three ways to change the function's chunk.                          *)
LEMMA WriteKeeps ==
    ASSUME StateInv, NEW f \in Fns, fn[f].at = "read", NEW w \in CopyOf(K(f)), NEW p \in Unpushed,
           Writes(f, w, p),
           w.val = [Value(f).val EXCEPT ![fn[f].chunk] = fn[f].buffer + 1],
           w.lock = Value(f).lock, w.mask \subseteq w.pulled \cap Own(H(f), K(f)),
           w.pulled = Value(f).pulled \cup {fn[f].chunk} \/ Value(f).pulled = Chunks(K(f)),
           p \in {"chunk", "full"} => w.dirty, fn[f].chunk \in w.pulled,
           p = "chunk" => fn[f].chunk \in w.mask,
           p = "full" => IsSole(H(f), K(f)) /\ w.pulled = Chunks(K(f))
    PROVE  StateInv'
<1> DEFINE r == [fn[f] EXCEPT !.at = p]
           c0 == fn[f].chunk
<1>1. fn[f].at \in Updating /\ p \in Updating
  BY DEF Updating, Unpushed
<1>2. /\ H(f) \in Hosts /\ K(f) \in Keys /\ c0 \in Own(H(f), K(f)) /\ c0 \in Chunks(K(f))
      /\ Value(f) \in CopyOf(K(f)) /\ fn[f] \in Progress
  BY <1>1, Updater
<1>3. c0 \in Value(f).pulled /\ fn[f].buffer = AtStart + updates[K(f)][c0]
  BY <1>1, <1>2, Updater DEF StateInv, UpdateUnderWay, At
<1>4. r \in Progress /\ r.at = p /\ r.key = K(f) /\ r.chunk = c0
  BY <1>1, <1>2 DEF Progress, K
<1>5. kv' = [kv EXCEPT ![H(f)][K(f)] = w] /\ fn' = [fn EXCEPT ![f] = r]
  BY DEF Writes, Goes
<1>6. UpdateStep(f, w, r)
  BY <1>1, <1>4, <1>5, p # "read" DEF UpdateStep, Unpushed
<1>7. /\ updates' = [k \in Keys |-> [c \in Chunks(k) |-> updates'[k][c]]]
      /\ \A k \in Keys : \A c \in Chunks(k) :
            updates'[k][c] = IF k = K(f) /\ c = c0 THEN updates[k][c] + 1 ELSE updates[k][c]
  <2>1. updates' = [updates EXCEPT ![K(f)][c0] = updates[K(f)][c0] + 1]
    BY DEF Writes
  <2>2. updates = [k \in Keys |-> [c \in Chunks(k) |-> updates[k][c]]]
    BY DEF StateInv, StateTypes
  <2>3. updates' = [k \in Keys |-> IF k = K(f) THEN [updates[k] EXCEPT ![c0] = updates[K(f)][c0] + 1]
                                  ELSE updates[k]]
    BY <1>2, <2>1, <2>2
  <2>4. \A k \in Keys : updates[k] = [c \in Chunks(k) |-> updates[k][c]]
    BY <2>2
  <2>5. \A k \in Keys : updates'[k] = [c \in Chunks(k) |->
            IF k = K(f) /\ c = c0 THEN updates[k][c] + 1 ELSE updates[k][c]]
    BY <1>2, <2>3, <2>4
  <2>6. \A k \in Keys : updates'[k] = [c \in Chunks(k) |-> updates'[k][c]]
    BY <2>5
  <2> QED BY <2>3, <2>5, <2>6
<1>8. \A k \in Keys : \A c \in Chunks(k) : updates[k][c] \in Nat
  BY DEF StateInv, StateTypes
<1>9. \A c \in Own(H(f), K(f)) : c \in w.pulled => w.val[c] = AtStart + updates'[K(f)][c]
  <2> SUFFICES ASSUME NEW c \in Own(H(f), K(f)), c \in w.pulled
               PROVE w.val[c] = AtStart + updates'[K(f)][c]
    OBVIOUS
  <2>0. c \in Chunks(K(f)) /\ Value(f).val \in [Chunks(K(f)) -> Nat]
    BY <1>2, OwnChunks DEF CopyOf
  <2>1. CASE c = c0
    <3>1. w.val[c] = AtStart + updates[K(f)][c0] + 1
      BY <1>2, <1>3, <2>0, <2>1
    <3> QED
      BY SMT, <1>2, <1>7, <1>8, <2>1, <3>1, OwnersAreHosts
  <2>2. CASE c # c0
    <3>1. c \in Value(f).pulled /\ w.val[c] = Value(f).val[c]
      BY <2>0, <2>2
    <3> QED
      BY SMT, <1>1, <1>2, <1>7, <2>0, <2>2, <3>1, Updater
  <2> QED BY <2>1, <2>2
<1>10. UNCHANGED global
  BY DEF Writes
<1> HIDE DEF r
<1>11. GlobalCurrent'
  BY SMT, <1>4, <1>6, <1>7, <1>10, GlobalKept
<1>12. /\ global' = [k \in Keys |-> [c \in Chunks(k) |-> global'[k][c]]]
       /\ \A k \in Keys : \A c \in Chunks(k) : global'[k][c] \in Nat /\ updates'[k][c] \in Nat
  BY SMT, <1>7, <1>8, <1>10 DEF StateInv, StateTypes
<1>13. \A k \in Keys : \A c \in Chunks(k) :
          /\ updates'[k][c] \in Nat
          /\ k # K(f) \/ c # fn[f].chunk => updates'[k][c] = updates[k][c]
  BY SMT, <1>7, <1>12
<1>14. \A k \in Keys : \A c \in Chunks(k) : global'[k][c] \in Nat
  BY <1>12
<1> HIDE DEF c0
<1> QED
  BY <1>6, <1>7, <1>9, <1>11, <1>12, <1>13, <1>14, UpdateKeepsInv

(* Each write makes a copy of the right shape, changed where it should be. *)
LEMMA AllWritesKeep ==
    ASSUME StateInv, NEW f \in Fns, write_state(f) \/ write_state_offset(f) \/ StoreThroughPtr(f)
    PROVE  StateInv'
<1>1. fn[f].at = "read" /\ fn[f].at \in Updating
  BY DEF write_state, write_state_offset, StoreThroughPtr, At, Updating
<1>2. /\ H(f) \in Hosts /\ K(f) \in Keys /\ fn[f] \in Progress /\ Value(f) \in CopyOf(K(f))
      /\ fn[f].chunk \in Own(H(f), K(f)) /\ fn[f].chunk \in Chunks(K(f))
      /\ Value(f).mask \subseteq Value(f).pulled \cap Own(H(f), K(f))
      /\ fn[f].chunk \in Value(f).pulled /\ fn[f].buffer \in Nat
  BY <1>1, Updater DEF StateInv, UpdateUnderWay, At, Progress
<1>6. fn[f].buffer + 1 \in Nat
  BY SMT, <1>2
<1>3. CASE write_state(f)
  <2> DEFINE w == set(Value(f), K(f), fn[f].chunk, fn[f].buffer + 1)
  <2>1. /\ w \in CopyOf(K(f)) /\ w.lock = Value(f).lock /\ w.mask = Value(f).mask /\ w.dirty = TRUE
        /\ w.val = [Value(f).val EXCEPT ![fn[f].chunk] = fn[f].buffer + 1]
        /\ w.pulled = Chunks(K(f))
    <3> DEFINE v == Value(f)  k == K(f)  c == fn[f].chunk  x == fn[f].buffer + 1
               u == [v.val EXCEPT ![c] = x]
    <3>1. v \in CopyOf(k) /\ c \in Chunks(k) /\ x \in Nat
      BY <1>2, <1>6
    <3> HIDE DEF v, k, c, x
    <3>2. u \in [Chunks(k) -> Nat]
      BY <3>1 DEF CopyOf
    <3>3. w = [v EXCEPT !.val = u, !.pulled = Chunks(k), !.dirty = TRUE]
      BY DEF set, v, k, c, x
    <3> HIDE DEF u, w
    <3>4. /\ w.lock = v.lock /\ w.mask = v.mask /\ w.dirty = TRUE
          /\ w.val = u /\ w.pulled = Chunks(k) /\ w \in CopyOf(k)
      BY <3>1, <3>2, <3>3 DEF CopyOf
    <3> QED BY <3>4 DEF u, v, k, c, x
  <2>2. Writes(f, w, "full") /\ IsSole(H(f), K(f)) /\ Value(f).pulled = Chunks(K(f)) /\ "full" \in Unpushed
    BY <1>3 DEF write_state, Unpushed
  <2> HIDE DEF w
  <2> QED BY <1>1, <1>2, <2>1, <2>2, WriteKeeps
<1>4. CASE write_state_offset(f)
  <2> DEFINE w == setChunk(Value(f), fn[f].chunk, fn[f].buffer + 1)
  <2>1. /\ w \in CopyOf(K(f)) /\ w.lock = Value(f).lock /\ w.dirty = TRUE
        /\ w.mask = Value(f).mask \cup {fn[f].chunk}
        /\ w.val = [Value(f).val EXCEPT ![fn[f].chunk] = fn[f].buffer + 1]
        /\ w.pulled = Value(f).pulled \cup {fn[f].chunk}
    <3> DEFINE v == Value(f)  k == K(f)  c == fn[f].chunk  x == fn[f].buffer + 1
               u == [v.val EXCEPT ![c] = x]  p == v.pulled \cup {c}  m == v.mask \cup {c}
    <3>1. v \in CopyOf(k) /\ c \in Chunks(k) /\ x \in Nat
      BY <1>2, <1>6
    <3> HIDE DEF v, k, c, x
    <3>2. /\ u \in [Chunks(k) -> Nat]
          /\ p \in SUBSET Chunks(k) /\ m \in SUBSET Chunks(k)
      BY <3>1 DEF CopyOf
    <3>3. w = [v EXCEPT !.val = u, !.pulled = p, !.dirty = TRUE, !.mask = m]
      BY DEF setChunk, v, k, c, x
    <3> HIDE DEF u, p, m, w
    <3>4. /\ w.lock = v.lock /\ w.mask = m /\ w.dirty = TRUE
          /\ w.val = u /\ w.pulled = p /\ w \in CopyOf(k)
      BY <3>1, <3>2, <3>3 DEF CopyOf
    <3> QED BY <3>4 DEF u, p, m, v, k, c, x
  <2>2. Writes(f, w, "chunk") /\ "chunk" \in Unpushed
    BY <1>4 DEF write_state_offset, Unpushed
  <2> HIDE DEF w
  <2>3. w.mask \subseteq w.pulled \cap Own(H(f), K(f)) /\ fn[f].chunk \in w.mask /\ fn[f].chunk \in w.pulled
    BY <1>2, <2>1
  <2> QED BY <1>1, <2>1, <2>2, <2>3, WriteKeeps
<1>5. CASE StoreThroughPtr(f)
  <2> DEFINE w == [Value(f) EXCEPT !.val[fn[f].chunk] = fn[f].buffer + 1]
  <2>1. /\ w \in CopyOf(K(f)) /\ w.lock = Value(f).lock /\ w.mask = Value(f).mask
        /\ w.val = [Value(f).val EXCEPT ![fn[f].chunk] = fn[f].buffer + 1]
        /\ w.pulled = Value(f).pulled
    BY SMT, <1>2 DEF CopyOf
  <2>2. Writes(f, w, "stored") /\ "stored" \in Unpushed
    BY <1>5 DEF StoreThroughPtr, Unpushed
  <2> HIDE DEF w
  <2>3. w.pulled = Value(f).pulled \cup {fn[f].chunk} /\ fn[f].chunk \in w.pulled
    BY <1>2, <2>1
  <2>4. w.mask \subseteq w.pulled \cap Own(H(f), K(f))
    BY <1>2, <2>1
  <2> QED BY <1>1, <2>1, <2>2, <2>3, <2>4, WriteKeeps
<1> QED BY <1>3, <1>4, <1>5

(* Flagging the value or the chunk dirty keeps the invariant.              *)
LEMMA FlagKeeps ==
    ASSUME StateInv, NEW f \in Fns, flag_state_dirty(f) \/ flag_state_offset_dirty(f)
    PROVE  StateInv'
<1>1. fn[f].at = "stored" /\ fn[f].at \in Updating /\ fn[f].at \in Unpushed
  BY DEF flag_state_dirty, flag_state_offset_dirty, At, Updating, Unpushed
<1>2. /\ H(f) \in Hosts /\ K(f) \in Keys /\ fn[f] \in Progress /\ Value(f) \in CopyOf(K(f))
      /\ fn[f].chunk \in Own(H(f), K(f)) /\ fn[f].chunk \in Chunks(K(f))
      /\ Value(f).mask \subseteq Value(f).pulled \cap Own(H(f), K(f))
      /\ fn[f].chunk \in Value(f).pulled
      /\ \A c \in Own(H(f), K(f)) : c \in Value(f).pulled => Value(f).val[c] = AtStart + updates[K(f)][c]
      /\ Value(f) = kv[H(f)][K(f)] /\ kv = [h \in Hosts |-> [k \in Keys |-> kv[h][k]]]
  <2>1. fn[f].chunk \in Value(f).pulled /\ kv = [h \in Hosts |-> [k \in Keys |-> kv[h][k]]]
    BY <1>1 DEF StateInv, StateTypes, UpdateUnderWay
  <2> QED BY <1>1, <2>1, Updater
<1>3. CASE flag_state_dirty(f)
  <2> DEFINE w == [Value(f) EXCEPT !.dirty = TRUE]
             r == [fn[f] EXCEPT !.at = "full"]
  <2>1. /\ w \in CopyOf(K(f)) /\ w.lock = Value(f).lock /\ w.mask = Value(f).mask /\ w.dirty = TRUE
        /\ w.val = Value(f).val /\ w.pulled = Value(f).pulled
    BY <1>2 DEF CopyOf
  <2>2. r \in Progress /\ r.at = "full" /\ r.key = K(f) /\ r.chunk = fn[f].chunk
    BY <1>2 DEF Progress, K, Updating
  <2>3. kv' = [kv EXCEPT ![H(f)][K(f)] = w] /\ fn' = [fn EXCEPT ![f] = r]
    BY <1>2, <1>3 DEF flag_state_dirty, Goes, Value
  <2>4. IsSole(H(f), K(f)) /\ Value(f).pulled = Chunks(K(f)) /\ UNCHANGED <<global, updates>>
    BY <1>3 DEF flag_state_dirty
  <2> HIDE DEF w, r
  <2>5. UpdateStep(f, w, r)
    BY <1>1, <1>2, <2>1, <2>2, <2>3, <2>4 DEF UpdateStep, Updating, Unpushed
  <2> QED BY SMT, <1>2, <2>1, <2>2, <2>4, <2>5, QuietUpdate DEF Unpushed
<1>4. CASE flag_state_offset_dirty(f)
  <2> DEFINE w == [Value(f) EXCEPT !.dirty = TRUE, !.mask = @ \cup {fn[f].chunk}]
             r == [fn[f] EXCEPT !.at = "chunk"]
  <2>1. /\ w \in CopyOf(K(f)) /\ w.lock = Value(f).lock /\ w.dirty = TRUE
        /\ w.mask = Value(f).mask \cup {fn[f].chunk}
        /\ w.val = Value(f).val /\ w.pulled = Value(f).pulled
    BY <1>2 DEF CopyOf
  <2>2. r \in Progress /\ r.at = "chunk" /\ r.key = K(f) /\ r.chunk = fn[f].chunk
    BY <1>2 DEF Progress, K, Updating
  <2>3. kv' = [kv EXCEPT ![H(f)][K(f)] = w] /\ fn' = [fn EXCEPT ![f] = r] /\ UNCHANGED <<global, updates>>
    BY <1>4 DEF flag_state_offset_dirty, Goes
  <2> HIDE DEF w, r
  <2>4. w.mask \subseteq w.pulled \cap Own(H(f), K(f)) /\ r.chunk \in w.mask /\ r.chunk \in w.pulled
    BY <1>2, <2>1, <2>2
  <2>5. UpdateStep(f, w, r)
    BY <1>1, <2>1, <2>2, <2>3, <2>4 DEF UpdateStep, Updating, Unpushed
  <2> QED BY SMT, <1>2, <2>1, <2>2, <2>3, <2>5, QuietUpdate DEF Unpushed
<1> QED BY <1>3, <1>4

(* The three ways to push keep the invariant: what they send is the own    *)
(* chunk with its update.                                                  *)
LEMMA PushKeeps ==
    ASSUME StateInv, NEW f \in Fns, push_state(f) \/ push_state_partial(f) \/ push_state_partial_mask(f)
    PROVE  StateInv'
<1>1. fn[f].at \in {"chunk", "full"} /\ fn[f].at \in Updating /\ fn[f].at \in Unpushed
  BY DEF push_state, push_state_partial, push_state_partial_mask, At, Updating, Unpushed
<1>2. /\ H(f) \in Hosts /\ K(f) \in Keys /\ fn[f] \in Progress /\ Value(f) \in CopyOf(K(f))
      /\ fn[f].chunk \in Own(H(f), K(f)) /\ fn[f].chunk \in Chunks(K(f))
      /\ Value(f).mask \subseteq Value(f).pulled \cap Own(H(f), K(f))
      /\ \A c \in Own(H(f), K(f)) : c \in Value(f).pulled => Value(f).val[c] = AtStart + updates[K(f)][c]
      /\ Value(f) = kv[H(f)][K(f)]
  BY <1>1, Updater
<1>3. /\ fn[f].chunk \in Value(f).pulled /\ Value(f).dirty
      /\ fn[f].at = "chunk" => fn[f].chunk \in Value(f).mask
      /\ fn[f].at = "full" => IsSole(H(f), K(f)) /\ Value(f).pulled = Chunks(K(f))
  BY <1>1 DEF StateInv, UpdateUnderWay, At
(* All of the ways push the chunk that was changed, and otherwise chunks   *)
(* of the host that it has.                                                *)
<1>4. PICK cs \in SUBSET Chunks(K(f)) :
         /\ Push(H(f), K(f), cs)
         /\ fn[f].chunk \in cs /\ cs \subseteq Value(f).pulled \cap Own(H(f), K(f))
  <2>1. CASE push_state(f)
    BY <1>1, <1>2, <1>3, <2>1 DEF push_state, IsSole, At
  <2>2. CASE push_state_partial(f)
    BY <1>1, <1>2, <1>3, <2>2 DEF push_state_partial, CopyOf, At
  <2>3. CASE push_state_partial_mask(f)
    BY SMT, <1>1, <1>2, <1>3, <2>3 DEF push_state_partial_mask, At
  <2> QED BY <2>1, <2>2, <2>3
<1> DEFINE w == Clean(Value(f))
           r == [fn[f] EXCEPT !.at = "pushed"]
<1>5. /\ w \in CopyOf(K(f)) /\ w.lock = Value(f).lock /\ w.mask = {}
      /\ w.val = Value(f).val /\ w.pulled = Value(f).pulled
  BY <1>2 DEF Clean, CopyOf
<1>6. r \in Progress /\ r.at = "pushed" /\ r.key = K(f) /\ r.chunk = fn[f].chunk
  BY <1>2 DEF Progress, K, Updating
<1>7. kv' = [kv EXCEPT ![H(f)][K(f)] = w] /\ fn' = [fn EXCEPT ![f] = r] /\ UNCHANGED updates
  BY <1>2, <1>4 DEF push_state, push_state_partial, push_state_partial_mask, Goes, Push
<1>8. UpdateStep(f, w, r)
  BY <1>1, <1>5, <1>6, <1>7 DEF UpdateStep, Updating, Unpushed
<1>9. /\ global' = [k \in Keys |-> [c \in Chunks(k) |-> global'[k][c]]]
      /\ \A k \in Keys : \A c \in Chunks(k) :
            global'[k][c] = IF k = K(f) /\ c \in cs THEN Value(f).val[c] ELSE global[k][c]
  <2>1. global' = [global EXCEPT ![K(f)] = [c \in Chunks(K(f)) |->
                      IF c \in cs THEN Value(f).val[c] ELSE global[K(f)][c]]]
    BY <1>2, <1>3, <1>4 DEF Push
  <2>2. global = [k \in Keys |-> [c \in Chunks(k) |-> global[k][c]]]
    BY DEF StateInv, StateTypes
  <2>3. \A k \in Keys : global'[k] = [c \in Chunks(k) |->
            IF k = K(f) /\ c \in cs THEN Value(f).val[c] ELSE global[k][c]]
    BY <1>2, <2>1, <2>2
  <2>4. global' = [k \in Keys |-> global'[k]]
    BY <1>2, <2>1, <2>2
  <2>5. \A k \in Keys : global'[k] = [c \in Chunks(k) |-> global'[k][c]]
    BY <2>3
  <2> QED BY SMT, <2>3, <2>4, <2>5
<1> HIDE DEF w, r
<1>10. \A k \in Keys : \A c \in Chunks(k) : global'[k][c] \in Nat
  <2>1. \A c \in Chunks(K(f)) : Value(f).val[c] \in Nat
    BY <1>2 DEF CopyOf
  <2> QED BY SMT, <1>9, <2>1 DEF StateInv, StateTypes
<1>11. GlobalCurrent'
  <2> SUFFICES ASSUME NEW k \in Keys, NEW c \in Chunks(k)
               PROVE \/ global'[k][c] = AtStart + updates'[k][c]
                     \/ \E g \in Fns : fn'[g].at \in Unpushed /\ K(g)' = k /\ fn'[g].chunk = c
    BY DEF GlobalCurrent, Chunks
  <2>1. CASE k = K(f) /\ c \in cs
    BY <1>2, <1>4, <1>7, <1>9, <2>1
  <2>2. CASE ~(k = K(f) /\ c \in cs)
    <3>1. global'[k][c] = global[k][c] /\ updates'[k][c] = updates[k][c]
      BY <1>7, <1>9, <2>2
    <3>2. CASE global[k][c] = AtStart + updates[k][c]
      BY <3>1, <3>2
    <3>3. CASE \E g \in Fns : fn[g].at \in Unpushed /\ K(g) = k /\ fn[g].chunk = c
      <4>1. PICK g \in Fns : fn[g].at \in Unpushed /\ K(g) = k /\ fn[g].chunk = c
        BY <3>3
      <4>2. g # f
        BY <1>4, <2>2, <4>1
      <4>3. fn'[g] = fn[g]
        BY <1>8, <4>2, StepPlaces
      <4> QED BY <4>1, <4>3 DEF K
    <3> QED BY <3>2, <3>3 DEF StateInv, GlobalCurrent
  <2> QED BY <2>1, <2>2
<1>12. /\ updates' = [k \in Keys |-> [c \in Chunks(k) |-> updates'[k][c]]]
       /\ \A k \in Keys : \A c \in Chunks(k) :
             /\ updates'[k][c] \in Nat
             /\ k # K(f) \/ c # fn[f].chunk => updates'[k][c] = updates[k][c]
  BY <1>7 DEF StateInv, StateTypes
<1>13. \A c \in Own(H(f), K(f)) : c \in w.pulled => w.val[c] = AtStart + updates'[K(f)][c]
  BY <1>2, <1>5, <1>7
<1> QED
  BY <1>8, <1>9, <1>10, <1>11, <1>12, <1>13, UpdateKeepsInv

(* A step that takes or gives back a lock: L are the holders afterwards, r *)
(* is the progress of f, and the other functions keep what they held.      *)
LockStep(f, k, L, r) ==
    /\ fn[f].at \in {"idle", "reads", "pushed"}
    /\ kv' = [kv EXCEPT ![H(f)][k].lock = L]
    /\ fn' = [fn EXCEPT ![f] = r]
    /\ UNCHANGED <<global, updates>>
    /\ L \subseteq {"r", "w"} \X Fns /\ r \in Progress
    /\ \/ r.at = "idle"
       \/ r.at = "reads" /\ r.key = k /\ <<"r", f>> \in L
       \/ r.at = "locked" /\ r.key = k /\ r.chunk \in Own(H(f), k) /\ L = {<<"w", f>>}
    /\ \A g \in Fns \ {f} : H(g) = H(f) /\ K(g) = k =>
          /\ fn[g].at \in Updating => L = {<<"w", g>>}
          /\ At(g, "reads") => <<"r", g>> \in L

(* A step that takes or gives back a lock keeps the invariant.             *)
LEMMA LocksKeep ==
    ASSUME StateInv, NEW f \in Fns, NEW k \in Keys, NEW L, NEW r, LockStep(f, k, L, r)
    PROVE  StateInv'
<1> DEFINE h0 == H(f)
           w == [kv[h0][k] EXCEPT !.lock = L]
<1>1. h0 \in Hosts /\ fn \in [Fns -> Progress] /\ kv[h0][k] \in CopyOf(k)
      /\ kv = [h \in Hosts |-> [j \in Keys |-> kv[h][j]]]
  BY HostsOfFns DEF StateInv, StateTypes
<1>2. /\ w \in CopyOf(k) /\ w.lock = L
      /\ w.val = kv[h0][k].val /\ w.pulled = kv[h0][k].pulled
      /\ w.dirty = kv[h0][k].dirty /\ w.mask = kv[h0][k].mask
  BY <1>1 DEF CopyOf, LockStep
<1>3. kv' = [kv EXCEPT ![h0][k] = w]
  BY <1>1 DEF LockStep
<1> HIDE DEF w
<1>4. \A h \in Hosts, j \in Keys : kv'[h][j] = IF h = h0 /\ j = k THEN w ELSE kv[h][j]
  BY <1>1, <1>3
<1>5. kv' = [h \in Hosts |-> [j \in Keys |-> kv'[h][j]]]
  BY <1>1, <1>3
<1>6. fn'[f] = r /\ fn' \in [Fns -> Progress] /\ \A g \in Fns : g # f => fn'[g] = fn[g]
  BY <1>1 DEF LockStep
<1>7. StateTypes'
  <2>1. \A h \in Hosts, j \in Keys : kv'[h][j] \in CopyOf(j)
    BY SMT, <1>2, <1>4 DEF StateInv, StateTypes
  <2>2. global' = global /\ updates' = updates
    BY DEF LockStep
  <2> QED BY <1>5, <1>6, <2>1, <2>2 DEF StateInv, StateTypes
<1>8. \A h \in Hosts, j \in Keys :
         /\ kv'[h][j].val = kv[h][j].val /\ kv'[h][j].pulled = kv[h][j].pulled
         /\ kv'[h][j].dirty = kv[h][j].dirty /\ kv'[h][j].mask = kv[h][j].mask
  BY <1>2, <1>4
<1>9. CopiesCurrent'
  BY SMT, <1>8 DEF StateInv, CopiesCurrent, LockStep, Own, Chunks
<1>10. \A g \in Fns : g # f => K(g)' = K(g)
  BY <1>6 DEF K
<1>11. ASSUME NEW g \in Fns, fn'[g].at \in Updating \cup {"reads"}, g # f
       PROVE  /\ K(g)' \in Keys /\ H(g) \in Hosts /\ fn'[g] = fn[g] /\ K(g)' = K(g)
              /\ Value(g)' = kv'[H(g)][K(g)] /\ Value(g) = kv[H(g)][K(g)]
  <2>1. fn'[g] = fn[g] /\ K(g)' = K(g)
    BY <1>6, <1>10, <1>11
  <2>2. K(g) \in Keys /\ H(g) \in Hosts
    BY <1>11, <2>1, HostsOfFns DEF StateInv, WritersAlone, At
  <2> QED BY <2>1, <2>2 DEF Value, H
<1>12. fn'[f].at \in Updating \cup {"reads"} => K(f)' = k /\ Value(f)' = w
  <2>1. Value(f)' = kv'[h0][K(f)']
    BY DEF Value, H
  <2>2. fn'[f].at \in Updating \cup {"reads"} => K(f)' = k
    BY <1>6 DEF LockStep, K, Updating
  <2> QED BY <1>1, <1>4, <2>1, <2>2
<1>13. WritersAlone'
  <2> SUFFICES ASSUME NEW g \in Fns
               PROVE /\ fn'[g].at \in Updating =>
                           K(g)' \in Keys /\ fn'[g].chunk \in Own(H(g), K(g)') /\ Value(g)'.lock = {<<"w", g>>}
                     /\ fn'[g].at = "reads" => K(g)' \in Keys /\ <<"r", g>> \in Value(g)'.lock
    BY DEF WritersAlone, At, H, Own, Chunks
  <2>1. CASE g = f
    BY <1>2, <1>6, <1>12, <2>1 DEF LockStep, Updating
  <2>2. CASE g # f /\ fn'[g].at \in Updating \cup {"reads"}
    <3>1. CASE H(g) = h0 /\ K(g) = k
      <4>1. Value(g)'.lock = L
        BY SMT, <1>2, <1>4, <1>11, <2>2, <3>1
      <4> QED
        BY <1>11, <2>2, <3>1, <4>1 DEF LockStep, StateInv, WritersAlone, At
    <3>2. CASE H(g) # h0 \/ K(g) # k
      <4>1. Value(g)' = Value(g)
        BY SMT, <1>4, <1>11, <2>2, <3>2
      <4> QED
        BY <1>11, <2>2, <4>1 DEF StateInv, WritersAlone, At
    <3> QED BY <3>1, <3>2
  <2> QED BY <2>1, <2>2
<1>14. UpdateUnderWay'
  <2> SUFFICES ASSUME NEW g \in Fns
               PROVE /\ fn'[g].at = "read" \/ fn'[g].at \in Unpushed => fn'[g].chunk \in Value(g)'.pulled
                     /\ fn'[g].at = "read" => fn'[g].buffer = Value(g)'.val[fn'[g].chunk]
                     /\ fn'[g].at = "chunk" \/ fn'[g].at = "full" => Value(g)'.dirty
                     /\ fn'[g].at = "chunk" => fn'[g].chunk \in Value(g)'.mask
                     /\ fn'[g].at = "full" => IsSole(H(g), K(g)') /\ Value(g)'.pulled = Chunks(K(g)')
    BY DEF UpdateUnderWay, At, H, IsSole, Own, Chunks
  <2>1. CASE g = f
    BY <1>6, <2>1 DEF LockStep, Unpushed
  <2>2. CASE g # f /\ fn'[g].at \in Updating
    <3>1. /\ Value(g)'.val = Value(g).val /\ Value(g)'.pulled = Value(g).pulled
          /\ Value(g)'.dirty = Value(g).dirty /\ Value(g)'.mask = Value(g).mask
      BY SMT, <1>8, <1>11, <2>2
    <3> QED
      BY SMT, <1>11, <2>2, <3>1 DEF StateInv, UpdateUnderWay, At
  <2> QED BY <2>1, <2>2 DEF Updating, Unpushed
<1>15. GlobalCurrent'
  <2> SUFFICES ASSUME NEW j \in Keys, NEW c \in Chunks(j)
               PROVE \/ global'[j][c] = AtStart + updates'[j][c]
                     \/ \E g \in Fns : fn'[g].at \in Unpushed /\ K(g)' = j /\ fn'[g].chunk = c
    BY DEF GlobalCurrent, Chunks
  <2>1. CASE global[j][c] = AtStart + updates[j][c]
    BY <2>1 DEF LockStep
  <2>2. CASE \E g \in Fns : fn[g].at \in Unpushed /\ K(g) = j /\ fn[g].chunk = c
    <3>1. PICK g \in Fns : fn[g].at \in Unpushed /\ K(g) = j /\ fn[g].chunk = c
      BY <2>2
    <3>2. g # f
      BY <3>1 DEF LockStep, Unpushed
    <3> QED BY <1>6, <1>10, <3>1, <3>2
  <2> QED BY <2>1, <2>2 DEF StateInv, GlobalCurrent
<1> QED BY <1>7, <1>9, <1>13, <1>14, <1>15 DEF StateInv

(* Each of the four lock calls is such a step.                             *)
LEMMA TakingKeeps ==
    ASSUME StateInv, NEW f \in Fns, NEW k \in Keys,
           lock_state_read(f, k) \/ \E c \in Chunks(k) : lock_state_write(f, k, c)
    PROVE  StateInv'
<1>1. /\ H(f) \in Hosts /\ kv[H(f)][k] \in CopyOf(k) /\ fn[f] \in Progress
      /\ fn \in [Fns -> Progress] /\ kv[H(f)][k].lock \subseteq {"r", "w"} \X Fns
  BY HostsOfFns DEF StateInv, StateTypes, CopyOf
<1>2. \A g \in Fns : /\ fn[g].at \in Updating => Value(g).lock = {<<"w", g>>}
                     /\ At(g, "reads") => <<"r", g>> \in Value(g).lock
  BY DEF StateInv, WritersAlone
<1>3. \A g \in Fns : H(g) = H(f) /\ K(g) = k => Value(g) = kv[H(f)][k]
  BY DEF Value
<1>4. CASE lock_state_read(f, k)
  <2> DEFINE L == kv[H(f)][k].lock \cup {<<"r", f>>}
             r == [fn[f] EXCEPT !.at = "reads", !.key = k]
  <2>1. r \in Progress /\ r.at = "reads" /\ r.key = k
    BY <1>1 DEF Progress
  <2>2. fn' = [fn EXCEPT ![f] = r] /\ kv' = [kv EXCEPT ![H(f)][k].lock = L] /\ UNCHANGED <<global, updates>>
    BY <1>1, <1>4 DEF lock_state_read
  <2>3. ASSUME NEW g \in Fns \ {f}, H(g) = H(f), K(g) = k
        PROVE  fn[g].at \notin Updating /\ (At(g, "reads") => <<"r", g>> \in L)
    <3>1. fn[g].at \notin Updating
      <4> SUFFICES ASSUME fn[g].at \in Updating PROVE FALSE
        OBVIOUS
      <4>1. <<"w", g>> \in kv[H(f)][k].lock
        BY <1>2, <1>3, <2>3
      <4>2. <<"w", g>>[1] = "r"
        BY <1>4, <4>1 DEF lock_state_read
      <4> QED BY <4>2
    <3> QED BY <1>2, <1>3, <2>3, <3>1
  <2>4. L \subseteq {"r", "w"} \X Fns /\ <<"r", f>> \in L
    BY SMT, <1>1
  <2>5. fn[f].at = "idle"
    BY <1>4 DEF lock_state_read, At
  <2> HIDE DEF L, r
  <2>6. LockStep(f, k, L, r)
    BY <2>1, <2>2, <2>3, <2>4, <2>5 DEF LockStep
  <2> QED BY <2>6, LocksKeep
<1>5. ASSUME NEW c \in Chunks(k), lock_state_write(f, k, c) PROVE StateInv'
  <2> DEFINE L == {<<"w", f>>}
             r == [fn[f] EXCEPT !.at = "locked", !.key = k, !.chunk = c]
  <2>0. c \in AnyChunk
    BY DEF AnyChunk
  <2>1. r \in Progress /\ r.at = "locked" /\ r.key = k /\ r.chunk = c /\ c \in Own(H(f), k)
    BY <1>1, <1>5, <2>0 DEF Progress, Updating, lock_state_write
  <2>2. fn' = [fn EXCEPT ![f] = r] /\ kv' = [kv EXCEPT ![H(f)][k].lock = L] /\ UNCHANGED <<global, updates>>
    BY <1>1, <1>5 DEF lock_state_write
  <2>3. ASSUME NEW g \in Fns \ {f}, H(g) = H(f), K(g) = k
        PROVE  fn[g].at \notin Updating /\ ~At(g, "reads")
    <3>1. Value(g).lock = {}
      BY <1>3, <1>5, <2>3 DEF lock_state_write
    <3> QED BY <1>2, <2>3, <3>1
  <2>4. L \subseteq {"r", "w"} \X Fns
    BY SMT
  <2>5. fn[f].at = "idle"
    BY <1>5 DEF lock_state_write, At
  <2>6. L = {<<"w", f>>}
    OBVIOUS
  <2> HIDE DEF L, r
  <2>7. LockStep(f, k, L, r)
    BY <2>1, <2>2, <2>3, <2>4, <2>5, <2>6 DEF LockStep
  <2> QED BY <2>7, LocksKeep
<1> QED BY <1>4, <1>5

(* Giving back a lock is such a step.                                      *)
LEMMA GivingBackKeeps ==
    ASSUME StateInv, NEW f \in Fns, unlock_state_write(f) \/ unlock_state_read(f)
    PROVE  StateInv'
<1> DEFINE r == [NotUpdating EXCEPT !.done = fn[f].done + 1]
           L == Value(f).lock \ (IF At(f, "pushed") THEN {<<"w", f>>} ELSE {<<"r", f>>})
<1>1. fn[f].at \in {"pushed", "reads"}
  BY DEF unlock_state_write, unlock_state_read, At
<1>2. K(f) \in Keys /\ H(f) \in Hosts
  BY <1>1, HostsOfFns DEF StateInv, WritersAlone, At, Updating
<1>3. /\ Value(f) = kv[H(f)][K(f)] /\ Value(f) \in CopyOf(K(f)) /\ fn[f] \in Progress
      /\ fn \in [Fns -> Progress] /\ Value(f).lock \subseteq {"r", "w"} \X Fns
  BY <1>2 DEF StateInv, StateTypes, CopyOf, Value
<1>4. r \in Progress /\ r.at = "idle"
  <2>1. \A n \in Nat : [NotUpdating EXCEPT !.done = n] \in Progress /\ [NotUpdating EXCEPT !.done = n].at = "idle"
    BY DEF NotUpdating, Progress
  <2>2. fn[f].done \in Nat
    BY <1>3 DEF Progress
  <2>3. fn[f].done + 1 \in Nat
    BY SMT, <2>2
  <2> QED BY <2>1, <2>3
<1>5. /\ fn' = [fn EXCEPT ![f] = r] /\ UNCHANGED <<global, updates>>
      /\ kv' = [kv EXCEPT ![H(f)][K(f)].lock = L]
  BY <1>3 DEF unlock_state_write, unlock_state_read, At
<1>6. ASSUME NEW g \in Fns \ {f}, H(g) = H(f), K(g) = K(f)
      PROVE  /\ fn[g].at \notin Updating
             /\ At(g, "reads") => <<"r", g>> \in L
  <2>1. fn[g].at \notin Updating
    BY <1>1, <1>6, UpdatesApart DEF StateInv, Updating
  <2>2. ASSUME At(g, "reads") PROVE <<"r", g>> \in L
    <3>1. fn[f].at = "reads"
      BY <1>1, <1>6, <2>2, UpdatesApart DEF StateInv, Updating, At
    <3>2. <<"r", g>> \in Value(f).lock
      BY <1>6, <2>2 DEF StateInv, WritersAlone, Value
    <3>3. <<"r", g>> # <<"r", f>>
      BY <1>6
    <3> QED BY <3>1, <3>2, <3>3 DEF At
  <2> QED BY <2>1, <2>2
<1>7. L \subseteq {"r", "w"} \X Fns
  BY <1>3
<1> HIDE DEF L, r
<1>8. LockStep(f, K(f), L, r)
  BY <1>1, <1>4, <1>5, <1>6, <1>7 DEF LockStep
<1> QED BY <1>2, <1>8, LocksKeep

(* Appending and clearing touch none of this.                              *)
LEMMA StateUntouched ==
    ASSUME StateInv, UNCHANGED <<kv, global, fn, updates>> PROVE StateInv'
<1>1. StateTypes'
  BY DEF StateInv, StateTypes, CopyOf, Chunks
<1>2. WritersAlone'
  BY DEF StateInv, WritersAlone, At, K, H, Value, Own, Chunks
<1>3. CopiesCurrent'
  BY SMT DEF StateInv, CopiesCurrent, Own, Chunks
<1>4. UpdateUnderWay'
  BY DEF StateInv, UpdateUnderWay, At, K, H, Value, Own, IsSole, Chunks
<1>5. GlobalCurrent'
  BY SMT DEF StateInv, GlobalCurrent, K, Chunks
<1> QED BY <1>1, <1>2, <1>3, <1>4, <1>5 DEF StateInv

(* Every step of a function keeps the invariant.                           *)
LEMMA StateStepInv == ASSUME StateInv, StateNext PROVE StateInv'
<1>1. PICK f \in Fns : StateStep(f)
  BY DEF StateNext
<1>2. CASE \E k \in Keys : lock_state_read(f, k) \/ \E c \in Chunks(k) : lock_state_write(f, k, c)
  BY <1>2, TakingKeeps
<1>3. CASE unlock_state_write(f) \/ unlock_state_read(f)
  BY <1>3, GivingBackKeeps
<1>4. CASE pull_state(f)
  BY <1>4, PullKeeps
<1>5. CASE read_state(f) \/ read_state_offset(f) \/ read_state_ptr(f) \/ read_state_offset_ptr(f)
  BY <1>5, AllReadsKeep
<1>6. CASE write_state(f) \/ write_state_offset(f) \/ StoreThroughPtr(f)
  BY <1>6, AllWritesKeep
<1>7. CASE flag_state_dirty(f) \/ flag_state_offset_dirty(f)
  BY <1>7, FlagKeeps
<1>8. CASE push_state(f) \/ push_state_partial(f) \/ push_state_partial_mask(f)
  BY <1>8, PushKeeps
<1>9. CASE append_state(f) \/ read_appended_state(f) \/ clear_appended_state(f)
  BY <1>9, StateUntouched DEF append_state, read_appended_state, clear_appended_state, stateVars
<1> QED
  BY <1>1, <1>2, <1>3, <1>4, <1>5, <1>6, <1>7, <1>8, <1>9 DEF StateStep

(* An update made under the write lock is in the owner's copy ...           *)
LEMMA InvKeepsUpdates == StateInv => LockedUpdatesAreKept
<1> SUFFICES ASSUME StateInv, NEW k \in Keys, NEW c \in Chunks(k),
                    c \in kv[OwnerOf[k][c]][k].pulled
             PROVE  kv[OwnerOf[k][c]][k].val[c] = AtStart + updates[k][c]
  BY DEF LockedUpdatesAreKept
<1>1. OwnerOf[k][c] \in Hosts /\ c \in Own(OwnerOf[k][c], k)
  BY OwnersAreHosts DEF Own
<1> QED BY <1>1 DEF StateInv, CopiesCurrent

(* ... and, when nobody holds the owner's lock, in the global state.        *)
LEMMA InvReachesGlobal == StateInv => PushesReachGlobal
<1> SUFFICES ASSUME StateInv, NEW k \in Keys, NEW c \in Chunks(k),
                    kv[OwnerOf[k][c]][k].lock = {}, global[k][c] # AtStart + updates[k][c]
             PROVE  FALSE
  BY DEF PushesReachGlobal
<1>1. PICK f \in Fns : fn[f].at \in Unpushed /\ K(f) = k /\ fn[f].chunk = c
  BY DEF StateInv, GlobalCurrent
<1>2. /\ fn[f].chunk \in Own(H(f), K(f)) /\ Value(f).lock = {<<"w", f>>}
  BY <1>1 DEF StateInv, WritersAlone, Unpushed, Updating
<1>3. H(f) = OwnerOf[k][c]
  BY <1>1, <1>2 DEF Own
<1> QED BY <1>1, <1>2, <1>3 DEF Value

(* The state of a host by itself.                                          *)
StateSpec == StateInit /\ [][StateNext]_stateVars

(* The invariant holds throughout.                                         *)
LEMMA StateAlwaysInv == StateSpec => []StateInv
<1>1. StateInv /\ [StateNext]_stateVars => StateInv'
  BY StateStepInv, StateUntouched DEF stateVars
<1> QED BY <1>1, StateInitInv, PTL DEF StateSpec

(* Updates that follow the locking discipline (lock_state_write, read,     *)
(* write, push_state*, unlock) are all in the value the host reads, for    *)
(* any number of functions, hosts, keys and chunks (LockedUpdatesAreKept). *)
THEOREM UpdatesAreNotLost == StateSpec => []LockedUpdatesAreKept
BY StateAlwaysInv, InvKeepsUpdates, PTL

(* Once nobody has a lock of the host's copy of a value, the global value  *)
(* of every chunk of that host has every update (PushesReachGlobal):       *)
(* pushes of whole values, of chunks and by mask lose none, also not those *)
(* of other hosts.                                                         *)
THEOREM PushedIsGlobal == StateSpec => []PushesReachGlobal
BY StateAlwaysInv, InvReachesGlobal, PTL
=============================================================================
