---------------------------- MODULE OmpStaticFor -----------------------------
(***************************************************************************)
(* for_static_init: each thread of an OpenMP team works out its share of   *)
(* the iterations of a loop from its own number.  The arithmetic is that   *)
(* of a signed type of Mod values; the guest's loop over the bounds it is  *)
(* given is the one the compiler emits for a static schedule.              *)
(***************************************************************************)
EXTENDS Integers, FiniteSets

CONSTANTS
    Mod,            \* 2^w: T is a w-bit signed integer
    Below, Above,   \* loop bounds are within -Below..Above
    MaxIncr,        \* loop increments are within -MaxIncr..MaxIncr
    MaxChunk,       \* chunk sizes; 0 if the clause has none
    MaxLoopTeam,    \* numThreads of the level
    None

ASSUME StaticForValues ==
    /\ Mod \in Nat \ {0} /\ Mod % 2 = 0
    /\ Below \in 0..(Mod \div 2) /\ Above \in 0..(Mod \div 2 - 1)
    /\ {MaxIncr, MaxLoopTeam} \subseteq 1..(Mod \div 2 - 1) /\ MaxChunk \in Nat

Bounds == (-Below)..Above
Incrs == ((-MaxIncr)..MaxIncr) \ {0}

VARIABLES
    loop,           \* [schedule, lower, upper, incr, chunk, team], None outside one
    share           \* thread |-> [lower, upper, stride, last], None before the call

loopVars == <<loop, share>>

Signed(x) == ((x + Mod \div 2) % Mod) - Mod \div 2
Unsigned(x) == x % Mod

(* C's integer division truncates. *)
Quot(a, b) ==
    IF (a >= 0) = (b > 0) THEN (IF a >= 0 THEN a ELSE -a) \div (IF b > 0 THEN b ELSE -b)
    ELSE -((IF a >= 0 THEN a ELSE -a) \div (IF b > 0 THEN b ELSE -b))

(* The loop variable's values when nothing wraps. *)
LoopIterations(l) ==
    IF l.incr > 0
    THEN {i \in l.lower..l.upper : (i - l.lower) % l.incr = 0}
    ELSE {i \in l.upper..l.lower : (l.lower - i) % (-l.incr) = 0}

(* The compiler guards a worksharing loop: it is entered only if it has an *)
(* iteration.                                                              *)
Loops ==
    {l \in [schedule : {"static", "chunked"}, lower : Bounds, upper : Bounds,
            incr : Incrs, chunk : 0..MaxChunk, team : 1..MaxLoopTeam] :
        LoopIterations(l) # {} /\ (l.schedule = "static" => l.chunk = 0)}

LoopInit == loop = None /\ share = <<>>

(* A team comes to a worksharing loop (the guest's code, external).        *)
EnterLoop ==
    /\ loop = None
    /\ loop' \in Loops
    /\ share' = [t \in 0..(loop'.team - 1) |-> None]

tripCount(l) ==
    IF l.incr = 1 THEN Unsigned(l.upper - l.lower + 1)
    ELSE IF l.incr = -1 THEN Unsigned(l.lower - l.upper + 1)
    ELSE IF l.incr > 0 THEN Unsigned(Quot(Signed(l.upper - l.lower), l.incr) + 1)
    ELSE Unsigned(Quot(Signed(l.lower - l.upper), -l.incr) + 1)

Share(lower, upper, stride, last) ==
    [lower |-> lower, upper |-> upper, stride |-> stride, last |-> last]

(* A team of one has the whole loop. *)
WholeLoop(l) ==
    Share(l.lower, l.upper,
          Signed(IF l.incr > 0 THEN l.upper - l.lower + 1 ELSE -(l.lower - l.upper + 1)), TRUE)

(* sch_static_chunked: chunks go round the team. *)
ChunkedShare(l, t) ==
    LET chunk == IF l.chunk < 1 THEN 1 ELSE l.chunk
        span == Signed(chunk * l.incr)
        lower == Signed(l.lower + span * t)
    IN Share(lower, Signed(lower + span - l.incr), Signed(span * l.team),
             t = ((tripCount(l) - 1) \div chunk) % l.team)

(* sch_static with fewer iterations than threads. *)
SmallShare(l, t) ==
    LET n == tripCount(l)
        at == Signed(l.lower + t * l.incr)
    IN IF t < n THEN Share(at, at, n, t = n - 1)
                ELSE Share(Signed(l.upper + l.incr), l.upper, n, t = n - 1)

(* Mutant: the threads that have one iteration more do not shift the rest. *)
BalancedShare_NoShift(l, t) ==
    LET n == tripCount(l)
        small == n \div l.team
        extras == n % l.team
        lower == Signed(l.lower + l.incr * (t * small))
    IN Share(lower, Signed(lower + small * l.incr - (IF t < extras THEN 0 ELSE l.incr)),
             n, t = l.team - 1)

(* sch_static: the first extras threads have one iteration more. *)
BalancedShare(l, t) ==
    LET n == tripCount(l)
        small == n \div l.team
        extras == n % l.team
        lower == Signed(l.lower + l.incr * (t * small + (IF t < extras THEN t ELSE extras)))
    IN Share(lower, Signed(lower + small * l.incr - (IF t < extras THEN 0 ELSE l.incr)),
             n, t = l.team - 1)

for_static_init(t) ==
    /\ share[t] = None
    /\ share' = [share EXCEPT ![t] =
          IF loop.team = 1 THEN WholeLoop(loop)
          ELSE IF loop.schedule = "chunked" THEN ChunkedShare(loop, t)
          ELSE IF tripCount(loop) < loop.team THEN SmallShare(loop, t)
          ELSE BalancedShare(loop, t)]
    /\ UNCHANGED loop

(* __kmpc_for_static_init_4 and _8: the width of T is Mod's.               *)
kmpc_for_static_init(t) == for_static_init(t)

LoopNext ==
    \/ EnterLoop
    \/ \E t \in DOMAIN share : kmpc_for_static_init(t)

(***************************************************************************)
(* Properties                                                              *)
(***************************************************************************)
(* The k-th block of a share: with chunks the guest moves both bounds by   *)
(* the stride and stops at the end of the loop.                            *)
Block(s, k) ==
    LET first == s.lower + k * s.stride
        last == s.upper + k * s.stride
    IN IF loop.incr > 0
       THEN {i \in LoopIterations(loop) : first <= i /\ i <= last}
       ELSE {i \in LoopIterations(loop) : first >= i /\ i >= last}

Blocks == 0..(IF loop.schedule = "chunked" THEN Cardinality(LoopIterations(loop)) ELSE 0)

(* What a thread runs; outside the loop nothing may be run at all.         *)
Executed(t) == UNION {Block(share[t], k) : k \in Blocks}

Outside(t) ==
    /\ loop.schedule = "static" /\ share[t].lower \notin LoopIterations(loop)
    /\ IF loop.incr > 0 THEN share[t].lower <= share[t].upper
                        ELSE share[t].lower >= share[t].upper

AllCalled == loop # None /\ \A t \in DOMAIN share : share[t] # None

LastIteration ==
    CHOOSE i \in LoopIterations(loop) : \A j \in LoopIterations(loop) :
        IF loop.incr > 0 THEN j <= i ELSE j >= i

(* "compute the upper and lower bounds and strides to be used for the set  *)
(* of iterations to be executed by the current thread": the shares of a    *)
(* team have every iteration of the loop once and no other, and the flag   *)
(* that makes a thread keep lastprivate variables is set for the one       *)
(* thread that runs the last iteration.                                    *)
LoopIsShared ==
    AllCalled =>
       /\ \A i \in LoopIterations(loop) :
             Cardinality({t \in DOMAIN share : i \in Executed(t)}) = 1
       /\ \A t \in DOMAIN share :
             ~Outside(t) /\ (share[t].last <=> LastIteration \in Executed(t))

(* "Upper-lower can exceed the limit of signed type": the trip count is    *)
(* the number of iterations also when the difference of the bounds is not  *)
(* a value of the signed type.                                             *)
TripCountIsExact == loop # None => tripCount(loop) = Cardinality(LoopIterations(loop))
=============================================================================
