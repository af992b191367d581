-------------------------------- MODULE Pool --------------------------------
(***************************************************************************)
(* The object pool of src/src/lib/pool/pool.hpp.  The TCP service keeps    *)
(* its Encrypter instances in one (src/src/service/service.cpp) and the    *)
(* client API its connections (src/src/api/api.cpp).                       *)
(*                                                                         *)
(* A call of acquire() is three steps, because the code is: the limit is   *)
(* tested before the mutex is taken, and the factory runs (resolving and   *)
(* connecting, for the API's pool) while the mutex is held, where other    *)
(* threads still read `total'.  Every other critical section is one step   *)
(* that needs the mutex free.  The ttlMonitor thread takes the mutex anew  *)
(* for every entry it inspects.                                            *)
(***************************************************************************)
EXTENDS Integers, Sequences, FiniteSets

CONSTANTS
  Threads,          \* the threads that call acquire() and drop the Proxy
  NoThread,         \* "nobody holds the mutex"
  InitialSize,      \* Configuration::initialSize
  MaxPoolSize,      \* Configuration::maxPoolSize
  MaxConnections,   \* Configuration::maxConnections
  MaxIdleTime,      \* Configuration::maxIdleTime, in clock ticks
  MaxCreated,       \* bound: how often the factory is called in all
  MaxTime           \* bound: the last tick of the clock

ASSUME PoolAssumption ==
  /\ IsFiniteSet(Threads)
  /\ Threads # {}
  /\ NoThread \notin Threads
  /\ InitialSize \in Nat
  /\ MaxPoolSize \in Nat
  /\ MaxConnections \in Nat \ {0}
  /\ MaxIdleTime \in Nat
  /\ MaxCreated \in Nat
  /\ InitialSize <= MaxCreated
  /\ MaxTime \in Nat

VARIABLES
  available,   \* the deque of idle wrappers: [con, time], the front first
  total,       \* the counter acquire() increments and release() decrements
  created,     \* calls of the factory so far; also the newest identity
  mutex,       \* who holds the mutex between two steps
  stop,        \* set by ~Pool()
  pc,          \* where every thread is in its call
  held,        \* the object in every thread's Proxy, or NoCon
  monitor,     \* where the ttlMonitor thread is
  sweepNow,    \* removeExpired()'s `now'
  clock,       \* std::chrono::system_clock, assumed not to be set back
  failed       \* history: calls of the factory that have thrown

vars == <<available, total, created, mutex, stop, pc, held, monitor,
          sweepNow, clock, failed>>

NoCon == 0

Entry == [con : 1..MaxCreated, time : 0..MaxTime]

\* The call states: between calls "out", or "refused" or "failed" when the
\* last call ended so; inside acquire() "checked" and "creating"; "using"
\* from acquire()'s return to the end of the Proxy.
Idle == {"out", "refused", "failed"}

TypeOK ==
  /\ available \in Seq(Entry)
  /\ total \in Nat
  /\ created \in 0..MaxCreated
  /\ mutex \in Threads \cup {NoThread}
  /\ stop \in BOOLEAN
  /\ pc \in [Threads -> Idle \cup {"checked", "creating", "using"}]
  /\ held \in [Threads -> 0..MaxCreated]
  /\ monitor \in {"sleeping", "sweeping", "exited"}
  /\ sweepNow \in 0..MaxTime
  /\ clock \in 0..MaxTime
  /\ failed \in Nat

\* The constructor: initialSize objects, then the monitor thread.
Init ==
  /\ available = [i \in 1..InitialSize |-> [con |-> i, time |-> 0]]
  /\ total = 0
  /\ created = InitialSize
  /\ mutex = NoThread
  /\ stop = FALSE
  /\ pc = [t \in Threads |-> "out"]
  /\ held = [t \in Threads |-> NoCon]
  /\ monitor = "sleeping"
  /\ sweepNow = 0
  /\ clock = 0
  /\ failed = 0

-----------------------------------------------------------------------------
(* acquire() *)

\* The test of the limit, made without the mutex.
UnderLimitMutant == total <= MaxConnections
UnderLimit == total < MaxConnections

NothingIdleMutant == mutex = NoThread
NothingIdle == available = <<>>

\* One increment serves both branches of acquire().
CountCallMutant == total' = IF available = <<>> THEN total + 1 ELSE total
CountCall == total' = total + 1

PopFrontMutant == available' = SubSeq(available, 1, Len(available) - 1)
PopFront == available' = Tail(available)

\* The limit is not reached yet ...
Check(t) ==
  /\ ~stop
  /\ pc[t] \in Idle
  /\ UnderLimit
  /\ pc' = [pc EXCEPT ![t] = "checked"]
  /\ UNCHANGED <<available, total, created, mutex, stop, held, monitor,
                 sweepNow, clock, failed>>

\* ... or it is: the caller gets std::nullopt.
Refuse(t) ==
  /\ ~stop
  /\ pc[t] \in Idle
  /\ ~UnderLimit
  /\ pc' = [pc EXCEPT ![t] = "refused"]
  /\ UNCHANGED <<available, total, created, mutex, stop, held, monitor,
                 sweepNow, clock, failed>>

\* The front of the deque is moved into the Proxy.
TakeIdle(t) ==
  /\ pc[t] = "checked"
  /\ mutex = NoThread
  /\ ~NothingIdle
  /\ CountCall
  /\ PopFront
  /\ held' = [held EXCEPT ![t] = Head(available).con]
  /\ pc' = [pc EXCEPT ![t] = "using"]
  /\ UNCHANGED <<created, mutex, stop, monitor, sweepNow, clock, failed>>

\* Nothing is idle: both counters go up and the factory is called.
BeginCreateMutant(t) ==
  /\ pc[t] = "checked"
  /\ mutex = NoThread
  /\ NothingIdle
  /\ created < MaxCreated
  /\ CountCall
  /\ created' = created + 1
  /\ pc' = [pc EXCEPT ![t] = "creating"]
  /\ UNCHANGED <<available, mutex, stop, held, monitor, sweepNow, clock,
                 failed>>

BeginCreate(t) ==
  /\ pc[t] = "checked"
  /\ mutex = NoThread
  /\ NothingIdle
  /\ created < MaxCreated
  /\ CountCall
  /\ created' = created + 1
  /\ mutex' = t
  /\ pc' = [pc EXCEPT ![t] = "creating"]
  /\ UNCHANGED <<available, stop, held, monitor, sweepNow, clock, failed>>

\* The factory returns an object, which goes into the Proxy.
CreateReturns(t) ==
  /\ pc[t] = "creating"
  /\ held' = [held EXCEPT ![t] = created]
  /\ pc' = [pc EXCEPT ![t] = "using"]
  /\ mutex' = NoThread
  /\ UNCHANGED <<available, total, created, stop, monitor, sweepNow, clock,
                 failed>>

\* The factory throws (no host, no connection, no cipher): the lock guard
\* frees the mutex, the counters keep their increments.
CreateThrows(t) ==
  /\ pc[t] = "creating"
  /\ pc' = [pc EXCEPT ![t] = "failed"]
  /\ mutex' = NoThread
  /\ failed' = failed + 1
  /\ UNCHANGED <<available, total, created, stop, held, monitor, sweepNow,
                 clock>>

-----------------------------------------------------------------------------
(* ~Proxy() and release() *)

\* Where a returned object goes, stamped with the time: to the back.
GiveBackMutant(con) ==
  available' = <<[con |-> con, time |-> clock]>> \o available
GiveBack(con) == available' = Append(available, [con |-> con, time |-> clock])

UncountMutant(valid) == total' = IF valid THEN total - 1 ELSE total
Uncount(valid) == total' = total - 1

\* An object that is no longer valid, or finds the deque full, is destroyed.
Release(t, valid) ==
  /\ pc[t] = "using"
  /\ mutex = NoThread
  /\ Uncount(valid)
  /\ IF valid /\ Len(available) < MaxPoolSize
       THEN GiveBack(held[t])
       ELSE UNCHANGED available
  /\ held' = [held EXCEPT ![t] = NoCon]
  /\ pc' = [pc EXCEPT ![t] = "out"]
  /\ UNCHANGED <<created, mutex, stop, monitor, sweepNow, clock, failed>>

-----------------------------------------------------------------------------
(* The ttlMonitor thread and removeExpired() *)

\* `now' is read once for the whole sweep.
ReadNowMutant == sweepNow' = sweepNow
ReadNow == sweepNow' = clock

BeginSweepMutant ==
  /\ monitor = "sleeping"
  /\ monitor' = "sweeping"
  /\ ReadNow
  /\ UNCHANGED <<available, total, created, mutex, stop, pc, held, clock,
                 failed>>

BeginSweep ==
  /\ monitor = "sleeping"
  /\ ~stop
  /\ monitor' = "sweeping"
  /\ ReadNow
  /\ UNCHANGED <<available, total, created, mutex, stop, pc, held, clock,
                 failed>>

\* There is a front, and it has idled for too long.
FrontExpired ==
  /\ available # <<>>
  /\ sweepNow - Head(available).time >= MaxIdleTime

SweepErase ==
  /\ monitor = "sweeping"
  /\ mutex = NoThread
  /\ FrontExpired
  /\ PopFront
  /\ UNCHANGED <<total, created, mutex, stop, pc, held, monitor, sweepNow,
                 clock, failed>>

\* The loop stops at an empty deque and at the first entry not expired.
SweepOver == ~FrontExpired

SweepEnd ==
  /\ monitor = "sweeping"
  /\ mutex = NoThread
  /\ SweepOver
  /\ monitor' = "sleeping"
  /\ UNCHANGED <<available, total, created, mutex, stop, pc, held, sweepNow,
                 clock, failed>>

MonitorExit ==
  /\ monitor = "sleeping"
  /\ stop
  /\ monitor' = "exited"
  /\ UNCHANGED <<available, total, created, mutex, stop, pc, held, sweepNow,
                 clock, failed>>

-----------------------------------------------------------------------------
\* ~Pool(): the holders are function-local statics, destroyed once no thread
\* calls any more; the destructor then joins the monitor.
Destroy ==
  /\ ~stop
  /\ \A t \in Threads : pc[t] \in Idle
  /\ stop' = TRUE
  /\ UNCHANGED <<available, total, created, mutex, pc, held, monitor,
                 sweepNow, clock, failed>>

\* The join is over: nothing is left to do.
Destroyed ==
  /\ monitor = "exited"
  /\ UNCHANGED vars

Tick ==
  /\ clock < MaxTime
  /\ clock' = clock + 1
  /\ UNCHANGED <<available, total, created, mutex, stop, pc, held, monitor,
                 sweepNow, failed>>

Acquire(t) ==
  \/ Check(t) \/ Refuse(t) \/ TakeIdle(t)
  \/ BeginCreate(t) \/ CreateReturns(t) \/ CreateThrows(t)

TtlMonitor == BeginSweep \/ SweepErase \/ SweepEnd \/ MonitorExit

Next ==
  \/ \E t \in Threads : Acquire(t) \/ \E valid \in BOOLEAN : Release(t, valid)
  \/ TtlMonitor
  \/ Destroy
  \/ Destroyed
  \/ Tick

Spec == Init /\ [][Next]_vars

\* The scheduler runs the monitor thread, a mutex that is free again and again
\* is granted to it in the end, and a factory returns or throws: constructing
\* an Encrypter is a computation, a TCP connect times out.
FairSpec ==
  /\ Spec
  /\ WF_vars(BeginSweep \/ MonitorExit)
  /\ SF_vars(SweepErase \/ SweepEnd)
  /\ \A t \in Threads : WF_vars(CreateReturns(t) \/ CreateThrows(t))

-----------------------------------------------------------------------------
(* Properties *)

IdleCons == {available[i].con : i \in DOMAIN available}

InUse == {t \in Threads : pc[t] \in {"creating", "using"}}

\* No object is in two Proxies, in two places of the deque, or in a Proxy and
\* the deque at once: an Encrypter's cipher contexts and a connection's
\* buffer have no lock of their own and rely on this.
Exclusive ==
  /\ \A i, j \in DOMAIN available :
       available[i].con = available[j].con => i = j
  /\ \A t, u \in Threads :
       held[t] # NoCon /\ held[t] = held[u] => t = u
  /\ \A t \in Threads : held[t] \notin IdleCons

\* `total' counts the calls that are creating or using an object, plus one for
\* every factory call that threw: acquire() increments before it calls the
\* factory and nothing takes that back.
Accounting == total = Cardinality(InUse) + failed

\* The limit is tested without the mutex, so it can be overrun, but by no more
\* than one call per other thread, whatever failed before.
CapacityBound == total <= MaxConnections + Cardinality(Threads) - 1

\* The pool never has more objects than the larger of its initial size and the
\* number of threads: acquire() creates only when nothing is idle.
LiveBound ==
  \/ Len(available) + Cardinality(InUse) <= InitialSize
  \/ Len(available) + Cardinality(InUse) <= Cardinality(Threads)

\* A sweep that stops leaves nothing behind that had expired at its `now',
\* although it looks at the front only and calls come in between its steps.
SweepComplete ==
  [][monitor = "sweeping" /\ monitor' = "sleeping"
       => \A i \in DOMAIN available :
            sweepNow - available[i].time < MaxIdleTime]_vars

\* Pool implements Lending: seen through the idle objects and the Proxies,
\* a creation that spans two steps is a single one that finds nothing idle.
LendingPool ==
  INSTANCE Lending WITH
    Objects  <- 1..MaxCreated,
    NoObject <- NoCon,
    Initial  <- 1..InitialSize,
    idle     <- IdleCons,
    lent     <- held

LendingSpec == LendingPool!Spec

Expired(c) ==
  \E i \in DOMAIN available :
    /\ available[i].con = c
    /\ clock - available[i].time >= MaxIdleTime

\* An object that has idled for maxIdleTime is taken or erased in the end,
\* unless the pool itself is being destroyed.
ExpiredReclaimed ==
  \A c \in 1..MaxCreated : Expired(c) ~> (~Expired(c) \/ stop)

\* ~Pool() returns: the monitor sees `stop' and ends, also from within a sweep.
DestructorReturns == stop ~> (monitor = "exited")

=============================================================================
