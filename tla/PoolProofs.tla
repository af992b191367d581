----------------------------- MODULE PoolProofs -----------------------------
(***************************************************************************)
(* What is proved of Pool for every set of threads and every              *)
(* configuration.  Each section names the inductive invariant its theorem  *)
(* rests on; the step lemmas have one case per action.                     *)
(***************************************************************************)
EXTENDS Pool, FiniteSetTheorems, TLAPS

-----------------------------------------------------------------------------
(* Types and the counter.  TypeOK needs Accounting, which says that there   *)
(* is something to subtract when release() decrements `total', and that a   *)
(* thread has an object exactly while it is using one.                      *)

Holding ==
  \A t \in Threads :
    /\ held[t] # NoCon <=> pc[t] = "using"
    /\ pc[t] = "creating" => created > 0

TypeInv == TypeOK /\ Accounting /\ Holding

\* A set of threads is finite, and a thread that enters or leaves it counts
\* for one.
LEMMA ThreadCount ==
  ASSUME NEW S \in SUBSET Threads
  PROVE  /\ Cardinality(S) \in Nat
         /\ Cardinality(S) <= Cardinality(Threads)
         /\ Cardinality(Threads) \in Nat
         /\ \A t \in Threads \ S : Cardinality(S \cup {t}) = Cardinality(S) + 1
         /\ \A t \in S : /\ Cardinality(S \ {t}) = Cardinality(S) - 1
                         /\ Cardinality(S) > 0
<1>1. IsFiniteSet(S) /\ Cardinality(S) <= Cardinality(Threads)
  BY PoolAssumption, FS_Subset DEF PoolAssumption
<1>2. Cardinality(S) \in Nat /\ Cardinality(Threads) \in Nat
  BY <1>1, PoolAssumption, FS_CardinalityType DEF PoolAssumption
<1>3. \A t \in Threads \ S : Cardinality(S \cup {t}) = Cardinality(S) + 1
  BY <1>1, FS_AddElement
<1>4. ASSUME NEW t \in S
      PROVE  Cardinality(S \ {t}) = Cardinality(S) - 1 /\ Cardinality(S) > 0
  <2>1. Cardinality(S \ {t}) = Cardinality(S) - 1
    BY <1>1, FS_RemoveElement
  <2>2. Cardinality(S \ {t}) \in Nat
    BY <1>1, FS_RemoveElement, FS_CardinalityType
  <2>. QED  BY <1>2, <2>1, <2>2
<1>. QED  BY <1>1, <1>2, <1>3, <1>4

\* How the steps of acquire() and release() change InUse.
LEMMA InUseChange ==
  ASSUME TypeOK, NEW t \in Threads
  PROVE  /\ pc' = [pc EXCEPT ![t] = "using"] \/ pc' = [pc EXCEPT ![t] = "creating"]
              => InUse' = InUse \cup {t}
         /\ \A s \in Idle \cup {"checked"} :
              pc' = [pc EXCEPT ![t] = s] => InUse' = InUse \ {t}
BY DEF TypeOK, InUse, Idle

\* What that does to Accounting.
LEMMA Entering ==
  ASSUME TypeOK, Accounting, NEW t \in Threads, t \notin InUse,
         InUse' = InUse \cup {t}, total' = total + 1, failed' = failed
  PROVE  Accounting'
<1>. InUse \in SUBSET Threads
  BY DEF InUse
<1>1. Cardinality(InUse') = Cardinality(InUse) + 1
  BY ThreadCount
<1>. QED  BY <1>1, ThreadCount DEF Accounting, TypeOK

LEMMA Leaving ==
  ASSUME TypeOK, Accounting, NEW t \in Threads, t \in InUse
  PROVE  /\ total > 0
         /\ /\ InUse' = InUse \ {t}
            /\ \/ total' = total - 1 /\ failed' = failed
               \/ total' = total /\ failed' = failed + 1
            => Accounting'
<1>. InUse \in SUBSET Threads
  BY DEF InUse
<1>1. /\ Cardinality(InUse) \in Nat \ {0}
      /\ Cardinality(InUse \ {t}) = Cardinality(InUse) - 1
  BY ThreadCount
<1>2. total > 0
  BY <1>1 DEF Accounting, TypeOK
<1>3. ASSUME InUse' = InUse \ {t},
             \/ total' = total - 1 /\ failed' = failed
             \/ total' = total /\ failed' = failed + 1
      PROVE  Accounting'
  <2>1. Cardinality(InUse') = Cardinality(InUse) - 1
    BY <1>1, <1>3
  <2>. QED  BY <1>1, <1>3, <2>1 DEF Accounting, TypeOK
<1>. QED  BY <1>2, <1>3

LEMMA TypeInit == Init => TypeInv
<1>. SUFFICES ASSUME Init PROVE TypeInv
  OBVIOUS
<1>. USE PoolAssumption DEF PoolAssumption
<1>1. available \in Seq(Entry)
  <2>1. \A i \in 1..InitialSize : [con |-> i, time |-> 0] \in Entry
    BY DEF Entry
  <2>. QED  BY <2>1 DEF Init
<1>2. TypeOK
  <2>1. created \in 0..MaxCreated /\ clock \in 0..MaxTime /\ sweepNow \in 0..MaxTime
    BY DEF Init
  <2>2. pc \in [Threads -> Idle] /\ held \in [Threads -> 0..MaxCreated]
    BY DEF Init, Idle, NoCon
  <2>. QED  BY <1>1, <2>1, <2>2 DEF Init, TypeOK
<1>3. InUse = {}
  BY DEF Init, InUse
<1>4. Accounting
  BY <1>3, FS_EmptySet DEF Accounting, Init
<1>5. Holding
  BY DEF Holding, Init
<1>. QED  BY <1>2, <1>4, <1>5 DEF TypeInv

LEMMA TypeStep == TypeInv /\ [Next]_vars => TypeInv'
<1>. SUFFICES ASSUME TypeInv, [Next]_vars PROVE TypeInv'
  OBVIOUS
<1>. USE PoolAssumption DEF PoolAssumption, TypeInv
<1>1. CASE UNCHANGED vars
  BY <1>1 DEF vars, TypeOK, Accounting, InUse, Holding
<1>2. ASSUME NEW t \in Threads, Check(t) PROVE TypeInv'
  <2>1. TypeOK' /\ Holding'
    BY <1>2 DEF Check, TypeOK, Holding, Idle
  <2>2. InUse' = InUse
    BY <1>2, InUseChange DEF Check, Idle, InUse
  <2>. QED  BY <1>2, <2>1, <2>2 DEF Check, Accounting
<1>3. ASSUME NEW t \in Threads, Refuse(t) PROVE TypeInv'
  <2>1. TypeOK' /\ Holding'
    BY <1>3 DEF Refuse, TypeOK, Holding, Idle
  <2>2. InUse' = InUse
    BY <1>3, InUseChange DEF Refuse, Idle, InUse
  <2>. QED  BY <1>3, <2>1, <2>2 DEF Refuse, Accounting
<1>4. ASSUME NEW t \in Threads, TakeIdle(t) PROVE TypeInv'
  <2>1. Head(available) \in Entry /\ Tail(available) \in Seq(Entry)
    BY <1>4 DEF TakeIdle, NothingIdle, TypeOK
  <2>2. Head(available).con \in 1..MaxCreated
    BY <2>1 DEF Entry
  <2>3. TypeOK' /\ Holding'
    BY <1>4, <2>1, <2>2
    DEF TakeIdle, PopFront, CountCall, TypeOK, Holding, NoCon, Idle
  <2>4. InUse' = InUse \cup {t} /\ t \notin InUse
    BY <1>4, InUseChange DEF TakeIdle, InUse
  <2>. QED
    BY <1>4, <2>3, <2>4, Entering DEF TakeIdle, CountCall
<1>5. ASSUME NEW t \in Threads, BeginCreate(t) PROVE TypeInv'
  <2>1. TypeOK' /\ Holding'
    BY <1>5 DEF BeginCreate, CountCall, TypeOK, Holding, Idle
  <2>2. InUse' = InUse \cup {t} /\ t \notin InUse
    BY <1>5, InUseChange DEF BeginCreate, InUse
  <2>. QED
    BY <1>5, <2>1, <2>2, Entering DEF BeginCreate, CountCall
<1>6. ASSUME NEW t \in Threads, CreateReturns(t) PROVE TypeInv'
  <2>1. TypeOK' /\ Holding'
    BY <1>6 DEF CreateReturns, TypeOK, Holding, NoCon, Idle
  <2>2. InUse' = InUse
    BY <1>6 DEF CreateReturns, InUse, TypeOK
  <2>. QED  BY <1>6, <2>1, <2>2 DEF CreateReturns, Accounting
<1>7. ASSUME NEW t \in Threads, CreateThrows(t) PROVE TypeInv'
  <2>1. TypeOK' /\ Holding'
    BY <1>7 DEF CreateThrows, TypeOK, Holding, Idle
  <2>2. InUse' = InUse \ {t} /\ t \in InUse
    BY <1>7, InUseChange DEF CreateThrows, InUse, Idle
  <2>. QED
    BY <1>7, <2>1, <2>2, Leaving DEF CreateThrows
<1>8. ASSUME NEW t \in Threads, NEW valid \in BOOLEAN, Release(t, valid)
      PROVE  TypeInv'
  <2>1. InUse' = InUse \ {t} /\ t \in InUse
    BY <1>8, InUseChange DEF Release, InUse, Idle
  <2>2. total > 0
    BY <2>1, Leaving
  <2>3. [con |-> held[t], time |-> clock] \in Entry
    BY <1>8 DEF Release, Holding, TypeOK, Entry, NoCon
  <2>4. available' \in Seq(Entry)
    <3>1. available \in Seq(Entry)
      BY DEF TypeOK
    <3>2. Append(available, [con |-> held[t], time |-> clock]) \in Seq(Entry)
      BY <2>3, <3>1
    <3>. QED  BY <1>8, <3>1, <3>2 DEF Release, GiveBack
  <2>5. TypeOK' /\ Holding'
    BY <1>8, <2>2, <2>4
    DEF Release, Uncount, TypeOK, Holding, NoCon, Idle
  <2>. QED
    BY <1>8, <2>1, <2>5, Leaving DEF Release, Uncount
<1>9. ASSUME BeginSweep \/ SweepEnd \/ MonitorExit PROVE TypeInv'
  <2>1. TypeOK' /\ Holding'
    BY <1>9 DEF BeginSweep, ReadNow, SweepEnd, MonitorExit, TypeOK, Holding
  <2>2. InUse' = InUse /\ UNCHANGED <<total, failed>>
    BY <1>9 DEF BeginSweep, SweepEnd, MonitorExit, InUse
  <2>. QED  BY <2>1, <2>2 DEF Accounting
<1>10. ASSUME SweepErase PROVE TypeInv'
  <2>1. available' \in Seq(Entry)
    BY <1>10 DEF SweepErase, FrontExpired, PopFront, TypeOK
  <2>2. TypeOK' /\ Holding'
    BY <1>10, <2>1 DEF SweepErase, TypeOK, Holding
  <2>3. InUse' = InUse /\ UNCHANGED <<total, failed>>
    BY <1>10 DEF SweepErase, InUse
  <2>. QED  BY <2>2, <2>3 DEF Accounting
<1>11. ASSUME Destroy \/ Tick PROVE TypeInv'
  <2>1. clock' \in 0..MaxTime
    BY <1>11 DEF Destroy, Tick, TypeOK
  <2>2. TypeOK' /\ Holding'
    BY <1>11, <2>1 DEF Destroy, Tick, TypeOK, Holding
  <2>3. InUse' = InUse /\ UNCHANGED <<total, failed>>
    BY <1>11 DEF Destroy, Tick, InUse
  <2>. QED  BY <2>2, <2>3 DEF Accounting
<1>. QED
  BY <1>1, <1>2, <1>3, <1>4, <1>5, <1>6, <1>7, <1>8, <1>9, <1>10, <1>11
  DEF Next, Acquire, TtlMonitor, Destroyed

\* The state stays in its type; in particular `total', an unsigned counter in
\* the code, is never decremented below zero.
THEOREM TypeCorrect == Spec => []TypeOK
<1>1. Spec => []TypeInv
  BY TypeInit, TypeStep, PTL DEF Spec
<1>2. TypeInv => TypeOK
  BY DEF TypeInv
<1>. QED  BY <1>1, <1>2, PTL

\* `total' is the number of objects in use plus the number of factory calls
\* that have ever thrown, for any number of threads.
THEOREM AccountingCorrect == Spec => []Accounting
<1>1. Spec => []TypeInv
  BY TypeInit, TypeStep, PTL DEF Spec
<1>2. TypeInv => Accounting
  BY DEF TypeInv
<1>. QED  BY <1>1, <1>2, PTL


-----------------------------------------------------------------------------
(* The limits.  A call that has passed the unlocked test is bound to        *)
(* increment `total', so it is counted as if it had done so.                *)

Checked == {t \in Threads : pc[t] = "checked"}

CapacityInv ==
  total + Cardinality(Checked) <= MaxConnections + Cardinality(Threads) - 1

LEMMA CapacityInit == Init => CapacityInv
<1>. SUFFICES ASSUME Init PROVE CapacityInv
  OBVIOUS
<1>1. Checked = {} /\ Cardinality(Checked) = 0
  BY FS_EmptySet DEF Init, Checked
<1>2. Cardinality(Threads) > 0
  BY ThreadCount, PoolAssumption DEF PoolAssumption
<1>. QED  BY <1>1, <1>2, ThreadCount, PoolAssumption
          DEF CapacityInv, Init, PoolAssumption

LEMMA CapacityStep ==
  TypeInv /\ TypeInv' /\ CapacityInv /\ [Next]_vars => CapacityInv'
<1>. SUFFICES ASSUME TypeInv, TypeInv', CapacityInv, [Next]_vars
              PROVE  CapacityInv'
  OBVIOUS
<1>. USE PoolAssumption DEF PoolAssumption
<1>1. Checked \in SUBSET Threads /\ Checked' \in SUBSET Threads
  BY DEF Checked
<1>2. total \in Nat /\ total' \in Nat
  BY DEF TypeInv, TypeOK
\* A step that neither adds to Checked nor increments `total' ...
<1>3. ASSUME Checked' = Checked, total' <= total PROVE CapacityInv'
  BY <1>1, <1>2, <1>3, ThreadCount DEF CapacityInv
<1>4. CASE UNCHANGED vars
  BY <1>2, <1>3, <1>4 DEF vars, Checked
<1>5. ASSUME NEW t \in Threads, Check(t) PROVE CapacityInv'
  <2>1. total < MaxConnections /\ total' = total
    BY <1>5 DEF Check, UnderLimit
  <2>. QED  BY <1>1, <1>2, <2>1, ThreadCount DEF CapacityInv
<1>6. ASSUME NEW t \in Threads, TakeIdle(t) \/ BeginCreate(t)
      PROVE  CapacityInv'
  <2>1. t \in Checked /\ Checked' = Checked \ {t} /\ total' = total + 1
    BY <1>6 DEF TakeIdle, BeginCreate, CountCall, Checked, TypeInv, TypeOK
  <2>2. Cardinality(Checked') = Cardinality(Checked) - 1
    BY <1>1, <2>1, ThreadCount
  <2>. QED  BY <1>1, <1>2, <2>1, <2>2, ThreadCount DEF CapacityInv
<1>7. ASSUME NEW t \in Threads,
             Refuse(t) \/ CreateReturns(t) \/ CreateThrows(t)
      PROVE  CapacityInv'
  <2>1. Checked' = Checked /\ total' = total
    BY <1>7 DEF Refuse, CreateReturns, CreateThrows, Checked, TypeInv,
                TypeOK, Idle
  <2>. QED  BY <1>2, <1>3, <2>1
<1>8. ASSUME NEW t \in Threads, NEW valid \in BOOLEAN, Release(t, valid)
      PROVE  CapacityInv'
  <2>1. Checked' = Checked /\ total' = total - 1
    BY <1>8 DEF Release, Uncount, Checked, TypeInv, TypeOK
  <2>. QED  BY <1>2, <1>3, <2>1
<1>9. ASSUME TtlMonitor \/ Destroy \/ Tick PROVE CapacityInv'
  <2>1. Checked' = Checked /\ total' = total
    BY <1>9 DEF TtlMonitor, BeginSweep, SweepErase, SweepEnd, MonitorExit,
                Destroy, Tick, Checked
  <2>. QED  BY <1>2, <1>3, <2>1
<1>. QED
  BY <1>4, <1>5, <1>6, <1>7, <1>8, <1>9 DEF Next, Acquire, Destroyed

\* The limit is overrun by at most one call per other thread, for any number
\* of threads and any limit.
THEOREM CapacityCorrect == Spec => []CapacityBound
<1>1. Spec => []TypeInv
  BY TypeInit, TypeStep, PTL DEF Spec
<1>2. Spec => []CapacityInv
  BY <1>1, CapacityInit, CapacityStep, PTL DEF Spec
<1>3. TypeInv /\ CapacityInv => CapacityBound
  <2>. SUFFICES ASSUME TypeInv, CapacityInv PROVE CapacityBound
    OBVIOUS
  <2>. Checked \in SUBSET Threads
    BY DEF Checked
  <2>. QED  BY ThreadCount, PoolAssumption
            DEF TypeInv, TypeOK, CapacityInv, CapacityBound, PoolAssumption
<1>. QED  BY <1>1, <1>2, <1>3, PTL

LEMMA LiveInit == Init => LiveBound
<1>. SUFFICES ASSUME Init PROVE LiveBound
  OBVIOUS
<1>1. InUse = {} /\ Cardinality(InUse) = 0
  BY FS_EmptySet DEF Init, InUse
<1>2. Len(available) = InitialSize
  BY PoolAssumption DEF Init, PoolAssumption
<1>. QED  BY <1>1, <1>2, PoolAssumption DEF LiveBound, PoolAssumption

LEMMA LiveStep == TypeInv /\ TypeInv' /\ LiveBound /\ [Next]_vars => LiveBound'
<1>. SUFFICES ASSUME TypeInv, TypeInv', LiveBound, [Next]_vars
              PROVE  LiveBound'
  OBVIOUS
<1>. USE PoolAssumption DEF PoolAssumption
<1>1. InUse \in SUBSET Threads /\ InUse' \in SUBSET Threads
  BY DEF InUse
<1>2. Len(available) \in Nat /\ Len(available') \in Nat
  BY DEF TypeInv, TypeOK
<1>3. ASSUME Len(available') + Cardinality(InUse')
               <= Len(available) + Cardinality(InUse)
      PROVE  LiveBound'
  BY <1>1, <1>2, <1>3, ThreadCount DEF LiveBound
<1>4. CASE UNCHANGED vars
  BY <1>4 DEF vars, InUse, LiveBound
<1>5. ASSUME NEW t \in Threads, TakeIdle(t) PROVE LiveBound'
  <2>1. InUse' = InUse \cup {t} /\ t \notin InUse
    BY <1>5, InUseChange DEF TakeIdle, InUse, TypeInv
  <2>2. Cardinality(InUse') = Cardinality(InUse) + 1
    BY <1>1, <2>1, ThreadCount
  <2>3. Len(available') = Len(available) - 1
    BY <1>5 DEF TakeIdle, NothingIdle, PopFront, TypeInv, TypeOK
  <2>. QED  BY <1>1, <1>2, <1>3, <2>2, <2>3, ThreadCount
<1>6. ASSUME NEW t \in Threads, BeginCreate(t) PROVE LiveBound'
  <2>1. Len(available') = 0
    BY <1>6 DEF BeginCreate, NothingIdle
  <2>. QED  BY <1>1, <2>1, ThreadCount DEF LiveBound
<1>7. ASSUME NEW t \in Threads, CreateThrows(t) PROVE LiveBound'
  <2>1. InUse' = InUse \ {t} /\ t \in InUse /\ available' = available
    BY <1>7, InUseChange DEF CreateThrows, InUse, Idle, TypeInv
  <2>2. Cardinality(InUse') = Cardinality(InUse) - 1
    BY <1>1, <2>1, ThreadCount
  <2>. QED  BY <1>1, <1>2, <1>3, <2>1, <2>2, ThreadCount
<1>8. ASSUME NEW t \in Threads, NEW valid \in BOOLEAN, Release(t, valid)
      PROVE  LiveBound'
  <2>1. InUse' = InUse \ {t} /\ t \in InUse
    BY <1>8, InUseChange DEF Release, InUse, Idle, TypeInv
  <2>2. Cardinality(InUse') = Cardinality(InUse) - 1
    BY <1>1, <2>1, ThreadCount
  <2>3. Len(available') <= Len(available) + 1
    <3>1. available \in Seq(Entry)
      BY DEF TypeInv, TypeOK
    <3>. QED  BY <1>2, <1>8, <3>1 DEF Release, GiveBack
  <2>. QED  BY <1>1, <1>2, <1>3, <2>2, <2>3, ThreadCount
<1>9. ASSUME NEW t \in Threads, Check(t) \/ Refuse(t) \/ CreateReturns(t)
      PROVE  LiveBound'
  <2>1. InUse' = InUse /\ available' = available
    BY <1>9 DEF Check, Refuse, CreateReturns, Idle, InUse, TypeInv, TypeOK
  <2>. QED  BY <1>1, <1>2, <1>3, <2>1, ThreadCount
<1>10. ASSUME SweepErase PROVE LiveBound'
  <2>1. InUse' = InUse
    BY <1>10 DEF SweepErase, InUse
  <2>2. Len(available') = Len(available) - 1
    BY <1>10 DEF SweepErase, FrontExpired, PopFront, TypeInv, TypeOK
  <2>. QED  BY <1>1, <1>2, <1>3, <2>1, <2>2, ThreadCount
<1>11. ASSUME BeginSweep \/ SweepEnd \/ MonitorExit \/ Destroy \/ Tick
       PROVE  LiveBound'
  BY <1>11
  DEF BeginSweep, SweepEnd, MonitorExit, Destroy, Tick, InUse, LiveBound
<1>. QED
  BY <1>4, <1>5, <1>6, <1>7, <1>8, <1>9, <1>10, <1>11
  DEF Next, Acquire, TtlMonitor, Destroyed

\* There are never more objects than the initial ones or one per thread,
\* whichever is more, although nothing in acquire() looks at that number.
THEOREM LiveCorrect == Spec => []LiveBound
<1>1. Spec => []TypeInv
  BY TypeInit, TypeStep, PTL DEF Spec
<1>. QED  BY <1>1, LiveInit, LiveStep, PTL DEF Spec

-----------------------------------------------------------------------------
(* The sweep.  The deque is ordered by the time of release, so whoever is   *)
(* behind an entry that has not expired has not expired either.             *)

OldestFirst ==
  /\ \A i, j \in 1..Len(available) :
       i <= j => available[i].time <= available[j].time
  /\ \A i \in 1..Len(available) : available[i].time <= clock

\* What pop_front() and emplace_back() do to the entries of the deque.
LEMMA PopFrontEntries ==
  ASSUME available \in Seq(Entry), available # <<>>, PopFront
  PROVE  /\ Len(available') = Len(available) - 1
         /\ \A i \in 1..Len(available') : available'[i] = available[i + 1]
         /\ \A i \in 1..Len(available) : available[i] \in Entry
         /\ Head(available) = available[1]
         /\ Len(available) \in Nat \ {0}
BY DEF PopFront

LEMMA GiveBackEntries ==
  ASSUME available \in Seq(Entry), NEW con, GiveBack(con)
  PROVE  /\ Len(available') = Len(available) + 1
         /\ \A i \in 1..Len(available) : available'[i] = available[i]
         /\ available'[Len(available')] = [con |-> con, time |-> clock]
         /\ \A i \in 1..Len(available) : available[i] \in Entry
         /\ Len(available) \in Nat
BY DEF GiveBack

LEMMA OldestInit == Init => OldestFirst
BY PoolAssumption DEF Init, OldestFirst, PoolAssumption

LEMMA OldestStep ==
  TypeInv /\ TypeInv' /\ OldestFirst /\ [Next]_vars => OldestFirst'
<1>. SUFFICES ASSUME TypeInv, TypeInv', OldestFirst, [Next]_vars
              PROVE  OldestFirst'
  OBVIOUS
<1>1. available \in Seq(Entry) /\ clock \in Nat /\ clock' \in Nat
  BY DEF TypeInv, TypeOK
<1>0. \A i \in 1..Len(available) : available[i].time \in Nat
  <2>1. \A i \in 1..Len(available) : available[i] \in Entry
    BY <1>1
  <2>. QED  BY <2>1 DEF Entry
<1>2. ASSUME available # <<>>, PopFront, clock' = clock PROVE OldestFirst'
  <2>1. \A i \in 1..Len(available') :
          /\ i + 1 \in 1..Len(available)
          /\ available'[i].time = available[i + 1].time
    BY <1>1, <1>2, PopFrontEntries
  <2>2. \A i, j \in 1..Len(available') : i <= j => i + 1 <= j + 1
    OBVIOUS
  <2>. QED  BY <1>2, <2>1, <2>2 DEF OldestFirst
<1>3. ASSUME NEW con, GiveBack(con), clock' = clock PROVE OldestFirst'
  <2>1. Len(available') = Len(available) + 1 /\ Len(available) \in Nat
    BY <1>1, <1>3, GiveBackEntries
  <2>2. \A i \in 1..Len(available) : available'[i].time = available[i].time
    BY <1>1, <1>3, GiveBackEntries
  <2>3. available'[Len(available')].time = clock
    <3>1. available'[Len(available')] = [con |-> con, time |-> clock]
      BY <1>1, <1>3, GiveBackEntries
    <3>. QED  BY <3>1
  <2>4. \A i \in 1..Len(available') :
          i \in 1..Len(available) \/ i = Len(available')
    BY <2>1
  <2>5. \A i \in 1..Len(available') : available'[i].time <= clock
    BY <2>2, <2>3, <2>4, <1>1 DEF OldestFirst
  <2>6. ASSUME NEW i \in 1..Len(available'), NEW j \in 1..Len(available'), i <= j
        PROVE  available'[i].time <= available'[j].time
    <3>1. CASE j = Len(available')
      BY <3>1, <2>3, <2>5
    <3>2. CASE j \in 1..Len(available)
      <4>1. i \in 1..Len(available)
        BY <2>1, <2>6, <3>2
      <4>. QED  BY <4>1, <3>2, <2>2, <2>6 DEF OldestFirst
    <3>. QED  BY <2>4, <3>1, <3>2
  <2>. QED  BY <1>3, <2>5, <2>6 DEF OldestFirst
<1>4. ASSUME available' = available, clock' >= clock PROVE OldestFirst'
  <2>1. \A i \in 1..Len(available) : available[i].time <= clock'
    BY <1>0, <1>1, <1>4 DEF OldestFirst
  <2>. QED  BY <1>4, <2>1 DEF OldestFirst
<1>5. CASE UNCHANGED vars
  BY <1>1, <1>4, <1>5 DEF vars
<1>6. ASSUME NEW t \in Threads, TakeIdle(t) PROVE OldestFirst'
  BY <1>2, <1>6 DEF TakeIdle, NothingIdle
<1>7. ASSUME NEW t \in Threads, Acquire(t), ~TakeIdle(t) PROVE OldestFirst'
  BY <1>1, <1>4, <1>7
  DEF Acquire, Check, Refuse, BeginCreate, CreateReturns, CreateThrows
<1>8. ASSUME NEW t \in Threads, NEW valid \in BOOLEAN, Release(t, valid)
      PROVE  OldestFirst'
  BY <1>1, <1>3, <1>4, <1>8 DEF Release
<1>9. ASSUME SweepErase PROVE OldestFirst'
  BY <1>2, <1>9 DEF SweepErase, FrontExpired
<1>10. ASSUME BeginSweep \/ SweepEnd \/ MonitorExit \/ Destroy \/ Tick
       PROVE  OldestFirst'
  BY <1>1, <1>4, <1>10 DEF BeginSweep, SweepEnd, MonitorExit, Destroy, Tick
<1>. QED
  BY <1>5, <1>6, <1>7, <1>8, <1>9, <1>10 DEF Next, TtlMonitor, Destroyed

\* A sweep that ends has removed everything that had expired when it began,
\* whatever the other threads took and gave back meanwhile.
THEOREM SweepCorrect == Spec => SweepComplete
<1>1. Spec => []TypeInv
  BY TypeInit, TypeStep, PTL DEF Spec
<1>2. Spec => []OldestFirst
  BY <1>1, OldestInit, OldestStep, PTL DEF Spec
<1>3. TypeInv /\ OldestFirst /\ [Next]_vars
        => [monitor = "sweeping" /\ monitor' = "sleeping"
              => \A i \in DOMAIN available :
                   sweepNow - available[i].time < MaxIdleTime]_vars
  <2>. SUFFICES ASSUME TypeInv, OldestFirst, [Next]_vars,
                       monitor = "sweeping", monitor' = "sleeping",
                       NEW i \in DOMAIN available
                PROVE  sweepNow - available[i].time < MaxIdleTime
    OBVIOUS
  <2>1. SweepEnd
    BY DEF Next, vars, Acquire, Check, Refuse, TakeIdle, BeginCreate,
           CreateReturns, CreateThrows, Release, TtlMonitor, BeginSweep,
           SweepErase, MonitorExit, Destroy, Destroyed, Tick
  <2>2. available \in Seq(Entry) /\ sweepNow \in Nat
    BY DEF TypeInv, TypeOK
  <2>3. /\ i \in 1..Len(available)
        /\ Head(available) = available[1]
        /\ available[1] \in Entry /\ available[i] \in Entry
        /\ available # <<>>
    BY <2>2
  <2>4. ~(sweepNow - available[1].time >= MaxIdleTime)
    BY <2>1, <2>3 DEF SweepEnd, SweepOver, FrontExpired
  <2>5. available[1].time <= available[i].time
    BY <2>2, <2>3 DEF OldestFirst
  <2>. QED  BY <2>2, <2>3, <2>4, <2>5, PoolAssumption
            DEF Entry, PoolAssumption
<1>. QED  BY <1>1, <1>2, <1>3, PTL DEF Spec, SweepComplete

-----------------------------------------------------------------------------
(* Ownership.  While a thread is in the factory it has the mutex, the deque *)
(* stays empty, and `created' is an identity nobody has yet.                *)

Distinct ==
  \A i, j \in 1..Len(available) : available[i].con = available[j].con => i = j

Fresh ==
  /\ \A t \in Threads : pc[t] = "creating" <=> mutex = t
  /\ \A c \in IdleCons : c <= created
  /\ \A t \in Threads : held[t] <= created
  /\ mutex # NoThread => /\ available = <<>>
                         /\ \A t \in Threads : held[t] < created

OwnInv == Exclusive /\ Fresh

LEMMA PopFrontCons ==
  ASSUME available \in Seq(Entry), available # <<>>, PopFront, Distinct
  PROVE  /\ Head(available).con \in IdleCons
         /\ IdleCons' = IdleCons \ {Head(available).con}
         /\ Distinct'
<1>1. /\ Len(available) \in Nat \ {0}
      /\ Len(available') = Len(available) - 1
      /\ \A i \in 1..Len(available') : available'[i] = available[i + 1]
      /\ Head(available) = available[1]
      /\ DOMAIN available = 1..Len(available)
      /\ DOMAIN available' = 1..Len(available')
  BY PopFrontEntries DEF PopFront
<1>2. Distinct'
  BY <1>1 DEF Distinct
<1>3. IdleCons = {available[i].con : i \in 1..Len(available)}
  BY <1>1 DEF IdleCons
<1>4. IdleCons' = {available[i].con : i \in 2..Len(available)}
  <2>1. \A i \in 1..Len(available') :
          i + 1 \in 2..Len(available) /\ available'[i].con = available[i + 1].con
    BY <1>1
  <2>2. \A i \in 2..Len(available) :
          i - 1 \in 1..Len(available') /\ available'[i - 1].con = available[i].con
    BY <1>1
  <2>3. IdleCons' = {available'[i].con : i \in 1..Len(available')}
    BY <1>1 DEF IdleCons
  <2>4. IdleCons' \subseteq {available[i].con : i \in 2..Len(available)}
    BY <2>1, <2>3
  <2>5. ASSUME NEW i \in 2..Len(available) PROVE available[i].con \in IdleCons'
    <3>1. i - 1 \in 1..Len(available') /\ available'[i - 1].con = available[i].con
      BY <2>2
    <3>. QED  BY <2>3, <3>1
  <2>. QED  BY <2>4, <2>5
<1>5. \A i \in 2..Len(available) : available[i].con # available[1].con
  BY <1>1 DEF Distinct
<1>. QED  BY <1>1, <1>2, <1>3, <1>4, <1>5

LEMMA GiveBackCons ==
  ASSUME available \in Seq(Entry), NEW con, con \notin IdleCons, GiveBack(con),
         Distinct
  PROVE  IdleCons' = IdleCons \cup {con} /\ Distinct'
<1>1. /\ Len(available) \in Nat
      /\ Len(available') = Len(available) + 1
      /\ \A i \in 1..Len(available) : available'[i] = available[i]
      /\ available'[Len(available')] = [con |-> con, time |-> clock]
      /\ DOMAIN available = 1..Len(available)
      /\ DOMAIN available' = 1..Len(available')
  BY GiveBackEntries DEF GiveBack
<1>2. \A i \in 1..Len(available) :
        available'[i].con = available[i].con /\ available[i].con \in IdleCons
  BY <1>1 DEF IdleCons
<1>3. available'[Len(available')].con = con
  BY <1>1
<1>4. \A i \in 1..Len(available') :
        i \in 1..Len(available) \/ i = Len(available')
  BY <1>1
<1>5. Distinct'
  BY <1>1, <1>2, <1>3, <1>4 DEF Distinct
<1>6. IdleCons' = {available'[i].con : i \in 1..Len(available')}
  BY <1>1 DEF IdleCons
<1>7. IdleCons = {available[i].con : i \in 1..Len(available)}
  BY <1>1 DEF IdleCons
<1>8. Len(available') \in 1..Len(available')
      /\ \A i \in 1..Len(available) : i \in 1..Len(available')
  BY <1>1
<1>. QED  BY <1>2, <1>3, <1>4, <1>5, <1>6, <1>7, <1>8

\* Exclusive in the terms the step lemma reasons in.
LEMMA ExclusiveParts ==
  ASSUME available \in Seq(Entry)
  PROVE  Exclusive <=> /\ Distinct
                       /\ \A t, u \in Threads :
                            held[t] # NoCon /\ held[t] = held[u] => t = u
                       /\ \A t \in Threads : held[t] \notin IdleCons
<1>. DOMAIN available = 1..Len(available)
  OBVIOUS
<1>. QED  BY DEF Exclusive, Distinct

LEMMA OwnInit == Init => OwnInv
<1>. SUFFICES ASSUME Init PROVE OwnInv
  OBVIOUS
<1>. USE PoolAssumption DEF PoolAssumption
<1>1. IdleCons = 1..InitialSize
  BY DEF Init, IdleCons
<1>2. Exclusive
  BY <1>1 DEF Init, Exclusive, NoCon
<1>3. Fresh
  BY <1>1 DEF Init, Fresh, NoCon
<1>. QED  BY <1>2, <1>3 DEF OwnInv

LEMMA OwnStep == TypeInv /\ TypeInv' /\ OwnInv /\ [Next]_vars => OwnInv'
<1>. SUFFICES ASSUME TypeInv, TypeInv', OwnInv, [Next]_vars PROVE OwnInv'
  OBVIOUS
<1>. USE PoolAssumption DEF PoolAssumption
<1>1. /\ available \in Seq(Entry) /\ available' \in Seq(Entry)
      /\ pc \in [Threads -> Idle \cup {"checked", "creating", "using"}]
      /\ held \in [Threads -> 0..MaxCreated]
      /\ held' \in [Threads -> 0..MaxCreated]
      /\ created \in Nat /\ created' \in Nat
      /\ \A t \in Threads : held[t] # NoCon <=> pc[t] = "using"
  BY DEF TypeInv, TypeOK, Holding
<1>2. /\ Distinct
      /\ \A t, u \in Threads : held[t] # NoCon /\ held[t] = held[u] => t = u
      /\ \A t \in Threads : held[t] \notin IdleCons
      /\ Fresh
  BY <1>1, ExclusiveParts DEF OwnInv
<1>3. ASSUME /\ Distinct'
             /\ \A t, u \in Threads : held'[t] # NoCon /\ held'[t] = held'[u] => t = u
             /\ \A t \in Threads : held'[t] \notin IdleCons'
      PROVE  Exclusive'
  <2>1. DOMAIN available' = 1..Len(available')
    BY <1>1
  <2>. QED  BY <1>3, <2>1 DEF Exclusive, Distinct
<1>4. \A c \in IdleCons : c \in Nat \ {0}
  <2>1. \A i \in DOMAIN available : available[i] \in Entry
    BY <1>1
  <2>. QED  BY <2>1 DEF IdleCons, Entry
<1>5. ASSUME UNCHANGED <<available, created, mutex, pc, held>> PROVE OwnInv'
  BY <1>5 DEF OwnInv, Exclusive, Fresh, IdleCons
<1>6. ASSUME NEW t \in Threads, Check(t) \/ Refuse(t) PROVE OwnInv'
  <2>1. IdleCons' = IdleCons /\ UNCHANGED <<available, held, created, mutex>>
    BY <1>6 DEF Check, Refuse, IdleCons
  <2>2. Exclusive'
    BY <2>1 DEF OwnInv, Exclusive
  <2>3. Fresh'
    BY <1>1, <1>2, <1>6, <2>1 DEF Fresh, Check, Refuse, Idle
  <2>. QED  BY <2>2, <2>3 DEF OwnInv
<1>7. ASSUME NEW t \in Threads, TakeIdle(t) PROVE OwnInv'
  <2>. DEFINE c == Head(available).con
  <2>1. c \in IdleCons /\ IdleCons' = IdleCons \ {c} /\ Distinct'
    BY <1>1, <1>2, <1>7, PopFrontCons DEF TakeIdle, NothingIdle
  <2>2. held' = [held EXCEPT ![t] = c] /\ mutex' = mutex /\ created' = created
    BY <1>7 DEF TakeIdle
  <2>3. Exclusive'
    BY <1>1, <1>2, <1>3, <1>4, <2>1, <2>2
  <2>4. Fresh'
    BY <1>1, <1>2, <1>7, <2>1, <2>2 DEF Fresh, TakeIdle
  <2>. QED  BY <2>3, <2>4 DEF OwnInv
<1>8. ASSUME NEW t \in Threads, BeginCreate(t) PROVE OwnInv'
  <2>1. IdleCons' = IdleCons /\ available = <<>> /\ UNCHANGED <<available, held>>
    BY <1>8 DEF BeginCreate, NothingIdle, IdleCons
  <2>2. Exclusive'
    BY <2>1 DEF OwnInv, Exclusive
  <2>3. Fresh'
    BY <1>1, <1>2, <1>4, <1>8, <2>1 DEF Fresh, BeginCreate
  <2>. QED  BY <2>2, <2>3 DEF OwnInv
<1>9. ASSUME NEW t \in Threads, CreateReturns(t) PROVE OwnInv'
  <2>1. /\ mutex = t /\ available = <<>> /\ available' = available
        /\ held' = [held EXCEPT ![t] = created]
        /\ \A u \in Threads : held[u] < created
        /\ created' = created /\ mutex' = NoThread
        /\ pc' = [pc EXCEPT ![t] = "using"]
    BY <1>2, <1>9 DEF CreateReturns, Fresh
  <2>2. IdleCons = {} /\ IdleCons' = {} /\ Distinct'
    BY <1>1, <2>1 DEF IdleCons, Distinct
  <2>3. Exclusive'
    BY <1>1, <1>2, <1>3, <2>1, <2>2
  <2>4. Fresh'
    BY <1>1, <1>2, <2>1, <2>2 DEF Fresh
  <2>. QED  BY <2>3, <2>4 DEF OwnInv
<1>10. ASSUME NEW t \in Threads, CreateThrows(t) PROVE OwnInv'
  <2>1. IdleCons' = IdleCons /\ UNCHANGED <<available, held, created>>
    BY <1>10 DEF CreateThrows, IdleCons
  <2>2. Exclusive'
    BY <2>1 DEF OwnInv, Exclusive
  <2>3. Fresh'
    BY <1>1, <1>2, <1>10, <2>1 DEF Fresh, CreateThrows, Idle
  <2>. QED  BY <2>2, <2>3 DEF OwnInv
<1>11. ASSUME NEW t \in Threads, NEW valid \in BOOLEAN, Release(t, valid)
       PROVE  OwnInv'
  <2>1. /\ held[t] # NoCon /\ held[t] <= created /\ held[t] \notin IdleCons
        /\ held' = [held EXCEPT ![t] = NoCon]
        /\ pc' = [pc EXCEPT ![t] = "out"]
        /\ mutex = NoThread /\ UNCHANGED <<mutex, created>>
    BY <1>1, <1>2, <1>11 DEF Release, Fresh
  <2>2. \/ IdleCons' = IdleCons /\ Distinct'
        \/ IdleCons' = IdleCons \cup {held[t]} /\ Distinct'
    <3>1. CASE GiveBack(held[t])
      BY <1>1, <1>2, <2>1, <3>1, GiveBackCons
    <3>2. CASE UNCHANGED available
      BY <1>2, <3>2 DEF IdleCons, Distinct
    <3>. QED  BY <1>11, <3>1, <3>2 DEF Release
  <2>3. Exclusive'
    BY <1>1, <1>2, <1>3, <1>4, <2>1, <2>2 DEF NoCon
  <2>4. Fresh'
    BY <1>1, <1>2, <1>11, <2>1, <2>2 DEF Fresh, Release, NoCon
  <2>. QED  BY <2>3, <2>4 DEF OwnInv
<1>12. ASSUME SweepErase PROVE OwnInv'
  <2>1. /\ IdleCons' = IdleCons \ {Head(available).con} /\ Distinct'
        /\ UNCHANGED <<held, created, mutex, pc>> /\ mutex = NoThread
    BY <1>1, <1>2, <1>12, PopFrontCons DEF SweepErase, FrontExpired
  <2>2. Exclusive'
    BY <1>1, <1>2, <1>3, <2>1
  <2>3. Fresh'
    BY <1>2, <2>1 DEF Fresh
  <2>. QED  BY <2>2, <2>3 DEF OwnInv
<1>13. ASSUME BeginSweep \/ SweepEnd \/ MonitorExit \/ Destroy \/ Tick
              \/ UNCHANGED vars
       PROVE  OwnInv'
  BY <1>5, <1>13 DEF BeginSweep, SweepEnd, MonitorExit, Destroy, Tick, vars
<1>. QED
  BY <1>6, <1>7, <1>8, <1>9, <1>10, <1>11, <1>12, <1>13
  DEF Next, Acquire, TtlMonitor, Destroyed

LEMMA OwnInvariant == Spec => [](TypeInv /\ OwnInv)
<1>1. Spec => []TypeInv
  BY TypeInit, TypeStep, PTL DEF Spec
<1>. QED  BY <1>1, OwnInit, OwnStep, PTL DEF Spec

\* No object is ever in two hands, for any number of threads.
THEOREM ExclusiveCorrect == Spec => []Exclusive
BY OwnInvariant, PTL DEF OwnInv

-----------------------------------------------------------------------------
(* Pool implements Lending.                                                *)

LEMMA RefineInit == Init => LendingPool!Init
<1>. SUFFICES ASSUME Init PROVE LendingPool!Init
  OBVIOUS
<1>1. IdleCons = 1..InitialSize
  BY PoolAssumption DEF Init, IdleCons, PoolAssumption
<1>. QED  BY <1>1 DEF Init, LendingPool!Init

LEMMA RefineStep ==
  TypeInv /\ OwnInv /\ [Next]_vars => [LendingPool!Next]_(LendingPool!vars)
<1>. SUFFICES ASSUME TypeInv, OwnInv, [Next]_vars
              PROVE  LendingPool!Next \/ UNCHANGED LendingPool!vars
  OBVIOUS
<1>1. /\ available \in Seq(Entry)
      /\ held \in [Threads -> 0..MaxCreated]
      /\ created \in 0..MaxCreated
      /\ \A t \in Threads : held[t] # NoCon <=> pc[t] = "using"
      /\ \A t \in Threads : pc[t] = "creating" => created > 0
  BY DEF TypeInv, TypeOK, Holding
<1>2. Distinct /\ \A t \in Threads : held[t] \notin IdleCons
  BY <1>1, ExclusiveParts DEF OwnInv
<1>3. ASSUME UNCHANGED <<available, held>> PROVE UNCHANGED LendingPool!vars
  BY <1>3 DEF LendingPool!vars, IdleCons
<1>4. ASSUME NEW t \in Threads, TakeIdle(t) PROVE LendingPool!Lend(t)
  <2>1. /\ Head(available).con \in IdleCons
        /\ IdleCons' = IdleCons \ {Head(available).con}
    BY <1>1, <1>2, <1>4, PopFrontCons DEF TakeIdle, NothingIdle
  <2>2. held[t] = NoCon /\ held' = [held EXCEPT ![t] = Head(available).con]
    BY <1>1, <1>4 DEF TakeIdle
  <2>. QED  BY <2>1, <2>2 DEF LendingPool!Lend
<1>5. ASSUME NEW t \in Threads, CreateReturns(t) PROVE LendingPool!LendNew(t)
  <2>1. mutex = t /\ available = <<>> /\ \A u \in Threads : held[u] < created
    BY <1>5, PoolAssumption DEF CreateReturns, OwnInv, Fresh, PoolAssumption
  <2>2. IdleCons = {} /\ IdleCons' = {}
    BY <1>5, <2>1 DEF CreateReturns, IdleCons
  <2>3. created \in 1..MaxCreated
    BY <1>1, <1>5, PoolAssumption DEF CreateReturns, PoolAssumption
  <2>4. created \notin LendingPool!Live
    BY <1>1, <2>1, <2>2, <2>3 DEF LendingPool!Live
  <2>5. held[t] = NoCon /\ held' = [held EXCEPT ![t] = created]
    BY <1>1, <1>5 DEF CreateReturns
  <2>. QED  BY <2>2, <2>3, <2>4, <2>5 DEF LendingPool!LendNew
<1>6. ASSUME NEW t \in Threads, NEW valid \in BOOLEAN, Release(t, valid)
      PROVE  LendingPool!Return(t) \/ LendingPool!Discard(t)
  <2>1. held[t] # NoCon /\ held' = [held EXCEPT ![t] = NoCon]
    BY <1>1, <1>6 DEF Release
  <2>2. CASE GiveBack(held[t])
    <3>1. IdleCons' = IdleCons \cup {held[t]}
      BY <1>1, <1>2, <2>2, GiveBackCons
    <3>. QED  BY <2>1, <3>1 DEF LendingPool!Return
  <2>3. CASE UNCHANGED available
    <3>1. IdleCons' = IdleCons
      BY <2>3 DEF IdleCons
    <3>. QED  BY <2>1, <3>1 DEF LendingPool!Discard
  <2>. QED  BY <1>6, <2>2, <2>3 DEF Release
<1>7. ASSUME SweepErase PROVE LendingPool!Evict
  <2>1. /\ Head(available).con \in IdleCons
        /\ IdleCons' = IdleCons \ {Head(available).con}
    BY <1>1, <1>2, <1>7, PopFrontCons DEF SweepErase, FrontExpired
  <2>. QED  BY <1>7, <2>1 DEF LendingPool!Evict, SweepErase
<1>8. ASSUME NEW t \in Threads,
             Check(t) \/ Refuse(t) \/ BeginCreate(t) \/ CreateThrows(t)
      PROVE  UNCHANGED LendingPool!vars
  BY <1>3, <1>8 DEF Check, Refuse, BeginCreate, CreateThrows
<1>9. ASSUME BeginSweep \/ SweepEnd \/ MonitorExit \/ Destroy \/ Tick
             \/ UNCHANGED vars
      PROVE  UNCHANGED LendingPool!vars
  BY <1>3, <1>9 DEF BeginSweep, SweepEnd, MonitorExit, Destroy, Tick, vars
<1>. QED
  BY <1>4, <1>5, <1>6, <1>7, <1>8, <1>9
  DEF Next, Acquire, TtlMonitor, Destroyed, LendingPool!Next

\* Whoever uses the pool may think of it as the set of idle objects and the
\* set of lent ones that Lending describes: each step of pool.hpp is a step of
\* Lending or changes nothing that Lending knows of.
THEOREM PoolImplementsLending == Spec => LendingSpec
<1>1. Spec => [](TypeInv /\ OwnInv)
  BY OwnInvariant
<1>. QED  BY <1>1, RefineInit, RefineStep, PTL
          DEF Spec, LendingSpec, LendingPool!Spec

=============================================================================
