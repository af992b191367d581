--------------------------- MODULE LogQueueProofs ---------------------------
(***************************************************************************)
(* What is proved of LogQueue for every number of threads, lines and slots *)
(* of a buffer, in TimelySpec: no buffer is freed before the pushes into   *)
(* it are counted.  Without that the properties do not hold.               *)
(***************************************************************************)
EXTENDS LogQueue, FiniteSetTheorems, SequenceTheorems, TLAPS

-----------------------------------------------------------------------------
(* The inductive invariant *)

Holds(t) == pc[t] \in {"claimed", "loaded", "stored"}
Changes(t) == pc[t] \in {"installing", "enlisting"}
Slots == 0..(Size - 1)
Full(b) == \A i \in Slots : slots[b][i] # NoLine

\* The slots of the current buffer that are written and counted.
Counted ==
  {i \in Slots : /\ slots[writeBuffer][i] # NoLine
                 /\ \A t \in Threads : pc[t] = "stored" => index[t] # i}

\* Who has claimed a slot of the current buffer has it alone, and nobody is
\* about to replace the buffer.
SlotsHeld ==
  \A t \in Threads :
    Holds(t) =>
      /\ index[t] \in Slots /\ index[t] < writeIndex
      /\ slots[writeBuffer][index[t]] = (IF pc[t] = "stored" THEN Line(t) ELSE NoLine)
      /\ pc[t] # "claimed" => target[t] = writeBuffer
      /\ \A u \in Threads : ~Changes(u)
      /\ \A u \in Threads \ {t} : Holds(u) => index[u] # index[t]

\* The slots that have been handed out are written or claimed.
SlotsFilled ==
  \A i \in Slots :
    /\ slots[writeBuffer][i] # NoLine => i < writeIndex
    /\ slots[writeBuffer][i] = NoLine /\ i < writeIndex =>
         \E t \in Threads :
           \/ pc[t] \in {"claimed", "loaded"} /\ index[t] = i
           \/ pc[t] = "enlisting"

\* One thread replaces the buffer, when all of its slots are counted.
OneChanges ==
  \A t \in Threads :
    Changes(t) =>
      /\ target[t] = writeBuffer
      /\ writeIndex >= Size
      /\ pc[t] = "installing" => count[writeBuffer] = Size
      /\ pc[t] = "enlisting" => slots[writeBuffer] = Empty
      /\ \A u \in Threads \ {t} : ~Changes(u)

\* The counter of a buffer is what its name says; buffers that have been
\* replaced or freed are full.
CountsRight ==
  /\ count[writeBuffer] = Cardinality(Counted)
  /\ \A b \in 1..Len(slots) :
       b < writeBuffer \/ b <= freed => count[b] = Size /\ Full(b)

\* The queue holds the buffers from the first that is not freed to the current
\* one, which is missing while it is being enlisted.
QueueInOrder ==
  /\ writeBuffer = Len(slots)
  /\ \A i \in 1..Len(buffers) : buffers[i] = freed + i
  /\ Enlisted = (IF \E t \in Threads : pc[t] = "enlisting"
                   THEN writeBuffer - 1 ELSE writeBuffer)

\* The logging thread reads the front buffer.
ReadsFront ==
  /\ readBuffer # NoBuffer =>
       /\ readBuffer = freed + 1 /\ Len(buffers) > 0
       /\ \A i \in 0..(readIndex - 1) : slots[readBuffer][i] # NoLine
  /\ readBuffer = NoBuffer => readIndex = 0
  /\ cpc = "dropping" =>
       readBuffer = NoBuffer /\ Len(buffers) > 0 /\ Full(freed + 1)

Phases ==
  /\ cpc \in {"dropping", "writing"} <=> logline # NoLine
  /\ cpc \in {"starting", "checking"} => ~draining
  /\ cpc = "ended" => draining
  /\ draining => state = "SHUTDOWN"
  /\ \A t \in Threads :
       /\ pc[t] # "out" => state = "READY"
       /\ pc[t] # "out" => logged[t] > 0

\* Where a line is that has been logged.
Awaits(l) == pc[l[1]] \in {"pushing", "spinning", "claimed", "loaded"} /\ l = Line(l[1])
Filed(l) == \E i \in DOMAIN handed : handed[i] = l
Stored(l) ==
  \E b \in (freed + 1)..Len(slots), i \in Slots :
    /\ slots[b][i] = l
    /\ b = freed + 1 => cpc # "dropping" /\ i >= readIndex

LinesKept ==
  \A t \in Threads : \A n \in 1..logged[t] :
    \/ Awaits(<<t, n>>) \/ Stored(<<t, n>>)
    \/ logline = <<t, n>> \/ Filed(<<t, n>>)

IInv ==
  /\ TypeOK
  /\ SlotsHeld /\ SlotsFilled /\ OneChanges /\ CountsRight
  /\ QueueInOrder /\ ReadsFront /\ Phases

-----------------------------------------------------------------------------
(* What the steps need to know of lines, slots and counters *)

LEMMA LineTypes ==
  ASSUME TypeOK, NEW t \in Threads, logged[t] > 0
  PROVE  Line(t) \in Lines /\ Line(t) # NoLine
BY LogAssumption DEF LogAssumption, TypeOK, Line, Lines

LEMMA SlotTypes ==
  ASSUME TypeOK, NEW b \in 1..Len(slots)
  PROVE  /\ slots[b] \in [Slots -> Lines \cup {NoLine}]
         /\ \A i \in Slots : slots[b][i] \in Lines \cup {NoLine}
<1>1. slots \in Seq([Slots -> Lines \cup {NoLine}])
  BY DEF TypeOK, Slots
<1>2. slots[b] \in [Slots -> Lines \cup {NoLine}]
  BY <1>1, ElementOfSeq
<1>. QED  BY <1>2

\* The part of TypeOK that is not about sequences.
Labels == {"out", "pushing", "spinning", "claimed", "loaded", "stored",
           "installing", "enlisting"}

LEMMA Basics ==
  ASSUME TypeOK
  PROVE  /\ logged \in [Threads -> Nat]
         /\ pc \in [Threads -> Labels]
         /\ index \in [Threads -> Nat]
         /\ target \in [Threads -> Nat]
         /\ writeBuffer \in Nat /\ writeIndex \in Nat /\ freed \in Nat
         /\ Size \in Nat \ {0}
BY LogAssumption DEF LogAssumption, TypeOK, Labels

LEMMA EmptyType == Empty \in [Slots -> Lines \cup {NoLine}]
BY DEF Empty, Slots

LEMMA SlotCount == IsFiniteSet(Slots) /\ Cardinality(Slots) = Size
BY LogAssumption, FS_Interval DEF LogAssumption, Slots

\* The counter of the current buffer is at its limit when all the slots are
\* counted, and one more is counted by adding one.
LEMMA CountedCardinality ==
  /\ IsFiniteSet(Counted)
  /\ Cardinality(Counted) \in 0..Size
  /\ Cardinality(Counted) = Size => Counted = Slots
<1>. USE LogAssumption DEF LogAssumption
<1>1. Counted \in SUBSET Slots
  BY DEF Counted
<1>. QED  BY <1>1, SlotCount, FS_Subset, FS_CardinalityType

\* A full buffer has nobody in it any more.
LEMMA FullBuffer ==
  ASSUME IInv, count[writeBuffer] = Size
  PROVE  /\ Full(writeBuffer)
         /\ \A t \in Threads : ~Holds(t)
         /\ writeIndex >= Size
<1>1. Counted = Slots
  BY CountedCardinality DEF IInv, CountsRight
<1>2. Full(writeBuffer)
  BY <1>1 DEF Counted, Full
<1>3. ASSUME NEW t \in Threads, Holds(t) PROVE FALSE
  BY <1>1, <1>3 DEF Counted, IInv, SlotsHeld, Holds
<1>4. Size - 1 \in Slots
  BY LogAssumption DEF LogAssumption, Slots
<1>5. writeIndex > Size - 1
  BY <1>2, <1>4 DEF IInv, SlotsFilled, Full
<1>. QED
  BY <1>2, <1>3, <1>5, LogAssumption DEF LogAssumption, IInv, TypeOK

\* A buffer that is freed has been replaced, or is full.
LEMMA FreedBuffer ==
  ASSUME IInv
  PROVE  /\ freed <= writeBuffer
         /\ \A t \in Threads : Holds(t) => freed < writeBuffer
         /\ writeBuffer \in 1..Len(slots)
<1>1. freed <= writeBuffer /\ writeBuffer \in 1..Len(slots)
  BY DEF IInv, TypeOK, QueueInOrder
<1>2. ASSUME NEW t \in Threads, Holds(t), freed = writeBuffer PROVE FALSE
  BY <1>1, <1>2, FullBuffer DEF IInv, CountsRight
<1>. QED  BY <1>1, <1>2 DEF IInv, TypeOK

\* Every buffer in the queue is there.
LEMMA EnlistedBuffers ==
  ASSUME IInv
  PROVE  /\ Enlisted \in Nat /\ Enlisted <= writeBuffer
         /\ writeBuffer - 1 <= Enlisted
         /\ Len(buffers) > 0 => freed + 1 \in 1..Len(slots)
<1>1. Enlisted \in {writeBuffer - 1, writeBuffer} /\ writeBuffer = Len(slots)
  BY DEF IInv, QueueInOrder
<1>2. Len(buffers) \in Nat
  BY LenProperties DEF IInv, TypeOK
<1>. QED  BY <1>1, <1>2, Basics DEF IInv, Enlisted

-----------------------------------------------------------------------------
(* The threads that log preserve the invariant *)

LEMMA StartStep ==
  ASSUME IInv, NEW t \in Threads, Start(t)
  PROVE  IInv'
<1>. USE DEF IInv
<1>1. /\ pc[t] = "out" /\ state = "READY" /\ logged[t] < MaxLines
      /\ pc' = [pc EXCEPT ![t] = "pushing"]
      /\ logged' = [logged EXCEPT ![t] = logged[t] + 1]
      /\ UNCHANGED <<state, index, target, slots, count, buffers, writeBuffer,
                     writeIndex, freed, readBuffer, readIndex, cpc, draining,
                     logline, handed>>
  BY DEF Start, Goto, consumer, shared
<1>2. TypeOK'
  <2>1. logged' \in [Threads -> 0..MaxLines]
    <3>1. logged \in [Threads -> 0..MaxLines] /\ MaxLines \in Nat
      BY LogAssumption DEF LogAssumption, TypeOK
    <3>2. logged[t] + 1 \in 0..MaxLines
      BY <1>1, <3>1
    <3>. QED  BY <1>1, <3>1, <3>2
  <2>2. pc' \in [Threads -> Labels]
    BY <1>1, Basics DEF Labels
  <2>. QED  BY <1>1, <2>1, <2>2 DEF TypeOK, Labels
<1>3. SlotsHeld'
  BY <1>1, Basics DEF SlotsHeld, Holds, Changes, Line
<1>4. SlotsFilled' /\ OneChanges'
  BY <1>1, Basics DEF SlotsFilled, OneChanges, Changes
<1>5. CountsRight'
  BY <1>1, Basics DEF CountsRight, Counted, Full
<1>6. QueueInOrder' /\ ReadsFront'
  BY <1>1, Basics DEF QueueInOrder, Enlisted, ReadsFront, Full
<1>7. Phases'
  BY <1>1, Basics DEF Phases
<1>. QED  BY <1>2, <1>3, <1>4, <1>5, <1>6, <1>7

LEMMA ClaimStep ==
  ASSUME IInv, NEW t \in Threads, Claim(t)
  PROVE  IInv'
<1>. USE DEF IInv
<1>1. /\ pc[t] = "pushing"
      /\ pc' = [pc EXCEPT ![t] = IF writeIndex < Size THEN "claimed" ELSE "spinning"]
      /\ index' = [index EXCEPT ![t] = writeIndex]
      /\ writeIndex' = writeIndex + 1
      /\ UNCHANGED <<state, logged, target, slots, count, buffers, writeBuffer,
                     freed, readBuffer, readIndex, cpc, draining, logline, handed>>
  BY DEF Claim, Goto, HasSlot, consumer
<1>2. TypeOK'
  BY <1>1 DEF TypeOK
<1>3. SlotsHeld'
  <2>1. CASE writeIndex >= Size
    BY <1>1, <2>1, Basics DEF SlotsHeld, Holds, Changes, Line
  <2>2. CASE writeIndex < Size
    <3>1. writeIndex \in Slots /\ slots[writeBuffer][writeIndex] = NoLine
      BY <2>2, Basics DEF Slots, SlotsFilled
    <3>2. \A u \in Threads : ~Changes(u)
      BY <2>2, Basics DEF OneChanges
    <3>3. pc' = [pc EXCEPT ![t] = "claimed"]
      BY <1>1, <2>2
    <3>4. ASSUME NEW u \in Threads \ {t}, Holds(u)
          PROVE  index[u] # writeIndex
      BY <3>4, Basics DEF SlotsHeld
    <3>. QED
      BY <1>1, <3>1, <3>2, <3>3, <3>4, Basics DEF SlotsHeld, Holds, Changes, Line
  <2>. QED  BY <2>1, <2>2, Basics
<1>4. SlotsFilled'
  BY <1>1, Basics DEF SlotsFilled, Slots
<1>5. OneChanges'
  BY <1>1, Basics DEF OneChanges, Changes
<1>6. CountsRight'
  BY <1>1, Basics DEF CountsRight, Counted, Full
<1>7. QueueInOrder' /\ ReadsFront' /\ Phases'
  BY <1>1, Basics DEF QueueInOrder, Enlisted, ReadsFront, Full, Phases
<1>. QED  BY <1>2, <1>3, <1>4, <1>5, <1>6, <1>7

LEMMA SpinStep ==
  ASSUME IInv, NEW t \in Threads, Spin(t)
  PROVE  IInv'
<1>. USE DEF IInv
<1>1. /\ pc[t] = "spinning"
      /\ pc' = [pc EXCEPT ![t] = "pushing"]
      /\ UNCHANGED <<state, logged, index, target, slots, count, buffers,
                     writeBuffer, writeIndex, freed, readBuffer, readIndex,
                     cpc, draining, logline, handed>>
  BY DEF Spin, Goto, consumer, shared
<1>2. TypeOK'
  BY <1>1 DEF TypeOK
<1>3. SlotsHeld'
  BY <1>1, Basics DEF SlotsHeld, Holds, Changes, Line
<1>4. SlotsFilled' /\ OneChanges'
  BY <1>1, Basics DEF SlotsFilled, OneChanges, Changes
<1>5. CountsRight'
  BY <1>1, Basics DEF CountsRight, Counted, Full
<1>6. QueueInOrder' /\ ReadsFront' /\ Phases'
  BY <1>1, Basics DEF QueueInOrder, Enlisted, ReadsFront, Full, Phases
<1>. QED  BY <1>2, <1>3, <1>4, <1>5, <1>6

LEMMA LoadStep ==
  ASSUME IInv, NEW t \in Threads, Load(t)
  PROVE  IInv'
<1>. USE DEF IInv
<1>1. /\ pc[t] = "claimed"
      /\ pc' = [pc EXCEPT ![t] = "loaded"]
      /\ target' = [target EXCEPT ![t] = writeBuffer]
      /\ UNCHANGED <<state, logged, index, slots, count, buffers, writeBuffer,
                     writeIndex, freed, readBuffer, readIndex, cpc, draining,
                     logline, handed>>
  BY DEF Load, Goto, consumer, shared
<1>2. TypeOK'
  BY <1>1 DEF TypeOK
<1>3. SlotsHeld'
  BY <1>1, Basics DEF SlotsHeld, Holds, Changes, Line
<1>4. SlotsFilled' /\ OneChanges'
  BY <1>1, Basics DEF SlotsFilled, OneChanges, Changes
<1>5. CountsRight'
  BY <1>1, Basics DEF CountsRight, Counted, Full
<1>6. QueueInOrder' /\ ReadsFront' /\ Phases'
  BY <1>1, Basics DEF QueueInOrder, Enlisted, ReadsFront, Full, Phases
<1>. QED  BY <1>2, <1>3, <1>4, <1>5, <1>6

LEMMA StoreStep ==
  ASSUME IInv, NEW t \in Threads, Store(t)
  PROVE  IInv'
<1>. USE DEF IInv
<1>1. /\ pc[t] = "loaded" /\ index[t] \in Slots /\ target[t] = writeBuffer
      /\ pc' = [pc EXCEPT ![t] = "stored"]
      /\ slots' = [slots EXCEPT ![writeBuffer][index[t]] = Line(t)]
      /\ slots[writeBuffer][index[t]] = NoLine
      /\ \A u \in Threads : ~Changes(u)
      /\ \A u \in Threads \ {t} : Holds(u) => index[u] # index[t]
      /\ UNCHANGED <<state, logged, index, target, count, buffers, writeBuffer,
                     writeIndex, freed, readBuffer, readIndex, cpc, draining,
                     logline, handed>>
  BY DEF Store, Goto, consumer, SlotsHeld, Holds
<1>2. Line(t) \in Lines /\ Line(t) # NoLine
  BY <1>1, LineTypes, Basics DEF Phases
<1>3. /\ freed < writeBuffer /\ writeBuffer \in 1..Len(slots)
      /\ writeBuffer \in Nat
  BY <1>1, FreedBuffer, Basics DEF Holds
<1>4. /\ slots' \in Seq([Slots -> Lines \cup {NoLine}])
      /\ Len(slots') = Len(slots)
      /\ \A b \in 1..Len(slots) : b # writeBuffer => slots'[b] = slots[b]
      /\ \A i \in Slots :
           slots'[writeBuffer][i] = IF i = index[t] THEN Line(t) ELSE slots[writeBuffer][i]
  <2>1. slots \in Seq([Slots -> Lines \cup {NoLine}])
    BY DEF TypeOK, Slots
  <2>2. slots[writeBuffer] \in [Slots -> Lines \cup {NoLine}]
    BY <1>3, SlotTypes
  <2>3. [slots[writeBuffer] EXCEPT ![index[t]] = Line(t)] \in [Slots -> Lines \cup {NoLine}]
    BY <1>1, <1>2, <2>2
  <2>4. slots' = [slots EXCEPT ![writeBuffer] =
                    [slots[writeBuffer] EXCEPT ![index[t]] = Line(t)]]
    BY <1>1
  <2>. QED  BY <1>1, <1>3, <2>1, <2>2, <2>3, <2>4, ExceptSeq
<1>5. TypeOK'
  <2>1. pc' \in [Threads -> Labels]
    BY <1>1, Basics DEF Labels
  <2>. QED  BY <1>1, <1>4, <2>1 DEF TypeOK, Labels, Slots
<1>6. SlotsHeld'
  <2>1. slots'[writeBuffer][index[t]] = Line(t)
    BY <1>1, <1>4
  <2>2. ASSUME NEW u \in Threads \ {t}, Holds(u)
        PROVE  slots'[writeBuffer][index[u]] = slots[writeBuffer][index[u]]
    BY <1>1, <1>4, <2>2 DEF SlotsHeld
  <2>. QED  BY <1>1, <2>1, <2>2, Basics DEF SlotsHeld, Holds, Changes, Line
<1>7. SlotsFilled'
  BY <1>1, <1>2, <1>4, Basics DEF SlotsFilled, SlotsHeld, Holds
<1>8. OneChanges'
  BY <1>1, Basics DEF OneChanges, Changes
<1>9. CountsRight'
  <2>1. Counted' = Counted
    BY <1>1, <1>4, Basics DEF Counted
  <2>2. ASSUME NEW b \in 1..Len(slots), b < writeBuffer \/ b <= freed
        PROVE  count[b] = Size /\ slots'[b] = slots[b] /\ Full(b)
    BY <1>3, <1>4, <2>2, Basics DEF CountsRight
  <2>. QED  BY <1>1, <1>4, <2>1, <2>2 DEF CountsRight, Full
<1>10. QueueInOrder'
  BY <1>1, <1>4, Basics DEF QueueInOrder, Enlisted
<1>11. \A b \in 1..Len(slots) : \A i \in Slots :
         slots[b][i] # NoLine => slots'[b][i] # NoLine
  BY <1>2, <1>4
<1>12. ReadsFront'
  <2>1. ASSUME readBuffer # NoBuffer
        PROVE  \A i \in 0..(readIndex - 1) : slots'[readBuffer][i] # NoLine
    <3>1. readBuffer \in 1..Len(slots) /\ \A i \in 0..(readIndex - 1) : i \in Slots
      BY <2>1, LogAssumption DEF LogAssumption, TypeOK, NoBuffer, Slots
    <3>. QED  BY <1>11, <2>1, <3>1 DEF ReadsFront
  <2>2. ASSUME cpc = "dropping" PROVE Full(freed + 1)'
    <3>1. freed + 1 \in 1..Len(slots)
      BY <1>3, Basics DEF TypeOK
    <3>. QED  BY <1>1, <1>11, <2>2, <3>1 DEF ReadsFront, Full
  <2>. QED  BY <1>1, <2>1, <2>2 DEF ReadsFront
<1>13. Phases'
  BY <1>1, Basics DEF Phases
<1>. QED
  BY <1>5, <1>6, <1>7, <1>8, <1>9, <1>10, <1>12, <1>13

LEMMA CountStep ==
  ASSUME IInv, NEW t \in Threads, Count(t)
  PROVE  IInv'
<1>. USE DEF IInv
<1>1. /\ pc[t] = "stored" /\ index[t] \in Slots /\ target[t] = writeBuffer
      /\ slots[writeBuffer][index[t]] # NoLine
      /\ \A u \in Threads : ~Changes(u)
      /\ \A u \in Threads \ {t} : Holds(u) => index[u] # index[t]
      /\ freed < writeBuffer /\ writeBuffer \in 1..Len(slots)
  BY LineTypes, FreedBuffer, Basics DEF Count, SlotsHeld, Holds, Phases
<1>2. /\ pc' = [pc EXCEPT ![t] = IF count[writeBuffer] + 1 = Size
                                  THEN "installing" ELSE "out"]
      /\ count' = [count EXCEPT ![writeBuffer] = count[writeBuffer] + 1]
      /\ UNCHANGED <<state, logged, index, target, slots, buffers, writeBuffer,
                     writeIndex, freed, readBuffer, readIndex, cpc, draining,
                     logline, handed>>
  <2>1. ~(target[t] <= freed)
    BY <1>1, Basics
  <2>2. Goto(t, IF Completes(writeBuffer) THEN "installing" ELSE "out")
    BY <1>1, <2>1 DEF Count
  <2>. QED  BY <1>1, <2>2 DEF Count, Completes, Goto, consumer
<1>3. /\ count \in Seq(Nat) /\ count[writeBuffer] \in Nat
      /\ count' \in Seq(Nat) /\ Len(count') = Len(slots)
      /\ count'[writeBuffer] = count[writeBuffer] + 1
      /\ \A b \in 1..Len(slots) : b # writeBuffer => count'[b] = count[b]
  <2>1. count \in Seq(Nat) /\ Len(count) = Len(slots)
    BY DEF TypeOK
  <2>2. count[writeBuffer] \in Nat
    BY <1>1, <2>1, ElementOfSeq
  <2>. QED  BY <1>1, <1>2, <2>1, <2>2, ExceptSeq
<1>4. Counted' = Counted \cup {index[t]} /\ index[t] \notin Counted
  BY <1>1, <1>2, Basics DEF Counted, Holds
<1>5. count'[writeBuffer] = Cardinality(Counted')
  <2>1. IsFiniteSet(Counted)
    BY CountedCardinality
  <2>2. Cardinality(Counted \cup {index[t]}) = Cardinality(Counted) + 1
    BY <1>4, <2>1, FS_AddElement
  <2>. QED  BY <1>3, <1>4, <2>2 DEF CountsRight
<1>6. ASSUME count[writeBuffer] + 1 = Size
      PROVE  writeIndex >= Size /\ \A u \in Threads \ {t} : ~Holds(u)
  <2>1. Counted' = Slots
    <3>1. Cardinality(Counted') = Size
      BY <1>3, <1>5, <1>6
    <3>2. Counted' \in SUBSET Slots
      BY DEF Counted
    <3>. QED  BY <3>1, <3>2, SlotCount, FS_Subset
  <2>2. \A u \in Threads \ {t} : ~Holds(u)
    BY <1>1, <1>4, <2>1 DEF Counted, SlotsHeld, Holds
  <2>3. Size - 1 \in Slots
    BY Basics DEF Slots
  <2>4. slots[writeBuffer][Size - 1] # NoLine
    BY <1>1, <1>4, <2>1, <2>3 DEF Counted
  <2>. QED  BY <2>2, <2>3, <2>4, Basics DEF SlotsFilled
<1>7. TypeOK'
  <2>1. pc' \in [Threads -> Labels]
    BY <1>2, Basics DEF Labels
  <2>. QED  BY <1>2, <1>3, <2>1 DEF TypeOK, Labels
<1>8. SlotsHeld'
  BY <1>1, <1>2, <1>6, Basics DEF SlotsHeld, Holds, Changes, Line
<1>9. SlotsFilled'
  BY <1>1, <1>2, Basics DEF SlotsFilled
<1>10. OneChanges'
  BY <1>1, <1>2, <1>3, <1>6, Basics DEF OneChanges, Changes
<1>11. CountsRight'
  <2>1. ASSUME NEW b \in 1..Len(slots), b < writeBuffer \/ b <= freed
        PROVE  count'[b] = Size /\ Full(b)'
    <3>1. b # writeBuffer
      BY <1>1, <2>1, Basics
    <3>2. count[b] = Size /\ Full(b)
      BY <2>1 DEF CountsRight
    <3>. QED  BY <1>2, <1>3, <3>1, <3>2 DEF Full
  <2>2. UNCHANGED <<writeBuffer, freed, slots>>
    BY <1>2
  <2>. QED  BY <1>5, <2>1, <2>2 DEF CountsRight
<1>12. QueueInOrder' /\ ReadsFront'
  BY <1>1, <1>2, Basics DEF QueueInOrder, Enlisted, ReadsFront, Full
<1>13. Phases'
  BY <1>1, <1>2, Basics DEF Phases
<1>. QED
  BY <1>7, <1>8, <1>9, <1>10, <1>11, <1>12, <1>13

LEMMA InstallStep ==
  ASSUME IInv, NEW t \in Threads, Install(t)
  PROVE  IInv'
<1>. USE DEF IInv
<1>1. /\ pc[t] = "installing" /\ count[writeBuffer] = Size /\ writeIndex >= Size
      /\ \A u \in Threads \ {t} : ~Changes(u)
      /\ writeBuffer = Len(slots) /\ freed <= writeBuffer
      /\ Full(writeBuffer) /\ \A u \in Threads : ~Holds(u)
  BY FullBuffer, FreedBuffer DEF Install, OneChanges, Changes, QueueInOrder
<1>2. /\ pc' = [pc EXCEPT ![t] = "enlisting"]
      /\ slots' = Append(slots, Empty)
      /\ count' = Append(count, 0)
      /\ writeBuffer' = Len(slots')
      /\ target' = [target EXCEPT ![t] = Len(slots')]
      /\ UNCHANGED <<state, logged, index, buffers, writeIndex, freed, readBuffer,
                     readIndex, cpc, draining, logline, handed>>
  BY DEF Install, Goto, consumer
<1>3. /\ slots' \in Seq([Slots -> Lines \cup {NoLine}])
      /\ Len(slots') = Len(slots) + 1 /\ Len(slots) \in Nat
      /\ writeBuffer' = writeBuffer + 1
      /\ slots'[writeBuffer'] = Empty
      /\ \A b \in 1..Len(slots) : slots'[b] = slots[b]
  <2>1. slots \in Seq([Slots -> Lines \cup {NoLine}])
    BY DEF TypeOK, Slots
  <2>. QED  BY <1>1, <1>2, <2>1, EmptyType, AppendProperties, LenProperties
<1>4. /\ count' \in Seq(Nat) /\ Len(count') = Len(slots')
      /\ count'[writeBuffer'] = 0
      /\ \A b \in 1..Len(slots) : count'[b] = count[b]
  <2>1. count \in Seq(Nat) /\ Len(count) = Len(slots)
    BY DEF TypeOK
  <2>. QED  BY <1>1, <1>2, <1>3, <2>1, AppendProperties
<1>5. TypeOK'
  <2>1. pc' \in [Threads -> Labels]
    BY <1>2, Basics DEF Labels
  <2>2. target' \in [Threads -> 0..Len(slots')]
    BY <1>2, <1>3 DEF TypeOK
  <2>3. buffers' \in Seq(1..Len(slots'))
    <3>1. 1..Len(slots) \subseteq 1..Len(slots')
      BY <1>3
    <3>. QED  BY <1>2, <3>1 DEF TypeOK
  <2>4. /\ writeBuffer' \in 1..Len(slots') /\ freed' \in 0..Len(slots')
        /\ readBuffer' \in 0..Len(slots')
    BY <1>2, <1>3 DEF TypeOK
  <2>. QED  BY <1>2, <1>3, <1>4, <2>1, <2>2, <2>3, <2>4 DEF TypeOK, Labels, Slots
<1>6. SlotsHeld'
  BY <1>1, <1>2, Basics DEF SlotsHeld, Holds
<1>7. SlotsFilled'
  <2>1. \A i \in Slots : slots'[writeBuffer'][i] = NoLine
    BY <1>3 DEF Empty, Slots
  <2>2. pc'[t] = "enlisting"
    BY <1>2, Basics
  <2>. QED  BY <2>1, <2>2 DEF SlotsFilled
<1>8. OneChanges'
  BY <1>1, <1>2, <1>3, Basics DEF OneChanges, Changes, Empty
<1>9. CountsRight'
  <2>1. Counted' = {}
    BY <1>3 DEF Counted, Empty, Slots
  <2>2. ASSUME NEW b \in 1..Len(slots)
        PROVE  count[b] = Size /\ Full(b)
    BY <1>1, <1>3, <2>2 DEF CountsRight
  <2>3. ASSUME NEW b \in 1..Len(slots'), b < writeBuffer' \/ b <= freed'
        PROVE  b \in 1..Len(slots)
    BY <1>1, <1>2, <1>3, <2>3, Basics
  <2>. QED
    BY <1>3, <1>4, <2>1, <2>2, <2>3, FS_EmptySet DEF CountsRight, Full
<1>10. QueueInOrder'
  <2>1. Enlisted = writeBuffer
    BY <1>1, Basics DEF QueueInOrder, Changes
  <2>. QED  BY <1>1, <1>2, <1>3, <2>1, Basics DEF QueueInOrder, Enlisted
<1>11. ReadsFront'
  <2>1. readBuffer # NoBuffer => readBuffer \in 1..Len(slots)
    BY <1>3 DEF TypeOK, NoBuffer
  <2>2. cpc = "dropping" => freed + 1 \in 1..Len(slots)
    BY EnlistedBuffers DEF ReadsFront
  <2>. QED  BY <1>2, <1>3, <2>1, <2>2 DEF ReadsFront, Full
<1>12. Phases'
  BY <1>1, <1>2, Basics DEF Phases
<1>. QED
  BY <1>5, <1>6, <1>7, <1>8, <1>9, <1>10, <1>11, <1>12

LEMMA EnlistStep ==
  ASSUME IInv, NEW t \in Threads, Enlist(t)
  PROVE  IInv'
<1>. USE DEF IInv
<1>1. /\ pc[t] = "enlisting" /\ target[t] = writeBuffer /\ writeIndex >= Size
      /\ slots[writeBuffer] = Empty
      /\ \A u \in Threads \ {t} : ~Changes(u)
      /\ \A u \in Threads : ~Holds(u)
      /\ writeBuffer \in 1..Len(slots)
  BY DEF Enlist, OneChanges, SlotsHeld, Changes, TypeOK
<1>0. buffers' = Append(buffers, writeBuffer)
  BY <1>1 DEF Enlist
<1>2. /\ pc' = [pc EXCEPT ![t] = "out"]
      /\ writeIndex' = 0
      /\ UNCHANGED <<state, logged, index, target, slots, count, writeBuffer,
                     freed, readBuffer, readIndex, cpc, draining, logline, handed>>
  BY <1>1 DEF Enlist, Goto, Reopen, consumer
<1>3. /\ buffers' \in Seq(1..Len(slots))
      /\ Len(buffers') = Len(buffers) + 1 /\ Len(buffers) \in Nat
      /\ \A i \in 1..Len(buffers) : buffers'[i] = buffers[i]
      /\ buffers'[Len(buffers')] = writeBuffer
  <2>1. buffers \in Seq(1..Len(slots))
    BY DEF TypeOK
  <2>. QED  BY <1>0, <1>1, <2>1, AppendProperties, LenProperties
<1>4. TypeOK'
  <2>1. pc' \in [Threads -> Labels]
    BY <1>2, Basics DEF Labels
  <2>. QED  BY <1>2, <1>3, <2>1 DEF TypeOK, Labels
<1>5. SlotsHeld'
  BY <1>1, <1>2, Basics DEF SlotsHeld, Holds
<1>6. SlotsFilled'
  <2>1. \A i \in Slots : slots'[writeBuffer'][i] = NoLine /\ ~(i < writeIndex')
    BY <1>1, <1>2, Basics DEF Empty, Slots
  <2>. QED  BY <2>1 DEF SlotsFilled
<1>7. OneChanges'
  BY <1>1, <1>2, Basics DEF OneChanges, Changes
<1>8. CountsRight'
  <2>1. Counted' = Counted
    BY <1>1, <1>2 DEF Counted, Empty, Slots
  <2>. QED  BY <1>2, <2>1 DEF CountsRight, Full
<1>9. QueueInOrder'
  <2>1. Enlisted = writeBuffer - 1
    BY <1>1 DEF QueueInOrder
  <2>2. freed' = freed /\ freed + Len(buffers') = writeBuffer
    <3>1. freed' = freed /\ freed \in Nat /\ writeBuffer \in Nat
      BY <1>2, Basics
    <3>2. freed + Len(buffers) = writeBuffer - 1
      BY <2>1 DEF Enlisted
    <3>. QED  BY <1>3, <3>1, <3>2
  <2>3. \A u \in Threads : pc'[u] # "enlisting"
    BY <1>1, <1>2, Basics DEF Changes
  <2>4. ASSUME NEW i \in 1..Len(buffers') PROVE buffers'[i] = freed + i
    <3>1. CASE i = Len(buffers')
      BY <1>3, <2>2, <3>1
    <3>2. CASE i # Len(buffers')
      <4>1. i \in 1..Len(buffers) /\ buffers'[i] = buffers[i]
        BY <1>3, <3>2
      <4>. QED  BY <4>1 DEF QueueInOrder
    <3>. QED  BY <3>1, <3>2
  <2>. QED  BY <1>2, <2>2, <2>3, <2>4 DEF QueueInOrder, Enlisted
<1>10. ReadsFront'
  BY <1>2, <1>3 DEF ReadsFront, Full
<1>11. Phases'
  BY <1>1, <1>2, Basics DEF Phases
<1>. QED
  BY <1>4, <1>5, <1>6, <1>7, <1>8, <1>9, <1>10, <1>11

-----------------------------------------------------------------------------
(* The logging thread and the life of the logger preserve the invariant *)

\* What they leave alone.
LEMMA ProducersKept ==
  ASSUME IInv, UNCHANGED <<producer, slots, count, writeBuffer, writeIndex>>
  PROVE  /\ SlotsHeld' /\ SlotsFilled' /\ OneChanges'
         /\ Counted' = Counted
         /\ freed' = freed => CountsRight'
BY DEF IInv, producer, SlotsHeld, SlotsFilled, OneChanges, Holds, Changes,
       Line, Counted, CountsRight, Full

LEMMA LifeStep ==
  ASSUME IInv, Initialize \/ Shutdown
  PROVE  IInv'
<1>1. UNCHANGED <<producer, consumer, shared>>
  BY DEF Initialize, Shutdown
<1>2. SlotsHeld' /\ SlotsFilled' /\ OneChanges' /\ CountsRight'
  BY <1>1, ProducersKept DEF shared
<1>3. TypeOK' /\ QueueInOrder' /\ ReadsFront'
  BY <1>1 DEF IInv, Initialize, Shutdown, producer, consumer, shared, TypeOK,
              QueueInOrder, Enlisted, ReadsFront, Full
<1>4. Phases'
  BY <1>1 DEF IInv, Initialize, Shutdown, producer, consumer, Phases
<1>. QED  BY <1>2, <1>3, <1>4 DEF IInv

\* The steps of the logging thread that leave the buffers alone.
LEMMA CheckStep ==
  ASSUME IInv, CheckReady \/ CheckShutdown \/ PopNothing
  PROVE  IInv'
<1>1. UNCHANGED <<producer, shared, readBuffer, readIndex, logline, handed, state>>
  BY DEF CheckReady, CheckShutdown, PopNothing, Drain
<1>2. SlotsHeld' /\ SlotsFilled' /\ OneChanges' /\ CountsRight'
  BY <1>1, ProducersKept DEF shared
<1>3. /\ cpc' \in {"popping", "checking", "ended"} /\ draining' \in BOOLEAN
      /\ cpc \in {"starting", "checking", "popping"}
      /\ draining' => state = "SHUTDOWN"
      /\ cpc' = "checking" => ~draining'
      /\ cpc' = "ended" => draining'
  <2>. USE DEF IInv, TypeOK, Phases
  <2>1. CASE CheckReady
    BY <2>1 DEF CheckReady
  <2>2. CASE CheckShutdown
    BY <2>2 DEF CheckShutdown, Drain
  <2>3. CASE PopNothing
    BY <2>3 DEF PopNothing, NothingFound
  <2>. QED  BY <2>1, <2>2, <2>3
<1>4. TypeOK' /\ QueueInOrder' /\ ReadsFront'
  BY <1>1, <1>3 DEF IInv, producer, shared, TypeOK, QueueInOrder, Enlisted,
                    ReadsFront, Full
<1>5. Phases'
  BY <1>1, <1>3 DEF IInv, producer, Phases
<1>. QED  BY <1>2, <1>4, <1>5 DEF IInv

LEMMA FetchStep ==
  ASSUME IInv, FetchBuffer
  PROVE  IInv'
<1>. USE DEF IInv
<1>1. /\ cpc = "popping" /\ readBuffer = NoBuffer /\ readIndex = 0
      /\ UNCHANGED <<producer, shared, state, readIndex, draining, logline, handed>>
  BY DEF FetchBuffer, ReadsFront
<1>2. /\ readBuffer' = (IF Len(buffers) > 0 THEN freed + 1 ELSE NoBuffer)
      /\ readBuffer' \in 0..Len(slots)
      /\ Len(buffers) > 0 => readBuffer' # NoBuffer /\ cpc' = "popping"
      /\ cpc' \in {"popping", "checking", "ended"}
      /\ cpc' = "checking" => ~draining
      /\ cpc' = "ended" => draining
  <2>1. buffers \in Seq(1..Len(slots)) /\ Len(slots) \in Nat
    BY DEF TypeOK
  <2>2. CASE buffers = <<>>
    BY <1>1, <2>1, <2>2 DEF FetchBuffer, NextReadBuffer, NothingFound, NoBuffer
  <2>3. CASE buffers # <<>>
    <3>1. Len(buffers) > 0 /\ Head(buffers) = buffers[1]
          /\ buffers[1] \in 1..Len(slots)
      BY <2>1, <2>3, EmptySeq, ElementOfSeq
    <3>2. buffers[1] = freed + 1
      BY <2>1, <3>1 DEF QueueInOrder
    <3>. QED
      BY <1>1, <2>1, <2>3, <3>1, <3>2 DEF FetchBuffer, NextReadBuffer, NoBuffer
  <2>. QED  BY <2>2, <2>3
<1>3. SlotsHeld' /\ SlotsFilled' /\ OneChanges' /\ CountsRight'
  BY <1>1, ProducersKept DEF shared
<1>4. TypeOK'
  BY <1>1, <1>2 DEF producer, shared, TypeOK
<1>5. QueueInOrder'
  BY <1>1 DEF producer, shared, QueueInOrder, Enlisted
<1>6. ReadsFront'
  BY <1>1, <1>2 DEF shared, ReadsFront
<1>7. Phases'
  BY <1>1, <1>2 DEF producer, Phases
<1>. QED  BY <1>3, <1>4, <1>5, <1>6, <1>7

LEMMA PopStep ==
  ASSUME IInv, PopLine
  PROVE  IInv'
<1>. USE DEF IInv
<1>1. /\ cpc = "popping" /\ readBuffer = freed + 1 /\ Len(buffers) > 0
      /\ readBuffer # NoBuffer
      /\ readBuffer \in 1..Len(slots) /\ readIndex \in Slots
      /\ slots[readBuffer][readIndex] # NoLine
      /\ logline' = slots[readBuffer][readIndex]
      /\ UNCHANGED <<producer, shared, state, draining, handed>>
  BY DEF PopLine, ReadsFront, TypeOK, NoBuffer, Slots
<1>2. logline' \in Lines
  BY <1>1, SlotTypes
<1>3. \/ /\ readIndex + 1 = Size
         /\ readIndex' = 0 /\ readBuffer' = NoBuffer /\ cpc' = "dropping"
      \/ /\ readIndex + 1 # Size
         /\ readIndex' = readIndex + 1 /\ readBuffer' = readBuffer
         /\ cpc' = "writing"
  BY DEF PopLine, ReadAll
<1>4. readIndex' \in Slots /\ readBuffer' \in 0..Len(slots)
  BY <1>1, <1>3, LogAssumption DEF LogAssumption, Slots, NoBuffer
<1>5. SlotsHeld' /\ SlotsFilled' /\ OneChanges' /\ CountsRight'
  BY <1>1, ProducersKept DEF shared
<1>6. TypeOK'
  BY <1>1, <1>2, <1>3, <1>4 DEF producer, shared, TypeOK, Slots
<1>7. QueueInOrder'
  BY <1>1 DEF producer, shared, QueueInOrder, Enlisted
<1>8. ReadsFront'
  <2>1. \A i \in 0..readIndex : slots[readBuffer][i] # NoLine
    BY <1>1 DEF ReadsFront, Slots
  <2>2. CASE readIndex + 1 = Size
    <3>1. Full(freed + 1)
      BY <1>1, <2>1, <2>2 DEF Full, Slots
    <3>. QED  BY <1>1, <1>3, <2>2, <3>1 DEF shared, ReadsFront, Full
  <2>3. CASE readIndex + 1 # Size
    BY <1>1, <1>3, <2>1, <2>3 DEF shared, ReadsFront, Slots
  <2>. QED  BY <2>2, <2>3
<1>9. Phases'
  BY <1>1, <1>3 DEF producer, Phases
<1>. QED  BY <1>5, <1>6, <1>7, <1>8, <1>9

\* The buffer that is dropped is full, and counted if nobody is in it.
LEMMA DropStep ==
  ASSUME InTime', IInv, DropBuffer
  PROVE  IInv'
<1>. USE DEF IInv
<1>1. /\ cpc = "dropping" /\ readBuffer = NoBuffer /\ readIndex = 0
      /\ Len(buffers) > 0 /\ Full(freed + 1)
      /\ buffers \in Seq(1..Len(slots)) /\ buffers # <<>>
  BY DEF DropBuffer, ReadsFront, TypeOK
<1>2. Head(buffers) = freed + 1 /\ freed + 1 \in 1..Len(slots)
  <2>1. buffers[1] = freed + 1 /\ buffers[1] \in 1..Len(slots)
    BY <1>1, LenProperties, ElementOfSeq DEF QueueInOrder
  <2>. QED  BY <1>1, <2>1
<1>3. /\ count[freed + 1] = Size
      /\ freed' = freed + 1 /\ cpc' = "writing"
      /\ UNCHANGED <<state, producer, readBuffer, readIndex, draining, logline,
                     handed, slots, count, writeBuffer, writeIndex>>
  <2>1. freed' = freed + 1 /\ count' = count
    BY DEF DropBuffer
  <2>2. count[freed + 1] = Size
    BY <1>2, <2>1, Basics DEF InTime
  <2>. QED  BY <2>1, <2>2 DEF DropBuffer
<1>4. /\ buffers' \in Seq(1..Len(slots))
      /\ Len(buffers') = Len(buffers) - 1 /\ Len(buffers) \in Nat
      /\ \A i \in 1..Len(buffers') : buffers'[i] = buffers[i + 1]
  <2>1. buffers' = Tail(buffers)
    BY DEF DropBuffer
  <2>. QED  BY <1>1, <2>1, HeadTailProperties, LenProperties
<1>5. SlotsHeld' /\ SlotsFilled' /\ OneChanges' /\ Counted' = Counted
  BY <1>3, ProducersKept
<1>6. CountsRight'
  BY <1>1, <1>3, <1>5, Basics DEF CountsRight, Full
<1>7. TypeOK'
  BY <1>1, <1>2, <1>3, <1>4 DEF producer, TypeOK
<1>8. QueueInOrder'
  <2>1. Enlisted' = Enlisted
    BY <1>3, <1>4, Basics DEF Enlisted
  <2>2. ASSUME NEW i \in 1..Len(buffers') PROVE buffers'[i] = freed' + i
    <3>1. buffers'[i] = buffers[i + 1] /\ i + 1 \in 1..Len(buffers)
      BY <1>4
    <3>. QED  BY <1>3, <3>1, Basics DEF QueueInOrder
  <2>. QED  BY <1>3, <2>1, <2>2 DEF producer, QueueInOrder
<1>9. ReadsFront'
  BY <1>1, <1>3 DEF ReadsFront
<1>10. Phases'
  BY <1>1, <1>3 DEF producer, Phases
<1>. QED  BY <1>5, <1>6, <1>7, <1>8, <1>9, <1>10

LEMMA WriteStep ==
  ASSUME IInv, Write
  PROVE  IInv'
<1>. USE DEF IInv
<1>1. /\ cpc = "writing" /\ logline \in Lines
      /\ handed' = Append(handed, logline) /\ logline' = NoLine
      /\ cpc' = (IF draining THEN "popping" ELSE "checking")
      /\ UNCHANGED <<state, producer, readBuffer, readIndex, draining, shared>>
  BY DEF Write, NextTurn, Phases, TypeOK
<1>2. handed' \in Seq(Lines)
  BY <1>1, AppendProperties DEF TypeOK
<1>3. SlotsHeld' /\ SlotsFilled' /\ OneChanges' /\ CountsRight'
  BY <1>1, ProducersKept DEF shared
<1>4. TypeOK'
  BY <1>1, <1>2 DEF producer, shared, TypeOK
<1>5. QueueInOrder' /\ ReadsFront'
  BY <1>1 DEF producer, shared, QueueInOrder, Enlisted, ReadsFront, Full
<1>6. Phases'
  BY <1>1 DEF producer, Phases
<1>. QED  BY <1>3, <1>4, <1>5, <1>6

-----------------------------------------------------------------------------
(* Types, and who has a slot *)

LEMMA IInit == Init => IInv
<1>. SUFFICES ASSUME Init PROVE IInv
  OBVIOUS
<1>. USE LogAssumption DEF LogAssumption, Init
<1>1. /\ slots \in Seq([Slots -> Lines \cup {NoLine}]) /\ Len(slots) = 1
      /\ slots[1] = Empty
      /\ count \in Seq(Nat) /\ Len(count) = 1 /\ count[1] = 0
      /\ buffers \in Seq(1..1) /\ Len(buffers) = 1 /\ buffers[1] = 1
      /\ handed \in Seq(Lines)
  BY EmptyType
<1>2. TypeOK
  <2>1. /\ logged \in [Threads -> 0..MaxLines]
        /\ pc \in [Threads -> Labels]
        /\ index \in [Threads -> Nat]
        /\ target \in [Threads -> 0..Len(slots)]
    BY <1>1 DEF Labels, NoBuffer
  <2>2. /\ writeBuffer \in 1..Len(slots) /\ writeIndex \in Nat
        /\ freed \in 0..Len(slots) /\ readBuffer \in 0..Len(slots)
        /\ readIndex \in 0..(Size - 1) /\ buffers \in Seq(1..Len(slots))
    BY <1>1 DEF NoBuffer
  <2>3. /\ state = "INIT" /\ cpc = "starting" /\ draining \in BOOLEAN
        /\ logline \in Lines \cup {NoLine}
    OBVIOUS
  <2>. HIDE DEF Init
  <2>. QED  BY <1>1, <2>1, <2>2, <2>3 DEF TypeOK, Labels, Slots
<1>3. SlotsHeld /\ SlotsFilled /\ OneChanges
  BY <1>1 DEF SlotsHeld, SlotsFilled, OneChanges, Holds, Changes, Empty, Slots
<1>4. CountsRight
  <2>1. Counted = {}
    BY <1>1 DEF Counted, Empty, Slots
  <2>. QED  BY <1>1, <2>1, FS_EmptySet DEF CountsRight
<1>5. QueueInOrder /\ ReadsFront /\ Phases
  BY <1>1 DEF QueueInOrder, Enlisted, ReadsFront, Phases, NoBuffer
<1>. QED  BY <1>2, <1>3, <1>4, <1>5 DEF IInv

LEMMA IStep ==
  ASSUME IInv, [Next /\ InTime']_vars
  PROVE  IInv'
<1>1. CASE UNCHANGED vars
  <2>1. SlotsHeld' /\ SlotsFilled' /\ OneChanges' /\ CountsRight'
    BY <1>1, ProducersKept DEF vars, shared
  <2>2. TypeOK' /\ QueueInOrder' /\ ReadsFront'
    BY <1>1 DEF vars, producer, consumer, shared, IInv, TypeOK, QueueInOrder,
                Enlisted, ReadsFront, Full
  <2>3. Phases'
    BY <1>1 DEF vars, producer, consumer, IInv, Phases
  <2>. QED  BY <2>1, <2>2, <2>3 DEF IInv
<1>2. CASE Exited
  BY <1>1, <1>2 DEF Exited
<1>3. CASE Initialize \/ Shutdown
  BY <1>3, LifeStep
<1>4. CASE Pop
  BY <1>1, <1>4, CheckStep, FetchStep, PopStep, DropStep, WriteStep DEF Pop
<1>5. ASSUME NEW t \in Threads, Start(t) \/ Push(t) PROVE IInv'
  BY <1>5, StartStep, ClaimStep, SpinStep, LoadStep, StoreStep, CountStep,
     InstallStep, EnlistStep DEF Push
<1>. QED  BY <1>1, <1>2, <1>3, <1>4, <1>5 DEF Next

\* If buffers are freed in time, nobody else gets at a slot between its claim and
\* its store, whatever number of threads push: Buffer::push() constructs the item in memory that
\* is the thread's own.
THEOREM SlotsOwned == TimelySpec => []SlotOwned
<1>1. IInv => SlotOwned
  BY DEF IInv, SlotsHeld, SlotOwned, Holds, Slots
<1>2. IInv /\ [Next /\ InTime']_vars => IInv'
  BY IStep
<1>. QED  BY <1>1, <1>2, IInit, PTL DEF TimelySpec

\* If buffers are freed in time, indices stay in their buffers and buffers in the sequence of those that were
\* made, although m_write_index runs on past the size.
THEOREM QueueTypes == TimelySpec => []TypeOK
<1>1. IInv => TypeOK
  BY DEF IInv
<1>2. IInv /\ [Next /\ InTime']_vars => IInv'
  BY IStep
<1>. QED  BY <1>1, <1>2, IInit, PTL DEF TimelySpec

\* If buffers are freed in time, the queue is a row of consecutive buffers whose front is the one that is
\* read, and it is freed only when every push into it is over.
THEOREM BuffersInOrder == TimelySpec => [](QueueInOrder /\ ReadsFront /\ CountsRight)
<1>1. IInv => QueueInOrder /\ ReadsFront /\ CountsRight
  BY DEF IInv
<1>2. IInv /\ [Next /\ InTime']_vars => IInv'
  BY IStep
<1>. QED  BY <1>1, <1>2, IInit, PTL DEF TimelySpec

-----------------------------------------------------------------------------
(* No line is lost.  LinesKept says where every line is that a thread has   *)
(* begun to log; when the logging thread ends, each has been handed on.     *)

KeptInv == IInv /\ LinesKept /\ NothingLost

\* A line is where it was if the steps of other lines do not touch its place.
LEMMA FiledStays ==
  ASSUME IInv, UNCHANGED handed \/ Write, NEW l, Filed(l)
  PROVE  Filed(l)'
<1>1. CASE UNCHANGED handed
  BY <1>1 DEF Filed
<1>2. CASE Write
  <2>1. handed \in Seq(Lines) /\ logline \in Lines /\ handed' = Append(handed, logline)
    BY <1>2 DEF IInv, TypeOK, Phases, Write
  <2>2. PICK i \in 1..Len(handed) : handed[i] = l
    BY <2>1, LenProperties DEF Filed
  <2>3. handed'[i] = l /\ i \in DOMAIN handed'
    BY <2>1, <2>2, AppendProperties, LenProperties
  <2>. QED  BY <2>3 DEF Filed
<1>. QED  BY <1>1, <1>2

\* The step that claims no place and moves no line.
LEMMA NothingMoves ==
  ASSUME IInv, LinesKept, UNCHANGED <<logged, logline, handed, slots, freed>>,
         readIndex' = readIndex, cpc' = "dropping" => cpc = "dropping",
         \A t \in Threads :
           pc[t] \in {"pushing", "spinning", "claimed", "loaded"} =>
             pc'[t] \in {"pushing", "spinning", "claimed", "loaded"}
  PROVE  LinesKept'
BY DEF LinesKept, Awaits, Stored, Filed, Line

LEMMA ProducersKeepLines ==
  ASSUME KeptInv, NEW t \in Threads, Start(t) \/ Push(t)
  PROVE  LinesKept'
<1>. USE DEF KeptInv, IInv
<1>1. UNCHANGED <<logline, handed, freed, cpc, readIndex>>
  BY DEF Start, Push, Claim, Spin, Load, Store, Count, Install, Enlist, consumer, shared
<1>2. CASE Start(t)
  <2>1. /\ pc[t] = "out" /\ pc' = [pc EXCEPT ![t] = "pushing"]
        /\ logged' = [logged EXCEPT ![t] = logged[t] + 1] /\ slots' = slots
    BY <1>2 DEF Start, Goto, shared
  <2>2. ASSUME NEW u \in Threads, NEW n \in 1..logged'[u]
        PROVE  \/ Awaits(<<u, n>>)' \/ Stored(<<u, n>>)'
               \/ logline' = <<u, n>> \/ Filed(<<u, n>>)'
    <3>1. CASE u = t /\ n = logged'[t]
      BY <2>1, <3>1, Basics DEF Awaits, Line
    <3>2. CASE ~(u = t /\ n = logged'[t])
      <4>1. n \in 1..logged[u]
        BY <2>1, <3>2, Basics
      <4>2. Awaits(<<u, n>>) => Awaits(<<u, n>>)'
        BY <2>1, Basics DEF Awaits, Line
      <4>3. Stored(<<u, n>>) => Stored(<<u, n>>)'
        BY <1>1, <2>1 DEF Stored
      <4>4. Filed(<<u, n>>) => Filed(<<u, n>>)'
        BY <1>1, FiledStays
      <4>. QED  BY <1>1, <4>1, <4>2, <4>3, <4>4 DEF LinesKept
    <3>. QED  BY <3>1, <3>2
  <2>. QED  BY <2>2 DEF LinesKept
<1>3. CASE Claim(t) \/ Spin(t) \/ Load(t)
  <2>1. /\ UNCHANGED <<logged, slots>>
        /\ \E s \in {"pushing", "spinning", "claimed", "loaded"} :
             pc' = [pc EXCEPT ![t] = s]
    BY <1>3 DEF Claim, Spin, Load, Goto, shared
  <2>2. \A u \in Threads :
          pc[u] \in {"pushing", "spinning", "claimed", "loaded"} =>
            pc'[u] \in {"pushing", "spinning", "claimed", "loaded"}
    BY <2>1, Basics
  <2>. QED  BY <1>1, <2>1, <2>2, NothingMoves
<1>4. CASE Store(t)
  <2>1. /\ pc[t] = "loaded" /\ index[t] \in Slots
        /\ slots[writeBuffer][index[t]] = NoLine
        /\ writeBuffer \in 1..Len(slots) /\ freed < writeBuffer
        /\ pc' = [pc EXCEPT ![t] = "stored"]
        /\ slots' = [slots EXCEPT ![writeBuffer][index[t]] = Line(t)]
        /\ UNCHANGED <<logged, writeBuffer>>
    BY <1>4, FreedBuffer DEF Store, Goto, SlotsHeld, Holds
  <2>2. /\ Len(slots') = Len(slots)
        /\ \A b \in 1..Len(slots) : \A i \in Slots :
             slots'[b][i] = IF b = writeBuffer /\ i = index[t] THEN Line(t)
                            ELSE slots[b][i]
    <3>1. slots \in Seq([Slots -> Lines \cup {NoLine}])
      BY DEF TypeOK, Slots
    <3>2. \A b \in 1..Len(slots) : slots[b] \in [Slots -> Lines \cup {NoLine}]
      BY SlotTypes
    <3>. QED  BY <2>1, <3>1, <3>2, LenProperties
  <2>3. Stored(Line(t))'
    <3>1. writeBuffer \in (freed + 1)..Len(slots)
      BY <2>1, Basics DEF TypeOK
    <3>2. writeBuffer = freed + 1 => cpc # "dropping"
      BY <2>1 DEF ReadsFront, Full
    <3>3. ASSUME writeBuffer = freed + 1, ~(index[t] >= readIndex) PROVE FALSE
      <4>1. readIndex \in Nat /\ index[t] \in 0..(readIndex - 1)
        BY <2>1, <3>3, Basics DEF TypeOK, Slots
      <4>2. readBuffer = writeBuffer
        BY <3>3, <4>1 DEF ReadsFront
      <4>. QED  BY <2>1, <4>1, <4>2, FreedBuffer DEF ReadsFront, NoBuffer
    <3>4. slots'[writeBuffer][index[t]] = Line(t)
      BY <2>1, <2>2
    <3>. QED
      BY <1>1, <2>1, <2>2, <3>1, <3>2, <3>3, <3>4 DEF Stored, Line
  <2>4. ASSUME NEW u \in Threads, NEW n \in 1..logged[u]
        PROVE  \/ Awaits(<<u, n>>)' \/ Stored(<<u, n>>)'
               \/ logline' = <<u, n>> \/ Filed(<<u, n>>)'
    <3>1. Awaits(<<u, n>>) => Awaits(<<u, n>>)' \/ <<u, n>> = Line(t)
      BY <2>1, Basics DEF Awaits, Line
    <3>2. <<u, n>> = Line(t) => Stored(<<u, n>>)'
      BY <2>1, <2>3 DEF Line
    <3>3. ASSUME Stored(<<u, n>>) PROVE Stored(<<u, n>>)'
      <4>1. PICK b \in (freed + 1)..Len(slots), i \in Slots :
              /\ slots[b][i] = <<u, n>>
              /\ b = freed + 1 => cpc # "dropping" /\ i >= readIndex
        BY <3>3 DEF Stored
      <4>2. b \in 1..Len(slots) /\ <<u, n>> # NoLine
        BY Basics, LogAssumption DEF LogAssumption
      <4>3. slots'[b][i] = <<u, n>>
        BY <2>1, <2>2, <4>1, <4>2
      <4>. QED  BY <1>1, <2>2, <4>1, <4>3 DEF Stored
    <3>4. Filed(<<u, n>>) => Filed(<<u, n>>)'
      BY <1>1, FiledStays
    <3>. QED  BY <1>1, <3>1, <3>2, <3>3, <3>4 DEF LinesKept
  <2>. QED  BY <2>1, <2>4 DEF LinesKept
<1>5. CASE Count(t) \/ Install(t) \/ Enlist(t)
  <2>1. /\ UNCHANGED logged
        /\ \E s \in Labels : pc' = [pc EXCEPT ![t] = s]
        /\ pc[t] \in {"stored", "installing", "enlisting"}
    BY <1>5 DEF Count, Install, Enlist, Goto, Labels
  <2>2. /\ Len(slots) \in Nat /\ Len(slots') \in Nat /\ Len(slots) <= Len(slots')
        /\ \A b \in 1..Len(slots) : slots'[b] = slots[b]
    <3>1. CASE slots' = slots
      BY <3>1, LenProperties DEF TypeOK
    <3>2. CASE slots' = Append(slots, Empty)
      <4>1. slots \in Seq([Slots -> Lines \cup {NoLine}])
        BY DEF TypeOK, Slots
      <4>. QED  BY <3>2, <4>1, EmptyType, AppendProperties, LenProperties
    <3>. QED  BY <1>5, <3>1, <3>2 DEF Count, Install, Enlist
  <2>3. ASSUME NEW u \in Threads, NEW n \in 1..logged[u]
        PROVE  \/ Awaits(<<u, n>>)' \/ Stored(<<u, n>>)'
               \/ logline' = <<u, n>> \/ Filed(<<u, n>>)'
    <3>1. Awaits(<<u, n>>) => Awaits(<<u, n>>)'
      BY <2>1, Basics DEF Awaits, Line
    <3>2. ASSUME Stored(<<u, n>>) PROVE Stored(<<u, n>>)'
      <4>1. PICK b \in (freed + 1)..Len(slots), i \in Slots :
              /\ slots[b][i] = <<u, n>>
              /\ b = freed + 1 => cpc # "dropping" /\ i >= readIndex
        BY <3>2 DEF Stored
      <4>2. b \in 1..Len(slots) /\ b \in (freed + 1)..Len(slots')
        BY <2>2, Basics
      <4>. QED  BY <1>1, <2>2, <4>1, <4>2 DEF Stored
    <3>3. Filed(<<u, n>>) => Filed(<<u, n>>)'
      BY <1>1, FiledStays
    <3>. QED  BY <1>1, <3>1, <3>2, <3>3 DEF LinesKept
  <2>. QED  BY <2>1, <2>3 DEF LinesKept
<1>. QED  BY <1>2, <1>3, <1>4, <1>5 DEF Push

\* The logging thread takes a line from its slot and hands it on.
LEMMA ConsumerKeepsLines ==
  ASSUME KeptInv, Pop
  PROVE  LinesKept'
<1>. USE DEF KeptInv, IInv
<1>1. UNCHANGED <<logged, pc, slots>>
  BY DEF Pop, CheckReady, CheckShutdown, FetchBuffer, PopLine, PopNothing,
         DropBuffer, Write, producer, shared
<1>2. CASE CheckReady \/ CheckShutdown \/ PopNothing \/ FetchBuffer
  <2>1. /\ UNCHANGED <<logline, handed, freed, readIndex>> /\ cpc' # "dropping"
    BY <1>2 DEF CheckReady, CheckShutdown, PopNothing, FetchBuffer, Drain,
                NothingFound, shared
  <2>. QED  BY <1>1, <2>1, NothingMoves
<1>3. CASE PopLine
  <2>1. /\ cpc = "popping" /\ readBuffer = freed + 1 /\ logline = NoLine
        /\ readIndex \in Slots
        /\ logline' = slots[freed + 1][readIndex]
        /\ UNCHANGED <<handed, freed>>
    BY <1>3 DEF PopLine, ReadsFront, Phases, TypeOK, Slots, shared
  <2>2. ASSUME NEW i \in Slots, i >= readIndex, i # readIndex
        PROVE  cpc' # "dropping" /\ i >= readIndex'
    BY <1>3, <2>1, <2>2, Basics DEF PopLine, ReadAll, Slots
  <2>3. ASSUME NEW u \in Threads, NEW n \in 1..logged[u]
        PROVE  \/ Awaits(<<u, n>>)' \/ Stored(<<u, n>>)'
               \/ logline' = <<u, n>> \/ Filed(<<u, n>>)'
    <3>1. Awaits(<<u, n>>) => Awaits(<<u, n>>)'
      BY <1>1 DEF Awaits, Line
    <3>2. ASSUME Stored(<<u, n>>)
          PROVE  Stored(<<u, n>>)' \/ logline' = <<u, n>>
      <4>1. PICK b \in (freed + 1)..Len(slots), i \in Slots :
              /\ slots[b][i] = <<u, n>>
              /\ b = freed + 1 => cpc # "dropping" /\ i >= readIndex
        BY <3>2 DEF Stored
      <4>2. CASE b = freed + 1 /\ i = readIndex
        BY <2>1, <4>1, <4>2
      <4>3. CASE ~(b = freed + 1 /\ i = readIndex)
        <5>1. b = freed + 1 => cpc' # "dropping" /\ i >= readIndex'
          BY <2>2, <4>1, <4>3
        <5>. QED  BY <1>1, <2>1, <4>1, <5>1 DEF Stored
      <4>. QED  BY <4>2, <4>3
    <3>3. logline # <<u, n>>
      BY <2>1, LogAssumption DEF LogAssumption
    <3>4. Filed(<<u, n>>) => Filed(<<u, n>>)'
      BY <2>1, FiledStays
    <3>. QED  BY <3>1, <3>2, <3>3, <3>4 DEF LinesKept
  <2>. QED  BY <1>1, <2>3 DEF LinesKept
<1>4. CASE DropBuffer
  <2>1. /\ cpc = "dropping" /\ cpc' = "writing" /\ freed' = freed + 1
        /\ readIndex' = 0 /\ UNCHANGED <<handed, logline>>
    BY <1>4 DEF DropBuffer, ReadsFront
  <2>2. ASSUME NEW u \in Threads, NEW n \in 1..logged[u]
        PROVE  \/ Awaits(<<u, n>>)' \/ Stored(<<u, n>>)'
               \/ logline' = <<u, n>> \/ Filed(<<u, n>>)'
    <3>1. Awaits(<<u, n>>) => Awaits(<<u, n>>)'
      BY <1>1 DEF Awaits, Line
    <3>2. ASSUME Stored(<<u, n>>) PROVE Stored(<<u, n>>)'
      <4>1. PICK b \in (freed + 1)..Len(slots), i \in Slots :
              /\ slots[b][i] = <<u, n>>
              /\ b = freed + 1 => cpc # "dropping" /\ i >= readIndex
        BY <3>2 DEF Stored
      <4>2. b \in (freed' + 1)..Len(slots)
        BY <2>1, <4>1, Basics
      <4>3. i >= 0
        BY Basics DEF Slots
      <4>. QED  BY <1>1, <2>1, <4>1, <4>2, <4>3 DEF Stored
    <3>3. Filed(<<u, n>>) => Filed(<<u, n>>)'
      BY <2>1, FiledStays
    <3>. QED  BY <2>1, <3>1, <3>2, <3>3 DEF LinesKept
  <2>. QED  BY <1>1, <2>2 DEF LinesKept
<1>5. CASE Write
  <2>1. /\ cpc = "writing" /\ cpc' # "dropping" /\ logline \in Lines
        /\ handed' = Append(handed, logline) /\ handed \in Seq(Lines)
        /\ UNCHANGED <<freed, readIndex>>
    BY <1>5 DEF Write, NextTurn, Phases, TypeOK, shared
  <2>2. \E i \in DOMAIN handed' : handed'[i] = logline
    <3>1. Len(handed) + 1 \in DOMAIN handed' /\ handed'[Len(handed) + 1] = logline
      BY <2>1, AppendProperties, LenProperties
    <3>. QED  BY <3>1
  <2>3. ASSUME NEW u \in Threads, NEW n \in 1..logged[u]
        PROVE  \/ Awaits(<<u, n>>)' \/ Stored(<<u, n>>)'
               \/ logline' = <<u, n>> \/ Filed(<<u, n>>)'
    <3>1. Awaits(<<u, n>>) => Awaits(<<u, n>>)'
      BY <1>1 DEF Awaits, Line
    <3>2. Stored(<<u, n>>) => Stored(<<u, n>>)'
      BY <1>1, <2>1 DEF Stored
    <3>3. Filed(<<u, n>>) => Filed(<<u, n>>)'
      BY <1>5, FiledStays
    <3>4. logline = <<u, n>> => Filed(<<u, n>>)'
      BY <2>2 DEF Filed
    <3>. QED  BY <3>1, <3>2, <3>3, <3>4 DEF LinesKept
  <2>. QED  BY <1>1, <2>3 DEF LinesKept
<1>. QED  BY <1>2, <1>3, <1>4, <1>5 DEF Pop

\* When the thread finds nothing, with every push over, there is nothing: the
\* slots are filled in order, and what is behind the first that is not written
\* is not written either.
LEMMA NothingStored ==
  ASSUME KeptInv, draining,
         \/ PopNothing
         \/ FetchBuffer /\ readBuffer' = NoBuffer
  PROVE  \A l \in Lines : ~Stored(l)
<1>. USE DEF KeptInv, IInv
<1>1. /\ cpc = "popping"
      /\ \A t \in Threads : pc[t] = "out"
      /\ Enlisted = writeBuffer /\ writeBuffer = Len(slots)
  BY DEF Phases, QueueInOrder, PopNothing, FetchBuffer
<1>. SUFFICES ASSUME NEW l \in Lines, Stored(l) PROVE FALSE
  OBVIOUS
<1>2. PICK b \in (freed + 1)..Len(slots), i \in Slots :
        slots[b][i] = l /\ (b = freed + 1 => i >= readIndex)
  BY DEF Stored
<1>3. l # NoLine
  BY LogAssumption DEF LogAssumption, Lines
<1>4. b \in 1..Len(slots)
  BY Basics
<1>5. CASE PopNothing
  <2>1. /\ readBuffer = freed + 1 /\ readBuffer \in 1..Len(slots)
        /\ readIndex \in Slots /\ slots[readBuffer][readIndex] = NoLine
    BY <1>5 DEF PopNothing, ReadsFront, TypeOK, NoBuffer, Slots
  <2>2. readBuffer = writeBuffer
    <3>1. ~Full(readBuffer)
      BY <2>1 DEF Full
    <3>2. readBuffer >= writeBuffer
      BY <2>1, <3>1, Basics DEF CountsRight
    <3>. QED  BY <1>1, <2>1, <3>2, Basics
  <2>3. b = writeBuffer /\ i >= readIndex
    BY <1>1, <1>2, <2>1, <2>2, Basics
  <2>4. ~(readIndex < writeIndex)
    BY <1>1, <2>1, <2>2 DEF SlotsFilled
  <2>5. i < writeIndex
    BY <1>2, <1>3, <2>3 DEF SlotsFilled
  <2>. QED  BY <2>1, <2>3, <2>4, <2>5, Basics DEF Slots
<1>6. CASE FetchBuffer /\ readBuffer' = NoBuffer
  <2>1. buffers \in Seq(1..Len(slots))
    BY DEF TypeOK
  <2>2. buffers = <<>>
    <3>. SUFFICES ASSUME buffers # <<>> PROVE FALSE
      OBVIOUS
    <3>1. Head(buffers) \in 1..Len(slots)
      BY <2>1, HeadTailProperties
    <3>. QED  BY <1>6, <3>1, Basics DEF FetchBuffer, NextReadBuffer, NoBuffer
  <2>3. freed = Len(slots)
    BY <1>1, <2>2, Basics DEF Enlisted
  <2>. QED  BY <1>2, <2>3, Basics
<1>. QED  BY <1>5, <1>6

LEMMA KeptStep ==
  ASSUME KeptInv, [Next /\ InTime']_vars
  PROVE  KeptInv'
<1>. USE DEF KeptInv
<1>1. IInv'
  BY IStep
<1>2. LinesKept'
  <2>1. CASE UNCHANGED vars
    BY <2>1, NothingMoves DEF vars, producer, consumer, shared
  <2>2. CASE Initialize \/ Shutdown \/ Exited
    BY <2>2, NothingMoves DEF Initialize, Shutdown, Exited, vars, producer, consumer, shared
  <2>. QED
    BY <2>1, <2>2, ProducersKeepLines, ConsumerKeepsLines DEF Next
<1>3. NothingLost'
  <2>. SUFFICES ASSUME cpc' = "ended" PROVE NothingLost'
    BY DEF NothingLost
  <2>1. CASE cpc = "ended"
    <3>1. UNCHANGED <<handed, logged>>
      <4>1. state = "SHUTDOWN" /\ \A t \in Threads : pc[t] = "out"
        BY <2>1 DEF IInv, Phases
      <4>2. ASSUME NEW t \in Threads, Start(t) \/ Push(t) PROVE FALSE
        BY <4>1, <4>2 DEF Start, Push, Claim, Spin, Load, Store, Count,
                          Install, Enlist
      <4>3. ~Pop
        BY <2>1 DEF Pop, CheckReady, CheckShutdown, FetchBuffer, PopLine,
                    PopNothing, DropBuffer, Write
      <4>. QED
        BY <4>2, <4>3 DEF Next, Initialize, Shutdown, Exited, vars, producer, consumer
    <3>. QED  BY <2>1, <3>1 DEF NothingLost
  <2>2. CASE cpc # "ended"
    <3>1. \/ PopNothing
          \/ FetchBuffer /\ readBuffer' = NoBuffer
      <4>1. ~(UNCHANGED cpc)
        BY <2>2
      <4>2. Pop
        BY <4>1 DEF Next, Initialize, Shutdown, Exited, vars, consumer, Start,
           Push, Claim, Spin, Load, Store, Count, Install, Enlist
      <4>. QED
        BY <2>2, <4>2 DEF Pop, CheckReady, CheckShutdown, FetchBuffer, PopLine,
                          DropBuffer, Write, NextTurn, Drain
    <3>2. /\ draining /\ logline = NoLine
          /\ UNCHANGED <<logged, logline, handed, pc>>
      BY <2>2, <3>1 DEF PopNothing, FetchBuffer, NothingFound, producer, IInv, Phases
    <3>3. \A l \in Lines : ~Stored(l)
      BY <3>1, <3>2, NothingStored
    <3>4. ASSUME NEW t \in Threads, NEW n \in 1..logged[t] PROVE Filed(<<t, n>>)
      <4>1. <<t, n>> \in Lines
        BY LogAssumption DEF LogAssumption, IInv, TypeOK, Lines
      <4>2. ~Awaits(<<t, n>>)
        BY <3>2 DEF Awaits, IInv, Phases
      <4>3. <<t, n>> # NoLine
        BY <4>1, LogAssumption DEF LogAssumption, Lines
      <4>. QED  BY <3>2, <3>3, <4>1, <4>2, <4>3 DEF LinesKept
    <3>. QED  BY <3>2, <3>4 DEF NothingLost, Filed
  <2>. QED  BY <2>1, <2>2
<1>. QED  BY <1>1, <1>2, <1>3

LEMMA KeptInit == Init => KeptInv
<1>. SUFFICES ASSUME Init PROVE KeptInv
  OBVIOUS
<1>1. LinesKept
  BY DEF Init, LinesKept
<1>2. NothingLost
  BY DEF Init, NothingLost
<1>. QED  BY <1>1, <1>2, IInit DEF KeptInv

\* If buffers are freed in time, every line that a thread has logged before the
\* shutdown has been handed to FileWriter::write() when the logging thread ends:
\* ~NanoLogger() joins a thread that has popped all.
THEOREM LinesNotLost == TimelySpec => []NothingLost
<1>1. KeptInv => NothingLost
  BY DEF KeptInv
<1>2. KeptInv /\ [Next /\ InTime']_vars => KeptInv'
  BY KeptStep
<1>. QED  BY <1>1, <1>2, KeptInit, PTL DEF TimelySpec

-----------------------------------------------------------------------------
(* LogQueue implements Log.  The pending lines of Log are the line that is  *)
(* being written and the slots that have been claimed and not been read, a  *)
(* row that may span several buffers.  SlotLines says which line a slot     *)
(* stands for, Places which slots are in the row.                           *)

SlotAt(p) == LineAt((p \div Size) + 1, p % Size)
Row == [k \in 1..(EndPending - FirstPending) |-> SlotAt(FirstPending + k - 1)]

\* A slot stands for the line it holds, or for the one of the thread that has
\* claimed it.
SlotLines ==
  /\ \A b \in 1..Len(slots), i \in Slots :
       slots[b][i] # NoLine => LineAt(b, i) = slots[b][i]
  /\ \A t \in Threads :
       pc[t] \in {"claimed", "loaded"} => LineAt(writeBuffer, index[t]) = Line(t)

\* The slots of the row are written or claimed.
Taken(b, i) ==
  /\ b \in (freed + 1)..Enlisted /\ b \in 1..Len(slots) /\ i \in Slots
  /\ \/ slots[b][i] # NoLine
     \/ /\ b = writeBuffer
        /\ \E t \in Threads : pc[t] \in {"claimed", "loaded"} /\ index[t] = i

Places ==
  /\ FirstPending \in Nat /\ EndPending \in Nat /\ FirstPending <= EndPending
  /\ \A p \in FirstPending..(EndPending - 1) : Taken((p \div Size) + 1, p % Size)

LEMMA DivMod ==
  ASSUME NEW p \in Nat
  PROVE  /\ p \div Size \in Nat /\ p % Size \in Slots
         /\ p = ((p \div Size) * Size) + (p % Size)
         /\ ((p \div Size) * Size) \in Nat
BY LogAssumption DEF LogAssumption, Slots

LEMMA DivModUnique ==
  ASSUME NEW k \in Nat, NEW i \in Slots
  PROVE  ((k * Size) + i) \div Size = k /\ ((k * Size) + i) % Size = i
BY LogAssumption DEF LogAssumption, Slots

\* Products with Size, for provers that do not multiply.
LEMMA Products ==
  ASSUME NEW j \in Nat, NEW k \in Nat
  PROVE  /\ j * Size \in Nat /\ (j - 1) * Size = (j * Size) - Size
         /\ (j + 1) * Size = (j * Size) + Size
         /\ j < k => (j * Size) + Size <= k * Size
         /\ j <= k => j * Size <= k * Size
<1>. USE LogAssumption DEF LogAssumption
<1>1. j * Size \in Nat /\ (j - 1) * Size = (j * Size) - Size
      /\ (j + 1) * Size = (j * Size) + Size
  OBVIOUS
<1>2. j < k => (j * Size) + Size <= k * Size
  OBVIOUS
<1>3. j <= k => j * Size <= k * Size
  OBVIOUS
<1>. QED  BY <1>1, <1>2, <1>3

LEMMA SlotLinesHold == IInv => SlotLines
<1>. SUFFICES ASSUME IInv PROVE SlotLines
  OBVIOUS
<1>1. ASSUME NEW b \in 1..Len(slots), NEW i \in Slots, slots[b][i] # NoLine
      PROVE  LineAt(b, i) = slots[b][i]
  BY <1>1 DEF LineAt
<1>2. ASSUME NEW t \in Threads, pc[t] \in {"claimed", "loaded"}
      PROVE  LineAt(writeBuffer, index[t]) = Line(t)
  <2>1. slots[writeBuffer][index[t]] = NoLine
    BY <1>2 DEF IInv, SlotsHeld, Holds
  <2>2. ASSUME NEW u \in Threads, pc[u] \in {"claimed", "loaded"}, index[u] = index[t]
        PROVE  u = t
    BY <1>2, <2>2 DEF IInv, SlotsHeld, Holds
  <2>3. t = CHOOSE u \in Threads : pc[u] \in {"claimed", "loaded"} /\ index[u] = index[t]
    BY <1>2, <2>2
  <2>. QED  BY <2>1, <2>3 DEF LineAt
<1>. QED  BY <1>1, <1>2 DEF SlotLines

LEMMA PlacesHold == IInv => Places
<1>. SUFFICES ASSUME IInv PROVE Places
  OBVIOUS
<1>. USE DEF IInv
<1>. DEFINE Last == IF HasSlot THEN writeIndex ELSE Size
<1>1. /\ Last \in 0..Size /\ Size \in Nat /\ Size - 1 \in Slots
      /\ freed \in Nat /\ Enlisted \in Nat /\ freed <= Enlisted
      /\ writeBuffer \in Nat /\ readIndex \in Slots
  <2>1. Len(buffers) \in Nat
    BY LenProperties DEF TypeOK
  <2>2. Size \in Nat \ {0} /\ writeIndex \in Nat /\ freed \in Nat
    BY Basics DEF TypeOK
  <2>3. Last \in 0..Size
    BY <2>2 DEF HasSlot
  <2>4. writeBuffer \in Nat /\ readIndex \in Slots
    BY DEF TypeOK, Slots
  <2>5. Enlisted \in Nat /\ freed <= Enlisted
    BY <2>1, <2>2 DEF Enlisted
  <2>6. Size - 1 \in Slots
    BY <2>2 DEF Slots
  <2>. QED  BY <2>2, <2>3, <2>4, <2>5, <2>6
<1>2. ASSUME Enlisted # writeBuffer \/ Full(writeBuffer)
      PROVE  Last = Size
  <2>1. CASE Enlisted # writeBuffer
    BY <2>1, Basics DEF QueueInOrder, OneChanges, Changes, HasSlot
  <2>2. CASE Full(writeBuffer)
    BY <1>1, <2>2, Basics DEF SlotsFilled, Full, HasSlot
  <2>. QED  BY <1>2, <2>1, <2>2
<1>3. EndPending = (Enlisted * Size) - Size + Last /\ EndPending \in Int
      /\ Enlisted * Size \in Nat
  BY <1>1, Products DEF EndPending
<1>4. EndPending <= Enlisted * Size
  BY <1>1, <1>3
<1>5. FirstPending \in Nat /\ FirstPending >= freed * Size /\ freed * Size \in Nat
  BY <1>1, Products DEF FirstPending, Slots
<1>6. FirstPending <= EndPending
  <2>1. CASE Last = Size
    <3>1. EndPending = Enlisted * Size
      BY <1>1, <1>3, <2>1
    <3>2. cpc = "dropping" \/ readBuffer # NoBuffer => freed < Enlisted
      <4>1. Len(buffers) \in Nat
        BY LenProperties DEF TypeOK
      <4>. QED  BY <1>1, <4>1 DEF ReadsFront, Enlisted
    <3>3. cpc # "dropping" /\ readBuffer = NoBuffer => readIndex = 0
      BY DEF ReadsFront
    <3>4. freed < Enlisted => freed * Size + Size <= Enlisted * Size
      BY <1>1, Products
    <3>5. freed * Size <= Enlisted * Size
      BY <1>1, Products
    <3>6. (freed + 1) * Size = freed * Size + Size
      BY <1>1, Products
    <3>. QED
      BY <1>1, <1>3, <1>5, <3>1, <3>2, <3>3, <3>4, <3>5, <3>6 DEF FirstPending, Slots
  <2>2. CASE Last # Size
    <3>1. Enlisted = writeBuffer /\ ~Full(writeBuffer)
      BY <1>2, <2>2
    <3>2. freed < Enlisted
      BY <1>1, <3>1 DEF CountsRight, TypeOK
    <3>3. writeIndex = Last /\ Enlisted * Size - Size <= EndPending
      BY <1>1, <1>3, <2>2 DEF HasSlot
    <3>4. CASE freed + 1 < Enlisted
      <4>1. (freed + 1) * Size + Size <= Enlisted * Size
            /\ (freed + 1) * Size = freed * Size + Size
        BY <1>1, <3>4, Products
      <4>. QED
        BY <1>1, <1>3, <1>5, <3>3, <4>1 DEF FirstPending, Slots
    <3>5. CASE freed + 1 = Enlisted
      <4>1. Enlisted * Size = freed * Size + Size
        BY <1>1, <3>5, Products
      <4>2. cpc # "dropping"
        BY <3>1, <3>5 DEF ReadsFront
      <4>3. readIndex <= writeIndex
        <5>1. CASE readIndex = 0
          BY <5>1, Basics
        <5>2. CASE readIndex # 0
          <6>1. readBuffer = writeBuffer /\ readBuffer # NoBuffer
            BY <3>1, <3>5, <5>2 DEF ReadsFront
          <6>2. readIndex - 1 \in Slots /\ slots[writeBuffer][readIndex - 1] # NoLine
            BY <1>1, <5>2, <6>1 DEF ReadsFront, Slots
          <6>. QED  BY <1>1, <6>2, Basics DEF SlotsFilled, Slots
        <5>. QED  BY <5>1, <5>2
      <4>. QED
        BY <1>1, <1>3, <1>5, <3>3, <4>1, <4>2, <4>3, Basics DEF FirstPending, Slots
    <3>. QED  BY <1>1, <3>2, <3>4, <3>5
  <2>. QED  BY <2>1, <2>2
<1>7. ASSUME NEW p \in FirstPending..(EndPending - 1)
      PROVE  Taken((p \div Size) + 1, p % Size)
  <2>. DEFINE d == p \div Size
              i == p % Size
  <2>1. p \in Nat
    BY <1>3, <1>5
  <2>2. d \in Nat /\ i \in Slots /\ p = (d * Size) + i /\ d * Size \in Nat
    BY <2>1, DivMod
  <2>3. d >= freed
    <3>. SUFFICES ASSUME d < freed PROVE FALSE
      BY <1>1, <2>2
    <3>1. (d * Size) + Size <= freed * Size
      BY <1>1, <2>2, Products
    <3>. QED  BY <1>1, <1>3, <1>5, <2>2, <3>1 DEF Slots
  <2>4. d < Enlisted
    <3>. SUFFICES ASSUME Enlisted <= d PROVE FALSE
      BY <1>1, <2>2
    <3>1. Enlisted * Size <= d * Size
      BY <1>1, <2>2, Products
    <3>. QED  BY <1>1, <1>3, <1>4, <2>2, <3>1 DEF Slots
  <2>5. d + 1 \in (freed + 1)..Enlisted /\ d + 1 \in 1..Len(slots)
    BY <1>1, <2>2, <2>3, <2>4, EnlistedBuffers DEF QueueInOrder
  <2>6. CASE d + 1 < writeBuffer
    BY <2>2, <2>5, <2>6 DEF CountsRight, Full, Taken
  <2>7. CASE d + 1 = writeBuffer
    <3>1. Enlisted = writeBuffer
      BY <1>1, <2>2, <2>4, <2>7, EnlistedBuffers
    <3>2. Enlisted * Size = (d * Size) + Size
      BY <2>2, <2>7, <3>1, Products
    <3>3. i < Last
      BY <1>1, <1>3, <2>2, <3>2 DEF Slots
    <3>4. i < writeIndex
      BY <1>1, <2>2, <3>3, Basics DEF HasSlot, Slots
    <3>5. \A t \in Threads : pc[t] # "enlisting"
      BY <1>1, <3>1 DEF QueueInOrder
    <3>. QED  BY <2>2, <2>5, <2>7, <3>4, <3>5 DEF SlotsFilled, Taken
  <2>8. d + 1 <= writeBuffer
    BY <1>1, <2>2, <2>4, EnlistedBuffers
  <2>. QED  BY <1>1, <2>2, <2>6, <2>7, <2>8
<1>8. EndPending \in Nat
  BY <1>3, <1>5, <1>6
<1>. QED  BY <1>5, <1>6, <1>7, <1>8 DEF Places

\* The row as a sequence of lines, and what it is appended to.
LEMMA RowTypes ==
  ASSUME IInv
  PROVE  /\ Row \in Seq(Lines)
         /\ Len(Row) = EndPending - FirstPending
         /\ EndPending - FirstPending \in Nat
         /\ \A k \in 1..(EndPending - FirstPending) :
              Row[k] = SlotAt(FirstPending + k - 1)
         /\ Pending = (IF logline = NoLine THEN Row ELSE <<logline>> \o Row)
<1>. USE SlotLinesHold, PlacesHold
<1>. DEFINE n == EndPending - FirstPending
<1>1. n \in Nat /\ FirstPending \in Nat /\ EndPending \in Nat
  BY DEF Places
<1>2. ASSUME NEW k \in 1..n PROVE SlotAt(FirstPending + k - 1) \in Lines
  <2>. DEFINE p == FirstPending + k - 1
              b == (p \div Size) + 1
              i == p % Size
  <2>1. p \in FirstPending..(EndPending - 1)
    BY <1>1
  <2>2. Taken(b, i)
    BY <2>1 DEF Places
  <2>3. CASE slots[b][i] # NoLine
    BY <2>2, <2>3, SlotTypes DEF SlotLines, SlotAt, Taken, IInv
  <2>4. CASE slots[b][i] = NoLine
    <3>1. PICK t \in Threads : pc[t] \in {"claimed", "loaded"} /\ index[t] = i /\ b = writeBuffer
      BY <2>2, <2>4 DEF Taken
    <3>2. SlotAt(p) = Line(t)
      BY <3>1 DEF SlotLines, SlotAt
    <3>3. Line(t) \in Lines
      BY <3>1, LineTypes, Basics DEF IInv, Phases
    <3>. QED  BY <3>2, <3>3
  <2>. QED  BY <2>3, <2>4
<1>3. Row \in [1..n -> Lines]
  BY <1>2 DEF Row
<1>4. Row \in Seq(Lines) /\ Len(Row) = n
  BY <1>1, <1>3
<1>5. \A k \in 1..n : Row[k] = SlotAt(FirstPending + k - 1)
  BY DEF Row
<1>6. Pending = (IF logline = NoLine THEN <<>> ELSE <<logline>>) \o Row
  BY DEF Pending, Row, SlotAt
<1>7. <<>> \o Row = Row
  BY <1>4, ConcatEmptySeq
<1>. QED  BY <1>1, <1>4, <1>5, <1>6, <1>7

\* The same, after a step.
RowFacts ==
  /\ Row \in Seq(Lines)
  /\ Len(Row) = EndPending - FirstPending
  /\ EndPending - FirstPending \in Nat
  /\ \A k \in 1..(EndPending - FirstPending) :
       Row[k] = SlotAt(FirstPending + k - 1)
  /\ Pending = (IF logline = NoLine THEN Row ELSE <<logline>> \o Row)
  /\ SlotLines
  /\ Places

LEMMA AfterStep == IInv' => RowFacts'
<1>1. IInv => RowFacts
  BY RowTypes, SlotLinesHold, PlacesHold DEF RowFacts
<1>. QED  BY <1>1, PTL

\* A slot of the row stands for the same line after a step that moves no line.
LEMMA LinesStay ==
  ASSUME IInv, IInv',
         \A b \in 1..Len(slots), i \in Slots :
           slots[b][i] # NoLine =>
             b \in 1..Len(slots') /\ slots'[b][i] = slots[b][i],
         \A t \in Threads :
           pc[t] \in {"claimed", "loaded"} =>
             /\ logged'[t] = logged[t] /\ index'[t] = index[t]
             /\ writeBuffer' = writeBuffer /\ Len(slots') = Len(slots)
             /\ \/ pc'[t] \in {"claimed", "loaded"}
                \/ slots'[writeBuffer][index[t]] = Line(t)
  PROVE  \A p \in FirstPending..(EndPending - 1) : SlotAt(p)' = SlotAt(p)
<1>. SUFFICES ASSUME NEW p \in FirstPending..(EndPending - 1)
              PROVE  SlotAt(p)' = SlotAt(p)
  OBVIOUS
<1>. DEFINE b == (p \div Size) + 1
            i == p % Size
<1>. SUFFICES LineAt(b, i)' = LineAt(b, i)
  BY DEF SlotAt
<1>1. SlotLines /\ SlotLines'
  BY SlotLinesHold, AfterStep DEF RowFacts
<1>2. Taken(b, i)
  BY PlacesHold DEF Places
<1>3. b \in 1..Len(slots) /\ i \in Slots
  BY <1>2 DEF Taken
<1>4. CASE slots[b][i] # NoLine
  BY <1>1, <1>3, <1>4 DEF SlotLines
<1>5. CASE slots[b][i] = NoLine
  <2>1. PICK t \in Threads : pc[t] \in {"claimed", "loaded"} /\ index[t] = i /\ b = writeBuffer
    BY <1>2, <1>5 DEF Taken
  <2>2. LineAt(b, i) = Line(t) /\ Line(t)' = Line(t) /\ Line(t) # NoLine
    BY <1>1, <2>1, LineTypes, Basics DEF SlotLines, Line, IInv, Phases
  <2>3. CASE pc'[t] \in {"claimed", "loaded"}
    BY <1>1, <2>1, <2>2, <2>3 DEF SlotLines
  <2>4. CASE slots'[writeBuffer][index[t]] = Line(t)
    BY <1>1, <1>3, <2>1, <2>2, <2>4 DEF SlotLines
  <2>. QED  BY <2>1, <2>3, <2>4
<1>. QED  BY <1>4, <1>5

Accepted ==
  [t \in Threads |-> logged[t] - (IF pc[t] \in {"pushing", "spinning"} THEN 1 ELSE 0)]

\* What Log sees of a step.
Unseen == UNCHANGED <<Accepted, Pending, handed>>

\* If neither the lines nor the ends of the row move, nothing is seen.
LEMMA RowStays ==
  ASSUME IInv, IInv', UNCHANGED <<FirstPending, EndPending, logline>>,
         \A p \in FirstPending..(EndPending - 1) : SlotAt(p)' = SlotAt(p)
  PROVE  Pending' = Pending
<1>1. RowFacts /\ RowFacts'
  BY RowTypes, SlotLinesHold, PlacesHold, AfterStep DEF RowFacts
<1>2. FirstPending \in Nat /\ EndPending \in Nat
  BY PlacesHold DEF Places
<1>3. ASSUME NEW k \in 1..(EndPending - FirstPending)
      PROVE  Row'[k] = Row[k]
  <2>1. FirstPending + k - 1 \in FirstPending..(EndPending - 1)
    BY <1>2
  <2>2. Row[k] = SlotAt(FirstPending + k - 1)
    BY <1>1 DEF RowFacts
  <2>3. Row'[k] = SlotAt(FirstPending + k - 1)'
    BY <1>1 DEF RowFacts
  <2>. QED  BY <2>1, <2>2, <2>3
<1>4. Row' = Row
  BY <1>1, <1>3, SeqEqual DEF RowFacts
<1>. QED  BY <1>1, <1>4 DEF RowFacts

LEMMA ProducersUnseen ==
  ASSUME IInv, IInv', NEW t \in Threads,
         \/ Start(t) \/ Spin(t) \/ Load(t) \/ Count(t)
         \/ Claim(t) /\ ~HasSlot
  PROVE  Unseen
<1>. USE DEF IInv
<1>1. /\ UNCHANGED <<slots, handed, logline, freed, buffers, cpc, readIndex, writeBuffer>>
      /\ UNCHANGED FirstPending
  BY DEF Start, Spin, Load, Count, Claim, consumer, shared, FirstPending
<1>2. UNCHANGED EndPending
  BY <1>1, Basics DEF Start, Spin, Load, Count, Claim, shared, EndPending, HasSlot, Enlisted
<1>3. \A u \in Threads :
        pc[u] \in {"claimed", "loaded"} =>
          /\ logged'[u] = logged[u] /\ index'[u] = index[u]
          /\ pc'[u] \in {"claimed", "loaded"}
  BY Basics DEF Start, Spin, Load, Count, Claim, Goto
<1>4. \A p \in FirstPending..(EndPending - 1) : SlotAt(p)' = SlotAt(p)
  BY <1>1, <1>3, LinesStay
<1>5. Pending' = Pending
  BY <1>1, <1>2, <1>4, RowStays
<1>6. Accepted' = Accepted
  <2>1. CASE Start(t)
    BY <2>1, Basics DEF Start, Goto, Accepted
  <2>2. CASE Spin(t)
    BY <2>2, Basics DEF Spin, Goto, Accepted
  <2>3. CASE Load(t)
    BY <2>3, Basics DEF Load, Goto, Accepted
  <2>4. CASE Count(t)
    BY <2>4, Basics DEF Count, Goto, Accepted
  <2>5. CASE Claim(t) /\ ~HasSlot
    BY <2>5, Basics DEF Claim, Goto, Accepted
  <2>. QED  BY <2>1, <2>2, <2>3, <2>4, <2>5
<1>. QED  BY <1>1, <1>5, <1>6 DEF Unseen

LEMMA StoreUnseen ==
  ASSUME IInv, IInv', NEW t \in Threads, Store(t)
  PROVE  Unseen
<1>. USE DEF IInv
<1>1. /\ pc[t] = "loaded" /\ index[t] \in Slots /\ target[t] = writeBuffer
      /\ pc' = [pc EXCEPT ![t] = "stored"]
      /\ slots[writeBuffer][index[t]] = NoLine
      /\ writeBuffer \in 1..Len(slots)
      /\ \A u \in Threads \ {t} : Holds(u) => index[u] # index[t]
      /\ UNCHANGED <<logged, index, count, buffers, writeBuffer, writeIndex,
                     freed, readBuffer, readIndex, cpc, logline, handed>>
  BY FreedBuffer DEF Store, Goto, consumer, SlotsHeld, Holds
<1>2. /\ Len(slots') = Len(slots)
      /\ \A b \in 1..Len(slots), i \in Slots :
           slots'[b][i] = IF b = writeBuffer /\ i = index[t] THEN Line(t)
                          ELSE slots[b][i]
  <2>1. slots \in Seq([Slots -> Lines \cup {NoLine}])
    BY DEF TypeOK, Slots
  <2>2. \A b \in 1..Len(slots) : slots[b] \in [Slots -> Lines \cup {NoLine}]
    BY SlotTypes
  <2>3. slots' = [slots EXCEPT ![writeBuffer][index[t]] = Line(t)]
    BY <1>1 DEF Store
  <2>. QED  BY <1>1, <2>1, <2>2, <2>3, LenProperties
<1>3. \A b \in 1..Len(slots), i \in Slots :
        slots[b][i] # NoLine =>
          b \in 1..Len(slots') /\ slots'[b][i] = slots[b][i]
  BY <1>1, <1>2
<1>4. \A u \in Threads :
        pc[u] \in {"claimed", "loaded"} =>
          \/ pc'[u] \in {"claimed", "loaded"}
          \/ slots'[writeBuffer][index[u]] = Line(u)
  BY <1>1, <1>2, Basics
<1>5. \A p \in FirstPending..(EndPending - 1) : SlotAt(p)' = SlotAt(p)
  BY <1>1, <1>2, <1>3, <1>4, LinesStay
<1>6. UNCHANGED <<FirstPending, EndPending>>
  BY <1>1 DEF FirstPending, EndPending, Enlisted, HasSlot
<1>7. Pending' = Pending
  BY <1>1, <1>5, <1>6, RowStays
<1>8. Accepted' = Accepted
  BY <1>1, Basics DEF Accepted
<1>. QED  BY <1>1, <1>7, <1>8 DEF Unseen

LEMMA ReplaceUnseen ==
  ASSUME IInv, IInv', NEW t \in Threads, Install(t) \/ Enlist(t)
  PROVE  Unseen
<1>. USE DEF IInv
<1>1. /\ Changes(t) /\ writeIndex >= Size
      /\ \E s \in Labels \ {"pushing", "spinning"} : pc' = [pc EXCEPT ![t] = s]
      /\ UNCHANGED <<logged, index, freed, readIndex, cpc, logline, handed>>
  BY DEF Install, Enlist, Goto, consumer, OneChanges, Changes, Labels
<1>2. \A u \in Threads : ~(pc[u] \in {"claimed", "loaded"})
  BY <1>1 DEF SlotsHeld, Holds
<1>3. \A b \in 1..Len(slots) : b \in 1..Len(slots') /\ slots'[b] = slots[b]
  <2>1. CASE Install(t)
    <3>1. slots \in Seq([Slots -> Lines \cup {NoLine}])
      BY DEF TypeOK, Slots
    <3>. QED
      BY <2>1, <3>1, EmptyType, AppendProperties, LenProperties DEF Install
  <2>2. CASE Enlist(t)
    BY <2>2 DEF Enlist
  <2>. QED  BY <2>1, <2>2
<1>4. \A p \in FirstPending..(EndPending - 1) : SlotAt(p)' = SlotAt(p)
  BY <1>2, <1>3, LinesStay
<1>5. UNCHANGED FirstPending
  BY <1>1 DEF FirstPending
<1>6. UNCHANGED EndPending
  <2>1. CASE Install(t)
    BY <2>1 DEF Install, EndPending, Enlisted, HasSlot
  <2>2. CASE Enlist(t)
    <3>1. Len(buffers') = Len(buffers) + 1 /\ Len(buffers) \in Nat
      <4>1. buffers \in Seq(1..Len(slots)) /\ target[t] \in 1..Len(slots)
        BY <2>2 DEF TypeOK, Enlist, OneChanges, Changes
      <4>. QED  BY <2>2, <4>1, AppendProperties, LenProperties DEF Enlist
    <3>2. Enlisted' = Enlisted + 1 /\ Enlisted \in Nat
      BY <1>1, <3>1, Basics DEF Enlisted
    <3>3. writeIndex' = 0
      BY <2>2 DEF Enlist, Reopen
    <3>4. EndPending = (Enlisted - 1) * Size + Size
      BY <1>1, Basics DEF EndPending, HasSlot
    <3>5. EndPending' = (Enlisted' - 1) * Size + 0
      BY <3>3, Basics DEF EndPending, HasSlot
    <3>6. (Enlisted - 1) * Size = Enlisted * Size - Size /\ Enlisted * Size \in Nat
      BY <3>2, Products
    <3>7. Enlisted' - 1 = Enlisted
      BY <3>2
    <3>. QED  BY <3>4, <3>5, <3>6, <3>7, Basics
  <2>. QED  BY <2>1, <2>2
<1>7. Pending' = Pending
  BY <1>1, <1>4, <1>5, <1>6, RowStays
<1>8. Accepted' = Accepted
  BY <1>1, Basics DEF Accepted, Changes
<1>. QED  BY <1>1, <1>7, <1>8 DEF Unseen

\* A claim that gets a slot puts the line at the end of the row.
LEMMA ClaimSeen ==
  ASSUME IInv, IInv', NEW t \in Threads, Claim(t), HasSlot
  PROVE  /\ Accepted' = [Accepted EXCEPT ![t] = @ + 1]
         /\ Pending' = Append(Pending, <<t, Accepted'[t]>>)
         /\ UNCHANGED handed
<1>. USE DEF IInv
<1>1. /\ pc[t] = "pushing" /\ pc' = [pc EXCEPT ![t] = "claimed"]
      /\ index' = [index EXCEPT ![t] = writeIndex]
      /\ writeIndex' = writeIndex + 1
      /\ UNCHANGED <<logged, slots, buffers, writeBuffer, freed, readBuffer,
                     readIndex, cpc, logline, handed>>
  BY DEF Claim, Goto, consumer
<1>2. /\ writeIndex \in Slots /\ Size \in Nat /\ writeIndex \in Nat
      /\ \A u \in Threads : pc[u] # "enlisting"
  BY Basics DEF HasSlot, Slots, OneChanges, Changes
<1>3. Enlisted = writeBuffer /\ writeBuffer \in 1..Len(slots)
  BY <1>2, FreedBuffer DEF QueueInOrder
<1>4. Accepted' = [Accepted EXCEPT ![t] = @ + 1] /\ <<t, Accepted'[t]>> = Line(t)'
  <2>1. Accepted[t] = logged[t] - 1 /\ Accepted'[t] = logged[t]
    BY <1>1, Basics DEF Accepted
  <2>2. \A u \in Threads \ {t} : Accepted'[u] = Accepted[u]
    BY <1>1, Basics DEF Accepted
  <2>3. Accepted' = [u \in Threads |-> IF u = t THEN Accepted[u] + 1 ELSE Accepted[u]]
    BY <2>1, <2>2, Basics DEF Accepted
  <2>4. Accepted' = [Accepted EXCEPT ![t] = @ + 1]
    BY <2>3 DEF Accepted
  <2>. QED  BY <1>1, <2>1, <2>4 DEF Line
<1>5. /\ EndPending = ((writeBuffer - 1) * Size) + writeIndex
      /\ EndPending' = EndPending + 1
      /\ EndPending \in Nat /\ FirstPending \in Nat /\ FirstPending <= EndPending
  <2>1. EndPending = ((writeBuffer - 1) * Size) + writeIndex
    BY <1>3 DEF EndPending, HasSlot
  <2>2. EndPending' = ((writeBuffer - 1) * Size) + (writeIndex + 1)
    <3>1. Enlisted' = writeBuffer
      BY <1>1, <1>3 DEF Enlisted
    <3>2. (IF writeIndex' < Size THEN writeIndex' ELSE Size) = writeIndex + 1
      BY <1>1, <1>2 DEF Slots
    <3>. QED  BY <1>1, <3>1, <3>2 DEF EndPending, HasSlot
  <2>3. (writeBuffer - 1) * Size \in Int
    BY <1>2, Basics
  <2>. QED  BY <1>2, <2>1, <2>2, <2>3, PlacesHold DEF Places
<1>6. FirstPending' = FirstPending
  BY <1>1 DEF FirstPending
<1>7. \A p \in FirstPending..(EndPending - 1) : SlotAt(p)' = SlotAt(p)
  <2>1. \A u \in Threads :
          pc[u] \in {"claimed", "loaded"} =>
            index'[u] = index[u] /\ pc'[u] \in {"claimed", "loaded"}
    BY <1>1, Basics
  <2>. QED  BY <1>1, <2>1, LinesStay
<1>8. PICK e \in Nat, w \in Nat, i \in Slots :
        e = EndPending /\ w = writeBuffer /\ i = writeIndex
  BY <1>2, <1>5, Basics
<1>9. SlotAt(e)' = Line(t)'
  <2>1. LineAt(w, i)' = Line(t)'
    BY <1>1, <1>8, Basics, AfterStep DEF RowFacts, SlotLines
  <2>2. e = ((w - 1) * Size) + i /\ w - 1 \in Nat
    BY <1>3, <1>5, <1>8
  <2>3. e \div Size = w - 1 /\ e % Size = i
    BY <2>2, DivModUnique
  <2>4. (e \div Size) + 1 = w
    BY <2>3
  <2>. QED  BY <2>1, <2>3, <2>4 DEF SlotAt
<1>10. Row' = Append(Row, Line(t)')
  <2>. DEFINE n == EndPending - FirstPending
  <2>1. /\ Row \in Seq(Lines) /\ Len(Row) = n /\ n \in Nat
        /\ Row' \in Seq(Lines) /\ Len(Row') = n + 1
        /\ \A k \in 1..n : Row[k] = SlotAt(FirstPending + k - 1)
    BY <1>5, <1>6, RowTypes, AfterStep DEF RowFacts
  <2>2. ASSUME NEW k \in 1..n PROVE Row'[k] = Row[k]
    <3>1. FirstPending + k - 1 \in FirstPending..(EndPending - 1)
      BY <1>5
    <3>2. PICK p \in FirstPending..(EndPending - 1) : p = FirstPending + k - 1
      BY <3>1
    <3>3. Row'[k] = SlotAt(p)'
      BY <1>5, <1>6, <3>2, AfterStep DEF RowFacts
    <3>. QED  BY <1>7, <2>1, <3>2, <3>3
  <2>3. Row'[n + 1] = Line(t)'
    <3>1. e = FirstPending' + (n + 1) - 1 /\ n + 1 \in 1..(EndPending' - FirstPending')
      BY <1>5, <1>6, <1>8
    <3>2. Row'[n + 1] = SlotAt(e)'
      BY <3>1, AfterStep DEF RowFacts
    <3>. QED  BY <1>9, <3>2
  <2>4. Line(t)' \in Lines
    BY <1>1, LineTypes, Basics DEF Line, Phases
  <2>5. /\ Append(Row, Line(t)') \in Seq(Lines) /\ Len(Append(Row, Line(t)')) = n + 1
        /\ \A k \in 1..n : Append(Row, Line(t)')[k] = Row[k]
        /\ Append(Row, Line(t)')[n + 1] = Line(t)'
    BY <2>1, <2>4, AppendProperties
  <2>6. \A k \in 1..(n + 1) : Row'[k] = Append(Row, Line(t)')[k]
    BY <2>1, <2>2, <2>3, <2>5
  <2>. QED  BY <2>1, <2>5, <2>6, SeqEqual
<1>11. Pending' = Append(Pending, Line(t)')
  <2>1. /\ Pending = (IF logline = NoLine THEN Row ELSE <<logline>> \o Row)
        /\ Pending' = (IF logline = NoLine THEN Row' ELSE <<logline>> \o Row')
        /\ Row \in Seq(Lines)
    BY <1>1, RowTypes, AfterStep DEF RowFacts
  <2>2. Line(t)' \in Lines
    BY <1>1, LineTypes, Basics DEF Line, Phases
  <2>3. CASE logline = NoLine
    BY <1>10, <2>1, <2>3
  <2>4. CASE logline # NoLine
    <3>1. <<logline>> \in Seq(Lines) /\ <<Line(t)'>> \in Seq(Lines)
      BY <2>2, <2>4 DEF TypeOK
    <3>2. /\ Append(Row, Line(t)') = Row \o <<Line(t)'>>
          /\ Append(<<logline>> \o Row, Line(t)') = (<<logline>> \o Row) \o <<Line(t)'>>
      BY <2>1, <2>2, <3>1, AppendIsConcat, ConcatProperties
    <3>3. (<<logline>> \o Row) \o <<Line(t)'>> = <<logline>> \o (Row \o <<Line(t)'>>)
      BY <2>1, <3>1, ConcatAssociative
    <3>. QED  BY <1>10, <2>1, <2>4, <3>2, <3>3
  <2>. QED  BY <2>3, <2>4
<1>. QED  BY <1>1, <1>4, <1>11

\* The logging thread finds nothing, or its state changes: nothing is seen.
LEMMA OthersUnseen ==
  ASSUME IInv, IInv',
         \/ UNCHANGED vars \/ Initialize \/ Shutdown
         \/ CheckReady \/ CheckShutdown \/ PopNothing \/ FetchBuffer
  PROVE  Unseen
<1>. USE DEF IInv
<1>1. /\ UNCHANGED <<slots, handed, logline, freed, buffers, readIndex, writeIndex,
                     writeBuffer, logged, index, pc>>
      /\ cpc' = "dropping" <=> cpc = "dropping"
  BY DEF vars, producer, consumer, shared, Initialize, Shutdown, CheckReady,
         CheckShutdown, PopNothing, FetchBuffer, NothingFound, Drain
<1>2. UNCHANGED <<FirstPending, EndPending>>
  BY <1>1 DEF FirstPending, EndPending, Enlisted, HasSlot
<1>3. \A p \in FirstPending..(EndPending - 1) : SlotAt(p)' = SlotAt(p)
  BY <1>1, LinesStay
<1>4. Pending' = Pending
  BY <1>1, <1>2, <1>3, RowStays
<1>. QED  BY <1>1, <1>4 DEF Unseen, Accepted

LEMMA DropUnseen ==
  ASSUME IInv, IInv', DropBuffer
  PROVE  Unseen
<1>. USE DEF IInv
<1>1. /\ cpc = "dropping" /\ cpc' = "writing" /\ freed' = freed + 1
      /\ readIndex' = 0
      /\ buffers # <<>> /\ buffers \in Seq(1..Len(slots)) /\ buffers' = Tail(buffers)
      /\ UNCHANGED <<slots, handed, logline, writeIndex, writeBuffer, logged,
                     index, pc>>
  BY DEF DropBuffer, producer, ReadsFront, TypeOK
<1>2. UNCHANGED FirstPending
  <2>1. FirstPending = (freed + 1) * Size /\ FirstPending' = (freed + 1) * Size + 0
    BY <1>1 DEF FirstPending
  <2>2. (freed + 1) * Size \in Nat
    <3>1. freed + 1 \in Nat
      BY Basics
    <3>. QED  BY <3>1, Products
  <2>. QED  BY <2>1, <2>2
<1>3. UNCHANGED EndPending
  <2>1. Len(buffers') = Len(buffers) - 1 /\ Len(buffers) \in Nat
    BY <1>1, HeadTailProperties, LenProperties
  <2>2. Enlisted' = Enlisted
    BY <1>1, <2>1, Basics DEF Enlisted
  <2>. QED  BY <1>1, <2>2 DEF EndPending, HasSlot
<1>4. \A p \in FirstPending..(EndPending - 1) : SlotAt(p)' = SlotAt(p)
  BY <1>1, LinesStay
<1>5. Pending' = Pending
  BY <1>1, <1>2, <1>3, <1>4, RowStays
<1>. QED  BY <1>1, <1>5 DEF Unseen, Accepted

\* The line that is popped is the first of the row, and still pending.
LEMMA PopUnseen ==
  ASSUME IInv, IInv', PopLine
  PROVE  Unseen
<1>. USE DEF IInv
<1>1. /\ cpc = "popping" /\ readBuffer = freed + 1 /\ readBuffer \in 1..Len(slots)
      /\ readIndex \in Slots /\ logline = NoLine
      /\ slots[readBuffer][readIndex] # NoLine
      /\ logline' = slots[readBuffer][readIndex]
      /\ UNCHANGED <<slots, handed, freed, buffers, writeIndex, writeBuffer,
                     logged, index, pc>>
  BY DEF PopLine, producer, shared, ReadsFront, Phases, TypeOK, NoBuffer, Slots
<1>2. logline' \in Lines /\ logline' # NoLine
  BY <1>1, SlotTypes
<1>3. /\ FirstPending = (freed * Size) + readIndex /\ FirstPending \in Nat
      /\ FirstPending' = FirstPending + 1
  <2>1. FirstPending = (freed * Size) + readIndex
    BY <1>1 DEF FirstPending
  <2>2. /\ freed * Size \in Nat /\ (freed + 1) * Size = (freed * Size) + Size
    BY Basics, Products
  <2>3. readIndex \in Nat /\ Size \in Nat
    BY <1>1, Basics DEF Slots
  <2>4. CASE readIndex + 1 = Size
    <3>1. FirstPending' = (freed + 1) * Size
      BY <1>1, <2>4 DEF PopLine, ReadAll, FirstPending
    <3>. QED  BY <2>1, <2>2, <2>3, <2>4, <3>1
  <2>5. CASE readIndex + 1 # Size
    <3>1. FirstPending' = (freed * Size) + (readIndex + 1)
      BY <1>1, <2>5 DEF PopLine, ReadAll, FirstPending
    <3>. QED  BY <2>1, <2>2, <2>3, <2>5, <3>1
  <2>. QED  BY <2>1, <2>2, <2>3, <2>4, <2>5
<1>4. EndPending' = EndPending /\ EndPending \in Nat
  BY <1>1, PlacesHold DEF EndPending, Enlisted, HasSlot, Places
<1>5. FirstPending' <= EndPending
  BY <1>4, AfterStep DEF RowFacts, Places
<1>6. \A p \in FirstPending..(EndPending - 1) : SlotAt(p)' = SlotAt(p)
  BY <1>1, LinesStay
<1>7. SlotAt(FirstPending) = logline'
  <2>1. (FirstPending \div Size) + 1 = freed + 1 /\ FirstPending % Size = readIndex
    BY <1>1, <1>3, Basics, DivModUnique
  <2>. QED  BY <1>1, <2>1, SlotLinesHold DEF SlotAt, SlotLines
<1>8. Row = <<logline'>> \o Row'
  <2>. DEFINE n == EndPending - FirstPending
              whole == <<logline'>> \o Row'
  <2>1. /\ Row \in Seq(Lines) /\ Len(Row) = n /\ n \in Nat \ {0}
        /\ Row' \in Seq(Lines) /\ Len(Row') = n - 1
        /\ \A k \in 1..n : Row[k] = SlotAt(FirstPending + k - 1)
    BY <1>3, <1>4, <1>5, RowTypes, AfterStep DEF RowFacts
  <2>2. <<logline'>> \in Seq(Lines) /\ Len(<<logline'>>) = 1 /\ <<logline'>>[1] = logline'
    BY <1>2
  <2>3. /\ whole \in Seq(Lines) /\ Len(whole) = 1 + (n - 1)
        /\ \A k \in 1..(1 + (n - 1)) :
             whole[k] = IF k <= 1 THEN <<logline'>>[k] ELSE Row'[k - 1]
    BY <2>1, <2>2, ConcatProperties
  <2>4. ASSUME NEW k \in 1..n PROVE Row[k] = whole[k]
    <3>1. CASE k = 1
      <4>1. FirstPending + k - 1 = FirstPending
        BY <1>3, <3>1
      <4>2. Row[k] = SlotAt(FirstPending)
        BY <2>1, <4>1
      <4>. QED  BY <1>7, <2>1, <2>2, <2>3, <3>1, <4>2
    <3>2. CASE k # 1
      <4>1. PICK p \in FirstPending..(EndPending - 1) :
              p = FirstPending + k - 1 /\ p = FirstPending' + (k - 1) - 1
        BY <1>3, <1>4, <3>2
      <4>2. k - 1 \in 1..(EndPending' - FirstPending')
        BY <1>3, <1>4, <3>2
      <4>3. Row'[k - 1] = SlotAt(p)'
        BY <4>1, <4>2, AfterStep DEF RowFacts
      <4>4. Row[k] = SlotAt(p)
        BY <2>1, <4>1
      <4>5. whole[k] = Row'[k - 1]
        BY <2>1, <2>3, <3>2
      <4>. QED  BY <1>6, <4>3, <4>4, <4>5
    <3>. QED  BY <3>1, <3>2
  <2>. QED  BY <2>1, <2>3, <2>4, SeqEqual
<1>9. Pending' = Pending
  BY <1>1, <1>2, <1>8, RowTypes, AfterStep DEF RowFacts
<1>. QED  BY <1>1, <1>9 DEF Unseen, Accepted

\* A write takes the first of the pending lines.
LEMMA WriteSeen ==
  ASSUME IInv, IInv', Write
  PROVE  /\ Pending # <<>>
         /\ handed' = Append(handed, Head(Pending))
         /\ Pending' = Tail(Pending)
         /\ UNCHANGED Accepted
<1>. USE DEF IInv
<1>1. /\ logline \in Lines /\ logline # NoLine /\ logline' = NoLine
      /\ handed' = Append(handed, logline)
      /\ cpc = "writing" /\ cpc' # "dropping"
      /\ UNCHANGED <<slots, freed, buffers, readIndex, writeIndex, writeBuffer,
                     logged, index, pc>>
  BY DEF Write, producer, shared, Phases, TypeOK, NextTurn
<1>2. UNCHANGED <<FirstPending, EndPending>>
  BY <1>1 DEF FirstPending, EndPending, Enlisted, HasSlot
<1>3. \A p \in FirstPending..(EndPending - 1) : SlotAt(p)' = SlotAt(p)
  BY <1>1, LinesStay
<1>4. Row' = Row
  <2>1. FirstPending \in Nat /\ EndPending \in Nat
    BY PlacesHold DEF Places
  <2>2. ASSUME NEW k \in 1..(EndPending - FirstPending) PROVE Row'[k] = Row[k]
    <3>1. PICK p \in FirstPending..(EndPending - 1) : p = FirstPending + k - 1
      BY <2>1
    <3>2. Row[k] = SlotAt(p)
      BY <3>1, RowTypes
    <3>3. Row'[k] = SlotAt(p)'
      BY <1>2, <3>1, AfterStep DEF RowFacts
    <3>. QED  BY <1>3, <3>2, <3>3
  <2>. QED  BY <1>2, <2>2, RowTypes, AfterStep, SeqEqual DEF RowFacts
<1>5. Pending = <<logline>> \o Row /\ Pending' = Row /\ Row \in Seq(Lines)
  BY <1>1, <1>4, RowTypes, AfterStep DEF RowFacts
<1>6. <<logline>> \in Seq(Lines) /\ Len(<<logline>>) = 1 /\ <<logline>>[1] = logline
  BY <1>1
<1>7. /\ Pending \in Seq(Lines) /\ Len(Pending) = Len(Row) + 1 /\ Len(Row) \in Nat
      /\ Pending[1] = logline
      /\ \A k \in 1..Len(Row) : Pending[k + 1] = Row[k]
  BY <1>5, <1>6, ConcatProperties, LenProperties
<1>8. Pending # <<>> /\ Head(Pending) = logline
  BY <1>7
<1>9. Tail(Pending) = Row
  BY <1>5, <1>7, <1>8, HeadTailProperties, SeqEqual
<1>. QED  BY <1>1, <1>5, <1>8, <1>9 DEF Accepted

\* Every step of LogQueue is one of Log's or is not seen there.
LEMMA LogStep ==
  ASSUME IInv, [Next /\ InTime']_vars
  PROVE  [AbstractLog!Next]_(AbstractLog!vars)
<1>1. IInv'
  BY IStep
<1>2. CASE Unseen
  BY <1>2 DEF Unseen, Accepted, AbstractLog!vars
<1>3. CASE Write
  <2>1. AbstractLog!Write
    BY <1>1, <1>3, WriteSeen DEF AbstractLog!Write, Accepted
  <2>. QED  BY <2>1 DEF AbstractLog!Next
<1>4. ASSUME NEW t \in Threads, Claim(t), HasSlot
      PROVE  AbstractLog!Next
  <2>1. AbstractLog!Accept(t)
    BY <1>1, <1>4, ClaimSeen DEF AbstractLog!Accept, Accepted
  <2>. QED  BY <2>1 DEF AbstractLog!Next
<1>5. ASSUME NEW t \in Threads, Start(t) \/ Push(t), ~(Claim(t) /\ HasSlot)
      PROVE  Unseen
  BY <1>1, <1>5, ProducersUnseen, StoreUnseen, ReplaceUnseen DEF Push
<1>6. CASE Pop /\ ~Write
  BY <1>1, <1>2, <1>6, OthersUnseen, DropUnseen, PopUnseen DEF Pop
<1>7. CASE UNCHANGED vars \/ Initialize \/ Shutdown \/ Exited
  BY <1>1, <1>2, <1>7, OthersUnseen DEF Exited
<1>. QED  BY <1>2, <1>3, <1>4, <1>5, <1>6, <1>7 DEF Next, Push

LEMMA LogInit == Init => AbstractLog!Init
<1>. SUFFICES ASSUME Init PROVE AbstractLog!Init
  OBVIOUS
<1>1. IInv
  BY IInit
<1>2. /\ logged = [t \in Threads |-> 0] /\ pc = [t \in Threads |-> "out"]
      /\ logline = NoLine /\ handed = <<>> /\ cpc = "starting"
      /\ freed = 0 /\ readIndex = 0 /\ writeIndex = 0 /\ Len(buffers) = 1
  BY DEF Init
<1>3. FirstPending = 0 * Size + 0 /\ EndPending = 0 * Size + 0
  BY <1>2, Basics, <1>1 DEF FirstPending, EndPending, Enlisted, HasSlot, IInv
<1>4. Pending = Row /\ Row \in Seq(Lines) /\ Len(Row) = 0
  BY <1>1, <1>2, <1>3, RowTypes
<1>5. Pending = <<>>
  BY <1>4, EmptySeq
<1>. QED  BY <1>2, <1>5 DEF AbstractLog!Init

\* If buffers are freed in time, the queue of buffers is one first-in first-out
\* queue: lines are handed to FileWriter::write() in the order in which their threads have claimed a slot, each once, whatever
\* order they are stored in, however many buffers they span, and whenever the
\* buffers are replaced and freed.
THEOREM QueueImplementsLog == TimelySpec => LogSpec
<1>1. IInv /\ [Next /\ InTime']_vars => IInv'
  BY IStep
<1>2. IInv /\ [Next /\ InTime']_vars => [AbstractLog!Next]_(AbstractLog!vars)
  BY LogStep
<1>. QED
  BY <1>1, <1>2, IInit, LogInit, PTL DEF TimelySpec, LogSpec, AbstractLog!Spec

=============================================================================
