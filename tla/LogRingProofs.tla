---------------------------- MODULE LogRingProofs ----------------------------
(***************************************************************************)
(* What is proved of LogRing for every number of threads, lines, days and  *)
(* slots, and wherever the indexes wrap.  Only KeepsUp needs a ring whose  *)
(* size divides the range of the indexes (IndexesFit).                     *)
(***************************************************************************)
EXTENDS LogRing, SequenceTheorems, TLAPS

\* `unsigned int' counts on past 2^32 with the slot that follows only if the
\* size of the ring divides 2^32, as every one that is a power of two does.
IndexesFit == \E n \in Nat : Wrap = n * Size

-----------------------------------------------------------------------------
(* The inductive invariants *)

Slots == 0..(Size - 1)

\* A thread in push() has a line, and the logging thread has one exactly between
\* its pop and its write.
HaveLines ==
  /\ \A t \in Threads : pc[t] # "out" => logged[t] > 0
  /\ logline # NoLine <=> cpc \in {"dating", "rolling", "writing"}

Types == TypeOK /\ HaveLines

\* No line in a file is of a day that is still to come, and a new line is only
\* written into a file that is as late as all lines before.
DaysKnown ==
  /\ day <= today
  /\ \A i \in DOMAIN file :
       file[i].time <= today /\ (cpc = "writing" => file[i].time <= day)

DaysInv == Types /\ DaysKnown /\ DaysInOrder

\* The lines whose push is over, and those that are in a file.
Pushed ==
  {line \in Lines :
     \/ line[2] < logged[line[1]]
     \/ line[2] = logged[line[1]] /\ pc[line[1]] = "out"}

InFile == {file[i].line : i \in DOMAIN file}

\* A line is in one place after its push, a slot, the logging thread, a file or
\* the lines that were overwritten, and in none before.
InOneSlot ==
  \A i \in Slots :
    ring[i] # NoLine =>
      /\ ring[i] \in Pushed
      /\ ring[i] # logline /\ ring[i] \notin dropped /\ ring[i] \notin InFile
      /\ \A j \in Slots : ring[j] = ring[i] => j = i

InThread ==
  logline # NoLine => logline \in Pushed \ (dropped \cup InFile)

InFileOrDropped == InFile \cup dropped \subseteq Pushed

OnceInv == Types /\ InOneSlot /\ InThread /\ InFileOrDropped /\ AtMostOnce

\* The lines that are in the ring or on their way into it, and the slot of each.
Window == (taken + 1)..Len(order)
SlotOf(k) == (k - 1) % Size

IndexesCount ==
  /\ taken <= Len(order) /\ Len(order) <= taken + Size
  /\ writeIndex = Len(order) % Wrap
  /\ readIndex = taken % Wrap

\* Who has claimed a slot finds it empty, and it is that of its line.
ClaimsInOrder ==
  \A t \in Threads :
    pc[t] = "claimed" =>
      /\ ring[slot[t]] = NoLine
      /\ \E k \in Window : order[k] = Line(t) /\ slot[t] = SlotOf(k)

\* A slot of the window has its line, or a thread that is about to put it there.
WindowFilled ==
  \A k \in Window :
    \/ ring[SlotOf(k)] = order[k]
    \/ \E t \in Threads :
         pc[t] = "claimed" /\ slot[t] = SlotOf(k) /\ Line(t) = order[k]

\* No other slot has one.
RestEmpty ==
  \A i \in Slots : ring[i] # NoLine => \E k \in Window : i = SlotOf(k)

\* The threads are done when the logger shuts down, and the logging thread ends
\* after that.
EndsLast ==
  /\ draining => state = "SHUTDOWN"
  /\ state = "SHUTDOWN" => \A t \in Threads : pc[t] = "out"
  /\ cpc = "ended" => state = "SHUTDOWN"

EndsEmpty == cpc = "ended" => taken = Len(order)

\* What has been popped is in the file, but for the line in hand.
InHand == IF logline = NoLine THEN 0 ELSE 1

WrittenInOrder ==
  /\ Len(file) = taken - InHand
  /\ \A i \in DOMAIN file : file[i].line = order[i]
  /\ logline # NoLine => logline = order[taken]

Held == IndexesCount /\ ClaimsInOrder /\ WindowFilled /\ RestEmpty

KeepsInv ==
  /\ Types
  /\ EndsLast
  /\ ~overrun => Held /\ EndsEmpty
  /\ ~overrun /\ ~failed => good /\ WrittenInOrder

-----------------------------------------------------------------------------
(* Types *)

\* The types of what is no sequence.
Scalars ==
  /\ state \in {"INIT", "READY", "SHUTDOWN"}
  /\ logged \in [Threads -> 0..MaxLines]
  /\ pc \in [Threads -> {"out", "pushing", "claimed"}]
  /\ slot \in [Threads -> Slots]
  /\ ring \in [Slots -> Lines \cup {NoLine}]
  /\ writeIndex \in 0..(Wrap - 1)
  /\ readIndex \in 0..(Wrap - 1)
  /\ cpc \in {"checking", "popping", "dating", "rolling", "writing", "ended"}
  /\ draining \in BOOLEAN /\ good \in BOOLEAN /\ console \in BOOLEAN
  /\ overrun \in BOOLEAN /\ failed \in BOOLEAN
  /\ logline \in Lines \cup {NoLine}
  /\ today \in 0..MaxDay /\ day \in 0..MaxDay
  /\ taken \in Nat
  /\ dropped \subseteq Lines

Sequences ==
  /\ file \in Seq([line : Lines, day : 0..MaxDay, time : 0..MaxDay])
  /\ order \in Seq(Lines)

LEMMA TypeParts == TypeOK <=> Scalars /\ Sequences
BY DEF TypeOK, Scalars, Sequences, Slots

LEMMA LineTypes ==
  ASSUME NEW line \in Lines
  PROVE  /\ line # NoLine
         /\ line[1] \in Threads /\ line[2] \in Nat
         /\ line = <<line[1], line[2]>>
BY RingAssumption DEF RingAssumption, Lines

LEMMA LineOf ==
  ASSUME Types, NEW t \in Threads, pc[t] # "out"
  PROVE  Line(t) \in Lines /\ Line(t)[1] = t /\ Line(t)[2] = logged[t]
<1>1. logged[t] \in 1..MaxLines
  BY RingAssumption, TypeParts DEF Types, Scalars, HaveLines, RingAssumption
<1>. QED  BY <1>1 DEF Lines, Line

LEMMA IndexTypes ==
  ASSUME NEW index \in 0..(Wrap - 1)
  PROVE  index % Size \in Slots /\ Increment(index) \in 0..(Wrap - 1)
BY RingAssumption DEF RingAssumption, Slots, Increment

LEMMA TypesInit == Init => Types
<1>. SUFFICES ASSUME Init PROVE Types
  OBVIOUS
<1>. USE RingAssumption DEF Init, RingAssumption
<1>1. good \in BOOLEAN /\ failed \in BOOLEAN
  BY Zenon
<1>1a. 0 \in 0..(Wrap - 1) /\ 0 \in 0..MaxDay /\ 0 \in 0..MaxLines /\ 0 \in Slots
  BY DEF Slots
<1>1b. Scalars
  BY <1>1, <1>1a DEF Scalars, Slots
<1>2. Sequences
  BY DEF Sequences
<1>3. HaveLines
  BY DEF HaveLines
<1>. QED  BY <1>1b, <1>2, <1>3, TypeParts DEF Types

LEMMA TypesStep == Types /\ [Next]_vars => Types'
<1>. SUFFICES ASSUME Types, [Next]_vars PROVE Types'
  OBVIOUS
<1>0. Scalars /\ Sequences /\ HaveLines
  BY TypeParts DEF Types
<1>a. SUFFICES Scalars' /\ Sequences' /\ HaveLines'
  BY TypeParts DEF Types, TypeOK, Scalars, Sequences, Slots
<1>1. CASE UNCHANGED vars \/ Exited
  BY <1>0, <1>1 DEF vars, producer, queue, thread, writer, clock, Exited,
     Scalars, Sequences, HaveLines
<1>2. CASE Initialize \/ Shutdown \/ Midnight \/ ConsoleCloses
  <2>1. /\ UNCHANGED <<producer, queue, thread, writer>>
        /\ state' \in {"INIT", "READY", "SHUTDOWN"}
        /\ today' \in 0..MaxDay /\ console' \in BOOLEAN
    <3>1. CASE Initialize \/ Shutdown
      BY <1>0, <3>1 DEF Initialize, Shutdown, clock, Scalars
    <3>2. CASE Midnight
      BY <1>0, <3>2, RingAssumption DEF Midnight, Scalars, RingAssumption
    <3>3. CASE ConsoleCloses
      BY <1>0, <3>3 DEF ConsoleCloses, Scalars
    <3>. QED  BY <1>2, <3>1, <3>2, <3>3
  <2>. QED  BY <1>0, <2>1 DEF producer, queue, thread, writer, Scalars,
            Sequences, HaveLines
<1>3. CASE CheckState \/ TakeNothing \/ CheckDay
  <2>1. /\ UNCHANGED <<state, producer, queue, logline, writer, clock>>
        /\ cpc' \in {"checking", "popping", "dating", "rolling", "writing", "ended"}
        /\ cpc' \in {"dating", "rolling", "writing"}
             <=> cpc \in {"dating", "rolling", "writing"}
        /\ draining' \in BOOLEAN
    BY <1>0, <1>3 DEF CheckState, TakeNothing, CheckDay, AfterShutdown, Scalars
  <2>. QED  BY <1>0, <2>1 DEF producer, queue, writer, clock, Scalars,
            Sequences, HaveLines
<1>4. CASE Take
  <2>1. Slot \in Slots /\ Increment(readIndex) \in 0..(Wrap - 1)
    BY <1>0, IndexTypes DEF Slot, Scalars
  <2>2. ring[Slot] \in Lines /\ NoLine \notin Lines
    BY <1>0, <1>4, <2>1, LineTypes DEF Take, Scalars
  <2>. QED  BY <1>0, <1>4, <2>1, <2>2 DEF Take, EmptySlot, Advance, producer,
            writer, clock, Scalars, Sequences, HaveLines
<1>5. CASE RollFile
  BY <1>0, <1>5 DEF RollFile, Today, producer, queue, clock, Scalars,
     Sequences, HaveLines
<1>6. CASE Write
  <2>1. logline \in Lines
    BY <1>0, <1>6 DEF Write, HaveLines, Scalars
  <2>2. Sequences'
    <3>. DEFINE Entries == [line : Lines, day : 0..MaxDay, time : 0..MaxDay]
                entry == [line |-> logline, day |-> day, time |-> today]
    <3>1. entry \in Entries /\ file \in Seq(Entries) /\ order \in Seq(Lines)
      BY <1>0, <2>1 DEF Scalars, Sequences
    <3>2. order' = order
      BY <1>6 DEF Write, queue
    <3>3. file' = Append(file, entry) \/ file' = file
      BY <1>6 DEF Write
    <3>4. file' \in Seq(Entries)
      <4>. HIDE DEF Entries, entry
      <4>. QED  BY <3>1, <3>3
    <3>. QED  BY <3>1, <3>2, <3>4 DEF Sequences
  <2>3. Scalars' /\ HaveLines'
    BY <1>0, <1>6 DEF Write, Writable, NextTurn, Scalars, HaveLines, producer,
       queue, clock
  <2>. QED  BY <2>2, <2>3
<1>7. ASSUME NEW t \in Threads, Start(t)
      PROVE  Scalars' /\ Sequences' /\ HaveLines'
  BY <1>0, <1>7, RingAssumption DEF Start, Goto, queue, thread, writer, clock,
     Scalars, Sequences, HaveLines, RingAssumption
<1>8. ASSUME NEW t \in Threads, Claim(t)
      PROVE  Scalars' /\ Sequences' /\ HaveLines'
  <2>1. Line(t) \in Lines
    BY <1>0, <1>8, LineOf DEF Claim, Types
  <2>2. writeIndex % Size \in Slots /\ Increment(writeIndex) \in 0..(Wrap - 1)
    BY <1>0, IndexTypes DEF Scalars
  <2>3. Sequences'
    BY <1>0, <1>8, <2>1 DEF Claim, writer, Sequences
  <2>4. overrun' \in BOOLEAN
    BY <1>8 DEF Claim
  <2>. QED  BY <1>0, <1>8, <2>2, <2>3, <2>4 DEF Claim, Goto, thread, writer,
            clock, Scalars, HaveLines
<1>9. ASSUME NEW t \in Threads, Put(t)
      PROVE  Scalars' /\ Sequences' /\ HaveLines'
  <2>1. Line(t) \in Lines /\ slot[t] \in Slots /\ ring[slot[t]] \in Lines \cup {NoLine}
    BY <1>0, <1>9, LineOf DEF Put, Types, Scalars
  <2>. QED  BY <1>0, <1>9, <2>1 DEF Put, Goto, thread, writer, clock, Scalars,
            Sequences, HaveLines
<1>. QED  BY <1>1, <1>2, <1>3, <1>4, <1>5, <1>6, <1>7, <1>8, <1>9 DEF Next, Pop, Push

\* Every variable of the ring, of the logging thread and of the writer keeps its
\* type; a slot of push() and of try_pop() in src/src/log/NanoLog.cpp is always
\* one of the ring, wherever the indexes wrap.
THEOREM RingTypes == Spec => []TypeOK
<1>1. Types => TypeOK
  BY DEF Types
<1>. QED  BY <1>1, TypesInit, TypesStep, PTL DEF Spec

-----------------------------------------------------------------------------
(* The files *)

Entry == [line |-> logline, day |-> day, time |-> today]

LEMMA FileTypes ==
  ASSUME Types
  PROVE  /\ Len(file) \in Nat /\ DOMAIN file = 1..Len(file)
         /\ \A i \in 1..Len(file) :
              /\ file[i].line \in Lines
              /\ file[i].day \in 0..MaxDay /\ file[i].time \in 0..MaxDay
<1>. DEFINE Entries == [line : Lines, day : 0..MaxDay, time : 0..MaxDay]
<1>1. file \in Seq(Entries)
  BY TypeParts DEF Types, Sequences
<1>2. \A e \in Entries :
        e.line \in Lines /\ e.day \in 0..MaxDay /\ e.time \in 0..MaxDay
  OBVIOUS
<1>3. /\ Len(file) \in Nat /\ DOMAIN file = 1..Len(file)
      /\ \A i \in 1..Len(file) : file[i] \in Entries
  <2>. HIDE DEF Entries
  <2>. QED  BY <1>1
<1>. QED  BY <1>2, <1>3

\* Only a write changes the files: it adds a line, or fails.
LEMMA WriteAdds ==
  ASSUME Types, Write
  PROVE  \/ file' = file
         \/ /\ DOMAIN file' = 1..(Len(file) + 1)
            /\ Len(file') = Len(file) + 1
            /\ \A i \in 1..Len(file) : file'[i] = file[i]
            /\ file'[Len(file) + 1] = Entry
<1>1. file' = file \/ file' = Append(file, Entry)
  BY DEF Write, Entry
<1>2. file \in Seq([line : Lines, day : 0..MaxDay, time : 0..MaxDay])
  BY TypeParts DEF Types, Sequences
<1>. HIDE DEF Entry
<1>. QED  BY <1>1, <1>2

LEMMA FilesKept ==
  ASSUME [Next]_vars
  PROVE  Write \/ UNCHANGED file
BY DEF Next, vars, writer, clock, Exited, Initialize, Shutdown, Midnight,
   ConsoleCloses, Pop, CheckState, Take, TakeNothing, CheckDay, RollFile,
   Start, Push, Claim, Put

\* The clock goes on, the day of the file follows it, and a line is written into
\* the file of a day that was the present one after the line before.
LEMMA DaysStep == DaysInv /\ [Next]_vars => DaysInv'
<1>. SUFFICES ASSUME DaysInv, [Next]_vars PROVE DaysInv'
  OBVIOUS
<1>0. Types /\ Types' /\ DaysKnown /\ DaysInOrder
  BY TypesStep DEF DaysInv
<1>a. /\ today \in Nat /\ day \in Nat /\ Len(file) \in Nat
      /\ DOMAIN file = 1..Len(file)
      /\ \A i \in 1..Len(file) : file[i].day \in Nat /\ file[i].time \in Nat
  BY <1>0, TypeParts, FileTypes DEF Types, Scalars
<1>1. CASE Write
  <2>1. /\ cpc = "writing" /\ cpc' # "writing" /\ day' = day /\ today' = today
    BY <1>1 DEF Write, NextTurn, clock
  <2>2. CASE file' = file
    BY <1>0, <2>1, <2>2 DEF DaysInv, DaysKnown, DaysInOrder
  <2>3. CASE /\ DOMAIN file' = 1..(Len(file) + 1)
             /\ Len(file') = Len(file) + 1
             /\ \A i \in 1..Len(file) : file'[i] = file[i]
             /\ file'[Len(file) + 1] = Entry
    <3>1. Entry.day = day /\ Entry.time = today
      BY DEF Entry
    <3>2. DaysKnown'
      BY <1>0, <1>a, <2>1, <2>3, <3>1 DEF DaysKnown
    <3>3. DaysInOrder'
      <4>. SUFFICES ASSUME NEW i \in DOMAIN file',
                           NEW j \in (i + 1)..Len(file')
                    PROVE  /\ file'[i].day <= file'[i].time
                           /\ file'[i].time <= file'[j].day
        BY <1>0, <1>a, <2>1, <2>3, <3>1 DEF DaysKnown, DaysInOrder
      <4>1. i \in 1..Len(file) /\ file'[i] = file[i] /\ file[i].time <= day
        BY <1>0, <1>a, <2>1, <2>3 DEF DaysKnown
      <4>2. CASE j = Len(file) + 1
        BY <1>0, <1>a, <2>3, <3>1, <4>1, <4>2 DEF DaysInOrder
      <4>3. CASE j \in (i + 1)..Len(file)
        BY <1>0, <1>a, <2>3, <4>1, <4>3 DEF DaysInOrder
      <4>. QED  BY <1>a, <2>3, <4>2, <4>3
    <3>. QED  BY <1>0, <3>2, <3>3 DEF DaysInv
  <2>. QED  BY <1>0, <1>1, <2>2, <2>3, WriteAdds
<1>2. CASE UNCHANGED file
  <2>1. DaysInOrder'
    BY <1>0, <1>2 DEF DaysInOrder
  <2>2. CASE Midnight \/ RollFile \/ CheckDay
    <3>1. DaysKnown'
      BY <1>0, <1>2, <1>a, <2>2 DEF DaysKnown, Midnight, thread, writer,
         RollFile, Today, CheckDay, clock
    <3>. QED  BY <1>0, <2>1, <3>1 DEF DaysInv
  <2>3. CASE /\ UNCHANGED <<today, day>>
             /\ cpc' = "writing" => cpc = "writing"
    <3>1. DaysKnown'
      BY <1>0, <1>2, <2>3 DEF DaysKnown
    <3>. QED  BY <1>0, <2>1, <3>1 DEF DaysInv
  <2>. QED
    BY <2>2, <2>3 DEF Next, vars, thread, writer, clock, Exited, Initialize,
       Shutdown, ConsoleCloses, Pop, CheckState, AfterShutdown, Take,
       TakeNothing, Write, NextTurn, Start, Push, Claim, Put
<1>. QED  BY <1>1, <1>2, FilesKept

\* roll_file() and the tee of src/src/log/NanoLog.cpp: whenever midnight comes
\* between the readings of the clock, and on however many days, no line gets
\* into a file of a later day, and no line but the last into that of an earlier.
THEOREM DaysKeepOrder == Spec => []DaysInOrder
<1>1. Init => DaysInv
  <2>. SUFFICES ASSUME Init PROVE DaysInv
    OBVIOUS
  <2>1. file = <<>> /\ day = 0 /\ today = 0
    BY DEF Init
  <2>. QED  BY <2>1, TypesInit DEF DaysInv, DaysKnown, DaysInOrder
<1>2. DaysInv => DaysInOrder
  BY DEF DaysInv
<1>. QED  BY <1>1, <1>2, DaysStep, PTL DEF Spec

-----------------------------------------------------------------------------
(* The places of a line *)

LEMMA PushedStays ==
  ASSUME Types, [Next]_vars
  PROVE  Pushed \subseteq Pushed'
<1>. SUFFICES ASSUME NEW line \in Pushed PROVE line \in Pushed'
  OBVIOUS
<1>1. /\ line \in Lines /\ line[1] \in Threads /\ line[2] \in Nat
      /\ logged \in [Threads -> 0..MaxLines] /\ MaxLines \in Nat
      /\ pc \in [Threads -> {"out", "pushing", "claimed"}]
  BY LineTypes, TypeParts, RingAssumption DEF Types, Scalars, RingAssumption,
     Pushed
<1>2. CASE UNCHANGED <<logged, pc>>
  BY <1>2 DEF Pushed
<1>3. ASSUME NEW t \in Threads, Start(t) PROVE line \in Pushed'
  BY <1>1, <1>3 DEF Start, Goto, Pushed
<1>4. ASSUME NEW t \in Threads, Push(t) PROVE line \in Pushed'
  BY <1>1, <1>4 DEF Push, Claim, Put, Goto, Pushed
<1>. QED
  BY <1>2, <1>3, <1>4 DEF Next, vars, producer, Exited, Initialize, Shutdown,
     Midnight, ConsoleCloses, Pop, CheckState, Take, TakeNothing, CheckDay,
     RollFile, Write

\* The actions that move a line.
LEMMA PlacesKept ==
  ASSUME [Next]_vars
  PROVE  \/ UNCHANGED <<ring, logline, file, dropped>>
         \/ Take \/ Write
         \/ \E t \in Threads : Put(t)
BY DEF Next, vars, queue, thread, writer, Exited, Initialize, Shutdown,
   Midnight, ConsoleCloses, Pop, CheckState, TakeNothing, CheckDay, RollFile,
   Start, Push, Claim

LEMMA OnceInit == Init => OnceInv
<1>. SUFFICES ASSUME Init PROVE OnceInv
  OBVIOUS
<1>1. file = <<>> /\ dropped = {} /\ logline = NoLine /\ \A i \in Slots : ring[i] = NoLine
  BY DEF Init, Slots
<1>. QED  BY <1>1, TypesInit DEF OnceInv, InOneSlot, InThread, InFileOrDropped,
          InFile, AtMostOnce

LEMMA OnceStep == OnceInv /\ [Next]_vars => OnceInv'
<1>. SUFFICES ASSUME OnceInv, [Next]_vars PROVE OnceInv'
  OBVIOUS
<1>0. /\ Types /\ Types'
      /\ InOneSlot /\ InThread /\ InFileOrDropped /\ AtMostOnce
  BY TypesStep DEF OnceInv
<1>a. Pushed \subseteq Pushed'
  BY <1>0, PushedStays
<1>b. /\ Len(file) \in Nat /\ DOMAIN file = 1..Len(file)
      /\ \A i \in 1..Len(file) : file[i].line \in Lines
      /\ InFile \subseteq Lines
  BY <1>0, FileTypes DEF InFile
<1>c. /\ ring \in [Slots -> Lines \cup {NoLine}] /\ dropped \subseteq Lines
      /\ logline \in Lines \cup {NoLine} /\ NoLine \notin Lines
  BY <1>0, TypeParts, LineTypes DEF Types, Scalars
<1>d. SUFFICES InOneSlot' /\ InThread' /\ InFileOrDropped' /\ AtMostOnce'
  BY <1>0 DEF OnceInv
<1>e. /\ Slots' = Slots
      /\ file' = file => InFile' = InFile
      /\ file' = file /\ dropped' = dropped => AtMostOnce'
  BY <1>0 DEF Slots, InFile, AtMostOnce
<1>1. CASE UNCHANGED <<ring, logline, file, dropped>>
  BY <1>0, <1>1, <1>a, <1>e DEF InOneSlot, InThread, InFileOrDropped
<1>2. CASE Take
  <2>1. /\ Slot \in Slots /\ ring[Slot] # NoLine
        /\ logline = NoLine /\ logline' = ring[Slot]
        /\ ring' = [ring EXCEPT ![Slot] = NoLine]
        /\ UNCHANGED <<file, dropped>>
    BY <1>0, <1>2, IndexTypes, TypeParts DEF Take, EmptySlot, Types, Scalars,
       HaveLines, Slot, writer
  <2>2. InOneSlot'
    BY <1>0, <1>a, <1>c, <1>e, <2>1 DEF InOneSlot
  <2>3. InThread' /\ InFileOrDropped'
    BY <1>0, <1>a, <1>c, <1>e, <2>1 DEF InOneSlot, InThread, InFileOrDropped
  <2>. QED  BY <1>e, <2>1, <2>2, <2>3
<1>3. CASE Write
  <2>1. logline # NoLine /\ logline' = NoLine /\ UNCHANGED <<ring, dropped>>
    BY <1>0, <1>3 DEF Write, queue, Types, HaveLines
  <2>2. CASE file' = file
    BY <1>0, <1>a, <1>c, <1>e, <2>1, <2>2 DEF InOneSlot, InThread, InFileOrDropped
  <2>3. CASE /\ DOMAIN file' = 1..(Len(file) + 1)
             /\ \A i \in 1..Len(file) : file'[i] = file[i]
             /\ file'[Len(file) + 1] = Entry
    <3>1. InFile' = InFile \cup {logline} /\ Entry.line = logline
      BY <1>b, <2>3 DEF InFile, Entry
    <3>2. InOneSlot' /\ InThread' /\ InFileOrDropped'
      BY <1>0, <1>a, <1>c, <1>e, <2>1, <3>1 DEF InOneSlot, InThread, InFileOrDropped
    <3>3. AtMostOnce'
      BY <1>0, <1>b, <2>1, <2>3, <3>1 DEF InThread, InFile, AtMostOnce
    <3>. QED  BY <3>2, <3>3
  <2>. QED  BY <1>0, <1>3, <2>2, <2>3, WriteAdds
<1>4. ASSUME NEW t \in Threads, Put(t)
      PROVE  InOneSlot' /\ InThread' /\ InFileOrDropped' /\ AtMostOnce'
  <2>1. /\ slot[t] \in Slots /\ Line(t) \in Lines
        /\ ring' = [ring EXCEPT ![slot[t]] = Line(t)]
        /\ dropped' = dropped \cup ({ring[slot[t]]} \ {NoLine})
        /\ UNCHANGED <<logline, file>>
    BY <1>0, <1>4, LineOf, TypeParts DEF Put, Types, Scalars, thread, writer
  <2>2. Line(t) \notin Pushed /\ Line(t) \in Pushed'
    BY <1>0, <1>4, LineOf, TypeParts DEF Put, Goto, Pushed, Types, Scalars
  <2>3. InOneSlot'
    BY <1>0, <1>a, <1>c, <1>e, <2>1, <2>2 DEF InOneSlot, InThread, InFileOrDropped
  <2>4. InThread' /\ InFileOrDropped'
    BY <1>0, <1>a, <1>c, <1>e, <2>1 DEF InOneSlot, InThread, InFileOrDropped
  <2>5. AtMostOnce'
    BY <1>0, <1>c, <2>1 DEF InOneSlot, InFile, AtMostOnce
  <2>. QED  BY <2>3, <2>4, <2>5
<1>. QED  BY <1>1, <1>2, <1>3, <1>4, PlacesKept

\* RingBuffer::push() and try_pop() of src/src/log/NanoLog.cpp: however far the
\* threads that log are ahead of the logging thread, and wherever the indexes
\* wrap, no line is written twice, and none that was overwritten is written.
THEOREM LinesAtMostOnce == Spec => []AtMostOnce
<1>1. OnceInv => AtMostOnce
  BY DEF OnceInv
<1>. QED  BY <1>1, OnceInit, OnceStep, PTL DEF Spec

-----------------------------------------------------------------------------
(* The order of the slots *)

LEMMA DivMod ==
  ASSUME NEW n \in Nat, NEW w \in Nat \ {0}
  PROVE  /\ n \div w \in Nat /\ n % w \in 0..(w - 1)
         /\ n = ((n \div w) * w) + (n % w)
OBVIOUS

LEMMA ModUnique ==
  ASSUME NEW a \in Nat, NEW w \in Nat \ {0}, NEW b \in 0..(w - 1)
  PROVE  ((a * w) + b) % w = b
OBVIOUS

\* The same place modulo w is the same place modulo s if s divides w.
LEMMA ModOfMod ==
  ASSUME NEW n \in Nat, NEW m \in Nat, NEW s \in Nat \ {0}, m * s \in Nat \ {0}
  PROVE  (n % (m * s)) % s = n % s
<1>1. PICK q \in Nat, r \in Nat : n = (q * (m * s)) + r /\ r = n % (m * s)
  <2>. DEFINE w == m * s
  <2>1. w \in Nat \ {0}
    OBVIOUS
  <2>2. \E q \in Nat, r \in Nat : n = (q * w) + r /\ r = n % w
    <3>. HIDE DEF w
    <3>1. n \div w \in Nat /\ n % w \in 0..(w - 1) /\ n = ((n \div w) * w) + (n % w)
      BY <2>1, DivMod
    <3>2. n % w \in Nat
      BY <2>1, <3>1
    <3>. QED  BY <3>1, <3>2
  <2>. QED  BY <2>2
<1>2. PICK p \in Nat, i \in 0..(s - 1) : r = (p * s) + i /\ i = r % s
  BY DivMod
<1>3. q * (m * s) = (q * m) * s /\ q * m \in Nat
  OBVIOUS
<1>4. ((q * m) + p) * s = ((q * m) * s) + (p * s) /\ (q * m) + p \in Nat
  BY <1>3
<1>5. n = (((q * m) + p) * s) + i
  <2>. DEFINE x == (q * m) * s
              y == p * s
  <2>1. n = x + r /\ r = y + i /\ ((q * m) + p) * s = x + y
    BY <1>1, <1>2, <1>3, <1>4
  <2>2. x \in Int /\ y \in Int
    BY <1>3
  <2>. HIDE DEF x, y
  <2>. QED  BY <2>1, <2>2
<1>6. n % s = i
  BY <1>4, <1>5, ModUnique
<1>. QED  BY <1>1, <1>2, <1>6

LEMMA ModPlus1 ==
  ASSUME NEW n \in Nat, NEW w \in Nat \ {0}
  PROVE  ((n % w) + 1) % w = (n + 1) % w
<1>1. PICK q \in Nat, r \in 0..(w - 1) : n = (q * w) + r /\ r = n % w
  BY DivMod
<1>2. CASE r + 1 < w
  <2>1. r + 1 \in 0..(w - 1) /\ n + 1 = (q * w) + (r + 1)
    BY <1>1, <1>2
  <2>2. (n + 1) % w = r + 1
    BY <2>1, ModUnique
  <2>3. (r + 1) % w = r + 1
    BY <2>1
  <2>. QED  BY <1>1, <2>2, <2>3
<1>3. CASE r + 1 = w
  <2>1. (q + 1) * w = (q * w) + w
    OBVIOUS
  <2>2. n + 1 = ((q + 1) * w) + 0 /\ q + 1 \in Nat /\ 0 \in 0..(w - 1)
    BY <1>1, <1>3, <2>1
  <2>3. (n + 1) % w = 0
    BY <2>2, ModUnique
  <2>4. w % w = 0
    OBVIOUS
  <2>. QED  BY <1>1, <1>3, <2>3, <2>4
<1>. QED  BY <1>1, <1>2, <1>3

LEMMA SlotOfIndex ==
  ASSUME IndexesFit, NEW n \in Nat
  PROVE  /\ (n % Wrap) % Size = n % Size
         /\ Increment(n % Wrap) = (n + 1) % Wrap
         /\ n % Size = SlotOf(n + 1) /\ SlotOf(n + 1) \in Slots
<1>. USE RingAssumption DEF RingAssumption
<1>1. PICK m \in Nat : Wrap = m * Size
  BY DEF IndexesFit
<1>2. (n % Wrap) % Size = n % Size
  BY <1>1, ModOfMod
<1>3. Increment(n % Wrap) = (n + 1) % Wrap
  BY ModPlus1 DEF Increment
<1>4. n % Size = SlotOf(n + 1) /\ SlotOf(n + 1) \in Slots
  BY DEF SlotOf, Slots
<1>. QED  BY <1>2, <1>3, <1>4

\* Fewer than Size apart, lines have slots of their own.
LEMMA SlotsApart ==
  ASSUME NEW j \in Nat \ {0}, NEW k \in Nat \ {0},
         j <= k, k - j < Size, SlotOf(j) = SlotOf(k)
  PROVE  j = k
<1>. DEFINE a == (j - 1) \div Size
            b == (k - 1) \div Size
            i == SlotOf(j)
<1>1. /\ a \in Nat /\ b \in Nat /\ i \in Slots
      /\ j - 1 = (a * Size) + i /\ k - 1 = (b * Size) + i
  BY RingAssumption DEF RingAssumption, SlotOf, Slots
<1>2. \A x, y \in Nat : x < y => (x * Size) + Size <= y * Size
  BY RingAssumption DEF RingAssumption
<1>3. ~(a < b)
  <2>. HIDE DEF a, b, i
  <2>. QED  BY <1>1, <1>2, RingAssumption DEF RingAssumption, Slots
<1>4. ~(b < a)
  <2>. HIDE DEF a, b, i
  <2>. QED  BY <1>1, <1>2, RingAssumption DEF RingAssumption, Slots
<1>. QED  BY <1>1, <1>3, <1>4

LEMMA WindowTypes ==
  ASSUME Types, IndexesCount
  PROVE  /\ Len(order) \in Nat /\ taken \in Nat
         /\ \A k \in 1..Len(order) : order[k] \in Lines
         /\ Window \subseteq 1..Len(order)
         /\ \A j, k \in (taken + 1)..(taken + Size) :
              SlotOf(j) = SlotOf(k) => j = k
         /\ \A k \in Nat \ {0} : SlotOf(k) \in Slots
<1>1. Len(order) \in Nat /\ taken \in Nat /\ \A k \in 1..Len(order) : order[k] \in Lines
  BY TypeParts DEF Types, Scalars, Sequences
<1>2. \A j, k \in (taken + 1)..(taken + Size) : SlotOf(j) = SlotOf(k) => j = k
  <2>. SUFFICES ASSUME NEW j \in (taken + 1)..(taken + Size),
                       NEW k \in (taken + 1)..(taken + Size),
                       SlotOf(j) = SlotOf(k)
                PROVE  j = k
    OBVIOUS
  <2>1. /\ j \in Nat \ {0} /\ k \in Nat \ {0}
        /\ k - j < Size /\ j - k < Size
        /\ j <= k \/ k <= j
    BY <1>1, RingAssumption DEF RingAssumption
  <2>. QED  BY <2>1, SlotsApart
<1>3. \A k \in Nat \ {0} : SlotOf(k) \in Slots
  BY RingAssumption DEF SlotOf, Slots, RingAssumption
<1>. QED  BY <1>1, <1>2, <1>3 DEF Window

\* What the two ends of the ring do not touch.
LEMMA RingKept ==
  ASSUME Types, [Next]_vars
  PROVE  \/ UNCHANGED <<queue, slot>> /\ \A t \in Threads :
              (pc[t] = "claimed" <=> pc'[t] = "claimed")
              /\ (pc[t] = "claimed" => logged'[t] = logged[t])
         \/ Take
         \/ \E t \in Threads : Push(t)
<1>1. CASE UNCHANGED <<queue, producer>>
  BY <1>1 DEF producer
<1>2. ASSUME NEW t \in Threads, Start(t)
      PROVE  UNCHANGED <<queue, slot>> /\ \A u \in Threads :
               (pc[u] = "claimed" <=> pc'[u] = "claimed")
               /\ (pc[u] = "claimed" => logged'[u] = logged[u])
  BY <1>2, TypeParts DEF Start, Goto, Types, Scalars
<1>. QED
  BY <1>1, <1>2 DEF Next, vars, Exited, Initialize, Shutdown, Midnight,
     ConsoleCloses, Pop, CheckState, TakeNothing, CheckDay, RollFile, Write

LEMMA ClaimKeepsRing ==
  ASSUME IndexesFit, Types, Held, NEW t \in Threads, Claim(t), ~overrun'
  PROVE  Held'
<1>. DEFINE new == Len(order) + 1
<1>1. /\ Len(order) \in Nat /\ taken \in Nat
      /\ \A k \in 1..Len(order) : order[k] \in Lines
      /\ Window \subseteq 1..Len(order)
      /\ \A j, k \in (taken + 1)..(taken + Size) :
           SlotOf(j) = SlotOf(k) => j = k
      /\ \A k \in Nat \ {0} : SlotOf(k) \in Slots
      /\ taken <= Len(order) /\ Len(order) <= taken + Size
  BY WindowTypes DEF Held, IndexesCount
<1>2. /\ Len(order') = new /\ order'[new] = Line(t)
      /\ \A k \in 1..Len(order) : order'[k] = order[k]
  <2>1. order \in Seq(Lines) /\ Line(t) \in Lines /\ order' = Append(order, Line(t))
    BY LineOf, TypeParts DEF Types, Sequences, Claim
  <2>. HIDE DEF Line
  <2>. QED  BY <2>1
<1>3. /\ new <= taken + Size
      /\ UNCHANGED <<ring, taken, readIndex>>
      /\ writeIndex' = Increment(writeIndex)
  <2>1. /\ UNCHANGED <<ring, taken, readIndex>>
        /\ writeIndex' = Increment(writeIndex)
        /\ ~(Len(order') - taken > Size)
    BY DEF Claim
  <2>. HIDE DEF new
  <2>2. new \in Nat /\ Size \in Nat
    BY <1>1, RingAssumption DEF RingAssumption, new
  <2>. QED  BY <1>1, <1>2, <2>1, <2>2
<1>4. /\ slot' = [slot EXCEPT ![t] = SlotOf(new)]
      /\ writeIndex' = Len(order') % Wrap
  BY <1>1, <1>2, <1>3, SlotOfIndex DEF Claim, Held, IndexesCount
<1>5. IndexesCount'
  BY <1>1, <1>2, <1>3, <1>4 DEF Held, IndexesCount
<1>6. /\ Window' = Window \cup {new} /\ new \notin Window
      /\ Window' \subseteq (taken + 1)..(taken + Size)
      /\ \A k \in Window : order'[k] = order[k]
  <2>1. /\ Window = (taken + 1)..Len(order) /\ Size \in Nat
        /\ Window' = (taken + 1)..(Len(order) + 1)
    BY <1>2, <1>3, RingAssumption DEF Window, RingAssumption
  <2>2. \A k \in Window : order'[k] = order[k]
    BY <1>1, <1>2
  <2>. QED  BY <1>1, <1>3, <2>1, <2>2
<1>7. ring[SlotOf(new)] = NoLine
  BY <1>1, <1>6 DEF Held, RestEmpty
<1>8. /\ \A u \in Threads \ {t} : pc'[u] = pc[u] /\ slot'[u] = slot[u]
      /\ \A u \in Threads : Line(u)' = Line(u)
      /\ pc[t] = "pushing" /\ pc'[t] = "claimed" /\ slot'[t] = SlotOf(new)
  BY <1>4, TypeParts DEF Claim, Goto, Line, Types, Scalars
<1>. HIDE DEF new
<1>9. ClaimsInOrder'
  BY <1>2, <1>3, <1>6, <1>7, <1>8 DEF Held, ClaimsInOrder, SlotOf
<1>10. WindowFilled'
  BY <1>2, <1>3, <1>6, <1>8 DEF Held, WindowFilled, SlotOf
<1>11. RestEmpty'
  BY <1>3, <1>6 DEF Held, RestEmpty, Slots, SlotOf
<1>. QED  BY <1>5, <1>9, <1>10, <1>11 DEF Held

LEMMA PutKeepsRing ==
  ASSUME Types, Held, NEW t \in Threads, Put(t)
  PROVE  Held'
<1>1. /\ Window \subseteq (taken + 1)..(taken + Size)
      /\ \A j, k \in Window : SlotOf(j) = SlotOf(k) => j = k
      /\ \A k \in Window : SlotOf(k) \in Slots /\ order[k] \in Lines
      /\ Window' = Window
  BY WindowTypes, RingAssumption DEF Held, IndexesCount, Window, RingAssumption, Put
<1>2. /\ UNCHANGED <<order, taken, slot, logged, writeIndex, readIndex>>
      /\ ring' = [ring EXCEPT ![slot[t]] = Line(t)]
      /\ ring \in [Slots -> Lines \cup {NoLine}] /\ NoLine \notin Lines
      /\ pc[t] = "claimed" /\ pc'[t] = "out"
      /\ \A u \in Threads \ {t} : pc'[u] = pc[u]
      /\ \A u \in Threads : Line(u)' = Line(u)
  BY LineTypes, TypeParts DEF Put, Goto, Line, Types, Scalars
<1>3. \A u \in Threads : pc[u] = "claimed" => Line(u) \in Lines /\ Line(u)[1] = u
  BY LineOf
<1>4. PICK k \in Window : order[k] = Line(t) /\ slot[t] = SlotOf(k)
  BY <1>2 DEF Held, ClaimsInOrder
<1>5. \A j \in Window : j # k => ring'[SlotOf(j)] = ring[SlotOf(j)]
  BY <1>1, <1>2, <1>4
<1>6. ring'[SlotOf(k)] = order[k]
  BY <1>1, <1>2, <1>4
<1>. HIDE DEF Line
<1>7. ClaimsInOrder'
  <2>. SUFFICES ASSUME NEW u \in Threads, pc'[u] = "claimed"
                PROVE  /\ ring'[slot[u]] = NoLine
                       /\ \E j \in Window : order[j] = Line(u) /\ slot[u] = SlotOf(j)
    BY <1>1, <1>2 DEF ClaimsInOrder, SlotOf
  <2>1. u # t /\ pc[u] = "claimed"
    BY <1>2
  <2>2. PICK j \in Window : order[j] = Line(u) /\ slot[u] = SlotOf(j)
    BY <2>1 DEF Held, ClaimsInOrder
  <2>3. j # k
    BY <1>2, <1>3, <1>4, <2>1, <2>2
  <2>. QED  BY <1>5, <2>1, <2>2, <2>3 DEF Held, ClaimsInOrder
<1>8. WindowFilled'
  <2>. SUFFICES ASSUME NEW j \in Window
                PROVE  \/ ring'[SlotOf(j)] = order[j]
                       \/ \E u \in Threads :
                            pc'[u] = "claimed" /\ slot[u] = SlotOf(j) /\ Line(u) = order[j]
    BY <1>1, <1>2 DEF WindowFilled, SlotOf
  <2>1. CASE j = k
    BY <1>6, <2>1
  <2>2. CASE j # k
    BY <1>1, <1>2, <1>4, <1>5, <2>2 DEF Held, WindowFilled
  <2>. QED  BY <2>1, <2>2
<1>9. RestEmpty'
  BY <1>1, <1>2, <1>4 DEF Held, RestEmpty, Slots, SlotOf
<1>10. IndexesCount'
  BY <1>2 DEF Held, IndexesCount
<1>. QED  BY <1>7, <1>8, <1>9, <1>10 DEF Held

\* A pop takes the line of the first claim that is not taken.
LEMMA TakeKeepsRing ==
  ASSUME IndexesFit, Types, Held, Take
  PROVE  /\ Held'
         /\ taken + 1 \in Window /\ logline' = order[taken + 1]
<1>. DEFINE first == taken + 1
<1>1. /\ taken \in Nat /\ Len(order) \in Nat /\ Size \in Nat \ {0}
      /\ taken <= Len(order) /\ Len(order) <= taken + Size
      /\ \A k \in 1..Len(order) : order[k] \in Lines
      /\ \A j, k \in first..(taken + Size) : SlotOf(j) = SlotOf(k) => j = k
      /\ \A k \in first..(taken + Size) : SlotOf(k) \in Slots
  BY WindowTypes, RingAssumption DEF Held, IndexesCount, RingAssumption
<1>2. Slot = SlotOf(first) /\ Increment(readIndex) = first % Wrap
  BY <1>1, SlotOfIndex DEF Slot, Held, IndexesCount
<1>3. /\ UNCHANGED <<order, slot, logged, writeIndex, pc>>
      /\ ring' = [ring EXCEPT ![SlotOf(first)] = NoLine]
      /\ ring[SlotOf(first)] # NoLine /\ logline' = ring[SlotOf(first)]
      /\ readIndex' = first % Wrap /\ taken' = first
      /\ ring \in [Slots -> Lines \cup {NoLine}] /\ NoLine \notin Lines
      /\ \A u \in Threads : Line(u)' = Line(u)
  BY <1>2, LineTypes, TypeParts DEF Take, EmptySlot, Advance, producer, Line,
     Types, Scalars
<1>4. /\ Window \subseteq first..(taken + Size) /\ first \in first..(taken + Size)
      /\ Window' = Window \ {first}
  BY <1>1, <1>3 DEF Window
<1>5. first \in Window
  BY <1>1, <1>3, <1>4 DEF Held, RestEmpty
<1>6. \A k \in Window : k # first => SlotOf(k) # SlotOf(first) /\ SlotOf(k) \in Slots
  BY <1>1, <1>4
<1>. HIDE DEF first
<1>7. ring[SlotOf(first)] = order[first]
  BY <1>3, <1>5 DEF Held, WindowFilled, ClaimsInOrder
<1>8. ClaimsInOrder'
  <2>. SUFFICES ASSUME NEW u \in Threads, pc[u] = "claimed"
                PROVE  /\ ring'[slot[u]] = NoLine
                       /\ \E k \in Window \ {first} :
                            order[k] = Line(u) /\ slot[u] = SlotOf(k)
    BY <1>3, <1>4 DEF ClaimsInOrder, SlotOf
  <2>1. PICK k \in Window : order[k] = Line(u) /\ slot[u] = SlotOf(k)
    BY DEF Held, ClaimsInOrder
  <2>2. k # first /\ ring[slot[u]] = NoLine
    BY <1>3, <2>1 DEF Held, ClaimsInOrder
  <2>. QED  BY <1>3, <1>6, <2>1, <2>2
<1>9. WindowFilled'
  BY <1>3, <1>4, <1>6 DEF Held, WindowFilled, SlotOf
<1>10. RestEmpty'
  BY <1>1, <1>3, <1>4 DEF Held, RestEmpty, Slots, SlotOf
<1>11. IndexesCount'
  <2>1. first \in 1..Len(order)
    BY <1>1, <1>5 DEF Window
  <2>. QED  BY <1>1, <1>3, <2>1 DEF Held, IndexesCount, first
<1>. QED  BY <1>3, <1>5, <1>7, <1>8, <1>9, <1>10, <1>11 DEF Held, first

LEMMA HeldKept ==
  ASSUME Held, UNCHANGED <<queue, slot>>,
         \A t \in Threads :
           (pc[t] = "claimed" <=> pc'[t] = "claimed")
           /\ (pc[t] = "claimed" => logged'[t] = logged[t])
  PROVE  Held'
<1>1. /\ UNCHANGED <<ring, writeIndex, readIndex, order, taken, slot>>
      /\ \A t \in Threads :
           /\ pc[t] = "claimed" <=> pc'[t] = "claimed"
           /\ pc[t] = "claimed" => Line(t)' = Line(t)
  BY DEF queue, Line
<1>. HIDE DEF Line
<1>2. IndexesCount' /\ RestEmpty'
  BY <1>1 DEF Held, IndexesCount, RestEmpty, Slots, Window, SlotOf
<1>3. ClaimsInOrder'
  BY <1>1 DEF Held, ClaimsInOrder, Window, SlotOf
<1>4. WindowFilled'
  BY <1>1 DEF Held, WindowFilled, Window, SlotOf
<1>. QED  BY <1>2, <1>3, <1>4 DEF Held

LEMMA KeepsInit == Init => KeepsInv
<1>. SUFFICES ASSUME Init PROVE KeepsInv
  OBVIOUS
<1>1. /\ Len(order) = 0 /\ taken = 0 /\ writeIndex = 0 /\ readIndex = 0
      /\ 0 % Wrap = 0 /\ Size \in Nat /\ Window = {}
  BY RingAssumption DEF Init, RingAssumption, Window
<1>2. Held
  BY <1>1 DEF Init, Held, IndexesCount, ClaimsInOrder, WindowFilled, RestEmpty, Slots
<1>3. EndsLast /\ EndsEmpty
  BY DEF Init, EndsLast, EndsEmpty
<1>4. WrittenInOrder
  BY <1>1 DEF Init, WrittenInOrder, InHand
<1>5. ~failed => good
  BY DEF Init
<1>. QED  BY <1>2, <1>3, <1>4, <1>5, TypesInit DEF KeepsInv

LEMMA EndsLastStep == Types /\ EndsLast /\ [Next]_vars => EndsLast'
<1>. SUFFICES ASSUME Types, EndsLast, [Next]_vars PROVE EndsLast'
  OBVIOUS
<1>1. ASSUME NEW t \in Threads, Start(t) \/ Push(t) PROVE EndsLast'
  BY <1>1, TypeParts DEF Start, Push, Claim, Put, thread, EndsLast, Types, Scalars
<1>2. CASE UNCHANGED vars \/ Exited \/ Midnight \/ ConsoleCloses \/ CheckDay \/ RollFile
  BY <1>2 DEF vars, producer, thread, Exited, Midnight, ConsoleCloses, CheckDay,
     RollFile, EndsLast
<1>3. CASE Initialize \/ Shutdown
  BY <1>3 DEF Initialize, Shutdown, producer, thread, EndsLast
<1>4. CASE CheckState
  <2>1. /\ draining' => state = "SHUTDOWN"
        /\ cpc' # "ended" /\ UNCHANGED <<state, pc>>
    BY <1>4 DEF CheckState, AfterShutdown, producer
  <2>. QED  BY <2>1 DEF EndsLast
<1>4a. CASE Take \/ TakeNothing
  BY <1>4a DEF Take, TakeNothing, producer, EndsLast
<1>5. CASE Write
  BY <1>5 DEF Write, NextTurn, producer, EndsLast
<1>. QED  BY <1>1, <1>2, <1>3, <1>4, <1>4a, <1>5 DEF Next, Pop

\* The thread ends at an empty slot, and then no other one is filled.
LEMMA EndsEmptyStep ==
  ASSUME IndexesFit, Types, EndsLast, Held, EndsEmpty, [Next]_vars
  PROVE  EndsEmpty'
<1>1. CASE TakeNothing
  <2>. SUFFICES ASSUME cpc' = "ended" PROVE taken = Len(order)
    BY <1>1 DEF TakeNothing, queue, EndsEmpty
  <2>1. \A t \in Threads : pc[t] # "claimed"
    BY <1>1 DEF TakeNothing, EndsLast
  <2>2. /\ taken \in Nat /\ Len(order) \in Nat
        /\ \A k \in 1..Len(order) : order[k] \in Lines
        /\ taken <= Len(order) /\ Slot = SlotOf(taken + 1)
    BY WindowTypes, SlotOfIndex DEF Held, IndexesCount, Slot
  <2>3. ~(taken < Len(order))
    <3>. SUFFICES ASSUME taken < Len(order) PROVE FALSE
      OBVIOUS
    <3>1. taken + 1 \in Window /\ taken + 1 \in 1..Len(order)
      BY <2>2 DEF Window
    <3>2. ring[Slot] = order[taken + 1]
      BY <2>1, <2>2, <3>1 DEF Held, WindowFilled
    <3>. QED  BY <1>1, <2>2, <3>1, <3>2, LineTypes DEF TakeNothing
  <2>. QED  BY <2>2, <2>3
<1>2. CASE cpc = "ended"
  <2>1. \A t \in Threads : pc[t] = "out"
    BY <1>2 DEF EndsLast
  <2>2. UNCHANGED <<taken, order>>
    BY <1>2, <2>1 DEF Next, vars, queue, Exited, Initialize, Shutdown, Midnight,
       ConsoleCloses, Pop, CheckState, Take, TakeNothing, CheckDay, RollFile,
       Write, Start, Push, Claim, Put
  <2>. QED  BY <1>2, <2>2 DEF EndsEmpty
<1>3. CASE cpc # "ended" /\ cpc' # "ended"
  BY <1>3 DEF EndsEmpty
<1>. QED
  BY <1>1, <1>2, <1>3 DEF Next, vars, thread, Exited, Initialize, Shutdown,
     Midnight, ConsoleCloses, Pop, CheckState, AfterShutdown, Take, CheckDay,
     RollFile, Write, NextTurn, Start, Push, Claim, Put

LEMMA HistoryGrows ==
  ASSUME [Next]_vars
  PROVE  /\ overrun => overrun'
         /\ failed => failed'
         /\ good /\ ~failed' => good'
<1>1. CASE RollFile
  BY <1>1 DEF RollFile, queue
<1>2. CASE Write
  <2>1. overrun' = overrun /\ (failed => failed')
    BY <1>2 DEF Write, queue
  <2>2. good' = Writable /\ (~failed' => Writable)
    BY <1>2 DEF Write
  <2>. QED  BY <2>1, <2>2
<1>3. ASSUME NEW t \in Threads, Claim(t)
      PROVE  (overrun => overrun') /\ UNCHANGED writer
  BY <1>3 DEF Claim
<1>4. CASE UNCHANGED <<overrun, writer>>
  BY <1>4 DEF writer
<1>. QED
  BY <1>1, <1>2, <1>3, <1>4 DEF Next, vars, queue, writer, Exited, Initialize,
     Shutdown, Midnight, ConsoleCloses, Pop, CheckState, Take, TakeNothing,
     CheckDay, Start, Push, Put

\* Lines are appended to the file in the order in which they are popped.
LEMMA WrittenStep ==
  ASSUME IndexesFit, Types, Held, good, WrittenInOrder, ~failed, ~failed',
         [Next]_vars
  PROVE  good' /\ WrittenInOrder'
<1>0. /\ taken \in Nat /\ Len(order) \in Nat /\ taken <= Len(order)
      /\ Len(file) \in Nat /\ DOMAIN file = 1..Len(file)
      /\ InHand \in 0..1 /\ Len(file) = taken - InHand
  BY WindowTypes, FileTypes DEF Held, IndexesCount, InHand, WrittenInOrder
<1>1. CASE Write
  <2>1. logline # NoLine /\ logline' = NoLine /\ UNCHANGED <<order, taken>>
    BY <1>1 DEF Write, queue, Types, HaveLines
  <2>2. good' = Writable /\ failed' = (failed \/ ~Writable)
    BY <1>1 DEF Write
  <2>2a. Writable
    BY <2>2
  <2>3. file' = Append(file, Entry)
    BY <1>1, <2>2a DEF Write, Entry
  <2>4. /\ DOMAIN file' = 1..(Len(file) + 1) /\ Len(file') = Len(file) + 1
        /\ \A i \in 1..Len(file) : file'[i] = file[i]
        /\ file'[Len(file) + 1].line = logline
    <3>1. file \in Seq([line : Lines, day : 0..MaxDay, time : 0..MaxDay])
          /\ Entry.line = logline
      BY TypeParts DEF Types, Sequences, Entry
    <3>. HIDE DEF Entry
    <3>. QED  BY <2>3, <3>1
  <2>5. Len(file) + 1 = taken /\ InHand' = 0 /\ logline = order[taken]
    BY <1>0, <2>1 DEF InHand, WrittenInOrder
  <2>. QED  BY <1>0, <2>1, <2>2, <2>2a, <2>4, <2>5 DEF WrittenInOrder
<1>2. CASE Take
  <2>1. logline' = order[taken + 1] /\ taken + 1 \in Window
    BY <1>2, TakeKeepsRing
  <2>2. /\ logline = NoLine /\ logline' # NoLine /\ taken' = taken + 1
        /\ UNCHANGED <<order, file, good>>
    BY <1>2 DEF Take, writer, Types, HaveLines
  <2>3. InHand = 0 /\ InHand' = 1
    BY <2>2 DEF InHand
  <2>. QED  BY <1>0, <2>1, <2>2, <2>3 DEF WrittenInOrder
<1>3. ASSUME NEW t \in Threads, Claim(t) PROVE good' /\ WrittenInOrder'
  <2>1. UNCHANGED <<file, good, logline, taken>>
    BY <1>3 DEF Claim, writer, thread
  <2>2. \A i \in 1..Len(order) : order'[i] = order[i]
    <3>1. order \in Seq(Lines) /\ Line(t) \in Lines /\ order' = Append(order, Line(t))
      BY <1>3, LineOf, TypeParts DEF Types, Sequences, Claim
    <3>. HIDE DEF Line
    <3>. QED  BY <3>1
  <2>3. InHand' = InHand /\ (logline # NoLine => taken \in 1..Len(order))
    BY <1>0, <2>1 DEF InHand
  <2>. QED  BY <1>0, <2>1, <2>2, <2>3 DEF WrittenInOrder
<1>4. CASE UNCHANGED <<file, logline, order, taken>>
  <2>1. WrittenInOrder'
    BY <1>4 DEF WrittenInOrder, InHand
  <2>2. good'
    BY HistoryGrows, TypeParts DEF Types, Scalars
  <2>. QED  BY <2>1, <2>2
<1>. QED
  BY <1>1, <1>2, <1>3, <1>4 DEF Next, vars, queue, writer, thread, Exited,
     Initialize, Shutdown, Midnight, ConsoleCloses, Pop, CheckState, TakeNothing,
     CheckDay, RollFile, Start, Push, Put

LEMMA KeepsStep == IndexesFit /\ KeepsInv /\ [Next]_vars => KeepsInv'
<1>. SUFFICES ASSUME IndexesFit, KeepsInv, [Next]_vars PROVE KeepsInv'
  OBVIOUS
<1>1. Types /\ Types' /\ EndsLast /\ EndsLast'
  BY TypesStep, EndsLastStep DEF KeepsInv
<1>2. (overrun => overrun') /\ (failed => failed')
  BY HistoryGrows
<1>3. ~overrun' => Held' /\ EndsEmpty'
  <2>. SUFFICES ASSUME ~overrun' PROVE Held' /\ EndsEmpty'
    OBVIOUS
  <2>1. Held /\ EndsEmpty
    BY <1>2 DEF KeepsInv
  <2>2. Held'
    BY <1>1, <2>1, RingKept, HeldKept, TakeKeepsRing, ClaimKeepsRing,
       PutKeepsRing DEF Push
  <2>. QED  BY <1>1, <2>1, <2>2, EndsEmptyStep
<1>4. ~overrun' /\ ~failed' => good' /\ WrittenInOrder'
  BY <1>1, <1>2, WrittenStep DEF KeepsInv
<1>. QED  BY <1>1, <1>3, <1>4 DEF KeepsInv

LEMMA KeepsInvKeepsUp == KeepsInv => KeepsUp
<1>. SUFFICES ASSUME KeepsInv, ~overrun, ~failed
              PROVE  /\ IsPrefix(Written, order)
                     /\ cpc = "ended" => Written = order
  BY DEF KeepsUp
<1>1. Types /\ Held /\ EndsEmpty /\ WrittenInOrder
  BY DEF KeepsInv
<1>2. /\ taken \in Nat /\ Len(order) \in Nat /\ taken <= Len(order)
      /\ Len(file) \in Nat /\ DOMAIN file = 1..Len(file)
      /\ \A i \in 1..Len(order) : order[i] \in Lines
      /\ InHand \in 0..1 /\ Len(file) = taken - InHand
      /\ \A i \in 1..Len(file) : file[i].line = order[i]
  BY <1>1, WindowTypes, FileTypes DEF Held, IndexesCount, InHand, WrittenInOrder
<1>2a. order \in Seq(Lines)
  BY <1>1, TypeParts DEF Types, Sequences
<1>3. /\ Written \in Seq(Lines) /\ Len(Written) = Len(file)
      /\ \A i \in 1..Len(file) : Written[i] = order[i]
  BY <1>2 DEF Written
<1>. HIDE DEF Written
<1>4. IsPrefix(Written, order)
  BY <1>2, <1>2a, <1>3 DEF IsPrefix
<1>5. cpc = "ended" => Written = order
  BY <1>1, <1>2, <1>2a, <1>3 DEF EndsEmpty, InHand, Types, HaveLines
<1>. QED  BY <1>4, <1>5

\* RingBuffer of src/src/log/NanoLog.cpp, as long as it is not overrun: whichever
\* order its slots are filled in, lines are written in the order of the claims,
\* and all of them before the thread ends; the indexes may wrap any number
\* of times, provided that the size of the ring divides their range.
THEOREM RingKeepsUp == ASSUME IndexesFit PROVE Spec => []KeepsUp
<1>1. KeepsInv /\ [Next]_vars => KeepsInv'
  BY KeepsStep
<1>. QED  BY <1>1, KeepsInit, KeepsInvKeepsUp, PTL DEF Spec

=============================================================================
