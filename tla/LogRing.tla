------------------------------- MODULE LogRing -------------------------------
(***************************************************************************)
(* The non-guaranteed logger of src/src/log/NanoLog.cpp: RingBuffer, the   *)
(* logging thread, and the FileWriter with its file per day (day.hpp) and  *)
(* its echo on the console (tee.hpp).                                      *)
(*                                                                         *)
(* A producer claims a slot with one atomic step and fills it in another;  *)
(* the spin lock of a slot makes the second a single step.  The wall clock *)
(* is read three times for a line: is it still the day of the file, which  *)
(* day does the new file belong to, and what time is printed.              *)
(***************************************************************************)
EXTENDS Integers, Sequences, SequencesExt

CONSTANTS
  Threads,       \* the threads that log
  NoLine,        \* a slot whose `written' is 0
  Size,          \* m_size
  Wrap,          \* the indexes are unsigned int: they count modulo Wrap
  Echo,          \* FileWriter::echo
  MaxLines,      \* bound: the lines of one thread
  MaxDay         \* bound: the last day

ASSUME RingAssumption ==
  /\ NoLine \notin Threads \X Nat
  /\ Size \in Nat \ {0}
  /\ Wrap \in Nat \ {0}
  /\ Echo \in BOOLEAN
  /\ MaxLines \in Nat
  /\ MaxDay \in Nat

VARIABLES
  state,         \* m_state
  logged,        \* for every thread the number of lines it has started to log
  pc,            \* where every thread is in push()
  slot,          \* push(): write_index
  ring,          \* m_ring: the line of every slot
  writeIndex,    \* m_write_index
  readIndex,     \* m_read_index
  cpc,           \* where the logging thread is
  draining,      \* whether it is in the loop that follows the shutdown
  logline,       \* the line it has popped and not written
  today,         \* the day of system_clock
  day,           \* FileWriter::day
  good,          \* the stream that is written to has not failed
  console,       \* std::cout can be written
  file,          \* what is in the files: lines, the day of the file, the time
  order,         \* history: the lines in the order their slots were claimed
  taken,         \* history: how many lines have been popped
  overrun,       \* history: there once were more lines than slots
  dropped,       \* history: the lines that were overwritten in the ring
  failed         \* history: a stream has failed

producer == <<logged, pc, slot>>
queue == <<ring, writeIndex, readIndex, order, taken, overrun, dropped>>
thread == <<cpc, draining, logline>>
writer == <<day, good, file, failed>>
clock == <<today, console>>
vars == <<state, producer, queue, thread, writer, clock>>

Lines == Threads \X (1..MaxLines)
Line(t) == <<t, logged[t]>>

Init ==
  /\ state = "INIT"
  /\ logged = [t \in Threads |-> 0]
  /\ pc = [t \in Threads |-> "out"]
  /\ slot = [t \in Threads |-> 0]
  /\ ring = [i \in 0..(Size - 1) |-> NoLine]
  /\ writeIndex = 0
  /\ readIndex = 0
  /\ cpc = "checking"
  /\ draining = FALSE
  /\ logline = NoLine
  /\ today = 0
  /\ day = 0
  /\ good \in BOOLEAN
  /\ console = TRUE
  /\ file = <<>>
  /\ order = <<>>
  /\ taken = 0
  /\ overrun = FALSE
  /\ dropped = {}
  /\ failed = ~good

-----------------------------------------------------------------------------
(* The life of the logger, and the world around it *)

Initialize ==
  /\ state = "INIT"
  /\ state' = "READY"
  /\ UNCHANGED <<producer, queue, thread, writer, clock>>

\* ~NanoLogger(), at the exit of a program whose other threads have ended.
Shutdown ==
  /\ state = "READY"
  /\ \A t \in Threads : pc[t] = "out"
  /\ state' = "SHUTDOWN"
  /\ UNCHANGED <<producer, queue, thread, writer, clock>>

\* The join is over: nothing is left to do.
Exited ==
  /\ cpc = "ended"
  /\ UNCHANGED vars

Midnight ==
  /\ today < MaxDay
  /\ today' = today + 1
  /\ UNCHANGED <<state, producer, queue, thread, writer, console>>

\* The terminal or the pipe behind std::cout is closed.
ConsoleCloses ==
  /\ Echo
  /\ console
  /\ console' = FALSE
  /\ UNCHANGED <<state, producer, queue, thread, writer, today>>

-----------------------------------------------------------------------------
(* The threads that log: RingBuffer::push() *)

Goto(t, label) == pc' = [pc EXCEPT ![t] = label]

Start(t) ==
  /\ state = "READY"
  /\ pc[t] = "out"
  /\ logged[t] < MaxLines
  /\ logged' = [logged EXCEPT ![t] = @ + 1]
  /\ Goto(t, "pushing")
  /\ UNCHANGED <<state, slot, queue, thread, writer, clock>>

\* An index one further on.
IncrementMutant(index) == index + 1
Increment(index) == (index + 1) % Wrap

Claim(t) ==
  /\ pc[t] = "pushing"
  /\ slot' = [slot EXCEPT ![t] = writeIndex % Size]
  /\ writeIndex' = Increment(writeIndex)
  /\ order' = Append(order, Line(t))
  /\ overrun' = (overrun \/ Len(order') - taken > Size)
  /\ Goto(t, "claimed")
  /\ UNCHANGED <<state, logged, ring, readIndex, taken, dropped, thread,
                 writer, clock>>

\* Whatever the slot holds is overwritten.
Put(t) ==
  /\ pc[t] = "claimed"
  /\ ring' = [ring EXCEPT ![slot[t]] = Line(t)]
  /\ dropped' = dropped \cup ({ring[slot[t]]} \ {NoLine})
  /\ Goto(t, "out")
  /\ UNCHANGED <<state, logged, slot, writeIndex, readIndex, order, taken,
                 overrun, thread, writer, clock>>

Push(t) == Claim(t) \/ Put(t)

-----------------------------------------------------------------------------
(* The logging thread: NanoLogger::pop() with RingBuffer::try_pop() *)

\* m_state is tested before every line, until it is SHUTDOWN; what can be
\* popped then is written before the thread ends.
AfterShutdownMutant == "ended"
AfterShutdown == "popping"

CheckState ==
  /\ cpc = "checking"
  /\ state # "INIT"
  /\ cpc' = IF state = "READY" THEN "popping" ELSE AfterShutdown
  /\ draining' = (state = "SHUTDOWN")
  /\ UNCHANGED <<state, producer, queue, logline, writer, clock>>

NextTurn == cpc' = IF draining THEN "popping" ELSE "checking"

Slot == readIndex % Size

\* The slot is free again.
EmptySlotMutant == UNCHANGED ring
EmptySlot == ring' = [ring EXCEPT ![Slot] = NoLine]

AdvanceMutant == UNCHANGED readIndex
Advance == readIndex' = Increment(readIndex)

Take ==
  /\ cpc = "popping"
  /\ ring[Slot] # NoLine
  /\ logline' = ring[Slot]
  /\ EmptySlot
  /\ Advance
  /\ taken' = taken + 1
  /\ cpc' = "dating"
  /\ UNCHANGED <<state, producer, writeIndex, order, overrun, dropped,
                 draining, writer, clock>>

\* The slot is not written: the thread sleeps or ends, whatever other slots hold.
TakeNothing ==
  /\ cpc = "popping"
  /\ ring[Slot] = NoLine
  /\ cpc' = IF draining THEN "ended" ELSE "checking"
  /\ UNCHANGED <<state, producer, queue, draining, logline, writer, clock>>

-----------------------------------------------------------------------------
(* FileWriter::write() *)

CheckDay ==
  /\ cpc = "dating"
  /\ cpc' = IF day = today THEN "writing" ELSE "rolling"
  /\ UNCHANGED <<state, producer, queue, draining, logline, writer, clock>>

\* roll_file(): the new file is of the day that the clock shows by now.  The
\* new stream is good if the file can be opened.
TodayMutant == day
Today == today

RollFile ==
  /\ cpc = "rolling"
  /\ day' = Today
  /\ good' \in BOOLEAN
  /\ failed' = (failed \/ ~good')
  /\ cpc' = "writing"
  /\ UNCHANGED <<state, producer, queue, draining, logline, file, clock>>

\* The tee writes both buffers and reports a failure of either, at a character or
\* when it is flushed behind the line; the stream on top of it then writes
\* nothing more, until the file is rolled.
Writable == good /\ (Echo => console)

Write ==
  /\ cpc = "writing"
  /\ good' = Writable
  /\ failed' = (failed \/ ~Writable)
  /\ \/ file' = Append(file, [line |-> logline, day |-> day, time |-> today]) /\ good
     \/ UNCHANGED file /\ ~Writable
  /\ logline' = NoLine
  /\ NextTurn
  /\ UNCHANGED <<state, producer, queue, draining, day, clock>>

Pop ==
  \/ CheckState \/ Take \/ TakeNothing \/ CheckDay \/ RollFile \/ Write

-----------------------------------------------------------------------------

Next ==
  \/ Initialize \/ Shutdown \/ Exited \/ Midnight \/ ConsoleCloses
  \/ Pop
  \/ \E t \in Threads : Start(t) \/ Push(t)

Spec == Init /\ [][Next]_vars

\* The scheduler runs the logging thread and every thread that is in push().
FairSpec == Spec /\ WF_vars(Pop) /\ \A t \in Threads : WF_vars(Push(t))

-----------------------------------------------------------------------------
(* Properties *)

TypeOK ==
  /\ state \in {"INIT", "READY", "SHUTDOWN"}
  /\ logged \in [Threads -> 0..MaxLines]
  /\ pc \in [Threads -> {"out", "pushing", "claimed"}]
  /\ slot \in [Threads -> 0..(Size - 1)]
  /\ ring \in [0..(Size - 1) -> Lines \cup {NoLine}]
  /\ writeIndex \in 0..(Wrap - 1)
  /\ readIndex \in 0..(Wrap - 1)
  /\ cpc \in {"checking", "popping", "dating", "rolling", "writing", "ended"}
  /\ {draining, good, console, overrun, failed} \subseteq BOOLEAN
  /\ logline \in Lines \cup {NoLine}
  /\ {today, day} \subseteq 0..MaxDay
  /\ file \in Seq([line : Lines, day : 0..MaxDay, time : 0..MaxDay])
  /\ order \in Seq(Lines)
  /\ taken \in Nat
  /\ dropped \subseteq Lines

Written == [i \in DOMAIN file |-> file[i].line]

\* Until there are more lines than slots, or a stream fails, the ring is as good
\* as the guaranteed logger: the file is in the order of the claims,
\* whichever order the slots are filled in, and in the end everything is in it.
KeepsUp ==
  ~overrun /\ ~failed =>
    /\ IsPrefix(Written, order)
    /\ cpc = "ended" => Written = order

\* Even when the ring is overrun, no line is written twice, and none that has
\* been overwritten in the ring turns up in the file.
AtMostOnce ==
  /\ \A i, j \in DOMAIN file : file[i].line = file[j].line => i = j
  /\ \A i \in DOMAIN file : file[i].line \notin dropped

\* A midnight between the test of the day and the time that is printed puts a line
\* into the file of the day before; it is one line only, and no line gets
\* into a file of a day that is still to come.
DaysInOrder ==
  \A i \in DOMAIN file :
    /\ file[i].day <= file[i].time
    /\ \A j \in (i + 1)..Len(file) : file[i].time <= file[j].day

\* A line that is in the ring is written without the logger being shut down,
\* unless the ring is overrun or a stream fails.
LinesWritten ==
  \A l \in Lines :
    (\E i \in DOMAIN ring : ring[i] = l)
      ~> (overrun \/ failed \/ \E i \in DOMAIN file : file[i].line = l)

=============================================================================
