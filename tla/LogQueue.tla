------------------------------ MODULE LogQueue ------------------------------
(***************************************************************************)
(* The guaranteed logger of src/src/log/NanoLog.cpp: QueueBuffer, Buffer   *)
(* and the NanoLogger thread that hands the lines to FileWriter::write().  *)
(* What the writer's stream makes of them, which may fail, is in LogRing.  *)
(*                                                                         *)
(* A step is one access to an atomic variable, or one critical section of  *)
(* m_flag, with the thread-local work around it.  Buffers are numbered in  *)
(* the order they are made; those freed so far are the first `freed' ones. *)
(* The n-th line of thread t is <<t, n>>.                                  *)
(*                                                                         *)
(* The atomic accesses are taken in one order, as if none were relaxed.    *)
(* Those of m_write_index are: where a processor lets a thread see the     *)
(* reset index before the new buffer, a push may load the old one, which   *)
(* is not in the model.                                                    *)
(***************************************************************************)
EXTENDS Integers, Sequences, FiniteSets

CONSTANTS
  Threads,       \* the threads that log
  NoLine,        \* a slot that is not written
  Size,          \* Buffer::size
  MaxLines       \* bound: the lines of one thread

ASSUME LogAssumption ==
  /\ NoLine \notin Threads \X Nat
  /\ Size \in Nat \ {0}
  /\ MaxLines \in Nat

VARIABLES
  state,         \* m_state
  logged,        \* for every thread the number of lines it has started to log
  pc,            \* where every thread is in push()
  index,         \* push(): write_index
  target,        \* push(): the buffer it has loaded
  slots,         \* for every buffer its items, NoLine where the state is 0
  count,         \* for every buffer m_write_state[size]
  buffers,       \* m_buffers, the front first
  writeBuffer,   \* m_current_write_buffer
  writeIndex,    \* m_write_index
  freed,         \* how many buffers have been destroyed
  readBuffer,    \* m_current_read_buffer, 0 for nullptr
  readIndex,     \* m_read_index
  cpc,           \* where the logging thread is
  draining,      \* whether it is in the loop that follows the shutdown
  logline,       \* the line it has popped and not written
  handed         \* the lines it has handed to FileWriter::write()

producer == <<logged, pc, index, target>>
consumer == <<readBuffer, readIndex, cpc, draining, logline, handed>>
shared == <<slots, count, buffers, writeBuffer, writeIndex, freed>>
vars == <<state, producer, consumer, shared>>

NoBuffer == 0
Lines == Threads \X (1..MaxLines)
Empty == [i \in 0..(Size - 1) |-> NoLine]
Line(t) == <<t, logged[t]>>

Init ==
  /\ state = "INIT"
  /\ logged = [t \in Threads |-> 0]
  /\ pc = [t \in Threads |-> "out"]
  /\ index = [t \in Threads |-> 0]
  /\ target = [t \in Threads |-> NoBuffer]
  /\ slots = <<Empty>>
  /\ count = <<0>>
  /\ buffers = <<1>>
  /\ writeBuffer = 1
  /\ writeIndex = 0
  /\ freed = 0
  /\ readBuffer = NoBuffer
  /\ readIndex = 0
  /\ cpc = "starting"
  /\ draining = FALSE
  /\ logline = NoLine
  /\ handed = <<>>

-----------------------------------------------------------------------------
(* The life of the logger *)

\* The end of initialize(): from here on threads find the logger.
Initialize ==
  /\ state = "INIT"
  /\ state' = "READY"
  /\ UNCHANGED <<producer, consumer, shared>>

\* ~NanoLogger(), at the exit of a program whose other threads have ended.
Shutdown ==
  /\ state = "READY"
  /\ \A t \in Threads : pc[t] = "out"
  /\ state' = "SHUTDOWN"
  /\ UNCHANGED <<producer, consumer, shared>>

\* The join is over: nothing is left to do.
Exited ==
  /\ cpc = "ended"
  /\ UNCHANGED vars

-----------------------------------------------------------------------------
(* The threads that log: QueueBuffer::push() and Buffer::push() *)

Goto(t, label) == pc' = [pc EXCEPT ![t] = label]

Start(t) ==
  /\ state = "READY"
  /\ pc[t] = "out"
  /\ logged[t] < MaxLines
  /\ logged' = [logged EXCEPT ![t] = @ + 1]
  /\ Goto(t, "pushing")
  /\ UNCHANGED <<state, index, target, consumer, shared>>

\* The slots of the current buffer are handed out by a counter; who gets none
\* has to wait for the next buffer.
HasSlotMutant == writeIndex <= Size
HasSlot == writeIndex < Size

Claim(t) ==
  /\ pc[t] = "pushing"
  /\ index' = [index EXCEPT ![t] = writeIndex]
  /\ writeIndex' = writeIndex + 1
  /\ Goto(t, IF HasSlot THEN "claimed" ELSE "spinning")
  /\ UNCHANGED <<state, logged, target, consumer, slots, count, buffers,
                 writeBuffer, freed>>

Spin(t) ==
  /\ pc[t] = "spinning"
  /\ HasSlot
  /\ Goto(t, "pushing")
  /\ UNCHANGED <<state, logged, index, target, consumer, shared>>

Load(t) ==
  /\ pc[t] = "claimed"
  /\ target' = [target EXCEPT ![t] = writeBuffer]
  /\ Goto(t, "loaded")
  /\ UNCHANGED <<state, logged, index, consumer, shared>>

\* The item is constructed and its state set.
Store(t) ==
  /\ pc[t] = "loaded"
  /\ slots' = [slots EXCEPT ![target[t]][index[t]] = Line(t)]
  /\ Goto(t, "stored")
  /\ UNCHANGED <<state, logged, index, target, consumer, count, buffers,
                 writeBuffer, writeIndex, freed>>

\* This push is the one that completes the buffer.
Completes(b) == count[b] + 1 = Size

\* The push is counted.  In a buffer that is freed already the counter can
\* have any value.
Count(t) ==
  LET b == target[t] IN
  /\ pc[t] = "stored"
  /\ \E last \in IF b <= freed THEN BOOLEAN ELSE {Completes(b)} :
       Goto(t, IF last THEN "installing" ELSE "out")
  /\ count' = [count EXCEPT ![b] = @ + 1]
  /\ UNCHANGED <<state, logged, index, target, consumer, slots, buffers,
                 writeBuffer, writeIndex, freed>>

\* setup_next_write_buffer(): the new buffer becomes the current one ...
Install(t) ==
  /\ pc[t] = "installing"
  /\ slots' = Append(slots, Empty)
  /\ count' = Append(count, 0)
  /\ writeBuffer' = Len(slots')
  /\ target' = [target EXCEPT ![t] = Len(slots')]
  /\ Goto(t, "enlisting")
  /\ UNCHANGED <<state, logged, index, consumer, buffers, writeIndex, freed>>

\* ... and, under the lock, the last of the queue; its slots can be claimed.
ReopenMutant == UNCHANGED writeIndex
Reopen == writeIndex' = 0

Enlist(t) ==
  /\ pc[t] = "enlisting"
  /\ buffers' = Append(buffers, target[t])
  /\ Reopen
  /\ Goto(t, "out")
  /\ UNCHANGED <<state, logged, index, target, consumer, slots, count,
                 writeBuffer, freed>>

Push(t) ==
  \/ Claim(t) \/ Spin(t) \/ Load(t) \/ Store(t)
  \/ Count(t) \/ Install(t) \/ Enlist(t)

-----------------------------------------------------------------------------
(* The logging thread: NanoLogger::pop() and QueueBuffer::try_pop() *)

\* m_state is tested before every line, until it is SHUTDOWN; what is still
\* there then is popped and written before the thread ends.
DrainMutant == cpc' = "ended" /\ UNCHANGED draining
Drain == cpc' = "popping" /\ draining' = TRUE

CheckReady ==
  /\ cpc \in {"starting", "checking"}
  /\ state = "READY"
  /\ cpc' = "popping"
  /\ UNCHANGED <<state, producer, readBuffer, readIndex, draining, logline,
                 handed, shared>>

CheckShutdown ==
  /\ cpc \in {"starting", "checking"}
  /\ state = "SHUTDOWN"
  /\ Drain
  /\ UNCHANGED <<state, producer, readBuffer, readIndex, logline, handed,
                 shared>>

\* The loop goes on with the next line, the last one with a test of m_state.
NextTurn == cpc' = IF draining THEN "popping" ELSE "checking"

\* try_pop() has found nothing: the thread sleeps, or ends.
NothingFound == cpc' = IF draining THEN "ended" ELSE "checking"

\* get_next_read_buffer()
NextReadBufferMutant == IF Len(buffers) < 2 THEN NoBuffer ELSE Head(buffers)
NewestMutant == IF buffers = <<>> THEN NoBuffer ELSE buffers[Len(buffers)]
NextReadBuffer == IF buffers = <<>> THEN NoBuffer ELSE Head(buffers)

FetchBuffer ==
  /\ cpc = "popping"
  /\ readBuffer = NoBuffer
  /\ readBuffer' = NextReadBuffer
  /\ IF readBuffer' = NoBuffer THEN NothingFound ELSE UNCHANGED cpc
  /\ UNCHANGED <<state, producer, readIndex, draining, logline, handed, shared>>

\* That was the last slot of the buffer.
ReadAllMutant == readIndex = Size
ReadAll == readIndex + 1 = Size

\* The next slot is written: its line is taken.
PopLine ==
  /\ cpc = "popping"
  /\ readBuffer # NoBuffer
  /\ slots[readBuffer][readIndex] # NoLine
  /\ logline' = slots[readBuffer][readIndex]
  /\ IF ReadAll
       THEN /\ readIndex' = 0
            /\ readBuffer' = NoBuffer
            /\ cpc' = "dropping"
       ELSE /\ readIndex' = readIndex + 1
            /\ cpc' = "writing"
            /\ UNCHANGED readBuffer
  /\ UNCHANGED <<state, producer, draining, handed, shared>>

\* The next slot is not written: try_pop() fails, whatever is behind it.
PopNothing ==
  /\ cpc = "popping"
  /\ readBuffer # NoBuffer
  /\ slots[readBuffer][readIndex] = NoLine
  /\ NothingFound
  /\ UNCHANGED <<state, producer, readBuffer, readIndex, draining, logline,
                 handed, shared>>

\* The buffer that has been read leaves the queue and is destroyed, whether or
\* not the push of its last line has been counted.
DropBuffer ==
  /\ cpc = "dropping"
  /\ buffers' = Tail(buffers)
  /\ freed' = freed + 1
  /\ cpc' = "writing"
  /\ UNCHANGED <<state, producer, readBuffer, readIndex, draining, logline,
                 handed, slots, count, writeBuffer, writeIndex>>

\* The line is handed on, and the loop knows nothing of what becomes of it.
Write ==
  /\ cpc = "writing"
  /\ handed' = Append(handed, logline)
  /\ logline' = NoLine
  /\ NextTurn
  /\ UNCHANGED <<state, producer, readBuffer, readIndex, draining, shared>>

Pop ==
  \/ CheckReady \/ CheckShutdown \/ FetchBuffer \/ PopLine \/ PopNothing
  \/ DropBuffer \/ Write

-----------------------------------------------------------------------------

Next ==
  \/ Initialize \/ Shutdown \/ Exited
  \/ Pop
  \/ \E t \in Threads : Start(t) \/ Push(t)

Spec == Init /\ [][Next]_vars

\* The scheduler runs the logging thread and every thread that is in push().
FairSpec == Spec /\ WF_vars(Pop) /\ \A t \in Threads : WF_vars(Push(t))

\* Assumed, not ensured by the code: all pushes into a buffer have counted when
\* the logging thread frees it.
InTime == \A b \in 1..freed : count[b] = Size

TimelySpec == Init /\ [][Next /\ InTime']_vars

-----------------------------------------------------------------------------
(* Properties *)

TypeOK ==
  /\ state \in {"INIT", "READY", "SHUTDOWN"}
  /\ logged \in [Threads -> 0..MaxLines]
  /\ pc \in [Threads -> {"out", "pushing", "spinning", "claimed", "loaded",
                         "stored", "installing", "enlisting"}]
  /\ index \in [Threads -> Nat]
  /\ target \in [Threads -> 0..Len(slots)]
  /\ slots \in Seq([0..(Size - 1) -> Lines \cup {NoLine}])
  /\ count \in Seq(Nat) /\ Len(count) = Len(slots)
  /\ buffers \in Seq(1..Len(slots))
  /\ writeBuffer \in 1..Len(slots)
  /\ writeIndex \in Nat
  /\ freed \in 0..Len(slots)
  /\ readBuffer \in 0..Len(slots)
  /\ readIndex \in 0..(Size - 1)
  /\ cpc \in {"starting", "checking", "popping", "dropping", "writing", "ended"}
  /\ draining \in BOOLEAN
  /\ logline \in Lines \cup {NoLine}
  /\ handed \in Seq(Lines)

\* If buffers are freed in time, between the claim of a slot and its store nobody
\* else gets at it: the slot belongs to one thread, is not written, and its buffer
\* stays the current one.
SlotOwned ==
  \A t \in Threads :
    pc[t] \in {"claimed", "loaded"} =>
      /\ index[t] \in 0..(Size - 1)
      /\ slots[writeBuffer][index[t]] = NoLine
      /\ pc[t] = "loaded" => target[t] = writeBuffer
      /\ \A u \in Threads \ {t} :
           pc[u] \in {"claimed", "loaded"} => index[u] # index[t]

\* The buffers in the queue, and the positions of their slots in one long row.
\* A buffer that is installed and not enlisted has no claimed slot yet.
Enlisted == freed + Len(buffers)
FirstPending ==
  IF cpc = "dropping" THEN (freed + 1) * Size ELSE freed * Size + readIndex
EndPending ==
  (Enlisted - 1) * Size + (IF HasSlot THEN writeIndex ELSE Size)

\* The line in a slot that has been claimed, stored or not.
LineAt(b, i) ==
  IF slots[b][i] # NoLine
    THEN slots[b][i]
    ELSE Line(CHOOSE t \in Threads : pc[t] \in {"claimed", "loaded"} /\ index[t] = i)

Pending ==
  (IF logline = NoLine THEN <<>> ELSE <<logline>>) \o
  [k \in 1..(EndPending - FirstPending) |->
     LET p == FirstPending + k - 1 IN LineAt((p \div Size) + 1, p % Size)]

\* If buffers are freed in time, LogQueue implements Log: a line is accepted when
\* its thread claims a slot, and the lines are handed on in the order of their
\* slots, each once, whichever order they are stored in and however many buffers
\* they span.
AbstractLog ==
  INSTANCE Log WITH
    accepted <- [t \in Threads |->
                   logged[t] - (IF pc[t] \in {"pushing", "spinning"} THEN 1 ELSE 0)],
    pending  <- Pending

LogSpec == AbstractLog!Spec

\* If buffers are freed in time, the logging thread does not end after the
\* shutdown before every line has been handed to the file writer.
NothingLost ==
  cpc = "ended" =>
    \A t \in Threads : \A n \in 1..logged[t] :
      \E i \in DOMAIN handed : handed[i] = <<t, n>>

\* If no buffer is ever freed before its pushes are counted, a thread that logs
\* gets out of push(): whoever counts last sets up the next buffer, and the
\* threads that spin find it.
PushReturns ==
  []InTime => \A t \in Threads : (pc[t] # "out") ~> (pc[t] = "out")

\* "Provides a guarantee log lines will not be dropped": every line is handed to
\* the file writer, without the logger being shut down ...
LinesHandedOn ==
  \A l \in Lines :
    (logged[l[1]] >= l[2]) ~> (\E i \in DOMAIN handed : handed[i] = l)

\* ... which holds if no buffer is ever freed before its pushes are counted.
LinesHandedOnInTime == []InTime => LinesHandedOn

=============================================================================
