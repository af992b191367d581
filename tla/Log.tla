--------------------------------- MODULE Log ---------------------------------
(***************************************************************************)
(* What the guaranteed logger promises, without buffers, indices or locks: *)
(* the lines are put in one order as they are accepted, each thread's in   *)
(* the order it logs them, and handed to the file writer in that order,    *)
(* each once.  What the writer's stream does with them is not part of it.  *)
(* LogQueue.tla, the model of src/src/log/NanoLog.cpp, implements this     *)
(* specification; the refinement is the property LogQueue!LogSpec.         *)
(***************************************************************************)
EXTENDS Naturals, Sequences

CONSTANTS
  Threads       \* the threads that log

VARIABLES
  accepted,     \* for every thread how many of its lines have been accepted
  pending,      \* the lines that are accepted and not handed on yet
  handed        \* the lines handed to the file writer

vars == <<accepted, pending, handed>>

Init ==
  /\ accepted = [t \in Threads |-> 0]
  /\ pending = <<>>
  /\ handed = <<>>

\* The n-th line of thread t is <<t, n>>.
Accept(t) ==
  /\ accepted' = [accepted EXCEPT ![t] = @ + 1]
  /\ pending' = Append(pending, <<t, accepted'[t]>>)
  /\ UNCHANGED handed

Write ==
  /\ pending # <<>>
  /\ handed' = Append(handed, Head(pending))
  /\ pending' = Tail(pending)
  /\ UNCHANGED accepted

Next == Write \/ \E t \in Threads : Accept(t)

Spec == Init /\ [][Next]_vars

=============================================================================
