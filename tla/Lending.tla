------------------------------- MODULE Lending -------------------------------
(***************************************************************************)
(* What a pool of resources promises its callers, without locks, queues,   *)
(* clocks or counters: every live object is either idle or lent to exactly *)
(* one thread, and a new object is made only when nothing is idle.         *)
(* Pool.tla, the model of src/src/lib/pool/pool.hpp, implements this       *)
(* specification; the refinement is the property Pool!LendingSpec.         *)
(***************************************************************************)
CONSTANTS
  Threads,      \* the threads that borrow objects
  Objects,      \* the identities objects can have
  NoObject,     \* "lent nothing"
  Initial       \* the objects that are idle at the start

VARIABLES
  idle,         \* the objects waiting to be borrowed
  lent          \* for every thread the object it holds, or NoObject

vars == <<idle, lent>>

Live == idle \cup ({lent[t] : t \in Threads} \ {NoObject})

Init ==
  /\ idle = Initial
  /\ lent = [t \in Threads |-> NoObject]

\* A thread borrows one of the idle objects.
Lend(t) ==
  /\ lent[t] = NoObject
  /\ \E r \in idle :
       /\ lent' = [lent EXCEPT ![t] = r]
       /\ idle' = idle \ {r}

\* A thread is given an object nobody has, because none is idle.
LendNew(t) ==
  /\ lent[t] = NoObject
  /\ idle = {}
  /\ \E r \in Objects \ Live : lent' = [lent EXCEPT ![t] = r]
  /\ UNCHANGED idle

\* A thread gives its object back; the pool keeps it ...
Return(t) ==
  /\ lent[t] # NoObject
  /\ idle' = idle \cup {lent[t]}
  /\ lent' = [lent EXCEPT ![t] = NoObject]

\* ... or destroys it.
Discard(t) ==
  /\ lent[t] # NoObject
  /\ lent' = [lent EXCEPT ![t] = NoObject]
  /\ UNCHANGED idle

\* An idle object is destroyed.
Evict ==
  /\ \E r \in idle : idle' = idle \ {r}
  /\ UNCHANGED lent

Next ==
  \/ \E t \in Threads : Lend(t) \/ LendNew(t) \/ Return(t) \/ Discard(t)
  \/ Evict

Spec == Init /\ [][Next]_vars

=============================================================================
