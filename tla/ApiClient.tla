------------------------------ MODULE ApiClient ------------------------------
(***************************************************************************)
(* The client API, src/src/api/api.cpp and src/src/api/tcp/connection.cpp, *)
(* in a process with several threads, against a service (Service.tla) that *)
(* stops, is killed and starts again.                                      *)
(*                                                                         *)
(* The pool is taken by its specification: Lending, which Pool implements, *)
(* and the counter as Pool's Accounting describes it.                      *)
(***************************************************************************)
EXTENDS Service, Integers, FiniteSets

CONSTANTS
  Threads,         \* the threads of the client
  NoConnection,    \* "lent nothing"
  MaxPoolSize,     \* Configuration::maxPoolSize
  MaxConnections   \* Configuration::maxConnections

ASSUME ApiAssumption ==
  /\ IsFiniteSet(Threads) /\ IsFiniteSet(Connections)
  /\ Cardinality(Connections) >= Cardinality(Threads)
  /\ NoConnection \notin Connections
  /\ MaxPoolSize \in Nat \ {0}
  /\ MaxConnections \in Nat \ {0}

VARIABLES
  init,            \* where every thread is in its call of init()
  names,           \* how often pconnection::server and port were appended to
  ioc,             \* pconnection::ioc is set
  overlapped,      \* history: two calls of init() have overlapped
  holder,          \* PoolHolder's static: "none", "building" or "ready"
  call,            \* where every thread is, or how its last call has ended
  idle, lent,      \* the pool, as in Lending
  leaked           \* the connects that threw with the counter incremented

settings == <<init, names, ioc, overlapped>>
pool == <<idle, lent, leaked>>
client == <<settings, holder, call, pool>>
vars == <<service, client>>

Lender ==
  INSTANCE Lending WITH
    Objects  <- Connections,
    NoObject <- NoConnection,
    Initial  <- {}

Ends == {"text", "empty", "thrown"}
Between == {"out"} \cup Ends

Init ==
  /\ ServiceInit
  /\ init = [t \in Threads |-> "before"]
  /\ names = 0
  /\ ioc = FALSE
  /\ overlapped = FALSE
  /\ holder = "none"
  /\ call = [t \in Threads |-> "out"]
  /\ Lender!Init
  /\ leaked = 0

-----------------------------------------------------------------------------
(* init() *)

\* server.empty() is tested without the mutex.
IsFirstMutant == TRUE
IsFirst == names = 0

EnterInit(t) ==
  /\ init[t] = "before"
  /\ call[t] \in Between
  /\ init' = [init EXCEPT ![t] = IF IsFirst THEN "appending" ELSE "returned"]
  /\ overlapped' = (overlapped \/ \E u \in Threads : init[u] \in {"appending", "setting"})
  /\ UNCHANGED <<service, names, ioc, holder, call, pool>>

\* The mutex is taken, the names are appended ...
AppendNames(t) ==
  /\ init[t] = "appending"
  /\ \A u \in Threads : init[u] # "setting"
  /\ names' = names + 1
  /\ init' = [init EXCEPT ![t] = "setting"]
  /\ UNCHANGED <<service, ioc, overlapped, holder, call, pool>>

\* ... and the context is set.
SetContext(t) ==
  /\ init[t] = "setting"
  /\ ioc' = TRUE
  /\ init' = [init EXCEPT ![t] = "returned"]
  /\ UNCHANGED <<service, names, overlapped, holder, call, pool>>

-----------------------------------------------------------------------------
(* encrypt() and decrypt() *)

Goto(t, label) == call' = [call EXCEPT ![t] = label]

\* create() finds the service if the names are right and somebody listens; with
\* no context it is undefined, and throwing stands for that.
Finds == ioc /\ names = 1 /\ CanConnect

\* Once an init() has returned, the API is called.  A thread waits while another
\* one is in the constructor of the static.
Begin(t) ==
  /\ \E u \in Threads : init[u] = "returned"
  /\ init[t] \notin {"appending", "setting"}
  /\ call[t] \in Between
  /\ Goto(t, "entering")
  /\ UNCHANGED <<service, settings, holder, pool>>

BeginBuild(t) ==
  /\ call[t] = "entering"
  /\ holder = "none"
  /\ holder' = "building"
  /\ Goto(t, "building")
  /\ UNCHANGED <<service, settings, pool>>

\* The pool is made with one connection, which is idle ...
BuildReturns(t) ==
  /\ call[t] = "building"
  /\ Finds
  /\ holder' = "ready"
  /\ \E c \in Connections :
       /\ Connect(c, "none")
       /\ idle' = {c}
  /\ Goto(t, "entering")
  /\ UNCHANGED <<settings, lent, leaked>>

\* ... or the constructor throws, the static is as it was, and so is the guard.
UnguardMutant == UNCHANGED holder
Unguard == holder' = "none"

BuildThrows(t) ==
  /\ call[t] = "building"
  /\ Unguard
  /\ Goto(t, "thrown")
  /\ UNCHANGED <<service, settings, pool>>

\* acquire(): the test of the limit, and the call that is refused.
Total == Cardinality({t \in Threads : lent[t] # NoConnection}) + leaked

Check(t) ==
  /\ call[t] = "entering"
  /\ holder = "ready"
  /\ Goto(t, IF Total >= MaxConnections THEN "empty" ELSE "acquiring")
  /\ UNCHANGED <<service, settings, holder, pool>>

\* An idle connection gets the request, behind what its streambuf still holds.  It
\* may have been closed long ago: the socket object is open, which is all that
\* socket() and valid() look at.
Request(c) == IF exchange[c] = "stale" THEN "garbled" ELSE "asked"

TakeIdle(t) ==
  /\ call[t] = "acquiring"
  /\ Lender!Lend(t)
  /\ exchange' = [exchange EXCEPT ![lent'[t]] = Request(lent'[t])]
  /\ Goto(t, "asking")
  /\ UNCHANGED <<process, listener, backlog, sessions, settings, holder, leaked>>

CreateReturns(t) ==
  /\ call[t] = "acquiring"
  /\ Finds
  /\ Lender!LendNew(t)
  /\ Connect(lent'[t], "asked")
  /\ Goto(t, "asking")
  /\ UNCHANGED <<settings, holder, leaked>>

\* The connection is refused: nobody takes back the increment of the counter.
CreateThrows(t) ==
  /\ call[t] = "acquiring"
  /\ idle = {}
  /\ leaked' = leaked + 1
  /\ Goto(t, "thrown")
  /\ UNCHANGED <<service, settings, holder, idle, lent>>

\* What a call that ends so leaves on its connection.  The bytes of an empty answer
\* stay in the streambuf, and a connection that is out of step stays so.
Left(c, end) ==
  IF end # "empty" /\ exchange[c] \in {"none", "asked", "answer"}
    THEN "none" ELSE "stale"

\* The Proxy is dropped: the connection goes back whatever has become of it, and
\* is closed only if the pool is full.
CloseMutant(c) == UNCHANGED <<backlog, sessions, exchange>>
CloseConnection(c) == Close(c)

Release(t, end) ==
  IF Cardinality(idle) < MaxPoolSize
    THEN /\ Lender!Return(t)
         /\ exchange' = [exchange EXCEPT ![lent[t]] = Left(lent[t], end)]
         /\ UNCHANGED <<backlog, sessions>>
    ELSE Lender!Discard(t) /\ CloseConnection(lent[t])

\* The answer is read, and is a text or empty ...
Receive(t) ==
  /\ call[t] = "asking"
  /\ exchange[lent[t]] \in {"answer", "stray"}
  /\ \E end \in {"text", "empty"} : Goto(t, end) /\ Release(t, end)
  /\ UNCHANGED <<process, listener, settings, holder, leaked>>

\* ... or the write or the read throws.
Breaks(t) ==
  /\ call[t] = "asking"
  /\ lent[t] \notin Open
  /\ Goto(t, "thrown")
  /\ Release(t, "thrown")
  /\ UNCHANGED <<process, listener, settings, holder, leaked>>

\* removeExpired() closes a connection that has idled for long enough.
Expire ==
  /\ Lender!Evict
  /\ \E c \in idle \ idle' : CloseConnection(c)
  /\ UNCHANGED <<process, listener, settings, holder, call, leaked>>

-----------------------------------------------------------------------------

InitStep(t) == EnterInit(t) \/ AppendNames(t) \/ SetContext(t)

Enter(t) == BeginBuild(t) \/ Check(t)

CallStep(t) ==
  \/ BuildReturns(t) \/ BuildThrows(t)
  \/ TakeIdle(t) \/ CreateReturns(t) \/ CreateThrows(t)
  \/ Receive(t) \/ Breaks(t)

Next ==
  \/ (ServiceStep \/ Environment) /\ UNCHANGED client
  \/ Expire
  \/ \E t \in Threads : InitStep(t) \/ Begin(t) \/ Enter(t) \/ CallStep(t)

Spec == Init /\ [][Next]_vars

\* The threads of the client are scheduled as well, and one that waits for the
\* static's guard gets it in the end.  Nothing makes it call.
FairSpec ==
  /\ Spec
  /\ ServiceFairness
  /\ \A t \in Threads : SF_vars(Enter(t)) /\ WF_vars(CallStep(t))

-----------------------------------------------------------------------------
(* Properties *)

\* Unless two calls of init() overlap, the names are those of the first call, no
\* later one adds to them, and every call of the API finds them and the context.
NamesOnce ==
  ~overlapped =>
    /\ names <= 1
    /\ (\E t \in Threads : call[t] # "out") => names = 1 /\ ioc

\* The io threads are started before there is anything to listen on; none of them
\* runs out of work, then or when the listener has ended, before a signal
\* stops the context.
WorksUntilStopped ==
  /\ \A w \in Workers : workers[w] = "ended" => stopped
  /\ main = "joining" => stopped

\* The service holds no session, and the kernel no connection, that the client
\* has dropped: whatever was lost or refused, the pool knows all of them.
NoOrphans == Open \subseteq Lender!Live

\* A call on a connection on which an earlier one has come back empty, so that
\* either end may wait for bytes that nobody sends.
Stuck(t) == call[t] = "asking" /\ exchange[lent[t]] = "stuck"

\* A call comes back or throws, whatever becomes of the service, of its listener,
\* and of the thread that is making the pool, unless it has been given a connection
\* that an empty answer has put out of step.
CallReturns ==
  \A t \in Threads :
    (call[t] \notin Between) ~> (call[t] \in Between \/ Stuck(t))

\* A signal ends the process, at whatever point of the start it comes.
SignalHonoured == signalled ~> (main = "down")

\* "If errors are encountered while encrypting an empty string is returned": no
\* call throws.
NeverThrows == \A t \in Threads : call[t] # "thrown"

=============================================================================
