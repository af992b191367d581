------------------------------- MODULE Service -------------------------------
(***************************************************************************)
(* The process of the TCP service, src/src/service/service.cpp: run() with *)
(* its io threads and its signal handler, the listener, and a session for  *)
(* every connection.  What a session does with a message is in Wire, and   *)
(* taken from it here: a connection that is in step gets an answer or is   *)
(* closed.  Once a call on it has come back empty, four bytes of its       *)
(* answer precede the next request, and then either end may wait for       *)
(* bytes that nobody sends.                                                *)
(*                                                                         *)
(* Boost.Asio is external: run() returns when the context is stopped or    *)
(* nothing is left to wait for, a coroutine runs on any thread in run(),   *)
(* and one that was spawned detached takes its exception with it.          *)
(***************************************************************************)
CONSTANTS
  Connections,   \* the connections a client can have
  Workers        \* the threads that run() starts; main() calls run() as well

VARIABLES
  main,          \* the thread of main(): "down" if there is no process
  workers,       \* for every thread of `v': "none", "running" or "ended"
  waiting,       \* the signal set's async_wait is outstanding
  signalled,     \* a signal has come and is not handled yet
  stopped,       \* ioc.stopped()
  listener,      \* the coroutine: "none", "spawned", "accepting" or "ended"
  backlog,       \* the connections the kernel has taken for the acceptor
  sessions,      \* the connections that serve() reads from
  exchange       \* for every connection the last message on it: see Messages

process == <<main, workers, waiting, signalled, stopped>>
service == <<process, listener, backlog, sessions, exchange>>

\* Nothing, a request in step and its answer; the bytes that an empty answer has
\* left, the request behind them, what looks like its answer, and the wait for ever.
Messages == {"none", "asked", "answer", "stale", "garbled", "stray", "stuck"}

\* A connection is open as long as the service has not closed it.
Open == backlog \cup sessions

ServiceInit ==
  /\ main = "down"
  /\ workers = [w \in Workers |-> "none"]
  /\ waiting = FALSE
  /\ signalled = FALSE
  /\ stopped = FALSE
  /\ listener = "none"
  /\ backlog = {}
  /\ sessions = {}
  /\ exchange = [c \in Connections |-> "none"]

-----------------------------------------------------------------------------
(* run() *)

\* The process starts: the context is made and waits for a signal.
WaitsMutant == waiting' = FALSE
Waits == waiting' = TRUE

Launch ==
  /\ main = "down"
  /\ main' = "starting"
  /\ workers' = [w \in Workers |-> "none"]
  /\ Waits
  /\ signalled' = FALSE
  /\ stopped' = FALSE
  /\ UNCHANGED <<listener, backlog, sessions, exchange>>

StartWorker(w) ==
  /\ main = "starting"
  /\ workers[w] = "none"
  /\ workers' = [workers EXCEPT ![w] = "running"]
  /\ UNCHANGED <<main, waiting, signalled, stopped, listener, backlog,
                 sessions, exchange>>

\* The pool of Encrypters is made and the listener spawned behind the threads.
SpawnListener ==
  /\ main = "starting"
  /\ \A w \in Workers : workers[w] # "none"
  /\ main' = "running"
  /\ listener' = "spawned"
  /\ UNCHANGED <<workers, waiting, signalled, stopped, backlog, sessions, exchange>>

\* ioc.run() has something to wait for; a thread is in it and can run a handler.
HasWork == waiting \/ listener \in {"spawned", "accepting"} \/ sessions # {}

InRun == main = "running" \/ \E w \in Workers : workers[w] = "running"

RunReturns == stopped \/ ~HasWork

WorkerEnds(w) ==
  /\ workers[w] = "running"
  /\ RunReturns
  /\ workers' = [workers EXCEPT ![w] = "ended"]
  /\ UNCHANGED <<main, waiting, signalled, stopped, listener, backlog,
                 sessions, exchange>>

MainEnds ==
  /\ main = "running"
  /\ RunReturns
  /\ main' = "joining"
  /\ UNCHANGED <<workers, waiting, signalled, stopped, listener, backlog,
                 sessions, exchange>>

Signal ==
  /\ main # "down"
  /\ signalled' = TRUE
  /\ UNCHANGED <<main, workers, waiting, stopped, listener, backlog, sessions,
                 exchange>>

\* The handler stops the context, once: the wait is over, and a signal that
\* comes later is not handled.
StopsMutant == UNCHANGED stopped
Stops == stopped' = TRUE

HandleSignal ==
  /\ signalled
  /\ waiting
  /\ InRun
  /\ waiting' = FALSE
  /\ Stops
  /\ UNCHANGED <<main, workers, signalled, listener, backlog, sessions, exchange>>

\* The process is gone, and with it every socket.
Gone ==
  /\ main' = "down"
  /\ workers' = [w \in Workers |-> "none"]
  /\ listener' = "none"
  /\ backlog' = {}
  /\ sessions' = {}
  /\ UNCHANGED <<waiting, signalled, stopped, exchange>>

\* The threads are joined.
Joined == \A w \in Workers : workers[w] # "running"

Return == main = "joining" /\ Joined /\ Gone

Killed == main # "down" /\ Gone

-----------------------------------------------------------------------------
(* The coroutines *)

Runs == InRun /\ ~stopped

\* The port is bound, or the constructor of the acceptor throws.
Bind ==
  /\ Runs
  /\ listener = "spawned"
  /\ listener' \in {"accepting", "ended"}
  /\ UNCHANGED <<process, backlog, sessions, exchange>>

Accept(c) ==
  /\ Runs
  /\ listener = "accepting"
  /\ c \in backlog
  /\ backlog' = backlog \ {c}
  /\ sessions' = sessions \cup {c}
  /\ UNCHANGED <<process, listener, exchange>>

\* async_accept throws, as when there are no descriptors left: the listener ends
\* and closes the acceptor, while sessions and threads go on.
AcceptThrows ==
  /\ Runs
  /\ listener = "accepting"
  /\ listener' = "ended"
  /\ backlog' = {}
  /\ UNCHANGED <<process, sessions, exchange>>

\* What a session can make of a request: an answer, if the connection is in step.
Outcomes(message) == IF message = "asked" THEN {"answer"} ELSE {"stray", "stuck"}

\* A session answers, waits for ever, or ends.  A handler that has begun when the
\* context is stopped is finished.
Serve(c) ==
  /\ InRun
  /\ c \in sessions
  /\ exchange[c] \in {"asked", "garbled"}
  /\ \/ /\ \E message \in Outcomes(exchange[c]) :
             exchange' = [exchange EXCEPT ![c] = message]
        /\ UNCHANGED sessions
     \/ sessions' = sessions \ {c} /\ UNCHANGED exchange
  /\ UNCHANGED <<process, listener, backlog>>

-----------------------------------------------------------------------------
(* What a client does to the service *)

\* The connection is made if somebody listens, with a request or without one.
CanConnect == listener = "accepting"

Connect(c, message) ==
  /\ CanConnect
  /\ backlog' = backlog \cup {c}
  /\ exchange' = [exchange EXCEPT ![c] = message]
  /\ UNCHANGED <<process, listener, sessions>>

\* The session finds the end of the file.
Close(c) ==
  /\ backlog' = backlog \ {c}
  /\ sessions' = sessions \ {c}
  /\ exchange' = [exchange EXCEPT ![c] = "none"]

-----------------------------------------------------------------------------

ServiceStep ==
  \/ SpawnListener \/ MainEnds \/ HandleSignal \/ Return \/ Bind
  \/ \E w \in Workers : StartWorker(w) \/ WorkerEnds(w)
  \/ \E c \in Connections : Accept(c) \/ Serve(c)

Environment == Launch \/ Signal \/ Killed \/ AcceptThrows

\* The threads of the process are scheduled.  Nothing makes it start.
ServiceFairness ==
  /\ WF_service(SpawnListener) /\ WF_service(MainEnds)
  /\ WF_service(HandleSignal) /\ WF_service(Return) /\ WF_service(Bind)
  /\ \A w \in Workers : WF_service(StartWorker(w)) /\ WF_service(WorkerEnds(w))
  /\ \A c \in Connections : WF_service(Accept(c)) /\ WF_service(Serve(c))

=============================================================================
