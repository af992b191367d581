--------------------------- MODULE ApiClientProofs ---------------------------
(***************************************************************************)
(* What is proved of ApiClient for every set of threads, workers and       *)
(* connections and every configuration of the pool.  Each section names    *)
(* the inductive invariant its theorem rests on; the step lemmas have one  *)
(* case per action that can disturb it.                                    *)
(***************************************************************************)
EXTENDS ApiClient, TLAPS

-----------------------------------------------------------------------------
(* The io threads.  A process waits for a signal until one has stopped its *)
(* context, and without a process there are no threads.                    *)

ServiceTypes ==
  /\ workers \in [Workers -> {"none", "running", "ended"}]
  /\ waiting \in BOOLEAN
  /\ stopped \in BOOLEAN

WaitsOrStopped == main # "down" => waiting \/ stopped

DownIsEmpty == main = "down" => \A w \in Workers : workers[w] = "none"

WorkInv == ServiceTypes /\ WaitsOrStopped /\ DownIsEmpty /\ WorksUntilStopped

LEMMA WorkInit == Init => WorkInv
BY DEF Init, ServiceInit, WorkInv, ServiceTypes, WaitsOrStopped, DownIsEmpty,
       WorksUntilStopped

\* The client does not touch the process.
LEMMA ProcessStep ==
  ASSUME [Next]_vars
  PROVE  \/ UNCHANGED process
         \/ SpawnListener \/ MainEnds \/ HandleSignal \/ Return
         \/ \E w \in Workers : StartWorker(w) \/ WorkerEnds(w)
         \/ Launch \/ Signal \/ Killed
<1>1. CASE UNCHANGED vars
  BY <1>1 DEF vars, service
<1>2. CASE (ServiceStep \/ Environment) /\ UNCHANGED client
  BY <1>2 DEF ServiceStep, Environment, Bind, Accept, Serve, AcceptThrows
<1>3. CASE Expire
  BY <1>3 DEF Expire, process
<1>4. ASSUME NEW t \in Threads, InitStep(t) PROVE UNCHANGED process
  BY <1>4 DEF InitStep, EnterInit, AppendNames, SetContext, service
<1>5. ASSUME NEW t \in Threads, Begin(t) \/ Enter(t) PROVE UNCHANGED process
  BY <1>5 DEF Begin, Enter, BeginBuild, Check, service
<1>6. ASSUME NEW t \in Threads, CallStep(t) PROVE UNCHANGED process
  BY <1>6 DEF CallStep, BuildReturns, BuildThrows, Connect, TakeIdle,
              CreateReturns, CreateThrows, Receive, Breaks, service
<1>. QED  BY <1>1, <1>2, <1>3, <1>4, <1>5, <1>6 DEF Next, Enter

LEMMA WorkStep == WorkInv /\ [Next]_vars => WorkInv'
<1>. SUFFICES ASSUME WorkInv, [Next]_vars PROVE WorkInv'
  OBVIOUS
<1>. USE DEF WorkInv, ServiceTypes, WaitsOrStopped, DownIsEmpty,
             WorksUntilStopped
<1>1. CASE UNCHANGED process
  BY <1>1 DEF process
<1>2. CASE SpawnListener
  BY <1>2 DEF SpawnListener
<1>3. CASE MainEnds
  BY <1>3 DEF MainEnds, RunReturns, HasWork
<1>4. CASE HandleSignal
  BY <1>4 DEF HandleSignal, Stops
<1>5. CASE Return \/ Killed
  BY <1>5 DEF Return, Killed, Gone
<1>6. ASSUME NEW w \in Workers, StartWorker(w) PROVE WorkInv'
  BY <1>6 DEF StartWorker
<1>7. ASSUME NEW w \in Workers, WorkerEnds(w) PROVE WorkInv'
  BY <1>7 DEF WorkerEnds, RunReturns, HasWork
<1>8. CASE Launch
  BY <1>8 DEF Launch, Waits
<1>9. CASE Signal
  BY <1>9 DEF Signal
<1>. QED
  BY <1>1, <1>2, <1>3, <1>4, <1>5, <1>6, <1>7, <1>8, <1>9, ProcessStep

\* No thread of the service runs out of work before a signal has stopped the
\* context, however many threads there are and whatever becomes of the listener:
\* run() in src/src/service/service.cpp waits for the signal all the time.
THEOREM WorkersWait == Spec => []WorksUntilStopped
<1>1. WorkInv => WorksUntilStopped
  BY DEF WorkInv
<1>. QED  BY <1>1, WorkInit, WorkStep, PTL DEF Spec

-----------------------------------------------------------------------------
(* init().  Unless calls of it overlap, one thread at a time is between the *)
(* test and the context, the names are there from its append on, and no     *)
(* call of the API begins before one of init() has returned.                *)

SettingsTypes ==
  /\ init \in [Threads -> {"before", "appending", "setting", "returned"}]
  /\ names \in Nat
  /\ ioc \in BOOLEAN
  /\ overlapped \in BOOLEAN
  /\ call \in [Threads -> Between \cup {"entering", "building", "acquiring", "asking"}]

\* The API is called by a thread that knows of an init() that has returned.
CalledAfterInit ==
  (\E t \in Threads : call[t] # "out") => \E t \in Threads : init[t] = "returned"

OneInitialises ==
  /\ names <= 1
  /\ names = 1 => ioc \/ \E t \in Threads : init[t] = "setting"
  /\ \A t \in Threads :
       /\ init[t] = "appending" => names = 0
       /\ init[t] = "setting" => names = 1
       /\ init[t] = "returned" => names = 1 /\ ioc
       /\ init[t] \in {"appending", "setting"} =>
            \A u \in Threads \ {t} : init[u] \notin {"appending", "setting"}

NamesInv == SettingsTypes /\ CalledAfterInit /\ (~overlapped => OneInitialises)

LEMMA NamesInit == Init => NamesInv
<1>. SUFFICES ASSUME Init PROVE NamesInv
  OBVIOUS
<1>1. SettingsTypes
  BY DEF Init, SettingsTypes, Between
<1>2. CalledAfterInit /\ OneInitialises
  BY DEF Init, CalledAfterInit, OneInitialises
<1>. QED  BY <1>1, <1>2 DEF NamesInv

\* Where a thread is in its call, the other steps of the client.
LEMMA CallTypes ==
  ASSUME NEW t \in Threads, SettingsTypes,
         Begin(t) \/ Enter(t) \/ CallStep(t)
  PROVE  /\ UNCHANGED settings
         /\ call' \in [Threads -> Between \cup {"entering", "building", "acquiring", "asking"}]
         /\ \/ \E u \in Threads : init[u] = "returned"
            \/ call[t] # "out"
<1>. USE DEF SettingsTypes, Between, Ends, Goto
<1>1. CASE Begin(t)
  BY <1>1 DEF Begin
<1>2. CASE BeginBuild(t) \/ Check(t)
  BY <1>2 DEF BeginBuild, Check
<1>3. CASE BuildReturns(t) \/ BuildThrows(t)
  BY <1>3 DEF BuildReturns, BuildThrows
<1>4. CASE TakeIdle(t) \/ CreateReturns(t) \/ CreateThrows(t)
  BY <1>4 DEF TakeIdle, CreateReturns, CreateThrows
<1>5. CASE Receive(t) \/ Breaks(t)
  BY <1>5 DEF Receive, Breaks
<1>. QED  BY <1>1, <1>2, <1>3, <1>4, <1>5 DEF Enter, CallStep

LEMMA NamesStep == NamesInv /\ [Next]_vars => NamesInv'
<1>. SUFFICES ASSUME NamesInv, [Next]_vars PROVE NamesInv'
  OBVIOUS
<1>. USE DEF NamesInv, SettingsTypes, CalledAfterInit
<1>1. CASE UNCHANGED <<settings, call>>
  BY <1>1 DEF settings, OneInitialises
<1>2. ASSUME NEW t \in Threads, EnterInit(t) PROVE NamesInv'
  <2>1. SettingsTypes' /\ CalledAfterInit'
    BY <1>2 DEF EnterInit
  <2>2. ASSUME ~overlapped' PROVE OneInitialises'
    <3>1. ~overlapped /\ \A u \in Threads : init[u] \notin {"appending", "setting"}
      BY <1>2, <2>2 DEF EnterInit
    <3>. QED  BY <1>2, <3>1 DEF EnterInit, IsFirst, OneInitialises
  <2>. QED  BY <2>1, <2>2
<1>3. ASSUME NEW t \in Threads, AppendNames(t) PROVE NamesInv'
  BY <1>3 DEF AppendNames, OneInitialises
<1>4. ASSUME NEW t \in Threads, SetContext(t) PROVE NamesInv'
  BY <1>4 DEF SetContext, OneInitialises
<1>5. ASSUME NEW t \in Threads, Begin(t) \/ Enter(t) \/ CallStep(t) PROVE NamesInv'
  <2>1. UNCHANGED <<init, names, ioc, overlapped>>
    BY <1>5, CallTypes DEF settings
  <2>2. SettingsTypes'
    BY <1>5, <2>1, CallTypes
  <2>3. CalledAfterInit'
    BY <1>5, <2>1, CallTypes
  <2>. QED  BY <2>1, <2>2, <2>3 DEF OneInitialises
<1>6. CASE UNCHANGED vars
  BY <1>1, <1>6 DEF vars, client
<1>7. CASE (ServiceStep \/ Environment) /\ UNCHANGED client
  BY <1>1, <1>7 DEF client
<1>8. CASE Expire
  BY <1>1, <1>8 DEF Expire
<1>. QED  BY <1>2, <1>3, <1>4, <1>5, <1>6, <1>7, <1>8 DEF Next, InitStep

\* If no two calls of init() overlap, every call of encrypt() or decrypt() finds
\* the names of one call and the context, however many threads call init():
\* the unguarded test in src/src/api/api.cpp is enough then.
THEOREM NamesSet == Spec => []NamesOnce
<1>1. NamesInv => NamesOnce
  BY DEF NamesInv, SettingsTypes, CalledAfterInit, OneInitialises, NamesOnce
<1>. QED  BY <1>1, NamesInit, NamesStep, PTL DEF Spec

-----------------------------------------------------------------------------
(* The connections.  Nothing is lent before the pool is made and only one   *)
(* thread makes it, so that the connection it starts with replaces none;    *)
(* a thread has a connection exactly while it waits for an answer.          *)

ConnectionTypes ==
  /\ idle \subseteq Connections
  /\ lent \in [Threads -> Connections \cup {NoConnection}]
  /\ backlog \subseteq Connections
  /\ sessions \subseteq Connections
  /\ exchange \in [Connections -> Messages]
  /\ holder \in {"none", "building", "ready"}
  /\ call \in [Threads -> Between \cup {"entering", "building", "acquiring", "asking"}]

OneBuilds ==
  \A t \in Threads :
    /\ call[t] = "building" => holder = "building"
    /\ call[t] = "building" => \A u \in Threads \ {t} : call[u] # "building"
    /\ call[t] \in {"acquiring", "asking"} => holder = "ready"

EmptyBeforeReady ==
  holder # "ready" => idle = {} /\ \A t \in Threads : lent[t] = NoConnection

LentWhileAsking ==
  \A t \in Threads : lent[t] # NoConnection <=> call[t] = "asking"

\* No connection is lent twice, or lent and idle.
LentOnce ==
  \A t \in Threads :
    lent[t] # NoConnection =>
      /\ lent[t] \notin idle
      /\ \A u \in Threads \ {t} : lent[u] # lent[t]

OrphanInv ==
  /\ ConnectionTypes /\ OneBuilds /\ EmptyBeforeReady
  /\ LentWhileAsking /\ LentOnce /\ NoOrphans

LEMMA OrphanInit == Init => OrphanInv
<1>. SUFFICES ASSUME Init PROVE OrphanInv
  OBVIOUS
<1>. USE ApiAssumption DEF ApiAssumption, Init, ServiceInit, Lender!Init
<1>1. ConnectionTypes
  BY DEF ConnectionTypes, Between, Messages
<1>2. OneBuilds /\ EmptyBeforeReady /\ LentWhileAsking /\ LentOnce
  BY DEF OneBuilds, EmptyBeforeReady, LentWhileAsking, LentOnce
<1>3. NoOrphans
  BY DEF NoOrphans, Open
<1>. QED  BY <1>1, <1>2, <1>3 DEF OrphanInv

\* The service closes connections of its own accord and opens none.
LEMMA ServiceOpensNothing ==
  ASSUME ConnectionTypes, ServiceStep \/ Environment
  PROVE  /\ Open' \subseteq Open
         /\ backlog' \subseteq Connections /\ sessions' \subseteq Connections
         /\ exchange' \in [Connections -> Messages]
<1>. USE DEF ConnectionTypes, Open
<1>1. CASE SpawnListener \/ MainEnds \/ HandleSignal \/ Bind
  BY <1>1 DEF SpawnListener, MainEnds, HandleSignal, Bind
<1>2. CASE Return \/ Killed
  BY <1>2 DEF Return, Killed, Gone
<1>3. ASSUME NEW w \in Workers, StartWorker(w) \/ WorkerEnds(w)
      PROVE  UNCHANGED <<backlog, sessions, exchange>>
  BY <1>3 DEF StartWorker, WorkerEnds
<1>4. CASE \E c \in Connections : Accept(c)
  BY <1>4 DEF Accept
<1>5. CASE \E c \in Connections : Serve(c)
  BY <1>5 DEF Serve, Outcomes, Messages
<1>6. CASE Launch \/ Signal \/ AcceptThrows
  BY <1>6 DEF Launch, Signal, AcceptThrows
<1>. QED  BY <1>1, <1>2, <1>3, <1>4, <1>5, <1>6 DEF ServiceStep, Environment

\* Release gives the connection back or closes it.
LEMMA Released ==
  ASSUME NEW t \in Threads, NEW end, OrphanInv, call[t] = "asking", Release(t, end)
  PROVE  /\ lent' = [lent EXCEPT ![t] = NoConnection]
         /\ \/ /\ idle' = idle \cup {lent[t]}
               /\ Open' = Open
            \/ /\ idle' = idle
               /\ Open' = Open \ {lent[t]}
         /\ backlog' \subseteq Connections /\ sessions' \subseteq Connections
         /\ exchange' \in [Connections -> Messages]
BY DEF OrphanInv, ConnectionTypes, Messages, Release, Left, Lender!Return,
       Lender!Discard, CloseConnection, Close, Open

LEMMA ReleaseStep ==
  ASSUME NEW t \in Threads, NEW end \in Ends, OrphanInv, call[t] = "asking",
         Release(t, end), UNCHANGED holder, call' = [call EXCEPT ![t] = end]
  PROVE  OrphanInv'
<1>. USE ApiAssumption DEF ApiAssumption, OrphanInv
<1>1. lent[t] \in Connections
  BY DEF LentWhileAsking, ConnectionTypes
<1>2. /\ lent' = [lent EXCEPT ![t] = NoConnection]
      /\ \/ idle' = idle \cup {lent[t]} /\ Open' = Open
         \/ idle' = idle /\ Open' = Open \ {lent[t]}
      /\ backlog' \subseteq Connections /\ sessions' \subseteq Connections
      /\ exchange' \in [Connections -> Messages]
  BY Released
<1>3. /\ end \in Between /\ end \notin {"entering", "building", "acquiring", "asking"}
  BY DEF Between, Ends
<1>4. ConnectionTypes'
  BY <1>1, <1>2, <1>3 DEF ConnectionTypes
<1>5. OneBuilds'
  BY <1>3 DEF ConnectionTypes, OneBuilds
<1>6. EmptyBeforeReady'
  BY <1>2 DEF ConnectionTypes, OneBuilds, EmptyBeforeReady
<1>7. LentWhileAsking' /\ LentOnce'
  BY <1>1, <1>2, <1>3 DEF ConnectionTypes, LentWhileAsking, LentOnce
<1>8. NoOrphans'
  BY <1>1, <1>2 DEF ConnectionTypes, NoOrphans, Lender!Live
<1>. QED  BY <1>4, <1>5, <1>6, <1>7, <1>8

LEMMA OrphanStep == OrphanInv /\ [Next]_vars => OrphanInv'
<1>. SUFFICES ASSUME OrphanInv, [Next]_vars PROVE OrphanInv'
  OBVIOUS
<1>. USE ApiAssumption DEF ApiAssumption, OrphanInv
<1>1. ASSUME UNCHANGED client, Open' \subseteq Open,
             backlog' \subseteq Connections, sessions' \subseteq Connections,
             exchange' \in [Connections -> Messages]
      PROVE  OrphanInv'
  BY <1>1 DEF client, pool, ConnectionTypes, OneBuilds, EmptyBeforeReady,
              LentWhileAsking, LentOnce, NoOrphans, Lender!Live
<1>2. CASE UNCHANGED vars
  BY <1>1, <1>2 DEF vars, service, Open, ConnectionTypes
<1>3. CASE (ServiceStep \/ Environment) /\ UNCHANGED client
  BY <1>1, <1>3, ServiceOpensNothing
<1>4. CASE Expire
  <2>1. PICK c \in idle : idle' = idle \ {c}
    BY <1>4 DEF Expire, Lender!Evict
  <2>2. CloseConnection(c) /\ UNCHANGED <<holder, call, lent>>
    BY <1>4, <2>1 DEF Expire, Lender!Evict
  <2>3. ConnectionTypes'
    BY <2>1, <2>2 DEF ConnectionTypes, Messages, CloseConnection, Close
  <2>4. OneBuilds' /\ EmptyBeforeReady' /\ LentWhileAsking' /\ LentOnce'
    BY <2>1, <2>2 DEF OneBuilds, EmptyBeforeReady, LentWhileAsking, LentOnce
  <2>5. NoOrphans'
    BY <2>1, <2>2 DEF NoOrphans, Open, Lender!Live, CloseConnection, Close
  <2>. QED  BY <2>3, <2>4, <2>5
<1>5. ASSUME NEW t \in Threads, InitStep(t) PROVE OrphanInv'
  BY <1>5 DEF InitStep, EnterInit, AppendNames, SetContext, service, pool, Open,
              ConnectionTypes, OneBuilds, EmptyBeforeReady, LentWhileAsking,
              LentOnce, NoOrphans, Lender!Live
<1>6. ASSUME NEW t \in Threads, Begin(t) \/ BeginBuild(t) \/ Check(t) \/ BuildThrows(t)
      PROVE  OrphanInv'
  <2>1. /\ UNCHANGED <<idle, lent, backlog, sessions, exchange>>
        /\ call[t] \in Between \cup {"entering", "building"}
    BY <1>6 DEF Begin, BeginBuild, Check, BuildThrows, service, pool
  <2>2. ConnectionTypes' /\ OneBuilds' /\ EmptyBeforeReady' /\ LentWhileAsking'
    BY <1>6, <2>1 DEF Begin, BeginBuild, Check, BuildThrows, Unguard, Goto,
      Between, Ends, ConnectionTypes, OneBuilds, EmptyBeforeReady, LentWhileAsking
  <2>3. LentOnce' /\ NoOrphans'
    BY <2>1 DEF LentOnce, NoOrphans, Open, Lender!Live
  <2>. QED  BY <2>2, <2>3
<1>7. ASSUME NEW t \in Threads, BuildReturns(t) PROVE OrphanInv'
  <2>1. PICK c \in Connections : Connect(c, "none") /\ idle' = {c}
    BY <1>7 DEF BuildReturns
  <2>2. /\ holder' = "ready" /\ UNCHANGED lent
        /\ call[t] = "building" /\ call' = [call EXCEPT ![t] = "entering"]
        /\ idle = {} /\ \A u \in Threads : lent[u] = NoConnection
    BY <1>7 DEF BuildReturns, Goto, OneBuilds, EmptyBeforeReady
  <2>3. ConnectionTypes'
    BY <2>1, <2>2 DEF ConnectionTypes, Messages, Connect
  <2>4. OneBuilds' /\ EmptyBeforeReady' /\ LentWhileAsking' /\ LentOnce'
    BY <2>1, <2>2 DEF ConnectionTypes, OneBuilds, EmptyBeforeReady,
                      LentWhileAsking, LentOnce
  <2>5. NoOrphans'
    BY <2>1, <2>2 DEF NoOrphans, Open, Lender!Live, Connect
  <2>. QED  BY <2>3, <2>4, <2>5
<1>8. ASSUME NEW t \in Threads, TakeIdle(t) PROVE OrphanInv'
  <2>1. PICK c \in idle : lent' = [lent EXCEPT ![t] = c] /\ idle' = idle \ {c}
    BY <1>8 DEF TakeIdle, Lender!Lend
  <2>2. /\ call[t] = "acquiring" /\ call' = [call EXCEPT ![t] = "asking"]
        /\ exchange' = [exchange EXCEPT ![c] = Request(c)]
        /\ lent[t] = NoConnection
        /\ UNCHANGED <<backlog, sessions, holder>>
    BY <1>8, <2>1 DEF TakeIdle, Goto, Lender!Lend, ConnectionTypes
  <2>3. ConnectionTypes'
    BY <2>1, <2>2 DEF ConnectionTypes, Messages, Request
  <2>4. OneBuilds' /\ EmptyBeforeReady' /\ LentWhileAsking' /\ LentOnce'
    BY <2>1, <2>2 DEF ConnectionTypes, OneBuilds, EmptyBeforeReady,
                      LentWhileAsking, LentOnce
  <2>5. NoOrphans'
    BY <2>1, <2>2 DEF ConnectionTypes, NoOrphans, Open, Lender!Live
  <2>. QED  BY <2>3, <2>4, <2>5
<1>9. ASSUME NEW t \in Threads, CreateReturns(t) PROVE OrphanInv'
  <2>1. PICK c \in Connections \ Lender!Live : lent' = [lent EXCEPT ![t] = c]
    BY <1>9 DEF CreateReturns, Lender!LendNew
  <2>2. /\ call[t] = "acquiring" /\ call' = [call EXCEPT ![t] = "asking"]
        /\ lent[t] = NoConnection /\ Connect(c, "asked")
        /\ UNCHANGED <<holder, idle>>
    BY <1>9, <2>1 DEF CreateReturns, Goto, Lender!LendNew, ConnectionTypes
  <2>3. ConnectionTypes'
    BY <2>1, <2>2 DEF ConnectionTypes, Messages, Connect
  <2>4. OneBuilds' /\ EmptyBeforeReady' /\ LentWhileAsking'
    BY <2>1, <2>2 DEF ConnectionTypes, OneBuilds, EmptyBeforeReady, LentWhileAsking
  <2>5. LentOnce'
    BY <2>1, <2>2 DEF ConnectionTypes, LentOnce, Lender!Live
  <2>6. NoOrphans'
    BY <2>1, <2>2 DEF ConnectionTypes, NoOrphans, Open, Lender!Live, Connect
  <2>. QED  BY <2>3, <2>4, <2>5, <2>6
<1>10. ASSUME NEW t \in Threads, CreateThrows(t) PROVE OrphanInv'
  BY <1>10 DEF CreateThrows, Goto, Between, Ends, service, Open,
     ConnectionTypes, OneBuilds, EmptyBeforeReady, LentWhileAsking,
     LentOnce, NoOrphans, Lender!Live
<1>11. ASSUME NEW t \in Threads, Receive(t) \/ Breaks(t) PROVE OrphanInv'
  <2>1. /\ call[t] = "asking" /\ UNCHANGED holder
        /\ \E end \in Ends : Release(t, end) /\ call' = [call EXCEPT ![t] = end]
    BY <1>11 DEF Receive, Breaks, Goto, Ends
  <2>. QED  BY <2>1, ReleaseStep
<1>. QED
  BY <1>2, <1>3, <1>4, <1>5, <1>6, <1>7, <1>8, <1>9, <1>10, <1>11
  DEF Next, Enter, CallStep

\* Whatever is lost, refused or killed, a connection that the service or its
\* kernel still holds is idle in the client's pool or lent to one of its threads.
THEOREM ConnectionsKnown == Spec => []NoOrphans
<1>1. OrphanInv => NoOrphans
  BY DEF OrphanInv
<1>. QED  BY <1>1, OrphanInit, OrphanStep, PTL DEF Spec

\* A connection is lent to one thread at a time, for as long as that thread waits
\* for its answer, and no other request can come between the two.
THEOREM ConnectionsLentOnce == Spec => [](LentOnce /\ LentWhileAsking)
<1>1. OrphanInv => LentOnce /\ LentWhileAsking
  BY DEF OrphanInv
<1>. QED  BY <1>1, OrphanInit, OrphanStep, PTL DEF Spec

=============================================================================
