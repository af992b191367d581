# Encrypter in TLA+

Models, checks and proofs for the encrypter repository: a small TCP service
that encrypts and decrypts text with OpenSSL, the client library that talks to
it, and the object pool and the logger both of them use.  Source paths below
are relative to the repository, so `src/lib/pool/pool.hpp` is the pool.

## The system

| Part | Source | State it keeps | Operations |
|---|---|---|---|
| Object pool | `src/lib/pool/pool.hpp` | deque of idle objects, `total`, `created`, a mutex, a `stop` flag, a monitor thread | `acquire`, `release` (by the Proxy's destructor), `removeExpired`/`ttlMonitor`, construction, destruction |
| Client connection | `src/api/tcp/connection.{hpp,cpp}` | a socket, a `streambuf` that outlives a call, `state` (valid) | `encrypt`, `decrypt`, `send`, `socket`, `init` |
| Client API | `src/api/api.{hpp,cpp}`, `contextholder.hpp` | a function-local static pool of connections | `encrypt`, `decrypt` |
| TCP service | `src/service/*.cpp` | per connection: an array of 128 bytes and a vector; a static pool of encrypters; an `io_context` run by several threads | `respond`, `process`, `write`, `serve`, `listener`, `run` |
| Encrypter | `src/lib/util/encrypter.{hpp,cpp}` | two cipher contexts, a refresh flag for each | `encrypt`, `decrypt` |
| base64 | `src/lib/util/base64.{hpp,cpp}` | none | `base64_encode`, `base64_decode` |
| Logger | `src/log/*` | a queue of buffers or a ring, a logging thread, a file per day, the global logger pointer | `push`, `try_pop`, `pop`, `roll_file`, `initialize`, destruction |
| Shell, CLI | `src/shell/main.cpp`, `src/cli/main.cpp` | line history | parse a line, call the Encrypter |
| Clients | `client/python`, `client/rust` | a socket; none | the same frames; a wrapper of the C++ API |

How they interact.  A caller's thread enters `api::encrypt`, which borrows a
connection from the API's pool; the connection writes a frame (a length of four
bytes and `"e "` or `"d "` with the text) and reads the answer's frame.  In the
service a coroutine per connection reads the frame, borrows an Encrypter from
the service's pool, and writes the answer.  Every part logs through the global
logger: the calling threads push lines, one logging thread writes them.

What is hard, and what makes each part correct:

* **Pool** - threads race for one counter that is read without the mutex; the
  factory may block for long and may throw; a monitor thread erases objects
  between calls.  Correct when no object is ever in two hands, the counter
  says what it is meant to say, the limit holds up to what the unlocked test
  allows, nothing expired is kept, and destruction ends.
* **Connection and service** - two ends of a byte stream that a read may cut
  anywhere, with a buffer that survives a failed call.  Correct when a call
  returns the answer to its own request, ends, and leaves the connection as a
  fresh one.
* **API and service** - connections outlive the service they were connected to, the
  pool is made by the first call while others wait, and the service starts, stops
  and dies under its clients.  Correct when calls return, what a client drops is
  closed, the io threads last until a signal, and a signal ends the service.
* **Logger** - producers and the logging thread share buffers without locks, and
  the logger is destroyed at exit.  Correct when lines are written once, in order,
  and none is lost or read from freed memory; when the ring, which may lose
  lines, does so only if it is overrun; when a line is printed as it was logged.
* **Encrypter, base64** - sequential.  Correct when an error leaves no trace
  in the next call, and decoding undoes encoding.
* **Shell, CLI** - sequential.  Correct when the whole text is encrypted and nothing
  else, and the exit status tells what happened.

## Modules

| Module | Models |
|---|---|
| `Lending` | what any pool promises its callers |
| `Pool` | `pool.hpp`; implements `Lending` |
| `PoolProofs` | seven theorems about `Pool` |
| `Wire` | one connection at the level of bytes: `connection.cpp` with `respond`, `process`, `write` of `service.cpp` |
| `Service` | the process of the service: `run`, `listener`, the life of `serve`; used by `ApiClient` |
| `ApiClient` | `api.cpp` and `init`, several threads with the pool (`Lending`) of connections over a `Service` that stops, dies and starts again |
| `Base64` | `base64.cpp` as functions; used by `Encrypter` |
| `Encrypter` | `encrypter.cpp`: two contexts and their refresh flags over an external cipher |
| `Log` | what the guaranteed logger promises: all lines are handed to the file writer in one order, none twice |
| `LogQueue` | `QueueBuffer`, `Buffer` and `NanoLogger`; implements `Log` |
| `LogRing` | `RingBuffer`, the non-guaranteed logger, with `FileWriter`, `Day` and the tee |
| `LogLine` | `NanoLogLine`: encoding, growth of its buffer, printing |
| `Tools` | the shell and the command line tool |
| `WireProofs`, `ApiClientProofs`, `LogQueueProofs`, `LogRingProofs`, `LogLineProofs`, `EncrypterProofs`, `ToolsProofs` | the theorems about the module each is named after |
| `MCWire`, `MCEncrypter`, `MCLogQueue`, `MCLogLine`, `MCTools` | instances for TLC; `Pool`, `ApiClient` and `LogRing` need only a cfg |

The composition is by specification where there is one: `ApiClient` instantiates
`Lending` in place of `Pool`.  `Service` has of a session what `Wire` has of one connection:
in step it answers or ends (`CallsEnd`), and behind an empty answer it may also take the
stale bytes for the head of a message and wait for the rest for ever.  `Tools` takes a
call by the outcomes that `Encrypter` and `Wire` show.

Every component that is modelled has its theorems.

### Pool and the code

The variables have the code's names.  `mutex` is `NoThread` except while a
thread is inside the factory call, because every other critical section is one
step.  `acquire()` is three steps for a thread that creates: `Check` (the
unlocked test of the limit, line 127), `BeginCreate` (lock, both increments) and
`CreateReturns` or `CreateThrows`; `TakeIdle` is the branch with an idle object;
`Refuse` returns `nullopt`.  `Release(t, valid)` is the Proxy's destructor with
`release()`, where `valid` is whatever the object says.  `removeExpired()` is
`BeginSweep` (the `now` of line 174) and one `SweepErase` or `SweepEnd` per turn
of its loop, as it locks per turn.  `Destroy` and `MonitorExit` are `~Pool()`
with its join; it is enabled when no thread is in a call, as the pools are
function-local statics.  `created` doubles as the identity of the newest object.
`failed` is history: it lets `Accounting` say exactly what a throwing factory
does to the counter.

Assumed: the clock is not set back, and the constructor's factory calls succeed
(`ApiClient` has the one that throws).
The `count` of a wrapper (only logged) and the read-only getters are left out.

### Wire and the code

`up` and `down` are the two directions of the stream.  A byte is a value and a
ghost origin: whose request's text it is, whose answer's, or nobody's (headers
and uninitialised memory).  The values are kept because a stale text byte can
be decoded as a length.  The client is at `cpc`: `Call` is the write of
`send()`, behind whatever the streambuf holds; `ClientFirst` is the read that is
limited to the request's size, with the short-answer return; `ClientMore` is a
turn of the loop; `CallThrows` and `ClientEof` are the exceptions of a closed
connection.  `socket()`'s reconnect is not modelled: nothing closes the client's
socket object while the connection lives, so `is_open()` stays true.  The server
is at `spc`: `ServeFirst` is `respond()` up to its loop, `ServeMore` a turn,
`ServeDone` what follows it; `Outcomes` is `process()`, where a request whose
`fails` is set stands for one that makes the base64 decoder throw, and a text
nobody has sent is echoed, or encrypted or decrypted if it happens to look like
a request.  After an exception the session is "closed", and a call throws.

The sizes are scaled together: a header digit is below 32 instead of 256, the
array of `respond()` is 16 instead of 128, the greatest message 16 * 32^2 instead
of 128 * 256^2, the client's chunk 32 instead of 256.  Characters keep their
place below half of a digit, so four of them announce a length beyond the
greatest message, as four ASCII characters do.  The write of a frame is one
step; every read after a message's first returns any non-empty part.
`FirstWhole` says whether the first read of a message is assumed to return all
that is there and fits: the code relies on it.

### LogQueue and the code

A thread that logs is at `pc`: `Start` is the macro with `operator==` and `add`;
`Claim` the increment of `m_write_index`; `Spin` the wait of a thread that got no
slot, which starts over; `Load` the load of `m_current_write_buffer`; `Store` the
item with its state; `Count` the increment of `m_write_state[size]`, whose result
decides who sets up the next buffer; `Install` and `Enlist` are
`setup_next_write_buffer()` before and in its critical section.  The logging thread
is at `cpc`: `CheckReady` and `CheckShutdown` test `m_state`, `FetchBuffer`,
`PopLine`, `PopNothing` and `DropBuffer` are the branches of `try_pop()`, `Write`
hands the line to `FileWriter::write()`.  Critical sections of `m_flag` are one step: what
they guard is touched in no other place.  Buffers are numbered as they are made; `freed`
of them are gone.  A count in a freed buffer can have any result.

`handed` is what the file writer was given, and the properties of this logger end there:
`FileWriter`, its stream and the tee are in `LogRing`, which is about the other logger but has
the same writer.  So a closed console or a full disk loses lines of this logger too.  The
accesses to `m_write_index` are relaxed in the code; the model takes them, with all
others, in one order.

`InTime` says that no buffer has been freed before all its pushes were counted, the one
thing the code relies on and does not ensure (finding 3).  `DropBuffer` has no such guard:
`TimelySpec` are the behaviours in which it comes out so, and `PushReturns` and
`LinesHandedOnInTime` carry the condition in their formulas.  The shutdown comes when no
thread is in `push()`: `run()` joins its threads, the pools are function-local
statics whose monitor threads are joined before the logger, a namespace-scope
object, is destroyed, and the other programs log from one thread.

The refinement maps a line to "accepted" when its slot is claimed; `Pending` reads
the claimed slots from the reader's position on, taking the line of the claiming
thread where a slot is not stored yet.

### LogRing and the code

A thread that logs is at `pc`: `Start` is the macro, `Claim` the `fetch_add`, `Put` what
the spin lock of the slot encloses.  The logging thread is at `cpc`: `CheckState` tests
`m_state`, `Take` and `TakeNothing` are `try_pop()` (one step, for the same lock),
`CheckDay`, `RollFile` and `Write` are `FileWriter::write()`, each with its own look at the
clock.  `draining` says that the thread is in the second loop of `pop()`.  Indexes count
modulo `Wrap`, 2^32 in the code.  `Wrap` is a multiple of `Size` in the instance, as the
ring has a multiple of 4096 slots, and that divides 2^32 if it is a power of two.

`good` is the state of the stream that is written to: the tee if there is an echo, the
file otherwise.  A line that fails in the middle counts as not written or written, as
TLC likes; every line after it is not, until `roll_file()` makes new streams.

`order`, `taken`, `overrun`, `dropped` and `failed` are history.  `overrun` says that once
there were more claimed lines than slots; `KeepsUp` and `LinesWritten` promise nothing
after it, as the header promises nothing.  What an overrun costs is more than the
line that is overwritten: if two producers fill one slot, or the reader stands at an
empty slot when a later one was claimed twice, complete lines behind it wait for the
next lap and are lost at the shutdown.

### LogLine and the code

`bytes` is the buffer behind the header, as numbers; `Log(a)` is one `operator<<`: `Room` is
what `resize_buffer_if_needed()` is asked for, `Grown` the size it makes, `Copied` its
`memcpy`, `Encoded` what is written.  `Printed` is `stringify()` with `decode()`, from a type
id to the end; a byte that is no type id ends it, as in the `switch`.  The argument `"null"`
is a null pointer.  A literal is stored by its address, which `decode()` follows; `Literals`
are the addresses that may be followed.  `Undefined` stands for all that comes of following
another, or of reading behind the bytes used, where the recursion does not stop because it
looks for the very end only: output of any kind, or the end of the process.  Only a NUL
within a text leads there, and then nothing can be promised of the line.

### Service, ApiClient and the code

`Service` has no `Next` of its own: `ServiceStep` is what its threads do, `Environment` what
is done to it.  `main` is the thread of `main()` through `run()`: "starting" while it makes
threads, "running" in its own `run()`, "joining" behind it.  A thread returns from
`ioc.run()` when the context is stopped or has no work left (`RunReturns`, `HasWork`): the
wait for a signal, the listener and the sessions are work.  Coroutines are spawned
detached, so that an exception ends the one that throws it: `Bind` and `AcceptThrows` end
the listener, `Serve` a session.  The `catch` in `run()` is therefore never reached.
`exchange` is the last message on a connection.  In step it is "asked" by the client or
the "answer", which may be empty.  Behind an empty one it is "stale": the bytes of
`connection.cpp:105` stay in the streambuf, and are in front of the next request, which is
"garbled" then.  What comes of that is something that looks like an answer ("stray"),
the end of the session, or "stuck": both ends wait for bytes that nobody sends.  A connection
that has been out of step stays so, which is more than what `Wire` shows of one.

In `ApiClient` the names that `init()` appends are counted: one is right, two is a host
name that nobody has.  `EnterInit` is the unlocked test, `AppendNames` and `SetContext`
the critical section, in two steps because `create()` reads without the mutex. `holder` is
the function-local static: "building" while a thread is in its constructor, where others
wait in "entering", and "none" again when it throws.  `Begin` needs an `init()` that has
returned, as `api.hpp` demands.  `leaked` is `failed` of `Pool`, the increments that a
throwing factory leaves behind; `Total` is the counter by `Pool!Accounting`.  The pool's
first connection is made without a request, one made for a call is lent with it
(`Connect`).  `Left` is what a call leaves behind.  `TakeIdle` writes to the connection
whatever has become of its peer, `Breaks` is the exception of that write or of the read,
and `Release` gives the connection back in every case.  An idle connection that is lent
again after its service is gone breaks again: under steady use the pool never gets rid of
it, as only `Expire` closes a connection that is not over the pool's limit.

### Base64, Encrypter and the code

A character is a number, digits first.  `DecodeGroup` is a turn of the decoder's loop,
which looks at four characters, the second first, and never asks whether they are
there: what follows the text in memory is the parameter `after`, a terminator or
anything.  `Thrown` is the `const char*` it throws.

A context is the sequence of bytes fed into it since its last initialisation.  `Encipher`
and `Decipher` stand for AES in CBC mode with padding: a chain in which every byte
depends on all before it, with the padding that `EVP_DecryptFinal_ex` checks.
Where OpenSSL may fail, the result may be empty, and the context stays as it was fed.

### Tools and the code

A line is a sequence of words, blanks and tabs.  `Find` counts from 0 and `Npos` is the
greatest `size_t`, to which `Plus1` wraps, as `key()` adds one to an index that may be `npos`.
`Call` is the four functions `encrypt` and `decrypt`, `ReadLine` a turn of either `run()`.  The
tool's `main()` is `ParseCli`, `Connect`, one `CallAndPrint` per option, and `Return`; an
uncaught exception ends either program with the status of an abort.  `inStep` is the
condition of `Wire`: with a service, the results after an empty one may be anything.
The tool reads the key from the environment only without a service.

## Runs

| Run | Checks | Shows |
|---|---|---|
| `pool` | `TypeOK`, `Exclusive`, `Accounting`, `CapacityBound`, `LiveBound`, `SweepComplete`, `LendingSpec`, `ExpiredReclaimed`, `DestructorReturns` | three threads over a limit of one, 141,000 states |
| `wire` | `TypeOK`, `OwnAnswerInStep`, `InStep`, `CallsEnd` | up to four calls of eight kinds |
| `wire_stale_bytes` | `OwnAnswer` violated | a failed decryption poisons its connection |
| `api` | `NamesOnce`, `WorksUntilStopped`, `NoOrphans`, `CallReturns`, `SignalHonoured` | two threads over a service that fails in every way, 130,000 states |
| `api_throws` | `NeverThrows` violated | the documented empty string is an exception |
| `encrypter` | `EncryptsOnlyItsText`, `DecryptUndoesEncrypt`, `DecodeUndoesEncode`, `StopsAtTerminator` | calls in any order on one instance, 31,000 states |
| `log_queue` | `TypeOK`, `SlotOwned`, `NothingLost`, `LogSpec` | three interchangeable threads, buffers of two lines |
| `log_live` | `PushReturns`, `LinesHandedOnInTime` | two threads under fairness, 12,000 states |
| `log_race` | `LinesHandedOn` violated | a buffer is freed under a push |
| `ring` | `TypeOK`, `KeepsUp`, `AtMostOnce`, `DaysInOrder`, `LinesWritten` | two threads, two slots, a midnight, streams that fail, 99,000 states |
| `line` | `InBuffer`, `PrintedAsLogged` | four arguments of every kind, 54,000 states |
| `tools` | `RoundTrip`, `HistoryNoRepeat`, `StatusTells` | two lines of a session, every run of the tool, 114,000 states |

Bounds and why they are enough:

* `MCPool.cfg`: three threads over a `MaxConnections` of one, so that the limit is
  reached, overrun by the two threads that passed the test early, and refuses;
  four factory calls allow the initial object, its replacement after expiry and a
  failure; `MaxPoolSize` 2 is reached by three releases; a clock of three ticks with
  `MaxIdleTime` 1 has fresh, expired and mixed deques.  No symmetry, which liveness does
  not allow.
* `MCWire.cfg`: a request that fits the service's array and one that does not, an
  answer longer than a chunk, empty answers, a throwing decryption, a request one
  byte too long behind a stale header, a text of two characters and an empty
  one; a failure, the desynchronised call and two calls after it fit into four
  calls.
* `MCApiClient.cfg`: two threads race for `init()`, for the static and for a limit of one;
  the pool holds one, so that a second connection is closed on release; the service
  has one io thread besides `main()`, which is enough for either to handle what the
  other waits for, and starts any number of times.  `MCApiThrows.cfg` is the same with
  a limit of two.
* `MCEncrypter.cfg`: a block of two bytes, texts of none to four bytes (whole blocks,
  a byte more, a byte less, every last group of base64), and wrong texts of every length
  modulo 4 with and without a terminator.  The state keeps the last call only, so that
  sequences of calls have no bound.
* `MCLogQueue.cfg`: six lines through buffers of two slots switch buffers three times,
  with three threads so that one can switch while another spins and a third has
  claimed; up to three buffers wait in the queue.  About 80,000 states.
  `MCLogLive.cfg`: two threads with two lines each, without symmetry, so that the buffer is
  switched twice, by either thread, and freed in time or too early.
* `MCLogRing.cfg`: four lines through two slots overrun the ring, and the indexes wrap
  twice; one midnight falls between any two looks at the clock.
* `MCLogLine.cfg`: a stack of eight bytes and a heap of at least ten, so that two arguments
  leave the stack, a third doubles, and one text is longer than the doubled buffer.
* `MCTools.cfg`: every line of up to three tokens, and commands with space before,
  between and behind; two lines, as `history` and `previous` look one line back.  `Npos` is
  15, beyond every index.

Fairness.  `Pool!FairSpec`: the monitor thread is scheduled (weak), a mutex that is
free again and again is granted to it (strong: `std::shared_mutex` is not
formally fair, but the wake-up once a second meets a mutex held for
microseconds or for one factory call), and a factory call returns or throws
(weak per thread: a TCP connect times out).  Threads need not call, hold or
release anything.  `Wire!FairSpec`: both ends run and TCP delivers (weak).
`LogQueue!FairSpec` and `LogRing!FairSpec`: the logging thread and every thread inside
`push()` run (weak).  A thread that spins could be overtaken for ever by threads that
log without end; `PushReturns` is shown for bursts, which the bound `MaxLines` makes them.
`ApiClient!FairSpec`: every thread of the service and of the client runs (weak), also
while the process is "starting", and a thread that waits for the static's guard gets it
although others fail in it again and again (strong: the guard wakes its waiters).
Nobody has to start the service, to signal it or to call.

Conditions.  `CallsEnd`, `OwnAnswerInStep` and `InStep` have two: no first read of a message is
cut short (`FirstWhole`), and no call has come back empty before.  The second is what
finding 1 is about; without it each of them fails, which `wire_stale_bytes` shows for
`OwnAnswer`.  `CallReturns` leaves out the calls that are given a connection on which an earlier
one came back empty: some of them wait for ever, while both processes are up.
`PushReturns` and `LinesHandedOnInTime` have `InTime`, which is what finding 3 is about, and
`PrintedAsLogged` the texts without a NUL.  `NamesOnce` excludes calls of `init()` that overlap:
two of them can both find the name empty, and the host name is then both, one behind
the other.

Deadlock is checked for the pool, the loggers, the Encrypter and the API, whose ends are
steps of their own where they have one.  It is not for the wire, the line and the
tools, which stop after as many calls, arguments and lines as the bound allows.

## Findings

1. **Stale bytes** (`connection.cpp:105`, run `wire_stale_bytes`).  Fewer than five bytes are
   an "invalid short response", and stay in the streambuf, where they
   precede the next request.  A decryption that fails answers with four
   bytes, so one failure puts the connection, which goes back to the pool, out
   of step.
2. **Exceptions** (`connection.cpp:56`, run `api_throws`).  `api.hpp` documents an empty
   string for errors; without a service `encrypt()` and `decrypt()` throw.
3. **Freed buffer** (`NanoLog.cpp:496`, run `log_race`).  A push stores its slot before it
   counts it.  The logging thread can empty and free the buffer in between; the count then
   reads freed memory, the next buffer may never be set up, and all threads that
   log spin.

Further observations, for which there is no run.  Those of `Wire` can be seen with the
constants of `MCWireStale.cfg` changed as given:

* The first read asks for as many bytes as the request had: the result of a text of one
  or two characters is always empty (`EmptyOnlyOnFailure` with `Requests <- WithTiny`).
* Text that is not base64 makes the decoder throw a `const char*`, which ends the
  session; the client throws (`NeverThrows` of `Wire` with `Requests <- WithCorrupt`).
* If the service's first read ends within a short message, uninitialised memory is
  encrypted and returned (`OwnAnswer` with `FirstWhole = FALSE`, `Requests <- OnlyGood`).
* A request with a NUL in it that the service logs (`service.cpp:118`) makes the logging thread
  take what follows for type ids, and a byte 6 with what follows it for an address
  (`NanoLog.cpp:177-182`).
* All programs use the guaranteed logger, whose guarantee ends at the file writer: the echo
  stops the file when the console fails (`tee.hpp:34`).
* Every failed connect costs the API's pool one of its `maxConnections` for good.
* The shell answers a line of nothing but space with "Unknown command", as `trim()` returns
  it unchanged, and the test for an empty line behind it is never true.
* The shell and the tool encrypt with `ENCRYPTION_KEY` by themselves and with the built-in
  key through the service, so that what one has encrypted the other may not decrypt.

## Proofs

`PoolProofs` proves for every set of threads, every configuration and every
bound that `PoolAssumption` admits (finitely many threads, at least one; natural
sizes; a positive limit; room for the initial objects):

* `TypeCorrect`, `AccountingCorrect`: the inductive invariant is
  `TypeOK /\ Accounting /\ Holding`, where `Holding` ties the mutex, `held` and
  `pc` together (a thread is "creating" exactly when it has the mutex).  `Accounting`
  is needed for `TypeOK`: `total` stays natural because a release is of a call
  that was counted.
* `CapacityCorrect`: `CapacityBound` is not inductive, as several threads may have
  passed the test.  `CapacityInv` counts them: `total` plus the threads that are
  "checked" is at most the limit plus the other threads.
* `LiveCorrect`: a creation finds the deque empty, and the deque and the users only
  change places after that.
* `SweepCorrect`: `SweepComplete` is about all entries while the code looks at one;
  the strengthening `OldestFirst` says the deque is ordered by time and nothing in
  it is newer than the clock.
* `ExclusiveCorrect`: `OwnInv` adds `Fresh`: every object in the deque or in a Proxy
  is one of the `created` first, and the one being created is in neither.
* `PoolImplementsLending`: from these, every step of `Pool` is a step of `Lending`
  or leaves its variables alone.  `BeginCreate` stutters and `CreateReturns` is
  `LendNew`; that nothing is idle by then follows from the mutex.

`WireProofs`, for every scale of bytes, array and chunk, all requests and any number of
calls:

* `WireTypes`: no hypothesis.  Only bytes are on the wire, whatever `process()` takes for a
  request, and every call that is over has one result; a later read of the client has the
  header before it.
* `AnswersAreOwn`, `StaysInStep`, under the hypothesis `Fits`: the first read of a message
  gets what there is room for (`FirstWhole`), lengths fit their four bytes, a request is
  below `maxBytes`, and an empty text has an empty answer, as `encrypt()` and `decrypt()`
  return it.  `OwnAnswerInStep` says nothing of the wire; `WireInv` adds that, until a call
  came back empty, the connection is in one of six phases, from `Idle` over `Asking`,
  `Reading`, `Answering` and `Receiving`, or it is `Gone`.  In each of them what is on the
  wire and in the buffers together is one message, wherever the reads cut it
  (`RestOfText`), and its header announces it (`HeaderHoldsLength`).  That the service
  answers this request and no earlier one is `SentIsAnswered`: only an empty text
  can be mistaken for another, and both have the same answer.

`ApiClientProofs`, for every set of threads, workers and connections and every
configuration of the pool:

* `WorkersWait`: `WorksUntilStopped` needs that a process waits for a signal until one has
  stopped its context (`WaitsOrStopped`), and that without a process there are no threads.
* `NamesSet`: `NamesOnce` follows from `NamesInv`.  Unless two calls of `init()` overlap, one
  thread at a time is between the test and the context (`OneInitialises`); a call of the
  API begins behind an `init()` that has returned.
* `ConnectionsKnown`, `ConnectionsLentOnce`: what the client drops is closed in the same
  step, which needs the state of the pool's static (`OneBuilds`, `EmptyBeforeReady`) and
  that nothing is lent twice.

`LogQueueProofs`, for every number of threads, lines and slots of a buffer, is about
`TimelySpec`, the behaviours in which no buffer is freed before its pushes are counted.  It
is the one thing the code relies on and does not ensure; `log_race` shows what happens
without it.

* `SlotsOwned`, `QueueTypes`, `BuffersInOrder`: the invariant `IInv` says who has each slot of
  the current buffer (`SlotsHeld`, `SlotsFilled`), that one thread replaces a buffer and only
  when all of its slots are counted (`OneChanges`), that the counter is the number of slots
  written and counted (`CountsRight`), and which buffers are in the queue (`QueueInOrder`,
  `ReadsFront`).  `SlotOwned` is about two threads; that nobody replaces the buffer under
  them is a matter of the cardinality of a set, and the proof counts.
* `LinesNotLost`: `LinesKept` follows a line from `pushing` over its slot and the logging
  thread's hand to the file writer; at the end only the last is left.
* `QueueImplementsLog`: `Row` is the sequence of the slots between the reader and the last
  claim, over all buffers.  A step of the code appends to it, takes its front away, or
  leaves it alone, also when a buffer is installed, enlisted or freed.

`LogRingProofs`, for every number of threads, lines, days and slots:

* `RingTypes`, `DaysKeepOrder`: the second needs `DaysKnown`, that `roll_file()` comes between
  the look at the clock and the write.
* `LinesAtMostOnce`: a line is in one slot, in the thread's hand, in a file or overwritten,
  and in one of them only (`OnceInv`), whether or not the ring is overrun.
* `RingKeepsUp`, under `IndexesFit`, that the size divides 2^32: `Held` places the lines
  between the two indexes into their slots across the wrap of either (`IndexesCount`,
  `ClaimsInOrder`, `WindowFilled`, `RestEmpty`), as long as the ring was not overrun.  A
  ring of a number of megabytes that is no power of two has no such size.

`EncrypterProofs`, for all texts, keys, block sizes and sequences of calls:

* `ContextKeepsNothing`: a context is empty when a call begins to feed it, since nothing has
  been fed into one that is not to be refreshed (`ContextsFresh`).
* `DecodingUndoesEncoding`: the encoder's four characters are decoded into the bytes they
  were made from (`DecodedGroup`, by the arithmetic of six and eight bits), groups are put
  together and taken apart in the same places (`FlattenFours`, `FlattenPieces`), and what is
  taken out of a text with line breaks is what was put in (`UnbreakUndoes`).
* `DecryptingUndoesEncrypting`: the above, with the padding and the chain of the cipher
  (`DecipherUndoes`), and the contexts' invariant.
* `DecoderStops`: of what follows the text only the terminator is looked at.

`LogLineProofs`, for all arguments, sizes of stack and heap, and lengths of a line:

* `LineStaysInBuffer`: `InBuffer` is not inductive, as the room is made by `m_buffer_size`;
  `BufferInv` says that it is the size of the buffer in use.
* `LinePrintedAsLogged`: the invariant `LaidOut` says that there are positions, one behind
  the other, at which the arguments stand as they are encoded; a move to another buffer
  keeps them.  `ArgTurn` says what `stringify()` makes of one argument and where it goes on,
  `FirstShown` puts the first of them together.

`ToolsProofs`, for all lines, inputs and keys:

* `HistoryDoesNotRepeat`: the line before is the newest of the history as long as lines
  are read.
* `TextsAreWhole`: `RoundTrip` rests on `MeansReads`, that trimming, finding the command and
  skipping blanks yield the text that the line means.  `SkipExists` shows that the
  recursion of `key()` ends although its index wraps at `npos`.
* `StatusIsTrue`: `StatusInv` follows the number of calls made and printed.

Recursive functions and `FlattenSeq` are proved about through `Induction`, a fact about sets:
a set that has 0 and with a number the next one has all natural numbers, which
follows from the well-foundedness of the inclusion of finite sets.  The function a
definition chooses is shown to exist first (`FlattenExists`, `PrintedExists`, `ChainExists`,
`SkipExists`).  The modules that need these lemmas each have them.

Model-checked only: the liveness properties (`ExpiredReclaimed`, `DestructorReturns`,
`CallsEnd`, `CallReturns`, `SignalHonoured`, `PushReturns`, `LinesHandedOnInTime`,
`LinesWritten`), which are outside the prover's reach.

## Not modelled

* `clara.hpp` is vendored; `Tools` takes its result as given, and the options of
  `service/main.cpp` are left out.
* OpenSSL, Boost.Asio, the sockets, readline and the clock are external and appear by
  their outcomes.  The clock is never set back.
* The Python client repeats the wire protocol with one request at a time; the Rust
  client wraps the API.  Build files and images have no state.
* A second `initialize()` of the logger and a thread that logs during the shutdown: no
  program of the repository does either.
* Getters, time stamps, log levels and the texts of messages.
