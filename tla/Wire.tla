-------------------------------- MODULE Wire --------------------------------
(***************************************************************************)
(* One connection between the client API and the TCP service: send() of    *)
(* src/src/api/tcp/connection.cpp against respond(), process() and write() *)
(* of src/src/service/service.cpp.                                         *)
(*                                                                         *)
(* Each direction is a stream of bytes that a read cuts wherever it likes. *)
(* A byte is <<value, origin>>: the value is what the length headers are   *)
(* decoded from; the origin, a ghost, is k in the text of the k-th request,*)
(* -k in the answer to it, and 0 in headers and in uninitialised memory.   *)
(*                                                                         *)
(* The sizes are scaled down together: a digit of a header is a number     *)
(* below Base (256 in the code), BufSize is half of Base, MaxBytes is      *)
(* BufSize * Base^2 and Chunk is Base.                                     *)
(***************************************************************************)
EXTENDS Integers, Sequences, FiniteSetsExt

CONSTANTS
  Base,        \* one more than the greatest byte
  BufSize,     \* respond(): bufSize
  MaxBytes,    \* respond(): maxBytes
  Chunk,       \* send(): the bytes it asks for after the first read
  Requests,    \* what may be asked: [op, size, answer, fails]
  FirstWhole,  \* the first read of a message gets all there is room for
  MaxCalls     \* bound: the calls made on the connection

ASSUME WireAssumption ==
  /\ Base \in Nat /\ Base > 2
  /\ BufSize \in Nat /\ BufSize >= 5
  /\ MaxBytes \in Nat
  /\ Chunk \in Nat \ {0}
  /\ Requests \subseteq [op : {"e", "d"}, size : Nat, answer : Nat, fails : BOOLEAN]
  /\ FirstWhole \in BOOLEAN
  /\ MaxCalls \in Nat

\* What the requests are like when the connection works: sizes fit into their
\* headers and below the limit, and an empty text has an empty answer.
Longest == Base * (Base * (Base * Base))
Fits ==
  /\ FirstWhole
  /\ MaxBytes <= Longest
  /\ \A req \in Requests :
       /\ req.size + 6 < MaxBytes
       /\ req.answer < Longest
       /\ req.size = 0 => req.answer = 0 /\ ~req.fails

VARIABLES
  up, down,    \* the bytes on their way to the service, and back
  cpc,         \* send(): "out", or in its "first" or a later ("more") read
  buffer,      \* the connection's streambuf
  asked,       \* the requests of all calls so far
  results,     \* how the calls that are over have ended
  spc,         \* respond(): in its "first" read, in the loop ("more"), or "closed"
  docSize,     \* respond(): the size the header announces, with the header
  read,        \* respond(): the bytes of the message read so far
  rbuf         \* respond(): the message without its header

client == <<cpc, buffer, asked, results>>
server == <<spc, docSize, read, rbuf>>
vars == <<up, down, client, server>>

\* The characters, in proportion to their ASCII codes: all below Base / 2.
Text == Base \div 3
OpByte(op) == <<(2 * Base) \div 5 - (IF op = "e" THEN 0 ELSE 1), 0>>
Space == <<Base \div 8, 0>>
Fill(n, origin) == [i \in 1..n |-> <<Text, origin>>]

\* The four bytes of a length, the lowest digit first, and back.
DigitMutant(n) ==   \* a signed character
  <<(n % Base) - (IF n % Base < Base \div 2 THEN 0 ELSE Base), 0>>
Digit(n) == <<n % Base, 0>>
Above(n) == n \div Base
Header(n) ==
  <<Digit(n), Digit(Above(n)), Digit(Above(Above(n))), Digit(Above(Above(Above(n))))>>
Length(bytes) ==
  bytes[1][1] + Base * (bytes[2][1] + Base * (bytes[3][1] + Base * bytes[4][1]))
Frame(bytes) == Header(Len(bytes)) \o bytes

Body(k, req) == <<OpByte(req.op), Space>> \o Fill(req.size, k)
Answer(k, req) == Fill(req.answer, -k)

\* The bytes a read can return when `room' fit into its buffer.
Cut(stream, room) == {SubSeq(stream, 1, n) : n \in 1..Min({room, Len(stream)})}
FirstCut(stream, room) ==
  {bytes \in Cut(stream, room) :
     FirstWhole => Len(bytes) = Min({room, Len(stream)})}

Rest(stream, taken) == SubSeq(stream, Len(taken) + 1, Len(stream))

Init ==
  /\ up = <<>> /\ down = <<>>
  /\ cpc = "out"
  /\ buffer = <<>>
  /\ asked = <<>> /\ results = <<>>
  /\ spc = "first"
  /\ docSize = 0 /\ read = 0
  /\ rbuf = <<>>

-----------------------------------------------------------------------------
(* The client: Connection::send() *)

Thrown == [thrown |-> TRUE, text |-> <<>>]
Returned(text) == [thrown |-> FALSE, text |-> text]

\* How a call ends, and what is left in the streambuf then.
EndCall(result, left) ==
  /\ results' = Append(results, result)
  /\ buffer' = left
  /\ cpc' = "out"

\* The request is written behind whatever the streambuf still holds.
Call(req) ==
  /\ cpc = "out"
  /\ Len(asked) < MaxCalls
  /\ asked' = Append(asked, req)
  /\ up' = up \o buffer \o Frame(Body(Len(asked) + 1, req))
  /\ buffer' = <<>>
  /\ cpc' = "first"
  /\ UNCHANGED <<down, results, server>>

\* The service has closed the connection: a write throws.  socket() sees an
\* open socket and neither reconnects nor invalidates the connection.
CallThrows(req) ==
  /\ cpc = "out"
  /\ Len(asked) < MaxCalls
  /\ spc = "closed"
  /\ asked' = Append(asked, req)
  /\ EndCall(Thrown, buffer \o Frame(Body(Len(asked) + 1, req)))
  /\ UNCHANGED <<up, down, server>>

\* What the streambuf keeps of the bytes of an answer that is complete.
LeftoverMutant(bytes) == bytes
Leftover(bytes) == <<>>

\* What send() does with the bytes it has: wait for more, or return the text
\* and clear the streambuf, with anything behind the text.
Received(bytes) ==
  IF Len(bytes) < Length(bytes) + 4
    THEN cpc' = "more" /\ buffer' = bytes /\ UNCHANGED results
    ELSE EndCall(Returned(SubSeq(bytes, 5, Length(bytes) + 4)), Leftover(bytes))

\* The first read has room for as many bytes as the request was long.  A short
\* one ends the call; its bytes stay in the streambuf.
ClientFirst ==
  /\ cpc = "first"
  /\ \E bytes \in FirstCut(down, 2 + asked[Len(asked)].size) :
       /\ down' = Rest(down, bytes)
       /\ IF Len(bytes) < 5
            THEN EndCall(Returned(<<>>), bytes)
            ELSE Received(bytes)
  /\ UNCHANGED <<up, asked, server>>

ClientMore ==
  /\ cpc = "more"
  /\ \E bytes \in Cut(down, Chunk) :
       /\ down' = Rest(down, bytes)
       /\ Received(buffer \o bytes)
  /\ UNCHANGED <<up, asked, server>>

\* End of file: read_some() throws, the streambuf keeps what was read.
ClientEof ==
  /\ cpc \in {"first", "more"}
  /\ down = <<>>
  /\ spc = "closed"
  /\ EndCall(Thrown, buffer)
  /\ UNCHANGED <<up, down, asked, server>>

-----------------------------------------------------------------------------
(* The service: respond(), process() and write() *)

\* documentSize(): of fewer than 5 bytes, their number.
DocumentSizeMutant(bytes) == IF Len(bytes) < 5 THEN Len(bytes) ELSE Length(bytes)
DocumentSize(bytes) == IF Len(bytes) < 5 THEN Len(bytes) ELSE Length(bytes) + 4

\* What process() can do with the text of a message: write these bytes, or
\* end the session with an exception.  A text nobody has sent can still look
\* like a request, and is encrypted or decrypted as one.
Dies == [dies |-> TRUE, bytes |-> <<>>]
Writes(bytes) == [dies |-> FALSE, bytes |-> bytes]

Outcomes(sv) ==
  LET own == {k \in 1..Len(asked) : sv = Body(k, asked[k])} IN
  IF own # {}
    THEN {IF asked[k].fails THEN Dies ELSE Writes(Frame(Answer(k, asked[k]))) : k \in own}
  ELSE IF sv \in {<<OpByte("e"), Space>>, <<OpByte("d"), Space>>}
    THEN {Writes(Frame(<<>>))}
  ELSE IF Len(sv) > 2 /\ SubSeq(sv, 1, 2) = <<OpByte("e"), Space>>
    THEN {Writes(Frame(Fill(Len(sv) + 2, 0)))}
  ELSE IF Len(sv) > 2 /\ SubSeq(sv, 1, 2) = <<OpByte("d"), Space>>
    THEN {Writes(Frame(<<>>)), Writes(Frame(Fill(1, 0))), Dies}
  ELSE {Writes(sv)}

\* The message is answered, or the coroutine ends and closes the socket.
Process(sv) ==
  \E outcome \in Outcomes(sv) :
    /\ down' = down \o outcome.bytes
    /\ spc' = IF outcome.dies THEN "closed" ELSE "first"

\* The array `data' behind the bytes just read is uninitialised.
Data(bytes) == bytes \o Fill(BufSize - Len(bytes), 0)

\* The first read of a message.  Fewer than 5 bytes, or a header that
\* announces nothing, are echoed; what fits the array is processed from it, and
\* bytes that were read behind the message are dropped; a longer message goes
\* on in the loop.
ServeFirst ==
  /\ spc = "first"
  /\ \E bytes \in FirstCut(up, BufSize) :
       LET doc == DocumentSize(bytes) IN
       /\ up' = Rest(up, bytes)
       /\ IF doc < 5
            THEN /\ down' = down \o SubSeq(bytes, 1, doc)
                 /\ UNCHANGED server
          ELSE IF doc <= BufSize
            THEN /\ Process(SubSeq(Data(bytes), 5, doc))
                 /\ UNCHANGED <<docSize, read, rbuf>>
          ELSE /\ spc' = "more"
               /\ docSize' = doc
               /\ read' = Len(bytes)
               /\ rbuf' = SubSeq(bytes, 5, Len(bytes))
               /\ UNCHANGED down
  /\ UNCHANGED client

\* The condition of the loop.
IncompleteMutant == docSize < MaxBytes /\ Len(rbuf) # docSize
Incomplete == docSize < MaxBytes /\ read # docSize

ServeMore ==
  /\ spc = "more"
  /\ Incomplete
  /\ \E bytes \in Cut(up, BufSize) :
       /\ up' = Rest(up, bytes)
       /\ read' = read + Len(bytes)
       /\ rbuf' = rbuf \o bytes
  /\ UNCHANGED <<down, client, spc, docSize>>

ServeDone ==
  /\ spc = "more"
  /\ ~Incomplete
  /\ Process(rbuf)
  /\ UNCHANGED <<up, client, docSize, read, rbuf>>

-----------------------------------------------------------------------------

Client == ClientFirst \/ ClientMore \/ ClientEof
Server == ServeFirst \/ ServeMore \/ ServeDone

Next ==
  \/ \E req \in Requests : Call(req) \/ CallThrows(req)
  \/ Client
  \/ Server

Spec == Init /\ [][Next]_vars

\* Both ends are scheduled, and the network delivers what is sent.
FairSpec == Spec /\ WF_vars(Client) /\ WF_vars(Server)

-----------------------------------------------------------------------------
(* Properties *)

Calls == 1..Len(results)

Byte == (0..(Base - 1)) \X (-MaxCalls..MaxCalls)

TypeOK ==
  /\ up \in Seq(Byte) /\ down \in Seq(Byte)
  /\ buffer \in Seq(Byte) /\ rbuf \in Seq(Byte)
  /\ cpc \in {"out", "first", "more"}
  /\ spc \in {"first", "more", "closed"}
  /\ docSize \in Nat /\ read \in Nat
  /\ asked \in Seq(Requests) /\ Len(asked) <= MaxCalls
  /\ results \in Seq([thrown : BOOLEAN, text : Seq(Byte)])
  /\ Len(results) = IF cpc = "out" THEN Len(asked) ELSE Len(asked) - 1

\* No call before the k-th has come back empty.
NoneEmptyBefore(k) == \A j \in 1..(k - 1) : results[j] # Returned(<<>>)

\* The text a call returns is the service's answer to this very request, never
\* to another one, never part of one and never the echo of a request ...
Answered(k) == results[k].text \in {<<>>, Answer(k, asked[k])}

OwnAnswer == \A k \in Calls : Answered(k)

\* ... as long as the network never cuts the first read of a message short and no
\* call before this one has come back empty; however the later reads cut the
\* streams, and whatever order the two ends run in.
OwnAnswerInStep ==
  FirstWhole => \A k \in Calls : NoneEmptyBefore(k) => Answered(k)

\* If no first read is cut short then, as long as every call has returned a text,
\* the connection is in step: between two calls nothing is on the wire or in a
\* buffer, and the service waits for the first byte of a message.
InStep ==
  FirstWhole /\ cpc = "out" /\ (\A k \in Calls : results[k].text # <<>>)
    => up = <<>> /\ down = <<>> /\ buffer = <<>> /\ spc = "first"

\* If no first read is cut short, a call returns or throws as long as none before
\* it came back empty: neither end waits for bytes the other has sent already or
\* will never send.
CallsEnd ==
  (FirstWhole /\ cpc # "out" /\ NoneEmptyBefore(Len(results) + 1)) ~> (cpc = "out")

\* "The encrypted value, or empty string if encryption failed": an empty
\* result means that the service has no answer.
EmptyOnlyOnFailure ==
  \A k \in Calls : results[k].text = <<>> => asked[k].answer = 0

\* "If errors are encountered while decrypting an empty string is returned":
\* no call throws.
NeverThrows == \A k \in Calls : ~results[k].thrown

=============================================================================
