----------------------------- MODULE WireProofs -----------------------------
(***************************************************************************)
(* What is proved of Wire for all sizes of the buffers, all requests and   *)
(* every way in which reads behind the first cut the streams: as long as   *)
(* no call came back empty, each has ended with its own answer and left    *)
(* the connection in step.                                                 *)
(***************************************************************************)
EXTENDS Wire, SequenceTheorems, TLAPS

-----------------------------------------------------------------------------
(* Numbers and their digits *)

LEMMA DigitOf ==
  ASSUME NEW n \in Nat
  PROVE  /\ Above(n) \in Nat /\ n % Base \in 0..(Base - 1)
         /\ n = (n % Base) + Base * Above(n)
BY WireAssumption DEF Above

LEMMA AboveBelow ==
  ASSUME NEW n \in Nat, NEW m \in Nat, n < Base * m
  PROVE  Above(n) < m
<1>1. Above(n) \in Nat /\ n % Base \in 0..(Base - 1) /\ n = (n % Base) + Base * Above(n)
  BY DigitOf
<1>2. Base * Above(n) < Base * m
  <2>. DEFINE a == Above(n)
              p == Base * a
              q == Base * m
              d == n % Base
  <2>1. p \in Int /\ q \in Int /\ d \in Int /\ 0 <= d /\ n = d + p /\ n < q
    BY <1>1, WireAssumption
  <2>. QED  BY <2>1
<1>3. ASSUME Above(n) >= m PROVE FALSE
  <2>1. Base * Above(n) >= Base * m
    BY <1>1, <1>3, WireAssumption
  <2>. QED  BY <1>1, <1>2, <2>1, WireAssumption
<1>. QED  BY <1>1, <1>3

LEMMA LowDigit ==
  ASSUME NEW n \in Nat, n < Base
  PROVE  n % Base = n
BY WireAssumption

\* What Header writes Length reads, from the four bytes and whatever is behind them.
LEMMA HeaderHoldsLength ==
  ASSUME NEW n \in Nat, n < Longest, NEW bytes,
         \A i \in 1..4 : bytes[i] = Header(n)[i]
  PROVE  Length(bytes) = n
<1>. DEFINE n1 == Above(n)
            n2 == Above(n1)
            n3 == Above(n2)
<1>1. /\ n1 \in Nat /\ n2 \in Nat /\ n3 \in Nat
      /\ n = (n % Base) + Base * n1
      /\ n1 = (n1 % Base) + Base * n2
      /\ n2 = (n2 % Base) + Base * n3
  BY DigitOf
<1>2. Base \in Nat /\ Base * Base \in Nat /\ Base * (Base * Base) \in Nat
  BY WireAssumption
<1>3. n1 < Base * (Base * Base)
  BY <1>2, AboveBelow DEF Longest
<1>4. n2 < Base * Base
  BY <1>1, <1>2, <1>3, AboveBelow
<1>5. n3 < Base
  BY <1>1, <1>2, <1>4, AboveBelow
<1>6. n3 % Base = n3
  BY <1>1, <1>5, LowDigit
<1>7. /\ bytes[1][1] = n % Base /\ bytes[2][1] = n1 % Base
      /\ bytes[3][1] = n2 % Base /\ bytes[4][1] = n3 % Base
  BY DEF Header, Digit
<1>8. Length(bytes) = (n % Base)
        + Base * ((n1 % Base) + Base * ((n2 % Base) + Base * (n3 % Base)))
  BY <1>7 DEF Length
<1>. HIDE DEF n1, n2, n3
<1>. QED  BY <1>1, <1>6, <1>8

-----------------------------------------------------------------------------
(* The bytes of a message *)

LEMMA ByteTypes ==
  /\ Text \in 0..(Base - 1) /\ Space \in Byte
  /\ \A op : OpByte(op) \in Byte
<1>1. Base \in Nat /\ Base > 2 /\ 0 \in -MaxCalls..MaxCalls
  BY WireAssumption
<1>2. Text \in 0..(Base - 1)
  BY <1>1 DEF Text
<1>3. Base \div 8 \in 0..(Base - 1)
  BY <1>1
<1>4. (2 * Base) \div 5 \in 1..(Base - 1)
  BY <1>1
<1>5. \A op : OpByte(op) \in Byte
  BY <1>1, <1>4 DEF OpByte, Byte
<1>. QED  BY <1>1, <1>2, <1>3, <1>5 DEF Space, Byte

LEMMA FillType ==
  ASSUME NEW n \in Nat, NEW origin \in -MaxCalls..MaxCalls
  PROVE  /\ Fill(n, origin) \in Seq(Byte) /\ Len(Fill(n, origin)) = n
         /\ \A i \in 1..n : Fill(n, origin)[i] = <<Text, origin>>
<1>1. <<Text, origin>> \in Byte
  BY ByteTypes DEF Byte
<1>. QED  BY <1>1 DEF Fill

LEMMA HeaderType ==
  ASSUME NEW n \in Nat
  PROVE  Header(n) \in Seq(Byte) /\ Len(Header(n)) = 4
<1>1. ASSUME NEW m \in Nat PROVE Digit(m) \in Byte /\ Above(m) \in Nat
  <2>1. m % Base \in 0..(Base - 1) /\ Above(m) \in Nat
    BY DigitOf
  <2>2. 0 \in -MaxCalls..MaxCalls
    BY WireAssumption
  <2>. QED  BY <2>1, <2>2 DEF Digit, Byte
<1>. QED  BY <1>1 DEF Header

LEMMA FrameType ==
  ASSUME NEW bytes \in Seq(Byte)
  PROVE  Frame(bytes) \in Seq(Byte) /\ Len(Frame(bytes)) = Len(bytes) + 4
<1>1. Len(bytes) \in Nat
  OBVIOUS
<1>. DEFINE h == Header(Len(bytes))
<1>2. h \in Seq(Byte) /\ Len(h) = 4
  BY <1>1, HeaderType
<1>3. Frame(bytes) = h \o bytes
  BY DEF Frame
<1>. HIDE DEF h
<1>4. h \o bytes \in Seq(Byte) /\ Len(h \o bytes) = Len(h) + Len(bytes)
  BY <1>2, ConcatProperties
<1>. QED  BY <1>1, <1>2, <1>3, <1>4

LEMMA BodyType ==
  ASSUME NEW k \in 1..MaxCalls, NEW req \in Requests
  PROVE  /\ Body(k, req) \in Seq(Byte) /\ Len(Body(k, req)) = req.size + 2
         /\ \A i \in 3..(req.size + 2) : Body(k, req)[i] = <<Text, k>>
         /\ Answer(k, req) \in Seq(Byte) /\ Len(Answer(k, req)) = req.answer
<1>1. /\ req.size \in Nat /\ req.answer \in Nat
      /\ k \in -MaxCalls..MaxCalls /\ -k \in -MaxCalls..MaxCalls
  BY WireAssumption
<1>2. <<OpByte(req.op), Space>> \in Seq(Byte)
  BY ByteTypes
<1>3. /\ Fill(req.size, k) \in Seq(Byte) /\ Len(Fill(req.size, k)) = req.size
      /\ \A i \in 1..req.size : Fill(req.size, k)[i] = <<Text, k>>
  BY <1>1, FillType
<1>4. Answer(k, req) \in Seq(Byte) /\ Len(Answer(k, req)) = req.answer
  BY <1>1, FillType DEF Answer
<1>5. Body(k, req) \in Seq(Byte) /\ Len(Body(k, req)) = req.size + 2
  BY <1>1, <1>2, <1>3 DEF Body
<1>6. ASSUME NEW i \in 3..(req.size + 2) PROVE Body(k, req)[i] = <<Text, k>>
  <2>1. i \in Int /\ i - 2 \in 1..req.size
    BY <1>1
  <2>2. Body(k, req)[i] = Fill(req.size, k)[i - 2]
    BY <1>1, <1>2, <1>3, <2>1 DEF Body
  <2>. QED  BY <1>3, <2>1, <2>2
<1>. QED  BY <1>4, <1>5, <1>6

LEMMA LengthType ==
  ASSUME NEW bytes \in Seq(Byte), Len(bytes) >= 4
  PROVE  Length(bytes) \in Nat
<1>1. \A i \in 1..4 : bytes[i] \in Byte
  OBVIOUS
<1>2. \A b \in Byte : b[1] \in Nat
  BY WireAssumption DEF Byte
<1>3. \A m, n \in Nat : m + Base * n \in Nat
  BY WireAssumption
<1>4. \A i \in 1..4 : bytes[i][1] \in Nat
  BY <1>1, <1>2
<1>5. /\ bytes[1][1] \in Nat /\ bytes[2][1] \in Nat
      /\ bytes[3][1] \in Nat /\ bytes[4][1] \in Nat
  BY <1>4
<1>. DEFINE u == bytes[3][1] + Base * bytes[4][1]
            v == bytes[2][1] + Base * u
<1>6. u \in Nat
  BY ONLY <1>3, <1>5
<1>. HIDE DEF u
<1>7. v \in Nat
  BY ONLY <1>3, <1>5, <1>6
<1>. HIDE DEF v
<1>8. bytes[1][1] + Base * v \in Nat
  BY ONLY <1>3, <1>5, <1>7
<1>. QED  BY ONLY <1>8 DEF Length, u, v

-----------------------------------------------------------------------------
(* A read *)

LEMMA MinOfTwo ==
  ASSUME NEW a \in Int, NEW b \in Int
  PROVE  Min({a, b}) = IF a <= b THEN a ELSE b
BY DEF Min

LEMMA CutType ==
  ASSUME NEW stream \in Seq(Byte), NEW room \in Nat, NEW bytes \in Cut(stream, room)
  PROVE  /\ bytes \in Seq(Byte) /\ Len(bytes) \in 1..Len(stream) /\ Len(bytes) <= room
         /\ \A i \in 1..Len(bytes) : bytes[i] = stream[i]
         /\ Rest(stream, bytes) \in Seq(Byte) /\ bytes \o Rest(stream, bytes) = stream
         /\ Len(Rest(stream, bytes)) = Len(stream) - Len(bytes)
<1>1. PICK n \in 1..Min({room, Len(stream)}) : bytes = SubSeq(stream, 1, n)
  BY DEF Cut
<1>2. Len(stream) \in Nat /\ n \in 1..Len(stream) /\ n <= room
  BY <1>1, MinOfTwo
<1>3. bytes \in Seq(Byte) /\ Len(bytes) = n /\ \A i \in 1..n : bytes[i] = stream[i]
  BY <1>1, <1>2
<1>4. /\ Rest(stream, bytes) \in Seq(Byte)
      /\ Len(Rest(stream, bytes)) = Len(stream) - n
  BY <1>2, <1>3 DEF Rest
<1>5. bytes \o Rest(stream, bytes) = SubSeq(stream, 1, Len(stream))
  BY <1>1, <1>2, <1>3, ConcatAdjacentSubSeq DEF Rest
<1>. QED  BY <1>2, <1>3, <1>4, <1>5, SubSeqFull

LEMMA FirstCutType ==
  ASSUME NEW stream, NEW room, NEW bytes \in FirstCut(stream, room)
  PROVE  bytes \in Cut(stream, room)
BY DEF FirstCut

-----------------------------------------------------------------------------
(* Types *)

\* A later read has the header before it.
TypeInv == TypeOK /\ (cpc = "more" => Len(buffer) >= 5)

Result == [thrown : BOOLEAN, text : Seq(Byte)]

LEMMA TypesInitially == Init => TypeInv
BY WireAssumption DEF Init, TypeInv, TypeOK

\* What process() may do with a text.
LEMMA OutcomeTypes ==
  ASSUME TypeOK, NEW sv \in Seq(Byte), NEW outcome \in Outcomes(sv)
  PROVE  outcome.bytes \in Seq(Byte) /\ outcome.dies \in BOOLEAN
<1>. DEFINE Typed(o) == o.bytes \in Seq(Byte) /\ o.dies \in BOOLEAN
<1>1. Typed(Dies) /\ \A bytes \in Seq(Byte) : Typed(Writes(bytes))
  BY DEF Dies, Writes
<1>2. ASSUME NEW k \in 1..Len(asked)
      PROVE  Typed(IF asked[k].fails THEN Dies ELSE Writes(Frame(Answer(k, asked[k]))))
  <2>1. k \in 1..MaxCalls /\ asked[k] \in Requests
    BY WireAssumption DEF TypeOK
  <2>2. Frame(Answer(k, asked[k])) \in Seq(Byte)
    BY <2>1, BodyType, FrameType
  <2>. QED  BY <1>1, <2>2
<1>3. Typed(Writes(Frame(<<>>))) /\ Typed(Writes(sv))
  <2>1. <<>> \in Seq(Byte)
    OBVIOUS
  <2>2. Frame(<<>>) \in Seq(Byte)
    BY <2>1, FrameType
  <2>. HIDE DEF Typed
  <2>. QED  BY <1>1, <2>2
<1>4. ASSUME NEW n \in Nat PROVE Typed(Writes(Frame(Fill(n, 0))))
  <2>1. 0 \in -MaxCalls..MaxCalls
    BY WireAssumption
  <2>. QED  BY <1>1, <2>1, FillType, FrameType
<1>5. Len(sv) + 2 \in Nat /\ 1 \in Nat
  OBVIOUS
<1>6. Typed(Writes(Frame(Fill(Len(sv) + 2, 0)))) /\ Typed(Writes(Frame(Fill(1, 0))))
  BY <1>4, <1>5
<1>. HIDE DEF Typed
<1>7. Typed(outcome)
  BY <1>1, <1>2, <1>3, <1>6 DEF Outcomes
<1>. QED  BY <1>7 DEF Typed

LEMMA ProcessTypes ==
  ASSUME TypeOK, NEW sv \in Seq(Byte), Process(sv)
  PROVE  down' \in Seq(Byte) /\ spc' \in {"first", "closed"}
<1>1. PICK outcome \in Outcomes(sv) :
        down' = down \o outcome.bytes /\ spc' = IF outcome.dies THEN "closed" ELSE "first"
  BY DEF Process
<1>2. outcome.bytes \in Seq(Byte)
  BY OutcomeTypes
<1>3. down \o outcome.bytes \in Seq(Byte)
  BY <1>2 DEF TypeOK
<1>. QED  BY <1>1, <1>3

LEMMA EndCallTypes ==
  ASSUME TypeOK, NEW result \in Result, NEW left \in Seq(Byte), EndCall(result, left)
  PROVE  /\ buffer' \in Seq(Byte) /\ cpc' = "out"
         /\ results' \in Seq(Result) /\ Len(results') = Len(results) + 1
BY DEF TypeOK, EndCall, Result

LEMMA ReceivedTypes ==
  ASSUME TypeOK, NEW bytes \in Seq(Byte), Len(bytes) >= 5, Received(bytes)
  PROVE  /\ buffer' \in Seq(Byte) /\ results' \in Seq(Result)
         /\ \/ cpc' = "more" /\ Len(buffer') >= 5 /\ results' = results
            \/ cpc' = "out" /\ Len(results') = Len(results) + 1
<1>1. Length(bytes) \in Nat
  BY LengthType
<1>2. CASE Len(bytes) < Length(bytes) + 4
  BY <1>2 DEF Received, TypeOK, Result
<1>3. CASE ~(Len(bytes) < Length(bytes) + 4)
  <2>. DEFINE text == SubSeq(bytes, 5, Length(bytes) + 4)
  <2>1. text \in Seq(Byte)
    BY <1>1, <1>3
  <2>2. Returned(text) \in Result
    BY <2>1 DEF Returned, Result
  <2>3. EndCall(Returned(text), <<>>)
    BY <1>3 DEF Received, Leftover
  <2>. HIDE DEF text
  <2>4. <<>> \in Seq(Byte)
    OBVIOUS
  <2>. QED  BY <2>2, <2>3, <2>4, EndCallTypes
<1>. QED  BY <1>2, <1>3

\* The request of the call that is being made.
LEMMA CallInProgress ==
  ASSUME TypeOK, cpc # "out"
  PROVE  /\ Len(asked) \in 1..MaxCalls /\ asked[Len(asked)] \in Requests
         /\ Len(results) = Len(asked) - 1
BY WireAssumption DEF TypeOK

LEMMA ThrownOrEmpty == Thrown \in Result /\ Returned(<<>>) \in Result
BY DEF Thrown, Returned, Result

LEMMA CallTypes ==
  ASSUME TypeOK, NEW req \in Requests, Call(req) \/ CallThrows(req)
  PROVE  TypeInv'
<1>. DEFINE k == Len(asked) + 1
            frame == Frame(Body(k, req))
<1>1. k \in 1..MaxCalls
  BY WireAssumption DEF TypeOK, Call, CallThrows
<1>2. frame \in Seq(Byte)
  BY <1>1, BodyType, FrameType
<1>3. up \o buffer \o frame \in Seq(Byte) /\ buffer \o frame \in Seq(Byte)
  BY <1>2 DEF TypeOK
<1>4. asked' = Append(asked, req)
  BY DEF Call, CallThrows
<1>5. asked' \in Seq(Requests) /\ Len(asked') = k /\ Len(asked') <= MaxCalls
  BY <1>1, <1>4 DEF TypeOK
<1>6. CASE Call(req)
  BY <1>3, <1>5, <1>6 DEF Call, TypeInv, TypeOK, server
<1>7. CASE CallThrows(req)
  <2>1. EndCall(Thrown, buffer \o frame) /\ cpc = "out"
    BY <1>7 DEF CallThrows
  <2>. HIDE DEF frame
  <2>2. /\ buffer' \in Seq(Byte) /\ cpc' = "out"
        /\ results' \in Seq(Result) /\ Len(results') = Len(results) + 1
    BY <1>3, <2>1, ThrownOrEmpty, EndCallTypes
  <2>3. UNCHANGED <<up, down, spc, docSize, read, rbuf>>
    BY <1>7 DEF CallThrows, server
  <2>. QED  BY <1>5, <2>1, <2>2, <2>3 DEF TypeInv, TypeOK, Result
<1>. QED  BY <1>6, <1>7

LEMMA ClientTypes ==
  ASSUME TypeInv, Client
  PROVE  TypeInv'
<1>0. TypeOK
  BY DEF TypeInv
<1>1. cpc # "out" /\ UNCHANGED <<up, asked, spc, docSize, read, rbuf>>
  BY DEF Client, ClientFirst, ClientMore, ClientEof, server
<1>2. ASSUME down' \in Seq(Byte), buffer' \in Seq(Byte), results' \in Seq(Result),
             \/ cpc' = "more" /\ Len(buffer') >= 5 /\ results' = results
             \/ cpc' = "out" /\ Len(results') = Len(results) + 1
      PROVE  TypeInv'
  BY <1>0, <1>1, <1>2, CallInProgress DEF TypeInv, TypeOK, Result
<1>3. CASE ClientFirst
  <2>1. 2 + asked[Len(asked)].size \in Nat
    BY <1>0, <1>1, CallInProgress, WireAssumption
  <2>2. PICK bytes \in FirstCut(down, 2 + asked[Len(asked)].size) :
          /\ down' = Rest(down, bytes)
          /\ IF Len(bytes) < 5 THEN EndCall(Returned(<<>>), bytes) ELSE Received(bytes)
    BY <1>3 DEF ClientFirst
  <2>3. bytes \in Seq(Byte) /\ Rest(down, bytes) \in Seq(Byte) /\ Len(bytes) \in Nat
    BY <1>0, <2>1, FirstCutType, CutType DEF TypeOK
  <2>4. CASE Len(bytes) < 5
    BY <1>0, <1>2, <2>2, <2>3, <2>4, ThrownOrEmpty, EndCallTypes
  <2>5. CASE ~(Len(bytes) < 5)
    BY <1>0, <1>2, <2>2, <2>3, <2>5, ReceivedTypes
  <2>. QED  BY <2>4, <2>5
<1>4. CASE ClientMore
  <2>1. PICK bytes \in Cut(down, Chunk) :
          down' = Rest(down, bytes) /\ Received(buffer \o bytes)
    BY <1>4 DEF ClientMore
  <2>2. bytes \in Seq(Byte) /\ Rest(down, bytes) \in Seq(Byte)
    BY <1>0, CutType, WireAssumption DEF TypeOK
  <2>3. buffer \o bytes \in Seq(Byte) /\ Len(buffer \o bytes) >= 5
    <3>1. buffer \in Seq(Byte) /\ Len(buffer) >= 5
      BY <1>4 DEF ClientMore, TypeInv, TypeOK
    <3>. QED  BY <2>2, <3>1
  <2>. QED  BY <1>0, <1>2, <2>1, <2>2, <2>3, ReceivedTypes
<1>5. CASE ClientEof
  <2>1. EndCall(Thrown, buffer) /\ down' = down
    BY <1>5 DEF ClientEof
  <2>2. buffer \in Seq(Byte) /\ down \in Seq(Byte)
    BY <1>0 DEF TypeOK
  <2>. QED  BY <1>0, <1>2, <2>1, <2>2, ThrownOrEmpty, EndCallTypes
<1>. QED  BY <1>3, <1>4, <1>5 DEF Client

LEMMA DocumentSizeType ==
  ASSUME NEW bytes \in Seq(Byte)
  PROVE  DocumentSize(bytes) \in Nat
BY LengthType DEF DocumentSize

LEMMA DataType ==
  ASSUME NEW bytes \in Seq(Byte), Len(bytes) <= BufSize
  PROVE  /\ Data(bytes) \in Seq(Byte) /\ Len(Data(bytes)) = BufSize
         /\ \A i \in 1..Len(bytes) : Data(bytes)[i] = bytes[i]
<1>. DEFINE n == BufSize - Len(bytes)
            noise == Fill(n, 0)
<1>1. n \in Nat /\ 0 \in -MaxCalls..MaxCalls
  BY WireAssumption
<1>2. noise \in Seq(Byte) /\ Len(noise) = n
  BY <1>1, FillType
<1>3. Data(bytes) = bytes \o noise
  BY DEF Data
<1>. HIDE DEF noise
<1>. QED  BY <1>2, <1>3, WireAssumption

LEMMA ServerTypes ==
  ASSUME TypeInv, Server
  PROVE  TypeInv'
<1>0. TypeOK
  BY DEF TypeInv
<1>1. /\ UNCHANGED <<cpc, buffer, asked, results>>
      /\ Requests' = Requests /\ MaxCalls' = MaxCalls /\ Byte' = Byte
  BY DEF Server, ServeFirst, ServeMore, ServeDone, client, Byte
<1>2. ASSUME up' \in Seq(Byte), down' \in Seq(Byte), rbuf' \in Seq(Byte),
             spc' \in {"first", "more", "closed"}, docSize' \in Nat, read' \in Nat
      PROVE  TypeInv'
  BY <1>0, <1>1, <1>2 DEF TypeInv, TypeOK
<1>3. CASE ServeFirst
  <2>1. PICK bytes \in FirstCut(up, BufSize) :
          LET doc == DocumentSize(bytes) IN
          /\ up' = Rest(up, bytes)
          /\ IF doc < 5
               THEN /\ down' = down \o SubSeq(bytes, 1, doc)
                    /\ UNCHANGED server
             ELSE IF doc <= BufSize
               THEN /\ Process(SubSeq(Data(bytes), 5, doc))
                    /\ UNCHANGED <<docSize, read, rbuf>>
             ELSE /\ spc' = "more"
                  /\ docSize' = doc
                  /\ read' = Len(bytes)
                  /\ rbuf' = SubSeq(bytes, 5, Len(bytes))
                  /\ UNCHANGED down
    BY <1>3 DEF ServeFirst
  <2>. DEFINE doc == DocumentSize(bytes)
  <2>2. /\ bytes \in Seq(Byte) /\ Len(bytes) \in Nat /\ Len(bytes) <= BufSize
        /\ Rest(up, bytes) \in Seq(Byte)
    BY <1>0, FirstCutType, CutType, WireAssumption DEF TypeOK
  <2>3. doc \in Nat
    BY <2>2, DocumentSizeType
  <2>4. CASE doc < 5
    <3>1. doc <= Len(bytes)
      BY <2>2, <2>4, LengthType DEF DocumentSize
    <3>2. SubSeq(bytes, 1, doc) \in Seq(Byte)
      BY <2>2, <2>3, <3>1
    <3>3. down \o SubSeq(bytes, 1, doc) \in Seq(Byte)
      BY <1>0, <3>2 DEF TypeOK
    <3>4. down' = down \o SubSeq(bytes, 1, doc) /\ up' = Rest(up, bytes) /\ UNCHANGED server
      BY <2>1, <2>4
    <3>. QED  BY <1>0, <1>2, <2>2, <3>3, <3>4 DEF TypeOK, server
  <2>5. CASE ~(doc < 5) /\ doc <= BufSize
    <3>1. SubSeq(Data(bytes), 5, doc) \in Seq(Byte)
      BY <2>2, <2>3, <2>5, DataType
    <3>2. Process(SubSeq(Data(bytes), 5, doc)) /\ up' = Rest(up, bytes)
          /\ UNCHANGED <<docSize, read, rbuf>>
      BY <2>1, <2>5
    <3>3. down' \in Seq(Byte) /\ spc' \in {"first", "closed"}
      BY <1>0, <3>1, <3>2, ProcessTypes
    <3>. QED  BY <1>0, <1>2, <2>2, <3>2, <3>3 DEF TypeOK
  <2>6. CASE ~(doc < 5) /\ ~(doc <= BufSize)
    <3>1. SubSeq(bytes, 5, Len(bytes)) \in Seq(Byte)
      BY <2>2
    <3>2. /\ spc' = "more" /\ docSize' = doc /\ read' = Len(bytes)
          /\ rbuf' = SubSeq(bytes, 5, Len(bytes)) /\ down' = down
          /\ up' = Rest(up, bytes)
      BY <2>1, <2>6
    <3>. HIDE DEF doc
    <3>. QED  BY <1>0, <1>2, <2>2, <2>3, <3>1, <3>2 DEF TypeOK
  <2>. QED  BY <2>4, <2>5, <2>6
<1>4. CASE ServeMore
  <2>1. PICK bytes \in Cut(up, BufSize) :
          /\ up' = Rest(up, bytes) /\ read' = read + Len(bytes)
          /\ rbuf' = rbuf \o bytes
    BY <1>4 DEF ServeMore
  <2>2. bytes \in Seq(Byte) /\ Len(bytes) \in Nat /\ Rest(up, bytes) \in Seq(Byte)
    BY <1>0, CutType, WireAssumption DEF TypeOK
  <2>3. UNCHANGED <<down, spc, docSize>>
    BY <1>4 DEF ServeMore
  <2>. QED  BY <1>0, <1>2, <2>1, <2>2, <2>3 DEF TypeOK
<1>5. CASE ServeDone
  <2>1. Process(rbuf) /\ UNCHANGED <<up, docSize, read, rbuf>>
    BY <1>5 DEF ServeDone
  <2>2. down' \in Seq(Byte) /\ spc' \in {"first", "closed"}
    BY <1>0, <2>1, ProcessTypes DEF TypeOK
  <2>. QED  BY <1>0, <1>2, <2>1, <2>2 DEF TypeOK
<1>. QED  BY <1>3, <1>4, <1>5 DEF Server

LEMMA TypesStep == TypeInv /\ [Next]_vars => TypeInv'
<1>. SUFFICES ASSUME TypeInv, [Next]_vars PROVE TypeInv'
  OBVIOUS
<1>1. TypeOK
  BY DEF TypeInv
<1>2. CASE UNCHANGED vars
  BY <1>2 DEF vars, client, server, TypeInv, TypeOK
<1>. QED  BY <1>1, <1>2, CallTypes, ClientTypes, ServerTypes DEF Next

\* Whatever is sent, and whatever the service takes for a request, the streams
\* are bytes and each call that is over has one result.
THEOREM WireTypes == Spec => []TypeOK
<1>1. TypeInv => TypeOK
  BY DEF TypeInv
<1>. QED  BY <1>1, TypesInitially, TypesStep, PTL DEF Spec

-----------------------------------------------------------------------------
(* The text behind a header *)

LEMMA ConcatFront ==
  ASSUME NEW s \in Seq(Byte), NEW t \in Seq(Byte)
  PROVE  \A i \in 1..Len(s) : (s \o t)[i] = s[i]
<1>1. Len(s) \in Nat /\ Len(t) \in Nat
  OBVIOUS
<1>. QED  BY <1>1

LEMMA Regroup ==
  ASSUME NEW s \in Seq(Byte), NEW t \in Seq(Byte), NEW u \in Seq(Byte)
  PROVE  (s \o t) \o u = s \o (t \o u)
BY ConcatAssociative

LEMMA ConcatBack ==
  ASSUME NEW s \in Seq(Byte), NEW t \in Seq(Byte)
  PROVE  SubSeq(s \o t, Len(s) + 1, Len(s) + Len(t)) = t
<1>. DEFINE a == Len(s)
            b == Len(t)
<1>1. a \in Nat /\ b \in Nat
  OBVIOUS
<1>2. CASE b = 0
  <2>1. a + b < a + 1 /\ a + b \in Int /\ a + 1 \in Int /\ t = <<>>
    BY <1>1, <1>2
  <2>2. SubSeq(s \o t, a + 1, a + b) = <<>>
    BY <2>1, SubSeqEmpty
  <2>. QED  BY <2>1, <2>2
<1>3. CASE b # 0
  <2>1. /\ a + 1 \in (a + 1)..(a + b) /\ a + b \in (a + 1)..(a + b)
        /\ (a + 1) - a = 1 /\ (a + b) - a = b
    BY <1>1, <1>3
  <2>2. SubSeq(s \o t, a + 1, a + b) = SubSeq(t, (a + 1) - a, (a + b) - a)
    BY <2>1, SubSeqOfConcat2
  <2>3. SubSeq(t, 1, b) = t
    BY SubSeqFull
  <2>. QED  BY <2>1, <2>2, <2>3
<1>. QED  BY <1>2, <1>3

LEMMA FrameHoldsLength ==
  ASSUME NEW text \in Seq(Byte), Len(text) < Longest,
         NEW bytes, \A i \in 1..4 : bytes[i] = Frame(text)[i]
  PROVE  Length(bytes) = Len(text)
<1>1. Len(text) \in Nat
  OBVIOUS
<1>. DEFINE h == Header(Len(text))
<1>2. h \in Seq(Byte) /\ Len(h) = 4
  BY <1>1, HeaderType
<1>3. Frame(text) = h \o text
  BY DEF Frame
<1>4. \A i \in 1..4 : bytes[i] = h[i]
  <2>. HIDE DEF h
  <2>1. \A i \in 1..4 : (h \o text)[i] = h[i]
    BY <1>2, ConcatFront
  <2>. QED  BY <1>3, <2>1
<1>. QED  BY <1>1, <1>4, HeaderHoldsLength

LEMMA FrameHoldsText ==
  ASSUME NEW text \in Seq(Byte)
  PROVE  SubSeq(Frame(text), 5, Len(text) + 4) = text
<1>1. Len(text) \in Nat
  OBVIOUS
<1>. DEFINE h == Header(Len(text))
<1>2. h \in Seq(Byte) /\ Len(h) = 4
  BY <1>1, HeaderType
<1>3. Frame(text) = h \o text
  BY DEF Frame
<1>. HIDE DEF h
<1>4. SubSeq(h \o text, 4 + 1, 4 + Len(text)) = text
  BY <1>2, ConcatBack
<1>5. 4 + 1 = 5 /\ 4 + Len(text) = Len(text) + 4
  BY <1>1
<1>. QED  BY <1>3, <1>4, <1>5

\* The header is cut off a message that is not complete yet.
LEMMA RestOfText ==
  ASSUME NEW text \in Seq(Byte), NEW bytes \in Seq(Byte), NEW rest \in Seq(Byte),
         bytes \o rest = Frame(text), Len(bytes) >= 5
  PROVE  /\ SubSeq(bytes, 5, Len(bytes)) \in Seq(Byte)
         /\ Len(SubSeq(bytes, 5, Len(bytes))) = Len(bytes) - 4
         /\ SubSeq(bytes, 5, Len(bytes)) \o rest = text
<1>. DEFINE n == Len(bytes)
            m == Len(text) + 4
            frame == bytes \o rest
            cut == SubSeq(bytes, 5, n)
<1>1. /\ n \in Nat /\ m \in Nat /\ frame \in Seq(Byte) /\ Len(frame) = m
      /\ Len(rest) = m - n /\ n \in 5..m /\ Len(rest) \in Nat
  <2>1. frame \in Seq(Byte) /\ Len(frame) = m
    BY FrameType
  <2>2. Len(frame) = Len(bytes) + Len(rest)
    BY ConcatProperties
  <2>3. Len(bytes) \in Nat /\ Len(rest) \in Nat /\ Len(text) \in Nat
    OBVIOUS
  <2>. HIDE DEF frame
  <2>. QED  BY <2>1, <2>2, <2>3
<1>2. cut \in Seq(Byte) /\ Len(cut) = n - 4
  BY <1>1
<1>3. cut = SubSeq(frame, 5, n)
  BY <1>1, SubSeqOfConcat1
<1>4. rest = SubSeq(frame, n + 1, m)
  <2>1. n + Len(rest) = m
    BY <1>1
  <2>. QED  BY <2>1, ConcatBack
<1>5. cut \o rest = SubSeq(frame, 5, m)
  <2>1. SubSeq(frame, 5, n) \o SubSeq(frame, n + 1, m) = SubSeq(frame, 5, m)
    <3>. HIDE DEF frame, n, m
    <3>. QED  BY <1>1, ConcatAdjacentSubSeq
  <2>. QED  BY <1>3, <1>4, <2>1
<1>6. SubSeq(frame, 5, m) = text
  BY FrameHoldsText
<1>. QED  BY <1>2, <1>5, <1>6

-----------------------------------------------------------------------------
(* The course of a call *)

\* The text of the request that is being made, and the answer to it.
Sent == Body(Len(asked), asked[Len(asked)])
Reply == Frame(Answer(Len(asked), asked[Len(asked)]))

NoneEmpty == NoneEmptyBefore(Len(results) + 1)

\* The service is gone, and every call throws.
Gone ==
  /\ spc = "closed" /\ down = <<>> /\ cpc # "more"
  /\ cpc = "out" => \E k \in Calls : results[k].thrown /\ results[k].text = <<>>

Idle ==
  /\ cpc = "out" /\ spc = "first"
  /\ up = <<>> /\ down = <<>> /\ buffer = <<>>

\* The request is on its way ...
Asking ==
  /\ cpc = "first" /\ spc = "first"
  /\ up = Frame(Sent) /\ down = <<>> /\ buffer = <<>>

\* ... or does not fit the array, and a part of it is with the service.
Reading ==
  /\ cpc = "first" /\ spc = "more"
  /\ rbuf \o up = Sent /\ down = <<>> /\ buffer = <<>>
  /\ docSize = Len(Sent) + 4 /\ docSize < MaxBytes
  /\ read = Len(rbuf) + 4

\* The answer is on its way, or a part of it is with the client.
Answering ==
  /\ cpc = "first" /\ spc = "first"
  /\ up = <<>> /\ down = Reply /\ buffer = <<>>

Receiving ==
  /\ cpc = "more" /\ spc = "first"
  /\ up = <<>> /\ buffer \o down = Reply

Phase == Gone \/ Idle \/ Asking \/ Reading \/ Answering \/ Receiving

EachOwn == \A k \in Calls : NoneEmptyBefore(k) => Answered(k)

WireInv == TypeInv /\ EachOwn /\ (NoneEmpty => Phase)

-----------------------------------------------------------------------------
(* What a step adds to the results *)

LEMMA ResultsKept ==
  ASSUME TypeInv, EachOwn, results' = results,
         \A k \in Calls : asked'[k] = asked[k]
  PROVE  EachOwn' /\ (NoneEmpty' <=> NoneEmpty)
<1>1. EachOwn'
  BY DEF EachOwn, NoneEmptyBefore, Answered, Calls, Answer
<1>2. NoneEmpty' <=> NoneEmpty
  BY DEF NoneEmpty, NoneEmptyBefore, Returned
<1>. QED  BY <1>1, <1>2

LEMMA ResultAdded ==
  ASSUME TypeInv, EachOwn, NEW r \in Result, results' = Append(results, r),
         \A k \in Calls : asked'[k] = asked[k],
         NoneEmpty => r.text \in {<<>>, Answer(Len(results) + 1, asked'[Len(results) + 1])}
  PROVE  EachOwn' /\ (NoneEmpty' => NoneEmpty /\ r # Returned(<<>>))
<1>. DEFINE n == Len(results)
<1>1. n \in Nat /\ results \in Seq(Result)
  BY DEF TypeInv, TypeOK, Result
<1>2. /\ Len(results') = n + 1 /\ results'[n + 1] = r
      /\ \A k \in 1..n : results'[k] = results[k]
  BY <1>1
<1>3. ASSUME NEW k \in 1..(n + 1), NoneEmptyBefore(k)'
      PROVE  NoneEmptyBefore(k)
  <2>1. \A j \in 1..(k - 1) : j \in 1..n
    BY <1>1
  <2>. QED  BY <1>2, <1>3, <2>1 DEF NoneEmptyBefore, Returned
<1>4. ASSUME NEW k \in 1..(n + 1), NoneEmptyBefore(k)'
      PROVE  results'[k].text \in {<<>>, Answer(k, asked'[k])}
  <2>1. CASE k = n + 1
    <3>1. NoneEmpty
      BY <1>3, <1>4, <2>1 DEF NoneEmpty
    <3>. QED  BY <1>2, <2>1, <3>1
  <2>2. CASE k \in 1..n
    <3>1. results[k].text \in {<<>>, Answer(k, asked[k])}
      BY <1>3, <1>4, <2>2 DEF EachOwn, Answered, Calls
    <3>. QED  BY <1>2, <2>2, <3>1 DEF Calls
  <2>. QED  BY <1>1, <2>1, <2>2
<1>5. EachOwn'
  BY <1>2, <1>4 DEF EachOwn, Answered, Calls, Answer
<1>6. ASSUME NoneEmpty' PROVE NoneEmpty /\ r # Returned(<<>>)
  <2>1. \A j \in 1..(n + 1) : results'[j] # Returned(<<>>)
    <3>1. (n + 1 + 1) - 1 = n + 1
      BY <1>1
    <3>. QED  BY <1>2, <1>6, <3>1 DEF NoneEmpty, NoneEmptyBefore, Returned
  <2>2. r # Returned(<<>>)
    BY <1>1, <1>2, <2>1
  <2>3. \A j \in 1..n : results[j] # Returned(<<>>)
    BY <1>1, <1>2, <2>1
  <2>4. (n + 1) - 1 = n
    BY <1>1
  <2>. QED  BY <2>2, <2>3, <2>4 DEF NoneEmpty, NoneEmptyBefore
<1>. QED  BY <1>5, <1>6

\* Behind a call that came back empty nothing is claimed.
LEMMA NothingClaimed ==
  ASSUME WireInv, TypeInv', ~NoneEmpty, \A k \in Calls : asked'[k] = asked[k],
         results' = results \/ \E r : results' = Append(results, r)
  PROVE  EachOwn' /\ ~NoneEmpty'
<1>1. TypeInv /\ EachOwn /\ results \in Seq(Result) /\ results' \in Seq(Result)
  BY DEF WireInv, TypeInv, TypeOK, Result, Byte
<1>2. CASE results' = results
  BY <1>1, <1>2, ResultsKept
<1>3. ASSUME NEW r, results' = Append(results, r) PROVE EachOwn' /\ ~NoneEmpty'
  <2>1. Len(results') = Len(results) + 1 /\ results'[Len(results) + 1] = r
    BY <1>1, <1>3
  <2>2. r \in Result
    BY <1>1, <2>1
  <2>. QED  BY <1>1, <1>3, <2>2, ResultAdded
<1>. QED  BY <1>2, <1>3

-----------------------------------------------------------------------------
(* The service *)

LEMMA SentType ==
  ASSUME TypeOK, Fits, cpc # "out"
  PROVE  /\ Sent \in Seq(Byte) /\ Len(Sent) \in Nat /\ Len(Sent) >= 2
         /\ Len(Sent) + 4 < MaxBytes /\ Len(Sent) < Longest
         /\ Len(Sent) = asked[Len(asked)].size + 2
         /\ Frame(Sent) \in Seq(Byte) /\ Len(Frame(Sent)) = Len(Sent) + 4
<1>. DEFINE k == Len(asked)
            req == asked[k]
<1>1. k \in 1..MaxCalls /\ req \in Requests
  BY CallInProgress
<1>2. req.size \in Nat /\ req.size + 6 < MaxBytes /\ MaxBytes <= Longest
  BY <1>1, WireAssumption DEF Fits
<1>3. MaxBytes \in Nat /\ Longest \in Nat
  <2>1. \A m \in Nat : Base * m \in Nat
    BY WireAssumption
  <2>. QED  BY <2>1, WireAssumption DEF Longest
<1>4. Sent \in Seq(Byte) /\ Len(Sent) = req.size + 2
  BY <1>1, BodyType DEF Sent
<1>. HIDE DEF k, req
<1>5. Frame(Sent) \in Seq(Byte) /\ Len(Frame(Sent)) = Len(Sent) + 4
  BY <1>4, FrameType
<1>6. asked[Len(asked)].size = req.size
  BY DEF k, req
<1>. QED  BY <1>2, <1>3, <1>4, <1>5, <1>6

LEMMA ReplyType ==
  ASSUME TypeOK, Fits, cpc # "out"
  PROVE  LET answer == Answer(Len(asked), asked[Len(asked)]) IN
         /\ answer \in Seq(Byte) /\ Len(answer) \in Nat /\ Len(answer) < Longest
         /\ Reply \in Seq(Byte) /\ Len(Reply) = Len(answer) + 4
<1>. DEFINE k == Len(asked)
            req == asked[k]
<1>1. k \in 1..MaxCalls /\ req \in Requests
  BY CallInProgress
<1>2. req.answer \in Nat /\ req.answer < Longest
  BY <1>1, WireAssumption DEF Fits
<1>3. Answer(k, req) \in Seq(Byte) /\ Len(Answer(k, req)) = req.answer
  BY <1>1, BodyType
<1>. QED  BY <1>2, <1>3, FrameType DEF Reply

\* The text of a request is taken for this request, or for another one with
\* the same answer.
LEMMA SentIsAnswered ==
  ASSUME TypeOK, Fits, cpc # "out", NEW outcome \in Outcomes(Sent)
  PROVE  outcome = Dies \/ outcome = Writes(Reply)
<1>. DEFINE n == Len(asked)
            own == {k \in 1..n : Sent = Body(k, asked[k])}
<1>1. n \in 1..MaxCalls /\ asked[n] \in Requests /\ MaxCalls \in Nat
  BY CallInProgress, WireAssumption
<1>2. n \in own
  BY <1>1 DEF Sent
<1>3. PICK k \in own :
        outcome = IF asked[k].fails THEN Dies ELSE Writes(Frame(Answer(k, asked[k])))
  BY <1>2 DEF Outcomes
<1>4. k \in 1..MaxCalls /\ asked[k] \in Requests /\ Sent = Body(k, asked[k])
  BY <1>1 DEF TypeOK
<1>5. asked[n].size \in Nat /\ asked[k].size \in Nat
  BY <1>1, <1>4, WireAssumption
<1>6. asked[k].size = asked[n].size
  <2>1. Len(Sent) = asked[k].size + 2
    BY <1>4, BodyType
  <2>2. Len(Sent) = asked[n].size + 2
    BY SentType
  <2>3. \A a, b \in Nat : a + 2 = b + 2 => a = b
    OBVIOUS
  <2>. QED  BY ONLY <1>5, <2>1, <2>2, <2>3, Zenon
<1>7. CASE asked[n].size = 0
  <2>1. asked[k].answer = 0 /\ asked[n].answer = 0
    BY <1>1, <1>4, <1>6, <1>7 DEF Fits
  <2>2. Answer(k, asked[k]) = Answer(n, asked[n])
    BY <2>1 DEF Answer, Fill
  <2>. QED  BY <1>3, <2>2 DEF Reply
<1>8. CASE asked[n].size # 0
  <2>1. 3 \in 3..(asked[n].size + 2) /\ 3 \in 3..(asked[k].size + 2)
    BY <1>5, <1>6, <1>8
  <2>2. Sent[3] = <<Text, k>>
    BY <1>4, <2>1, BodyType
  <2>3. Sent[3] = <<Text, n>>
    BY <1>1, <2>1, BodyType DEF Sent
  <2>4. k = n
    BY <2>2, <2>3
  <2>. QED  BY <1>3, <2>4 DEF Reply
<1>. QED  BY <1>7, <1>8

LEMMA ProcessSent ==
  ASSUME TypeOK, Fits, cpc = "first", up' = <<>>, down = <<>>, buffer = <<>>,
         UNCHANGED client, Process(Sent)
  PROVE  Phase'
<1>1. PICK outcome \in Outcomes(Sent) :
        down' = down \o outcome.bytes /\ spc' = IF outcome.dies THEN "closed" ELSE "first"
  BY DEF Process
<1>2. cpc' = "first" /\ asked' = asked /\ buffer' = <<>>
  BY DEF client
<1>3. CASE outcome = Dies
  <2>1. down' = <<>> /\ spc' = "closed"
    BY <1>1, <1>3, EmptySeq, ConcatEmptySeq DEF Dies
  <2>. QED  BY <1>2, <2>1 DEF Phase, Gone
<1>4. CASE outcome = Writes(Reply)
  <2>1. Reply \in Seq(Byte)
    BY ReplyType
  <2>2. down' = Reply /\ spc' = "first"
    BY <1>1, <1>4, <2>1, ConcatEmptySeq DEF Writes
  <2>3. Reply' = Reply
    BY <1>2 DEF Reply, Frame, Header, Digit, Above, Answer, Fill, Text
  <2>. QED  BY <1>2, <2>2, <2>3 DEF Phase, Answering
<1>. QED  BY <1>3, <1>4, SentIsAnswered

\* The first read of a request: it has all that fits the array.
LEMMA AskingServed ==
  ASSUME TypeInv, Fits, Asking, ServeFirst
  PROVE  Phase'
<1>. DEFINE frame == Frame(Sent)
            m == Len(Sent) + 4
<1>0. TypeOK /\ cpc = "first" /\ up = frame /\ down = <<>> /\ buffer = <<>>
  BY DEF TypeInv, Asking
<1>1. /\ Sent \in Seq(Byte) /\ Len(Sent) \in Nat /\ Len(Sent) >= 2
      /\ m < MaxBytes /\ Len(Sent) < Longest
      /\ frame \in Seq(Byte) /\ Len(frame) = m
  BY <1>0, SentType
<1>2. UNCHANGED client
  BY DEF ServeFirst
<1>3. PICK bytes \in FirstCut(up, BufSize) :
        LET doc == DocumentSize(bytes) IN
        /\ up' = Rest(up, bytes)
        /\ IF doc < 5
             THEN /\ down' = down \o SubSeq(bytes, 1, doc)
                  /\ UNCHANGED server
           ELSE IF doc <= BufSize
             THEN /\ Process(SubSeq(Data(bytes), 5, doc))
                  /\ UNCHANGED <<docSize, read, rbuf>>
           ELSE /\ spc' = "more"
                /\ docSize' = doc
                /\ read' = Len(bytes)
                /\ rbuf' = SubSeq(bytes, 5, Len(bytes))
                /\ UNCHANGED down
  BY DEF ServeFirst
<1>. DEFINE n == Len(bytes)
            rest == Rest(frame, bytes)
<1>4. BufSize \in Nat /\ BufSize >= 5
  BY WireAssumption
<1>5. /\ bytes \in Seq(Byte) /\ n \in Nat /\ n <= BufSize
      /\ \A i \in 1..n : bytes[i] = frame[i]
      /\ rest \in Seq(Byte) /\ bytes \o rest = frame /\ Len(rest) = m - n
  <2>1. bytes \in Cut(frame, BufSize)
    BY <1>0, FirstCutType
  <2>. HIDE DEF frame
  <2>. QED  BY <1>1, <1>4, <2>1, CutType
<1>6. n = IF BufSize <= m THEN BufSize ELSE m
  <2>1. FirstWhole /\ bytes \in FirstCut(frame, BufSize)
    BY <1>0 DEF Fits
  <2>2. n = Min({BufSize, Len(frame)})
    BY <2>1 DEF FirstCut
  <2>. QED  BY <1>1, <1>4, <2>2, MinOfTwo
<1>7. n >= 5 /\ Len(Sent) + 4 = m /\ m \in Nat
  BY <1>1, <1>4, <1>6
<1>8. DocumentSize(bytes) = m
  <2>1. \A i \in 1..4 : bytes[i] = frame[i]
    <3>. HIDE DEF n, frame, m, rest
    <3>1. \A i \in 1..4 : i \in 1..n
      BY <1>5, <1>7
    <3>. QED  BY <1>5, <3>1
  <2>2. Length(bytes) = Len(Sent)
    BY <1>1, <2>1, FrameHoldsLength
  <2>. QED  BY <1>5, <1>7, <2>2 DEF DocumentSize
<1>9. /\ up' = rest
      /\ m <= BufSize => Process(SubSeq(Data(bytes), 5, m))
      /\ ~(m <= BufSize) => /\ spc' = "more" /\ docSize' = m /\ read' = n
                            /\ rbuf' = SubSeq(bytes, 5, n) /\ down' = down
  <2>1. ~(m < 5)
    BY <1>1
  <2>. HIDE DEF m
  <2>. QED  BY <1>0, <1>3, <1>8, <2>1
<1>10. CASE m <= BufSize
  <2>1. n = m
    BY <1>1, <1>4, <1>6, <1>10
  <2>2. rest = <<>>
    BY <1>1, <1>5, <2>1
  <2>3. SubSeq(Data(bytes), 5, m) = Sent
    <3>. DEFINE noise == Fill(BufSize - n, 0)
    <3>1. BufSize - n \in Nat /\ 0 \in -MaxCalls..MaxCalls
      BY <1>4, <1>5, WireAssumption
    <3>2. noise \in Seq(Byte)
      BY <3>1, FillType
    <3>3. bytes = frame
      BY <1>5, <2>2, ConcatEmptySeq
    <3>4. Data(bytes) = frame \o noise
      BY <3>3 DEF Data
    <3>. HIDE DEF noise, frame
    <3>5. 5 \in 1..Len(frame) /\ m \in 1..Len(frame)
      BY <1>1
    <3>6. SubSeq(frame \o noise, 5, m) = SubSeq(frame, 5, m)
      BY <1>1, <3>2, <3>5, SubSeqOfConcat1
    <3>7. SubSeq(frame, 5, m) = Sent
      BY <1>1, FrameHoldsText DEF frame
    <3>. QED  BY <3>4, <3>6, <3>7
  <2>. QED  BY <1>0, <1>2, <1>9, <1>10, <2>2, <2>3, ProcessSent
<1>11. CASE ~(m <= BufSize)
  <2>1. rbuf' = SubSeq(bytes, 5, n) /\ up' = rest
    BY <1>9, <1>11
  <2>2. rbuf' \o up' = Sent /\ Len(rbuf') = n - 4
    <3>1. bytes \o rest = Frame(Sent)
      BY <1>5
    <3>. HIDE DEF frame, rest
    <3>. QED  BY <1>1, <1>5, <1>7, <2>1, <3>1, RestOfText
  <2>3. Sent' = Sent
    BY <1>2 DEF client, Sent, Body, OpByte, Space, Fill, Text
  <2>4. read' = Len(rbuf') + 4
    <3>1. read' = n
      BY <1>9, <1>11
    <3>. QED  BY <1>5, <2>2, <3>1
  <2>5. /\ cpc' = "first" /\ spc' = "more" /\ down' = <<>> /\ buffer' = <<>>
        /\ docSize' = Len(Sent) + 4 /\ docSize' < MaxBytes
    BY <1>0, <1>1, <1>2, <1>9, <1>11 DEF client
  <2>. QED  BY <2>2, <2>3, <2>4, <2>5 DEF Phase, Reading
<1>. QED  BY <1>10, <1>11

\* The later reads of a request.
LEMMA ReadingServed ==
  ASSUME TypeInv, Fits, Reading, ServeMore \/ ServeDone
  PROVE  Phase'
<1>0. /\ TypeOK /\ up \in Seq(Byte) /\ rbuf \in Seq(Byte)
      /\ cpc = "first" /\ down = <<>> /\ buffer = <<>>
      /\ Sent \in Seq(Byte) /\ Len(Sent) \in Nat
  BY SentType DEF TypeInv, TypeOK, Reading
<1>1. CASE ServeMore
  <2>1. PICK bytes \in Cut(up, BufSize) :
          /\ up' = Rest(up, bytes) /\ read' = read + Len(bytes) /\ rbuf' = rbuf \o bytes
    BY <1>1 DEF ServeMore
  <2>2. /\ bytes \in Seq(Byte) /\ Len(bytes) \in Nat /\ up' \in Seq(Byte)
        /\ bytes \o up' = up
    <3>1. BufSize \in Nat
      BY WireAssumption
    <3>2. /\ bytes \in Seq(Byte) /\ Len(bytes) \in 1..Len(up)
          /\ Rest(up, bytes) \in Seq(Byte) /\ bytes \o Rest(up, bytes) = up
      BY <1>0, <2>1, <3>1, CutType
    <3>3. Len(bytes) \in Nat
      BY <3>2
    <3>. QED  BY <2>1, <3>2, <3>3
  <2>3. rbuf' \o up' = Sent
    <3>1. (rbuf \o bytes) \o up' = rbuf \o (bytes \o up')
      <4>1. rbuf \in Seq(Byte) /\ bytes \in Seq(Byte) /\ up' \in Seq(Byte)
        BY <1>0, <2>2
      <4>. QED  BY ONLY <4>1, Regroup, Zenon
    <3>. QED  BY <2>1, <2>2, <3>1 DEF Reading
  <2>4. read' = Len(rbuf') + 4
    <3>1. Len(rbuf \o bytes) = Len(rbuf) + Len(bytes) /\ Len(rbuf) \in Nat
      BY <1>0, <2>2
    <3>. QED  BY <2>1, <2>2, <3>1 DEF Reading
  <2>5. UNCHANGED <<down, cpc, buffer, asked, spc, docSize>>
    BY <1>1 DEF ServeMore, client
  <2>6. Sent' = Sent
    BY <2>5 DEF Sent, Body, OpByte, Space, Fill, Text
  <2>. QED  BY <2>3, <2>4, <2>5, <2>6 DEF Phase, Reading
<1>2. CASE ServeDone
  <2>1. /\ ~Incomplete /\ Process(rbuf) /\ up' = up /\ UNCHANGED client
    BY <1>2 DEF ServeDone
  <2>2. read = docSize
    BY <2>1 DEF Incomplete, Reading
  <2>3. Len(rbuf) \in Nat /\ Len(up) \in Nat /\ Len(rbuf) = Len(Sent)
    BY <1>0, <2>2 DEF Reading
  <2>4. Len(rbuf) + Len(up) = Len(Sent)
    BY <1>0, ConcatProperties DEF Reading
  <2>5. up = <<>>
    BY <1>0, <2>3, <2>4
  <2>6. rbuf = Sent
    BY <1>0, <2>5, ConcatEmptySeq DEF Reading
  <2>. QED  BY <1>0, <2>1, <2>5, <2>6, ProcessSent
<1>. QED  BY <1>1, <1>2

LEMMA NothingToRead ==
  ASSUME NEW room \in Nat
  PROVE  Cut(<<>>, room) = {}
BY MinOfTwo DEF Cut

LEMMA ServerStep ==
  ASSUME WireInv, Fits, Server
  PROVE  EachOwn' /\ (NoneEmpty' => Phase')
<1>1. TypeInv /\ EachOwn /\ UNCHANGED client
  BY DEF WireInv, Server, ServeFirst, ServeMore, ServeDone
<1>2. EachOwn' /\ (NoneEmpty' <=> NoneEmpty)
  BY <1>1, ResultsKept DEF client
<1>3. ASSUME NoneEmpty PROVE Phase'
  <2>1. Phase
    BY <1>3 DEF WireInv
  <2>2. CASE ServeFirst
    <3>1. up # <<>>
      <4>1. \E bytes \in Cut(up, BufSize) : TRUE
        BY <2>2, FirstCutType DEF ServeFirst
      <4>. QED  BY <4>1, NothingToRead, WireAssumption
    <3>2. Asking
      BY <2>1, <2>2, <3>1 DEF ServeFirst, Phase, Gone, Idle, Reading, Answering, Receiving
    <3>. QED  BY <1>1, <2>2, <3>2, AskingServed
  <2>3. CASE ServeMore \/ ServeDone
    <3>1. Reading
      BY <2>1, <2>3 DEF ServeMore, ServeDone, Phase, Gone, Idle, Asking, Answering, Receiving
    <3>. QED  BY <1>1, <2>3, <3>1, ReadingServed
  <2>. QED  BY <2>2, <2>3 DEF Server
<1>. QED  BY <1>2, <1>3

-----------------------------------------------------------------------------
(* The client *)

\* A call that ends with this result.
LEMMA CallEnds ==
  ASSUME WireInv, cpc # "out", asked' = asked,
         NEW r \in Result, NEW left, EndCall(r, left),
         r.text \in {<<>>, Answer(Len(asked), asked[Len(asked)])}
  PROVE  EachOwn' /\ (NoneEmpty' => NoneEmpty /\ r # Returned(<<>>))
<1>1. TypeInv /\ EachOwn /\ results' = Append(results, r)
  BY DEF WireInv, EndCall
<1>2. Len(results) + 1 = Len(asked)
  BY <1>1, CallInProgress DEF TypeInv
<1>. QED  BY <1>1, <1>2, ResultAdded

\* A read that has not less than the header of the answer.
LEMMA AnswerReceived ==
  ASSUME WireInv, Fits, cpc # "out", spc = "first", up = <<>>,
         NEW bytes \in Seq(Byte), NEW rest \in Seq(Byte),
         bytes \o rest = Reply, Len(bytes) >= 5,
         Received(bytes), down' = rest, UNCHANGED <<up, asked, server>>
  PROVE  EachOwn' /\ Phase'
<1>. DEFINE answer == Answer(Len(asked), asked[Len(asked)])
            len == Length(bytes)
            text == SubSeq(bytes, 5, len + 4)
<1>1. TypeInv /\ TypeOK /\ EachOwn /\ spc' = "first" /\ up' = <<>>
  BY DEF WireInv, TypeInv, server
<1>2. /\ answer \in Seq(Byte) /\ Len(answer) \in Nat /\ Len(answer) < Longest
      /\ Reply \in Seq(Byte) /\ Len(Reply) = Len(answer) + 4 /\ Reply = Frame(answer)
  BY <1>1, ReplyType DEF Reply
<1>3. Reply' = Reply
  BY DEF Reply, Frame, Header, Digit, Above, Answer, Fill, Text
<1>. HIDE DEF answer
<1>4. /\ Len(bytes) \in Nat /\ Len(rest) \in Nat /\ len \in Nat
  BY LengthType
<1>5. len = Len(answer) /\ Len(bytes) + Len(rest) = len + 4
  <2>1. \A i \in 1..4 : bytes[i] = Frame(answer)[i]
    <3>1. \A i \in 1..4 : i \in 1..Len(bytes)
      BY <1>4
    <3>. QED  BY <1>2, <3>1, ConcatFront
  <2>2. len = Len(answer)
    BY <1>2, <2>1, FrameHoldsLength
  <2>3. Len(bytes \o rest) = Len(bytes) + Len(rest)
    BY ConcatProperties
  <2>. QED  BY <1>2, <2>2, <2>3
<1>. HIDE DEF len
<1>6. CASE Len(bytes) < len + 4
  <2>1. cpc' = "more" /\ buffer' = bytes /\ results' = results
    BY <1>6 DEF Received, len
  <2>2. EachOwn'
    BY <1>1, <2>1, ResultsKept
  <2>3. Phase'
    BY <1>1, <1>3, <2>1 DEF Phase, Receiving
  <2>. QED  BY <2>2, <2>3
<1>7. CASE ~(Len(bytes) < len + 4)
  <2>1. EndCall(Returned(text), <<>>)
    BY <1>7 DEF Received, Leftover, len
  <2>2. text \in Seq(Byte)
    BY <1>4, <1>7
  <2>3. Returned(text) \in Result /\ Returned(text).text = text
    BY <2>2 DEF Returned, Result
  <2>4. text = answer /\ rest = <<>>
    <3>1. rest = <<>>
      BY <1>4, <1>5, <1>7
    <3>2. bytes = Frame(answer)
      BY <1>2, <3>1, ConcatEmptySeq
    <3>3. SubSeq(Frame(answer), 5, Len(answer) + 4) = answer
      BY <1>2, FrameHoldsText
    <3>. QED  BY <1>5, <3>1, <3>2, <3>3
  <2>. HIDE DEF text
  <2>5. EachOwn'
    BY <2>1, <2>3, <2>4, CallEnds DEF answer
  <2>6. cpc' = "out" /\ buffer' = <<>> /\ down' = <<>>
    BY <2>1, <2>4 DEF EndCall
  <2>. QED  BY <1>1, <2>5, <2>6 DEF Phase, Idle
<1>. QED  BY <1>6, <1>7

\* The service is gone, and the call throws.
LEMMA GoneStays ==
  ASSUME TypeInv', spc' = "closed", down' = <<>>, cpc' = "out",
         results' = Append(results, Thrown), results \in Seq(Result)
  PROVE  Phase'
<1>1. /\ Len(results) \in Nat /\ Len(results') = Len(results) + 1
      /\ results'[Len(results) + 1] = Thrown
  BY ThrownOrEmpty
<1>2. Len(results') \in 1..Len(results') /\ results'[Len(results')] = Thrown
  BY <1>1
<1>3. results'[Len(results')].thrown /\ results'[Len(results')].text = <<>>
  BY <1>2 DEF Thrown
<1>. QED  BY <1>2, <1>3 DEF Phase, Gone, Calls

LEMMA ClientStep ==
  ASSUME WireInv, NoneEmpty, Fits, Client
  PROVE  EachOwn' /\ (NoneEmpty' => Phase')
<1>0. /\ TypeInv /\ TypeOK /\ EachOwn /\ Phase /\ cpc # "out"
      /\ down \in Seq(Byte) /\ buffer \in Seq(Byte) /\ results \in Seq(Result)
      /\ UNCHANGED <<up, asked, server>>
  BY DEF WireInv, TypeInv, TypeOK, Result, Client, ClientFirst, ClientMore, ClientEof
<1>1. TypeInv'
  BY <1>0, ClientTypes
<1>2. CASE ClientFirst
  <2>. DEFINE room == 2 + asked[Len(asked)].size
  <2>1. room \in Nat
    BY <1>0, CallInProgress, WireAssumption
  <2>2. PICK bytes \in FirstCut(down, room) :
          /\ down' = Rest(down, bytes)
          /\ IF Len(bytes) < 5 THEN EndCall(Returned(<<>>), bytes) ELSE Received(bytes)
    BY <1>2 DEF ClientFirst
  <2>3. bytes \in Cut(down, room)
    BY <2>2, FirstCutType
  <2>. HIDE DEF room
  <2>4. /\ bytes \in Seq(Byte) /\ Len(bytes) \in Nat
        /\ Rest(down, bytes) \in Seq(Byte) /\ bytes \o Rest(down, bytes) = down
    BY <1>0, <2>1, <2>3, CutType
  <2>5. CASE Len(bytes) < 5
    <3>1. EndCall(Returned(<<>>), bytes) /\ Returned(<<>>).text = <<>>
      BY <2>2, <2>5 DEF Returned
    <3>. QED  BY <1>0, <3>1, CallEnds, ThrownOrEmpty
  <2>6. CASE ~(Len(bytes) < 5)
    <3>1. Received(bytes) /\ Len(bytes) >= 5
      BY <2>2, <2>4, <2>6
    <3>2. down # <<>>
      BY <2>1, <2>3, NothingToRead
    <3>3. Answering
      BY <1>0, <1>2, <3>2 DEF ClientFirst, Phase, Gone, Idle, Asking, Reading, Receiving
    <3>4. spc = "first" /\ up = <<>> /\ down = Reply
      BY <3>3 DEF Answering
    <3>. QED  BY <1>0, <2>2, <2>4, <3>1, <3>4, AnswerReceived
  <2>. QED  BY <2>5, <2>6
<1>3. CASE ClientMore
  <2>1. PICK bytes \in Cut(down, Chunk) :
          down' = Rest(down, bytes) /\ Received(buffer \o bytes)
    BY <1>3 DEF ClientMore
  <2>2. Receiving
    BY <1>0, <1>3 DEF ClientMore, Phase, Gone, Idle, Asking, Reading, Answering
  <2>3. spc = "first" /\ up = <<>> /\ buffer \o down = Reply /\ Len(buffer) >= 5
    BY <1>0, <2>2 DEF Receiving, TypeInv
  <2>4. /\ bytes \in Seq(Byte) /\ Rest(down, bytes) \in Seq(Byte)
        /\ bytes \o Rest(down, bytes) = down
    BY <1>0, <2>1, CutType, WireAssumption
  <2>5. (buffer \o bytes) \o Rest(down, bytes) = Reply
    <3>1. (buffer \o bytes) \o Rest(down, bytes) = buffer \o (bytes \o Rest(down, bytes))
      BY ONLY <1>0, <2>4, Regroup, Zenon
    <3>. QED  BY <2>3, <2>4, <3>1
  <2>6. buffer \o bytes \in Seq(Byte) /\ Len(buffer \o bytes) >= 5
    BY <1>0, <2>3, <2>4
  <2>. QED  BY <1>0, <2>1, <2>3, <2>4, <2>5, <2>6, AnswerReceived
<1>4. CASE ClientEof
  <2>1. EndCall(Thrown, buffer) /\ down = <<>> /\ down' = <<>> /\ spc' = "closed"
    BY <1>0, <1>4 DEF ClientEof, server
  <2>2. EachOwn'
    BY <1>0, <2>1, CallEnds, ThrownOrEmpty DEF Thrown
  <2>3. Phase'
    BY <1>0, <1>1, <2>1, GoneStays DEF EndCall
  <2>. QED  BY <2>2, <2>3
<1>. QED  BY <1>2, <1>3, <1>4 DEF Client

-----------------------------------------------------------------------------
(* The calls *)

LEMMA AskedGrows ==
  ASSUME TypeOK, cpc = "out", NEW req \in Requests, asked' = Append(asked, req)
  PROVE  /\ Len(asked') = Len(asked) + 1 /\ asked'[Len(asked) + 1] = req
         /\ \A k \in Calls : asked'[k] = asked[k]
<1>1. asked \in Seq(Requests) /\ Len(asked) \in Nat /\ Len(results) = Len(asked)
  BY DEF TypeOK
<1>. QED  BY <1>1 DEF Calls

LEMMA CallStep ==
  ASSUME WireInv, NoneEmpty, NEW req \in Requests, Call(req) \/ CallThrows(req)
  PROVE  EachOwn' /\ (NoneEmpty' => Phase')
<1>. DEFINE k == Len(asked) + 1
            frame == Frame(Body(k, req))
<1>0. /\ TypeInv /\ TypeOK /\ EachOwn /\ Phase /\ cpc = "out"
      /\ asked' = Append(asked, req) /\ results \in Seq(Result)
  BY DEF WireInv, TypeInv, TypeOK, Result, Call, CallThrows
<1>1. /\ Len(asked') = k /\ asked'[k] = req
      /\ \A j \in Calls : asked'[j] = asked[j]
  BY <1>0, AskedGrows
<1>2. TypeInv'
  BY <1>0, CallTypes
<1>3. CASE Call(req)
  <2>1. EachOwn'
    BY <1>0, <1>1, <1>3, ResultsKept DEF Call
  <2>2. /\ up' = up \o buffer \o frame /\ buffer' = <<>> /\ cpc' = "first"
        /\ down' = down /\ spc' = spc
    BY <1>3 DEF Call, server
  <2>3. CASE Gone
    <3>1. cpc' = "first" /\ spc' = "closed" /\ down' = <<>>
      BY <2>2, <2>3 DEF Gone
    <3>. QED  BY <2>1, <3>1 DEF Phase, Gone
  <2>4. CASE Idle
    <3>1. k \in 1..MaxCalls
      BY <1>0, <1>3, WireAssumption DEF Call, TypeOK
    <3>2. frame \in Seq(Byte)
      BY <3>1, BodyType, FrameType
    <3>3. Frame(Sent)' = frame
      BY <1>1 DEF Sent, Frame, Header, Digit, Above, Body, OpByte, Space, Fill, Text
    <3>. HIDE DEF frame
    <3>4. up' = frame
      <4>1. up \o buffer = <<>>
        BY <2>4, EmptySeq, ConcatEmptySeq DEF Idle
      <4>2. <<>> \o frame = frame
        BY <3>2, ConcatEmptySeq
      <4>3. up' = (up \o buffer) \o frame
        BY <2>2
      <4>. QED  BY ONLY <4>1, <4>2, <4>3, Zenon
    <3>. QED  BY <2>1, <2>2, <2>4, <3>3, <3>4 DEF Idle, Phase, Asking
  <2>5. Gone \/ Idle
    BY <1>0 DEF Phase, Asking, Reading, Answering, Receiving
  <2>. QED  BY <2>1, <2>3, <2>4, <2>5
<1>4. CASE CallThrows(req)
  <2>1. /\ EndCall(Thrown, buffer \o frame)
        /\ spc = "closed" /\ spc' = "closed" /\ down' = down
    BY <1>4 DEF CallThrows, server
  <2>2. Gone
    BY <1>0, <2>1 DEF Phase, Idle, Asking, Reading, Answering, Receiving
  <2>3. results' = Append(results, Thrown) /\ cpc' = "out"
    BY <2>1 DEF EndCall
  <2>4. EachOwn'
    BY <1>0, <1>1, <2>3, ThrownOrEmpty, ResultAdded DEF Thrown
  <2>5. Phase'
    BY <1>0, <1>2, <2>1, <2>2, <2>3, GoneStays DEF Gone
  <2>. QED  BY <2>4, <2>5
<1>. QED  BY <1>3, <1>4

-----------------------------------------------------------------------------
(* The connection *)

LEMMA WireInitially == Init => WireInv
<1>. SUFFICES ASSUME Init PROVE WireInv
  OBVIOUS
<1>1. TypeInv
  BY TypesInitially
<1>2. EachOwn /\ Idle
  BY DEF Init, EachOwn, Calls, Idle
<1>. QED  BY <1>1, <1>2 DEF WireInv, Phase

LEMMA WireStep == Fits /\ WireInv /\ [Next]_vars => WireInv'
<1>. SUFFICES ASSUME Fits, WireInv, [Next]_vars PROVE WireInv'
  OBVIOUS
<1>1. TypeInv /\ TypeOK /\ EachOwn
  BY DEF WireInv, TypeInv
<1>2. TypeInv'
  BY <1>1, TypesStep
<1>3. CASE NoneEmpty
  <2>1. CASE UNCHANGED vars
    <3>1. EachOwn'
      BY <1>1, <2>1, ResultsKept DEF vars, client
    <3>2. Phase'
      BY <1>3, <2>1 DEF WireInv, vars, client, server, Phase, Gone, Idle, Asking,
         Reading, Answering, Receiving, Calls, Sent, Reply, Body, Answer, Frame,
         Header, Digit, Above, Fill, OpByte, Space, Text
    <3>. QED  BY <1>2, <3>1, <3>2 DEF WireInv
  <2>2. CASE Next
    BY <1>2, <1>3, <2>2, CallStep, ClientStep, ServerStep DEF Next, WireInv
  <2>. QED  BY <2>1, <2>2
<1>4. CASE ~NoneEmpty
  <2>1. /\ \A k \in Calls : asked'[k] = asked[k]
        /\ results' = results \/ \E r : results' = Append(results, r)
    <3>1. ASSUME NEW req \in Requests, Call(req) \/ CallThrows(req)
          PROVE  /\ \A k \in Calls : asked'[k] = asked[k]
                 /\ results' = results \/ \E r : results' = Append(results, r)
      BY <1>1, <3>1, AskedGrows DEF Call, CallThrows, EndCall
    <3>2. CASE Client
      BY <3>2 DEF Client, ClientFirst, ClientMore, ClientEof, Received, EndCall
    <3>3. CASE Server
      BY <3>3 DEF Server, ServeFirst, ServeMore, ServeDone, client
    <3>4. CASE UNCHANGED vars
      BY <3>4 DEF vars, client
    <3>. QED  BY <3>1, <3>2, <3>3, <3>4 DEF Next
  <2>2. EachOwn' /\ ~NoneEmpty'
    BY <1>2, <1>4, <2>1, NothingClaimed
  <2>. QED  BY <1>2, <2>2 DEF WireInv
<1>. QED  BY <1>3, <1>4

\* send() against respond(), process() and write(), whichever end runs first: with
\* requests that fit, first reads that are not cut short, and no call before it that
\* came back empty, a call returns the answer to its own request or nothing.
THEOREM AnswersAreOwn ==
  ASSUME Fits
  PROVE  Spec => []OwnAnswerInStep
<1>1. Init => WireInv
  BY WireInitially
<1>2. WireInv /\ [Next]_vars => WireInv'
  BY WireStep
<1>3. WireInv => OwnAnswerInStep
  BY DEF WireInv, EachOwn, OwnAnswerInStep
<1>. QED  BY <1>1, <1>2, <1>3, PTL DEF Spec

\* Between two calls nothing is left on the wire or in the streambuf, and the
\* service waits for the first byte of a message, as long as each call has
\* returned a text and no first read is cut short.
THEOREM StaysInStep ==
  ASSUME Fits
  PROVE  Spec => []InStep
<1>1. Init => WireInv
  BY WireInitially
<1>2. WireInv /\ [Next]_vars => WireInv'
  BY WireStep
<1>3. WireInv => InStep
  <2>. SUFFICES ASSUME WireInv, cpc = "out", \A k \in Calls : results[k].text # <<>>
                PROVE  up = <<>> /\ down = <<>> /\ buffer = <<>> /\ spc = "first"
    BY DEF InStep
  <2>1. NoneEmpty
    <3>1. Len(results) \in Nat
      BY DEF WireInv, TypeInv, TypeOK
    <3>. QED  BY <3>1 DEF NoneEmpty, NoneEmptyBefore, Calls, Returned
  <2>. QED  BY <2>1 DEF WireInv, Phase, Gone, Idle, Asking, Reading, Answering, Receiving
<1>. QED  BY <1>1, <1>2, <1>3, PTL DEF Spec
=============================================================================
