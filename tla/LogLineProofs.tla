---------------------------- MODULE LogLineProofs ----------------------------
(***************************************************************************)
(* What is proved of LogLine for all arguments, sizes and lengths of lines. *)
(***************************************************************************)
EXTENDS LogLine, FiniteSetTheorems, SequenceTheorems, TLAPS

-----------------------------------------------------------------------------
(* The buffer *)

\* The size that is kept is the size of the buffer in use.
BufferInv ==
  /\ bytes \in Seq(Nat) /\ heap \in Nat
  /\ bufferSize = IF heap = 0 THEN StackSize ELSE heap
  /\ InBuffer

LEMMA Types ==
  /\ TextId = 7 /\ "char*" \notin Fixed
  /\ \A type \in Fixed : /\ TypeId(type) \in 0..6
                         /\ SupportedTypes[TypeId(type) + 1] = type
<1>1. DOMAIN SupportedTypes = 1..8
  BY DEF SupportedTypes
<1>2. ASSUME NEW type \in Fixed \cup {"char*"}
      PROVE  /\ TypeId(type) + 1 \in 1..8 /\ SupportedTypes[TypeId(type) + 1] = type
             /\ TypeId(type) \in Int
  <2>. DEFINE i == CHOOSE j \in 1..8 : SupportedTypes[j] = type
  <2>1. \E j \in 1..8 : SupportedTypes[j] = type
    BY DEF SupportedTypes, Fixed
  <2>2. i \in 1..8 /\ SupportedTypes[i] = type
    BY <2>1
  <2>3. TypeId(type) = i - 1
    BY <1>1 DEF TypeId
  <2>. HIDE DEF i
  <2>4. TypeId(type) + 1 = i /\ TypeId(type) \in Int
    BY <2>2, <2>3
  <2>. QED  BY <2>2, <2>4
<1>3. \A j \in 1..8 : SupportedTypes[j] = "char*" <=> j = 8
  BY DEF SupportedTypes
<1>4. "char*" \notin Fixed
  BY DEF Fixed
<1>5. TextId = 7
  BY <1>2, <1>3 DEF TextId
<1>6. ASSUME NEW type \in Fixed
      PROVE  TypeId(type) \in 0..6 /\ SupportedTypes[TypeId(type) + 1] = type
  <2>1. /\ TypeId(type) + 1 \in 1..8 /\ SupportedTypes[TypeId(type) + 1] = type
        /\ TypeId(type) \in Int
    BY <1>2
  <2>2. TypeId(type) + 1 # 8
    BY <1>3, <1>4, <2>1
  <2>. QED  BY <2>1, <2>2
<1>. QED  BY <1>4, <1>5, <1>6

\* The encode functions write what room was made for.
LEMMA RoomForAll ==
  ASSUME NEW a \in Args
  PROVE  Encoded(a) \in Seq(Nat) /\ Len(Encoded(a)) = Room(a) /\ Room(a) \in Nat
<1>1. /\ a.kind \in Fixed \cup {"cstring", "string", "view", "null"}
      /\ a.text \in Seq(Nat)
      /\ a.kind \in Fixed => Len(a.text) = Width[a.kind]
  BY LineAssumption DEF LineAssumption
<1>. DEFINE text == a.text
<1>2. text \in Seq(Nat) /\ Len(text) \in Nat
  BY <1>1
<1>3. CASE Skipped(a)
  BY <1>3 DEF Encoded, Room
<1>4. CASE ~Skipped(a) /\ a.kind \in Fixed
  <2>1. TypeId(a.kind) \in Nat
    BY <1>4, Types
  <2>2. /\ Encoded(a) = <<TypeId(a.kind)>> \o text
        /\ Room(a) = Len(text) + 1
    BY <1>1, <1>4 DEF Encoded, Room
  <2>. HIDE DEF text
  <2>. QED  BY <1>2, <2>1, <2>2
<1>5. CASE ~Skipped(a) /\ a.kind \notin Fixed
  <2>1. /\ Encoded(a) = <<TextId>> \o text \o <<NUL>>
        /\ Room(a) = 1 + Len(text) + 1
    BY <1>5 DEF Encoded, Room, EncodeText
  <2>2. TextId \in Nat /\ NUL \in Nat
    BY Types DEF NUL
  <2>. HIDE DEF text
  <2>. QED  BY <1>2, <2>1, <2>2
<1>. QED  BY <1>3, <1>4, <1>5

LEMMA BufferInit == Init => BufferInv
BY LineAssumption DEF LineAssumption, Init, BufferInv, InBuffer, Used

LEMMA BufferStep == BufferInv /\ [Next]_vars => BufferInv'
<1>. SUFFICES ASSUME BufferInv, [Next]_vars PROVE BufferInv'
  OBVIOUS
<1>1. CASE UNCHANGED vars
  BY <1>1 DEF vars, BufferInv, InBuffer, Used
<1>2. ASSUME NEW a \in Args, Log(a) PROVE BufferInv'
  <2>. DEFINE required == Used + Room(a)
              size == Grown(required)
  <2>1. /\ bufferSize' = size
        /\ heap' = IF size = bufferSize THEN heap ELSE size
        /\ bytes' = bytes \o Encoded(a)
    BY <1>2 DEF Log, Copied
  <2>2. /\ bytes \in Seq(Nat) /\ heap \in Nat /\ bufferSize \in Nat
        /\ bufferSize = IF heap = 0 THEN StackSize ELSE heap
        /\ HeaderSize \in Nat /\ HeapSize \in Nat /\ StackSize \in Nat
        /\ HeaderSize + Len(bytes) <= bufferSize
    BY LineAssumption DEF LineAssumption, BufferInv, InBuffer, Used
  <2>3. Encoded(a) \in Seq(Nat) /\ Len(Encoded(a)) = Room(a) /\ Room(a) \in Nat
    BY RoomForAll
  <2>4. /\ bytes' \in Seq(Nat) /\ Len(bytes') = Len(bytes) + Room(a)
    BY <2>1, <2>2, <2>3, ConcatProperties
  <2>5. required \in Nat /\ HeaderSize + Len(bytes') = required
    BY <2>2, <2>3, <2>4 DEF Used
  <2>. HIDE DEF required
  <2>6. /\ size \in Nat /\ required <= size
        /\ size # bufferSize => size # 0
    BY <2>2, <2>5 DEF Grown, Larger
  <2>. HIDE DEF size
  <2>7. heap' \in Nat /\ bufferSize' = IF heap' = 0 THEN StackSize ELSE heap'
    BY <2>1, <2>2, <2>6
  <2>8. InBuffer'
    BY <2>1, <2>5, <2>6, <2>7 DEF InBuffer, Used
  <2>. QED  BY <2>4, <2>7, <2>8 DEF BufferInv
<1>. QED  BY <1>1, <1>2 DEF Next

\* resize_buffer_if_needed() of src/src/log/NanoLog.cpp: whatever is logged, in any
\* order, no operator<< writes behind the end of the buffer.
THEOREM LineStaysInBuffer == Spec => []InBuffer
<1>1. BufferInv => InBuffer
  BY DEF BufferInv
<1>. QED  BY <1>1, BufferInit, BufferStep, PTL DEF Spec

-----------------------------------------------------------------------------
(* Induction, as a fact about sets: what the recursive function of          *)
(* stringify() computes is proved with it for every buffer.                 *)

LEMMA SmallestOf ==
  ASSUME NEW N \in Nat, NEW P \in SUBSET (0..N), P # {}
  PROVE  \E n \in P : \A m \in P : n <= m
<1>. DEFINE S == 1..N
            T == {1..n : n \in P}
<1>1. IsWellFoundedOn(StrictSubsetOrdering(S), SUBSET S)
  <2>1. IsFiniteSet(S)
    BY FS_Interval
  <2>. HIDE DEF S
  <2>2. FiniteSubsetsOf(S) = SUBSET S
    BY <2>1, FS_FiniteSubsetsOfFinite
  <2>3. IsWellFoundedOn(StrictSubsetOrdering(S), FiniteSubsetsOf(S))
    BY FS_StrictSubsetOrderingWellFounded
  <2>. QED  BY <2>2, <2>3
<1>2. T \subseteq SUBSET S
  OBVIOUS
<1>3. T # {}
  <2>. HIDE DEF S
  <2>. QED  OBVIOUS
<1>4. \E x \in T : \A y \in T : ~(<<y, x>> \in StrictSubsetOrdering(S))
  <2>. HIDE DEF S, T
  <2>. QED  BY <1>1, <1>2, <1>3, WFMin
<1>5. PICK n \in P : \A m \in P : ~(<<1..m, 1..n>> \in StrictSubsetOrdering(S))
  BY <1>4
<1>6. \A m \in P : ~(m < n)
  <2>. SUFFICES ASSUME NEW m \in P, m < n PROVE FALSE
    OBVIOUS
  <2>1. /\ 1..m \in SUBSET S /\ 1..n \in SUBSET S /\ 1..m \subseteq 1..n
        /\ n \in 1..n /\ n \notin 1..m
    OBVIOUS
  <2>2. <<1..m, 1..n>> \in StrictSubsetOrdering(S)
    BY <2>1 DEF StrictSubsetOrdering
  <2>. QED  BY <1>5, <2>2
<1>. QED  BY <1>6

LEMMA Induction ==
  ASSUME NEW S, 0 \in S, \A n \in Nat : n \in S => n + 1 \in S
  PROVE  Nat \subseteq S
<1>. SUFFICES ASSUME NEW N \in Nat, N \notin S PROVE FALSE
  OBVIOUS
<1>. DEFINE P == {n \in 0..N : n \notin S}
<1>1. P \in SUBSET (0..N) /\ N \in P
  OBVIOUS
<1>2. PICK n \in P : \A m \in P : n <= m
  <2>. HIDE DEF P
  <2>. QED  BY <1>1, SmallestOf
<1>3. n - 1 \in Nat /\ n - 1 \in S
  BY <1>2
<1>. QED  BY <1>3

-----------------------------------------------------------------------------
(* Sequences of sequences *)

Joined(s, n, f) == f = [i \in 1..n |-> IF i = 1 THEN s[i] ELSE f[i - 1] \o s[i]]

\* The function that FlattenSeq defines by recursion exists.
LEMMA FlattenExists ==
  ASSUME NEW s, Len(s) \in Nat \ {0}
  PROVE  \E f : Joined(s, Len(s), f) /\ FlattenSeq(s) = f[Len(s)]
<1>. DEFINE S == {n \in Nat : \E f : Joined(s, n, f)}
<1>1. 0 \in S
  <2>. DEFINE f == [i \in 1..0 |-> 0]
  <2>1. f = [i \in 1..0 |-> IF i = 1 THEN s[i] ELSE f[i - 1] \o s[i]]
    OBVIOUS
  <2>2. Joined(s, 0, f)
    BY <2>1 DEF Joined
  <2>. QED  BY <2>2
<1>2. ASSUME NEW n \in Nat, n \in S PROVE n + 1 \in S
  <2>1. PICK c : Joined(s, n, c)
    BY <1>2
  <2>2. c = [i \in 1..n |-> IF i = 1 THEN s[i] ELSE c[i - 1] \o s[i]]
    BY <2>1 DEF Joined
  <2>. DEFINE next == IF n = 0 THEN s[1] ELSE c[n] \o s[n + 1]
              d == [i \in 1..(n + 1) |-> IF i = n + 1 THEN next ELSE c[i]]
              e == [i \in 1..(n + 1) |-> IF i = 1 THEN s[i] ELSE d[i - 1] \o s[i]]
  <2>3. \A i \in 1..(n + 1) : d[i] = e[i]
    <3>. SUFFICES ASSUME NEW i \in 1..(n + 1) PROVE d[i] = e[i]
      OBVIOUS
    <3>1. CASE i = n + 1
      <4>1. d[i] = next /\ (n # 0 => d[i - 1] = c[n])
        BY <3>1
      <4>. QED  BY <3>1, <4>1
    <3>2. CASE i \in 1..n
      <4>1. d[i] = c[i] /\ (i # 1 => d[i - 1] = c[i - 1])
        BY <3>2
      <4>2. c[i] = IF i = 1 THEN s[i] ELSE c[i - 1] \o s[i]
        BY <2>2, <3>2
      <4>. QED  BY <3>2, <4>1, <4>2
    <3>. QED  BY <3>1, <3>2
  <2>4. d = e
    BY <2>3
  <2>5. Joined(s, n + 1, d)
    BY <2>4 DEF Joined
  <2>. QED  BY <2>5
<1>3. Len(s) \in S
  <2>. HIDE DEF S
  <2>. QED  BY <1>1, <1>2, Induction
<1>4. \E f : Joined(s, Len(s), f)
  BY <1>3
<1>5. Joined(s, Len(s), CHOOSE f : Joined(s, Len(s), f))
  BY <1>4
<1>6. FlattenSeq(s) = (CHOOSE f : Joined(s, Len(s), f))[Len(s)]
  BY DEF FlattenSeq, Joined
<1>. QED  BY <1>5, <1>6

-----------------------------------------------------------------------------
(* stringify() *)

\* One turn of the recursion, with the texts of all later positions given.
LineFrom(b, i, from) ==
  IF i = Len(b) + 1 \/ b[i] > TextId THEN <<>>
  ELSE IF b[i] = TextId THEN
    LET e == Terminator(b, i + 1) IN
    IF e = 0 THEN Chars(SubSeq(b, i + 1, Len(b))) \o Undefined
             ELSE Chars(SubSeq(b, i + 1, e - 1)) \o from[e + 1]
  ELSE
    LET type == SupportedTypes[b[i] + 1]
        e == i + Width[type]
    IN IF e <= Len(b) /\ Readable(type, SubSeq(b, i + 1, e))
         THEN Value(type, SubSeq(b, i + 1, e)) \o from[e + 1]
         ELSE Undefined

LEMMA TerminatorOf ==
  ASSUME NEW b \in Seq(Nat), NEW i \in 1..(Len(b) + 1)
  PROVE  \/ Terminator(b, i) = 0 /\ \A j \in i..Len(b) : b[j] # NUL
         \/ /\ Terminator(b, i) \in i..Len(b) /\ b[Terminator(b, i)] = NUL
            /\ \A j \in i..(Terminator(b, i) - 1) : b[j] # NUL
<1>. DEFINE I == {j \in i..Len(b) : b[j] = NUL}
<1>1. Terminator(b, i) = IF I # {} THEN Min(I) ELSE 0
  BY DEF Terminator, SelectInSubSeq
<1>2. Len(b) \in Nat
  OBVIOUS
<1>3. CASE I = {}
  BY <1>1, <1>3
<1>4. CASE I # {}
  <2>1. I \in SUBSET (0..Len(b))
    BY <1>2
  <2>. HIDE DEF I
  <2>2. \E x \in I : \A y \in I : x <= y
    BY <1>2, <1>4, <2>1, SmallestOf
  <2>3. Min(I) \in I /\ \A y \in I : Min(I) <= y
    BY <2>2 DEF Min
  <2>4. Terminator(b, i) \in I /\ \A y \in I : Terminator(b, i) <= y
    BY <1>1, <1>4, <2>3
  <2>. DEFINE e == Terminator(b, i)
  <2>5. e \in i..Len(b) /\ b[e] = NUL
    BY <2>4 DEF I
  <2>6. ASSUME NEW j \in i..(e - 1) PROVE b[j] # NUL
    <3>. SUFFICES ASSUME b[j] = NUL PROVE FALSE
      OBVIOUS
    <3>. HIDE DEF e
    <3>1. j \in I /\ j < e
      BY <1>2, <2>5 DEF I
    <3>2. e <= j
      BY <2>4, <3>1 DEF e
    <3>. QED  BY <1>2, <2>5, <3>1, <3>2
  <2>. QED  BY <2>5, <2>6
<1>. QED  BY <1>3, <1>4

\* A turn needs later positions only.
LEMMA LineFromLater ==
  ASSUME NEW b \in Seq(Nat), NEW i \in 1..(Len(b) + 1), NEW f, NEW g,
         \A j \in (i + 1)..(Len(b) + 1) : f[j] = g[j]
  PROVE  LineFrom(b, i, f) = LineFrom(b, i, g)
<1>0. Len(b) \in Nat
  OBVIOUS
<1>1. CASE i = Len(b) + 1 \/ b[i] > TextId
  BY <1>1 DEF LineFrom
<1>2. CASE ~(i = Len(b) + 1 \/ b[i] > TextId) /\ b[i] = TextId
  <2>. DEFINE e == Terminator(b, i + 1)
  <2>1. i + 1 \in 1..(Len(b) + 1)
    BY <1>0, <1>2
  <2>2. e = 0 \/ e \in (i + 1)..Len(b)
    BY <2>1, TerminatorOf
  <2>3. e # 0 => f[e + 1] = g[e + 1]
    <3>. HIDE DEF e
    <3>. SUFFICES ASSUME e # 0 PROVE f[e + 1] = g[e + 1]
      OBVIOUS
    <3>1. e \in (i + 1)..Len(b) /\ i \in Nat
      BY <2>2
    <3>2. e + 1 \in (i + 1)..(Len(b) + 1)
      BY <1>0, <3>1
    <3>. QED  BY <3>2
  <2>. QED  BY <1>2, <2>3 DEF LineFrom
<1>3. CASE ~(i = Len(b) + 1 \/ b[i] > TextId) /\ b[i] # TextId
  <2>. DEFINE type == SupportedTypes[b[i] + 1]
              e == i + Width[type]
  <2>1. b[i] \in 0..6
    <3>1. i \in 1..Len(b)
      BY <1>0, <1>3
    <3>. DEFINE c == b[i]
    <3>2. c \in Nat /\ TextId = 7
      BY <3>1, Types
    <3>3. ~(c > 7) /\ c # 7
      BY <1>3, <3>2
    <3>. HIDE DEF c
    <3>4. c \in 0..6
      BY <3>2, <3>3
    <3>. QED  BY <3>4 DEF c
  <2>2. type \in Fixed
    <3>1. \A t \in 0..6 : SupportedTypes[t + 1] \in Fixed
      BY DEF SupportedTypes, Fixed
    <3>. QED  BY <2>1, <3>1
  <2>. HIDE DEF type
  <2>3. Width[type] \in Nat \ {0}
    BY <2>2, LineAssumption DEF LineAssumption
  <2>4. e <= Len(b) => f[e + 1] = g[e + 1]
    <3>1. e \in Nat /\ e > i
      BY <2>3
    <3>. HIDE DEF e
    <3>2. e <= Len(b) => e + 1 \in (i + 1)..(Len(b) + 1)
      BY <1>0, <3>1
    <3>. QED  BY <3>2
  <2>. QED  BY <1>3, <2>4 DEF LineFrom, type
<1>. QED  BY <1>1, <1>2, <1>3

Unfolds(b, k, f) == f = [i \in k..(Len(b) + 1) |-> LineFrom(b, i, f)]

\* The function that Printed defines by recursion exists.
LEMMA PrintedExists ==
  ASSUME NEW b \in Seq(Nat)
  PROVE  \E f : Unfolds(b, 1, f) /\ Printed(b) = f[1]
<1>. DEFINE L == Len(b)
            S == {n \in Nat : n <= L => \E f : Unfolds(b, L + 1 - n, f)}
<1>0. L \in Nat
  OBVIOUS
<1>1. 0 \in S
  <2>. DEFINE none == [i \in 1..0 |-> 0]
              f == [i \in (L + 1)..(L + 1) |-> LineFrom(b, i, none)]
              g == [i \in (L + 1)..(L + 1) |-> LineFrom(b, i, f)]
  <2>1. LineFrom(b, L + 1, none) = LineFrom(b, L + 1, f)
    BY <1>0 DEF LineFrom
  <2>2. f = g
    <3>. HIDE DEF L, none
    <3>1. \A i \in (L + 1)..(L + 1) : i = L + 1
      BY <1>0
    <3>2. \A i \in (L + 1)..(L + 1) : LineFrom(b, i, none) = LineFrom(b, i, f)
      BY <2>1, <3>1
    <3>. QED  BY <3>2
  <2>3. L + 1 - 0 = L + 1
    BY <1>0
  <2>4. Unfolds(b, L + 1 - 0, f)
    BY <2>2, <2>3 DEF Unfolds
  <2>. QED  BY <2>4
<1>2. ASSUME NEW n \in Nat, n \in S PROVE n + 1 \in S
  <2>. SUFFICES ASSUME n + 1 <= L PROVE \E f : Unfolds(b, L + 1 - (n + 1), f)
    OBVIOUS
  <2>. DEFINE k == L + 1 - (n + 1)
  <2>0. k \in 1..L /\ L + 1 - n = k + 1
    BY <1>0
  <2>1. PICK c : Unfolds(b, k + 1, c)
    BY <1>0, <1>2, <2>0
  <2>. HIDE DEF k
  <2>2. c = [i \in (k + 1)..(L + 1) |-> LineFrom(b, i, c)]
    BY <2>1 DEF Unfolds
  <2>. HIDE DEF L
  <2>. DEFINE d == [i \in k..(L + 1) |-> IF i = k THEN LineFrom(b, k, c) ELSE c[i]]
              e == [i \in k..(L + 1) |-> LineFrom(b, i, d)]
  <2>3. \A j \in (k + 1)..(L + 1) : d[j] = c[j]
    BY <1>0, <2>0
  <2>4. \A i \in k..(L + 1) : d[i] = e[i]
    <3>. SUFFICES ASSUME NEW i \in k..(L + 1) PROVE d[i] = e[i]
      OBVIOUS
    <3>1. e[i] = LineFrom(b, i, d)
      OBVIOUS
    <3>2. d[i] = LineFrom(b, i, c)
      <4>1. CASE i = k
        BY <4>1
      <4>2. CASE i \in (k + 1)..(L + 1)
        BY <2>2, <2>3, <4>2
      <4>. QED  BY <1>0, <2>0, <4>1, <4>2
    <3>. HIDE DEF d, e
    <3>3. i \in 1..(Len(b) + 1) /\ \A j \in (i + 1)..(Len(b) + 1) : d[j] = c[j]
      BY <1>0, <2>0, <2>3 DEF L
    <3>4. LineFrom(b, i, d) = LineFrom(b, i, c)
      BY <3>3, LineFromLater
    <3>. QED  BY <3>1, <3>2, <3>4
  <2>5. d = e
    BY <2>4
  <2>6. Unfolds(b, k, d)
    BY <2>5 DEF Unfolds, L
  <2>. QED  BY <2>6 DEF k
<1>3. L \in S
  <2>. HIDE DEF S
  <2>. QED  BY <1>0, <1>1, <1>2, Induction
<1>4. \E f : Unfolds(b, 1, f)
  <2>1. L + 1 - L = 1
    BY <1>0
  <2>. QED  BY <1>0, <1>3, <2>1
<1>5. Unfolds(b, 1, CHOOSE f : Unfolds(b, 1, f))
  BY <1>4
<1>6. Printed(b) = (CHOOSE f : Unfolds(b, 1, f))[1]
  BY DEF Printed, Unfolds, LineFrom
<1>. QED  BY <1>5, <1>6

Val == [as : Fixed \cup {"undefined"}, bytes : Seq(Nat)]

LEMMA ValTypes ==
  /\ \A text \in Seq(Nat) : Chars(text) \in Seq(Val) /\ Len(Chars(text)) = Len(text)
  /\ \A type \in Fixed, stored \in Seq(Nat) : Value(type, stored) \in Seq(Val)
  /\ Undefined \in Seq(Val) /\ <<>> \in Seq(Val)
  /\ Chars(<<>>) = <<>>
<1>1. ASSUME NEW text \in Seq(Nat)
      PROVE  Chars(text) \in Seq(Val) /\ Len(Chars(text)) = Len(text)
  <2>1. \A i \in 1..Len(text) : [as |-> "char", bytes |-> <<text[i]>>] \in Val
    BY DEF Val, Fixed
  <2>2. Chars(text) = [i \in 1..Len(text) |-> [as |-> "char", bytes |-> <<text[i]>>]]
    BY DEF Chars
  <2>. HIDE DEF Val
  <2>. QED  BY <2>1, <2>2
<1>2. ASSUME NEW type \in Fixed \cup {"undefined"}, NEW stored \in Seq(Nat)
      PROVE  Value(type, stored) \in Seq(Val)
  <2>1. [as |-> type, bytes |-> stored] \in Val
    BY DEF Val
  <2>. QED  BY <2>1 DEF Value
<1>3. Undefined \in Seq(Val)
  <2>1. <<>> \in Seq(Nat)
    OBVIOUS
  <2>. QED  BY <1>2, <2>1 DEF Undefined
<1>4. Chars(<<>>) = <<>>
  BY DEF Chars
<1>. QED  BY <1>1, <1>2, <1>3, <1>4

\* What is printed from any position on is a sequence of values.
LEMMA LineFromTypes ==
  ASSUME NEW b \in Seq(Nat), NEW f, Unfolds(b, 1, f)
  PROVE  \A i \in 1..(Len(b) + 1) : f[i] \in Seq(Val)
<1>. DEFINE L == Len(b)
            S == {n \in Nat : \A i \in 1..(L + 1) : i >= L + 1 - n => f[i] \in Seq(Val)}
<1>0. L \in Nat /\ \A i \in 1..(L + 1) : f[i] = LineFrom(b, i, f)
  BY DEF Unfolds
<1>1. ASSUME NEW i \in 1..(L + 1), \A j \in (i + 1)..(L + 1) : f[j] \in Seq(Val)
      PROVE  f[i] \in Seq(Val)
  <2>1. CASE i = L + 1 \/ b[i] > TextId
    BY <1>0, <2>1, ValTypes DEF LineFrom
  <2>2. CASE ~(i = L + 1 \/ b[i] > TextId) /\ b[i] = TextId
    <3>. DEFINE e == Terminator(b, i + 1)
    <3>1. i + 1 \in 1..(L + 1) /\ i \in 1..L
      BY <1>0, <2>2
    <3>2. e = 0 \/ e \in (i + 1)..L
      BY <3>1, TerminatorOf
    <3>3. f[i] = IF e = 0 THEN Chars(SubSeq(b, i + 1, L)) \o Undefined
                          ELSE Chars(SubSeq(b, i + 1, e - 1)) \o f[e + 1]
      BY <1>0, <2>2 DEF LineFrom
    <3>. HIDE DEF e
    <3>4. CASE e = 0
      <4>1. \A j \in (i + 1)..L : b[j] \in Nat
        BY <1>0, <3>1
      <4>2. SubSeq(b, i + 1, L) \in Seq(Nat)
        BY <1>0, <3>1, <4>1, SubSeqProperties
      <4>3. Chars(SubSeq(b, i + 1, L)) \in Seq(Val) /\ Undefined \in Seq(Val)
        BY <4>2, ValTypes
      <4>. QED  BY <3>3, <3>4, <4>3, ConcatProperties
    <3>5. CASE e # 0
      <4>1. e - 1 \in Int /\ i + 1 \in Int /\ \A j \in (i + 1)..(e - 1) : b[j] \in Nat
        BY <1>0, <3>1, <3>2, <3>5
      <4>2. SubSeq(b, i + 1, e - 1) \in Seq(Nat)
        BY <4>1, SubSeqProperties
      <4>3. Chars(SubSeq(b, i + 1, e - 1)) \in Seq(Val)
        BY <4>2, ValTypes
      <4>4. f[e + 1] \in Seq(Val)
        BY <1>0, <1>1, <3>1, <3>2, <3>5
      <4>. QED  BY <3>3, <3>5, <4>3, <4>4, ConcatProperties
    <3>. QED  BY <3>4, <3>5
  <2>3. CASE ~(i = L + 1 \/ b[i] > TextId) /\ b[i] # TextId
    <3>. DEFINE type == SupportedTypes[b[i] + 1]
                e == i + Width[type]
    <3>0. i \in 1..L
      BY <1>0, <2>3
    <3>1. b[i] \in 0..6
      <4>1. b[i] \in Nat /\ TextId = 7
        BY <3>0, Types
      <4>. DEFINE c == b[i]
      <4>2. c \in Nat /\ ~(c > 7) /\ c # 7
        BY <2>3, <4>1
      <4>. HIDE DEF c
      <4>3. c \in 0..6
        BY <4>2
      <4>. QED  BY <4>3 DEF c
    <3>2. type \in Fixed
      <4>1. \A t \in 0..6 : SupportedTypes[t + 1] \in Fixed
        BY DEF SupportedTypes, Fixed
      <4>. QED  BY <3>1, <4>1
    <3>3. f[i] = IF e <= L /\ Readable(type, SubSeq(b, i + 1, e))
                   THEN Value(type, SubSeq(b, i + 1, e)) \o f[e + 1]
                   ELSE Undefined
      BY <1>0, <2>3 DEF LineFrom
    <3>. HIDE DEF type
    <3>4. e \in Nat /\ e > i
      BY <3>0, <3>2, LineAssumption DEF LineAssumption
    <3>. HIDE DEF e
    <3>5. CASE ~(e <= L /\ Readable(type, SubSeq(b, i + 1, e)))
      BY <3>3, <3>5, ValTypes
    <3>6. CASE e <= L /\ Readable(type, SubSeq(b, i + 1, e))
      <4>1. i + 1 \in Int /\ e \in Int /\ \A j \in (i + 1)..e : b[j] \in Nat
        BY <1>0, <3>0, <3>4, <3>6
      <4>2. SubSeq(b, i + 1, e) \in Seq(Nat)
        BY <4>1, SubSeqProperties
      <4>3. Value(type, SubSeq(b, i + 1, e)) \in Seq(Val)
        BY <3>2, <4>2, ValTypes
      <4>4. f[e + 1] \in Seq(Val)
        BY <1>0, <1>1, <3>0, <3>4, <3>6
      <4>. QED  BY <3>3, <3>6, <4>3, <4>4, ConcatProperties
    <3>. QED  BY <3>5, <3>6
  <2>. QED  BY <2>1, <2>2, <2>3
<1>. HIDE DEF L
<1>2. 0 \in S
  <2>. SUFFICES ASSUME NEW i \in 1..(L + 1), i >= L + 1 - 0 PROVE f[i] \in Seq(Val)
    OBVIOUS
  <2>1. \A j \in (i + 1)..(L + 1) : FALSE
    BY <1>0
  <2>. QED  BY <1>1, <2>1
<1>3. ASSUME NEW n \in Nat, n \in S PROVE n + 1 \in S
  <2>. SUFFICES ASSUME NEW i \in 1..(L + 1), i >= L + 1 - (n + 1) PROVE f[i] \in Seq(Val)
    OBVIOUS
  <2>1. \A j \in (i + 1)..(L + 1) : j \in 1..(L + 1) /\ j >= L + 1 - n
    BY <1>0
  <2>2. \A j \in (i + 1)..(L + 1) : f[j] \in Seq(Val)
    BY <1>3, <2>1
  <2>. QED  BY <1>1, <2>2
<1>4. L \in S
  <2>. HIDE DEF S
  <2>. QED  BY <1>0, <1>2, <1>3, Induction
<1>. QED  BY <1>0, <1>4 DEF L

LEMMA Slice ==
  ASSUME NEW b \in Seq(Nat), NEW p \in Nat, NEW n \in Nat, p + n <= Len(b)
  PROVE  /\ SubSeq(b, p + 1, p + n) \in Seq(Nat) /\ Len(SubSeq(b, p + 1, p + n)) = n
         /\ \A j \in 1..n : SubSeq(b, p + 1, p + n)[j] = b[p + j]
<1>. DEFINE m == p + 1
            q == p + n
            x == SubSeq(b, m, q)
<1>1. m \in Int /\ q \in Int /\ Len(b) \in Nat /\ q - m + 1 = n /\ (m <= q <=> n # 0)
  OBVIOUS
<1>2. \A j \in 1..n : m + j - 1 = p + j
  OBVIOUS
<1>3. \A j \in m..q : b[j] \in Nat
  OBVIOUS
<1>. HIDE DEF m, q
<1>4. /\ x \in Seq(Nat)
      /\ Len(x) = IF m <= q THEN q - m + 1 ELSE 0
      /\ \A j \in 1..(q - m + 1) : x[j] = b[m + j - 1]
  BY <1>1, <1>3, SubSeqProperties
<1>. HIDE DEF x
<1>5. x \in Seq(Nat) /\ Len(x) = n /\ \A j \in 1..n : x[j] = b[p + j]
  BY <1>1, <1>2, <1>4
<1>. QED  BY <1>5 DEF x, m, q

\* A text of n - 1 characters in front of the first NUL.
TextFrom(b, p, n, text) ==
  /\ p \in 1..Len(b) /\ n \in Nat \ {0} /\ p + n <= Len(b)
  /\ text \in Seq(Nat) /\ n - 1 <= Len(text)
  /\ b[p] = TextId /\ b[p + n] = NUL
  /\ \A j \in 1..(n - 1) : b[p + j] = text[j] /\ text[j] # NUL

\* It is printed without the terminator, and the line goes on behind that.
Prints(f, p, n, text) == f[p] = Chars(SubSeq(text, 1, n - 1)) \o f[p + n + 1]

LEMMA TextTurn ==
  ASSUME NEW b \in Seq(Nat), NEW f, Unfolds(b, 1, f),
         NEW p, NEW n, NEW text, TextFrom(b, p, n, text)
  PROVE  Prints(f, p, n, text)
<1>. DEFINE e == Terminator(b, p + 1)
<1>1. /\ p \in Nat \ {0} /\ n \in Nat \ {0} /\ p + n <= Len(b) /\ Len(b) \in Nat
  BY DEF TextFrom
<1>2. b[p] = TextId /\ b[p + n] = NUL
  BY DEF TextFrom
<1>3. \A j \in 1..(n - 1) : b[p + j] = text[j] /\ text[j] # NUL
  BY DEF TextFrom
<1>4. text \in Seq(Nat) /\ n - 1 <= Len(text)
  BY DEF TextFrom
<1>5. p + 1 \in 1..(Len(b) + 1)
  BY <1>1
<1>6. e = p + n
  <2>1. \/ e = 0 /\ \A j \in (p + 1)..Len(b) : b[j] # NUL
        \/ /\ e \in (p + 1)..Len(b) /\ b[e] = NUL
           /\ \A j \in (p + 1)..(e - 1) : b[j] # NUL
    BY <1>5, TerminatorOf
  <2>. HIDE DEF e
  <2>2. p + n \in (p + 1)..Len(b)
    BY <1>1
  <2>3. e # 0
    <3>. SUFFICES ASSUME e = 0 PROVE FALSE
      OBVIOUS
    <3>1. ~(e \in (p + 1)..Len(b))
      BY <1>1
    <3>2. b[p + n] # NUL
      BY <2>1, <2>2, <3>1
    <3>. QED  BY <1>2, <3>2
  <2>4. e \in (p + 1)..Len(b) /\ e \in Nat
    BY <1>1, <2>1, <2>3
  <2>5. ~(e > p + n)
    <3>. SUFFICES ASSUME e > p + n PROVE FALSE
      OBVIOUS
    <3>1. p + n \in (p + 1)..(e - 1)
      BY <1>1, <2>4
    <3>. QED  BY <1>2, <2>1, <2>3, <3>1
  <2>6. ~(e < p + n)
    <3>. SUFFICES ASSUME e < p + n PROVE FALSE
      OBVIOUS
    <3>. DEFINE j == e - p
    <3>1. j \in 1..(n - 1) /\ p + j = e
      BY <1>1, <2>4
    <3>. HIDE DEF j
    <3>2. b[p + j] # NUL
      BY <1>3, <3>1
    <3>. QED  BY <2>1, <2>3, <3>1, <3>2
  <2>. QED  BY <1>1, <2>4, <2>5, <2>6
<1>7. f[p] = Chars(SubSeq(b, p + 1, e - 1)) \o f[e + 1]
  <2>1. f[p] = LineFrom(b, p, f)
    <3>1. \A i \in 1..(Len(b) + 1) : f[i] = LineFrom(b, i, f)
      BY DEF Unfolds
    <3>2. p \in 1..(Len(b) + 1)
      BY <1>1
    <3>. QED  BY <3>1, <3>2
  <2>2. ~(p = Len(b) + 1) /\ ~(b[p] > TextId)
    BY <1>1, <1>2, Types
  <2>3. e # 0
    <3>. HIDE DEF e
    <3>. QED  BY <1>1, <1>6
  <2>. QED  BY <1>2, <2>1, <2>2, <2>3 DEF LineFrom
<1>. HIDE DEF e
<1>8. SubSeq(b, p + 1, p + n - 1) = SubSeq(text, 1, n - 1)
  <2>. DEFINE x == SubSeq(b, p + 1, p + (n - 1))
              y == SubSeq(text, 1, n - 1)
  <2>1. n - 1 \in Nat /\ p + (n - 1) <= Len(b) /\ p + n - 1 = p + (n - 1) /\ p \in Nat
    BY <1>1
  <2>2. /\ x \in Seq(Nat) /\ Len(x) = n - 1
        /\ \A j \in 1..(n - 1) : x[j] = b[p + j]
    BY <2>1, Slice
  <2>3. /\ y \in Seq(Nat) /\ Len(y) = n - 1
        /\ \A j \in 1..(n - 1) : y[j] = text[j]
    <3>1. PICK m \in Nat : m = n - 1
      BY <2>1
    <3>2. \A j \in 1..m : 1 + j - 1 = j
      BY <3>1
    <3>3. m <= Len(text) /\ Len(text) \in Nat
      BY <1>4, <3>1
    <3>4. /\ SubSeq(text, 1, m) \in Seq(Nat) /\ Len(SubSeq(text, 1, m)) = m
          /\ \A j \in 1..m : SubSeq(text, 1, m)[j] = text[j]
      <4>1. 0 \in Nat /\ 0 + m <= Len(text) /\ 0 + 1 = 1 /\ 0 + m = m
        BY <3>1, <3>3
      <4>2. /\ SubSeq(text, 0 + 1, 0 + m) \in Seq(Nat)
            /\ Len(SubSeq(text, 0 + 1, 0 + m)) = m
            /\ \A j \in 1..m : SubSeq(text, 0 + 1, 0 + m)[j] = text[0 + j]
        BY <1>4, <3>1, <4>1, Slice
      <4>3. \A j \in 1..m : 0 + j = j
        BY <3>1
      <4>. QED  BY <4>1, <4>2, <4>3
    <3>. QED  BY <3>1, <3>4
  <2>. HIDE DEF x, y
  <2>4. \A j \in 1..(n - 1) : x[j] = y[j]
    BY <1>3, <2>2, <2>3
  <2>5. x = y
    BY <2>2, <2>3, <2>4, SeqEqual
  <2>. QED  BY <2>1, <2>5 DEF x, y
<1>9. e - 1 = p + n - 1 /\ e + 1 = p + n + 1
  BY <1>1, <1>6
<1>. QED  BY <1>7, <1>8, <1>9 DEF Prints

\* An argument stands at p.
StandsAt(b, p, t) ==
  /\ p \in Nat \ {0} /\ p + Len(t) <= Len(b) + 1
  /\ \A k \in 1..Len(t) : b[p - 1 + k] = t[k]

LEMMA ArgTypes ==
  ASSUME NEW a \in Args
  PROVE  /\ a.text \in Seq(Nat)
         /\ a.kind \in Fixed \/ a.kind \in {"cstring", "string", "view", "null"}
         /\ a.kind \in Fixed => Len(a.text) = Width[a.kind] /\ Width[a.kind] \in Nat \ {0}
         /\ a.kind \in Fixed => Readable(a.kind, a.text)
         /\ a.kind = "cstring" => \A j \in 1..Len(a.text) : a.text[j] # NUL
         /\ Shown(a) \in Seq(Val)
<1>1. /\ a.text \in Seq(Nat)
      /\ a.kind \in Fixed \/ a.kind \in {"cstring", "string", "view", "null"}
      /\ a.kind \in Fixed => Len(a.text) = Width[a.kind] /\ Width[a.kind] \in Nat \ {0}
  BY LineAssumption DEF LineAssumption
<1>0. a.kind \in Fixed => Readable(a.kind, a.text)
  BY LineAssumption DEF LineAssumption, Readable
<1>2. a.kind = "cstring" => \A j \in 1..Len(a.text) : a.text[j] # NUL
  BY LineAssumption DEF LineAssumption, Contains
<1>3. Shown(a) \in Seq(Val)
  <2>1. CASE a.kind = "null"
    BY <2>1, ValTypes DEF Shown
  <2>2. CASE a.kind # "null" /\ a.kind \in Fixed
    BY <1>1, <2>2, ValTypes DEF Shown
  <2>3. CASE a.kind # "null" /\ a.kind \notin Fixed
    BY <1>1, <2>3, ValTypes DEF Shown
  <2>. QED  BY <2>1, <2>2, <2>3
<1>. QED  BY <1>0, <1>1, <1>2, <1>3

\* Where a text stands that is not left out.
LEMMA TextAt ==
  ASSUME NEW b \in Seq(Nat), NEW p, NEW a \in Args,
         ~Skipped(a), a.kind \notin Fixed, StandsAt(b, p, Encoded(a))
  PROVE  /\ p \in 1..Len(b) /\ p + Len(a.text) + 1 <= Len(b)
         /\ Len(Encoded(a)) = Len(a.text) + 2
         /\ b[p] = TextId /\ b[p + Len(a.text) + 1] = NUL
         /\ \A j \in 1..Len(a.text) : b[p + j] = a.text[j]
<1>. DEFINE text == a.text
            t == Encoded(a)
            n == Len(text)
<1>1. text \in Seq(Nat) /\ n \in Nat
  BY ArgTypes
<1>2. t = (<<TextId>> \o text) \o <<NUL>>
  BY DEF Encoded, EncodeText
<1>3. TextId \in Nat /\ NUL \in Nat
  BY Types DEF NUL
<1>. HIDE DEF text, t
<1>4. Len(t) = n + 2
  BY <1>1, <1>2, <1>3
<1>5. t[1] = TextId /\ t[n + 2] = NUL
  BY <1>1, <1>2, <1>3
<1>6. ASSUME NEW j \in 1..n PROVE t[j + 1] = text[j]
  BY <1>1, <1>2, <1>3
<1>7. /\ p \in Nat \ {0} /\ p + Len(t) <= Len(b) + 1
      /\ \A k \in 1..Len(t) : b[p - 1 + k] = t[k]
  BY DEF StandsAt, t
<1>. HIDE DEF n
<1>8. Len(b) \in Nat
  OBVIOUS
<1>9. p \in 1..Len(b) /\ p + n + 1 <= Len(b)
  BY <1>1, <1>4, <1>7, <1>8
<1>10. b[p] = TextId
  <2>1. 1 \in 1..Len(t) /\ p - 1 + 1 = p
    BY <1>1, <1>4, <1>7
  <2>2. b[p - 1 + 1] = t[1]
    BY <1>7, <2>1
  <2>. QED  BY <1>5, <2>1, <2>2
<1>11. b[p + n + 1] = NUL
  <2>1. n + 2 \in 1..Len(t) /\ p - 1 + (n + 2) = p + n + 1
    BY <1>1, <1>4, <1>7
  <2>2. b[p - 1 + (n + 2)] = t[n + 2]
    BY <1>7, <2>1
  <2>. QED  BY <1>5, <2>1, <2>2
<1>12. ASSUME NEW j \in 1..n PROVE b[p + j] = text[j]
  <2>0. p \in Nat /\ n \in Nat /\ Len(t) = n + 2
    BY <1>1, <1>4, <1>7
  <2>1. j + 1 \in 1..Len(t) /\ p - 1 + (j + 1) = p + j
    BY <2>0
  <2>2. b[p - 1 + (j + 1)] = t[j + 1]
    BY <1>7, <2>1
  <2>. QED  BY <1>6, <2>1, <2>2
<1>. QED  BY <1>4, <1>9, <1>10, <1>11, <1>12 DEF text, t, n

\* stringify() prints an argument without a NUL as it is, and goes on behind it.
LEMMA ArgTurn ==
  ASSUME NEW b \in Seq(Nat), NEW f, Unfolds(b, 1, f),
         NEW p, NEW a \in Args, ~HasNul(a), StandsAt(b, p, Encoded(a))
  PROVE  f[p] = Shown(a) \o f[p + Len(Encoded(a))]
<1>0. /\ p \in Nat \ {0} /\ p + Len(Encoded(a)) <= Len(b) + 1
      /\ \A k \in 1..Len(Encoded(a)) : b[p - 1 + k] = Encoded(a)[k]
      /\ Len(b) \in Nat
      /\ Encoded(a) \in Seq(Nat) /\ Len(Encoded(a)) \in Nat
  BY RoomForAll DEF StandsAt
<1>1. CASE Skipped(a)
  <2>1. Encoded(a) = <<>>
    BY <1>1 DEF Encoded
  <2>2. Shown(a) = <<>>
    <3>1. CASE a.kind = "null"
      BY <3>1 DEF Shown
    <3>2. CASE a.kind # "null"
      <4>1. a.kind \in {"cstring", "string"} /\ a.text = <<>>
        BY <1>1, <3>2 DEF Skipped
      <4>2. a.kind \notin Fixed
        BY <4>1 DEF Fixed
      <4>. QED  BY <3>2, <4>1, <4>2, ValTypes DEF Shown
    <3>. QED  BY <3>1, <3>2
  <2>3. Len(Encoded(a)) = 0
    BY <2>1
  <2>4. p \in 1..(Len(b) + 1) /\ p + Len(Encoded(a)) = p
    BY <1>0, <2>3
  <2>5. f[p] \in Seq(Val)
    BY <2>4, LineFromTypes
  <2>6. <<>> \o f[p] = f[p]
    <3>1. \A x \in Seq(Val) : <<>> \o x = x
      OBVIOUS
    <3>. QED  BY <2>5, <3>1
  <2>. QED  BY <2>2, <2>4, <2>6
<1>2. CASE ~Skipped(a) /\ a.kind \in Fixed
  <2>. DEFINE id == TypeId(a.kind)
              text == a.text
              w == Width[a.kind]
              t == Encoded(a)
  <2>1. id \in 0..6 /\ SupportedTypes[id + 1] = a.kind
    BY <1>2, Types
  <2>2. /\ text \in Seq(Nat) /\ Len(text) = w /\ w \in Nat \ {0}
        /\ Readable(a.kind, text)
    BY <1>2, ArgTypes
  <2>3. t = <<id>> \o text
    BY <1>2 DEF Encoded
  <2>. HIDE DEF id, text, t
  <2>4. id \in Nat
    BY <2>1
  <2>. HIDE DEF w
  <2>5. /\ Len(t) = w + 1 /\ t[1] = id
        /\ \A j \in 1..w : t[j + 1] = text[j]
    BY <2>2, <2>3, <2>4
  <2>6. b[p] = id
    <3>1. 1 \in 1..Len(t) /\ p - 1 + 1 = p
      BY <1>0, <2>2, <2>5
    <3>2. b[p - 1 + 1] = t[1]
      BY <1>0, <3>1 DEF t
    <3>. QED  BY <2>5, <3>1, <3>2
  <2>7. ASSUME NEW j \in 1..w PROVE b[p + j] = text[j]
    <3>1. j + 1 \in 1..Len(t) /\ p - 1 + (j + 1) = p + j
      BY <1>0, <2>2, <2>5
    <3>2. b[p - 1 + (j + 1)] = t[j + 1]
      BY <1>0, <3>1 DEF t
    <3>. QED  BY <2>5, <3>1, <3>2
  <2>8. p \in 1..Len(b) /\ p + w <= Len(b)
    <3>1. p \in Nat \ {0} /\ p + Len(t) <= Len(b) + 1 /\ Len(b) \in Nat
      BY <1>0 DEF t
    <3>2. w \in Nat /\ w # 0 /\ Len(t) = w + 1
      BY <2>2, <2>5
    <3>. QED  BY <3>1, <3>2
  <2>9. SubSeq(b, p + 1, p + w) = text
    <3>. DEFINE x == SubSeq(b, p + 1, p + w)
    <3>1. p \in Nat /\ w \in Nat /\ p + w <= Len(b)
      BY <1>0, <2>2, <2>8
    <3>2. x \in Seq(Nat) /\ Len(x) = w /\ \A j \in 1..w : x[j] = b[p + j]
      BY <3>1, Slice
    <3>. HIDE DEF x
    <3>5. \A j \in 1..w : x[j] = text[j]
      BY <2>7, <3>2
    <3>6. x = text
      BY <2>2, <3>2, <3>5, SeqEqual
    <3>. QED  BY <3>6 DEF x
  <2>10. f[p] = LineFrom(b, p, f)
    <3>1. \A i \in 1..(Len(b) + 1) : f[i] = LineFrom(b, i, f)
      BY DEF Unfolds
    <3>2. p \in 1..(Len(b) + 1)
      BY <2>8
    <3>. QED  BY <3>1, <3>2
  <2>11. LineFrom(b, p, f) = Value(a.kind, text) \o f[p + w + 1]
    <3>1. ~(p = Len(b) + 1) /\ ~(b[p] > TextId) /\ b[p] # TextId
      BY <1>0, <2>1, <2>6, <2>8, Types
    <3>2. SupportedTypes[b[p] + 1] = a.kind
      BY <2>1, <2>6
    <3>3. p + w <= Len(b) /\ Readable(a.kind, SubSeq(b, p + 1, p + w))
      BY <2>2, <2>8, <2>9
    <3>. QED  BY <2>9, <3>1, <3>2, <3>3 DEF LineFrom, w
  <2>12. Shown(a) = Value(a.kind, text)
    <3>1. a.kind # "null"
      BY <1>2 DEF Fixed
    <3>. QED  BY <1>2, <3>1 DEF Shown, text
  <2>13. p + Len(t) = p + w + 1
    BY <1>0, <2>2, <2>5
  <2>. QED  BY <2>10, <2>11, <2>12, <2>13 DEF t
<1>3. CASE ~Skipped(a) /\ a.kind \notin Fixed
  <2>0. /\ p \in 1..Len(b) /\ p + Len(a.text) + 1 <= Len(b)
        /\ Len(Encoded(a)) = Len(a.text) + 2
        /\ b[p] = TextId /\ b[p + Len(a.text) + 1] = NUL
        /\ \A j \in 1..Len(a.text) : b[p + j] = a.text[j]
    <3>1. ~Skipped(a) /\ a.kind \notin Fixed /\ StandsAt(b, p, Encoded(a))
      BY <1>3
    <3>2. b \in Seq(Nat) /\ a \in Args
      OBVIOUS
    <3>. QED  BY ONLY <3>1, <3>2, TextAt
  <2>. DEFINE text == a.text
              n == Len(text) + 1
  <2>1. /\ p \in 1..Len(b) /\ p + n <= Len(b)
        /\ Len(Encoded(a)) = n + 1
        /\ b[p] = TextId /\ b[p + n] = NUL
        /\ \A j \in 1..Len(text) : b[p + j] = text[j]
    <3>1. text \in Seq(Nat) /\ Len(text) \in Nat
      BY ArgTypes
    <3>2. /\ p \in 1..Len(b) /\ p + Len(text) + 1 <= Len(b)
          /\ Len(Encoded(a)) = Len(text) + 2
          /\ b[p] = TextId /\ b[p + Len(text) + 1] = NUL
          /\ \A j \in 1..Len(text) : b[p + j] = text[j]
      BY <2>0
    <3>3. p + n = p + Len(text) + 1 /\ n + 1 = Len(text) + 2
      BY <1>0, <3>1
    <3>. HIDE DEF text, n
    <3>. QED  BY <3>2, <3>3
  <2>2. a.kind # "null"
    BY <1>3 DEF Skipped
  <2>3. text \in Seq(Nat) /\ \A j \in 1..Len(text) : text[j] # NUL
    <3>1. a.kind \in {"cstring", "string", "view"}
      BY <1>3, <2>2, ArgTypes
    <3>2. CASE a.kind = "cstring"
      BY <3>2, ArgTypes
    <3>3. CASE a.kind \in {"string", "view"}
      BY <3>3, ArgTypes DEF HasNul, Contains
    <3>. QED  BY <3>1, <3>2, <3>3
  <2>4. n \in Nat \ {0} /\ n - 1 = Len(text)
    BY <2>3
  <2>5. Shown(a) = Chars(text)
    BY <1>3, <2>2 DEF Shown
  <2>. HIDE DEF text, n
  <2>6. f[p] = Chars(SubSeq(text, 1, n - 1)) \o f[p + n + 1]
    <3>1. n - 1 <= Len(text)
      BY <2>3, <2>4
    <3>2. \A j \in 1..(n - 1) : b[p + j] = text[j] /\ text[j] # NUL
      BY <2>1, <2>3, <2>4
    <3>3. TextFrom(b, p, n, text)
      BY <2>1, <2>3, <2>4, <3>1, <3>2 DEF TextFrom
    <3>4. Prints(f, p, n, text)
      BY <3>3, TextTurn
    <3>. QED  BY <3>4 DEF Prints
  <2>7. SubSeq(text, 1, n - 1) = text
    BY <2>3, <2>4, SubSeqFull
  <2>8. p + Len(Encoded(a)) = p + n + 1
    BY <1>0, <2>1, <2>4
  <2>. QED  BY <2>5, <2>6, <2>7, <2>8
<1>. QED  BY <1>1, <1>2, <1>3

-----------------------------------------------------------------------------
(* The buffer holds what was logged, one argument behind the other *)

LaidIn(s, b, pos) ==
  /\ pos \in [1..(Len(s) + 1) -> 1..(Len(b) + 1)]
  /\ pos[1] = 1 /\ pos[Len(s) + 1] = Len(b) + 1
  /\ \A i \in 1..Len(s) : /\ pos[i + 1] = pos[i] + Len(Encoded(s[i]))
                          /\ StandsAt(b, pos[i], Encoded(s[i]))

LaidOut ==
  /\ args \in Seq(Args) /\ bytes \in Seq(Nat)
  /\ \E pos \in [1..(Len(args) + 1) -> 1..(Len(bytes) + 1)] : LaidIn(args, bytes, pos)

LEMMA LaidOutInit == Init => LaidOut
<1>. SUFFICES ASSUME Init PROVE LaidOut
  OBVIOUS
<1>1. args = <<>> /\ bytes = <<>>
  BY DEF Init
<1>2. args \in Seq(Args) /\ bytes \in Seq(Nat) /\ Len(args) = 0 /\ Len(bytes) = 0
  BY <1>1
<1>. DEFINE pos == [i \in 1..1 |-> 1]
<1>3. pos \in [1..(Len(args) + 1) -> 1..(Len(bytes) + 1)]
  BY <1>2
<1>4. pos[1] = 1 /\ pos[Len(args) + 1] = Len(bytes) + 1 /\ \A i \in 1..Len(args) : FALSE
  BY <1>2
<1>. HIDE DEF pos
<1>5. LaidIn(args, bytes, pos)
  BY <1>3, <1>4 DEF LaidIn
<1>. QED  BY <1>2, <1>3, <1>5 DEF LaidOut

\* What is written behind the buffer's bytes leaves them alone.
LEMMA StandsStill ==
  ASSUME NEW b \in Seq(Nat), NEW u \in Seq(Nat), NEW t \in Seq(Nat), NEW p,
         StandsAt(b, p, t)
  PROVE  StandsAt(b \o u, p, t)
<1>1. /\ p \in Nat \ {0} /\ p + Len(t) <= Len(b) + 1
      /\ \A k \in 1..Len(t) : b[p - 1 + k] = t[k]
  BY DEF StandsAt
<1>2. /\ Len(b) \in Nat /\ Len(u) \in Nat /\ Len(t) \in Nat
      /\ Len(b \o u) = Len(b) + Len(u)
  OBVIOUS
<1>3. ASSUME NEW k \in 1..Len(t) PROVE (b \o u)[p - 1 + k] = t[k]
  <2>1. p - 1 + k \in 1..Len(b)
    BY <1>1, <1>2
  <2>2. (b \o u)[p - 1 + k] = b[p - 1 + k]
    BY <2>1, ConcatProperties
  <2>. QED  BY <1>1, <2>2
<1>4. p + Len(t) <= Len(b \o u) + 1
  BY <1>1, <1>2
<1>. QED  BY <1>1, <1>3, <1>4 DEF StandsAt

LEMMA StandsBehind ==
  ASSUME NEW b \in Seq(Nat), NEW u \in Seq(Nat)
  PROVE  StandsAt(b \o u, Len(b) + 1, u)
<1>1. /\ Len(b) \in Nat /\ Len(u) \in Nat /\ Len(b \o u) = Len(b) + Len(u)
  OBVIOUS
<1>2. ASSUME NEW k \in 1..Len(u) PROVE (b \o u)[(Len(b) + 1) - 1 + k] = u[k]
  <2>1. (Len(b) + 1) - 1 + k = Len(b) + k /\ k + Len(b) \in (Len(b) + 1)..(Len(b) + Len(u))
    BY <1>1
  <2>2. (b \o u)[Len(b) + k] = u[k]
    BY <1>1
  <2>. QED  BY <2>1, <2>2
<1>3. Len(b) + 1 \in Nat \ {0} /\ (Len(b) + 1) + Len(u) <= Len(b \o u) + 1
  BY <1>1
<1>. QED  BY <1>2, <1>3 DEF StandsAt

LEMMA LaidOutStep == LaidOut /\ [Next]_vars => LaidOut'
<1>. SUFFICES ASSUME LaidOut, [Next]_vars PROVE LaidOut'
  OBVIOUS
<1>1. CASE UNCHANGED vars
  BY <1>1 DEF vars, LaidOut
<1>2. ASSUME NEW a \in Args, Log(a) PROVE LaidOut'
  <2>. DEFINE t == Encoded(a)
              n == Len(args)
              m == Len(bytes)
  <2>1. args \in Seq(Args) /\ bytes \in Seq(Nat) /\ n \in Nat /\ m \in Nat
    BY DEF LaidOut
  <2>2. PICK pos \in [1..(n + 1) -> 1..(m + 1)] : LaidIn(args, bytes, pos)
    BY DEF LaidOut
  <2>3. /\ pos[1] = 1 /\ pos[n + 1] = m + 1
        /\ \A i \in 1..n : /\ pos[i + 1] = pos[i] + Len(Encoded(args[i]))
                          /\ StandsAt(bytes, pos[i], Encoded(args[i]))
    BY <2>2 DEF LaidIn
  <2>4. args' = Append(args, a) /\ bytes' = bytes \o t
    BY <1>2 DEF Log, Copied
  <2>5. t \in Seq(Nat) /\ Len(t) \in Nat
    BY RoomForAll
  <2>. HIDE DEF t
  <2>6. /\ args' \in Seq(Args) /\ Len(args') = n + 1
        /\ args'[n + 1] = a /\ \A i \in 1..n : args'[i] = args[i]
    BY <2>1, <2>4
  <2>7. bytes' \in Seq(Nat) /\ Len(bytes') = m + Len(t)
    BY <2>1, <2>4, <2>5
  <2>. DEFINE q == [i \in 1..((n + 1) + 1) |-> IF i = n + 2 THEN (m + Len(t)) + 1 ELSE pos[i]]
  <2>8. StandsAt(bytes', m + 1, t)
    BY <2>1, <2>4, <2>5, StandsBehind
  <2>9. ASSUME NEW i \in 1..n PROVE StandsAt(bytes', pos[i], Encoded(args[i]))
    <3>1. Encoded(args[i]) \in Seq(Nat)
      <4>1. args[i] \in Args
        BY <2>1
      <4>. QED  BY <4>1, RoomForAll
    <3>. QED  BY <2>1, <2>3, <2>4, <2>5, <3>1, StandsStill
  <2>. HIDE DEF n, m
  <2>10. q \in [1..((n + 1) + 1) -> 1..((m + Len(t)) + 1)]
    <3>1. ASSUME NEW i \in 1..((n + 1) + 1), i # n + 2
          PROVE  pos[i] \in 1..((m + Len(t)) + 1)
      <4>1. i \in 1..(n + 1)
        BY <2>1, <3>1
      <4>2. pos[i] \in 1..(m + 1)
        BY <2>2, <4>1
      <4>. QED  BY <2>1, <2>5, <4>2
    <3>2. (m + Len(t)) + 1 \in 1..((m + Len(t)) + 1)
      BY <2>1, <2>5
    <3>. QED  BY <3>1, <3>2
  <2>11. /\ q[(n + 1) + 1] = (m + Len(t)) + 1
         /\ \A i \in 1..(n + 1) : q[i] = pos[i]
    BY <2>1
  <2>. HIDE DEF q
  <2>12. q[1] = 1
    BY <2>1, <2>3, <2>11
  <2>13. ASSUME NEW i \in 1..(n + 1)
         PROVE  /\ q[i + 1] = q[i] + Len(Encoded(args'[i]))
                /\ StandsAt(bytes', q[i], Encoded(args'[i]))
    <3>1. CASE i = n + 1
      <4>1. q[i] = m + 1 /\ q[i + 1] = (m + Len(t)) + 1 /\ Encoded(args'[i]) = t
        BY <2>1, <2>3, <2>6, <2>11, <3>1 DEF t
      <4>2. (m + Len(t)) + 1 = (m + 1) + Len(t)
        BY <2>1, <2>5
      <4>. QED  BY <2>8, <4>1, <4>2
    <3>2. CASE i \in 1..n
      <4>1. i \in 1..(n + 1) /\ i + 1 \in 1..(n + 1)
        BY <2>1, <3>2
      <4>2. q[i] = pos[i] /\ q[i + 1] = pos[i + 1] /\ args'[i] = args[i]
        BY <2>6, <2>11, <3>2, <4>1
      <4>. QED  BY <2>3, <2>9, <3>2, <4>2
    <3>. QED  BY <2>1, <3>1, <3>2
  <2>14. LaidIn(args', bytes', q)
    BY <2>6, <2>7, <2>10, <2>11, <2>12, <2>13 DEF LaidIn
  <2>15. q \in [1..(Len(args') + 1) -> 1..(Len(bytes') + 1)]
    BY <2>6, <2>7, <2>10
  <2>. QED  BY <2>6, <2>7, <2>14, <2>15 DEF LaidOut
<1>. QED  BY <1>1, <1>2 DEF Next

-----------------------------------------------------------------------------
(* What stringify() makes of the arguments *)

\* Regrouping, as a fact about one set of sequences.
LEMMA Regroup == \A x, y, z \in Seq(Val) : (x \o y) \o z = x \o (y \o z)
<1>. SUFFICES ASSUME NEW x \in Seq(Val), NEW y \in Seq(Val), NEW z \in Seq(Val)
              PROVE  (x \o y) \o z = x \o (y \o z)
  OBVIOUS
<1>. QED  BY ConcatAssociative

LEMMA OneShown ==
  ASSUME NEW s \in Seq(Args), NEW b \in Seq(Nat), NEW f, NEW pos,
         Unfolds(b, 1, f), LaidIn(s, b, pos), NEW i \in 1..Len(s), ~HasNul(s[i])
  PROVE  /\ f[pos[i]] = Shown(s[i]) \o f[pos[i + 1]]
         /\ Shown(s[i]) \in Seq(Val) /\ f[pos[i + 1]] \in Seq(Val)
<1>1. s[i] \in Args /\ Len(s) \in Nat
  OBVIOUS
<1>2. pos[i + 1] = pos[i] + Len(Encoded(s[i])) /\ StandsAt(b, pos[i], Encoded(s[i]))
  BY DEF LaidIn
<1>3. pos[i + 1] \in 1..(Len(b) + 1)
  <2>1. i + 1 \in 1..(Len(s) + 1)
    BY <1>1
  <2>2. pos \in [1..(Len(s) + 1) -> 1..(Len(b) + 1)]
    BY DEF LaidIn
  <2>. QED  BY <2>1, <2>2
<1>4. f[pos[i + 1]] \in Seq(Val)
  BY <1>3, LineFromTypes
<1>5. Shown(s[i]) \in Seq(Val)
  BY <1>1, ArgTypes
<1>6. f[pos[i]] = Shown(s[i]) \o f[pos[i] + Len(Encoded(s[i]))]
  <2>. DEFINE p == pos[i]
              a == s[i]
  <2>1. a \in Args /\ ~HasNul(a) /\ StandsAt(b, p, Encoded(a))
    BY <1>1, <1>2
  <2>. HIDE DEF p, a
  <2>2. f[p] = Shown(a) \o f[p + Len(Encoded(a))]
    BY <2>1, ArgTurn
  <2>. QED  BY <2>2 DEF p, a
<1>. QED  BY <1>2, <1>4, <1>5, <1>6

NoNul(s, n) == n \in 0..Len(s) /\ \A i \in 1..n : ~HasNul(s[i])

Starts(f, s, n, q) ==
  /\ f[1] = ShownAll(SubSeq(s, 1, n)) \o f[q]
  /\ ShownAll(SubSeq(s, 1, n)) \in Seq(Val) /\ f[q] \in Seq(Val)

LEMMA FirstShown ==
  ASSUME NEW s \in Seq(Args), NEW b \in Seq(Nat), NEW f, NEW pos, NEW n,
         Unfolds(b, 1, f), LaidIn(s, b, pos), NoNul(s, n)
  PROVE  Starts(f, s, n, pos[n + 1])
<1>. DEFINE c == SubSeq(s, 1, n)
            v == [i \in DOMAIN c |-> Shown(c[i])]
<1>0. Len(s) \in Nat /\ n \in Nat /\ n <= Len(s)
  BY DEF NoNul
<1>1. c \in Seq(Args) /\ Len(c) = n /\ \A i \in 1..n : c[i] = s[i]
  BY <1>0
<1>. HIDE DEF c
<1>2. v = [i \in 1..n |-> Shown(s[i])] /\ Len(v) = n
  <2>1. DOMAIN c = 1..n
    BY <1>0, <1>1
  <2>2. v = [i \in 1..n |-> Shown(s[i])]
    BY <1>1, <2>1
  <2>. DEFINE T == {Shown(s[i]) : i \in 1..n}
  <2>3. \A i \in 1..n : Shown(s[i]) \in T
    OBVIOUS
  <2>. HIDE DEF v, T
  <2>4. v \in Seq(T) /\ Len(v) = n
    BY <1>0, <2>2, <2>3
  <2>. QED  BY <2>2, <2>4
<1>3. ShownAll(c) = FlattenSeq(v)
  BY DEF ShownAll
<1>4. pos[1] = 1 /\ pos[n + 1] \in 1..(Len(b) + 1)
  <2>1. n + 1 \in 1..(Len(s) + 1)
    BY <1>0
  <2>2. pos \in [1..(Len(s) + 1) -> 1..(Len(b) + 1)] /\ pos[1] = 1
    BY DEF LaidIn
  <2>. QED  BY <2>1, <2>2
<1>5. CASE n = 0
  <2>1. v = <<>>
    BY <1>2, <1>5
  <2>. HIDE DEF v
  <2>2. FlattenSeq(v) = <<>>
    BY <1>2, <1>5, <2>1 DEF FlattenSeq
  <2>3. f[1] \in Seq(Val)
    BY <1>4, <1>5, LineFromTypes
  <2>4. f[1] = <<>> \o f[1] /\ <<>> \in Seq(Val)
    BY <2>3
  <2>5. pos[n + 1] = 1
    BY <1>4, <1>5
  <2>. QED  BY <1>3, <2>2, <2>3, <2>4, <2>5 DEF c, Starts
<1>6. CASE n # 0
  <2>. HIDE DEF v
  <2>1. PICK g : Joined(v, n, g) /\ FlattenSeq(v) = g[n]
    BY <1>0, <1>2, <1>6, FlattenExists
  <2>2. \A i \in 1..n : g[i] = IF i = 1 THEN Shown(s[i]) ELSE g[i - 1] \o Shown(s[i])
    BY <1>2, <2>1 DEF Joined
  <2>3. ASSUME NEW i \in 1..n
        PROVE  /\ f[pos[i]] = Shown(s[i]) \o f[pos[i + 1]]
               /\ Shown(s[i]) \in Seq(Val) /\ f[pos[i + 1]] \in Seq(Val)
    <3>1. i \in 1..Len(s)
      BY <1>0
    <3>2. ~HasNul(s[i])
      BY DEF NoNul
    <3>. QED  BY <3>1, <3>2, OneShown
  <2>. DEFINE Done(h) == g[h] \in Seq(Val) /\ f[1] = g[h] \o f[pos[h + 1]]
              S == {k \in Nat : k + 1 <= n => Done(k + 1)}
  <2>4. 0 \in S
    <3>1. 1 \in 1..n /\ 0 + 1 = 1
      BY <1>0, <1>6
    <3>2. g[1] = Shown(s[1])
      BY <2>2, <3>1
    <3>3. f[1] = Shown(s[1]) \o f[pos[1 + 1]] /\ Shown(s[1]) \in Seq(Val)
      BY <1>4, <2>3, <3>1
    <3>. QED  BY <3>1, <3>2, <3>3
  <2>5. ASSUME NEW k \in Nat, k \in S PROVE k + 1 \in S
    <3>. SUFFICES ASSUME (k + 1) + 1 <= n PROVE Done((k + 1) + 1)
      <4>. HIDE DEF Done
      <4>. QED  OBVIOUS
    <3>. DEFINE h == k + 1
    <3>1. h \in Nat /\ h <= n /\ h + 1 \in 1..n /\ (h + 1) - 1 = h /\ h + 1 # 1
      BY <1>0
    <3>2. g[h] \in Seq(Val) /\ f[1] = g[h] \o f[pos[h + 1]]
      BY <2>5, <3>1
    <3>. HIDE DEF h
    <3>3. g[h + 1] = g[h] \o Shown(s[h + 1])
      BY <2>2, <3>1
    <3>4. /\ f[pos[h + 1]] = Shown(s[h + 1]) \o f[pos[(h + 1) + 1]]
          /\ Shown(s[h + 1]) \in Seq(Val) /\ f[pos[(h + 1) + 1]] \in Seq(Val)
      BY <2>3, <3>1
    <3>5. g[h + 1] \in Seq(Val)
      BY <3>2, <3>3, <3>4, ConcatProperties
    <3>6. f[1] = g[h + 1] \o f[pos[(h + 1) + 1]]
      <4>1. (g[h] \o Shown(s[h + 1])) \o f[pos[(h + 1) + 1]]
              = g[h] \o (Shown(s[h + 1]) \o f[pos[(h + 1) + 1]])
        BY <3>2, <3>4, Regroup
      <4>. QED  BY <3>2, <3>3, <3>4, <4>1
    <3>7. Done(h + 1)
      BY <3>5, <3>6
    <3>. QED  BY <3>7 DEF h
  <2>6. n - 1 \in Nat /\ (n - 1) + 1 = n
    BY <1>0, <1>6
  <2>7. n - 1 \in S
    <3>. HIDE DEF S
    <3>. QED  BY <2>4, <2>5, <2>6, Induction
  <2>8. g[n] \in Seq(Val) /\ f[1] = g[n] \o f[pos[n + 1]]
    <3>1. Done(n)
      <4>. HIDE DEF Done
      <4>. QED  BY <1>0, <2>6, <2>7
    <3>. QED  BY <3>1
  <2>9. f[pos[n + 1]] \in Seq(Val)
    BY <1>4, LineFromTypes
  <2>. QED  BY <1>3, <2>1, <2>8, <2>9 DEF c, Starts
<1>. QED  BY <1>5, <1>6

LEMMA PrintedOfLaidOut == LaidOut => PrintedAsLogged
<1>. SUFFICES ASSUME LaidOut, \A i \in DOMAIN args : ~HasNul(args[i])
              PROVE  Printed(bytes) = ShownAll(args)
  BY DEF PrintedAsLogged
<1>. DEFINE n == Len(args)
<1>1. args \in Seq(Args) /\ bytes \in Seq(Nat) /\ n \in Nat /\ Len(bytes) \in Nat
  BY DEF LaidOut
<1>2. PICK pos : LaidIn(args, bytes, pos)
  BY DEF LaidOut
<1>3. PICK f : Unfolds(bytes, 1, f) /\ Printed(bytes) = f[1]
  BY <1>1, PrintedExists
<1>4. /\ f[1] = ShownAll(SubSeq(args, 1, n)) \o f[pos[n + 1]]
      /\ ShownAll(SubSeq(args, 1, n)) \in Seq(Val)
  <2>1. NoNul(args, n)
    BY <1>1 DEF NoNul
  <2>2. Starts(f, args, n, pos[n + 1])
    BY <1>1, <1>2, <1>3, <2>1, FirstShown
  <2>. QED  BY <2>2 DEF Starts
<1>5. SubSeq(args, 1, n) = args
  BY <1>1, SubSeqFull
<1>6. f[pos[n + 1]] = <<>>
  <2>1. pos[n + 1] = Len(bytes) + 1
    BY <1>2 DEF LaidIn
  <2>2. f[Len(bytes) + 1] = LineFrom(bytes, Len(bytes) + 1, f)
    BY <1>1, <1>3 DEF Unfolds
  <2>. QED  BY <2>1, <2>2 DEF LineFrom
<1>7. \A x \in Seq(Val) : x \o <<>> = x
  OBVIOUS
<1>. QED  BY <1>3, <1>4, <1>5, <1>6, <1>7

\* operator<<, encode() and stringify() of src/src/log/NanoLog.cpp: whatever the
\* buffer has been through, what is printed is what was logged, if none of it has a NUL.
THEOREM LinePrintedAsLogged == Spec => []PrintedAsLogged
BY LaidOutInit, LaidOutStep, PrintedOfLaidOut, PTL DEF Spec

=============================================================================
