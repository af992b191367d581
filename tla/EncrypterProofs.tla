--------------------------- MODULE EncrypterProofs ---------------------------
(***************************************************************************)
(* What is proved of Encrypter and Base64 for all texts, keys and block    *)
(* sizes, and for every sequence of calls.                                 *)
(***************************************************************************)
EXTENDS Encrypter, FiniteSetTheorems, SequenceTheorems, TLAPS

-----------------------------------------------------------------------------
(* The contexts *)

\* A context is empty when a call begins to feed it: nothing has been fed into one
\* that is not to be refreshed.
ContextsFresh ==
  /\ refreshEncryptContext \in BOOLEAN /\ refreshDecryptContext \in BOOLEAN
  /\ ~refreshEncryptContext => encryptingContext = <<>>
  /\ ~refreshDecryptContext => decryptingContext = <<>>

ContextsInv == ContextsFresh /\ EncryptsOnlyItsText

LEMMA ContextsStep == ContextsInv /\ [Next]_vars => ContextsInv'
<1>. SUFFICES ASSUME ContextsInv, [Next]_vars PROVE ContextsInv'
  OBVIOUS
<1>0. /\ Refreshed(encryptingContext, refreshEncryptContext) = <<>>
      /\ Refreshed(decryptingContext, refreshDecryptContext) = <<>>
  BY DEF ContextsInv, ContextsFresh, Refreshed
<1>1. CASE UNCHANGED vars
  BY <1>1 DEF vars, ContextsInv, ContextsFresh, EncryptsOnlyItsText
<1>2. ASSUME NEW text \in Texts, Encrypt(text) PROVE ContextsInv'
  <2>1. text \in Seq(Byte) /\ <<>> \o text = text
    BY EncrypterAssumption DEF EncrypterAssumption
  <2>2. ContextsFresh'
    BY <1>2 DEF Encrypt, ContextsInv, ContextsFresh
  <2>3. PICK result \in {NoText} \cup EncryptResults(text) :
          last' = [op |-> "encrypt", text |-> text, after |-> Terminated, result |-> result]
    BY <1>0, <1>2, <2>1 DEF Encrypt
  <2>4. result \in {NoText, Encode(Encipher(text), FALSE)}
    BY <2>3 DEF EncryptResults
  <2>5. last'.result = result /\ last'.text = text
    BY <2>3
  <2>. QED  BY <2>2, <2>4, <2>5 DEF ContextsInv, EncryptsOnlyItsText
<1>3. ASSUME NEW text, NEW after, Decrypt(text, after) PROVE ContextsInv'
  <2>1. ContextsFresh'
    BY <1>3 DEF Decrypt, ContextsInv, ContextsFresh
  <2>2. last'.op = "decrypt"
    BY <1>3 DEF Decrypt
  <2>. QED  BY <2>1, <2>2 DEF ContextsInv, EncryptsOnlyItsText
<1>. QED  BY <1>1, <1>2, <1>3 DEF Next

\* encrypt() of src/src/lib/util/encrypter.cpp: whatever calls an instance of the
\* pool has been used for, failed ones and ones that threw among them, its next
\* result is that of a new instance.
THEOREM ContextKeepsNothing == Spec => []EncryptsOnlyItsText
<1>1. Init => ContextsInv
  <2>. SUFFICES ASSUME Init PROVE ContextsInv
    OBVIOUS
  <2>1. last.op = "none"
    BY DEF Init
  <2>. QED  BY <2>1 DEF Init, ContextsInv, ContextsFresh, EncryptsOnlyItsText
<1>2. ContextsInv => EncryptsOnlyItsText
  BY DEF ContextsInv
<1>. QED  BY <1>1, <1>2, ContextsStep, PTL DEF Spec

-----------------------------------------------------------------------------
(* Induction, as a fact about sets: what the recursive functions of the     *)
(* cipher and of base64 compute is proved with it for every length.         *)

LEMMA SmallestOf ==
  ASSUME NEW N \in Nat, NEW P \in SUBSET (0..N), P # {}
  PROVE  \E n \in P : \A m \in P : n <= m
<1>. DEFINE S == 1..N
            T == {1..n : n \in P}
<1>1. IsWellFoundedOn(StrictSubsetOrdering(S), SUBSET S)
  <2>1. IsFiniteSet(S)
    BY FS_Interval
  <2>. HIDE DEF S
  <2>2. FiniteSubsetsOf(S) = SUBSET S
    BY <2>1, FS_FiniteSubsetsOfFinite
  <2>3. IsWellFoundedOn(StrictSubsetOrdering(S), FiniteSubsetsOf(S))
    BY FS_StrictSubsetOrderingWellFounded
  <2>. QED  BY <2>2, <2>3
<1>2. T \subseteq SUBSET S
  OBVIOUS
<1>3. T # {}
  <2>. HIDE DEF S
  <2>. QED  OBVIOUS
<1>4. \E x \in T : \A y \in T : ~(<<y, x>> \in StrictSubsetOrdering(S))
  <2>. HIDE DEF S, T
  <2>. QED  BY <1>1, <1>2, <1>3, WFMin
<1>5. PICK n \in P : \A m \in P : ~(<<1..m, 1..n>> \in StrictSubsetOrdering(S))
  BY <1>4
<1>6. \A m \in P : ~(m < n)
  <2>. SUFFICES ASSUME NEW m \in P, m < n PROVE FALSE
    OBVIOUS
  <2>1. /\ 1..m \in SUBSET S /\ 1..n \in SUBSET S /\ 1..m \subseteq 1..n
        /\ n \in 1..n /\ n \notin 1..m
    OBVIOUS
  <2>2. <<1..m, 1..n>> \in StrictSubsetOrdering(S)
    BY <2>1 DEF StrictSubsetOrdering
  <2>. QED  BY <1>5, <2>2
<1>. QED  BY <1>6

LEMMA Induction ==
  ASSUME NEW S, 0 \in S, \A n \in Nat : n \in S => n + 1 \in S
  PROVE  Nat \subseteq S
<1>. SUFFICES ASSUME NEW N \in Nat, N \notin S PROVE FALSE
  OBVIOUS
<1>. DEFINE P == {n \in 0..N : n \notin S}
<1>1. P \in SUBSET (0..N) /\ N \in P
  OBVIOUS
<1>2. PICK n \in P : \A m \in P : n <= m
  <2>. HIDE DEF P
  <2>. QED  BY <1>1, SmallestOf
<1>3. n - 1 \in Nat /\ n - 1 \in S
  BY <1>2
<1>. QED  BY <1>3

-----------------------------------------------------------------------------
(* The cipher *)

Chained(bytes, n, c) ==
  c = [i \in 0..n |-> IF i = 0 THEN Key ELSE (bytes[i] + c[i - 1] + Key) % 256]

\* The function that Chain defines by recursion exists.
LEMMA ChainExists ==
  ASSUME NEW bytes \in Seq(Byte)
  PROVE  \E c : /\ Chained(bytes, Len(bytes), c)
                /\ Chain(bytes) = [i \in 1..Len(bytes) |-> c[i]]
<1>. DEFINE S == {n \in Nat : \E c : Chained(bytes, n, c)}
<1>1. 0 \in S
  <2>1. Chained(bytes, 0, [i \in 0..0 |-> Key])
    BY DEF Chained
  <2>. QED  BY <2>1
<1>2. ASSUME NEW n \in Nat, n \in S PROVE n + 1 \in S
  <2>1. PICK c : Chained(bytes, n, c)
    BY <1>2
  <2>2. c = [i \in 0..n |-> IF i = 0 THEN Key ELSE (bytes[i] + c[i - 1] + Key) % 256]
    BY <2>1 DEF Chained
  <2>. DEFINE next == (bytes[n + 1] + c[n] + Key) % 256
              d == [i \in 0..(n + 1) |-> IF i = n + 1 THEN next ELSE c[i]]
              e == [i \in 0..(n + 1) |->
                      IF i = 0 THEN Key ELSE (bytes[i] + d[i - 1] + Key) % 256]
  <2>3. \A i \in 0..(n + 1) : d[i] = e[i]
    <3>. SUFFICES ASSUME NEW i \in 0..(n + 1) PROVE d[i] = e[i]
      OBVIOUS
    <3>1. CASE i = 0
      BY <2>2, <3>1
    <3>2. CASE i = n + 1
      <4>1. d[i] = next /\ d[i - 1] = c[n]
        BY <3>2
      <4>. QED  BY <3>2, <4>1
    <3>3. CASE i \in 1..n
      <4>1. d[i] = c[i] /\ d[i - 1] = c[i - 1]
        BY <3>3
      <4>2. c[i] = (bytes[i] + c[i - 1] + Key) % 256
        BY <2>2, <3>3
      <4>. QED  BY <3>3, <4>1, <4>2
    <3>. QED  BY <3>1, <3>2, <3>3
  <2>4. d = e
    BY <2>3
  <2>5. Chained(bytes, n + 1, d)
    BY <2>4 DEF Chained
  <2>. QED  BY <2>5
<1>3. Len(bytes) \in S
  <2>. HIDE DEF S
  <2>. QED  BY <1>1, <1>2, Induction
<1>4. \E c : Chained(bytes, Len(bytes), c)
  BY <1>3
<1>5. Chained(bytes, Len(bytes), CHOOSE c : Chained(bytes, Len(bytes), c))
  BY <1>4
<1>6. Chain(bytes) =
        [i \in 1..Len(bytes) |-> (CHOOSE c : Chained(bytes, Len(bytes), c))[i]]
  BY DEF Chain, Chained
<1>. QED  BY <1>5, <1>6

LEMMA UnchainUndoes ==
  ASSUME NEW bytes \in Seq(Byte)
  PROVE  /\ Chain(bytes) \in Seq(Byte) /\ Len(Chain(bytes)) = Len(bytes)
         /\ Unchain(Chain(bytes)) = bytes
<1>1. PICK c : /\ Chained(bytes, Len(bytes), c)
               /\ Chain(bytes) = [i \in 1..Len(bytes) |-> c[i]]
  BY ChainExists
<1>2. c = [i \in 0..Len(bytes) |->
             IF i = 0 THEN Key ELSE (bytes[i] + c[i - 1] + Key) % 256]
  BY <1>1 DEF Chained
<1>3. Len(bytes) \in Nat /\ Key \in Byte /\ \A i \in 1..Len(bytes) : bytes[i] \in Byte
  BY EncrypterAssumption DEF EncrypterAssumption
<1>4. c[0] = Key /\ \A i \in 1..Len(bytes) : c[i] = (bytes[i] + c[i - 1] + Key) % 256
  BY <1>2, <1>3
<1>5. \A i \in 0..Len(bytes) : c[i] \in Byte
  <2>. DEFINE S == {n \in Nat : n <= Len(bytes) => c[n] \in Byte}
  <2>1. 0 \in S
    BY <1>3, <1>4
  <2>2. ASSUME NEW n \in Nat, n \in S PROVE n + 1 \in S
    <3>. SUFFICES ASSUME n + 1 <= Len(bytes) PROVE c[n + 1] \in Byte
      OBVIOUS
    <3>1. c[n] \in Byte /\ bytes[n + 1] \in Byte /\ Key \in Byte
      BY <1>3, <2>2
    <3>2. c[n + 1] = (bytes[n + 1] + c[n] + Key) % 256
      BY <1>3, <1>4
    <3>3. \A a, b, k \in Byte : (b + a + k) % 256 \in Byte
      BY DEF Byte
    <3>. QED  BY <3>1, <3>2, <3>3
  <2>3. Nat \subseteq S
    <3>. HIDE DEF S
    <3>. QED  BY <2>1, <2>2, Induction
  <2>. QED  BY <1>3, <2>3
<1>6. Chain(bytes) \in Seq(Byte) /\ Len(Chain(bytes)) = Len(bytes)
      /\ DOMAIN Chain(bytes) = 1..Len(bytes)
      /\ \A i \in 1..Len(bytes) : Chain(bytes)[i] = c[i]
  BY <1>1, <1>3, <1>5
<1>7. ASSUME NEW i \in 1..Len(bytes)
      PROVE  (Chain(bytes)[i] - (IF i = 1 THEN Key ELSE Chain(bytes)[i - 1]) - Key) % 256
               = bytes[i]
  <2>1. (IF i = 1 THEN Key ELSE Chain(bytes)[i - 1]) = c[i - 1]
    BY <1>3, <1>4, <1>6
  <2>2. \A a, b, k \in Byte : (((b + a + k) % 256) - a - k) % 256 = b
    BY DEF Byte
  <2>3. c[i - 1] \in Byte
    BY <1>3, <1>5
  <2>. QED  BY <1>3, <1>4, <1>6, <2>1, <2>2, <2>3
<1>8. Unchain(Chain(bytes)) = [i \in 1..Len(bytes) |-> bytes[i]]
  BY <1>6, <1>7 DEF Unchain
<1>. QED  BY <1>6, <1>8

LEMMA DivMod ==
  ASSUME NEW n \in Nat, NEW w \in Nat \ {0}
  PROVE  /\ n \div w \in Nat /\ n % w \in 0..(w - 1)
         /\ n = ((n \div w) * w) + (n % w)
OBVIOUS

\* Padding fills the last block, or is one.
LEMMA Padded ==
  ASSUME NEW text \in Seq(Byte)
  PROVE  \E n \in 1..Block :
           /\ PadText(text) \in Seq(Byte)
           /\ Len(PadText(text)) = Len(text) + n
           /\ Len(PadText(text)) % Block = 0
           /\ \A i \in 1..Len(text) : PadText(text)[i] = text[i]
           /\ \A i \in (Len(text) + 1)..(Len(text) + n) : PadText(text)[i] = n
<1>. DEFINE n == Block - (Len(text) % Block)
            pad == [i \in 1..n |-> n]
<1>1. Block \in 1..255 /\ Len(text) \in Nat
  BY EncrypterAssumption DEF EncrypterAssumption
<1>2. n \in 1..Block /\ (Len(text) + n) % Block = 0
  <2>1. PICK q \in Nat, r \in 0..(Block - 1) :
          Len(text) = (q * Block) + r /\ r = Len(text) % Block
    <3>1. Block \in Nat \ {0}
      BY <1>1
    <3>2. /\ Len(text) \div Block \in Nat /\ Len(text) % Block \in 0..(Block - 1)
          /\ Len(text) = ((Len(text) \div Block) * Block) + (Len(text) % Block)
      BY <1>1, <3>1, DivMod
    <3>. QED  BY <3>2
  <2>2. ((q + 1) * Block) % Block = 0 /\ (q + 1) * Block = (q * Block) + Block
    BY <1>1
  <2>3. Len(text) + n = (q + 1) * Block /\ n \in 1..Block
    BY <1>1, <2>1, <2>2
  <2>. QED  BY <2>2, <2>3
<1>3. n \in Byte /\ n \in Nat
  <2>. HIDE DEF n
  <2>. QED  BY <1>1, <1>2 DEF Byte
<1>. HIDE DEF n
<1>4. pad \in Seq(Byte) /\ Len(pad) = n /\ \A i \in 1..n : pad[i] = n
  BY <1>3
<1>5. PadText(text) = text \o pad
  BY DEF PadText, n
<1>. HIDE DEF pad
<1>6. /\ PadText(text) \in Seq(Byte) /\ Len(PadText(text)) = Len(text) + n
      /\ \A i \in 1..Len(text) : PadText(text)[i] = text[i]
      /\ \A i \in (Len(text) + 1)..(Len(text) + n) : PadText(text)[i] = n
  <2>. DEFINE both == text \o pad
  <2>1. both \in Seq(Byte) /\ Len(both) = Len(text) + n
    BY <1>4
  <2>2. \A i \in 1..Len(text) : both[i] = text[i]
    BY <1>4
  <2>3. \A i \in (Len(text) + 1)..(Len(text) + n) : both[i] = n
    <3>. SUFFICES ASSUME NEW i \in (Len(text) + 1)..(Len(text) + n) PROVE both[i] = n
      OBVIOUS
    <3>1. i - Len(text) \in 1..n
      BY <1>1, <1>3
    <3>2. both[i] = pad[i - Len(text)]
      BY <1>1, <1>3, <1>4, ConcatProperties
    <3>. QED  BY <1>4, <3>1, <3>2
  <2>. HIDE DEF both
  <2>4. PadText(text) = both
    BY <1>5 DEF both
  <2>. QED  BY <2>1, <2>2, <2>3, <2>4
<1>. QED  BY <1>2, <1>6

LEMMA DecipherUndoes ==
  ASSUME NEW text \in Seq(Byte)
  PROVE  /\ Encipher(text) \in Seq(Byte) /\ Encipher(text) # <<>>
         /\ Decipherable(Encipher(text))
         /\ Decipher(Encipher(text)) = text
<1>. DEFINE padded == PadText(text)
<1>1. PICK n \in 1..Block :
           /\ padded \in Seq(Byte)
           /\ Len(padded) = Len(text) + n
           /\ Len(padded) % Block = 0
           /\ \A i \in 1..Len(text) : padded[i] = text[i]
           /\ \A i \in (Len(text) + 1)..(Len(text) + n) : padded[i] = n
  BY Padded
<1>. HIDE DEF padded
<1>2. /\ Chain(padded) \in Seq(Byte) /\ Len(Chain(padded)) = Len(padded)
      /\ Unchain(Chain(padded)) = padded
  BY <1>1, UnchainUndoes
<1>3. Encipher(text) = Chain(padded)
  BY DEF Encipher, padded
<1>4. n \in Nat \ {0} /\ Len(text) \in Nat
  BY EncrypterAssumption DEF EncrypterAssumption
<1>5. Chain(padded) # <<>>
  BY <1>1, <1>2, <1>4
<1>6. Decipherable(Chain(padded))
  <2>1. \A i \in (Len(padded) - n + 1)..Len(padded) : padded[i] = n
    BY <1>1, <1>4
  <2>. QED  BY <1>1, <1>2, <1>5, <2>1 DEF Decipherable
<1>7. Decipher(Chain(padded)) = text
  <2>1. Decipher(Chain(padded)) = SubSeq(padded, 1, Len(padded) - padded[Len(padded)])
    BY <1>2 DEF Decipher
  <2>2. padded[Len(padded)] = n /\ Len(padded) - n = Len(text)
    BY <1>1, <1>4
  <2>3. SubSeq(padded, 1, Len(text)) = text
    BY <1>1, <1>4
  <2>. QED  BY <2>1, <2>2, <2>3
<1>. QED  BY <1>2, <1>3, <1>5, <1>6, <1>7

-----------------------------------------------------------------------------
(* Sequences of sequences *)

Joined(s, n, f) == f = [i \in 1..n |-> IF i = 1 THEN s[i] ELSE f[i - 1] \o s[i]]

\* The function that FlattenSeq defines by recursion exists.
LEMMA FlattenExists ==
  ASSUME NEW s, Len(s) \in Nat \ {0}
  PROVE  \E f : Joined(s, Len(s), f) /\ FlattenSeq(s) = f[Len(s)]
<1>. DEFINE S == {n \in Nat : \E f : Joined(s, n, f)}
<1>1. 0 \in S
  <2>. DEFINE f == [i \in 1..0 |-> 0]
  <2>1. f = [i \in 1..0 |-> IF i = 1 THEN s[i] ELSE f[i - 1] \o s[i]]
    OBVIOUS
  <2>2. Joined(s, 0, f)
    BY <2>1 DEF Joined
  <2>. QED  BY <2>2
<1>2. ASSUME NEW n \in Nat, n \in S PROVE n + 1 \in S
  <2>1. PICK c : Joined(s, n, c)
    BY <1>2
  <2>2. c = [i \in 1..n |-> IF i = 1 THEN s[i] ELSE c[i - 1] \o s[i]]
    BY <2>1 DEF Joined
  <2>. DEFINE next == IF n = 0 THEN s[1] ELSE c[n] \o s[n + 1]
              d == [i \in 1..(n + 1) |-> IF i = n + 1 THEN next ELSE c[i]]
              e == [i \in 1..(n + 1) |-> IF i = 1 THEN s[i] ELSE d[i - 1] \o s[i]]
  <2>3. \A i \in 1..(n + 1) : d[i] = e[i]
    <3>. SUFFICES ASSUME NEW i \in 1..(n + 1) PROVE d[i] = e[i]
      OBVIOUS
    <3>1. CASE i = n + 1
      <4>1. d[i] = next /\ (n # 0 => d[i - 1] = c[n])
        BY <3>1
      <4>. QED  BY <3>1, <4>1
    <3>2. CASE i \in 1..n
      <4>1. d[i] = c[i] /\ (i # 1 => d[i - 1] = c[i - 1])
        BY <3>2
      <4>2. c[i] = IF i = 1 THEN s[i] ELSE c[i - 1] \o s[i]
        BY <2>2, <3>2
      <4>. QED  BY <3>2, <4>1, <4>2
    <3>. QED  BY <3>1, <3>2
  <2>4. d = e
    BY <2>3
  <2>5. Joined(s, n + 1, d)
    BY <2>4 DEF Joined
  <2>. QED  BY <2>5
<1>3. Len(s) \in S
  <2>. HIDE DEF S
  <2>. QED  BY <1>1, <1>2, Induction
<1>4. \E f : Joined(s, Len(s), f)
  BY <1>3
<1>5. Joined(s, Len(s), CHOOSE f : Joined(s, Len(s), f))
  BY <1>4
<1>6. FlattenSeq(s) = (CHOOSE f : Joined(s, Len(s), f))[Len(s)]
  BY DEF FlattenSeq, Joined
<1>. QED  BY <1>5, <1>6

LEMMA ConcatParts ==
  ASSUME NEW S, NEW a \in Seq(S), NEW b \in Seq(S)
  PROVE  /\ a \o b \in Seq(S) /\ Len(a \o b) = Len(a) + Len(b)
         /\ \A i \in 1..Len(a) : (a \o b)[i] = a[i]
         /\ \A k \in 1..Len(b) : (a \o b)[Len(a) + k] = b[k]
<1>1. /\ a \o b \in Seq(S) /\ Len(a \o b) = Len(a) + Len(b)
      /\ \A i \in 1..(Len(a) + Len(b)) :
           (a \o b)[i] = IF i <= Len(a) THEN a[i] ELSE b[i - Len(a)]
  BY ConcatProperties
<1>2. \A i \in 1..Len(a) : (a \o b)[i] = a[i]
  BY <1>1
<1>3. \A k \in 1..Len(b) : (a \o b)[Len(a) + k] = b[k]
  <2>. SUFFICES ASSUME NEW k \in 1..Len(b) PROVE (a \o b)[Len(a) + k] = b[k]
    OBVIOUS
  <2>. DEFINE i == Len(a) + k
  <2>1. i \in 1..(Len(a) + Len(b)) /\ ~(i <= Len(a)) /\ i - Len(a) = k
    OBVIOUS
  <2>. HIDE DEF i
  <2>2. (a \o b)[i] = b[k]
    BY <1>1, <2>1
  <2>. QED  BY <2>2 DEF i
<1>. QED  BY <1>1, <1>2, <1>3

\* Groups of four one behind the other.
Fours(s, n, t) ==
  /\ Len(t) = 4 * n
  /\ \A g \in 1..n, k \in 1..4 : t[(4 * g) - 4 + k] = s[g][k]

LEMMA FlattenFours ==
  ASSUME NEW S, NEW s \in Seq(Seq(S)), \A g \in 1..Len(s) : Len(s[g]) = 4
  PROVE  FlattenSeq(s) \in Seq(S) /\ Fours(s, Len(s), FlattenSeq(s))
<1>0. Len(s) \in Nat /\ \A g \in 1..Len(s) : s[g] \in Seq(S)
  OBVIOUS
<1>1. CASE Len(s) = 0
  <2>1. s = <<>> /\ FlattenSeq(s) = s
    BY <1>1 DEF FlattenSeq
  <2>2. FlattenSeq(s) = <<>>
    BY <2>1
  <2>. QED  BY <1>1, <2>2 DEF Fours
<1>2. CASE Len(s) # 0
  <2>1. PICK f : Joined(s, Len(s), f) /\ FlattenSeq(s) = f[Len(s)]
    BY <1>0, <1>2, FlattenExists
  <2>2. \A i \in 1..Len(s) : f[i] = IF i = 1 THEN s[i] ELSE f[i - 1] \o s[i]
    BY <2>1 DEF Joined
  <2>. DEFINE R == {n \in Nat : n \in 1..Len(s) => f[n] \in Seq(S) /\ Fours(s, n, f[n])}
  <2>3. 0 \in R
    OBVIOUS
  <2>4. ASSUME NEW n \in Nat, n \in R PROVE n + 1 \in R
    <3>. SUFFICES ASSUME n + 1 \in 1..Len(s)
                  PROVE  f[n + 1] \in Seq(S) /\ Fours(s, n + 1, f[n + 1])
      OBVIOUS
    <3>1. s[n + 1] \in Seq(S) /\ Len(s[n + 1]) = 4
      BY <1>0
    <3>2. CASE n = 0
      <4>1. f[1] = s[1]
        BY <2>2, <3>2
      <4>2. f[1] \in Seq(S) /\ Len(f[1]) = 4
        BY <3>1, <3>2, <4>1
      <4>3. \A g \in 1..1, k \in 1..4 : f[1][(4 * g) - 4 + k] = s[g][k]
        BY <4>1
      <4>. QED  BY <3>2, <4>2, <4>3 DEF Fours
    <3>3. CASE n # 0
      <4>1. n \in 1..Len(s) /\ n + 1 # 1 /\ (n + 1) - 1 = n
        BY <3>3
      <4>2. f[n + 1] = f[n] \o s[n + 1]
        BY <2>2, <4>1
      <4>3. f[n] \in Seq(S) /\ Fours(s, n, f[n])
        BY <2>4, <4>1
      <4>. DEFINE t == f[n + 1]
      <4>4. /\ t \in Seq(S) /\ Len(t) = 4 * (n + 1)
            /\ \A i \in 1..(4 * n) : t[i] = f[n][i]
            /\ \A k \in 1..4 : t[(4 * n) + k] = s[n + 1][k]
        <5>1. Len(f[n]) = 4 * n
          BY <4>3 DEF Fours
        <5>. HIDE DEF t
        <5>2. t = f[n] \o s[n + 1]
          BY <4>2 DEF t
        <5>. DEFINE a == f[n]
                    b == s[n + 1]
        <5>3. a \in Seq(S) /\ b \in Seq(S)
          BY <3>1, <4>3
        <5>3a. Len(a) = 4 * n /\ Len(b) = 4 /\ t = a \o b
          BY <3>1, <5>1, <5>2
        <5>. HIDE DEF a, b
        <5>4. /\ a \o b \in Seq(S) /\ Len(a \o b) = Len(a) + Len(b)
              /\ \A i \in 1..Len(a) : (a \o b)[i] = a[i]
              /\ \A k \in 1..Len(b) : (a \o b)[Len(a) + k] = b[k]
          BY <5>3, ConcatParts
        <5>5. 4 * (n + 1) = (4 * n) + 4
          OBVIOUS
        <5>6. /\ t \in Seq(S) /\ Len(t) = 4 * (n + 1)
              /\ \A i \in 1..(4 * n) : t[i] = a[i]
              /\ \A k \in 1..4 : t[(4 * n) + k] = b[k]
          <6>. DEFINE m == 4 * n
          <6>1. Len(a) = m /\ Len(b) = 4 /\ 4 * (n + 1) = m + 4
            BY <5>3a, <5>5
          <6>. HIDE DEF m
          <6>2. /\ t \in Seq(S) /\ Len(t) = m + 4
                /\ \A i \in 1..m : t[i] = a[i]
                /\ \A k \in 1..4 : t[m + k] = b[k]
            BY <5>3a, <5>4, <6>1
          <6>. QED  BY <6>1, <6>2 DEF m
        <5>. QED  BY <5>6 DEF a, b
      <4>. HIDE DEF t
      <4>5. ASSUME NEW g \in 1..(n + 1), NEW k \in 1..4
            PROVE  t[(4 * g) - 4 + k] = s[g][k]
        <5>1. CASE g = n + 1
          <6>1. (4 * g) - 4 + k = (4 * n) + k
            BY <5>1
          <6>. QED  BY <4>4, <5>1, <6>1
        <5>2. CASE g \in 1..n
          <6>1. (4 * g) - 4 + k \in 1..(4 * n)
            BY <5>2
          <6>. QED  BY <4>3, <4>4, <5>2, <6>1 DEF Fours
        <5>. QED  BY <5>1, <5>2
      <4>6. t \in Seq(S) /\ Fours(s, n + 1, t)
        BY <4>4, <4>5 DEF Fours
      <4>. QED  BY <4>6 DEF t
    <3>. QED  BY <3>2, <3>3
  <2>5. Nat \subseteq R
    <3>. HIDE DEF R
    <3>. QED  BY <2>3, <2>4, Induction
  <2>. QED  BY <1>0, <1>2, <2>1, <2>5
<1>. QED  BY <1>1, <1>2

LEMMA Multiples ==
  ASSUME NEW w \in Nat \ {0}, NEW g \in Nat, NEW n \in Nat, g <= n
  PROVE  /\ g * w \in Nat /\ n * w \in Nat /\ g * w <= n * w
         /\ (g + 1) * w = (g * w) + w
<1>1. PICK k \in Nat : n = g + k
  <2>1. n - g \in Nat /\ n = g + (n - g)
    OBVIOUS
  <2>. QED  BY <2>1
<1>2. n * w = (g * w) + (k * w) /\ k * w \in Nat /\ g * w \in Nat
  BY <1>1
<1>3. (g + 1) * w = (g * w) + w
  OBVIOUS
<1>. QED  BY <1>2, <1>3

\* Where the parts of n elements end in a sequence of the given length.
Ends(length, n) ==
  [g \in Nat |-> IF g * n < length THEN g * n ELSE length]

LEMMA EndsOfParts ==
  ASSUME NEW length \in Nat, NEW w \in Nat \ {0}
  PROVE  LET n == (length + w - 1) \div w
             e == Ends(length, w)
         IN /\ n \in Nat /\ e[0] = 0 /\ e[n] = length
            /\ \A g \in 1..n : /\ (g - 1) * w + 1 = e[g - 1] + 1
                               /\ e[g - 1] \in Nat /\ e[g] \in Nat
                               /\ e[g - 1] < e[g] /\ e[g] <= e[g - 1] + w
                               /\ e[g] <= length
<1>. DEFINE m == length + w - 1
            n == m \div w
            e == Ends(length, w)
<1>1. n \in Nat /\ m % w \in 0..(w - 1) /\ m = (n * w) + (m % w)
  <2>1. m \in Nat
    OBVIOUS
  <2>. HIDE DEF m
  <2>. QED  BY <2>1, DivMod
<1>. HIDE DEF n
<1>2. m = length + w - 1
  OBVIOUS
<1>. HIDE DEF m
<1>3. n * w \in Nat /\ length <= n * w /\ n * w < length + w
  BY <1>1, <1>2
<1>4. \A g \in Nat : e[g] = IF g * w < length THEN g * w ELSE length
  BY DEF Ends
<1>. HIDE DEF e
<1>5. 0 * w = 0
  OBVIOUS
<1>6. e[0] = 0 /\ e[n] = length
  BY <1>1, <1>3, <1>4, <1>5
<1>7. ASSUME NEW g \in 1..n
      PROVE  /\ (g - 1) * w + 1 = e[g - 1] + 1
             /\ e[g - 1] \in Nat /\ e[g] \in Nat
             /\ e[g - 1] < e[g] /\ e[g] <= e[g - 1] + w
             /\ e[g] <= length
  <2>. DEFINE h == g - 1
              k == n - 1
  <2>1. h \in Nat /\ k \in Nat /\ h <= k /\ g = h + 1 /\ n = k + 1
    BY <1>1
  <2>. HIDE DEF h, k
  <2>2. h * w \in Nat /\ k * w \in Nat /\ h * w <= k * w /\ (h + 1) * w = (h * w) + w
    BY <2>1, Multiples
  <2>3. (k + 1) * w = (k * w) + w
    BY <2>1, Multiples
  <2>4. k * w < length
    BY <1>3, <2>1, <2>2, <2>3
  <2>5. e[h] = h * w
    BY <1>4, <2>1, <2>2, <2>4
  <2>6. e[g] = IF (h * w) + w < length THEN (h * w) + w ELSE length
    <3>1. g \in Nat /\ g * w = (h * w) + w
      BY <2>1, <2>2
    <3>. QED  BY <1>4, <3>1
  <2>7. /\ e[h] \in Nat /\ e[g] \in Nat
        /\ e[h] < e[g] /\ e[g] <= e[h] + w
        /\ e[g] <= length
    BY <2>2, <2>4, <2>5, <2>6
  <2>. QED  BY <2>5, <2>7 DEF h
<1>. QED  BY <1>1, <1>6, <1>7 DEF n, m, e

\* Pieces that follow each other in a sequence make up the sequence.
LEMMA FlattenPieces ==
  ASSUME NEW S, NEW whole \in Seq(S), NEW s \in Seq(Seq(S)), NEW e,
         e[0] = 0, e[Len(s)] = Len(whole),
         \A g \in 1..Len(s) : /\ e[g - 1] \in Nat /\ e[g] \in Nat
                              /\ e[g - 1] <= e[g] /\ e[g] <= Len(whole)
                              /\ s[g] = SubSeq(whole, e[g - 1] + 1, e[g])
  PROVE  FlattenSeq(s) = whole
<1>0. Len(s) \in Nat /\ Len(whole) \in Nat
  OBVIOUS
<1>1. CASE Len(s) = 0
  <2>1. s = <<>> /\ FlattenSeq(s) = s
    BY <1>1 DEF FlattenSeq
  <2>2. whole = <<>>
    BY <1>1
  <2>. QED  BY <2>1, <2>2
<1>2. CASE Len(s) # 0
  <2>1. PICK f : Joined(s, Len(s), f) /\ FlattenSeq(s) = f[Len(s)]
    BY <1>0, <1>2, FlattenExists
  <2>2. \A i \in 1..Len(s) : f[i] = IF i = 1 THEN s[i] ELSE f[i - 1] \o s[i]
    BY <2>1 DEF Joined
  <2>. DEFINE R == {n \in Nat : n \in 1..Len(s) => f[n] = SubSeq(whole, 1, e[n])}
  <2>3. 0 \in R
    OBVIOUS
  <2>4. ASSUME NEW n \in Nat, n \in R PROVE n + 1 \in R
    <3>. SUFFICES ASSUME n + 1 \in 1..Len(s) PROVE f[n + 1] = SubSeq(whole, 1, e[n + 1])
      OBVIOUS
    <3>. DEFINE g == n + 1
    <3>1. g \in 1..Len(s) /\ g - 1 = n
      OBVIOUS
    <3>. HIDE DEF g
    <3>2. /\ e[n] \in Nat /\ e[g] \in Nat /\ e[n] <= e[g] /\ e[g] <= Len(whole)
          /\ s[g] = SubSeq(whole, e[n] + 1, e[g])
      BY <3>1
    <3>3. f[g] = SubSeq(whole, 1, e[g])
      <4>1. CASE n = 0
        <5>1. g = 1 /\ f[g] = s[g]
          BY <2>2, <3>1, <4>1 DEF g
        <5>2. s[g] = SubSeq(whole, e[n] + 1, e[g]) /\ e[n] = 0
          BY <3>2, <4>1
        <5>3. e[n] + 1 = 1
          BY <5>2
        <5>. QED  BY <5>1, <5>2, <5>3
      <4>2. CASE n # 0
        <5>1. n \in 1..Len(s) /\ g # 1
          BY <1>0, <3>1, <4>2 DEF g
        <5>2. f[g] = SubSeq(whole, 1, e[n]) \o SubSeq(whole, e[n] + 1, e[g])
          BY <2>2, <2>4, <3>1, <3>2, <5>1
        <5>3. 1 \in 1..(Len(whole) + 1) /\ e[n] \in (1 - 1)..Len(whole)
              /\ e[g] \in e[n]..Len(whole)
          BY <1>0, <3>2
        <5>4. SubSeq(whole, 1, e[n]) \o SubSeq(whole, e[n] + 1, e[g])
                = SubSeq(whole, 1, e[g])
          BY <5>3, ConcatAdjacentSubSeq
        <5>. QED  BY <5>2, <5>4
      <4>. QED  BY <4>1, <4>2
    <3>. QED  BY <3>3 DEF g
  <2>5. Nat \subseteq R
    <3>. HIDE DEF R
    <3>. QED  BY <2>3, <2>4, Induction
  <2>6. f[Len(s)] = SubSeq(whole, 1, Len(whole))
    BY <1>0, <1>2, <2>5
  <2>. QED  BY <2>1, <2>6, SubSeqFull
<1>. QED  BY <1>1, <1>2

LEMMA PartsOf ==
  ASSUME NEW S, NEW whole \in Seq(S), NEW w \in Nat \ {0}
  PROVE  /\ Parts(whole, w) \in Seq(Seq(S))
         /\ Len(Parts(whole, w)) = (Len(whole) + w - 1) \div w
         /\ \A g \in 1..Len(Parts(whole, w)) :
              /\ Parts(whole, w)[g] \in Seq(S)
              /\ Len(Parts(whole, w)[g]) \in 1..w
              /\ Parts(whole, w)[g] =
                   SubSeq(whole, Ends(Len(whole), w)[g - 1] + 1, Ends(Len(whole), w)[g])
         /\ FlattenSeq(Parts(whole, w)) = whole
<1>. DEFINE n == (Len(whole) + w - 1) \div w
            e == Ends(Len(whole), w)
            part(g) == SubSeq(whole, e[g - 1] + 1, e[g])
<1>1. Len(whole) \in Nat
  OBVIOUS
<1>2. /\ n \in Nat /\ e[0] = 0 /\ e[n] = Len(whole)
      /\ \A g \in 1..n : /\ (g - 1) * w + 1 = e[g - 1] + 1
                         /\ e[g - 1] \in Nat /\ e[g] \in Nat
                         /\ e[g - 1] < e[g] /\ e[g] <= e[g - 1] + w
                         /\ e[g] <= Len(whole)
  BY <1>1, EndsOfParts
<1>3. \A g \in Nat : e[g] = IF g * w < Len(whole) THEN g * w ELSE Len(whole)
  BY DEF Ends
<1>4. Parts(whole, w) =
        [g \in 1..n |->
           SubSeq(whole, (g - 1) * w + 1, IF g * w < Len(whole) THEN g * w ELSE Len(whole))]
  BY DEF Parts
<1>. HIDE DEF n, e
<1>5. ASSUME NEW g \in 1..n
      PROVE  /\ Parts(whole, w)[g] = part(g)
             /\ part(g) \in Seq(S) /\ Len(part(g)) \in 1..w
  <2>1. /\ (g - 1) * w + 1 = e[g - 1] + 1
        /\ e[g - 1] \in Nat /\ e[g] \in Nat
        /\ e[g - 1] < e[g] /\ e[g] <= e[g - 1] + w
        /\ e[g] <= Len(whole)
    BY <1>2
  <2>2. g \in Nat
    BY <1>2
  <2>3. Parts(whole, w)[g] = part(g)
    BY <1>3, <1>4, <2>1, <2>2
  <2>. DEFINE p == e[g - 1] + 1
              q == e[g]
  <2>4. p \in 1..Len(whole) /\ q \in p..Len(whole) /\ q - p + 1 \in 1..w
    <3>. DEFINE d == e[g - 1]
    <3>1. d \in Nat /\ q \in Nat /\ d < q /\ q <= d + w /\ q <= Len(whole) /\ p = d + 1
      BY <2>1
    <3>. HIDE DEF d, p, q
    <3>. QED  BY <1>1, <3>1
  <2>5. part(g) = SubSeq(whole, p, q)
    OBVIOUS
  <2>. HIDE DEF p, q, part
  <2>6. SubSeq(whole, p, q) \in Seq(S) /\ Len(SubSeq(whole, p, q)) = q - p + 1
    BY <1>1, <2>4, SubSeqProperties
  <2>. QED  BY <2>3, <2>4, <2>5, <2>6
<1>6. /\ Parts(whole, w) \in Seq(Seq(S)) /\ Len(Parts(whole, w)) = n
  <2>. DEFINE piece(g) ==
         SubSeq(whole, (g - 1) * w + 1, IF g * w < Len(whole) THEN g * w ELSE Len(whole))
  <2>1. Parts(whole, w) = [g \in 1..n |-> part(g)]
    <3>1. Parts(whole, w) = [g \in 1..n |-> piece(g)]
      BY <1>4
    <3>. HIDE DEF part, piece
    <3>2. \A g \in 1..n : piece(g) = part(g)
      BY <1>5, <3>1
    <3>. QED  BY <3>1, <3>2
  <2>. HIDE DEF part, piece
  <2>. QED  BY <1>2, <1>5, <2>1
<1>7. FlattenSeq(Parts(whole, w)) = whole
  <2>. DEFINE s == Parts(whole, w)
  <2>1. s \in Seq(Seq(S)) /\ Len(s) = n /\ e[0] = 0 /\ e[Len(s)] = Len(whole)
    BY <1>2, <1>6
  <2>2. \A g \in 1..Len(s) : /\ e[g - 1] \in Nat /\ e[g] \in Nat
                             /\ e[g - 1] <= e[g] /\ e[g] <= Len(whole)
                             /\ s[g] = SubSeq(whole, e[g - 1] + 1, e[g])
    BY <1>2, <1>5, <1>6
  <2>. HIDE DEF s
  <2>3. FlattenSeq(s) = whole
    BY <2>1, <2>2, FlattenPieces
  <2>. QED  BY <2>3 DEF s
<1>. QED  BY <1>5, <1>6, <1>7 DEF n, e

-----------------------------------------------------------------------------
(* Base64 *)

LEMMA DigitsKnown ==
  ASSUME NEW d \in 0..63, NEW url \in BOOLEAN
  PROVE  /\ Digit(d, url) \in Character /\ Known(Digit(d, url))
         /\ ~IsPad(Digit(d, url)) /\ Digit(d, url) # NewLine
         /\ Position(Digit(d, url)) = d
<1>1. \/ Digit(d, url) = d + 2 /\ d \in 62..63
      \/ Digit(d, url) = d
  BY DEF Digit
<1>. QED  BY <1>1 DEF Known, IsPad, Position, Character, Pad, Dot, NewLine

LEMMA SixBits ==
  ASSUME NEW x \in Byte, NEW y \in Byte
  PROVE  /\ x \div 4 \in 0..63 /\ (x % 4) * 16 \in 0..63 /\ (x % 16) * 4 \in 0..63
         /\ x % 64 \in 0..63
         /\ (x % 4) * 16 + y \div 16 \in 0..63
         /\ (x % 16) * 4 + y \div 64 \in 0..63
BY DEF Byte

\* The four characters of a group.
LEMMA EncodedGroup ==
  ASSUME NEW b \in Seq(Byte), Len(b) \in 1..3, NEW url \in BOOLEAN
  PROVE  /\ EncodeGroup(b, url) \in Seq(Character) /\ Len(EncodeGroup(b, url)) = 4
         /\ \A k \in 1..4 : EncodeGroup(b, url)[k] # NewLine
<1>. DEFINE pad == IF url THEN Dot ELSE Pad
            D(d) == Digit(d, url)
            first == b[1] \div 4
            rest1 == (b[1] % 4) * 16
            rest2 == (b[2] % 16) * 4
<1>1. pad \in Character /\ pad # NewLine
  BY DEF Character, Pad, Dot, NewLine
<1>2. \A d \in 0..63 : D(d) \in Character /\ D(d) # NewLine
  BY DigitsKnown
<1>. HIDE DEF pad, D
<1>3. \A x1, x2, x3, x4 \in Character :
        x1 # NewLine /\ x2 # NewLine /\ x3 # NewLine /\ x4 # NewLine =>
          /\ <<x1, x2, x3, x4>> \in Seq(Character) /\ Len(<<x1, x2, x3, x4>>) = 4
          /\ \A k \in 1..4 : <<x1, x2, x3, x4>>[k] # NewLine
  OBVIOUS
<1>4. b[1] \in Byte /\ first \in 0..63 /\ rest1 \in 0..63
  <2>1. b[1] \in Byte
    OBVIOUS
  <2>. QED  BY <2>1, SixBits
<1>5. CASE Len(b) = 1
  <2>1. EncodeGroup(b, url) = <<D(first), D(rest1), pad, pad>>
    BY <1>5 DEF EncodeGroup, D, pad
  <2>. HIDE DEF first, rest1, rest2
  <2>2. D(first) \in Character /\ D(rest1) \in Character
        /\ D(first) # NewLine /\ D(rest1) # NewLine
    BY <1>2, <1>4
  <2>. QED  BY <1>1, <1>3, <2>1, <2>2
<1>6. CASE Len(b) = 2
  <2>1. b[2] \in Byte
    BY <1>6
  <2>2. rest1 + (b[2] \div 16) \in 0..63 /\ rest2 \in 0..63
    BY <1>4, <2>1, SixBits
  <2>3. EncodeGroup(b, url) = <<D(first), D(rest1 + (b[2] \div 16)), D(rest2), pad>>
    BY <1>6 DEF EncodeGroup, D, pad
  <2>. HIDE DEF first, rest1, rest2
  <2>. DEFINE second == rest1 + (b[2] \div 16)
  <2>4. second \in 0..63
    BY <2>2
  <2>. HIDE DEF second
  <2>5. EncodeGroup(b, url) = <<D(first), D(second), D(rest2), pad>>
    BY <2>3 DEF second
  <2>6. D(first) \in Character /\ D(second) \in Character /\ D(rest2) \in Character
        /\ D(first) # NewLine /\ D(second) # NewLine /\ D(rest2) # NewLine
    BY <1>2, <1>4, <2>2, <2>4
  <2>. QED  BY <1>1, <1>3, <2>5, <2>6
<1>7. CASE Len(b) = 3
  <2>1. b[2] \in Byte /\ b[3] \in Byte
    BY <1>7
  <2>. DEFINE second == rest1 + (b[2] \div 16)
              third == rest2 + (b[3] \div 64)
              fourth == LastDigit(b[3])
  <2>2. second \in 0..63 /\ third \in 0..63 /\ fourth \in 0..63
    BY <1>4, <2>1, SixBits DEF LastDigit
  <2>3. EncodeGroup(b, url) = <<D(first), D(second), D(third), D(fourth)>>
    BY <1>7 DEF EncodeGroup, D
  <2>. HIDE DEF first, second, third, fourth
  <2>4. D(first) \in Character /\ D(second) \in Character /\ D(third) \in Character
        /\ D(first) # NewLine /\ D(second) # NewLine /\ D(third) # NewLine
        /\ D(fourth) \in Character /\ D(fourth) # NewLine
    BY <1>2, <1>4, <2>2
  <2>. QED  BY <1>3, <2>3, <2>4
<1>. QED  BY <1>5, <1>6, <1>7

LEMMA SameBits ==
  ASSUME NEW x \in Byte, NEW y \in Byte, NEW z \in Byte
  PROVE  /\ (x \div 4) * 4 + ((x % 4) * 16) \div 16 = x
         /\ (x \div 4) * 4 + ((x % 4) * 16 + y \div 16) \div 16 = x
         /\ (((x % 4) * 16 + y \div 16) % 16) * 16 + ((y % 16) * 4) \div 4 = y
         /\ (((x % 4) * 16 + y \div 16) % 16) * 16 + ((y % 16) * 4 + z \div 64) \div 4 = y
         /\ (((y % 16) * 4 + z \div 64) % 4) * 64 + (z % 64) = z
<1>. DEFINE a == x \div 4
            p == x % 4
            q == y \div 16
            r == y % 16
            t == z \div 64
<1>1. /\ a * 4 + p = x /\ p \in 0..3
      /\ q * 16 + r = y /\ q \in 0..15 /\ r \in 0..15
      /\ t * 64 + (z % 64) = z /\ t \in 0..3
  <2>1. \A u \in Byte : (u \div 4) * 4 + (u % 4) = u /\ u % 4 \in 0..3
    BY DEF Byte
  <2>2. \A u \in Byte :
          (u \div 16) * 16 + (u % 16) = u /\ u \div 16 \in 0..15 /\ u % 16 \in 0..15
    BY DEF Byte
  <2>4. a * 4 + p = x /\ p \in 0..3
    BY <2>1
  <2>5. q * 16 + r = y /\ q \in 0..15 /\ r \in 0..15
    BY <2>2
  <2>6. t * 64 + (z % 64) = z /\ t \in 0..3
    BY DEF Byte
  <2>. QED  BY <2>4, <2>5, <2>6
<1>. HIDE DEF a, p, q, r, t
<1>2. /\ (p * 16) \div 16 = p /\ (p * 16 + q) \div 16 = p /\ (p * 16 + q) % 16 = q
      /\ (r * 4) \div 4 = r /\ (r * 4 + t) \div 4 = r /\ (r * 4 + t) % 4 = t
  BY <1>1
<1>3. /\ a * 4 + (p * 16) \div 16 = x
      /\ a * 4 + (p * 16 + q) \div 16 = x
      /\ ((p * 16 + q) % 16) * 16 + (r * 4) \div 4 = y
      /\ ((p * 16 + q) % 16) * 16 + (r * 4 + t) \div 4 = y
      /\ ((r * 4 + t) % 4) * 64 + (z % 64) = z
  BY <1>1, <1>2
<1>. QED  BY <1>3 DEF a, p, q, r, t

\* What a turn of the decoder makes of the four characters of a group.
LEMMA DecodedGroup ==
  ASSUME NEW b \in Seq(Byte), Len(b) \in 1..3, NEW url \in BOOLEAN,
         NEW m, NEW i \in Nat,
         \A k \in 1..4 : m[i - 1 + k] = EncodeGroup(b, url)[k]
  PROVE  DecodeGroup(m, i) = b /\ b # Thrown
<1>. DEFINE pad == IF url THEN Dot ELSE Pad
            D(d) == Digit(d, url)
            first == b[1] \div 4
            rest1 == (b[1] % 4) * 16
            rest2 == (b[2] % 16) * 4
            c == EncodeGroup(b, url)
<1>1. m[i] = c[1] /\ m[i + 0] = c[1] /\ m[i + 1] = c[2] /\ m[i + 2] = c[3] /\ m[i + 3] = c[4]
  <2>. HIDE DEF c
  <2>0. \A k \in 1..4 : m[i - 1 + k] = c[k]
    BY DEF c
  <2>1. i - 1 + 1 = i /\ i + 0 = i /\ i - 1 + 2 = i + 1 /\ i - 1 + 3 = i + 2 /\ i - 1 + 4 = i + 3
    OBVIOUS
  <2>2. m[i - 1 + 1] = c[1] /\ m[i - 1 + 2] = c[2] /\ m[i - 1 + 3] = c[3] /\ m[i - 1 + 4] = c[4]
    BY <2>0
  <2>. QED  BY <2>1, <2>2
<1>. HIDE DEF c
<1>2. IsPad(pad) /\ Len(b) \in Nat /\ b[1] \in Byte
  BY DEF IsPad, Pad, Dot
<1>3. \A d \in 0..63 : Known(D(d)) /\ ~IsPad(D(d)) /\ Position(D(d)) = d
  BY DigitsKnown
<1>4. b # Thrown
  <2>1. -1 \notin Byte
    BY DEF Byte
  <2>. QED  BY <1>2, <2>1 DEF Thrown
<1>5. first \in 0..63 /\ rest1 \in 0..63
  BY <1>2, SixBits
<1>. HIDE DEF pad, D
<1>6. CASE Len(b) = 1
  <2>1. c = <<D(first), D(rest1), pad, pad>>
    BY <1>6 DEF EncodeGroup, D, pad, c
  <2>2. (first * 4) + (rest1 \div 16) = b[1]
    BY <1>2, SameBits
  <2>. HIDE DEF first, rest1, rest2
  <2>3. m[i] = D(first) /\ m[i + 0] = D(first) /\ m[i + 1] = D(rest1) /\ m[i + 2] = pad
    BY <1>1, <2>1
  <2>4. Known(m[i]) /\ Known(m[i + 1]) /\ IsPad(m[i + 2])
        /\ Position(m[i + 0]) = first /\ Position(m[i + 1]) = rest1
    BY <1>2, <1>3, <1>5, <2>3
  <2>5. DecodeGroup(m, i) = <<(first * 4) + (rest1 \div 16)>>
    BY <2>4 DEF DecodeGroup
  <2>. QED  BY <1>4, <1>6, <2>2, <2>5
<1>7. CASE Len(b) = 2
  <2>. DEFINE second == rest1 + (b[2] \div 16)
  <2>0. b[2] \in Byte
    <3>. HIDE DEF second, rest1, rest2, first
    <3>1. 2 \in 1..Len(b)
      BY <1>7
    <3>. QED  BY <3>1, ElementOfSeq
  <2>1. c = <<D(first), D(second), D(rest2), pad>>
    BY <1>7 DEF EncodeGroup, D, pad, c
  <2>2. second \in 0..63 /\ rest2 \in 0..63
    BY <1>2, <2>0, SixBits
  <2>3. /\ (first * 4) + (second \div 16) = b[1]
        /\ ((second % 16) * 16) + (rest2 \div 4) = b[2]
    BY <1>2, <2>0, SameBits
  <2>. HIDE DEF first, rest1, rest2, second
  <2>4. /\ m[i] = D(first) /\ m[i + 0] = D(first) /\ m[i + 1] = D(second)
        /\ m[i + 2] = D(rest2) /\ m[i + 3] = pad
    BY <1>1, <2>1
  <2>5. /\ Known(m[i]) /\ Known(m[i + 1]) /\ ~IsPad(m[i + 2]) /\ Known(m[i + 2])
        /\ IsPad(m[i + 3])
        /\ Position(m[i + 0]) = first /\ Position(m[i + 1]) = second
        /\ Position(m[i + 2]) = rest2
    BY <1>2, <1>3, <1>5, <2>2, <2>4
  <2>6. DecodeGroup(m, i) = <<(first * 4) + (second \div 16), ((second % 16) * 16) + (rest2 \div 4)>>
    BY <2>5 DEF DecodeGroup
  <2>. QED  BY <1>4, <1>7, <2>3, <2>6
<1>8. CASE Len(b) = 3
  <2>. DEFINE second == rest1 + (b[2] \div 16)
              third == rest2 + (b[3] \div 64)
              fourth == LastDigit(b[3])
  <2>0. b[2] \in Byte /\ b[3] \in Byte
    <3>1. 2 \in 1..Len(b) /\ 3 \in 1..Len(b)
      BY <1>8
    <3>. QED  BY <3>1, ElementOfSeq
  <2>1. c = <<D(first), D(second), D(third), D(fourth)>>
    BY <1>8 DEF EncodeGroup, D, c
  <2>2. second \in 0..63 /\ third \in 0..63 /\ fourth \in 0..63
    BY <1>2, <2>0, SixBits DEF LastDigit
  <2>3. /\ (first * 4) + (second \div 16) = b[1]
        /\ ((second % 16) * 16) + (third \div 4) = b[2]
        /\ ((third % 4) * 64) + fourth = b[3]
    <3>1. /\ (b[1] \div 4) * 4 + ((b[1] % 4) * 16 + b[2] \div 16) \div 16 = b[1]
          /\ (((b[1] % 4) * 16 + b[2] \div 16) % 16) * 16
               + ((b[2] % 16) * 4 + b[3] \div 64) \div 4 = b[2]
          /\ (((b[2] % 16) * 4 + b[3] \div 64) % 4) * 64 + (b[3] % 64) = b[3]
      <4>. HIDE DEF first, rest1, rest2, second, third, fourth
      <4>. DEFINE x == b[1]
                  y == b[2]
                  z == b[3]
      <4>1. x \in Byte /\ y \in Byte /\ z \in Byte
        BY <1>2, <2>0
      <4>. HIDE DEF x, y, z
      <4>2. /\ (x \div 4) * 4 + ((x % 4) * 16 + y \div 16) \div 16 = x
            /\ (((x % 4) * 16 + y \div 16) % 16) * 16 + ((y % 16) * 4 + z \div 64) \div 4 = y
            /\ (((y % 16) * 4 + z \div 64) % 4) * 64 + (z % 64) = z
        BY <4>1, SameBits
      <4>. QED  BY <4>2 DEF x, y, z
    <3>2. fourth = b[3] % 64
      BY DEF LastDigit
    <3>. HIDE DEF fourth
    <3>. QED  BY <3>1, <3>2
  <2>. HIDE DEF first, rest1, rest2, second, third, fourth
  <2>4. /\ m[i] = D(first) /\ m[i + 0] = D(first) /\ m[i + 1] = D(second)
        /\ m[i + 2] = D(third) /\ m[i + 3] = D(fourth)
    BY <1>1, <2>1
  <2>5. /\ Known(m[i]) /\ Known(m[i + 1]) /\ ~IsPad(m[i + 2]) /\ Known(m[i + 2])
        /\ ~IsPad(m[i + 3]) /\ Known(m[i + 3])
        /\ Position(m[i + 0]) = first /\ Position(m[i + 1]) = second
        /\ Position(m[i + 2]) = third /\ Position(m[i + 3]) = fourth
    BY <1>2, <1>3, <1>5, <2>2, <2>4
  <2>6. DecodeGroup(m, i) =
          <<(first * 4) + (second \div 16), ((second % 16) * 16) + (third \div 4),
            ((third % 4) * 64) + fourth>>
    BY <2>5 DEF DecodeGroup
  <2>. QED  BY <1>4, <1>8, <2>3, <2>6
<1>. QED  BY <1>6, <1>7, <1>8

LEMMA PartsOfThree ==
  ASSUME NEW bytes \in Seq(Byte)
  PROVE  /\ Parts(bytes, 3) \in Seq(Seq(Byte)) /\ FlattenSeq(Parts(bytes, 3)) = bytes
         /\ \A g \in 1..Len(Parts(bytes, 3)) :
              Parts(bytes, 3)[g] \in Seq(Byte) /\ Len(Parts(bytes, 3)[g]) \in 1..3
<1>1. PICK w \in Nat \ {0} : w = 3
  OBVIOUS
<1>2. /\ Parts(bytes, w) \in Seq(Seq(Byte)) /\ FlattenSeq(Parts(bytes, w)) = bytes
      /\ \A g \in 1..Len(Parts(bytes, w)) :
           Parts(bytes, w)[g] \in Seq(Byte) /\ Len(Parts(bytes, w)[g]) \in 1..w
  BY PartsOf
<1>. QED  BY <1>1, <1>2

\* base64_encode(): four characters for each part of three bytes.
LEMMA EncodedText ==
  ASSUME NEW bytes \in Seq(Byte), NEW url \in BOOLEAN
  PROVE  LET parts == Parts(bytes, 3) IN
         /\ Encode(bytes, url) \in Seq(Character)
         /\ Len(Encode(bytes, url)) = 4 * Len(parts)
         /\ \A g \in 1..Len(parts), k \in 1..4 :
              Encode(bytes, url)[(4 * g) - 4 + k] = EncodeGroup(parts[g], url)[k]
<1>. DEFINE parts == Parts(bytes, 3)
            s == [g \in 1..Len(parts) |-> EncodeGroup(parts[g], url)]
<1>1. /\ parts \in Seq(Seq(Byte)) /\ Len(parts) \in Nat /\ DOMAIN parts = 1..Len(parts)
      /\ \A g \in 1..Len(parts) : parts[g] \in Seq(Byte) /\ Len(parts[g]) \in 1..3
  <2>1. /\ parts \in Seq(Seq(Byte)) /\ FlattenSeq(parts) = bytes
        /\ \A g \in 1..Len(parts) : parts[g] \in Seq(Byte) /\ Len(parts[g]) \in 1..3
    BY PartsOfThree
  <2>. HIDE DEF parts
  <2>. QED  BY <2>1
<1>. HIDE DEF parts
<1>2. \A g \in 1..Len(parts) : /\ EncodeGroup(parts[g], url) \in Seq(Character)
                               /\ Len(EncodeGroup(parts[g], url)) = 4
  BY <1>1, EncodedGroup
<1>3. /\ s \in Seq(Seq(Character)) /\ Len(s) = Len(parts)
      /\ \A g \in 1..Len(parts) : s[g] = EncodeGroup(parts[g], url)
  BY <1>1, <1>2
<1>4. Encode(bytes, url) = FlattenSeq(s)
  BY <1>1 DEF Encode, parts
<1>. HIDE DEF s
<1>5. \A g \in 1..Len(s) : Len(s[g]) = 4
  BY <1>2, <1>3
<1>6. FlattenSeq(s) \in Seq(Character) /\ Fours(s, Len(s), FlattenSeq(s))
  BY <1>3, <1>5, FlattenFours
<1>. QED  BY <1>3, <1>4, <1>6 DEF Fours, parts

\* base64_decode() of what base64_encode() has made, whatever follows it in memory.
LEMMA DecodeUndoes ==
  ASSUME NEW bytes \in Seq(Byte), NEW url \in BOOLEAN, NEW after \in Seq(Character)
  PROVE  Decode(Encode(bytes, url), after) = bytes
<1>. DEFINE parts == Parts(bytes, 3)
            text == Encode(bytes, url)
            m == text \o after
            groups == [g \in 1..Turns(text) |-> DecodeGroup(m, 4 * g - 3)]
<1>1. /\ parts \in Seq(Seq(Byte)) /\ Len(parts) \in Nat /\ FlattenSeq(parts) = bytes
      /\ \A g \in 1..Len(parts) : parts[g] \in Seq(Byte) /\ Len(parts[g]) \in 1..3
  <2>1. /\ parts \in Seq(Seq(Byte)) /\ FlattenSeq(parts) = bytes
        /\ \A g \in 1..Len(parts) : parts[g] \in Seq(Byte) /\ Len(parts[g]) \in 1..3
    BY PartsOfThree
  <2>. HIDE DEF parts
  <2>. QED  BY <2>1
<1>2. /\ text \in Seq(Character) /\ Len(text) = 4 * Len(parts)
      /\ \A g \in 1..Len(parts), k \in 1..4 :
           text[(4 * g) - 4 + k] = EncodeGroup(parts[g], url)[k]
  BY EncodedText
<1>. HIDE DEF parts, text
<1>3. Turns(text) = Len(parts)
  <2>1. ((4 * Len(parts)) + 3) \div 4 = Len(parts)
    BY <1>1
  <2>. QED  BY <1>2, <2>1 DEF Turns
<1>4. ASSUME NEW g \in 1..Len(parts)
      PROVE  DecodeGroup(m, 4 * g - 3) = parts[g] /\ parts[g] # Thrown
  <2>. DEFINE i == 4 * g - 3
  <2>1. i \in Nat /\ \A k \in 1..4 : (i - 1) + k = ((4 * g) - 4) + k
    BY <1>1
  <2>2. ASSUME NEW k \in 1..4 PROVE m[i - 1 + k] = EncodeGroup(parts[g], url)[k]
    <3>1. i - 1 + k \in 1..(4 * Len(parts)) /\ i - 1 + k = (4 * g) - 4 + k
      BY <1>1
    <3>. DEFINE j == i - 1 + k
    <3>2. j \in 1..Len(text)
      BY <1>2, <3>1
    <3>. HIDE DEF j
    <3>3. m[j] = text[j]
      BY <1>2, <3>2, ConcatProperties
    <3>4. text[j] = EncodeGroup(parts[g], url)[k]
      BY <1>2, <3>1 DEF j
    <3>. QED  BY <3>3, <3>4 DEF j
  <2>3. parts[g] \in Seq(Byte) /\ Len(parts[g]) \in 1..3
    BY <1>1
  <2>. HIDE DEF i, m
  <2>. QED  BY <2>1, <2>2, <2>3, DecodedGroup DEF i
<1>. HIDE DEF m
<1>5. groups = parts
  BY <1>1, <1>3, <1>4
<1>6. Decode(text, after) = IF Contains(groups, Thrown) THEN Thrown ELSE FlattenSeq(groups)
  BY DEF Decode, m
<1>. HIDE DEF groups
<1>7. ~Contains(parts, Thrown)
  BY <1>1, <1>4 DEF Contains
<1>. QED  BY <1>1, <1>5, <1>6, <1>7 DEF text

-----------------------------------------------------------------------------
(* Line breaks *)

LEMMA FlattenTypes ==
  ASSUME NEW S, NEW s \in Seq(Seq(S))
  PROVE  FlattenSeq(s) \in Seq(S)
<1>0. Len(s) \in Nat /\ \A g \in 1..Len(s) : s[g] \in Seq(S)
  OBVIOUS
<1>1. CASE Len(s) = 0
  <2>1. s = <<>> /\ FlattenSeq(s) = s
    BY <1>1 DEF FlattenSeq
  <2>2. <<>> \in Seq(S)
    OBVIOUS
  <2>. QED  BY <2>1, <2>2
<1>2. CASE Len(s) # 0
  <2>1. PICK f : Joined(s, Len(s), f) /\ FlattenSeq(s) = f[Len(s)]
    BY <1>0, <1>2, FlattenExists
  <2>2. \A i \in 1..Len(s) : f[i] = IF i = 1 THEN s[i] ELSE f[i - 1] \o s[i]
    BY <2>1 DEF Joined
  <2>. DEFINE R == {n \in Nat : n \in 1..Len(s) => f[n] \in Seq(S)}
  <2>3. 0 \in R
    OBVIOUS
  <2>4. ASSUME NEW n \in Nat, n \in R PROVE n + 1 \in R
    <3>. SUFFICES ASSUME n + 1 \in 1..Len(s) PROVE f[n + 1] \in Seq(S)
      OBVIOUS
    <3>1. s[n + 1] \in Seq(S)
      BY <1>0
    <3>2. CASE n = 0
      BY <2>2, <3>1, <3>2
    <3>3. CASE n # 0
      <4>1. n \in 1..Len(s) /\ n + 1 # 1 /\ (n + 1) - 1 = n
        BY <3>3
      <4>2. f[n + 1] = f[n] \o s[n + 1] /\ f[n] \in Seq(S)
        BY <2>2, <2>4, <4>1
      <4>. QED  BY <3>1, <4>2, ConcatProperties
    <3>. QED  BY <3>2, <3>3
  <2>5. Nat \subseteq R
    <3>. HIDE DEF R
    <3>. QED  BY <2>3, <2>4, Induction
  <2>. QED  BY <1>0, <1>2, <2>1, <2>5
<1>. QED  BY <1>1, <1>2

LEMMA FlattenOneMore ==
  ASSUME NEW S, NEW s \in Seq(Seq(S)), NEW t \in Seq(Seq(S)),
         Len(t) = Len(s) + 1, \A i \in 1..Len(s) : t[i] = s[i]
  PROVE  FlattenSeq(t) = FlattenSeq(s) \o t[Len(t)]
<1>. DEFINE L == Len(s)
<1>0. L \in Nat /\ Len(t) = L + 1 /\ L + 1 \in Nat \ {0} /\ t[L + 1] \in Seq(S)
  OBVIOUS
<1>1. PICK h : Joined(t, Len(t), h) /\ FlattenSeq(t) = h[Len(t)]
  BY <1>0, FlattenExists
<1>2. \A i \in 1..(L + 1) : h[i] = IF i = 1 THEN t[i] ELSE h[i - 1] \o t[i]
  BY <1>0, <1>1 DEF Joined
<1>3. CASE L = 0
  <2>1. s = <<>> /\ FlattenSeq(s) = s
    BY <1>3 DEF FlattenSeq
  <2>2. h[1] = t[1] /\ Len(t) = 1
    BY <1>0, <1>2, <1>3
  <2>3. <<>> \o t[1] = t[1]
    BY <1>0, <1>3
  <2>. QED  BY <1>1, <2>1, <2>2, <2>3
<1>4. CASE L # 0
  <2>1. PICK f : Joined(s, L, f) /\ FlattenSeq(s) = f[L]
    BY <1>0, <1>4, FlattenExists
  <2>2. \A i \in 1..L : f[i] = IF i = 1 THEN s[i] ELSE f[i - 1] \o s[i]
    BY <2>1 DEF Joined
  <2>. DEFINE R == {n \in Nat : n \in 1..L => h[n] = f[n]}
  <2>. HIDE DEF L
  <2>3. 0 \in R
    OBVIOUS
  <2>4. ASSUME NEW n \in Nat, n \in R PROVE n + 1 \in R
    <3>. SUFFICES ASSUME n + 1 \in 1..L PROVE h[n + 1] = f[n + 1]
      OBVIOUS
    <3>1. t[n + 1] = s[n + 1]
      BY DEF L
    <3>2. n + 1 \in 1..(L + 1)
      BY <1>0
    <3>3. CASE n = 0
      BY <1>2, <2>2, <3>1, <3>2, <3>3
    <3>4. CASE n # 0
      <4>1. n \in 1..L /\ n + 1 # 1 /\ (n + 1) - 1 = n
        BY <1>0, <3>4
      <4>2. f[n + 1] = f[n] \o s[n + 1] /\ h[n + 1] = h[n] \o t[n + 1]
        BY <1>2, <2>2, <3>2, <4>1
      <4>. QED  BY <2>4, <3>1, <4>1, <4>2
    <3>. QED  BY <3>3, <3>4
  <2>5. Nat \subseteq R
    <3>. HIDE DEF R
    <3>. QED  BY <2>3, <2>4, Induction
  <2>6. h[L] = f[L]
    BY <1>0, <1>4, <2>5
  <2>7. h[L + 1] = h[L] \o t[L + 1]
    <3>1. L + 1 \in 1..(L + 1) /\ L + 1 # 1 /\ (L + 1) - 1 = L
      BY <1>0, <1>4
    <3>. QED  BY <1>2, <3>1
  <2>. QED  BY <1>0, <1>1, <2>1, <2>6, <2>7
<1>. QED  BY <1>3, <1>4

\* One character, or nothing in the place of a line feed.
Kept(c) == IF c = NewLine THEN <<>> ELSE <<c>>

LEMMA WithoutOneMore ==
  ASSUME NEW a \in Seq(Character), NEW c \in Character
  PROVE  /\ WithoutBreaks(a) \in Seq(Character)
         /\ WithoutBreaks(Append(a, c)) = WithoutBreaks(a) \o Kept(c)
<1>. DEFINE b == Append(a, c)
            s == [i \in 1..Len(a) |-> Kept(a[i])]
            t == [i \in 1..Len(b) |-> Kept(b[i])]
<1>1. /\ Len(a) \in Nat /\ DOMAIN a = 1..Len(a) /\ \A i \in 1..Len(a) : a[i] \in Character
      /\ b \in Seq(Character) /\ Len(b) = Len(a) + 1 /\ DOMAIN b = 1..Len(b)
      /\ \A i \in 1..Len(b) : b[i] \in Character
      /\ \A i \in 1..Len(a) : b[i] = a[i]
      /\ b[Len(a) + 1] = c
  OBVIOUS
<1>. HIDE DEF b
<1>2. \A d \in Character : Kept(d) \in Seq(Character)
  BY DEF Kept
<1>3. s \in Seq(Seq(Character)) /\ Len(s) = Len(a) /\ t \in Seq(Seq(Character)) /\ Len(t) = Len(b)
  BY <1>1, <1>2
<1>4. WithoutBreaks(a) = FlattenSeq(s) /\ WithoutBreaks(b) = FlattenSeq(t)
  BY <1>1 DEF WithoutBreaks, Kept
<1>5. /\ \A i \in 1..Len(s) : t[i] = s[i]
      /\ t[Len(t)] = Kept(c)
  BY <1>1, <1>3
<1>. HIDE DEF s, t
<1>6. FlattenSeq(s) \in Seq(Character)
  BY <1>3, FlattenTypes
<1>7. Len(t) = Len(s) + 1
  BY <1>1, <1>3
<1>8. FlattenSeq(t) = FlattenSeq(s) \o t[Len(t)]
  BY <1>3, <1>5, <1>7, FlattenOneMore
<1>. QED  BY <1>4, <1>5, <1>6, <1>8 DEF b

LEMMA Regroup ==
  \A x, y, z \in Seq(Character) : (x \o y) \o z = x \o (y \o z)
<1>. SUFFICES ASSUME NEW x \in Seq(Character), NEW y \in Seq(Character),
                     NEW z \in Seq(Character)
              PROVE  (x \o y) \o z = x \o (y \o z)
  OBVIOUS
<1>. QED  BY ConcatAssociative

LEMMA WithoutLine ==
  ASSUME NEW a \in Seq(Character), NEW w \in Seq(Character),
         \A i \in 1..Len(w) : w[i] # NewLine
  PROVE  WithoutBreaks(a \o w) = WithoutBreaks(a) \o w
<1>. DEFINE u(n) == SubSeq(w, 1, n)
            R == {n \in Nat : n <= Len(w) =>
                    WithoutBreaks(a \o u(n)) = WithoutBreaks(a) \o u(n)}
<1>0. WithoutBreaks(a) \in Seq(Character)
  <2>1. 0 \in Character
    BY DEF Character
  <2>. QED  BY <2>1, WithoutOneMore
<1>1. 0 \in R
  <2>1. u(0) = <<>>
    OBVIOUS
  <2>2. a \o <<>> = a /\ WithoutBreaks(a) \o <<>> = WithoutBreaks(a)
    BY <1>0
  <2>. QED  BY <2>1, <2>2
<1>2. ASSUME NEW n \in Nat, n \in R PROVE n + 1 \in R
  <2>. SUFFICES ASSUME n + 1 <= Len(w)
                PROVE  WithoutBreaks(a \o u(n + 1)) = WithoutBreaks(a) \o u(n + 1)
    OBVIOUS
  <2>. DEFINE c == w[n + 1]
              v == u(n)
              W == WithoutBreaks(a)
  <2>1. c \in Character /\ c # NewLine
    OBVIOUS
  <2>2. v \in Seq(Character)
    OBVIOUS
  <2>3. u(n + 1) = v \o <<c>>
    <3>1. 1 \in 1..Len(w) /\ n + 1 \in 1..Len(w) /\ (n + 1) - 1 = n
      OBVIOUS
    <3>. QED  BY <3>1, SubSeqRecursiveSecond
  <2>4. WithoutBreaks(a \o v) = W \o v
    BY <1>2
  <2>. HIDE DEF u, v, c, W
  <2>5. /\ a \o v \in Seq(Character) /\ <<c>> \in Seq(Character)
        /\ Append(a \o v, c) = (a \o v) \o <<c>>
    BY <2>1, <2>2
  <2>6. (a \o v) \o <<c>> = a \o (v \o <<c>>)
    BY <2>2, <2>5, ConcatAssociative
  <2>7. WithoutBreaks(Append(a \o v, c)) = WithoutBreaks(a \o v) \o Kept(c)
    BY <2>1, <2>5, WithoutOneMore
  <2>8. Kept(c) = <<c>>
    BY <2>1 DEF Kept
  <2>9. (W \o v) \o <<c>> = W \o (v \o <<c>>)
    <3>1. W \in Seq(Character)
      BY <1>0 DEF W
    <3>. DEFINE k == <<c>>
    <3>2. k \in Seq(Character)
      BY <2>5
    <3>. HIDE DEF k
    <3>3. (W \o v) \o k = W \o (v \o k)
      BY <2>2, <3>1, <3>2, Regroup
    <3>. QED  BY <3>3 DEF k
  <2>10. WithoutBreaks(a \o u(n + 1)) = W \o u(n + 1)
    BY <2>3, <2>4, <2>5, <2>6, <2>7, <2>8, <2>9
  <2>. QED  BY <2>10 DEF W
<1>3. Nat \subseteq R
  <2>. HIDE DEF R
  <2>. QED  BY <1>1, <1>2, Induction
<1>4. Len(w) \in Nat /\ u(Len(w)) = w
  BY SubSeqFull
<1>5. WithoutBreaks(a \o u(Len(w))) = WithoutBreaks(a) \o u(Len(w))
  BY <1>3, <1>4
<1>. QED  BY <1>4, <1>5

\* insert_linebreaks(): erasing the line feeds gives the text that was broken.
LEMMA UnbreakUndoes ==
  ASSUME NEW text \in Seq(Character), \A i \in 1..Len(text) : text[i] # NewLine,
         NEW length \in Nat \ {0}
  PROVE  WithoutBreaks(BreakLines(text, length)) = text
<1>. DEFINE lines == Parts(text, length)
            e == Ends(Len(text), length)
            s == [g \in 1..Len(lines) |->
                    IF g = 1 THEN lines[g] ELSE <<NewLine>> \o lines[g]]
<1>1. /\ lines \in Seq(Seq(Character))
      /\ Len(lines) = (Len(text) + length - 1) \div length
      /\ \A g \in 1..Len(lines) : lines[g] = SubSeq(text, e[g - 1] + 1, e[g])
  BY PartsOf
<1>2. /\ Len(lines) \in Nat /\ e[0] = 0 /\ e[Len(lines)] = Len(text)
      /\ \A g \in 1..Len(lines) : /\ e[g - 1] \in Nat /\ e[g] \in Nat
                                  /\ e[g - 1] < e[g] /\ e[g] <= Len(text)
  <2>1. Len(text) \in Nat
    OBVIOUS
  <2>. DEFINE n == (Len(text) + length - 1) \div length
  <2>2. /\ n \in Nat /\ e[0] = 0 /\ e[n] = Len(text)
        /\ \A g \in 1..n : /\ e[g - 1] \in Nat /\ e[g] \in Nat
                           /\ e[g - 1] < e[g] /\ e[g] <= Len(text)
    BY <2>1, EndsOfParts
  <2>3. Len(lines) = n
    BY <1>1
  <2>. HIDE DEF n, lines, e
  <2>. QED  BY <2>2, <2>3
<1>3. BreakLines(text, length) = FlattenSeq(s)
  <2>1. DOMAIN lines = 1..Len(lines)
    BY <1>1
  <2>. QED  BY <2>1 DEF BreakLines
<1>. HIDE DEF lines, e
<1>4. \A g \in 1..Len(lines) : lines[g] \in Seq(Character)
  BY <1>1
<1>5. NewLine \in Character /\ <<NewLine>> \in Seq(Character)
  BY DEF NewLine, Character
<1>6. s \in Seq(Seq(Character)) /\ Len(s) = Len(lines)
      /\ \A g \in 1..Len(lines) : s[g] = IF g = 1 THEN lines[g] ELSE <<NewLine>> \o lines[g]
  <2>1. \A g \in 1..Len(lines) : <<NewLine>> \o lines[g] \in Seq(Character)
    BY <1>4, <1>5, ConcatProperties
  <2>. QED  BY <1>2, <1>4, <2>1
<1>. HIDE DEF s
<1>7. WithoutBreaks(<<>>) = <<>>
  <2>1. WithoutBreaks(<<>>) = FlattenSeq(<<>>)
    <3>1. [i \in DOMAIN <<>> |-> IF <<>>[i] = NewLine THEN <<>> ELSE << <<>>[i] >>] = <<>>
      OBVIOUS
    <3>. QED  BY <3>1 DEF WithoutBreaks
  <2>2. FlattenSeq(<<>>) = <<>>
    BY DEF FlattenSeq
  <2>. QED  BY <2>1, <2>2
<1>8. CASE Len(lines) = 0
  <2>1. s = <<>> /\ text = <<>>
    BY <1>2, <1>6, <1>8
  <2>2. FlattenSeq(<<>>) = <<>>
    BY DEF FlattenSeq
  <2>. QED  BY <1>3, <1>7, <2>1, <2>2
<1>9. CASE Len(lines) # 0
  <2>1. PICK f : Joined(s, Len(s), f) /\ FlattenSeq(s) = f[Len(s)]
    BY <1>2, <1>6, <1>9, FlattenExists
  <2>2. \A i \in 1..Len(s) : f[i] = IF i = 1 THEN s[i] ELSE f[i - 1] \o s[i]
    BY <2>1 DEF Joined
  <2>. DEFINE R == {n \in Nat : n \in 1..Len(lines) =>
                      /\ f[n] \in Seq(Character)
                      /\ WithoutBreaks(f[n]) = SubSeq(text, 1, e[n])}
  <2>3. 0 \in R
    OBVIOUS
  <2>4. ASSUME NEW n \in Nat, n \in R PROVE n + 1 \in R
    <3>. DEFINE g == n + 1
                line == lines[g]
    <3>. SUFFICES ASSUME g \in 1..Len(lines)
                  PROVE  /\ f[g] \in Seq(Character)
                         /\ WithoutBreaks(f[g]) = SubSeq(text, 1, e[g])
      OBVIOUS
    <3>1. g - 1 = n /\ (n # 0 => n \in 1..Len(lines) /\ g # 1)
      BY <1>2
    <3>. HIDE DEF g
    <3>2. /\ e[n] \in Nat /\ e[g] \in Nat /\ e[n] < e[g] /\ e[g] <= Len(text)
          /\ line = SubSeq(text, e[n] + 1, e[g]) /\ line \in Seq(Character)
      BY <1>1, <1>2, <1>4, <3>1
    <3>3. \A i \in 1..Len(line) : line[i] # NewLine
      <4>. DEFINE p == e[n] + 1
                  q == e[g]
      <4>1. p \in 1..Len(text) /\ q \in p..Len(text)
        BY <3>2
      <4>2. line = SubSeq(text, p, q)
        BY <3>2
      <4>. HIDE DEF p, q, line
      <4>3. Len(line) = q - p + 1 /\ \A i \in 1..(q - p + 1) : line[i] = text[p + i - 1]
        BY <4>1, <4>2, SubSeqProperties
      <4>. QED  BY <4>1, <4>3
    <3>. HIDE DEF line
    <3>4. CASE n = 0
      <4>1. f[g] = line
        <5>1. g = 1 /\ 1 \in 1..Len(lines)
          BY <1>2, <1>9, <3>4 DEF g
        <5>2. f[1] = s[1] /\ s[1] = lines[1]
          BY <1>6, <2>2, <5>1
        <5>. QED  BY <5>1, <5>2 DEF line
      <4>2. <<>> \in Seq(Character) /\ <<>> \o line = line
        BY <3>2
      <4>3. WithoutBreaks(<<>> \o line) = WithoutBreaks(<<>>) \o line
        BY <3>2, <3>3, <4>2, WithoutLine
      <4>4. e[n] + 1 = 1
        BY <1>2, <3>4
      <4>5. line = SubSeq(text, 1, e[g])
        BY <3>2, <4>4
      <4>. QED  BY <1>7, <3>2, <4>1, <4>2, <4>3, <4>5
    <3>5. CASE n # 0
      <4>. DEFINE a == f[n]
      <4>1. a \in Seq(Character) /\ WithoutBreaks(a) = SubSeq(text, 1, e[n])
        BY <2>4, <3>1, <3>5
      <4>2. f[g] = a \o (<<NewLine>> \o line)
        BY <1>6, <2>2, <3>1, <3>5 DEF line
      <4>. HIDE DEF a
      <4>3. a \o (<<NewLine>> \o line) = (a \o <<NewLine>>) \o line
        <5>. DEFINE k == <<NewLine>>
        <5>1. k \in Seq(Character)
          BY <1>5
        <5>. HIDE DEF k
        <5>2. a \o (k \o line) = (a \o k) \o line
          BY <3>2, <4>1, <5>1, Regroup
        <5>. QED  BY <5>2 DEF k
      <4>4. Append(a, NewLine) = a \o <<NewLine>> /\ Append(a, NewLine) \in Seq(Character)
        BY <1>5, <4>1
      <4>5. WithoutBreaks(Append(a, NewLine)) = WithoutBreaks(a)
        <5>1. Kept(NewLine) = <<>>
          BY DEF Kept
        <5>2. /\ WithoutBreaks(a) \in Seq(Character)
              /\ WithoutBreaks(Append(a, NewLine)) = WithoutBreaks(a) \o Kept(NewLine)
          BY <1>5, <4>1, WithoutOneMore
        <5>3. \A x \in Seq(Character) : x \o <<>> = x
          OBVIOUS
        <5>. QED  BY <5>1, <5>2, <5>3
      <4>6. f[g] = Append(a, NewLine) \o line
        BY <4>2, <4>3, <4>4
      <4>7. WithoutBreaks(f[g]) = SubSeq(text, 1, e[n]) \o SubSeq(text, e[n] + 1, e[g])
        <5>1. WithoutBreaks(Append(a, NewLine) \o line) = WithoutBreaks(Append(a, NewLine)) \o line
          BY <3>2, <3>3, <4>4, WithoutLine
        <5>. QED  BY <3>2, <4>1, <4>5, <4>6, <5>1
      <4>8. SubSeq(text, 1, e[n]) \o SubSeq(text, e[n] + 1, e[g]) = SubSeq(text, 1, e[g])
        <5>1. 1 \in 1..(Len(text) + 1) /\ e[n] \in (1 - 1)..Len(text)
              /\ e[g] \in e[n]..Len(text)
          BY <3>2
        <5>. QED  BY <5>1, ConcatAdjacentSubSeq
      <4>9. f[g] \in Seq(Character)
        BY <3>2, <4>4, <4>6, ConcatProperties
      <4>. QED  BY <4>7, <4>8, <4>9
    <3>. QED  BY <3>4, <3>5
  <2>5. Nat \subseteq R
    <3>. HIDE DEF R
    <3>. QED  BY <2>3, <2>4, Induction
  <2>6. WithoutBreaks(f[Len(s)]) = SubSeq(text, 1, Len(text))
    BY <1>2, <1>6, <1>9, <2>5
  <2>. QED  BY <1>3, <2>1, <2>6, SubSeqFull
<1>. QED  BY <1>8, <1>9

LEMMA NoBreaksEncoded ==
  ASSUME NEW bytes \in Seq(Byte), NEW url \in BOOLEAN
  PROVE  /\ Encode(bytes, url) \in Seq(Character)
         /\ \A i \in 1..Len(Encode(bytes, url)) : Encode(bytes, url)[i] # NewLine
<1>. DEFINE parts == Parts(bytes, 3)
            text == Encode(bytes, url)
<1>1. \A g \in 1..Len(parts) : parts[g] \in Seq(Byte) /\ Len(parts[g]) \in 1..3
  BY PartsOfThree
<1>2. parts \in Seq(Seq(Byte))
  BY PartsOfThree
<1>3. /\ text \in Seq(Character) /\ Len(text) = 4 * Len(parts)
      /\ \A g \in 1..Len(parts), k \in 1..4 :
           text[(4 * g) - 4 + k] = EncodeGroup(parts[g], url)[k]
  BY EncodedText
<1>. HIDE DEF parts, text
<1>4. ASSUME NEW i \in 1..Len(text) PROVE text[i] # NewLine
  <2>1. PICK g \in 1..Len(parts), k \in 1..4 : i = (4 * g) - 4 + k
    <3>1. Len(parts) \in Nat
      BY <1>2
    <3>. DEFINE g == (i + 3) \div 4
                k == i - ((4 * g) - 4)
    <3>2. i \in 1..(4 * Len(parts))
      BY <1>3
    <3>3. g \in 1..Len(parts) /\ k \in 1..4 /\ i = (4 * g) - 4 + k
      BY <3>1, <3>2
    <3>. QED  BY <3>3
  <2>2. EncodeGroup(parts[g], url)[k] # NewLine
    BY <1>1, EncodedGroup
  <2>. QED  BY <1>3, <2>1, <2>2
<1>. QED  BY <1>3, <1>4 DEF text

-----------------------------------------------------------------------------
(* The last call *)

\* The text of a call is one that Next chooses, and what follows it are three
\* characters.
LastCall ==
  /\ last.op = "encrypt" => last.text \in Texts
  /\ last.op = "decrypt" => /\ last.text \in Seq(Character)
                            /\ last.after \in Seq(Character) /\ Len(last.after) = 3

LEMMA LastCallInit == Init => LastCall
<1>. SUFFICES ASSUME Init PROVE LastCall
  OBVIOUS
<1>1. last.op = "none"
  BY DEF Init
<1>. QED  BY <1>1 DEF LastCall

LEMMA EncryptedCharacters ==
  ASSUME NEW text \in Texts
  PROVE  Encode(Encipher(text), FALSE) \in Seq(Character)
<1>1. Encipher(text) \in Seq(Byte)
  BY EncrypterAssumption, DecipherUndoes DEF EncrypterAssumption
<1>. QED  BY <1>1, NoBreaksEncoded

LEMMA LastCallStep == LastCall /\ [Next]_vars => LastCall'
<1>. SUFFICES ASSUME LastCall, [Next]_vars PROVE LastCall'
  OBVIOUS
<1>1. CASE UNCHANGED vars
  BY <1>1 DEF vars, LastCall
<1>2. ASSUME NEW text \in Texts, Encrypt(text) PROVE LastCall'
  <2>1. last'.op = "encrypt" /\ last'.text = text
    BY <1>2 DEF Encrypt
  <2>. QED  BY <2>1 DEF LastCall
<1>3. ASSUME NEW text \in Seq(Character), NEW after \in Seq(Character), Len(after) = 3,
             Decrypt(text, after)
      PROVE  LastCall'
  <2>1. last'.op = "decrypt" /\ last'.text = text /\ last'.after = after
    BY <1>3 DEF Decrypt
  <2>. QED  BY <1>3, <2>1 DEF LastCall
<1>4. Terminated \in Seq(Character) /\ Len(Terminated) = 3
  BY DEF Terminated, Terminator, Character
<1>5. CASE \E text \in Texts : Encrypt(text) \/ Decrypt(Encode(Encipher(text), FALSE), Terminated)
  BY <1>2, <1>3, <1>4, <1>5, EncryptedCharacters
<1>6. CASE \E text \in Corrupt, after \in Memory : Decrypt(text, after)
  <2>1. PICK text \in Corrupt, after \in Memory : Decrypt(text, after)
    BY <1>6
  <2>2. text \in Seq(Character) /\ after \in Seq(Character) /\ Len(after) = 3
    BY EncrypterAssumption DEF EncrypterAssumption
  <2>. QED  BY <1>3, <2>1, <2>2
<1>. QED  BY <1>1, <1>5, <1>6 DEF Next

\* base64_encode() and base64_decode() of src/src/lib/util/base64.cpp: decoding undoes
\* encoding, in both alphabets and with lines broken anywhere, for the text and for the
\* ciphertext of every call.
THEOREM DecodingUndoesEncoding == Spec => []DecodeUndoesEncode
<1>1. LastCall => DecodeUndoesEncode
  <2>. SUFFICES ASSUME LastCall, last.op = "encrypt",
                       NEW bytes \in {last.text, Encipher(last.text)}
                PROVE  /\ \A url \in BOOLEAN : Decode(Encode(bytes, url), Terminated) = bytes
                       /\ \A length \in 1..5 :
                            DecodeLines(BreakLines(Encode(bytes, FALSE), length), Terminated)
                              = bytes
    BY DEF DecodeUndoesEncode
  <2>1. last.text \in Seq(Byte)
    BY EncrypterAssumption DEF LastCall, EncrypterAssumption
  <2>2. bytes \in Seq(Byte)
    BY <2>1, DecipherUndoes
  <2>3. Terminated \in Seq(Character)
    BY DEF Terminated, Terminator, Character
  <2>4. \A url \in BOOLEAN : Decode(Encode(bytes, url), Terminated) = bytes
    BY <2>2, <2>3, DecodeUndoes
  <2>5. ASSUME NEW length \in 1..5
        PROVE  DecodeLines(BreakLines(Encode(bytes, FALSE), length), Terminated) = bytes
    <3>. DEFINE text == Encode(bytes, FALSE)
    <3>1. text \in Seq(Character) /\ \A i \in 1..Len(text) : text[i] # NewLine
      BY <2>2, NoBreaksEncoded
    <3>2. length \in Nat \ {0}
      OBVIOUS
    <3>3. Decode(text, Terminated) = bytes
      BY <2>4
    <3>. HIDE DEF text
    <3>4. WithoutBreaks(BreakLines(text, length)) = text
      BY <3>1, <3>2, UnbreakUndoes
    <3>. QED  BY <3>3, <3>4 DEF DecodeLines, text
  <2>. QED  BY <2>4, <2>5
<1>. QED  BY <1>1, LastCallInit, LastCallStep, PTL DEF Spec

\* A decryption starts from an empty context with what Next hands to decrypt().
DecryptsInv == ContextsInv /\ LastCall /\ DecryptUndoesEncrypt

LEMMA DecryptsStep == DecryptsInv /\ [Next]_vars => DecryptUndoesEncrypt'
<1>. SUFFICES ASSUME DecryptsInv, [Next]_vars PROVE DecryptUndoesEncrypt'
  OBVIOUS
<1>0. Refreshed(decryptingContext, refreshDecryptContext) = <<>>
  BY DEF DecryptsInv, ContextsInv, ContextsFresh, Refreshed
<1>1. CASE UNCHANGED vars
  BY <1>1 DEF vars, DecryptsInv, DecryptUndoesEncrypt
<1>2. ASSUME NEW text \in Texts, Encrypt(text) PROVE DecryptUndoesEncrypt'
  <2>1. last'.op = "encrypt"
    BY <1>2 DEF Encrypt
  <2>. QED  BY <2>1 DEF DecryptUndoesEncrypt
<1>3. ASSUME NEW code \in Seq(Character), NEW after \in Seq(Character), Decrypt(code, after)
      PROVE  DecryptUndoesEncrypt'
  <2>. SUFFICES ASSUME NEW text \in Texts,
                       last'.text = Encode(Encipher(text), FALSE)
                PROVE  last'.result \in {text, NoText}
    BY DEF DecryptUndoesEncrypt
  <2>1. last'.text = code
    BY <1>3 DEF Decrypt
  <2>. DEFINE cipher == Encipher(text)
  <2>2. /\ cipher \in Seq(Byte) /\ cipher # <<>> /\ Decipherable(cipher)
        /\ Decipher(cipher) = text
    BY EncrypterAssumption, DecipherUndoes DEF EncrypterAssumption
  <2>3. code = Encode(cipher, FALSE)
    BY <2>1
  <2>. HIDE DEF cipher
  <2>4. Decode(code, after) = cipher
    BY <2>2, <2>3, DecodeUndoes
  <2>5. cipher # Thrown
    <3>1. -1 \notin Byte
      BY DEF Byte
    <3>. QED  BY <2>2, <3>1 DEF Thrown
  <2>6. code # NoText
    <3>. DEFINE parts == Parts(cipher, 3)
    <3>1. parts \in Seq(Seq(Byte)) /\ FlattenSeq(parts) = cipher
      BY <2>2, PartsOfThree
    <3>2. Len(code) = 4 * Len(parts)
      BY <2>2, <2>3, EncodedText
    <3>. HIDE DEF parts
    <3>3. Len(parts) # 0
      <4>. SUFFICES ASSUME Len(parts) = 0 PROVE FALSE
        OBVIOUS
      <4>1. parts = <<>>
        BY <3>1
      <4>2. FlattenSeq(<<>>) = <<>>
        BY DEF FlattenSeq
      <4>. QED  BY <2>2, <3>1, <4>1, <4>2
    <3>4. Len(parts) \in Nat
      BY <3>1
    <3>5. Len(code) # 0
      BY <3>2, <3>3, <3>4
    <3>. QED  BY <3>5 DEF NoText
  <2>7. <<>> \o cipher = cipher
    BY <2>2
  <2>8. \E result \in DecryptResults(cipher) : last'.result = result
    <3>. DEFINE source == Decode(code, after)
                fed == Refreshed(decryptingContext, refreshDecryptContext) \o source
                ends == code = NoText \/ source = Thrown
    <3>1. \E result \in IF ends THEN {source} ELSE DecryptResults(fed) :
            last' = [op |-> "decrypt", text |-> code, after |-> after, result |-> result]
      BY <1>3 DEF Decrypt
    <3>2. ~ends /\ fed = cipher
      BY <1>0, <2>4, <2>5, <2>6, <2>7
    <3>. HIDE DEF ends, fed, source
    <3>. QED  BY <3>1, <3>2
  <2>. QED  BY <2>2, <2>8 DEF DecryptResults
<1>4. CASE \E text \in Texts : Encrypt(text) \/ Decrypt(Encode(Encipher(text), FALSE), Terminated)
  <2>1. Terminated \in Seq(Character)
    BY DEF Terminated, Terminator, Character
  <2>. QED  BY <1>2, <1>3, <1>4, <2>1, EncryptedCharacters
<1>5. CASE \E text \in Corrupt, after \in Memory : Decrypt(text, after)
  <2>1. PICK text \in Corrupt, after \in Memory : Decrypt(text, after)
    BY <1>5
  <2>2. text \in Seq(Character) /\ after \in Seq(Character)
    BY EncrypterAssumption DEF EncrypterAssumption
  <2>. QED  BY <1>3, <2>1, <2>2
<1>. QED  BY <1>1, <1>4, <1>5 DEF Next

\* decrypt() of src/src/lib/util/encrypter.cpp gives back what encrypt() was given, or
\* nothing, for every text and key and after any calls, those that threw or failed
\* with a context half fed among them.
THEOREM DecryptingUndoesEncrypting == Spec => []DecryptUndoesEncrypt
<1>1. Init => DecryptsInv
  <2>. SUFFICES ASSUME Init PROVE DecryptsInv
    OBVIOUS
  <2>1. last.op = "none"
    BY DEF Init
  <2>. QED  BY <2>1, LastCallInit DEF Init, DecryptsInv, ContextsInv, ContextsFresh,
                                      EncryptsOnlyItsText, DecryptUndoesEncrypt
<1>2. DecryptsInv /\ [Next]_vars => DecryptsInv'
  BY ContextsStep, LastCallStep, DecryptsStep DEF DecryptsInv
<1>3. DecryptsInv => DecryptUndoesEncrypt
  BY DEF DecryptsInv
<1>. QED  BY <1>1, <1>2, <1>3, PTL DEF Spec

\* decode() of src/src/lib/util/base64.cpp: in a text that a terminator follows, no turn
\* looks behind the terminator.
THEOREM DecoderStops == Spec => []StopsAtTerminator
<1>1. LastCall => StopsAtTerminator
  <2>. SUFFICES ASSUME LastCall, last.op = "decrypt", last.after = Terminated,
                       NEW g \in 1..Turns(last.text)
                PROVE  4 * g - 4 + LooksAt(last.text \o last.after, 4 * g - 3)
                         <= Len(last.text) + 1
    BY DEF StopsAtTerminator
  <2>. DEFINE text == last.text
              m == text \o last.after
              i == 4 * g - 3
              L == Len(text)
  <2>1. text \in Seq(Character) /\ last.after \in Seq(Character) /\ L \in Nat
    BY DEF LastCall
  <2>2. i \in 1..L
    <3>1. g \in 1..((L + 3) \div 4)
      BY DEF Turns
    <3>. HIDE DEF L
    <3>. QED  BY <2>1, <3>1
  <2>3. ASSUME NEW k \in 1..3 PROVE m[L + k] = Terminator
    <3>1. Len(last.after) = 3 /\ last.after[k] = Terminator
      BY DEF Terminated
    <3>2. \A j \in 1..Len(last.after) : m[L + j] = last.after[j]
      <4>. HIDE DEF L
      <4>1. m[Len(text) + 1] = m[Len(text) + 1]
        OBVIOUS
      <4>. DEFINE a == text
                  b == last.after
      <4>2. a \in Seq(Character) /\ b \in Seq(Character)
        BY <2>1
      <4>. HIDE DEF a, b
      <4>3. \A j \in 1..Len(b) : (a \o b)[Len(a) + j] = b[j]
        BY <4>2, ConcatParts
      <4>. QED  BY <4>3 DEF a, b, L
    <3>. QED  BY <3>1, <3>2
  <2>. HIDE DEF m, L, i
  <2>4. ~Known(Terminator)
    BY DEF Known, Terminator, Pad
  <2>5. \/ LooksAt(m, i) = 2
        \/ i + 2 <= L + 1 /\ LooksAt(m, i) = 3
        \/ i + 3 <= L + 1 /\ LooksAt(m, i) = 4
    <3>1. CASE ~Known(m[i + 1]) \/ ~Known(m[i])
      BY <3>1 DEF LooksAt
    <3>2. CASE Known(m[i + 1]) /\ Known(m[i]) /\ ~Known(m[i + 2])
      <4>1. i # L
        <5>. SUFFICES ASSUME i = L PROVE FALSE
          OBVIOUS
        <5>1. m[i + 1] = Terminator
          BY <2>3
        <5>. QED  BY <2>4, <3>2, <5>1
      <4>2. i + 2 <= L + 1
        BY <2>1, <2>2, <4>1
      <4>. QED  BY <3>2, <4>2 DEF LooksAt
    <3>3. CASE Known(m[i + 1]) /\ Known(m[i]) /\ Known(m[i + 2])
      <4>1. i # L
        <5>. SUFFICES ASSUME i = L PROVE FALSE
          OBVIOUS
        <5>1. m[i + 1] = Terminator
          BY <2>3
        <5>. QED  BY <2>4, <3>3, <5>1
      <4>2. i + 1 # L
        <5>. SUFFICES ASSUME i + 1 = L PROVE FALSE
          OBVIOUS
        <5>1. m[i + 2] = Terminator
          <6>1. m[L + 1] = Terminator
            BY <2>3
          <6>2. i + 2 = L + 1
            BY <2>1, <2>2
          <6>. QED  BY <6>1, <6>2
        <5>. QED  BY <2>4, <3>3, <5>1
      <4>3. i + 3 <= L + 1
        BY <2>1, <2>2, <4>1, <4>2
      <4>. QED  BY <3>3, <4>3 DEF LooksAt
    <3>. QED  BY <3>1, <3>2, <3>3
  <2>6. i - 1 + LooksAt(m, i) <= L + 1 /\ i - 1 = 4 * g - 4
    <3>1. i \in Nat /\ L \in Nat /\ i <= L
      BY <2>1, <2>2
    <3>2. i - 1 + LooksAt(m, i) <= L + 1
      BY <2>5, <3>1
    <3>3. i - 1 = 4 * g - 4
      BY DEF i
    <3>. QED  BY <3>2, <3>3
  <2>. QED  BY <2>6 DEF m, L, i
<1>. QED  BY <1>1, LastCallInit, LastCallStep, PTL DEF Spec

=============================================================================
