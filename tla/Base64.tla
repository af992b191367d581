------------------------------- MODULE Base64 -------------------------------
(***************************************************************************)
(* base64_encode and base64_decode of src/src/lib/util/base64.cpp.         *)
(*                                                                         *)
(* Bytes are 0..255.  A character is a number too: 0..63 are the digits of *)
(* the standard alphabet in their order, the others are named below.  What *)
(* follows a text in memory is a parameter, as the decoder may look at it. *)
(***************************************************************************)
EXTENDS Integers, Sequences, SequencesExt

Byte == 0..255

\* '-' and '_' of the URL alphabet, '=' and '.', a line feed, the terminator,
\* and any character that base64 does not know.
Minus == 64
Underscore == 65
Pad == 66
Dot == 67
NewLine == 68
Terminator == 69
Other == 70
Character == 0..70

\* The text that a decoder throws instead of returning bytes.
Thrown == <<-1>>

\* base64_chars[url][d]
Digit(d, url) == IF url /\ d >= 62 THEN d + 2 ELSE d

\* pos_of_char(): both alphabets are taken, everything else throws.
KnownMutant(c) == c # Other
Known(c) == c < Pad
PositionMutant(c) == IF c < 64 THEN c ELSE 126 - c
Position(c) == IF c < 64 THEN c ELSE c - 2

-----------------------------------------------------------------------------
(* Encoding *)

\* One turn of the loop: one to three bytes are four characters.
LastDigitMutant(b) == b % 32
LastDigit(b) == b % 64

EncodeGroup(b, url) ==
  LET pad == IF url THEN Dot ELSE Pad
      first == b[1] \div 4
      rest1 == (b[1] % 4) * 16
      rest2 == (b[2] % 16) * 4
  IN CASE Len(b) = 1 -> <<Digit(first, url), Digit(rest1, url), pad, pad>>
       [] Len(b) = 2 -> <<Digit(first, url), Digit(rest1 + b[2] \div 16, url),
                          Digit(rest2, url), pad>>
       [] OTHER -> <<Digit(first, url), Digit(rest1 + b[2] \div 16, url),
                     Digit(rest2 + b[3] \div 64, url), Digit(LastDigit(b[3]), url)>>

\* The parts of a sequence, n elements each, the last one perhaps shorter.
Parts(s, n) ==
  [g \in 1..((Len(s) + n - 1) \div n) |->
     SubSeq(s, (g - 1) * n + 1, IF g * n < Len(s) THEN g * n ELSE Len(s))]

Encode(bytes, url) ==
  LET parts == Parts(bytes, 3) IN
  FlattenSeq([g \in DOMAIN parts |-> EncodeGroup(parts[g], url)])

\* insert_linebreaks(): a line feed between any two lines, none at the end.
BreakLines(text, length) ==
  LET lines == Parts(text, length) IN
  FlattenSeq([g \in DOMAIN lines |->
                IF g = 1 THEN lines[g] ELSE <<NewLine>> \o lines[g]])

-----------------------------------------------------------------------------
(* Decoding *)

IsPad(c) == c \in {Pad, Dot}

\* How many characters a turn of the loop looks at, with the second first.
LooksAt(m, i) ==
  IF ~Known(m[i + 1]) \/ ~Known(m[i]) THEN 2 ELSE IF ~Known(m[i + 2]) THEN 3 ELSE 4

\* A turn of the loop, which does not ask whether the text has four more
\* characters: it reads on in the memory m.
DecodeGroup(m, i) ==
  LET p(k) == Position(m[i + k])
      byte1 == p(0) * 4 + p(1) \div 16
      byte2 == (p(1) % 16) * 16 + p(2) \div 4
      byte3 == (p(2) % 4) * 64 + p(3)
  IN IF ~Known(m[i + 1]) \/ ~Known(m[i]) THEN Thrown
     ELSE IF IsPad(m[i + 2]) THEN <<byte1>>
     ELSE IF ~Known(m[i + 2]) THEN Thrown
     ELSE IF IsPad(m[i + 3]) THEN <<byte1, byte2>>
     ELSE IF ~Known(m[i + 3]) THEN Thrown
     ELSE <<byte1, byte2, byte3>>

Turns(text) == (Len(text) + 3) \div 4

Decode(text, after) ==
  LET m == text \o after
      groups == [g \in 1..Turns(text) |-> DecodeGroup(m, 4 * g - 3)]
  IN IF Contains(groups, Thrown) THEN Thrown ELSE FlattenSeq(groups)

\* decode() with remove_linebreaks erases every line feed from a copy of its own.
WithoutBreaks(text) ==
  FlattenSeq([i \in DOMAIN text |-> IF text[i] = NewLine THEN <<>> ELSE <<text[i]>>])

DecodeLines(text, after) == Decode(WithoutBreaks(text), after)

=============================================================================
