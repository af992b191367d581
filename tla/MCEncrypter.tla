----------------------------- MODULE MCEncrypter -----------------------------
(***************************************************************************)
(* An instance of Encrypter for TLC: texts of up to four bytes, and texts  *)
(* for decrypt() that have wrong lengths, wrong characters, paddings in    *)
(* the middle, or are valid base64 and no output of the cipher.            *)
(***************************************************************************)
EXTENDS Encrypter

Strings(set, lengths) == UNION {[1..n -> set] : n \in lengths}

MCTexts == Strings({0, 255}, 0..3) \cup {<<1, 90, 129>>, <<65, 66, 67, 68>>}

MCCorrupt ==
  Strings({63, Pad, Other}, {0, 1, 3}) \cup
  { <<0, 1>>, <<2, 63, 4, 5, 6, 7>>, <<7, 8, Pad, Dot, 9>>, <<Minus, 1, Underscore, 2>>,
    <<1, 2, Pad, Pad, 3, 4, 5, Dot>>, <<1, 2, 3, Other>>, <<1, 2, NewLine, 3>> }

MCMemory == {<<Terminator, Terminator, Terminator>>, <<5, 6, Pad>>}

=============================================================================
