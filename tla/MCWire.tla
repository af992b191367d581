------------------------------- MODULE MCWire -------------------------------
(***************************************************************************)
(* Instances of Wire for TLC: the requests the runs ask.                   *)
(***************************************************************************)
EXTENDS Wire

Req(op, size, answer) ==
  [op |-> op, size |-> size, answer |-> answer, fails |-> FALSE]

\* An encryption that fits respond()'s array and one that does not, with an
\* answer longer than a chunk; a decryption, a decryption that fails, and one
\* of a text that is not base64.
Small == Req("e", 5, 8)
Large == Req("e", 20, 36)
Back == Req("d", 8, 5)
Wrong == Req("d", 8, 0)
Corrupt == [Wrong EXCEPT !.fails = TRUE]

\* Texts of two and of no characters.
Tiny == Req("e", 2, 8)
Empty == Req("e", 0, 0)

\* One that with a stale header in front is one byte too long for the array.
Mid == Req("e", 7, 12)

Sound == {Tiny, Empty, Small, Mid, Large, Back, Wrong, Corrupt}
WithTiny == {Large, Tiny, Empty}
WithWrong == {Mid, Large, Wrong}
WithCorrupt == {Back, Corrupt}
OnlyGood == {Small, Large}

\* The runs meet the hypothesis of the theorems.
ASSUME RequestsFit == FirstWhole => Fits
=============================================================================
