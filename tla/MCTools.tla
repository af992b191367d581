------------------------------- MODULE MCTools -------------------------------
(***************************************************************************)
(* An instance of Tools for TLC: every short line of four tokens, and the  *)
(* lines with a command, the results of encryptions, and space anywhere.   *)
(***************************************************************************)
EXTENDS Tools

A == Word("a")
Own == Sealed("default", <<A, Blank, A>>)
Foreign == Sealed("other", <<A>>)

MCLines ==
  UNION {[1..n -> {Word("enc"), A, Blank, Tab}] : n \in 1..3} \cup
  {before \o <<Word(word)>> \o between \o text :
     before \in {<<>>, <<Tab>>}, word \in {"enc", "dec"},
     between \in {<<Blank, Blank>>, <<Blank, Tab>>},
     text \in {<<A, Blank, A, Blank>>, <<Own>>, <<Foreign, Tab>>}} \cup
  {<<Word("dec")>>, <<Word("help")>>, <<Word("exit"), Blank>>, <<Word("quit")>>}

MCInputs == {<<A>>, <<A, Blank, A>>, <<Own>>, <<Foreign>>}

=============================================================================
