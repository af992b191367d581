------------------------------ MODULE MCLogLine ------------------------------
(***************************************************************************)
(* An instance of LogLine for TLC.  The sizes are scaled down together so  *)
(* that two or three arguments leave the stack, and a long one is larger   *)
(* than twice the buffer it does not fit into.                             *)
(***************************************************************************)
EXTENDS LogLine

MCWidth ==
  [type \in Fixed |->
     CASE type = "char" -> 1
       [] type \in {"uint32", "int32"} -> 2
       [] OTHER -> 3]

X == 9

MCLiterals == {<<X, X, 0>>}

\* Values that look like type ids and terminators are among them.
MCArgs ==
  { [kind |-> "char", text |-> <<X>>],
    [kind |-> "uint32", text |-> <<7, 0>>],
    [kind |-> "uint64", text |-> <<0, 0, X>>],
    [kind |-> "int32", text |-> <<X, X>>],
    [kind |-> "int64", text |-> <<X, 7, 7>>],
    [kind |-> "double", text |-> <<1, 2, 3>>],
    [kind |-> "literal", text |-> <<X, X, 0>>],
    [kind |-> "null", text |-> <<>>],
    [kind |-> "cstring", text |-> <<>>],
    [kind |-> "cstring", text |-> <<X, 3>>],
    [kind |-> "string", text |-> <<7>>],
    [kind |-> "string", text |-> <<X, 0, 7, X>>],
    [kind |-> "view", text |-> <<>>],
    [kind |-> "view", text |-> <<0, 4>>],
    [kind |-> "view", text |-> [i \in 1..25 |-> i]] }

=============================================================================
