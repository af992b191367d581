------------------------------- MODULE LogLine -------------------------------
(***************************************************************************)
(* One log line: NanoLogLine of src/src/log/NanoLog.hpp and NanoLog.cpp.   *)
(* The arguments of operator<< are encoded behind each other into a buffer *)
(* that starts on the stack and moves to the heap when it is too small;    *)
(* the logging thread decodes them again when it prints the line.          *)
(*                                                                         *)
(* A byte is a number.  NUL ends a text, the numbers up to 7 are also type *)
(* ids.  A value of a type of fixed width is the bytes it is stored in; of *)
(* a string literal they are its address.                                  *)
(***************************************************************************)
EXTENDS Integers, Sequences, SequencesExt

CONSTANTS
  HeaderSize,    \* the bytes the constructor encodes: time, thread, place, level
  StackSize,     \* sizeof(m_stack_buffer)
  HeapSize,      \* the least size of m_heap_buffer
  Width,         \* the size of every type of fixed width
  Literals,      \* the addresses of the program's string literals
  Args,          \* the arguments: [kind, text]
  MaxArgs        \* bound: the arguments of one line

VARIABLES
  args,          \* history: what was logged
  bytes,         \* the buffer behind the header
  bufferSize,    \* m_buffer_size
  heap           \* the bytes allocated as m_heap_buffer, 0 for none

vars == <<args, bytes, bufferSize, heap>>

NUL == 0

\* SupportedTypes: the position of a type is its id.
SupportedTypes ==
  <<"char", "uint32", "uint64", "int32", "int64", "double", "literal", "char*">>
Fixed == {"char", "uint32", "uint64", "int32", "int64", "double", "literal"}
TypeId(type) == (CHOOSE i \in DOMAIN SupportedTypes : SupportedTypes[i] = type) - 1
TextId == TypeId("char*")

ASSUME LineAssumption ==
  /\ HeaderSize \in Nat /\ StackSize \in Nat /\ HeapSize \in Nat
  /\ HeaderSize <= StackSize
  /\ Width \in [Fixed -> Nat \ {0}]
  /\ MaxArgs \in Nat
  /\ \A a \in Args :
       /\ a.kind \in Fixed \cup {"cstring", "string", "view", "null"}
       /\ a.text \in Seq(Nat)
       /\ a.kind \in Fixed => Len(a.text) = Width[a.kind]
       /\ a.kind = "literal" => a.text \in Literals
       /\ a.kind = "cstring" => ~Contains(a.text, NUL)

Used == HeaderSize + Len(bytes)

Init ==
  /\ args = <<>>
  /\ bytes = <<>>
  /\ bufferSize = StackSize
  /\ heap = 0

-----------------------------------------------------------------------------
(* operator<< and the encode functions *)

\* Null pointers and empty strings are left out, an empty view is not.
Skipped(a) == a.kind = "null" \/ (a.kind \in {"cstring", "string"} /\ a.text = <<>>)

\* A text is copied whole, whatever it contains, and gets a terminator.
EncodeText(text) == <<TextId>> \o text \o <<NUL>>

Encoded(a) ==
  IF Skipped(a) THEN <<>>
  ELSE IF a.kind \in Fixed THEN <<TypeId(a.kind)>> \o a.text
  ELSE EncodeText(a.text)

\* The room that is asked for before it is written.
RoomMutant(a) ==
  IF Skipped(a) THEN 0
  ELSE IF a.kind \in Fixed THEN Width[a.kind] + 1
  ELSE 1 + Len(a.text)
Room(a) ==
  IF Skipped(a) THEN 0
  ELSE IF a.kind \in Fixed THEN Width[a.kind] + 1
  ELSE 1 + Len(a.text) + 1

Larger(m, n) == IF m > n THEN m ELSE n

\* resize_buffer_if_needed(): how large the buffer is then.
Grown(required) ==
  IF required <= bufferSize THEN bufferSize
  ELSE IF heap = 0 THEN Larger(HeapSize, required)
  ELSE Larger(2 * bufferSize, required)

\* A new buffer starts with what has been used of the old one.
CopiedMutant(size) ==
  IF size = bufferSize THEN bytes ELSE [i \in DOMAIN bytes |-> NUL]
Copied(size) == bytes

Log(a) ==
  LET size == Grown(Used + Room(a)) IN
  /\ Len(args) < MaxArgs
  /\ args' = Append(args, a)
  /\ bufferSize' = size
  /\ heap' = IF size = bufferSize THEN heap ELSE size
  /\ bytes' = Copied(size) \o Encoded(a)

Next == \E a \in Args : Log(a)

Spec == Init /\ [][Next]_vars

-----------------------------------------------------------------------------
(* stringify() and decode() *)

\* What is printed: characters, and the values of the types of fixed width.
Value(type, stored) == <<[as |-> type, bytes |-> stored]>>
Chars(text) == [i \in DOMAIN text |-> [as |-> "char", bytes |-> <<text[i]>>]]

\* What comes of reading behind the bytes used, or at an address that is not that of
\* a literal: anything, the end of the process included.  Nothing is said of what
\* the recursion does after that, which ends at the very end of the bytes only.
Undefined == Value("undefined", <<>>)

\* decode() of a literal follows its address.
Readable(type, stored) == type = "literal" => stored \in Literals

\* The end of the text that starts at i, 0 if there is none in the buffer.
Terminator(b, i) == SelectInSubSeq(b, i, Len(b), LAMBDA c : c = NUL)

\* From a type id to the end; a byte that is no type id ends the line.
Printed(b) ==
  LET from[i \in 1..(Len(b) + 1)] ==
        IF i = Len(b) + 1 \/ b[i] > TextId THEN <<>>
        ELSE IF b[i] = TextId THEN
          LET e == Terminator(b, i + 1) IN
          IF e = 0 THEN Chars(SubSeq(b, i + 1, Len(b))) \o Undefined
                   ELSE Chars(SubSeq(b, i + 1, e - 1)) \o from[e + 1]
        ELSE
          LET type == SupportedTypes[b[i] + 1]
              e == i + Width[type]
          IN IF e <= Len(b) /\ Readable(type, SubSeq(b, i + 1, e))
               THEN Value(type, SubSeq(b, i + 1, e)) \o from[e + 1]
               ELSE Undefined
  IN from[1]

-----------------------------------------------------------------------------
(* Properties *)

TypeOK ==
  /\ args \in Seq(Args)
  /\ bytes \in Seq(Nat)
  /\ bufferSize \in Nat
  /\ heap \in Nat

\* No operator<< writes behind the end of the buffer it writes to.
InBuffer == Used <= IF heap = 0 THEN StackSize ELSE heap

Shown(a) ==
  IF a.kind = "null" THEN <<>>
  ELSE IF a.kind \in Fixed THEN Value(a.kind, a.text)
  ELSE Chars(a.text)

ShownAll(s) == FlattenSeq([i \in DOMAIN s |-> Shown(s[i])])

HasNul(a) == a.kind \in {"string", "view"} /\ Contains(a.text, NUL)

\* Whatever the buffer has been through, a line is printed as it was logged if
\* none of its texts contains a NUL: no value runs past the end, and no bytes but
\* those of a literal are taken for an address.
PrintedAsLogged ==
  (\A i \in DOMAIN args : ~HasNul(args[i])) => Printed(bytes) = ShownAll(args)

=============================================================================
