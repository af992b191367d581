-------------------------------- MODULE Tools --------------------------------
(***************************************************************************)
(* The two programs a user runs: the shell of src/src/shell/main.cpp and   *)
(* the command line tool of src/src/cli/main.cpp, each with the Encrypter  *)
(* as a library or with the service behind a connection.                   *)
(*                                                                         *)
(* A line is a sequence of tokens: words, blanks and tabs.  A word is a    *)
(* tuple; a result of an encryption is one too, and names its key and its  *)
(* text.  A call is taken by its outcomes, as Encrypter and Wire show      *)
(* them; the option parser is external.                                    *)
(***************************************************************************)
EXTENDS Integers, Sequences

CONSTANTS
  Lines,         \* what readline() may return
  Inputs,        \* the input of the command line tool
  Keys,          \* what ENCRYPTION_KEY may be set to, with DefaultKey
  DefaultKey,    \* the key of the service, and of the tools if none is set
  Npos,          \* std::string::npos, the greatest std::size_t
  MaxLines       \* bound: the lines of a session that are not empty

ASSUME ToolsAssumption ==
  /\ DefaultKey \in Keys
  /\ Npos \in Nat
  /\ \A line \in Lines : /\ line \in Seq({line[i] : i \in DOMAIN line})
                         /\ Len(line) + 1 < Npos
  /\ MaxLines \in Nat

VARIABLES
  tool,          \* "none" before the options are parsed, then "shell" or "cli"
  server,        \* whether a service is used
  key,           \* the key of whoever encrypts
  inStep,        \* no call has come back empty on this connection
  status,        \* Running, or how the process has ended
  previous,      \* run(): the line before
  history,       \* the history of readline
  entered,       \* how many lines have been processed
  last,          \* the last line and what was printed for it
  asked,         \* main() of the tool: the calls to make
  input,         \* main() of the tool: the text
  connected,     \* main() of the tool: whether there is anything left to open
  output         \* the texts that the tool has printed

session == <<previous, history, entered, last>>
job == <<asked, input, connected, output>>
vars == <<tool, server, key, inStep, status, session, job>>

Blank == <<" ">>
Tab == <<"tab">>
Word(w) == <<w>>
Sealed(k, text) == <<"sealed", k, text>>

Nothing == [line |-> <<>>, what |-> "nothing", text |-> <<>>]
Running == -1
Aborted == 134

-----------------------------------------------------------------------------
(* The calls *)

Text(t) == [thrown |-> FALSE, text |-> t]
Thrown == [thrown |-> TRUE, text |-> <<>>]
Garbage == <<Word("garbage")>>

\* What a call may come to.  What is no output of an encryption with this key
\* fails, throws if it is not base64, or is taken for something.
IsSealed(text) == Len(text) = 1 /\ Len(text[1]) = 3

Right(op, text) ==
  IF op = "encrypt" THEN <<Sealed(key, text)>>
  ELSE IF IsSealed(text) /\ text[1][2] = key THEN text[1][3]
  ELSE Garbage

Library(op, text) ==
  {Text(<<>>), Text(Right(op, text))} \cup
  (IF op = "decrypt" /\ ~IsSealed(text) THEN {Thrown} ELSE {})

\* With the service any call may throw, and once a call has come back empty the
\* next ones may return what is no answer to them.
Remote(op, text) ==
  {Text(<<>>), Text(Right(op, text)), Thrown} \cup
  (IF inStep THEN {} ELSE {Text(Garbage)})

Outcomes(op, text) == IF server THEN Remote(op, text) ELSE Library(op, text)

StillInStep(outcome) == inStep' = (inStep /\ outcome.text # <<>>)

Init ==
  /\ tool = "none"
  /\ server = FALSE
  /\ key = DefaultKey
  /\ inStep = TRUE
  /\ status = Running
  /\ previous = <<>> /\ history = <<>> /\ entered = 0 /\ last = Nothing
  /\ asked = <<>> /\ input = <<>> /\ connected = FALSE /\ output = <<>>

-----------------------------------------------------------------------------
(* The shell: a line *)

IsSpace(token) == token \in {Blank, Tab}

\* A line of nothing but space is returned as it is.
Trim(in) ==
  LET solid == {i \in DOMAIN in : ~IsSpace(in[i])}
      left == CHOOSE i \in solid : \A j \in solid : i <= j
      right == CHOOSE i \in solid : \A j \in solid : i >= j
  IN IF solid = {} THEN in ELSE SubSeq(in, left, right)

\* line.find( ' ', from ): indexes are from 0, and Npos says that there is none.
Find(line, from) ==
  LET blanks == {i \in from..(Len(line) - 1) : line[i + 1] = Blank} IN
  IF blanks = {} THEN Npos ELSE CHOOSE i \in blanks : \A j \in blanks : i <= j

Plus1(index) == (index + 1) % (Npos + 1)
Substr(line, from) == SubSeq(line, from + 1, Len(line))

Command(line) ==
  LET idx == Find(line, 0) IN IF idx = Npos THEN line ELSE SubSeq(line, 1, idx)

\* key(): begin moves on while the next blank follows it at once.
SkipMutant(line, begin) == begin
Skip(line, begin) ==
  LET next[b \in 0..Npos] ==
        LET idx == Find(line, Plus1(b)) IN
        IF idx # Npos /\ idx = Plus1(b) THEN next[Plus1(b)] ELSE b
  IN next[begin]

Argument(line, begin) ==
  LET b == Skip(line, begin) IN
  [text |-> Substr(line, Plus1(b)), end |-> Find(line, Plus1(b))]

\* run(): what is printed for a line, and the line before the next one.
PreviousMutant(line) == Trim(line)
Previous(line) == line

Says(line, what, text) ==
  /\ last' = [line |-> line, what |-> what, text |-> text]
  /\ previous' = Previous(line)

Says0(line) == Says(line, "message", <<>>) /\ UNCHANGED <<inStep, status>>

\* encrypt() and decrypt(), of the library or of the service.  Nothing catches
\* what they throw.
Call(op, line) ==
  LET idx == Find(Trim(line), 0)
      argument == Argument(Trim(line), idx)
  IN
  \/ argument.end <= idx /\ Says0(line)
  \/ /\ argument.end > idx
     /\ \E outcome \in Outcomes(op, argument.text) :
          /\ status' = IF outcome.thrown THEN Aborted ELSE Running
          /\ StillInStep(outcome)
          /\ IF outcome.text = <<>>
               THEN Says(line, "message", <<>>)
               ELSE Says(line, "text", outcome.text)

Remember(line) ==
  history' = IF previous # line THEN Append(history, line) ELSE history

Reading == tool = "shell" /\ status = Running

EmptyLine ==
  /\ Reading
  /\ UNCHANGED vars

ReadLine(line) ==
  /\ Reading
  /\ line # <<>>
  /\ entered < MaxLines
  /\ entered' = entered + 1
  /\ Remember(line)
  /\ LET word == Command(Trim(line)) IN
     \/ /\ Trim(line) \in {<<Word("exit")>>, <<Word("quit")>>}
        /\ status' = 0
        /\ UNCHANGED <<inStep, previous, last>>
     \/ word = <<Word("enc")>> /\ Call("encrypt", line)
     \/ word = <<Word("dec")>> /\ Call("decrypt", line)
     \/ /\ Trim(line) \notin {<<Word("exit")>>, <<Word("quit")>>}
        /\ word \notin {<<Word("enc")>>, <<Word("dec")>>}
        /\ Says0(line)
  /\ UNCHANGED <<tool, server, key, job>>

EndOfInput ==
  /\ Reading
  /\ status' = 0
  /\ UNCHANGED <<tool, server, key, inStep, session, job>>

-----------------------------------------------------------------------------
(* The options of both programs *)

\* Only the library asks the environment for the key.
ChooseKey(name) ==
  /\ tool = "none"
  /\ tool' = name
  /\ server' \in BOOLEAN
  /\ key' \in IF server' THEN {DefaultKey} ELSE Keys

ParseShell ==
  /\ ChooseKey("shell")
  /\ status' \in {Running, 0, 1}
  /\ UNCHANGED <<inStep, session, job>>

Ops(encrypt, decrypt) ==
  (IF encrypt THEN <<"encrypt">> ELSE <<>>) \o (IF decrypt THEN <<"decrypt">> ELSE <<>>)

\* The options ask for help, are wrong, or leave out what to do or the input.
ParseCli ==
  /\ ChooseKey("cli")
  /\ connected' = ~server'
  /\ \/ /\ status' \in {0, 1, 2}
        /\ UNCHANGED <<asked, input>>
     \/ \E encrypt, decrypt \in BOOLEAN :
          /\ encrypt \/ decrypt
          /\ asked' = Ops(encrypt, decrypt)
          /\ input' \in Inputs
          /\ UNCHANGED status
  /\ UNCHANGED <<inStep, session, output>>

-----------------------------------------------------------------------------
(* The command line tool *)

Working == tool = "cli" /\ status = Running

\* An exception of the connection is caught; what the library throws is none.
StatusThrownMutant == IF server THEN 0 ELSE Aborted
StatusThrown == IF server THEN 3 ELSE Aborted

Connect ==
  /\ Working
  /\ ~connected
  /\ \/ connected' = TRUE /\ UNCHANGED status
     \/ status' = StatusThrown /\ UNCHANGED connected
  /\ UNCHANGED <<tool, server, key, inStep, session, asked, input, output>>

\* A call that fails prints an empty line.
CallAndPrint ==
  /\ Working
  /\ connected
  /\ Len(output) < Len(asked)
  /\ \E outcome \in Outcomes(asked[Len(output) + 1], input) :
       IF outcome.thrown
         THEN status' = StatusThrown /\ UNCHANGED <<inStep, output>>
         ELSE /\ output' = Append(output, outcome.text)
              /\ StillInStep(outcome)
              /\ UNCHANGED status
  /\ UNCHANGED <<tool, server, key, session, asked, input, connected>>

Return ==
  /\ Working
  /\ connected
  /\ Len(output) = Len(asked)
  /\ status' = 0
  /\ UNCHANGED <<tool, server, key, inStep, session, job>>

-----------------------------------------------------------------------------

Next ==
  \/ ParseShell \/ EmptyLine \/ EndOfInput
  \/ \E line \in Lines : ReadLine(line)
  \/ ParseCli \/ Connect \/ CallAndPrint \/ Return

Spec == Init /\ [][Next]_vars

-----------------------------------------------------------------------------
(* Properties *)

\* The line, with space around it, is the word, a blank or more, and the text.
Means(line, word, text) ==
  \E i, j, k \in DOMAIN line :
    /\ i + 1 < j /\ j <= k
    /\ line[i] = word
    /\ \A p \in (1..(i - 1)) \cup ((k + 1)..Len(line)) : IsSpace(line[p])
    /\ \A p \in (i + 1)..(j - 1) : line[p] = Blank
    /\ line[j] # Blank /\ ~IsSpace(line[k])
    /\ text = SubSeq(line, j, k)

Parts(line) == {SubSeq(line, j, k) : j, k \in DOMAIN line}

\* The shell encrypts the whole text, with the blanks in it and without the space
\* around it, and decrypts what was encrypted with the same key to that text,
\* whatever lines came before; with the service, until a call came back empty.
RoundTrip ==
  (last.what = "text" /\ (server => inStep)) =>
    \A text \in Parts(last.line) :
      /\ Means(last.line, Word("enc"), text) => last.text = <<Sealed(key, text)>>
      /\ Means(last.line, Word("dec"), text) /\ IsSealed(text) /\ text[1][2] = key =>
           last.text = text[1][3]

\* No entry of the history repeats the one before it, empty lines and lines that
\* are no command notwithstanding.
HistoryNoRepeat ==
  \A i \in 1..(Len(history) - 1) : history[i] # history[i + 1]

\* A script can trust the exit status: 0 only if a line was printed for all that
\* was asked, each the right text or empty; and a line that is printed before
\* the tool fails is right as well.
StatusTells ==
  tool = "cli" =>
    /\ status = 0 => Len(output) = Len(asked)
    /\ \A i \in DOMAIN output :
         (server => \A j \in 1..(i - 1) : output[j] # <<>>) =>
           output[i] \in {<<>>, Right(asked[i], input)}
    /\ status \in {3, Aborted} => Len(output) < Len(asked)

=============================================================================
