----------------------------- MODULE ToolsProofs -----------------------------
(***************************************************************************)
(* What is proved of Tools for all lines, inputs and keys: the history of  *)
(* the shell, what it takes for the text of a line, and the exit status of *)
(* the command line tool.                                                  *)
(***************************************************************************)
EXTENDS Tools, FiniteSetTheorems, SequenceTheorems, TLAPS

-----------------------------------------------------------------------------
(* The history of the shell *)

\* As long as lines are read, the line before is the newest one of the history.
PreviousIsNewest ==
  /\ history \in Seq(Lines)
  /\ tool = "none" => status = Running
  /\ status = Running =>
       previous = IF history = <<>> THEN <<>> ELSE history[Len(history)]

HistoryInv == PreviousIsNewest /\ HistoryNoRepeat

LEMMA HistoryInit == Init => HistoryInv
BY DEF Init, HistoryInv, PreviousIsNewest, HistoryNoRepeat

LEMMA RememberKeepsOrder ==
  ASSUME HistoryInv, status = Running, NEW line \in Lines, line # <<>>,
         Remember(line)
  PROVE  /\ history' \in Seq(Lines) /\ HistoryNoRepeat'
         /\ history' # <<>> /\ history'[Len(history')] = line
<1>0. /\ history \in Seq(Lines) /\ Len(history) \in Nat
      /\ history # <<>> => Len(history) > 0
      /\ previous = IF history = <<>> THEN <<>> ELSE history[Len(history)]
  BY DEF HistoryInv, PreviousIsNewest
<1>1. CASE previous = line
  BY <1>0, <1>1 DEF Remember, HistoryInv, HistoryNoRepeat
<1>2. CASE previous # line
  <2>1. history' = Append(history, line)
    BY <1>2 DEF Remember
  <2>2. /\ history' \in Seq(Lines) /\ Len(history') = Len(history) + 1
        /\ \A i \in 1..Len(history) : history'[i] = history[i]
        /\ history'[Len(history) + 1] = line /\ history' # <<>>
    BY <1>0, <2>1
  <2>3. HistoryNoRepeat'
    <3>. SUFFICES ASSUME NEW i \in 1..(Len(history') - 1)
                  PROVE  history'[i] # history'[i + 1]
      BY DEF HistoryNoRepeat
    <3>1. CASE i = Len(history)
      BY <1>0, <1>2, <2>2, <3>1
    <3>2. CASE i \in 1..(Len(history) - 1)
      BY <1>0, <2>2, <3>2 DEF HistoryInv, HistoryNoRepeat
    <3>. QED  BY <1>0, <2>2, <3>1, <3>2
  <2>. QED  BY <2>2, <2>3
<1>. QED  BY <1>1, <1>2

LEMMA HistoryStep == HistoryInv /\ [Next]_vars => HistoryInv'
<1>. SUFFICES ASSUME HistoryInv, [Next]_vars PROVE HistoryInv'
  OBVIOUS
<1>1. ASSUME NEW line \in Lines, ReadLine(line) PROVE HistoryInv'
  <2>1. status = Running /\ line # <<>> /\ Remember(line)
    BY <1>1 DEF ReadLine, Reading
  <2>2. status' = 0 \/ previous' = line
    BY <1>1 DEF ReadLine, Call, Says0, Says, Previous
  <2>3. tool' # "none"
    BY <1>1 DEF ReadLine, Reading
  <2>. QED  BY <2>1, <2>2, <2>3, RememberKeepsOrder DEF HistoryInv,
            PreviousIsNewest, Running
<1>2. CASE UNCHANGED <<session, tool, status>>
  BY <1>2 DEF session, HistoryInv, PreviousIsNewest, HistoryNoRepeat
<1>3. CASE UNCHANGED session /\ status = Running /\ tool' # "none"
  BY <1>3 DEF session, HistoryInv, PreviousIsNewest, HistoryNoRepeat
<1>4. CASE ParseShell \/ ParseCli
  BY <1>3, <1>4 DEF ParseShell, ParseCli, ChooseKey, HistoryInv, PreviousIsNewest
<1>5. CASE EndOfInput \/ Connect \/ CallAndPrint \/ Return
  BY <1>3, <1>5 DEF EndOfInput, Reading, Connect, CallAndPrint, Return, Working
<1>. QED
  BY <1>1, <1>2, <1>4, <1>5 DEF Next, vars, EmptyLine

\* run() of src/src/shell/main.cpp: whatever is entered, empty lines, lines that
\* are no command and a last exit among them, the history does not repeat.
THEOREM HistoryDoesNotRepeat == Spec => []HistoryNoRepeat
<1>1. HistoryInv => HistoryNoRepeat
  BY DEF HistoryInv
<1>. QED  BY <1>1, HistoryInit, HistoryStep, PTL DEF Spec

-----------------------------------------------------------------------------
(* The exit status of the command line tool *)

Answers == {<<>>, Garbage} \cup {Right(asked[i], input) : i \in DOMAIN asked}

\* A text is only wrong behind one that is empty, and the answers of the service
\* belong to the calls until there is such a one.
RightUntilEmpty ==
  /\ inStep <=> \A i \in DOMAIN output : output[i] # <<>>
  /\ \A i \in DOMAIN output :
       (server => \A j \in 1..(i - 1) : output[j] # <<>>) =>
         output[i] \in {<<>>, Right(asked[i], input)}

\* The tool connects before it prints, and has something to do as long as it runs.
Progress ==
  /\ asked \in Seq({"encrypt", "decrypt"})
  /\ output \in Seq(Answers)
  /\ Len(output) <= Len(asked)
  /\ status = Running => asked # <<>>
  /\ ~connected => output = <<>>

Exits ==
  /\ status = 0 => Len(output) = Len(asked)
  /\ status \in {3, Aborted} => Len(output) < Len(asked)

StatusInv ==
  /\ inStep \in BOOLEAN
  /\ tool = "none" =>
       inStep /\ status = Running /\ asked = <<>> /\ output = <<>>
  /\ tool = "cli" => Progress /\ RightUntilEmpty /\ Exits

LEMMA StatusInit == Init => StatusInv
BY DEF Init, StatusInv

\* Whatever a call comes to: right, empty, or garbage behind what was empty.
LEMMA CallOutcomes ==
  ASSUME NEW op, NEW text, NEW outcome \in Outcomes(op, text), ~outcome.thrown
  PROVE  \/ outcome.text \in {<<>>, Right(op, text)}
         \/ outcome.text = Garbage /\ server /\ ~inStep
BY DEF Outcomes, Library, Remote, Text, Thrown

\* The texts that have been printed, and one more.
LEMMA OutputGrows ==
  ASSUME Progress, NEW text \in Answers, output' = Append(output, text)
  PROVE  /\ output' \in Seq(Answers) /\ Len(output') = Len(output) + 1
         /\ DOMAIN output' = 1..(Len(output) + 1)
         /\ \A i \in 1..Len(output) : output'[i] = output[i]
         /\ output'[Len(output) + 1] = text
<1>1. output \in Seq(Answers)
  BY DEF Progress
<1>. QED  BY <1>1

LEMMA CliStep ==
  ASSUME StatusInv, tool = "cli", Connect \/ CallAndPrint \/ Return
  PROVE  StatusInv'
<1>0. /\ inStep \in BOOLEAN /\ Progress /\ RightUntilEmpty /\ Exits
      /\ status = Running /\ tool' = "cli"
  BY DEF StatusInv, Connect, CallAndPrint, Return, Working
<1>1. /\ Len(output) \in Nat /\ Len(asked) \in Nat /\ Len(output) <= Len(asked)
      /\ DOMAIN output = 1..Len(output) /\ DOMAIN asked = 1..Len(asked)
      /\ asked # <<>> => Len(asked) > 0
  BY <1>0 DEF Progress
<1>2. ASSUME UNCHANGED <<asked, input, output, server, key, inStep>>
      PROVE  RightUntilEmpty' /\ Answers' = Answers
  BY <1>0, <1>2 DEF RightUntilEmpty, Answers, Right
<1>3. /\ 0 # Running /\ 3 # Running /\ Aborted # Running /\ 0 # 3 /\ 0 # Aborted
      /\ StatusThrown \in {3, Aborted}
  BY DEF Running, Aborted, StatusThrown
<1>4. CASE Connect
  BY <1>0, <1>1, <1>2, <1>3, <1>4 DEF Connect, Progress, Exits, StatusInv
<1>5. CASE Return
  BY <1>0, <1>1, <1>2, <1>3, <1>5 DEF Return, job, Progress, Exits, StatusInv
<1>6. CASE CallAndPrint
  <2>. DEFINE n == Len(output) + 1
  <2>1. PICK outcome \in Outcomes(asked[n], input) :
          IF outcome.thrown
            THEN status' = StatusThrown /\ UNCHANGED <<inStep, output>>
            ELSE /\ output' = Append(output, outcome.text)
                 /\ StillInStep(outcome)
                 /\ UNCHANGED status
    BY <1>6 DEF CallAndPrint
  <2>2. /\ UNCHANGED <<server, key, asked, input, connected>>
        /\ connected /\ Len(output) < Len(asked)
    BY <1>6 DEF CallAndPrint
  <2>3. CASE outcome.thrown
    BY <1>0, <1>1, <1>2, <1>3, <2>1, <2>2, <2>3 DEF Progress, Exits, StatusInv
  <2>4. CASE ~outcome.thrown
    <3>. DEFINE text == outcome.text
    <3>1. /\ output' = Append(output, text) /\ status' = status
          /\ inStep' = (inStep /\ text # <<>>)
      BY <2>1, <2>4 DEF StillInStep
    <3>2. \/ text \in {<<>>, Right(asked[n], input)}
          \/ text = Garbage /\ server /\ ~inStep
      BY <2>4, CallOutcomes
    <3>. HIDE DEF text
    <3>3. text \in Answers /\ Answers' = Answers
      BY <1>1, <2>2, <3>2 DEF Answers, Right
    <3>4. /\ output' \in Seq(Answers) /\ Len(output') = n
          /\ DOMAIN output' = 1..n
          /\ \A i \in 1..Len(output) : output'[i] = output[i]
          /\ output'[n] = text
      BY <1>0, <3>1, <3>3, OutputGrows
    <3>5. Progress' /\ Exits'
      <4>1. Len(output') \in Nat /\ Len(output') <= Len(asked) /\ asked' = asked
        BY <1>1, <2>2, <3>4
      <4>2. status' = Running /\ connected'
        BY <1>0, <2>2, <3>1
      <4>3. Progress'
        BY <1>0, <3>3, <3>4, <4>1, <4>2 DEF Progress
      <4>. QED  BY <1>3, <4>2, <4>3 DEF Exits
    <3>6. inStep' <=> \A i \in DOMAIN output' : output'[i] # <<>>
      <4>1. inStep <=> \A i \in 1..Len(output) : output[i] # <<>>
        BY <1>0, <1>1 DEF RightUntilEmpty
      <4>2. (\A i \in 1..n : output'[i] # <<>>)
              <=> (\A i \in 1..Len(output) : output[i] # <<>>) /\ text # <<>>
        BY <1>1, <3>4
      <4>. HIDE DEF n
      <4>. QED  BY <3>1, <3>4, <4>1, <4>2, Zenon
    <3>7. ASSUME NEW i \in DOMAIN output',
                 server => \A j \in 1..(i - 1) : output'[j] # <<>>
          PROVE  output'[i] \in {<<>>, Right(asked[i], input)}
      <4>1. CASE i = n
        <5>1. server => inStep
          BY <1>0, <1>1, <3>4, <3>7, <4>1 DEF RightUntilEmpty
        <5>. QED  BY <3>2, <3>4, <4>1, <5>1
      <4>2. CASE i \in 1..Len(output)
        BY <1>0, <1>1, <3>4, <3>7, <4>2 DEF RightUntilEmpty
      <4>. QED  BY <1>1, <3>4, <4>1, <4>2
    <3>8. RightUntilEmpty'
      BY <2>2, <3>6, <3>7 DEF RightUntilEmpty, Right
    <3>. QED  BY <1>0, <3>1, <3>5, <3>8 DEF StatusInv
  <2>. QED  BY <2>3, <2>4
<1>. QED  BY <1>4, <1>5, <1>6

LEMMA StatusStep == StatusInv /\ [Next]_vars => StatusInv'
<1>. SUFFICES ASSUME StatusInv, [Next]_vars PROVE StatusInv'
  OBVIOUS
<1>1. CASE UNCHANGED vars \/ EmptyLine
  BY <1>1 DEF vars, job, EmptyLine, StatusInv, Progress, RightUntilEmpty, Exits,
     Answers, Right
<1>2. CASE ParseShell
  BY <1>2 DEF ParseShell, ChooseKey, job, StatusInv
<1>3. CASE ParseCli
  <2>1. /\ tool = "none" /\ tool' = "cli" /\ inStep /\ inStep' /\ output' = <<>>
        /\ status = Running /\ asked = <<>> /\ inStep' \in BOOLEAN
    BY <1>3 DEF ParseCli, ChooseKey, StatusInv
  <2>2. RightUntilEmpty'
    BY <2>1 DEF RightUntilEmpty
  <2>3. CASE status' \in {0, 1, 2} /\ asked' = <<>>
    BY <2>1, <2>2, <2>3 DEF StatusInv, Progress, Exits, Running, Aborted
  <2>4. CASE status' = status /\ \E encrypt, decrypt \in BOOLEAN :
               (encrypt \/ decrypt) /\ asked' = Ops(encrypt, decrypt)
    <3>. DEFINE Names == {"encrypt", "decrypt"}
    <3>1. PICK first, second \in {<<>>, <<"encrypt">>, <<"decrypt">>} :
            asked' = first \o second /\ (first # <<>> \/ second # <<>>)
      BY <2>4 DEF Ops
    <3>2. asked' \in Seq(Names) /\ asked' # <<>> /\ Len(asked') > 0
      <4>0. <<>> \in Seq(Names) /\ <<"encrypt">> \in Seq(Names)
            /\ <<"decrypt">> \in Seq(Names)
        OBVIOUS
      <4>1. first \in Seq(Names) /\ second \in Seq(Names)
        <5>. HIDE DEF Names
        <5>. QED  BY <3>1, <4>0
      <4>2. Len(first) \in Nat /\ Len(second) \in Nat
            /\ (Len(first) > 0 \/ Len(second) > 0)
        BY <3>1
      <4>3. asked' \in Seq(Names) /\ Len(asked') = Len(first) + Len(second)
        BY <3>1, <4>1
      <4>. QED  BY <4>2, <4>3
    <3>3. Progress'
      BY <2>1, <2>4, <3>2 DEF Progress
    <3>4. Exits'
      BY <2>1, <2>4 DEF Exits, Running, Aborted
    <3>5. tool' = "cli" /\ tool' # "none" /\ inStep' \in BOOLEAN
      BY <2>1
    <3>. QED  BY <2>2, <3>3, <3>4, <3>5 DEF StatusInv
  <2>. QED  BY <1>3, <2>1, <2>3, <2>4 DEF ParseCli
<1>4. CASE EndOfInput \/ \E line \in Lines : ReadLine(line)
  <2>1. tool' = "shell" /\ inStep' \in BOOLEAN
    BY <1>4 DEF EndOfInput, ReadLine, Reading, Call, Says0, StillInStep, StatusInv
  <2>. QED  BY <2>1 DEF StatusInv
<1>5. CASE Connect \/ CallAndPrint \/ Return
  BY <1>5, CliStep DEF Connect, CallAndPrint, Return, Working
<1>. QED  BY <1>1, <1>2, <1>3, <1>4, <1>5 DEF Next

\* main() of src/src/cli/main.cpp: the exit status is 0 only if a line was printed
\* for every call, and each line is empty or the right text, with a service
\* those after an empty one excepted, however the calls come out.
THEOREM StatusIsTrue == Spec => []StatusTells
<1>1. StatusInv => StatusTells
  BY DEF StatusInv, StatusTells, RightUntilEmpty, Exits
<1>. QED  BY <1>1, StatusInit, StatusStep, PTL DEF Spec

-----------------------------------------------------------------------------
(* Induction, as a fact about sets: what the recursive function of key()    *)
(* computes is proved with it for every line.                               *)

LEMMA SmallestOf ==
  ASSUME NEW N \in Nat, NEW P \in SUBSET (0..N), P # {}
  PROVE  \E n \in P : \A m \in P : n <= m
<1>. DEFINE S == 1..N
            T == {1..n : n \in P}
<1>1. IsWellFoundedOn(StrictSubsetOrdering(S), SUBSET S)
  <2>1. IsFiniteSet(S)
    BY FS_Interval
  <2>. HIDE DEF S
  <2>2. FiniteSubsetsOf(S) = SUBSET S
    BY <2>1, FS_FiniteSubsetsOfFinite
  <2>3. IsWellFoundedOn(StrictSubsetOrdering(S), FiniteSubsetsOf(S))
    BY FS_StrictSubsetOrderingWellFounded
  <2>. QED  BY <2>2, <2>3
<1>2. T \subseteq SUBSET S
  OBVIOUS
<1>3. T # {}
  <2>. HIDE DEF S
  <2>. QED  OBVIOUS
<1>4. \E x \in T : \A y \in T : ~(<<y, x>> \in StrictSubsetOrdering(S))
  <2>. HIDE DEF S, T
  <2>. QED  BY <1>1, <1>2, <1>3, WFMin
<1>5. PICK n \in P : \A m \in P : ~(<<1..m, 1..n>> \in StrictSubsetOrdering(S))
  BY <1>4
<1>6. \A m \in P : ~(m < n)
  <2>. SUFFICES ASSUME NEW m \in P, m < n PROVE FALSE
    OBVIOUS
  <2>1. /\ 1..m \in SUBSET S /\ 1..n \in SUBSET S /\ 1..m \subseteq 1..n
        /\ n \in 1..n /\ n \notin 1..m
    OBVIOUS
  <2>2. <<1..m, 1..n>> \in StrictSubsetOrdering(S)
    BY <2>1 DEF StrictSubsetOrdering
  <2>. QED  BY <1>5, <2>2
<1>. QED  BY <1>6

LEMMA Induction ==
  ASSUME NEW S, 0 \in S, \A n \in Nat : n \in S => n + 1 \in S
  PROVE  Nat \subseteq S
<1>. SUFFICES ASSUME NEW N \in Nat, N \notin S PROVE FALSE
  OBVIOUS
<1>. DEFINE P == {n \in 0..N : n \notin S}
<1>1. P \in SUBSET (0..N) /\ N \in P
  OBVIOUS
<1>2. PICK n \in P : \A m \in P : n <= m
  <2>. HIDE DEF P
  <2>. QED  BY <1>1, SmallestOf
<1>3. n - 1 \in Nat /\ n - 1 \in S
  BY <1>2
<1>. QED  BY <1>3

-----------------------------------------------------------------------------
(* The text of a line *)

LEMMA FindOf ==
  ASSUME NEW T, NEW t \in Seq(T), NEW p \in Nat
  PROVE  \/ Find(t, p) = Npos /\ \A i \in p..(Len(t) - 1) : t[i + 1] # Blank
         \/ /\ Find(t, p) \in p..(Len(t) - 1) /\ t[Find(t, p) + 1] = Blank
            /\ \A i \in p..(Find(t, p) - 1) : t[i + 1] # Blank
<1>. DEFINE I == {i \in p..(Len(t) - 1) : t[i + 1] = Blank}
            e == Find(t, p)
<1>1. e = IF I = {} THEN Npos ELSE CHOOSE i \in I : \A j \in I : i <= j
  BY DEF Find
<1>2. Len(t) \in Nat
  OBVIOUS
<1>3. CASE I = {}
  BY <1>1, <1>3
<1>4. CASE I # {}
  <2>1. I \in SUBSET (0..Len(t))
    BY <1>2
  <2>. HIDE DEF I, e
  <2>2. \E i \in I : \A j \in I : i <= j
    BY <1>2, <1>4, <2>1, SmallestOf
  <2>3. e \in I /\ \A j \in I : e <= j
    BY <1>1, <1>4, <2>2
  <2>4. e \in p..(Len(t) - 1) /\ t[e + 1] = Blank
    BY <2>3 DEF I
  <2>5. ASSUME NEW i \in p..(e - 1) PROVE t[i + 1] # Blank
    <3>. SUFFICES ASSUME t[i + 1] = Blank PROVE FALSE
      OBVIOUS
    <3>1. i \in I /\ ~(e <= i)
      BY <1>2, <2>4 DEF I
    <3>. QED  BY <2>3, <3>1
  <2>. QED  BY <2>4, <2>5 DEF e
<1>. QED  BY <1>3, <1>4

\* key() goes on while the next blank follows at once.
Moves(t, b) == Find(t, Plus1(b)) # Npos /\ Find(t, Plus1(b)) = Plus1(b)

Skips(t, f) == f = [b \in 0..Npos |-> IF Moves(t, b) THEN f[Plus1(b)] ELSE b]

LEMMA Plus1Of ==
  ASSUME NEW b \in Nat, b < Npos
  PROVE  Plus1(b) = b + 1
<1>1. Npos \in Nat
  BY ToolsAssumption DEF ToolsAssumption
<1>2. (b + 1) % (Npos + 1) = b + 1
  BY <1>1
<1>. QED  BY <1>2 DEF Plus1

LEMMA MovesOf ==
  ASSUME NEW T, NEW t \in Seq(T), NEW b \in Nat, Len(t) + 1 < Npos, b < Npos
  PROVE  Moves(t, b) <=> (b + 1 < Len(t) /\ t[b + 2] = Blank)
<1>1. Npos \in Nat /\ Len(t) \in Nat
  BY ToolsAssumption DEF ToolsAssumption
<1>. DEFINE p == b + 1
            e == Find(t, p)
<1>2. Plus1(b) = p /\ p \in Nat
  BY Plus1Of
<1>3. \/ e = Npos /\ \A i \in p..(Len(t) - 1) : t[i + 1] # Blank
      \/ /\ e \in p..(Len(t) - 1) /\ t[e + 1] = Blank
         /\ \A i \in p..(e - 1) : t[i + 1] # Blank
  BY <1>2, FindOf
<1>4. Moves(t, b) <=> (e # Npos /\ e = p)
  BY <1>2 DEF Moves
<1>5. p + 1 = b + 2 /\ (p \in p..(Len(t) - 1) <=> b + 1 < Len(t))
  BY <1>1
<1>. HIDE DEF p, e
<1>6. ASSUME e # Npos, e = p PROVE p \in p..(Len(t) - 1) /\ t[p + 1] = Blank
  BY <1>3, <1>6
<1>7. ASSUME p \in p..(Len(t) - 1), t[p + 1] = Blank PROVE e # Npos /\ e = p
  <2>1. e # Npos
    <3>. SUFFICES ASSUME e = Npos PROVE FALSE
      OBVIOUS
    <3>1. ~(e \in p..(Len(t) - 1))
      BY <1>1, <1>2
    <3>2. t[p + 1] # Blank
      BY <1>3, <1>7, <3>1
    <3>. QED  BY <1>7, <3>2
  <2>2. e \in p..(Len(t) - 1) /\ \A i \in p..(e - 1) : t[i + 1] # Blank
    BY <1>3, <2>1
  <2>3. ~(e > p)
    <3>. SUFFICES ASSUME e > p PROVE FALSE
      OBVIOUS
    <3>1. p \in p..(e - 1)
      BY <1>1, <1>2, <2>2
    <3>. QED  BY <1>7, <2>2, <3>1
  <2>. QED  BY <1>1, <1>2, <2>1, <2>2, <2>3
<1>. QED  BY <1>4, <1>5, <1>6, <1>7

\* The function that Skip defines by recursion exists, although its argument wraps.
LEMMA SkipExists ==
  ASSUME NEW T, NEW t \in Seq(T), Len(t) + 1 < Npos
  PROVE  \E f : Skips(t, f) /\ \A b : Skip(t, b) = f[b]
<1>. DEFINE Ends(b) == {e \in b..(Npos - 1) : ~Moves(t, e)}
            Stop(b) == CHOOSE e \in Ends(b) : \A d \in Ends(b) : e <= d
            f == [b \in 0..Npos |->
                    IF b < Npos THEN Stop(b) ELSE IF Moves(t, b) THEN Stop(0) ELSE b]
            g == [b \in 0..Npos |-> IF Moves(t, b) THEN f[Plus1(b)] ELSE b]
<1>1. Npos \in Nat /\ Len(t) \in Nat /\ Npos - 1 \in Nat
  BY ToolsAssumption DEF ToolsAssumption
<1>2. ~Moves(t, Npos - 1)
  BY <1>1, MovesOf
<1>3. ASSUME NEW b \in 0..(Npos - 1)
      PROVE  Stop(b) \in Ends(b) /\ \A d \in Ends(b) : Stop(b) <= d
  <2>1. Ends(b) \in SUBSET (0..Npos) /\ Npos - 1 \in Ends(b)
    BY <1>1, <1>2
  <2>. HIDE DEF Ends
  <2>2. \E e \in Ends(b) : \A d \in Ends(b) : e <= d
    BY <1>1, <2>1, SmallestOf
  <2>. QED  BY <2>2
<1>4. ASSUME NEW b \in 0..(Npos - 1), ~Moves(t, b) PROVE Stop(b) = b
  <2>1. b \in Ends(b) /\ \A e \in Ends(b) : e \in Nat /\ b <= e
    BY <1>1, <1>4
  <2>. HIDE DEF Ends, Stop
  <2>. QED  BY <1>3, <2>1
<1>5. ASSUME NEW b \in 0..(Npos - 1), Moves(t, b)
      PROVE  b + 1 < Npos /\ Stop(b) = Stop(b + 1)
  <2>1. b # Npos - 1
    BY <1>2, <1>5
  <2>2. b + 1 < Npos
    BY <1>1, <2>1
  <2>3. Ends(b) = Ends(b + 1)
    <3>1. b..(Npos - 1) = {b} \cup ((b + 1)..(Npos - 1))
      BY <1>1, <2>2
    <3>. QED  BY <1>5, <3>1
  <2>. HIDE DEF Ends
  <2>. QED  BY <2>2, <2>3
<1>. HIDE DEF Ends, Stop
<1>6. ASSUME NEW b \in 0..Npos PROVE f[b] = g[b]
  <2>1. CASE b < Npos /\ ~Moves(t, b)
    <3>1. b \in 0..(Npos - 1)
      BY <1>1, <2>1
    <3>2. Stop(b) = b
      BY <1>4, <2>1, <3>1
    <3>. QED  BY <2>1, <3>2
  <2>2. CASE b < Npos /\ Moves(t, b)
    <3>1. b \in 0..(Npos - 1)
      BY <1>1, <2>2
    <3>2. b + 1 < Npos /\ Stop(b) = Stop(b + 1)
      BY <1>5, <2>2, <3>1
    <3>3. Plus1(b) = b + 1 /\ b + 1 \in 0..Npos
      BY <1>1, <2>2, Plus1Of
    <3>4. f[b + 1] = Stop(b + 1)
      BY <3>2, <3>3
    <3>5. f[b] = Stop(b) /\ g[b] = f[Plus1(b)]
      BY <2>2
    <3>. HIDE DEF f, g
    <3>. QED  BY <3>2, <3>3, <3>4, <3>5
  <2>3. CASE ~(b < Npos)
    <3>1. b = Npos
      BY <1>1, <2>3
    <3>2. Plus1(b) = 0
      <4>1. (Npos + 1) % (Npos + 1) = 0
        BY <1>1
      <4>. QED  BY <3>1, <4>1 DEF Plus1
    <3>3. f[0] = Stop(0)
      BY <1>1
    <3>4. f[b] = (IF Moves(t, b) THEN Stop(0) ELSE b) /\ g[b] = IF Moves(t, b) THEN f[0] ELSE b
      BY <2>3, <3>2
    <3>. HIDE DEF f, g
    <3>. QED  BY <3>3, <3>4
  <2>. QED  BY <2>1, <2>2, <2>3
<1>7. f = g
  <2>. DEFINE F(b) == IF b < Npos THEN Stop(b) ELSE IF Moves(t, b) THEN Stop(0) ELSE b
              G(b) == IF Moves(t, b) THEN f[Plus1(b)] ELSE b
  <2>1. \A b \in 0..Npos : F(b) = G(b)
    BY <1>6
  <2>. HIDE DEF F, G
  <2>2. [b \in 0..Npos |-> F(b)] = [b \in 0..Npos |-> G(b)]
    BY <2>1
  <2>. QED  BY <2>2 DEF F, G
<1>. HIDE DEF f
<1>8. Skips(t, f)
  BY <1>7 DEF Skips
<1>9. Skips(t, CHOOSE h : Skips(t, h))
  BY <1>8
<1>10. \A b : Skip(t, b) = (CHOOSE h : Skips(t, h))[b]
  BY DEF Skip, Skips, Moves
<1>. QED  BY <1>9, <1>10

\* It stops at the last of the blanks that follow each other.
LEMMA SkipStops ==
  ASSUME NEW T, NEW t \in Seq(T), Len(t) + 1 < Npos,
         NEW m \in Nat \ {0}, m + 1 < Len(t),
         \A p \in 2..(m + 1) : t[p] = Blank, t[m + 2] # Blank
  PROVE  Skip(t, 1) = m
<1>1. Npos \in Nat /\ Len(t) \in Nat /\ m < Npos
  BY ToolsAssumption DEF ToolsAssumption
<1>2. PICK f : Skips(t, f) /\ Skip(t, 1) = f[1]
  BY SkipExists
<1>3. \A b \in 0..Npos : f[b] = IF Moves(t, b) THEN f[Plus1(b)] ELSE b
  BY <1>2 DEF Skips
<1>4. f[m] = m
  <2>1. m \in 0..Npos
    BY <1>1
  <2>2. ~Moves(t, m)
    BY <1>1, MovesOf
  <2>. QED  BY <1>3, <2>1, <2>2
<1>5. ASSUME NEW b \in 1..(m - 1) PROVE f[b] = f[b + 1]
  <2>1. b \in 0..Npos /\ b \in Nat /\ b < Npos /\ b + 1 < Len(t) /\ b + 2 \in 2..(m + 1)
    BY <1>1
  <2>2. t[b + 2] = Blank
    BY <2>1
  <2>3. Moves(t, b)
    BY <2>1, <2>2, MovesOf
  <2>4. Plus1(b) = b + 1
    BY <2>1, Plus1Of
  <2>. QED  BY <1>3, <2>1, <2>3, <2>4
<1>. DEFINE S == {n \in Nat : n < m => f[m - n] = m}
<1>6. 0 \in S
  BY <1>4
<1>7. ASSUME NEW n \in Nat, n \in S PROVE n + 1 \in S
  <2>. SUFFICES ASSUME n + 1 < m PROVE f[m - (n + 1)] = m
    OBVIOUS
  <2>. DEFINE b == m - (n + 1)
  <2>1. b \in 1..(m - 1) /\ b + 1 = m - n /\ n < m
    OBVIOUS
  <2>2. f[m - n] = m
    BY <1>7, <2>1
  <2>. HIDE DEF b
  <2>3. f[b] = f[b + 1]
    BY <1>5, <2>1
  <2>. QED  BY <2>1, <2>2, <2>3 DEF b
<1>8. m - 1 \in Nat /\ m - 1 < m /\ m - (m - 1) = 1
  BY <1>1
<1>9. m - 1 \in S
  <2>. HIDE DEF S
  <2>. QED  BY <1>6, <1>7, <1>8, Induction
<1>. QED  BY <1>2, <1>8, <1>9

\* A line that is trimmed: a word, m blanks, and a text.
TextBehind(t, word, m) ==
  /\ m \in Nat \ {0} /\ m + 1 < Len(t) /\ Len(t) + 1 < Npos
  /\ t[1] = word /\ word # Blank
  /\ \A p \in 2..(m + 1) : t[p] = Blank
  /\ t[m + 2] # Blank

LEMMA TextOf ==
  ASSUME NEW T, NEW t \in Seq(T), NEW word, NEW m, TextBehind(t, word, m)
  PROVE  /\ Find(t, 0) = 1
         /\ Command(t) = <<word>>
         /\ Argument(t, 1).text = SubSeq(t, m + 2, Len(t))
<1>1. /\ m \in Nat \ {0} /\ m + 1 < Len(t) /\ Len(t) + 1 < Npos
      /\ Len(t) \in Nat /\ Npos \in Nat
  BY ToolsAssumption DEF ToolsAssumption, TextBehind
<1>2. t[1] = word /\ word # Blank /\ t[m + 2] # Blank
  BY DEF TextBehind
<1>3. \A p \in 2..(m + 1) : t[p] = Blank
  BY DEF TextBehind
<1>4. Find(t, 0) = 1
  <2>. DEFINE e == Find(t, 0)
  <2>1. \/ e = Npos /\ \A i \in 0..(Len(t) - 1) : t[i + 1] # Blank
        \/ /\ e \in 0..(Len(t) - 1) /\ t[e + 1] = Blank
           /\ \A i \in 0..(e - 1) : t[i + 1] # Blank
    BY FindOf
  <2>. HIDE DEF e
  <2>2. t[2] = Blank
    <3>1. 2 \in 2..(m + 1)
      BY <1>1
    <3>. QED  BY <1>3, <3>1
  <2>3. ~(\A i \in 0..(Len(t) - 1) : t[i + 1] # Blank)
    <3>1. 1 \in 0..(Len(t) - 1) /\ t[1 + 1] = Blank
      BY <1>1, <2>2
    <3>. QED  BY <3>1
  <2>4. /\ e \in 0..(Len(t) - 1) /\ t[e + 1] = Blank
        /\ \A i \in 0..(e - 1) : t[i + 1] # Blank
    BY <2>1, <2>3
  <2>5. e # 0
    BY <1>2, <2>4
  <2>6. ~(e > 1)
    <3>. SUFFICES ASSUME e > 1 PROVE FALSE
      OBVIOUS
    <3>1. 1 \in 0..(e - 1) /\ t[1 + 1] = Blank
      BY <1>1, <2>2, <2>4
    <3>. QED  BY <2>4, <3>1
  <2>. QED  BY <1>1, <2>4, <2>5, <2>6 DEF e
<1>5. Command(t) = <<word>>
  <2>1. Command(t) = SubSeq(t, 1, 1)
    BY <1>1, <1>4 DEF Command
  <2>2. 1 <= Len(t)
    BY <1>1
  <2>3. SubSeq(t, 1, 1) = <<t[1]>>
    <3>. DEFINE x == SubSeq(t, 1, 1)
    <3>1. x \in Seq(T) /\ Len(x) = 1 /\ x[1] = t[1]
      BY <1>1, <2>2
    <3>2. \A y \in Seq(T) : Len(y) = 1 => y = <<y[1]>>
      OBVIOUS
    <3>. HIDE DEF x
    <3>3. x = <<t[1]>>
      BY <3>1, <3>2
    <3>. QED  BY <3>3 DEF x
  <2>. QED  BY <1>2, <2>1, <2>3
<1>6. Argument(t, 1).text = SubSeq(t, m + 2, Len(t))
  <2>1. Skip(t, 1) = m
    BY <1>1, <1>2, <1>3, SkipStops
  <2>2. Plus1(m) = m + 1 /\ (m + 1) + 1 = m + 2
    BY <1>1, Plus1Of
  <2>. QED  BY <2>1, <2>2 DEF Argument, Substr
<1>. QED  BY <1>4, <1>5, <1>6

\* What the parts of a line are that is a word and a text with space around it.
Spans(line, word, i, j, k) ==
  /\ i \in 1..Len(line) /\ j \in Nat /\ k \in 1..Len(line)
  /\ i + 1 < j /\ j <= k
  /\ line[i] = word /\ ~IsSpace(word)
  /\ \A p \in (1..(i - 1)) \cup ((k + 1)..Len(line)) : IsSpace(line[p])
  /\ \A p \in (i + 1)..(j - 1) : line[p] = Blank
  /\ line[j] # Blank /\ ~IsSpace(line[k])

LEMMA TrimOf ==
  ASSUME NEW T, NEW line \in Seq(T), NEW word, NEW i, NEW j, NEW k,
         Spans(line, word, i, j, k)
  PROVE  Trim(line) = SubSeq(line, i, k)
<1>. DEFINE solid == {p \in DOMAIN line : ~IsSpace(line[p])}
            left == CHOOSE p \in solid : \A q \in solid : p <= q
            right == CHOOSE p \in solid : \A q \in solid : p >= q
<1>1. /\ i \in 1..Len(line) /\ j \in Nat /\ k \in 1..Len(line) /\ Len(line) \in Nat
      /\ i + 1 < j /\ j <= k
  BY DEF Spans
<1>2. ~IsSpace(line[i]) /\ ~IsSpace(line[k])
  BY DEF Spans
<1>3. \A p \in (1..(i - 1)) \cup ((k + 1)..Len(line)) : IsSpace(line[p])
  BY DEF Spans
<1>4. i \in solid /\ k \in solid
  BY <1>1, <1>2
<1>5. ASSUME NEW p \in solid PROVE p \in Nat /\ i <= p /\ p <= k
  <2>1. p \in 1..Len(line) /\ ~IsSpace(line[p])
    OBVIOUS
  <2>2. p \notin (1..(i - 1)) \cup ((k + 1)..Len(line))
    BY <1>3, <2>1
  <2>. QED  BY <1>1, <2>1, <2>2
<1>6. Trim(line) = IF solid = {} THEN line ELSE SubSeq(line, left, right)
  BY DEF Trim
<1>. HIDE DEF solid
<1>7. left = i
  <2>1. left \in solid /\ \A q \in solid : left <= q
    BY <1>4, <1>5
  <2>. HIDE DEF left
  <2>. QED  BY <1>1, <1>4, <1>5, <2>1
<1>8. right = k
  <2>1. right \in solid /\ \A q \in solid : right >= q
    <3>1. \A q \in solid : k >= q
      BY <1>1, <1>5
    <3>. QED  BY <1>4, <3>1
  <2>. HIDE DEF right
  <2>. QED  BY <1>1, <1>4, <1>5, <2>1
<1>. HIDE DEF left, right
<1>. QED  BY <1>4, <1>6, <1>7, <1>8

\* What the shell takes for the command and the text of a line is what they mean.
Reads(line, word, text) ==
  LET t == Trim(line) IN
  /\ Command(t) = <<word>>
  /\ t \notin {<<Word("exit")>>, <<Word("quit")>>}
  /\ Argument(t, Find(t, 0)).text = text

LEMMA MeansReads ==
  ASSUME NEW T, NEW line \in Seq(T), Len(line) + 1 < Npos, NEW word, ~IsSpace(word),
         NEW text, Means(line, word, text)
  PROVE  Reads(line, word, text)
<1>0. DOMAIN line = 1..Len(line) /\ Len(line) \in Nat
  OBVIOUS
<1>1. PICK i \in 1..Len(line), j \in 1..Len(line), k \in 1..Len(line) :
        /\ i + 1 < j /\ j <= k
        /\ line[i] = word
        /\ \A p \in (1..(i - 1)) \cup ((k + 1)..Len(line)) : IsSpace(line[p])
        /\ \A p \in (i + 1)..(j - 1) : line[p] = Blank
        /\ line[j] # Blank /\ ~IsSpace(line[k])
        /\ text = SubSeq(line, j, k)
  BY <1>0 DEF Means
<1>2. i \in 1..Len(line) /\ j \in 1..Len(line) /\ k \in 1..Len(line) /\ Len(line) \in Nat
  OBVIOUS
<1>3. Spans(line, word, i, j, k)
  <2>1. j \in Nat
    BY <1>2
  <2>. QED  BY <1>1, <1>2, <2>1 DEF Spans
<1>. DEFINE t == SubSeq(line, i, k)
            m == j - i - 1
            n == k - i + 1
<1>4. Trim(line) = t
  BY <1>3, TrimOf
<1>5. /\ m \in Nat \ {0} /\ m + 1 < n /\ n \in Nat /\ n <= Len(line)
      /\ i + (m + 2) - 1 = j /\ i + n - 1 = k /\ k - i + 1 = n
  BY <1>1, <1>2
<1>6. i \in Nat /\ j \in Nat /\ k \in Nat /\ j = i + m + 1 /\ k = i + n - 1
  BY <1>2
<1>7. k - j + 1 = n - m - 1
  BY <1>2
<1>. HIDE DEF m, n
<1>8. m \in Nat /\ n \in Nat /\ m + 1 < n
  BY <1>5
<1>9. t \in Seq(T) /\ Len(t) = n /\ \A p \in 1..n : t[p] = line[i + p - 1]
  <2>1. i \in Int /\ k \in Int /\ i <= k /\ \A p \in i..k : line[p] \in T
    BY <1>1, <1>2
  <2>2. /\ t \in Seq(T) /\ Len(t) = IF i <= k THEN k - i + 1 ELSE 0
        /\ \A p \in 1..(k - i + 1) : t[p] = line[i + p - 1]
    BY <2>1, SubSeqProperties
  <2>. HIDE DEF t
  <2>. QED  BY <1>5, <2>1, <2>2
<1>. HIDE DEF t
<1>10. TextBehind(t, word, m)
  <2>1. m + 1 < Len(t) /\ Len(t) + 1 < Npos
    <3>1. Npos \in Nat
      BY ToolsAssumption DEF ToolsAssumption
    <3>. QED  BY <1>2, <1>5, <1>9, <3>1
  <2>2. t[1] = word /\ word # Blank
    <3>1. 1 \in 1..n /\ i + 1 - 1 = i
      BY <1>2, <1>5
    <3>2. t[1] = line[i]
      BY <1>9, <3>1
    <3>. QED  BY <1>1, <3>2 DEF IsSpace
  <2>3. ASSUME NEW p \in 2..(m + 1) PROVE t[p] = Blank
    <3>1. p \in 1..n /\ i + p - 1 \in (i + 1)..(j - 1)
      BY <1>6, <1>8
    <3>2. line[i + p - 1] = Blank
      BY <1>1, <3>1
    <3>. QED  BY <1>9, <3>1, <3>2
  <2>4. t[m + 2] # Blank
    <3>1. m + 2 \in 1..n
      BY <1>5
    <3>2. t[m + 2] = line[j]
      BY <1>5, <1>9, <3>1
    <3>. QED  BY <1>1, <3>2
  <2>. QED  BY <1>5, <2>1, <2>2, <2>3, <2>4 DEF TextBehind
<1>11. /\ Find(t, 0) = 1 /\ Command(t) = <<word>>
      /\ Argument(t, 1).text = SubSeq(t, m + 2, n)
  BY <1>9, <1>10, TextOf
<1>12. SubSeq(t, m + 2, n) = text
  <2>. DEFINE x == SubSeq(t, m + 2, n)
              y == SubSeq(line, j, k)
  <2>1. m + 2 \in Int /\ n \in Int /\ m + 2 <= n /\ \A p \in (m + 2)..n : t[p] \in T
    BY <1>5, <1>9
  <2>2. /\ x \in Seq(T) /\ Len(x) = IF m + 2 <= n THEN n - (m + 2) + 1 ELSE 0
        /\ \A p \in 1..(n - (m + 2) + 1) : x[p] = t[(m + 2) + p - 1]
    BY <2>1, SubSeqProperties
  <2>3. j \in Int /\ k \in Int /\ j <= k /\ \A p \in j..k : line[p] \in T
    BY <1>1, <1>2
  <2>4. /\ y \in Seq(T) /\ Len(y) = IF j <= k THEN k - j + 1 ELSE 0
        /\ \A p \in 1..(k - j + 1) : y[p] = line[j + p - 1]
    BY <2>3, SubSeqProperties
  <2>. HIDE DEF x, y
  <2>5. n - (m + 2) + 1 = k - j + 1 /\ Len(x) = k - j + 1 /\ Len(y) = k - j + 1
    <3>1. n - (m + 2) + 1 = k - j + 1 /\ m + 2 <= n /\ j <= k
      BY <1>6, <1>8
    <3>. QED  BY <2>2, <2>4, <3>1
  <2>6. ASSUME NEW p \in 1..(k - j + 1) PROVE x[p] = y[p]
    <3>1. (m + 2) + p - 1 \in 1..n /\ i + ((m + 2) + p - 1) - 1 = j + p - 1
      <4>1. p \in Nat /\ 1 <= p /\ p <= n - m - 1
        <5>1. p \in 1..(n - m - 1)
          BY <1>7
        <5>. QED  BY <1>8, <5>1
      <4>2. (m + 2) + p - 1 \in 1..n
        BY <1>8, <4>1
      <4>3. i + ((m + 2) + p - 1) - 1 = j + p - 1
        BY <1>6, <1>8, <4>1
      <4>. QED  BY <4>2, <4>3
    <3>2. x[p] = t[(m + 2) + p - 1]
      BY <2>2, <2>5
    <3>3. t[(m + 2) + p - 1] = line[i + ((m + 2) + p - 1) - 1]
      BY <1>9, <3>1
    <3>4. y[p] = line[j + p - 1]
      BY <2>4
    <3>. QED  BY <3>1, <3>2, <3>3, <3>4
  <2>7. x = y
    BY <2>2, <2>4, <2>5, <2>6, SeqEqual
  <2>. QED  BY <1>1, <2>7 DEF x, y
<1>13. t \notin {<<Word("exit")>>, <<Word("quit")>>}
  <2>1. Len(t) # 1
    BY <1>5, <1>9
  <2>2. \A w : Len(<<w>>) = 1
    OBVIOUS
  <2>. QED  BY <2>1, <2>2
<1>. QED  BY <1>4, <1>11, <1>12, <1>13 DEF Reads

-----------------------------------------------------------------------------
(* The calls of the shell *)

RoundTripInv ==
  /\ inStep \in BOOLEAN
  /\ tool # "shell" => last = Nothing
  /\ RoundTrip

LEMMA RoundTripInit == Init => RoundTripInv
BY DEF Init, RoundTripInv, RoundTrip, Nothing

\* A text that is printed, with the connection in step, is the right one.
LEMMA CallIsRight ==
  ASSUME RoundTripInv, NEW op, NEW line, Call(op, line), last'.what = "text",
         server => inStep'
  PROVE  /\ last'.line = line
         /\ last'.text = Right(op, Argument(Trim(line), Find(Trim(line), 0)).text)
<1>. DEFINE idx == Find(Trim(line), 0)
            argument == Argument(Trim(line), idx)
            text == argument.text
<1>1. ~Says0(line)
  BY DEF Says0, Says
<1>2. PICK outcome \in Outcomes(op, text) :
        /\ StillInStep(outcome)
        /\ IF outcome.text = <<>>
             THEN Says(line, "message", <<>>)
             ELSE Says(line, "text", outcome.text)
  BY <1>1 DEF Call
<1>. HIDE DEF text
<1>3. outcome.text # <<>>
  BY <1>2 DEF Says
<1>4. last'.line = line /\ last'.text = outcome.text
  BY <1>2, <1>3 DEF Says
<1>5. server => inStep
  BY <1>2 DEF StillInStep, RoundTripInv
<1>6. outcome.text \in {<<>>, Right(op, text)}
  BY <1>2, <1>5 DEF Outcomes, Remote, Library, Text, Thrown
<1>. QED  BY <1>3, <1>4, <1>6 DEF text

LEMMA RoundTripStep == RoundTripInv /\ [Next]_vars => RoundTripInv'
<1>. SUFFICES ASSUME RoundTripInv, [Next]_vars PROVE RoundTripInv'
  OBVIOUS
<1>1. CASE UNCHANGED <<tool, server, key, last>> /\ inStep' \in BOOLEAN /\ (inStep' => inStep)
  <2>1. /\ tool' = tool /\ server' = server /\ key' = key /\ last' = last
        /\ inStep' \in BOOLEAN /\ (inStep' => inStep)
    BY <1>1
  <2>. QED  BY <2>1 DEF RoundTripInv, RoundTrip
<1>2. CASE last' = Nothing /\ inStep' \in BOOLEAN
  BY <1>2 DEF RoundTripInv, RoundTrip, Nothing
<1>3. CASE UNCHANGED vars \/ EmptyLine
  <2>1. UNCHANGED <<tool, server, key, last>> /\ inStep' = inStep
    BY <1>3 DEF vars, session, EmptyLine
  <2>. QED  BY <1>1, <2>1 DEF RoundTripInv
<1>4. CASE EndOfInput
  <2>1. UNCHANGED <<tool, server, key, last>> /\ inStep' = inStep
    BY <1>4 DEF EndOfInput, session
  <2>. QED  BY <1>1, <2>1 DEF RoundTripInv
<1>5. CASE ParseShell \/ ParseCli
  <2>1. tool = "none" /\ last' = last /\ inStep' = inStep
    BY <1>5 DEF ParseShell, ParseCli, ChooseKey, session
  <2>. QED  BY <1>2, <2>1 DEF RoundTripInv
<1>6. CASE Connect \/ CallAndPrint \/ Return
  <2>1. UNCHANGED <<tool, server, key, last>>
    BY <1>6 DEF Connect, CallAndPrint, Return, session
  <2>2. inStep' = inStep \/ \E outcome : StillInStep(outcome)
    BY <1>6 DEF Connect, CallAndPrint, Return
  <2>3. inStep' \in BOOLEAN /\ (inStep' => inStep)
    <3>1. inStep \in BOOLEAN
      BY DEF RoundTripInv
    <3>2. CASE inStep' = inStep
      BY <3>1, <3>2
    <3>3. ASSUME NEW outcome, StillInStep(outcome)
          PROVE  inStep' \in BOOLEAN /\ (inStep' => inStep)
      <4>1. inStep' = (inStep /\ outcome.text # <<>>)
        BY <3>3 DEF StillInStep
      <4>. QED  BY <3>1, <4>1
    <3>. QED  BY <2>2, <3>2, <3>3
  <2>. QED  BY <1>1, <2>1, <2>3
<1>7. ASSUME NEW line \in Lines, ReadLine(line) PROVE RoundTripInv'
  <2>. DEFINE word == Command(Trim(line))
  <2>1. tool = "shell" /\ tool' = tool /\ server' = server /\ key' = key
    BY <1>7 DEF ReadLine, Reading
  <2>2. \/ /\ Trim(line) \in {<<Word("exit")>>, <<Word("quit")>>}
           /\ inStep' = inStep /\ last' = last
        \/ word = <<Word("enc")>> /\ Call("encrypt", line)
        \/ word = <<Word("dec")>> /\ Call("decrypt", line)
        \/ Says0(line)
    BY <1>7 DEF ReadLine
  <2>. HIDE DEF word
  <2>3. CASE Trim(line) \in {<<Word("exit")>>, <<Word("quit")>>} /\ inStep' = inStep /\ last' = last
    BY <1>1, <2>1, <2>3 DEF RoundTripInv
  <2>4. CASE Says0(line)
    <3>1. last'.what = "message" /\ inStep' = inStep
      BY <2>4 DEF Says0, Says
    <3>. QED  BY <2>1, <3>1 DEF RoundTripInv, RoundTrip
  <2>5. ASSUME NEW op, Call(op, line),
               \/ op = "encrypt" /\ word = <<Word("enc")>>
               \/ op = "decrypt" /\ word = <<Word("dec")>>
        PROVE  RoundTripInv'
    <3>1. inStep' \in BOOLEAN
      BY <2>5 DEF Call, Says0, StillInStep, RoundTripInv
    <3>2. ASSUME last'.what = "text", server => inStep',
                 NEW text
          PROVE  /\ Means(last'.line, Word("enc"), text) => last'.text = <<Sealed(key, text)>>
                 /\ Means(last'.line, Word("dec"), text) /\ IsSealed(text) /\ text[1][2] = key =>
                      last'.text = text[1][3]
      <4>1. /\ last'.line = line
            /\ last'.text = Right(op, Argument(Trim(line), Find(Trim(line), 0)).text)
        BY <2>5, <3>2, CallIsRight
      <4>2. /\ line \in Seq({line[i] : i \in DOMAIN line})
            /\ Len(line) + 1 < Npos
        BY ToolsAssumption DEF ToolsAssumption
      <4>3. ~IsSpace(Word("enc")) /\ ~IsSpace(Word("dec"))
        BY DEF IsSpace, Word, Blank, Tab
      <4>4. <<Word("enc")>> # <<Word("dec")>>
        BY DEF Word
      <4>5. ASSUME Means(line, Word("enc"), text) PROVE last'.text = <<Sealed(key, text)>>
        <5>1. Reads(line, Word("enc"), text)
          BY <4>2, <4>3, <4>5, MeansReads
        <5>2. word = <<Word("enc")>>
              /\ Argument(Trim(line), Find(Trim(line), 0)).text = text
          BY <5>1 DEF Reads, word
        <5>3. op = "encrypt"
          BY <2>5, <4>4, <5>2
        <5>. QED  BY <4>1, <5>2, <5>3 DEF Right
      <4>6. ASSUME Means(line, Word("dec"), text), IsSealed(text), text[1][2] = key
            PROVE  last'.text = text[1][3]
        <5>1. Reads(line, Word("dec"), text)
          BY <4>2, <4>3, <4>6, MeansReads
        <5>2. word = <<Word("dec")>>
              /\ Argument(Trim(line), Find(Trim(line), 0)).text = text
          BY <5>1 DEF Reads, word
        <5>3. op = "decrypt"
          BY <2>5, <4>4, <5>2
        <5>. QED  BY <4>1, <4>6, <5>2, <5>3 DEF Right
      <4>. QED  BY <4>1, <4>5, <4>6
    <3>3. RoundTrip'
      BY <2>1, <3>2 DEF RoundTrip
    <3>. QED  BY <2>1, <3>1, <3>3 DEF RoundTripInv
  <2>. QED  BY <2>2, <2>3, <2>4, <2>5
<1>. QED  BY <1>3, <1>4, <1>5, <1>6, <1>7 DEF Next

\* key(), encrypt() and decrypt() of src/src/shell/main.cpp: whatever lines came before,
\* the shell encrypts the whole text of a line with the blanks in it, and decrypts
\* what was encrypted with its key to that text.
THEOREM TextsAreWhole == Spec => []RoundTrip
<1>1. RoundTripInv => RoundTrip
  BY DEF RoundTripInv
<1>. QED  BY <1>1, RoundTripInit, RoundTripStep, PTL DEF Spec

=============================================================================
