------------------------ MODULE TerminalEngineProofs ------------------------
(***************************************************************************)
(* What TLAPS proves about TerminalEngine, for any number of steps, of     *)
(* writers, of runs, of changes of the engine and of reports.              *)
(*                                                                         *)
(* What an output says about a step is a recursive function of its lines.  *)
(* The induction theorems of the library cannot be used on it, so the      *)
(* lemmas of the first part argue with the least number that breaks what   *)
(* is to be shown: the function exists, and one more line makes it longer  *)
(* by what that line says, or leaves it alone.                             *)
(***************************************************************************)
EXTENDS TerminalEngine, SequenceTheorems, WellFoundedInduction, TLAPS

Says == {"wait", "run"} \union Outcomes \union ReportLines

-----------------------------------------------------------------------------
(* The story a log tells.                                                  *)

\* A set of natural numbers that is not empty has a least one.
LEMMA Least ==
    ASSUME NEW S \in SUBSET Nat, S # {}
    PROVE  \E n \in S : \A m \in S : n <= m
<1>1. \E n \in S : \A m \in S : <<m, n>> \notin OpToRel(<, Nat)
  BY NatLessThanWellFounded, WFMin, Zenon
<1>2. PICK n \in S : \A m \in S : <<m, n>> \notin OpToRel(<, Nat)
  BY <1>1
<1>3. \A m \in S : ~ m < n
  BY <1>2 DEF OpToRel
<1>4. \A m \in S : n <= m
  BY <1>3
<1> QED BY <1>4

\* One step of the recursion of About.
Telling(log, s, f, n) ==
    IF n = 0 THEN <<>>
    ELSE IF log[n].step = s THEN Append(f[n - 1], log[n].says)
    ELSE f[n - 1]

\* The recursion has a solution for a log of any length.
LEMMA TellingExists ==
    ASSUME NEW log, NEW s
    PROVE  \A L \in Nat : \E f : f = [n \in 0..L |-> Telling(log, s, f, n)]
<1> DEFINE Solves(f, m) == f = [n \in 0..m |-> Telling(log, s, f, n)]
           Bad == {m \in Nat : ~ \E f : Solves(f, m)}
<1> SUFFICES ASSUME Bad # {} PROVE FALSE
  OBVIOUS
<1>1. PICK m \in Bad : \A k \in Bad : m <= k
  <2>1. Bad \in SUBSET Nat
    OBVIOUS
  <2> HIDE DEF Bad
  <2> QED BY <2>1, Least
<1>2. CASE m = 0
  <2> DEFINE f == [n \in 0..0 |-> <<>>]
  <2>1. Solves(f, 0)
    BY DEF Telling
  <2> QED BY <2>1, <1>1, <1>2
<1>3. CASE m # 0
  <2>1. m \in Nat /\ m - 1 \in Nat /\ ~(m <= m - 1) /\ m \notin 0..(m - 1)
    BY <1>3, <1>1
  <2>2. PICK f : Solves(f, m - 1)
    BY <2>1, <1>1
  <2> DEFINE g == [n \in 0..m |-> IF n = m THEN Telling(log, s, f, m) ELSE f[n]]
  <2>3. \A n \in 0..m : g[n] = Telling(log, s, g, n)
    <3> TAKE n \in 0..m
    <3>1. CASE n = m
      <4>1. n - 1 \in 0..m /\ n - 1 # m
        BY <3>1, <2>1
      <4> QED BY <3>1, <4>1, <1>3 DEF Telling
    <3>2. CASE n = 0
      <4>1. n \in 0..(m - 1) /\ n # m
        BY <3>2, <2>1
      <4> QED BY <3>2, <4>1, <2>2 DEF Telling
    <3>3. CASE n # 0 /\ n # m
      <4>1. n \in 0..(m - 1) /\ n - 1 \in 0..m /\ n - 1 # m
        BY <3>3, <2>1
      <4> QED BY <3>3, <4>1, <2>2 DEF Telling
    <3> QED BY <3>1, <3>2, <3>3
  <2>4. Solves(g, m)
    BY <2>3, Zenon
  <2> QED BY <2>4, <1>1
<1> QED BY <1>2, <1>3

\* About is the last value of a solution.
LEMMA AboutIs ==
    ASSUME NEW log, NEW s, Len(log) \in Nat
    PROVE  \E f : /\ f = [n \in 0..Len(log) |-> Telling(log, s, f, n)]
                  /\ About(log, s) = f[Len(log)]
<1>1. \E f : f = [n \in 0..Len(log) |-> Telling(log, s, f, n)]
  BY TellingExists
<1> QED BY <1>1, Zenon DEF About, Telling

\* An empty log says nothing of a step.
LEMMA AboutNothing ==
    ASSUME NEW s
    PROVE  About(<<>>, s) = <<>>
<1>1. Len(<<>>) = 0 /\ Len(<<>>) \in Nat
  OBVIOUS
<1>2. PICK f : /\ f = [n \in 0..Len(<<>>) |-> Telling(<<>>, s, f, n)]
               /\ About(<<>>, s) = f[Len(<<>>)]
  BY <1>1, AboutIs
<1>3. f[0] = Telling(<<>>, s, f, 0)
  BY <1>1, <1>2
<1> QED BY <1>1, <1>2, <1>3 DEF Telling

\* A further line adds what it says to the story of its step, and leaves
\* every other story alone.
LEMMA AboutAppend ==
    ASSUME NEW log \in Seq(Entries), NEW s, NEW e \in Entries
    PROVE  About(Append(log, e), s) =
              IF e.step = s THEN Append(About(log, s), e.says) ELSE About(log, s)
<1> DEFINE new == Append(log, e)
           L == Len(log)
<1>1. /\ L \in Nat /\ Len(new) = L + 1 /\ Len(new) \in Nat
      /\ new[L + 1] = e /\ \A n \in 1..L : new[n] = log[n]
  OBVIOUS
<1>2. PICK f : /\ f = [n \in 0..L |-> Telling(log, s, f, n)]
               /\ About(log, s) = f[L]
  BY <1>1, AboutIs
<1> HIDE DEF new, L
<1>3. PICK g : /\ g = [n \in 0..Len(new) |-> Telling(new, s, g, n)]
               /\ About(new, s) = g[Len(new)]
  BY <1>1, AboutIs
<1>4. \A n \in 0..L : g[n] = f[n]
  <2> DEFINE Bad == {n \in 0..L : g[n] # f[n]}
  <2> SUFFICES ASSUME Bad # {} PROVE FALSE
    OBVIOUS
  <2>1. PICK m \in Bad : \A k \in Bad : m <= k
    <3>1. Bad \in SUBSET Nat
      BY <1>1
    <3> HIDE DEF Bad
    <3> QED BY <3>1, Least
  <2>2. m \in 0..L /\ m \in 0..Len(new) /\ g[m] # f[m]
    BY <1>1, <2>1
  <2>3. g[m] = Telling(new, s, g, m) /\ f[m] = Telling(log, s, f, m)
    BY <1>2, <1>3, <2>2
  <2>4. m # 0
    BY <2>2, <2>3 DEF Telling
  <2>5. m \in 1..L /\ m - 1 \in 0..L /\ ~(m <= m - 1)
    BY <1>1, <2>2, <2>4
  <2>6. g[m - 1] = f[m - 1]
    BY <2>1, <2>5
  <2>7. new[m] = log[m]
    BY <1>1, <2>5
  <2> QED BY <2>2, <2>3, <2>6, <2>7, Zenon DEF Telling
<1>5. g[L + 1] = Telling(new, s, g, L + 1)
  BY <1>1, <1>3
<1>6. L + 1 # 0 /\ (L + 1) - 1 = L /\ L \in 0..L
  BY <1>1
<1>7. g[L] = f[L]
  BY <1>4, <1>6
<1>8. About(new, s) = IF e.step = s THEN Append(f[L], e.says) ELSE f[L]
  BY <1>1, <1>3, <1>5, <1>6, <1>7 DEF Telling
<1> QED BY <1>2, <1>8 DEF new
-----------------------------------------------------------------------------
(* The inductive invariant.                                                *)

\* The style the engine shows steps in: the caller's choice since the output
\* was chosen, and else that of the output.
Fitting(choice, mode) == IF choice = None THEN DetectStyle(mode) ELSE choice

EngineInv == engine.style = Fitting(chosen, engine.mode)

\* A step keeps style and output, and its bar is redrawn until it is done.
StepInv(s) ==
    step[s].phase # "none" =>
        /\ step[s].style = Fitting(step[s].chosen, step[s].mode)
        /\ step[s].line.mode = LineMode(step[s].mode)
        /\ step[s].phase = "open" => step[s].line.shows \in {"wait", "run"}
        /\ step[s].phase = "failing" =>
              step[s].line.shows = "fail" /\ step[s].mode # Interactive
        /\ step[s].phase = "done" => step[s].line.shows \in Outcomes

\* A printed line is about a step that prints to this output.
LogInv(w) ==
    \A i \in DOMAIN out[w] :
        LET e == out[w][i] IN
            /\ step[e.step].phase # "none" /\ step[e.step].mode = w
            /\ e.style = step[e.step].style

\* What is told of a step while it runs, and after a failure.
Runs(n) == [i \in 1..n |-> "run"]
Told(n) == <<"wait">> \o Runs(n)
FailText(n, report) == (Told(n) \o <<"fail">>) \o ReportText(report)

StoryInv(w, s) ==
    /\ Story(w, s) \in Seq(Says)
    /\ IF step[s].phase = "none" \/ w # step[s].mode THEN Story(w, s) = <<>>
       ELSE IF step[s].phase = "open" THEN Story(w, s) = Told(step[s].runs)
       ELSE IF step[s].line.shows # "fail"
            THEN Story(w, s) = Told(step[s].runs) \o <<step[s].line.shows>>
       ELSE \E report \in Reports :
                Story(w, s) \o step[s].report = FailText(step[s].runs, report)

StoriesInv == \A s \in Steps, w \in Plain : StoryInv(w, s)

IInv ==
    /\ TypeOK /\ EngineInv
    /\ \A s \in Steps : StepInv(s)
    /\ \A w \in Plain : LogInv(w)
    /\ StoriesInv

\* The initial states satisfy the invariant.
LEMMA InitInv == Init => IInv
<1> SUFFICES ASSUME Init PROVE IInv
  OBVIOUS
<1>1. TypeOK
  <2>1. engine \in Engines
    BY DEF Init, New, DetectMode, DetectStyle, Engines, Plain, Styles
  <2>2. Line!NewLine("plain") \in Line!Lines
    BY DEF Line!NewLine, Line!Lines, Line!Modes, Line!Displays
  <2>3. \A s \in Steps : step[s] \in StepType
    BY <2>2, EngineAssumption DEF Init, StepType, Phases, Plain, Styles
  <2>4. step \in [Steps -> StepType]
    BY <2>3 DEF Init
  <2>5. \A w \in Plain : <<>> \in Seq(Entries)
    OBVIOUS
  <2>6. out \in [Plain -> Seq(Entries)]
    BY <2>5 DEF Init
  <2> QED BY <2>1, <2>4, <2>6, EngineAssumption DEF Init, TypeOK
<1>2. EngineInv
  BY DEF Init, New, EngineInv, Fitting, None
<1>3. \A s \in Steps : StepInv(s)
  BY DEF Init, StepInv
<1>4. \A w \in Plain : LogInv(w)
  BY DEF Init, LogInv
<1>5. StoriesInv
  <2> SUFFICES ASSUME NEW s \in Steps, NEW w \in Plain PROVE StoryInv(w, s)
    BY DEF StoriesInv
  <2>1. Story(w, s) = <<>>
    BY AboutNothing DEF Init, Story
  <2> QED BY <2>1 DEF Init, StoryInv
<1> QED BY <1>1, <1>2, <1>3, <1>4, <1>5 DEF IInv

-----------------------------------------------------------------------------
(* A line of a step, as its methods leave it.                              *)

\* What every method of a line keeps and what it shows.
LEMMA LineKeeps ==
    ASSUME NEW l \in Line!Lines
    PROVE  /\ Line!Run(l) \in Line!Lines /\ Line!Run(l).mode = l.mode
           /\ Line!Run(l).shows = "run" /\ Line!Run(l).finished = l.finished
           /\ Line!Wait(l) \in Line!Lines /\ Line!Wait(l).mode = l.mode
           /\ Line!Wait(l).shows = "wait" /\ Line!Wait(l).finished = l.finished
<1> USE DEF Line!Lines, Line!Modes, Line!Displays
<1>1. (l.visible \/ l.mode = "plain") \in BOOLEAN
  BY Zenon
<1>2. Line!Draw(l, "run") \in Line!Lines /\ Line!Draw(l, "wait") \in Line!Lines
  BY <1>1 DEF Line!Draw
<1> QED BY <1>2 DEF Line!Run, Line!Wait, Line!Draw

\* What ends a line shows how it ended and finishes its bar.
LEMMA LineEnds ==
    ASSUME NEW l \in Line!Lines
    PROVE  /\ \A m \in {Line!Success(l), Line!Skip(l), Line!FailInsert(l)} :
                 /\ m \in Line!Lines /\ m.mode = l.mode
                 /\ l.mode = "interactive" => m.finished
           /\ Line!Success(l).shows = "ok" /\ Line!Skip(l).shows = "skip"
           /\ Line!FailInsert(l).shows = "fail"
<1> USE DEF Line!Lines, Line!Modes, Line!Displays
<1>1. (l.visible \/ l.mode = "plain") \in BOOLEAN /\ (l.mode = "interactive") \in BOOLEAN
  BY Zenon
<1>2. \A what \in {"ok", "skip", "fail"} :
         /\ Line!Finish(Line!Draw(l, what)) \in Line!Lines
         /\ Line!Finish(Line!Draw(l, what)).mode = l.mode
         /\ Line!Finish(Line!Draw(l, what)).shows = what
         /\ l.mode = "interactive" => Line!Finish(Line!Draw(l, what)).finished
  BY <1>1 DEF Line!Draw, Line!Finish
<1> QED BY <1>2 DEF Line!Success, Line!Skip, Line!FailInsert, Line!Fail

-----------------------------------------------------------------------------
(* Sequences.                                                              *)

\* The text of a report has a line, and is a sequence of report lines.
LEMMA ReportTextType ==
    ASSUME NEW report \in Reports
    PROVE  ReportText(report) \in Seq(ReportLines) /\ ReportText(report) # <<>>
<1>1. \A what \in ReportLines, n \in Nat : Part(what, n) \in Seq(ReportLines)
  BY DEF Part, ReportLines
<1>2. \A what \in ReportLines, n \in Nat : Bordered(what, n) \in Seq(ReportLines)
  <2> SUFFICES ASSUME NEW what \in ReportLines, NEW n \in Nat
               PROVE  Bordered(what, n) \in Seq(ReportLines)
    OBVIOUS
  <2>1. <<"border">> \in Seq(ReportLines) /\ <<>> \in Seq(ReportLines)
    BY DEF ReportLines
  <2>2. <<"border">> \o Part(what, n) \in Seq(ReportLines)
    BY <2>1, <1>1, ConcatProperties
  <2> QED BY <2>1, <2>2 DEF Bordered
<1>3. /\ report.issue \in Nat \ {0} /\ report.context \in Nat /\ report.solution \in Nat
      /\ {"issue", "context", "solution"} \subseteq ReportLines
  BY EngineAssumption DEF ReportLines
<1> DEFINE a == Bordered("issue", report.issue)
           b == Bordered("context", report.context)
           c == Bordered("solution", report.solution)
<1>4. a \in Seq(ReportLines) /\ b \in Seq(ReportLines) /\ c \in Seq(ReportLines)
  BY <1>2, <1>3
<1>5. Len(a) > 0
  <2>1. a = <<"border">> \o Part("issue", report.issue)
    BY <1>3 DEF Bordered
  <2>2. Part("issue", report.issue) \in Seq(ReportLines)
    BY <1>1, <1>3
  <2>3. <<"border">> \in Seq(ReportLines) /\ Len(<<"border">>) = 1
    BY DEF ReportLines
  <2> QED BY <2>1, <2>2, <2>3, ConcatProperties
<1> HIDE DEF a, b, c
<1>6. (a \o b) \o c \in Seq(ReportLines) /\ Len((a \o b) \o c) > 0
  BY <1>4, <1>5
<1> QED BY <1>6 DEF ReportText, a, b, c

\* Running once more makes the story of the runs longer by one.
LEMMA ToldType ==
    ASSUME NEW n \in Nat
    PROVE  /\ Runs(n) \in Seq(Says) /\ Told(n) \in Seq(Says)
           /\ Append(Told(n), "run") = Told(n + 1)
           /\ Told(0) = <<"wait">>
<1>1. Runs(n) \in Seq(Says) /\ Len(Runs(n)) = n
  BY DEF Runs, Says
<1>2. Runs(n + 1) \in Seq(Says) /\ Len(Runs(n + 1)) = n + 1
  BY DEF Runs, Says
<1>3. <<"wait">> \in Seq(Says) /\ "run" \in Says
  BY DEF Says
<1>4. Told(n) \in Seq(Says) /\ Told(n + 1) \in Seq(Says)
  BY <1>1, <1>2, <1>3, ConcatProperties DEF Told
<1>5. Len(Append(Told(n), "run")) = Len(Told(n + 1))
  BY <1>1, <1>2, <1>3, <1>4, ConcatProperties DEF Told
<1>6. ASSUME NEW i \in 1..Len(Told(n + 1))
      PROVE  Append(Told(n), "run")[i] = Told(n + 1)[i]
  <2>1. Len(Told(n + 1)) = n + 2 /\ Len(Told(n)) = n + 1
    BY <1>1, <1>2, <1>3, ConcatProperties DEF Told
  <2>2. i \in 1..(n + 2)
    BY <2>1
  <2>3. Told(n + 1)[i] = IF i = 1 THEN "wait" ELSE "run"
    BY <1>2, <1>3, <2>2 DEF Told, Runs
  <2>4. i # n + 2 => Told(n)[i] = IF i = 1 THEN "wait" ELSE "run"
    BY <1>1, <1>3, <2>2 DEF Told, Runs
  <2> QED BY <1>4, <2>1, <2>2, <2>3, <2>4
<1>7. Append(Told(n), "run") \in Seq(Says)
  BY <1>3, <1>4
<1>8. Append(Told(n), "run") = Told(n + 1)
  <2> DEFINE x == Append(Told(n), "run")
             y == Told(n + 1)
  <2>1. x \in Seq(Says) /\ y \in Seq(Says) /\ Len(x) = Len(y)
    BY <1>4, <1>5, <1>7
  <2>2. \A i \in 1..Len(y) : x[i] = y[i]
    BY <1>6
  <2> HIDE DEF x, y
  <2>3. x = y
    BY <2>1, <2>2, SeqEqual
  <2> QED BY <2>3 DEF x, y
<1>9. Told(0) = <<"wait">>
  <2>1. Runs(0) = <<>>
    BY DEF Runs
  <2>2. <<"wait">> \o <<>> = <<"wait">>
    BY <1>3, ConcatEmptySeq
  <2> QED BY <2>1, <2>2 DEF Told
<1> QED BY <1>1, <1>4, <1>8, <1>9
-----------------------------------------------------------------------------
(* Changing the engine.                                                    *)

\* No setup touches a step or an output.
LEMMA SetupInv ==
    ASSUME IInv, Setup, engine' \in Engines, chosen' \in Styles \union {None}, EngineInv'
    PROVE  IInv'
<1>1. UNCHANGED <<step, out>> /\ setups' \in 0..MaxSetups
  BY EngineAssumption DEF IInv, TypeOK, Setup
<1>2. TypeOK'
  BY <1>1 DEF IInv, TypeOK
<1>3. (\A s \in Steps : StepInv(s))' /\ (\A w \in Plain : LogInv(w))'
  BY <1>1 DEF IInv, StepInv, LogInv
<1>4. StoriesInv'
  BY <1>1 DEF IInv, StoriesInv, StoryInv, Story
<1> QED BY <1>2, <1>3, <1>4 DEF IInv

\* A new output brings its style, a new writer is for the same kind of
\* output, and a new style is the caller's choice.
LEMMA ConfigureInv == IInv /\ Configure => IInv'
<1> SUFFICES ASSUME IInv, Configure PROVE IInv'
  OBVIOUS
<1>0. /\ engine \in Engines /\ chosen \in Styles \union {None} /\ EngineInv
      /\ Interactive \notin Plain /\ None \notin Styles
  BY EngineAssumption DEF IInv, TypeOK, Interactive, Plain, None, Styles
<1>1. ASSUME NEW mode \in Plain \union {Interactive}, WithRenderMode(mode)
      PROVE  IInv'
  <2>1. DetectStyle(mode) \in Styles
    BY DEF DetectStyle, Styles
  <2>2. engine' = [mode |-> mode, style |-> DetectStyle(mode)] /\ chosen' = None /\ Setup
    BY <1>1 DEF WithRenderMode
  <2>3. engine' \in Engines
    BY <2>1, <2>2 DEF Engines
  <2>4. EngineInv'
    BY <2>2 DEF EngineInv, Fitting
  <2> QED BY <2>2, <2>3, <2>4, SetupInv
<1>2. ASSUME NEW writer \in Writers, WithPlainWriter(writer)
      PROVE  IInv'
  <2>1. /\ engine' = [engine EXCEPT !.mode = IF @ = Interactive THEN @ ELSE writer]
        /\ chosen' = chosen /\ Setup
    BY <1>2 DEF WithPlainWriter
  <2>2. writer \in Plain /\ writer # Interactive
    BY <1>0 DEF Plain
  <2>3. /\ engine'.mode = IF engine.mode = Interactive THEN Interactive ELSE writer
        /\ engine'.style = engine.style /\ engine' \in Engines
    BY <1>0, <2>1, <2>2 DEF Engines
  <2>4. DetectStyle(engine'.mode) = DetectStyle(engine.mode)
    BY <2>2, <2>3 DEF DetectStyle
  <2>5. EngineInv'
    BY <1>0, <2>1, <2>3, <2>4 DEF EngineInv, Fitting
  <2> QED BY <1>0, <2>1, <2>3, <2>5, SetupInv
<1>3. ASSUME NEW style \in Styles, WithStyle(style)
      PROVE  IInv'
  <2>1. engine' = [engine EXCEPT !.style = style] /\ chosen' = style /\ Setup
    BY <1>3 DEF WithStyle
  <2>2. engine' \in Engines /\ engine'.style = style
    BY <1>0, <2>1 DEF Engines
  <2>3. EngineInv'
    BY <1>0, <2>1, <2>2 DEF EngineInv, Fitting
  <2> QED BY <2>1, <2>2, <2>3, SetupInv
<1> QED BY <1>1, <1>2, <1>3 DEF Configure

-----------------------------------------------------------------------------
(* Calls of steps.                                                         *)

\* The line a step prints is added to its own story, in its own output.
LEMMA StoryGrows ==
    ASSUME IInv, NEW s \in Steps, NEW what \in Says,
           step'[s].style \in Styles, step'[s].mode \in Plain \union {Interactive},
           out' = Printed(s, what), NEW q \in Steps, NEW w \in Plain
    PROVE  /\ out' \in [Plain -> Seq(Entries)]
           /\ Story(w, q)' = IF q = s /\ w = step'[s].mode
                             THEN Append(Story(w, q), what) ELSE Story(w, q)
<1> DEFINE e == [step |-> s, says |-> what, style |-> step'[s].style]
           mode == step'[s].mode
<1>1. out \in [Plain -> Seq(Entries)] /\ Interactive \notin Plain
  BY EngineAssumption DEF IInv, TypeOK, Interactive, Plain
<1>2. e \in Entries /\ e.step = s /\ e.says = what
  BY DEF Entries, Says
<1>3. CASE mode = Interactive
  <2>1. out' = out /\ w # mode
    BY <1>1, <1>3 DEF Printed
  <2> QED BY <1>1, <2>1 DEF Story
<1>4. CASE mode # Interactive
  <2>1. mode \in Plain /\ out' = [out EXCEPT ![mode] = Append(@, e)]
    BY <1>4 DEF Printed
  <2> HIDE DEF e
  <2>2. Append(out[mode], e) \in Seq(Entries)
    BY <1>1, <1>2, <2>1
  <2>3. out' \in [Plain -> Seq(Entries)]
    BY <1>1, <2>1, <2>2
  <2>4. out'[w] = IF w = mode THEN Append(out[w], e) ELSE out[w]
    BY <1>1, <2>1
  <2>5. About(Append(out[w], e), q) =
           IF e.step = q THEN Append(About(out[w], q), e.says) ELSE About(out[w], q)
    BY <1>1, <1>2, AboutAppend
  <2>6. Story(w, q)' = About(out'[w], q)
    BY DEF Story
  <2> HIDE DEF mode
  <2> QED BY <1>2, <2>3, <2>4, <2>5, <2>6 DEF Story, mode
<1> QED BY <1>3, <1>4
\* What a call of a step leaves of the invariant but for that step's story.
LEMMA CallKeeps ==
    ASSUME IInv, NEW s \in Steps, NEW new \in StepType, NEW what \in Says,
           step' = [step EXCEPT ![s] = new], out' = Printed(s, what),
           UNCHANGED <<engine, chosen, setups>>,
           new.phase # "none", StepInv(s)',
           step[s].phase # "none" => new.mode = step[s].mode /\ new.style = step[s].style,
           new.phase = "failing" <=> new.report # <<>>,
           new.mode = Interactive => (new.phase = "done" <=> new.line.finished)
    PROVE  TypeOK' /\ EngineInv' /\ (\A q \in Steps : StepInv(q))' /\ (\A w \in Plain : LogInv(w))'
<1>0. /\ step \in [Steps -> StepType] /\ step' \in [Steps -> StepType]
      /\ step'[s] = new /\ \A q \in Steps : q # s => step'[q] = step[q]
      /\ out \in [Plain -> Seq(Entries)]
  BY DEF IInv, TypeOK
<1>1. new.style \in Styles /\ new.mode \in Plain \union {Interactive}
  BY DEF StepType
<1>2. out' \in [Plain -> Seq(Entries)]
  <2>1. CASE Plain = {}
    BY <2>1 DEF Plain
  <2>2. CASE Plain # {}
    BY <1>0, <1>1, <2>2, StoryGrows
  <2> QED BY <2>1, <2>2
<1>3. TypeOK'
  <2>1. /\ engine' \in Engines /\ chosen' \in Styles \union {None}
        /\ setups' \in 0..MaxSetups
    BY DEF IInv, TypeOK
  <2>2. ASSUME NEW q \in Steps
        PROVE  /\ (step[q].phase = "failing")' <=> (step[q].report # <<>>)'
               /\ (step[q].phase # "none" /\ step[q].mode = Interactive)' =>
                     ((step[q].phase = "done")' <=> (step[q].line.finished)')
    BY <1>0 DEF IInv, TypeOK
  <2> QED BY <1>0, <1>2, <2>1, <2>2 DEF TypeOK
<1>4. EngineInv'
  BY DEF IInv, EngineInv
<1>5. (\A q \in Steps : StepInv(q))'
  BY <1>0 DEF IInv, StepInv
<1>6. (\A w \in Plain : LogInv(w))'
  <2> SUFFICES ASSUME NEW w \in Plain, NEW i \in DOMAIN out'[w]
               PROVE  /\ step'[out'[w][i].step].phase # "none"
                      /\ step'[out'[w][i].step].mode = w
                      /\ out'[w][i].style = step'[out'[w][i].step].style
    BY DEF LogInv
  <2> DEFINE e == [step |-> s, says |-> what, style |-> new.style]
  <2>1. out[w] \in Seq(Entries) /\ e \in Entries
    BY <1>0, <1>1 DEF Entries, Says
  <2>2. CASE new.mode = w
    <3>1. out'[w] = Append(out[w], e)
      <4>1. w # Interactive
        BY EngineAssumption DEF Interactive, Plain
      <4> QED BY <1>0, <2>2, <4>1 DEF Printed
    <3>2. CASE i = Len(out[w]) + 1
      <4> HIDE DEF e
      <4>1. out'[w][i] = e
        BY <2>1, <3>1, <3>2
      <4> QED BY <1>0, <2>2, <4>1 DEF e
    <3>3. CASE i # Len(out[w]) + 1
      <4> HIDE DEF e
      <4>1. i \in DOMAIN out[w] /\ out'[w][i] = out[w][i]
        BY <2>1, <3>1, <3>3
      <4>2. /\ step[out[w][i].step].phase # "none" /\ step[out[w][i].step].mode = w
            /\ out[w][i].style = step[out[w][i].step].style
        BY <4>1 DEF IInv, LogInv
      <4>3. out[w][i] \in Entries
        BY <2>1, <4>1
      <4>4. out[w][i].step \in Steps
        BY <4>3 DEF Entries
      <4> QED BY <1>0, <4>1, <4>2, <4>4
    <3> QED BY <3>2, <3>3
  <2>3. CASE new.mode # w
    <3>1. out'[w] = out[w]
      BY <1>0, <1>1, <2>3 DEF Printed
    <3>2. /\ step[out[w][i].step].phase # "none" /\ step[out[w][i].step].mode = w
          /\ out[w][i].style = step[out[w][i].step].style
      BY <3>1 DEF IInv, LogInv
    <3>3. out[w][i] \in Entries
      BY <2>1, <3>1
    <3>4. out[w][i].step \in Steps
      BY <3>3 DEF Entries
    <3> QED BY <1>0, <3>1, <3>2, <3>4
  <2> QED BY <2>2, <2>3
<1> QED BY <1>3, <1>4, <1>5, <1>6

\* ... and with its story the whole of it.
LEMMA CallInv ==
    ASSUME IInv, NEW s \in Steps, NEW new \in StepType, NEW what \in Says,
           step' = [step EXCEPT ![s] = new], out' = Printed(s, what),
           UNCHANGED <<engine, chosen, setups>>,
           new.phase # "none", StepInv(s)',
           step[s].phase # "none" => new.mode = step[s].mode /\ new.style = step[s].style,
           new.phase = "failing" <=> new.report # <<>>,
           new.mode = Interactive => (new.phase = "done" <=> new.line.finished),
           \A w \in Plain :
              w = new.mode /\ Story(w, s)' = Append(Story(w, s), what) => StoryInv(w, s)'
    PROVE  IInv'
<1>0. /\ step \in [Steps -> StepType]
      /\ step'[s] = new /\ \A q \in Steps : q # s => step'[q] = step[q]
  BY DEF IInv, TypeOK
<1>1. new.style \in Styles /\ new.mode \in Plain \union {Interactive}
  BY DEF StepType
<1>2. ASSUME NEW q \in Steps, NEW w \in Plain
      PROVE  StoryInv(w, q)'
  <2>1. Story(w, q)' = IF q = s /\ w = new.mode
                       THEN Append(Story(w, q), what) ELSE Story(w, q)
    BY <1>0, <1>1, StoryGrows
  <2>2. StoryInv(w, q)
    BY DEF IInv, StoriesInv
  <2>3. CASE q # s
    BY <1>0, <2>1, <2>2, <2>3 DEF StoryInv
  <2>4. CASE q = s /\ w # new.mode
    BY <1>0, <2>1, <2>2, <2>4 DEF StoryInv
  <2>5. CASE q = s /\ w = new.mode
    BY <2>1, <2>5
  <2> QED BY <2>3, <2>4, <2>5
<1>3. StoriesInv'
  BY <1>2 DEF StoriesInv
<1> QED BY <1>3, CallKeeps DEF IInv
\* Where an open step stands, told in the words of its story.
LEMMA OpenStep ==
    ASSUME IInv, NEW s \in Steps, step[s].phase = "open"
    PROVE  /\ step[s] \in StepType /\ step[s].line \in Line!Lines
           /\ step[s].runs \in Nat /\ step[s].report = <<>>
           /\ step[s].line.mode = LineMode(step[s].mode)
           /\ step[s].style = Fitting(step[s].chosen, step[s].mode)
           /\ step[s].mode = Interactive <=> step[s].line.mode = "interactive"
           /\ step[s].mode = Interactive => ~step[s].line.finished
           /\ \A w \in Plain : w = step[s].mode => Story(w, s) = Told(step[s].runs)
<1>1. /\ step[s] \in StepType /\ step[s].report = <<>> /\ StepInv(s)
      /\ step[s].mode = Interactive => ~(step[s].line.finished)
  BY DEF IInv, TypeOK
<1>2. step[s].line \in Line!Lines /\ step[s].runs \in Nat
  BY <1>1, EngineAssumption DEF StepType
<1>3. step[s].mode = Interactive <=> step[s].line.mode = "interactive"
  BY <1>1 DEF StepInv, LineMode
<1>4. ASSUME NEW w \in Plain, w = step[s].mode
      PROVE  Story(w, s) = Told(step[s].runs)
  BY <1>4 DEF IInv, StoriesInv, StoryInv
<1> QED BY <1>1, <1>2, <1>3, <1>4 DEF StepInv

\* A new step waits, and says so where it prints.
LEMMA NewStepInv == ASSUME IInv, NEW s \in Steps, NewStep(s) PROVE IInv'
<1> DEFINE line == Line!Wait(Line!NewLine(LineMode(engine.mode)))
           new == [phase |-> "open", line |-> line, mode |-> engine.mode,
                   style |-> engine.style, chosen |-> chosen, runs |-> 0, report |-> <<>>]
<1>1. /\ engine.mode \in Plain \union {Interactive} /\ engine.style \in Styles
      /\ chosen \in Styles \union {None} /\ engine.style = Fitting(chosen, engine.mode)
  BY DEF IInv, TypeOK, Engines, EngineInv
<1>2. /\ line \in Line!Lines /\ line.mode = LineMode(engine.mode)
      /\ line.shows = "wait" /\ ~line.finished
  <2>1. LineMode(engine.mode) \in Line!Modes
    BY DEF LineMode, Line!Modes
  <2>2. (LineMode(engine.mode) = "interactive") \in BOOLEAN
    BY Zenon
  <2>3. /\ Line!NewLine(LineMode(engine.mode)) \in Line!Lines
        /\ Line!NewLine(LineMode(engine.mode)).mode = LineMode(engine.mode)
        /\ ~Line!NewLine(LineMode(engine.mode)).finished
    BY <2>1, <2>2 DEF Line!NewLine, Line!Lines, Line!Displays
  <2> QED BY <2>3, LineKeeps
<1> HIDE DEF line
<1>3. new \in StepType
  BY <1>1, <1>2, EngineAssumption DEF StepType, Phases
<1>4. /\ step[s].phase = "none" /\ step' = [step EXCEPT ![s] = new]
      /\ out' = Printed(s, "wait") /\ UNCHANGED <<engine, chosen, setups>>
  BY DEF NewStep, line
<1>5. step'[s] = new
  BY <1>4 DEF IInv, TypeOK
<1> HIDE DEF new
<1>6. /\ new.phase = "open" /\ new.line = line /\ new.mode = engine.mode
      /\ new.style = engine.style /\ new.chosen = chosen /\ new.runs = 0 /\ new.report = <<>>
  BY DEF new
<1>7. StepInv(s)'
  BY <1>1, <1>2, <1>5, <1>6 DEF StepInv
<1>8. ASSUME NEW w \in Plain, w = new.mode, Story(w, s)' = Append(Story(w, s), "wait")
      PROVE  StoryInv(w, s)'
  <2>1. Story(w, s) = <<>>
    BY <1>4 DEF IInv, StoriesInv, StoryInv
  <2>2. Story(w, s)' = <<"wait">>
    BY <1>8, <2>1
  <2>3. Told(0) = <<"wait">> /\ Told(0) \in Seq(Says)
    BY ToldType
  <2> QED BY <1>5, <1>6, <1>8, <2>2, <2>3 DEF StoryInv
<1>9. "wait" \in Says
  BY DEF Says
<1> QED BY <1>3, <1>4, <1>6, <1>7, <1>8, <1>9, <1>2, CallInv

\* Running redraws the line and lengthens the story.
LEMMA RunStepInv == ASSUME IInv, NEW s \in Steps, RunStep(s) PROVE IInv'
<1> DEFINE old == step[s]
           new == [old EXCEPT !.line = Line!Run(@), !.runs = @ + 1]
<1>1. /\ old.phase = "open" /\ old.runs < MaxRuns
      /\ out' = Printed(s, "run") /\ UNCHANGED <<engine, chosen, setups>>
  BY DEF RunStep
<1>2. step' = [step EXCEPT ![s] = new]
  BY DEF RunStep
<1>3. /\ old \in StepType /\ old.line \in Line!Lines /\ old.runs \in Nat /\ old.report = <<>>
      /\ old.line.mode = LineMode(old.mode)
      /\ old.style = Fitting(old.chosen, old.mode)
      /\ old.mode = Interactive => ~old.line.finished
      /\ \A w \in Plain : w = old.mode => Story(w, s) = Told(old.runs)
  BY <1>1, OpenStep
<1>4. /\ Line!Run(old.line) \in Line!Lines /\ Line!Run(old.line).mode = old.line.mode
      /\ Line!Run(old.line).shows = "run" /\ Line!Run(old.line).finished = old.line.finished
  BY <1>3, LineKeeps
<1>5. old.runs + 1 \in 0..MaxRuns
  BY <1>1, <1>3, EngineAssumption
<1>6. /\ new \in StepType /\ new.phase = "open" /\ new.line = Line!Run(old.line)
      /\ new.mode = old.mode /\ new.style = old.style /\ new.chosen = old.chosen
      /\ new.runs = old.runs + 1 /\ new.report = <<>>
  BY <1>1, <1>3, <1>4, <1>5 DEF StepType
<1>7. step'[s] = new
  BY <1>2 DEF IInv, TypeOK
<1> HIDE DEF new
<1>8. StepInv(s)'
  BY <1>3, <1>4, <1>6, <1>7 DEF StepInv
<1>9. ASSUME NEW w \in Plain, w = new.mode, Story(w, s)' = Append(Story(w, s), "run")
      PROVE  StoryInv(w, s)'
  <2>1. Story(w, s)' = Append(Told(old.runs), "run")
    BY <1>3, <1>6, <1>9
  <2>2. Append(Told(old.runs), "run") = Told(old.runs + 1)
    BY <1>3, ToldType
  <2>3. Story(w, s)' = Told(new.runs)
    BY <1>6, <2>1, <2>2
  <2>4. old.runs + 1 \in Nat
    BY <1>3
  <2>5. Told(old.runs + 1) \in Seq(Says)
    BY <2>4, ToldType
  <2> QED BY <1>6, <1>7, <1>9, <2>3, <2>5 DEF StoryInv
<1>10. "run" \in Says
  BY DEF Says
<1> QED BY <1>1, <1>2, <1>3, <1>4, <1>6, <1>8, <1>9, <1>10, CallInv

\* Success or skipping ends the line, the step and its story.
LEMMA EndStepInv ==
    ASSUME IInv, NEW s \in Steps, NEW line, NEW what,
           \/ what = "ok" /\ line = Line!Success(step[s].line)
           \/ what = "skip" /\ line = Line!Skip(step[s].line),
           step[s].phase = "open",
           step' = [step EXCEPT ![s].line = line, ![s].phase = "done"],
           out' = Printed(s, what), UNCHANGED <<engine, chosen, setups>>
    PROVE  IInv'
<1> DEFINE old == step[s]
           new == [old EXCEPT !.line = line, !.phase = "done"]
<1>2. step' = [step EXCEPT ![s] = new]
  OBVIOUS
<1>3. /\ old \in StepType /\ old.line \in Line!Lines /\ old.runs \in Nat /\ old.report = <<>>
      /\ old.line.mode = LineMode(old.mode)
      /\ old.style = Fitting(old.chosen, old.mode)
      /\ old.mode = Interactive <=> old.line.mode = "interactive"
      /\ \A w \in Plain : w = old.mode => Story(w, s) = Told(old.runs)
  BY OpenStep
<1>4. /\ line \in Line!Lines /\ line.mode = old.line.mode /\ line.shows = what
      /\ old.mode = Interactive => line.finished
  BY <1>3, LineEnds
<1>6. /\ new \in StepType /\ new.phase = "done" /\ new.line = line
      /\ new.mode = old.mode /\ new.style = old.style /\ new.chosen = old.chosen
      /\ new.runs = old.runs /\ new.report = <<>>
  BY <1>3, <1>4 DEF StepType, Phases
<1>7. step'[s] = new
  BY <1>2 DEF IInv, TypeOK
<1> HIDE DEF new
<1>8. StepInv(s)'
  BY <1>3, <1>4, <1>6, <1>7 DEF StepInv, Outcomes
<1>9. what \in Says /\ what # "fail"
  BY DEF Says, Outcomes
<1>10. ASSUME NEW w \in Plain, w = new.mode, Story(w, s)' = Append(Story(w, s), what)
       PROVE  StoryInv(w, s)'
  <2>1. Told(old.runs) \in Seq(Says)
    BY <1>3, ToldType
  <2>2. Story(w, s)' = Told(old.runs) \o <<what>> /\ Story(w, s)' \in Seq(Says)
    BY <1>3, <1>6, <1>9, <1>10, <2>1
  <2> QED BY <1>4, <1>6, <1>7, <1>9, <1>10, <2>2 DEF StoryInv
<1> QED BY <1>2, <1>4, <1>6, <1>8, <1>9, <1>10, CallInv
\* A failure ends the line; where lines are printed the report is due.
LEMMA FailStepInv ==
    ASSUME IInv, NEW s \in Steps, NEW report \in Reports, FailStep(s, report)
    PROVE  IInv'
<1> DEFINE old == step[s]
           bar == old.mode = Interactive
           line == Line!FailInsert(old.line)
           new == [old EXCEPT !.line = line,
                              !.phase = IF bar THEN "done" ELSE "failing",
                              !.report = IF bar THEN <<>> ELSE ReportText(report)]
<1>1. old.phase = "open" /\ out' = Printed(s, "fail") /\ UNCHANGED <<engine, chosen, setups>>
  BY DEF FailStep
<1>2. step' = [step EXCEPT ![s] = new]
  BY DEF FailStep
<1>3. /\ old \in StepType /\ old.line \in Line!Lines /\ old.runs \in Nat
      /\ old.line.mode = LineMode(old.mode)
      /\ old.style = Fitting(old.chosen, old.mode)
      /\ bar <=> old.line.mode = "interactive"
      /\ \A w \in Plain : w = old.mode => Story(w, s) = Told(old.runs)
  BY <1>1, OpenStep
<1>4. /\ line \in Line!Lines /\ line.mode = old.line.mode /\ line.shows = "fail"
      /\ bar => line.finished
  BY <1>3, LineEnds
<1>5. ReportText(report) \in Seq(ReportLines) /\ ReportText(report) # <<>>
  BY ReportTextType
<1>6. /\ new \in StepType /\ new.line = line
      /\ new.phase = (IF bar THEN "done" ELSE "failing")
      /\ new.mode = old.mode /\ new.style = old.style /\ new.chosen = old.chosen
      /\ new.runs = old.runs /\ new.report = (IF bar THEN <<>> ELSE ReportText(report))
  <2> HIDE DEF bar, line
  <2>1. CASE bar
    <3>1. <<>> \in Seq(ReportLines)
      OBVIOUS
    <3> QED BY <1>3, <1>4, <2>1, <3>1 DEF StepType, Phases
  <2>2. CASE ~bar
    BY <1>3, <1>4, <1>5, <2>2 DEF StepType, Phases
  <2> QED BY <2>1, <2>2
<1>7. step'[s] = new
  BY <1>2 DEF IInv, TypeOK
<1> HIDE DEF new, line
<1>8. StepInv(s)'
  BY <1>3, <1>4, <1>6, <1>7 DEF StepInv, Outcomes
<1>9. "fail" \in Says
  BY DEF Says, Outcomes
<1>10. ASSUME NEW w \in Plain, w = new.mode, Story(w, s)' = Append(Story(w, s), "fail")
       PROVE  StoryInv(w, s)'
  <2>1. ~bar
    BY <1>6, <1>10, EngineAssumption DEF Interactive, Plain
  <2>2. Told(old.runs) \in Seq(Says)
    BY <1>3, ToldType
  <2>3. Story(w, s)' = Told(old.runs) \o <<"fail">> /\ Story(w, s)' \in Seq(Says)
    BY <1>3, <1>6, <1>9, <1>10, <2>2
  <2>4. Story(w, s)' \o step'[s].report = FailText(step'[s].runs, report)
    BY <1>6, <1>7, <2>1, <2>3 DEF FailText
  <2> QED BY <1>4, <1>6, <1>7, <1>10, <2>1, <2>3, <2>4 DEF StoryInv
<1>11. new.phase = "failing" <=> new.report # <<>>
  BY <1>5, <1>6
<1>12. new.mode = Interactive => (new.phase = "done" <=> new.line.finished)
  BY <1>4, <1>6
<1>13. new.phase # "none"
  BY <1>6
<1> QED BY <1>1, <1>2, <1>6, <1>8, <1>9, <1>10, <1>11, <1>12, <1>13, CallInv

\* Printing the first line of what is left does not change the whole.
LEMMA MoveHead ==
    ASSUME NEW S, NEW a \in Seq(S), NEW r \in Seq(S), r # <<>>
    PROVE  Append(a, Head(r)) \o Tail(r) = a \o r
<1> DEFINE x == Append(a, Head(r)) \o Tail(r)
           y == a \o r
<1>1. /\ Head(r) \in S /\ Tail(r) \in Seq(S) /\ Len(r) \in Nat \ {0} /\ Head(r) = r[1]
      /\ Len(Tail(r)) = Len(r) - 1 /\ \A i \in 1..(Len(r) - 1) : Tail(r)[i] = r[i + 1]
  OBVIOUS
<1>2. /\ Append(a, Head(r)) \in Seq(S) /\ Len(Append(a, Head(r))) = Len(a) + 1
      /\ Append(a, Head(r))[Len(a) + 1] = r[1] /\ Len(a) \in Nat
      /\ \A i \in 1..Len(a) : Append(a, Head(r))[i] = a[i]
  BY <1>1
<1>3. /\ x \in Seq(S) /\ Len(x) = Len(a) + Len(r)
      /\ \A i \in 1..(Len(a) + Len(r)) :
            x[i] = IF i <= Len(a) + 1 THEN Append(a, Head(r))[i] ELSE Tail(r)[i - (Len(a) + 1)]
  BY <1>1, <1>2, ConcatProperties
<1>4. /\ y \in Seq(S) /\ Len(y) = Len(a) + Len(r)
      /\ \A i \in 1..(Len(a) + Len(r)) : y[i] = IF i <= Len(a) THEN a[i] ELSE r[i - Len(a)]
  BY ConcatProperties
<1> HIDE DEF x, y
<1>5. ASSUME NEW i \in 1..(Len(a) + Len(r)) PROVE x[i] = y[i]
  <2>1. CASE i <= Len(a)
    BY <1>2, <1>3, <1>4, <2>1
  <2>2. CASE i = Len(a) + 1
    BY <1>2, <1>3, <1>4, <2>2
  <2>3. CASE i > Len(a) + 1
    <3>1. /\ i - (Len(a) + 1) \in 1..(Len(r) - 1)
          /\ (i - (Len(a) + 1)) + 1 = i - Len(a) /\ ~(i <= Len(a) + 1) /\ ~(i <= Len(a))
      BY <1>1, <1>2, <2>3
    <3> QED BY <1>1, <1>3, <1>4, <3>1
  <2> QED BY <1>2, <2>1, <2>2, <2>3
<1>6. x = y
  BY <1>3, <1>4, <1>5, SeqEqual
<1> QED BY <1>6 DEF x, y

\* A line of the report moves from what is due to what is told.
LEMMA PrintReportInv == ASSUME IInv, NEW s \in Steps, PrintReport(s) PROVE IInv'
<1> DEFINE old == step[s]
           what == Head(old.report)
           new == [old EXCEPT !.report = Tail(@),
                              !.phase = IF Len(old.report) = 1 THEN "done" ELSE @]
<1>1. old.phase = "failing" /\ out' = Printed(s, what) /\ UNCHANGED <<engine, chosen, setups>>
  BY DEF PrintReport
<1>2. step' = [step EXCEPT ![s] = new]
  BY DEF PrintReport
<1>3. /\ old \in StepType /\ old.report \in Seq(ReportLines) /\ old.report # <<>>
      /\ old.line.mode = LineMode(old.mode) /\ old.mode # Interactive
      /\ old.style = Fitting(old.chosen, old.mode) /\ old.line.shows = "fail"
  BY <1>1 DEF IInv, TypeOK, StepInv, StepType
<1>4. /\ what \in ReportLines /\ Tail(old.report) \in Seq(ReportLines)
      /\ Tail(old.report) # <<>> <=> Len(old.report) # 1
  <2>1. /\ what \in ReportLines /\ Tail(old.report) \in Seq(ReportLines)
        /\ Len(Tail(old.report)) = Len(old.report) - 1 /\ Len(old.report) \in Nat
    BY <1>3
  <2>2. \A t \in Seq(ReportLines) : t = <<>> <=> Len(t) = 0
    BY EmptySeq
  <2>3. Tail(old.report) = <<>> <=> Len(Tail(old.report)) = 0
    BY <2>1, <2>2, Zenon
  <2>4. Len(Tail(old.report)) = 0 <=> Len(old.report) = 1
    BY <2>1
  <2> QED BY <2>1, <2>3, <2>4, Zenon
<1>6. /\ new \in StepType /\ new.line = old.line
      /\ new.phase = (IF Len(old.report) = 1 THEN "done" ELSE "failing")
      /\ new.mode = old.mode /\ new.style = old.style /\ new.chosen = old.chosen
      /\ new.runs = old.runs /\ new.report = Tail(old.report)
  BY <1>1, <1>3, <1>4 DEF StepType, Phases
<1>7. step'[s] = new
  BY <1>2 DEF IInv, TypeOK
<1> HIDE DEF new
<1>8. StepInv(s)'
  BY <1>3, <1>6, <1>7 DEF StepInv, Outcomes
<1>9. what \in Says /\ old.report \in Seq(Says)
  BY <1>3, <1>4 DEF Says
<1>10. ASSUME NEW w \in Plain, w = new.mode, Story(w, s)' = Append(Story(w, s), what)
       PROVE  StoryInv(w, s)'
  <2>1. StoryInv(w, s)
    BY DEF IInv, StoriesInv
  <2>2. PICK report \in Reports : Story(w, s) \o old.report = FailText(old.runs, report)
    BY <1>1, <1>3, <1>6, <1>10, <2>1 DEF StoryInv
  <2>3. Story(w, s) \in Seq(Says)
    BY <2>1 DEF StoryInv
  <2>4. Append(Story(w, s), what) \o Tail(old.report) = Story(w, s) \o old.report
    BY <1>3, <1>9, <2>3, MoveHead
  <2>5. Story(w, s)' \in Seq(Says)
    BY <1>9, <1>10, <2>3
  <2>6. Story(w, s)' \o step'[s].report = FailText(step'[s].runs, report)
    BY <1>6, <1>7, <1>10, <2>2, <2>4
  <2> QED BY <1>3, <1>6, <1>7, <1>10, <2>5, <2>6 DEF StoryInv
<1>11. new.phase = "failing" <=> new.report # <<>>
  BY <1>4, <1>6
<1>12. new.mode # Interactive /\ new.phase # "none"
  BY <1>3, <1>6
<1> HIDE DEF what
<1> QED BY <1>1, <1>2, <1>6, <1>8, <1>9, <1>10, <1>11, <1>12, CallInv

-----------------------------------------------------------------------------
(* The theorems.                                                           *)

\* Every step of the system keeps the invariant.
LEMMA NextInv == IInv /\ [Next]_vars => IInv'
<1> SUFFICES ASSUME IInv, [Next]_vars PROVE IInv'
  OBVIOUS
<1>1. CASE Configure
  BY <1>1, ConfigureInv
<1>2. ASSUME NEW s \in Steps, StepCall(s) PROVE IInv'
  <2>1. CASE NewStep(s)
    BY <2>1, NewStepInv
  <2>2. CASE RunStep(s)
    BY <2>2, RunStepInv
  <2>3. CASE OkStep(s)
    <3> DEFINE line == Line!Success(step[s].line)
    <3>1. /\ step[s].phase = "open" /\ out' = Printed(s, "ok")
          /\ step' = [step EXCEPT ![s].line = line, ![s].phase = "done"]
          /\ UNCHANGED <<engine, chosen, setups>>
      BY <2>3 DEF OkStep
    <3> QED BY <3>1, EndStepInv
  <2>4. CASE SkipStep(s)
    <3> DEFINE line == Line!Skip(step[s].line)
    <3>1. /\ step[s].phase = "open" /\ out' = Printed(s, "skip")
          /\ step' = [step EXCEPT ![s].line = line, ![s].phase = "done"]
          /\ UNCHANGED <<engine, chosen, setups>>
      BY <2>4 DEF SkipStep
    <3> QED BY <3>1, EndStepInv
  <2>5. CASE \E report \in Reports : FailStep(s, report)
    BY <2>5, FailStepInv
  <2>6. CASE PrintReport(s)
    BY <2>6, PrintReportInv
  <2> QED BY <1>2, <2>1, <2>2, <2>3, <2>4, <2>5, <2>6 DEF StepCall
<1>3. CASE UNCHANGED vars
  <2>1. UNCHANGED <<engine, chosen, setups, step, out>>
    BY <1>3 DEF vars
  <2>2. TypeOK' /\ EngineInv'
    BY <2>1 DEF IInv, TypeOK, EngineInv
  <2>3. (\A s \in Steps : StepInv(s))' /\ (\A w \in Plain : LogInv(w))'
    BY <2>1 DEF IInv, StepInv, LogInv
  <2>4. StoriesInv'
    BY <2>1 DEF IInv, StoriesInv, StoryInv, Story
  <2> QED BY <2>2, <2>3, <2>4 DEF IInv
<1> QED BY <1>1, <1>2, <1>3 DEF Next

\* The invariant: what an engine, its steps and the outputs have to do with
\* each other while the engine is reconfigured between two steps and the
\* lines of several steps interleave.
THEOREM Inductive == Spec => []IInv
<1> QED BY InitInv, NextInv, PTL DEF Spec

\* Every reachable state is type correct: a report is being printed exactly
\* while a step fails in plain mode, and a bar is finished with its step.
THEOREM TypeCorrect == Spec => []TypeOK
<1>1. IInv => TypeOK
  BY DEF IInv
<1> QED BY <1>1, Inductive, PTL

\* Each step is told to one output, completely and in order, whatever other
\* threads print meanwhile and however the engine is changed.
THEOREM StoriesAreToldInOrder == Spec => []StoryInOrder
<1>1. ASSUME IInv PROVE StoryInOrder
  <2> SUFFICES ASSUME NEW s \in Steps, NEW w \in Plain
               PROVE  LET runs == [i \in 1..step[s].runs |-> "run"]
                          ending == step[s].line.shows
                          told == IF step[s].phase = "open" THEN <<"wait">> \o runs
                                  ELSE <<"wait">> \o runs \o <<ending>>
                      IN  IF step[s].phase = "none" \/ w # step[s].mode
                          THEN Story(w, s) = <<>>
                          ELSE IF ending # "fail" THEN Story(w, s) = told
                          ELSE \E report \in Reports :
                                  Story(w, s) \o step[s].report = told \o ReportText(report)
    BY DEF StoryInOrder
  <2>1. StoryInv(w, s) /\ StepInv(s)
    BY <1>1 DEF IInv, StoriesInv
  <2>2. CASE step[s].phase = "none" \/ w # step[s].mode
    BY <2>1, <2>2 DEF StoryInv
  <2>3. CASE step[s].phase = "open" /\ w = step[s].mode
    BY <2>1, <2>3 DEF StoryInv, StepInv, Told, Runs
  <2>4. CASE step[s].phase \notin {"none", "open"} /\ w = step[s].mode
    BY <2>1, <2>4 DEF StoryInv, Told, Runs, FailText
  <2> QED BY <2>2, <2>3, <2>4
<1> QED BY <1>1, Inductive, PTL

\* A step is shown in the style of its output, or in one its caller chose
\* after choosing the output.
THEOREM StylesFitOutputs == Spec => []StyleFitsOutput
<1>1. ASSUME IInv PROVE StyleFitsOutput
  <2>1. ASSUME NEW w \in Plain, NEW i \in DOMAIN out[w]
        PROVE  out[w][i].style \in {"plain", step[out[w][i].step].chosen}
    <3> DEFINE e == out[w][i]
    <3>1. out[w] \in Seq(Entries)
      BY <1>1 DEF IInv, TypeOK
    <3>2. e \in Entries
      BY <3>1
    <3>3. e.step \in Steps
      BY <3>2 DEF Entries
    <3>4. /\ step[e.step].phase # "none" /\ step[e.step].mode = w
          /\ e.style = step[e.step].style
      BY <1>1 DEF IInv, LogInv
    <3>5. step[e.step].style = Fitting(step[e.step].chosen, step[e.step].mode)
      BY <1>1, <3>3, <3>4 DEF IInv, StepInv
    <3>6. w # Interactive
      BY EngineAssumption DEF Interactive, Plain
    <3> HIDE DEF e
    <3>7. e.style \in {"plain", step[e.step].chosen}
      BY <3>4, <3>5, <3>6 DEF Fitting, DetectStyle
    <3> QED BY <3>7 DEF e
  <2>2. ASSUME NEW s \in Steps, step[s].phase # "none", step[s].mode = Interactive
        PROVE  step[s].style \in {"modern", step[s].chosen}
    BY <1>1, <2>2 DEF IInv, StepInv, Fitting, DetectStyle
  <2> QED BY <2>1, <2>2 DEF StyleFitsOutput
<1> QED BY <1>1, Inductive, PTL
=============================================================================
