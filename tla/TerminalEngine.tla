--------------------------- MODULE TerminalEngine ---------------------------
(***************************************************************************)
(* A TaskEngine of knot-terminal and the Steps made with it.  The engine   *)
(* finds out where it prints and in which style; its caller may change     *)
(* both, also between two steps, since an engine is cloned freely.  A step *)
(* keeps what the engine had when it was made.                             *)
(*                                                                         *)
(* The steps belong to threads of their own.  A PlainWriter takes one line *)
(* at a time, so in plain mode the lines of several steps interleave, also *)
(* in the middle of an error report, which is printed line by line; in     *)
(* interactive mode a report is one bar.  A step has a name: a printed     *)
(* line is taken to show which step it is about, except for the report,    *)
(* whose lines carry the prefix of their task and for a step none at all.  *)
(***************************************************************************)
EXTENDS Integers, Sequences, SequencesExt

CONSTANTS
    Steps,       \* the steps made in a run
    Writers,     \* PlainWriters of the caller
    Stdout,      \* the StdoutWriter
    MaxRuns,     \* bound: calls of run on a step
    MaxSetups,   \* bound: changes of the engine
    Reports      \* the error reports steps fail with

\* A report is known by the number of lines its parts are wrapped to: it has
\* an issue, and 0 stands for no context and no solution.
ASSUME EngineAssumption ==
    /\ Stdout \notin Writers /\ "interactive" \notin Writers \union {Stdout}
    /\ MaxRuns \in Nat /\ MaxSetups \in Nat
    /\ Reports \subseteq [issue : Nat \ {0}, context : Nat, solution : Nat]

VARIABLES
    engine,   \* mode and style of the engine
    chosen,   \* history: the style the caller chose since the mode was set
    setups,   \* changes of the engine so far
    step,     \* [Steps -> Step]
    out       \* [output -> Seq of printed lines]

vars == <<engine, chosen, setups, step, out>>

\* A mode is interactive, or plain with the writer it prints to.
Interactive == "interactive"
Plain == Writers \union {Stdout}

\* Styles a caller composes itself are one of these as far as it matters:
\* with or without the glyphs and spinners of a terminal.
Styles == {"modern", "plain"}

Engines == [mode : Plain \union {Interactive}, style : Styles]

\* The parts of an error report, as lines.
ReportLines == {"border", "issue", "context", "solution", "more"}
Outcomes == {"ok", "skip", "fail"}

Entries == [step : Steps, says : {"wait", "run"} \union Outcomes \union ReportLines,
            style : Styles]

Line == INSTANCE TaskRenderer

None == "none"

-----------------------------------------------------------------------------
(* The engine.                                                             *)

\* Continuous integration and pipes get plain output.
DetectMode(ci, terminal) == IF ci \/ ~terminal THEN Stdout ELSE Interactive

DetectStyle(mode) == IF mode = Interactive THEN "modern" ELSE "plain"

\* TaskEngine::new and with_multi.
New(ci, terminal) ==
    LET mode == DetectMode(ci, terminal)
    IN  [mode |-> mode, style |-> DetectStyle(mode)]

Setup ==
    /\ setups < MaxSetups
    /\ setups' = setups + 1
    /\ UNCHANGED <<step, out>>

\* Fault: the style is not chosen anew.
WithRenderModeOnly(mode) ==
    /\ Setup
    /\ engine' = [engine EXCEPT !.mode = mode]
    /\ chosen' = None

\* A new mode comes with its style, whatever style was set before.
WithRenderMode(mode) ==
    /\ Setup
    /\ engine' = [mode |-> mode, style |-> DetectStyle(mode)]
    /\ chosen' = None

\* An interactive engine ignores the writer.
WithPlainWriter(writer) ==
    /\ Setup
    /\ engine' = [engine EXCEPT !.mode = IF @ = Interactive THEN @ ELSE writer]
    /\ UNCHANGED chosen

WithStyle(style) ==
    /\ Setup
    /\ engine' = [engine EXCEPT !.style = style]
    /\ chosen' = style

-----------------------------------------------------------------------------
(* ErrorReport::print: every part below a border of its own.               *)

Part(what, n) == [i \in 1..n |-> IF i = 1 THEN what ELSE "more"]

Bordered(what, n) == IF n = 0 THEN <<>> ELSE <<"border">> \o Part(what, n)

ReportText(report) ==
    Bordered("issue", report.issue) \o Bordered("context", report.context)
        \o Bordered("solution", report.solution)

-----------------------------------------------------------------------------
(* A step: its line, the mode and style it was made with, and what is      *)
(* still to be printed of its report.                                      *)

Phases == {"none", "open", "failing", "done"}

StepType == [phase : Phases, line : Line!Lines, mode : Plain \union {Interactive},
             style : Styles, chosen : Styles \union {None}, runs : 0..MaxRuns,
             report : Seq(ReportLines)]

\* Fault: the writer is asked of the engine when a line is due.
PrintedByEngine(s, what) ==
    IF engine.mode = Interactive THEN out
    ELSE [out EXCEPT ![engine.mode] =
             Append(@, [step |-> s, says |-> what, style |-> step'[s].style])]

\* write_plain_line: one line of the output; interactive steps print none.
Printed(s, what) ==
    IF step'[s].mode = Interactive THEN out
    ELSE [out EXCEPT ![step'[s].mode] =
             Append(@, [step |-> s, says |-> what, style |-> step'[s].style])]

LineMode(mode) == IF mode = Interactive THEN "interactive" ELSE "plain"

\* TaskEngine::step and Step::new: the line waits.
NewStep(s) ==
    /\ step[s].phase = "none"
    /\ step' = [step EXCEPT ![s] =
          [phase |-> "open", line |-> Line!Wait(Line!NewLine(LineMode(engine.mode))),
           mode |-> engine.mode, style |-> engine.style, chosen |-> chosen,
           runs |-> 0, report |-> <<>>]]
    /\ out' = Printed(s, "wait")
    /\ UNCHANGED <<engine, chosen, setups>>

\* perform_run, by the caller or at once (auto_run).
RunStep(s) ==
    /\ step[s].phase = "open" /\ step[s].runs < MaxRuns
    /\ step' = [step EXCEPT ![s].line = Line!Run(@), ![s].runs = @ + 1]
    /\ out' = Printed(s, "run")
    /\ UNCHANGED <<engine, chosen, setups>>

\* ok and skip take self by value.
OkStep(s) ==
    /\ step[s].phase = "open"
    /\ step' = [step EXCEPT ![s].line = Line!Success(@), ![s].phase = "done"]
    /\ out' = Printed(s, "ok")
    /\ UNCHANGED <<engine, chosen, setups>>

SkipStep(s) ==
    /\ step[s].phase = "open"
    /\ step' = [step EXCEPT ![s].line = Line!Skip(@), ![s].phase = "done"]
    /\ out' = Printed(s, "skip")
    /\ UNCHANGED <<engine, chosen, setups>>

\* Fault: the report is printed also where it is a bar.
FailStepTwice(s, report) ==
    /\ step[s].phase = "open"
    /\ step' = [step EXCEPT ![s].line = Line!FailInsert(@), ![s].phase = "failing",
                            ![s].report = ReportText(report)]
    /\ out' = Printed(s, "fail")
    /\ UNCHANGED <<engine, chosen, setups>>

\* fail: a bar for the report, or the lines of it still to be printed.
FailStep(s, report) ==
    /\ step[s].phase = "open"
    /\ step' = [step EXCEPT
          ![s].line = Line!FailInsert(@),
          ![s].phase = IF step[s].mode = Interactive THEN "done" ELSE "failing",
          ![s].report = IF step[s].mode = Interactive THEN <<>> ELSE ReportText(report)]
    /\ out' = Printed(s, "fail")
    /\ UNCHANGED <<engine, chosen, setups>>

\* fail_insert in plain mode: the next line of the report.
PrintReport(s) ==
    /\ step[s].phase = "failing"
    /\ step' = [step EXCEPT
          ![s].report = Tail(@),
          ![s].phase = IF Len(step[s].report) = 1 THEN "done" ELSE @]
    /\ out' = Printed(s, Head(step[s].report))
    /\ UNCHANGED <<engine, chosen, setups>>

-----------------------------------------------------------------------------
Init ==
    /\ \E ci, terminal \in BOOLEAN : engine = New(ci, terminal)
    /\ chosen = None /\ setups = 0
    /\ step = [s \in Steps |->
          [phase |-> "none", line |-> Line!NewLine("plain"), mode |-> Stdout,
           style |-> "plain", chosen |-> None, runs |-> 0, report |-> <<>>]]
    /\ out = [w \in Plain |-> <<>>]

Configure ==
    \/ \E mode \in Plain \union {Interactive} : WithRenderMode(mode)
    \/ \E writer \in Writers : WithPlainWriter(writer)
    \/ \E style \in Styles : WithStyle(style)

StepCall(s) ==
    \/ NewStep(s) \/ RunStep(s) \/ OkStep(s) \/ SkipStep(s)
    \/ \E report \in Reports : FailStep(s, report)
    \/ PrintReport(s)

Next == Configure \/ \E s \in Steps : StepCall(s)

Spec == Init /\ [][Next]_vars

-----------------------------------------------------------------------------
\* Type correctness; a report is being printed exactly while a step fails in
\* plain mode, and a bar that is done is finished.
TypeOK ==
    /\ engine \in Engines
    /\ chosen \in Styles \union {None} /\ setups \in 0..MaxSetups
    /\ step \in [Steps -> StepType]
    /\ \A s \in Steps :
          /\ step[s].phase = "failing" <=> step[s].report # <<>>
          /\ step[s].phase # "none" /\ step[s].mode = Interactive =>
                (step[s].phase = "done" <=> step[s].line.finished)
    /\ out \in [Plain -> Seq(Entries)]

\* What the lines of an output say about a step, those of its report
\* included, in order.
About(log, s) ==
    LET told[n \in 0..Len(log)] ==
            IF n = 0 THEN <<>>
            ELSE IF log[n].step = s THEN Append(told[n - 1], log[n].says)
            ELSE told[n - 1]
    IN  told[Len(log)]

Story(w, s) == About(out[w], s)

\* Whatever other threads print meanwhile, and however the engine is changed
\* meanwhile, a step is told to one output and in order: that it waits, that
\* it runs, how it ended, and after a failure the whole report; the line
\* shows what was printed last.  Nothing is told of an interactive step.
StoryInOrder ==
    \A s \in Steps, w \in Plain :
        LET runs == [i \in 1..step[s].runs |-> "run"]
            ending == step[s].line.shows
            told == IF step[s].phase = "open" THEN <<"wait">> \o runs
                    ELSE <<"wait">> \o runs \o <<ending>>
        IN  IF step[s].phase = "none" \/ w # step[s].mode THEN Story(w, s) = <<>>
            ELSE IF ending # "fail" THEN Story(w, s) = told
            ELSE \E report \in Reports :
                     Story(w, s) \o step[s].report = told \o ReportText(report)

\* A step is shown in a style that fits its output, unless the caller asked
\* for another after it chose the output: glyphs and spinners meant for a
\* terminal do not get into a log, whatever the engine was set up for before.
StyleFitsOutput ==
    /\ \A w \in Plain : \A i \in DOMAIN out[w] :
          out[w][i].style \in {"plain", step[out[w][i].step].chosen}
    /\ \A s \in Steps : step[s].phase # "none" /\ step[s].mode = Interactive =>
          step[s].style \in {"modern", step[s].chosen}
=============================================================================
