---------------------------- MODULE TaskRenderer ----------------------------
(***************************************************************************)
(* The TaskRenderer of knot-terminal (shared/terminal/src/renderer.rs):    *)
(* one line of a task or a step, its methods as functions from a line to a *)
(* line.  TaskOps composes tasks of them, TerminalEngine steps.            *)
(*                                                                         *)
(* In interactive mode a line is a progress bar of indicatif that is       *)
(* redrawn in place; in plain mode every method appends to a transcript,   *)
(* and the line stands for what the transcript says of it last.  Wording,  *)
(* durations, indents and colours are left out.                            *)
(***************************************************************************)

Modes == {"interactive", "plain"}

Displays == {"blank", "title", "separator", "wait", "run", "ok", "fail", "skip"}

\* finished and visible are those of the bar; reported says whether an
\* error report stands below the line.
Lines == [mode : Modes, shows : Displays, finished : BOOLEAN,
          visible : BOOLEAN, reported : BOOLEAN]

\* A bar takes its place on the screen when it is made; nothing is printed.
NewLine(mode) ==
    [mode |-> mode, shows |-> "blank", finished |-> FALSE,
     visible |-> mode = "interactive", reported |-> FALSE]

\* set_style, set_prefix and set_message redraw a bar, also a finished one;
\* write_plain_line prints.
Draw(line, what) ==
    [line EXCEPT !.shows = what, !.visible = @ \/ line.mode = "plain"]

\* node.finish and finish_with_message; plain mode has nothing to finish.
Finish(line) == [line EXCEPT !.finished = line.mode = "interactive"]

Title(line) == Draw(line, "title")
Run(line)   == Draw(line, "run")
Wait(line)  == Draw(line, "wait")

Skip(line)    == Finish(Draw(line, "skip"))
Success(line) == Finish(Draw(line, "ok"))
Fail(line)    == Finish(Draw(line, "fail"))

\* The report goes below the line, as a finished bar of its own or as
\* printed lines.
FailInsert(line) == [Fail(line) EXCEPT !.reported = TRUE]

Separator(line) == Finish(Draw(line, "separator"))

FinishSilently(line) == Finish(line)

\* finish_and_clear, of the bar and of its reports; what is printed stays.
Clear(line) ==
    IF line.mode = "plain" THEN line
    ELSE [Finish(line) EXCEPT !.visible = FALSE, !.reported = FALSE]
=============================================================================
