------------------------------ MODULE TaskOps ------------------------------
(***************************************************************************)
(* The operations of knot-terminal's Task (shared/terminal/src/task.rs) as *)
(* functions from a task to a task.  Two state machines are built from     *)
(* them: TerminalTask, the public API of a Task, and TaskSequence, which   *)
(* drives a Task one stage at a time.                                      *)
(*                                                                         *)
(* A task is a record of                                                   *)
(*   head     its root line                                                *)
(*   row      the line of each stage; after the task has dropped them,     *)
(*            what they were last                                          *)
(*   extra    the other lines below the head: a group header, a spacer     *)
(*   entries, extras    the lines of both kinds the task still holds       *)
(*   finished, failed   the two sets of ids of the struct                  *)
(*   done     is_finished                                                  *)
(*   announced history: what the head has announced, in order               *)
(* Stage ids are numbers, in the order of the entries, and unique: the     *)
(* builder's documentation asks that of its caller.                        *)
(***************************************************************************)
EXTENDS Integers, Sequences, FiniteSets

\* The methods of a line.
Line == INSTANCE TaskRenderer

Extras == {"group", "spacer"}

Tasks(ids) ==
    [head : Line!Lines, row : [ids -> Line!Lines],
     extra : UNION {[kinds -> Line!Lines] : kinds \in SUBSET Extras},
     entries : SUBSET ids, extras : SUBSET Extras,
     finished : SUBSET ids, failed : SUBSET ids, done : BOOLEAN,
     announced : Seq({"ok", "fail"})]

-----------------------------------------------------------------------------
(* A Stage is a line that waits at first; the time of its start is left    *)
(* out.  A stage that fails prints its report, unlike a frozen head.       *)

NewStage(mode)     == Line!Wait(Line!NewLine(mode))
StageRun(line)     == Line!Run(line)
StageSuccess(line) == Line!Success(line)
StageFail(line)    == Line!FailInsert(line)
StageSkip(line)    == Line!Skip(line)

-----------------------------------------------------------------------------
(* TaskBuilder::start: the head shows its title, the stages wait, a group  *)
(* is a separator.  Only an interactive task has a spacer, a bar finished  *)
(* with a blank message.                                                   *)

NewExtra(mode, kind) ==
    IF kind = "group" THEN Line!Separator(Line!NewLine(mode)) ELSE Line!Finish(Line!NewLine(mode))

NewTask(mode, ids, kinds) ==
    LET placed == {k \in kinds : k = "spacer" => mode = "interactive"}
    IN  [head |-> Line!Title(Line!NewLine(mode)),
         row |-> [i \in ids |-> NewStage(mode)],
         extra |-> [k \in placed |-> NewExtra(mode, k)],
         entries |-> ids, extras |-> placed,
         finished |-> {}, failed |-> {}, done |-> FALSE, announced |-> <<>>]

\* What the root line says of the task.
Outcome(t) ==
    CASE t.head.shows = "ok"   -> "success"
      [] t.head.shows = "fail" -> "fail"
      [] OTHER                 -> "open"

-----------------------------------------------------------------------------
(* What happens to the lines below the head.                               *)

\* Fault: the groups and spacers are left on the screen.
ClearStagesOnly(t) ==
    [t EXCEPT !.row = [i \in DOMAIN @ |-> IF i \in t.entries THEN Line!Clear(@[i]) ELSE @[i]],
              !.entries = {}, !.extras = {}]

ClearChildren(t) ==
    [t EXCEPT !.row = [i \in DOMAIN @ |-> IF i \in t.entries THEN Line!Clear(@[i]) ELSE @[i]],
              !.extra = [k \in DOMAIN @ |-> IF k \in t.extras THEN Line!Clear(@[k]) ELSE @[k]],
              !.entries = {}, !.extras = {}]

FinishChildren(t) ==
    [t EXCEPT !.row = [i \in DOMAIN @ |->
                          IF i \in t.entries THEN Line!FinishSilently(@[i]) ELSE @[i]],
              !.extra = [k \in DOMAIN @ |->
                          IF k \in t.extras THEN Line!FinishSilently(@[k]) ELSE @[k]]]

-----------------------------------------------------------------------------
(* Deciding the outcome.                                                   *)

SetCompleted(t) ==
    IF t.done THEN t
    ELSE ClearChildren([t EXCEPT !.head = Line!Success(@), !.done = TRUE,
                                 !.announced = Append(@, "ok")])

SetFailedAndInsert(t) ==
    [t EXCEPT !.head = Line!FailInsert(@), !.done = TRUE,
              !.announced = Append(@, "fail")]

\* Faults: a failed task tidies its stages away like a completed one; the
\* stages that still run keep their spinners.
SetFailedAndTidy(t) ==
    ClearChildren([t EXCEPT !.head = Line!Fail(@), !.done = TRUE,
                            !.announced = Append(@, "fail")])
SetFailedAndLeave(t) ==
    [t EXCEPT !.head = Line!Fail(@), !.done = TRUE, !.announced = Append(@, "fail")]

SetFailedAndFreeze(t) ==
    FinishChildren([t EXCEPT !.head = Line!Fail(@), !.done = TRUE,
                             !.announced = Append(@, "fail")])

SetFailedAndClear(t) == ClearChildren(SetFailedAndInsert(t))

\* Fault: a task that is decided is decided again.
UpdateStateAgain(t) ==
    IF t.failed # {} THEN SetFailedAndFreeze(t)
    ELSE IF t.entries \subseteq t.finished THEN SetCompleted(t)
    ELSE t

UpdateState(t) ==
    IF t.done THEN t
    ELSE IF t.failed # {} THEN SetFailedAndFreeze(t)
    ELSE IF t.entries \subseteq t.finished THEN SetCompleted(t)
    ELSE t

-----------------------------------------------------------------------------
(* Operations on one stage.  The line is redrawn before the task looks at  *)
(* its own state, so a frozen task still redraws its lines.                *)

\* Fault: running a stage again leaves it among the finished ones.
RunByIdKept(t, id) ==
    IF id \notin t.entries THEN t
    ELSE UpdateState([t EXCEPT !.row[id] = StageRun(@)])

RunById(t, id) ==
    IF id \notin t.entries THEN t
    ELSE UpdateState([t EXCEPT !.row[id] = StageRun(@),
                               !.finished = @ \ {id}, !.failed = @ \ {id}])

OkById(t, id) ==
    IF id \notin t.entries THEN t
    ELSE UpdateState([t EXCEPT !.row[id] = StageSuccess(@),
                               !.finished = @ \union {id}, !.failed = @ \ {id}])

\* Fault: the failed set is never told.
FailByIdUnrecorded(t, id) ==
    IF id \notin t.entries THEN t
    ELSE UpdateState([t EXCEPT !.row[id] = StageFail(@),
                               !.finished = @ \ {id}])

\* Fault: the id is booked before the stage is looked up.
FailByIdBlind(t, id) ==
    IF id \notin t.entries THEN [t EXCEPT !.failed = @ \union {id}]
    ELSE UpdateState([t EXCEPT !.row[id] = StageFail(@),
                               !.finished = @ \ {id}, !.failed = @ \union {id}])

FailById(t, id) ==
    IF id \notin t.entries THEN t
    ELSE UpdateState([t EXCEPT !.row[id] = StageFail(@),
                               !.finished = @ \ {id}, !.failed = @ \union {id}])

\* Fault: a finished task refuses to redraw a line.
SkipByIdGuarded(t, id) ==
    IF id \notin t.entries \/ t.done THEN t
    ELSE UpdateState([t EXCEPT !.row[id] = StageSkip(@),
                               !.finished = @ \union {id}, !.failed = @ \ {id}])

SkipById(t, id) ==
    IF id \notin t.entries THEN t
    ELSE UpdateState([t EXCEPT !.row[id] = StageSkip(@),
                               !.finished = @ \union {id}, !.failed = @ \ {id}])

\* What the four operations return: update_state answers whether it had
\* anything left to decide.
Returns(t, id) == id \in t.entries /\ ~t.done

-----------------------------------------------------------------------------
(* Bulk operations: loops over the ids collected when they start.          *)

\* One call for each of these ids, in their order.
Each(Op(_, _), t, ids) ==
    LET after[n \in 0..Len(t.row)] ==
            IF n = 0 THEN t
            ELSE IF n \in ids THEN Op(after[n - 1], n)
            ELSE after[n - 1]
    IN  after[Len(t.row)]

\* collect_stage_ids: the stages still held.
StageIds(t) == t.entries

PerformRun(t) == IF t.done THEN t ELSE Each(RunById, t, StageIds(t))

PerformSkip(t) == IF t.done THEN t ELSE Each(SkipById, t, StageIds(t))

PerformOk(t) ==
    IF t.done THEN t
    ELSE IF t.entries = {} THEN SetCompleted(t)
    ELSE Each(OkById, t, StageIds(t))

PerformFail(t) ==
    IF t.done THEN t
    ELSE SetFailedAndClear(Each(FailById, t, StageIds(t)))
=============================================================================
