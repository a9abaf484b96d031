--------------------------- MODULE TerminalTask ---------------------------
(***************************************************************************)
(* The public API of a knot-terminal Task: the command-line client maps    *)
(* the events of services that run in parallel onto run_by_id, ok_by_id,   *)
(* fail_by_id and skip_by_id, so the calls come in any order, for any      *)
(* stage, and also after the task has been decided.                        *)
(***************************************************************************)
EXTENDS TaskOps

CONSTANT MaxStages    \* bound: a task is built with 0..MaxStages stages

ASSUME MaxStagesAssumption == MaxStages \in Nat

VARIABLES
    task,      \* the Task
    held,      \* whether the caller still owns it: ok, fail, skip consume it
    returned   \* what the last *_by_id call returned; TRUE for the others

vars == <<task, held, returned>>

Ids == DOMAIN task.row

\* An id no stage has.
Unknown == MaxStages + 1

\* What a TaskBuilder has collected by with_stage and with_group: how many
\* stages, which of them run at once, and the other lines.
Builders == {b \in [stages : 0..MaxStages, auto : SUBSET (1..MaxStages), extras : SUBSET Extras] :
                b.auto \subseteq 1..b.stages}

\* TaskBuilder::start, for an engine in either mode.
Started(mode, b) ==
    Each(RunById, NewTask(mode, 1..b.stages, b.extras), b.auto)

Init ==
    /\ \E mode \in Line!Modes, b \in Builders : task = Started(mode, b)
    /\ held = TRUE
    /\ returned = TRUE

ById(Op(_, _), id) ==
    /\ held
    /\ task' = Op(task, id)
    /\ returned' = Returns(task, id)
    /\ UNCHANGED held

RunStage(id)  == ById(RunById, id)
OkStage(id)   == ById(OkById, id)
FailStage(id) == ById(FailById, id)
SkipStage(id) == ById(SkipById, id)

RunAll ==
    /\ held
    /\ task' = PerformRun(task)
    /\ returned' = TRUE
    /\ UNCHANGED held

\* ok, fail and skip take self by value: no call follows them.
Consume(Op(_)) ==
    /\ held
    /\ task' = Op(task)
    /\ held' = FALSE
    /\ returned' = TRUE

OkAll   == Consume(PerformOk)
FailAll == Consume(PerformFail)
SkipAll == Consume(PerformSkip)

Next ==
    \/ \E id \in Ids \union {Unknown} :
          RunStage(id) \/ OkStage(id) \/ FailStage(id) \/ SkipStage(id)
    \/ RunAll \/ OkAll \/ FailAll \/ SkipAll

Spec == Init /\ [][Next]_vars

-----------------------------------------------------------------------------
\* Type correctness: the task is a task over its own stages, and the lines
\* still held are all of them or none.
TypeOK ==
    /\ task \in Tasks(Ids)
    /\ task.entries \in {Ids, {}}
    /\ task.extras \in {DOMAIN task.extra, {}}
    /\ held \in BOOLEAN /\ returned \in BOOLEAN

Settled == {i \in Ids : task.row[i].shows \in {"ok", "skip"}}

Failed == {i \in Ids : task.row[i].shows = "fail"}

\* The lines of the task other than its head.
Below == {task.row[i] : i \in Ids} \union {task.extra[k] : k \in DOMAIN task.extra}

\* The outcome of a task is decided once, and what the lines showed at that
\* moment justifies it: a success needs every line at ok or skip, a failure
\* a line at fail (a task without stages is decided by its caller).  The
\* lines and the finished and failed sets are updated separately, by calls
\* that arrive in any order (update_state, set_completed).  A caller learns
\* from the call that decided the task that it took effect.
OutcomeFollowsRows ==
    [][Outcome(task)' # Outcome(task) =>
          /\ Outcome(task) = "open" /\ returned'
          /\ Outcome(task)' = "success" => Settled' = Ids
          /\ Outcome(task)' = "fail" => Ids = {} \/ Failed' # {}]_vars

\* An undecided task with stages has work left and no failure on show: it
\* is never left open after its last stage settled or one stage failed.
OpenTaskHasWorkLeft ==
    Outcome(task) = "open" =>
        /\ Ids # {} => Settled # Ids
        /\ Failed = {}

\* A failed task leaves an error report on the screen, a completed one
\* leaves none on it: clearing the children must not take the last report
\* away.  What a transcript has reported stays in it.
FailureShowsReport ==
    /\ Outcome(task) = "fail" => \E l \in Below \union {task.head} : l.reported
    /\ Outcome(task) = "success" =>
          \A l \in Below \union {task.head} : l.mode = "interactive" => ~l.reported

\* A decided task leaves no spinner turning and no bar unfinished, though
\* stages may still run when another one fails, and may be run again
\* afterwards (finish_children); once it has dropped its lines, none of
\* them is left on the screen, groups and spacers included (clear_children).
NothingSpinsAfterTheEnd ==
    task.done /\ task.head.mode = "interactive" =>
        /\ \A l \in Below \union {task.head} : l.visible => l.finished
        /\ task.entries = {} /\ task.extras = {} => \A l \in Below : ~l.visible

\* How it ended is announced once.  Only a task with stages that is failed
\* as a whole announces its failure twice, first without and then with the
\* report: in plain mode both lines are printed.  No call announces a
\* success and a failure.
AnnouncedOnce ==
    \/ task.announced \in {<<>>, <<"ok">>, <<"fail">>}
    \/ /\ task.announced = <<"fail", "fail">>
       /\ ~held /\ Ids # {} /\ task.head.reported
=============================================================================
