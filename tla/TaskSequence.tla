--------------------------- MODULE TaskSequence ---------------------------
(***************************************************************************)
(* knot-terminal's TaskSequence: a cursor over the stages of a Task.  Its  *)
(* methods drive the Task through the calls of TaskOps; the Task decides   *)
(* its own outcome while the sequence believes it is the one deciding.     *)
(* The caller may call any method at any time, also after the end.  What   *)
(* it holds is a sequence or a task of its own, as in TerminalTask, and    *)
(* the properties stated there are about both.                             *)
(***************************************************************************)
EXTENDS TerminalTask

VARIABLE current    \* current_stage: how many stages have been settled

seqVars == <<vars, current>>

\* The cursor of a task that is driven directly.
Direct == -1

Length == Cardinality(Ids)

\* activate_current_stage, with the cursor at n stages settled.
Activate(t, n) == IF n + 1 \in DOMAIN t.row THEN RunById(t, n + 1) ELSE t

\* TaskSequenceBuilder numbers the stages in the order they are added, none
\* of them with auto_run, and groups come between them.
Numbered == {b \in Builders : b.auto = {}}

\* start activates the first stage, build does not.
New ==
    /\ \E mode \in Line!Modes, b \in Numbered, autostart \in BOOLEAN :
          LET built == Started(mode, b)
          IN  task = IF autostart THEN Activate(built, 0) ELSE built
    /\ held = TRUE /\ returned = TRUE
    /\ current = 0

\* skip_stages: every id from the cursor on.
SkipStages(t, from) == Each(SkipById, t, (from + 1)..Length)

InSequence == current # Direct /\ UNCHANGED <<held, returned>>

\* What ok and skip do after their stage: move on, or end the task.
Advance(t) ==
    /\ current' = current + 1
    /\ task' = IF current + 1 < Length THEN Activate(t, current + 1)
               ELSE SetCompleted(t)

Ok ==
    /\ InSequence
    /\ current < Length
    /\ Advance(OkById(task, current + 1))

Skip ==
    /\ InSequence
    /\ current < Length
    /\ Advance(SkipById(task, current + 1))

Fail ==
    /\ InSequence
    /\ current < Length
    /\ task' = SkipStages(FailById(task, current + 1), current + 1)
    /\ current' = Length

\* Fault: the cursor is set past the last stage.
FinishPastTheEnd ==
    /\ InSequence
    /\ task' = SetCompleted(SkipStages(task, current))
    /\ current' = Length + 1

Finish ==
    /\ InSequence
    /\ task' = SetCompleted(SkipStages(task, current))
    /\ current' = Length

SeqInit == New \/ (Init /\ current = Direct)

SeqNext ==
    \/ Ok \/ Skip \/ Fail \/ Finish
    \/ current = Direct /\ Next /\ UNCHANGED current

SeqSpec == SeqInit /\ [][SeqNext]_seqVars

-----------------------------------------------------------------------------
\* Type correctness, with the cursor within the stages and at most one
\* announcement of the outcome of a sequence.
SeqTypeOK ==
    /\ TypeOK
    /\ current \in {Direct} \union 0..Length
    /\ current # Direct => Len(task.announced) <= 1

\* What the lines and the root line of a sequence show; of a task that is
\* no sequence, nothing.
ChainRow == [i \in 1..(IF current = Direct THEN 0 ELSE Length) |-> task.row[i].shows]

ChainOutcome == IF current = Direct THEN "open" ELSE Outcome(task)

Chain == INSTANCE StageChain WITH row <- ChainRow, outcome <- ChainOutcome

\* A TaskSequence implements the chain of stages: strict order, the rest
\* skipped in the call that fails or finishes, one outcome, silence after
\* the end, although rows, sets, cursor and outcome are separate state
\* updated by several calls into the Task.
KeepsTheChain == Chain!Spec
=============================================================================
