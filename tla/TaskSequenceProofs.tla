------------------------- MODULE TaskSequenceProofs -------------------------
(***************************************************************************)
(* What TLAPS proves about tasks and sequences of any number of stages,    *)
(* from what TaskOpsProofs says of the single operations.                  *)
(***************************************************************************)
EXTENDS TaskSequence, TaskOpsProofs, FiniteSetTheorems

-----------------------------------------------------------------------------
(* The inductive invariant.                                                *)

\* A task that has announced its failure twice has been given away.
CallerInv ==
    /\ held \in BOOLEAN /\ returned \in BOOLEAN
    /\ task.announced = <<"fail", "fail">> => ~held

\* Where the cursor of a sequence of n stages stands while the task is open:
\* behind what is settled and before what waits.
CursorInv(n) ==
    /\ n > 0 => current < n
    /\ \A i \in 1..n :
          /\ i <= current => task.row[i].shows \in {"ok", "skip"}
          /\ i = current + 1 => task.row[i].shows \in {"wait", "run"}
          /\ i > current + 1 => task.row[i].shows = "wait"

\* A sequence keeps its task, and its cursor is at the end exactly when the
\* task is decided.
SequenceInv(n) ==
    /\ current \in 0..n
    /\ held /\ returned
    /\ IF task.done THEN current = n ELSE CursorInv(n)

\* A task is of one of the four kinds, for the number of stages it has been
\* built with.
StateInv(n) ==
    /\ TaskInv(n, task) /\ CallerInv
    /\ current = Direct \/ SequenceInv(n)

IInv == \E n \in 0..MaxStages : StateInv(n)

-----------------------------------------------------------------------------
(* What a step may do to a task.                                           *)

\* An open task is decided as its stages say, one that was failed as a
\* whole like one a stage has failed; a decided task stays decided.
Moves(n, t, u) ==
    /\ Shape(n, u)
    /\ Open(n, t) => \/ Open(n, u)
                     \/ Completed(n, u) /\ SettledIn(u) = 1..n
                     \/ (Frozen(n, u) \/ Abandoned(n, u)) /\ (n = 0 \/ FailedIn(u) # {})
    /\ Frozen(n, t) => Frozen(n, u)
    /\ Completed(n, t) \/ Abandoned(n, t) => u = t

\* The outcome is what the head shows.
LEMMA OutcomeIs ==
    ASSUME NEW n, NEW t
    PROVE  /\ Open(n, t) => Outcome(t) = "open"
           /\ Completed(n, t) => Outcome(t) = "success"
           /\ Frozen(n, t) \/ Abandoned(n, t) => Outcome(t) = "fail"
<1> QED BY DEF Open, Completed, Frozen, Abandoned, Outcome

\* A task stays of the four kinds, and changes its outcome only when it was
\* open, as OutcomeFollowsRows asks.
LEMMA MovesKeep ==
    ASSUME NEW n \in Nat, NEW t, TaskInv(n, t), NEW u, Moves(n, t, u)
    PROVE  /\ TaskInv(n, u)
           /\ Outcome(u) # Outcome(t) =>
                 /\ Open(n, t)
                 /\ Outcome(u) = "success" => SettledIn(u) = 1..n
                 /\ Outcome(u) = "fail" => n = 0 \/ FailedIn(u) # {}
<1>1. TaskInv(n, u)
  BY DEF TaskInv, Moves
<1>2. CASE Open(n, t)
  <2>1. CASE Open(n, u)
    BY <1>1, <1>2, <2>1, OutcomeIs
  <2>2. CASE Completed(n, u) /\ SettledIn(u) = 1..n
    BY <1>1, <1>2, <2>2, OutcomeIs
  <2>3. CASE (Frozen(n, u) \/ Abandoned(n, u)) /\ (n = 0 \/ FailedIn(u) # {})
    BY <1>1, <1>2, <2>3, OutcomeIs
  <2> QED BY <1>2, <2>1, <2>2, <2>3 DEF Moves
<1>3. CASE Frozen(n, t)
  BY <1>1, <1>3, OutcomeIs DEF Moves
<1>4. CASE Completed(n, t) \/ Abandoned(n, t)
  BY <1>1, <1>4 DEF Moves
<1> QED BY <1>2, <1>3, <1>4 DEF TaskInv

\* What a call does is such a move.
LEMMA LaterMoves ==
    ASSUME NEW n, NEW t, NEW u, Shape(n, u), Later(n, t, u)
    PROVE  Moves(n, t, u)
<1> QED BY DEF Later, Moves

\* A call leaves no task given away, and one that changes the task was
\* heard: update_state had something to decide.
LEMMA CallMoves ==
    ASSUME NEW n \in Nat, NEW t, TaskInv(n, t), NEW id, NEW op \in Ops
    PROVE  LET u == Call(op, t, id) IN
           /\ Moves(n, t, u)
           /\ u.announced = <<"fail", "fail">> => t.announced = <<"fail", "fail">>
           /\ Open(n, t) /\ u # t => Returns(t, id)
<1> DEFINE u == Call(op, t, id)
<1>1. Shape(n, u) /\ Later(n, t, u)
  BY CallKeeps
<1>2. Open(n, t) /\ u # t => Returns(t, id)
  BY CallsNothing DEF Open, Returns
<1> HIDE DEF u
<1>3. u.announced = <<"fail", "fail">> => t.announced = <<"fail", "fail">>
  BY <1>1 DEF Later, TaskInv, Open, Completed, Frozen
<1> QED BY <1>1, <1>2, <1>3, LaterMoves DEF u

-----------------------------------------------------------------------------
(* A task that its caller drives directly.                                 *)

\* The stages of a task are numbered from 1.
LEMMA StagesAre ==
    ASSUME NEW n \in Nat, NEW t, Shape(n, t)
    PROVE  DOMAIN t.row = 1..n /\ Cardinality(DOMAIN t.row) = n
<1>1. DOMAIN t.row = 1..n
  BY TaskFields DEF Shape
<1>2. Cardinality(1..n) = n
  BY FS_Interval
<1> QED BY <1>1, <1>2

\* A task starts open.
LEMMA StartedOpen ==
    ASSUME NEW mode \in Line!Modes, NEW b \in Builders
    PROVE  LET t == Started(mode, b) IN
           /\ b.stages \in 0..MaxStages /\ b.stages \in Nat
           /\ Shape(b.stages, t) /\ Open(b.stages, t)
           /\ \A i \in 1..b.stages :
                 t.row[i].shows = IF i \in b.auto THEN "run" ELSE "wait"
<1> DEFINE n == b.stages
           new == NewTask(mode, 1..n, b.extras)
           t == Started(mode, b)
<1>1. /\ n \in 0..MaxStages /\ b.auto \in IdSets(n)
      /\ b.extras \in SUBSET Extras
  BY DEF Builders, IdSets
<1>2. n \in Nat
  BY <1>1, MaxStagesAssumption
<1> HIDE DEF n
<1>3. /\ Shape(n, new) /\ Open(n, new)
      /\ \A i \in 1..n : new.row[i].shows = "wait"
  BY <1>1, <1>2, NewOpen
<1>4. t = Each(RunById, new, b.auto)
  BY DEF Started, n
<1> HIDE DEF new, t
<1>5. Shape(n, t) /\ Open(n, t) /\ Shown(n, new, t, b.auto, n, "run")
  BY <1>1, <1>2, <1>3, <1>4, EachRun
<1>6. \A i \in 1..n : t.row[i].shows = IF i \in b.auto THEN "run" ELSE "wait"
  <2>1. \A i \in 1..n : i <= n
    BY <1>2
  <2> QED BY <1>3, <1>5, <2>1 DEF Shown
<1> QED BY <1>1, <1>2, <1>5, <1>6 DEF n, t

\* What every step does: the task moves, and the caller has been told if
\* its outcome changed.
StepMoves(n) ==
    /\ Moves(n, task, task')
    /\ CallerInv'
    /\ Open(n, task) /\ task' # task => returned'

\* A call by id moves one stage of the task, or none.
LEMMA ByIdMoves ==
    ASSUME NEW n \in Nat, TaskInv(n, task), CallerInv, NEW id, NEW op \in Ops, held,
           task' = Call(op, task, id), returned' = Returns(task, id), UNCHANGED held
    PROVE  StepMoves(n)
<1>1. /\ Moves(n, task, task')
      /\ task'.announced = <<"fail", "fail">> => task.announced = <<"fail", "fail">>
      /\ Open(n, task) /\ task' # task => Returns(task, id)
  BY CallMoves
<1>2. Returns(task, id) \in BOOLEAN
  BY Zenon DEF Returns
<1>3. CallerInv'
  BY <1>1, <1>2 DEF CallerInv
<1> QED BY <1>1, <1>3 DEF StepMoves

\* A call of the caller of a task.
LEMMA DirectMoves ==
    ASSUME NEW n \in Nat, TaskInv(n, task), CallerInv, Next
    PROVE  StepMoves(n)
<1>1. "run" \in Ops /\ "ok" \in Ops /\ "skip" \in Ops /\ "fail" \in Ops
  BY DEF Ops
<1>2. ASSUME NEW id, RunStage(id) PROVE StepMoves(n)
  <2>1. task' = Call("run", task, id)
    BY <1>2 DEF RunStage, ById, Call
  <2> QED BY <1>1, <1>2, <2>1, ByIdMoves DEF RunStage, ById
<1>3. ASSUME NEW id, OkStage(id) PROVE StepMoves(n)
  <2>1. task' = Call("ok", task, id)
    BY <1>3 DEF OkStage, ById, Call
  <2> QED BY <1>1, <1>3, <2>1, ByIdMoves DEF OkStage, ById
<1>4. ASSUME NEW id, FailStage(id) PROVE StepMoves(n)
  <2>1. task' = Call("fail", task, id)
    BY <1>4 DEF FailStage, ById, Call
  <2> QED BY <1>1, <1>4, <2>1, ByIdMoves DEF FailStage, ById
<1>5. ASSUME NEW id, SkipStage(id) PROVE StepMoves(n)
  <2>1. task' = Call("skip", task, id)
    BY <1>5 DEF SkipStage, ById, Call
  <2> QED BY <1>1, <1>5, <2>1, ByIdMoves DEF SkipStage, ById
<1>6. ASSUME NEW u, Shape(n, u), Later(n, task, u), u.announced = <<"fail", "fail">>
      PROVE  task.announced = <<"fail", "fail">>
  BY <1>6 DEF Later, TaskInv, Open, Completed, Frozen
<1>7. CASE RunAll
  <2>1. Shape(n, task') /\ Later(n, task, task')
    BY <1>7, PerformRunKeeps DEF RunAll
  <2>2. CallerInv'
    BY <1>6, <1>7, <2>1 DEF CallerInv, RunAll
  <2> QED BY <1>7, <2>1, <2>2, LaterMoves DEF StepMoves, RunAll
<1>8. CASE OkAll
  <2>1. Shape(n, task') /\ Later(n, task, task')
    BY <1>8, PerformOkKeeps DEF OkAll, Consume
  <2> QED BY <1>8, <2>1, LaterMoves DEF StepMoves, CallerInv, OkAll, Consume
<1>9. CASE SkipAll
  <2>1. Shape(n, task') /\ Later(n, task, task')
    BY <1>9, PerformSkipKeeps DEF SkipAll, Consume
  <2> QED BY <1>9, <2>1, LaterMoves DEF StepMoves, CallerInv, SkipAll, Consume
<1>10. CASE FailAll
  <2>1. /\ Shape(n, task')
        /\ Open(n, task) => Abandoned(n, task') /\ (n = 0 \/ FailedIn(task') # {})
        /\ ~Open(n, task) => task' = task
    BY <1>10, PerformFailKeeps DEF FailAll, Consume
  <2>2. Moves(n, task, task')
    BY <2>1 DEF Moves, Open, Frozen, Completed, Abandoned
  <2> QED BY <1>10, <2>2 DEF StepMoves, CallerInv, FailAll, Consume
<1> QED BY <1>2, <1>3, <1>4, <1>5, <1>7, <1>8, <1>9, <1>10 DEF Next

-----------------------------------------------------------------------------
(* A sequence.                                                             *)

\* In a sequence of n stages the task is decided when the cursor is at the
\* end; before, the settled stages are those behind the cursor.
LEMMA CursorIs ==
    ASSUME NEW n \in Nat, TaskInv(n, task), SequenceInv(n)
    PROVE  /\ Length = n /\ Ids = 1..n /\ current \in 0..n
           /\ ~task.done <=> Open(n, task)
           /\ current < n => Open(n, task)
           /\ Open(n, task) => CursorInv(n) /\ task.finished = 1..current
<1>1. Length = n /\ Ids = 1..n
  BY StagesAre DEF TaskInv, Length, Ids
<1>2. ~task.done <=> Open(n, task)
  BY DEF TaskInv, Open, Completed, Frozen, Abandoned
<1>3. current \in 0..n /\ (task.done => current = n) /\ (~task.done => CursorInv(n))
  BY DEF SequenceInv
<1>4. ASSUME Open(n, task) PROVE task.finished = 1..current
  <2>1. CursorInv(n) /\ task.finished = SettledIn(task)
    BY <1>2, <1>3, <1>4 DEF Open
  <2>2. \A i \in 1..n : i <= current \/ i = current + 1 \/ i > current + 1
    BY <1>3
  <2>3. \A i \in 1..n : i \in SettledIn(task) <=> i <= current
    BY <1>1, <1>3, <2>1, <2>2 DEF CursorInv, SettledIn, Ids
  <2>4. SettledIn(task) \subseteq 1..n
    BY <1>1 DEF SettledIn, Ids
  <2>5. \A i : i \in 1..current <=> i \in 1..n /\ i <= current
    BY <1>3
  <2>6. \A i : i \in SettledIn(task) <=> i \in 1..current
    BY <2>3, <2>4, <2>5, Zenon
  <2> QED BY <2>1, <2>6, Zenon
<1> QED BY <1>1, <1>2, <1>3, <1>4


\* ok and skip settle the stage at the cursor; the next one runs, or the
\* task is completed.
LEMMA AdvanceMoves ==
    ASSUME NEW n \in Nat, TaskInv(n, task), CallerInv, SequenceInv(n), NEW op \in {"ok", "skip"},
           InSequence, current < Length, Advance(Call(op, task, current + 1))
    PROVE  /\ StepMoves(n) /\ SequenceInv(n)'
           /\ Open(n, task) /\ CursorInv(n) /\ current + 1 \in 1..n
           /\ \A i \in 1..n : task'.row[i].shows = IF i = current + 1 THEN op
                                                   ELSE IF i = current + 2 THEN "run"
                                                   ELSE task.row[i].shows
           /\ IF current + 1 = n THEN Completed(n, task') ELSE Open(n, task')
<1> DEFINE v == Call(op, task, current + 1)
           next == current + 1
<1>1. /\ Length = n /\ Ids = 1..n /\ current \in 0..n /\ current < n
      /\ Open(n, task) /\ CursorInv(n) /\ task.finished = 1..current
  BY CursorIs
<1>2. next \in 1..n /\ next \in Nat /\ current' = next /\ next = current + 1
  BY <1>1 DEF Advance
<1>3. /\ Shape(n, v) /\ Shows(n, task, v, next, op)
      /\ IF task.finished \union {next} = 1..n THEN Completed(n, v) ELSE Open(n, v)
  <2>1. op \in Ops /\ Shape(n, task)
    BY DEF Ops, TaskInv
  <2>2. next \in 1..n
    BY <1>2
  <2> QED BY <1>1, <2>1, <2>2, CallsOpen
<1>4. task.finished \union {next} = 1..next
  BY <1>1, <1>2
<1>5. task' = IF next < n THEN Activate(v, next) ELSE SetCompleted(v)
  BY <1>1 DEF Advance
<1>6. held' = held /\ returned' = returned /\ held /\ returned
  BY DEF InSequence, SequenceInv
<1> HIDE DEF v, next
<1>7. CASE next < n
  <2> DEFINE after == next + 1
  <2>1. after \in 1..n /\ after \notin 1..next /\ after = next + 1
    BY <1>2, <1>7
  <2>2. Open(n, v)
    BY <1>3, <1>4, <2>1
  <2>3. task' = Call("run", v, after)
    BY <1>3, <1>5, <1>7, <2>1, StagesAre DEF Activate, Call
  <2> HIDE DEF after
  <2>4. Shape(n, task') /\ Open(n, task') /\ Shows(n, v, task', after, "run")
    <3>1. "run" \in Ops
      BY DEF Ops
    <3> QED BY <1>3, <2>1, <2>2, <2>3, <3>1, CallsOpen
  <2>5. \A i \in 1..n : task'.row[i].shows = IF i = next THEN op
                                             ELSE IF i = after THEN "run"
                                             ELSE task.row[i].shows
    BY <1>2, <1>3, <2>1, <2>4 DEF Shows
  <2>6. CursorInv(n)'
    <3>1. n > 0 => current' < n
      BY <1>2, <1>7
    <3>2. ASSUME NEW i \in 1..n
          PROVE  /\ i <= next => task'.row[i].shows \in {"ok", "skip"}
                 /\ i = next + 1 => task'.row[i].shows \in {"wait", "run"}
                 /\ i > next + 1 => task'.row[i].shows = "wait"
      BY <1>1, <1>2, <2>1, <2>5 DEF CursorInv
    <3> QED BY <1>2, <3>1, <3>2 DEF CursorInv
  <2>7. SequenceInv(n)'
    BY <1>2, <1>6, <2>4, <2>6 DEF SequenceInv, Open
  <2>8. Moves(n, task, task')
    BY <1>1, <2>4 DEF Moves, Open, Frozen, Completed, Abandoned
  <2>9. StepMoves(n)
    BY <1>6, <2>4, <2>8 DEF StepMoves, CallerInv, Open
  <2> QED BY <1>1, <1>2, <1>7, <2>1, <2>4, <2>5, <2>7, <2>9
<1>8. CASE ~(next < n)
  <2>1. next = n
    BY <1>2, <1>8
  <2>2. Completed(n, v) /\ v.done
    BY <1>3, <1>4, <2>1 DEF Completed
  <2>3. task' = v
    BY <1>5, <1>8, <2>2 DEF SetCompleted
  <2>4. \A i \in 1..n : task'.row[i].shows = IF i = next THEN op
                                             ELSE IF i = next + 1 THEN "run"
                                             ELSE task.row[i].shows
    BY <1>3, <2>1, <2>3 DEF Shows
  <2>5. SettledIn(task') = 1..n
    <3>1. SettledIn(v) = SettledIn(task) \union {next}
      BY <1>2, <1>3, ShowsSettled DEF TaskInv
    <3>2. SettledIn(task) = task.finished
      BY <1>1 DEF Open
    <3> QED BY <1>4, <2>1, <2>3, <3>1, <3>2
  <2>6. SequenceInv(n)'
    BY <1>2, <1>6, <2>1, <2>2, <2>3 DEF SequenceInv
  <2>7. Moves(n, task, task')
    BY <1>1, <1>3, <2>2, <2>3, <2>5 DEF Moves, Open, Frozen, Completed, Abandoned
  <2>8. StepMoves(n)
    BY <1>6, <2>2, <2>3, <2>7 DEF StepMoves, CallerInv, Completed
  <2> QED BY <1>1, <1>2, <2>1, <2>2, <2>3, <2>4, <2>6, <2>8
<1> QED BY <1>7, <1>8

\* A stage that fails takes the stages after it along, skipped.
LEMMA FailMoves ==
    ASSUME NEW n \in Nat, TaskInv(n, task), CallerInv, SequenceInv(n), Fail
    PROVE  /\ StepMoves(n) /\ SequenceInv(n)'
           /\ Open(n, task) /\ CursorInv(n) /\ current + 1 \in 1..n
           /\ \A i \in 1..n : task'.row[i].shows = IF i = current + 1 THEN "fail"
                                                   ELSE IF i > current + 1 THEN "skip"
                                                   ELSE task.row[i].shows
           /\ Frozen(n, task')
<1> DEFINE next == current + 1
           v == FailById(task, next)
           rest == (next + 1)..n
<1>1. /\ Length = n /\ Ids = 1..n /\ current \in 0..n /\ current < n
      /\ Open(n, task) /\ CursorInv(n)
  BY CursorIs DEF Fail
<1>2. /\ next \in 1..n /\ next = current + 1 /\ rest \in IdSets(n)
      /\ \A i \in 1..n : i \in rest /\ i <= n <=> i > next
  BY <1>1 DEF IdSets
<1>3. /\ Shape(n, v) /\ Shows(n, task, v, next, "fail") /\ Frozen(n, v)
  <2>1. "fail" \in Ops /\ Shape(n, task)
    BY DEF Ops, TaskInv
  <2>2. v = Call("fail", task, next)
    BY DEF Call
  <2> HIDE DEF v, next
  <2> QED BY <1>1, <1>2, <2>1, <2>2, CallsOpen
<1>4. task' = Each(SkipById, v, rest) /\ current' = n
  BY <1>1 DEF Fail, SkipStages
<1>5. held' = held /\ returned' = returned /\ held /\ returned
  BY DEF Fail, InSequence, SequenceInv
<1> HIDE DEF v, next, rest
<1>6. Shape(n, task') /\ Frozen(n, task') /\ Shown(n, v, task', rest, n, "skip")
  BY <1>2, <1>3, <1>4, EachFrozen
<1>7. \A i \in 1..n : task'.row[i].shows = IF i = next THEN "fail"
                                           ELSE IF i > next THEN "skip"
                                           ELSE task.row[i].shows
  <2>1. \A i \in 1..n : i = next => ~(i > next)
    BY <1>2
  <2> QED BY <1>2, <1>3, <1>6, <2>1 DEF Shown, Shows
<1>8. FailedIn(task') # {}
  <2>1. next \in FailedIn(task')
    BY <1>2, <1>6, <1>7, StagesAre DEF FailedIn
  <2> QED BY <2>1
<1>9. SequenceInv(n)'
  BY <1>4, <1>5, <1>6 DEF SequenceInv, Frozen
<1>10. Moves(n, task, task')
  BY <1>1, <1>6, <1>8 DEF Moves, Open, Frozen, Completed, Abandoned
<1>11. StepMoves(n)
  BY <1>5, <1>6, <1>10 DEF StepMoves, CallerInv, Frozen
<1> QED BY <1>1, <1>2, <1>6, <1>7, <1>9, <1>11

\* A loop over no ids makes no call.
LEMMA EachOfNone ==
    ASSUME NEW n \in Nat, NEW t, Shape(n, t)
    PROVE  Each(SkipById, t, {}) = t
<1>1. PICK f : Rounds("skip", t, {}, f, n) /\ Each(SkipById, t, {}) = f[n]
  BY RowLen, SkipRounds
<1> DEFINE Right == {k \in 0..n : f[k] = t}
<1>2. 0 \in Right
  BY <1>1 DEF Rounds
<1>3. ASSUME NEW k \in 1..n, k - 1 \in Right PROVE k \in Right
  BY <1>1, <1>3 DEF Rounds
<1>4. n \in Right
  <2> HIDE DEF Right
  <2> QED BY <1>2, <1>3, LastRound
<1> QED BY <1>1, <1>4

\* finish skips what is left of an open task and completes it; after the
\* end it changes nothing.
LEMMA FinishMoves ==
    ASSUME NEW n \in Nat, TaskInv(n, task), CallerInv, SequenceInv(n), Finish
    PROVE  /\ StepMoves(n) /\ SequenceInv(n)'
           /\ ~Open(n, task) => task' = task
           /\ Open(n, task) =>
                 /\ CursorInv(n) /\ Completed(n, task')
                 /\ \A i \in 1..n : task'.row[i].shows = IF i > current THEN "skip"
                                                         ELSE task.row[i].shows
<1> DEFINE rest == (current + 1)..n
           v == Each(SkipById, task, rest)
<1>1. /\ Length = n /\ Ids = 1..n /\ current \in 0..n
      /\ ~task.done <=> Open(n, task)
      /\ current < n => Open(n, task)
      /\ Open(n, task) => CursorInv(n) /\ task.finished = 1..current
  BY CursorIs
<1>2. task' = SetCompleted(v) /\ current' = n
  BY <1>1 DEF Finish, SkipStages
<1>3. held' = held /\ returned' = returned /\ held /\ returned
  BY DEF Finish, InSequence, SequenceInv
<1>4. Shape(n, task)
  BY DEF TaskInv
<1>5. CASE ~Open(n, task)
  <2>1. rest = {} /\ task.done
    BY <1>1, <1>5
  <2>2. v = task
    <3> HIDE DEF rest
    <3> QED BY <1>4, <2>1, EachOfNone
  <2>3. task' = task
    BY <1>2, <2>1, <2>2 DEF SetCompleted
  <2> HIDE DEF v, rest
  <2>4. SequenceInv(n)'
    BY <1>1, <1>2, <1>3, <2>1, <2>3 DEF SequenceInv
  <2>5. Moves(n, task, task')
    BY <1>4, <1>5, <2>3 DEF Moves
  <2>6. StepMoves(n)
    BY <1>3, <1>5, <2>3, <2>5 DEF StepMoves, CallerInv
  <2> QED BY <1>5, <2>3, <2>4, <2>6
<1>6. CASE Open(n, task)
  <2>1. /\ Shape(n, task') /\ Completed(n, task') /\ SettledIn(task') = 1..n
        /\ \A i \in 1..n : task'.row[i].shows = IF i > current THEN "skip"
                                                ELSE task.row[i].shows
    <3>1. CASE n > 0
      <4>1. /\ rest \in IdSets(n)
            /\ \A i \in 1..n : i \in rest <=> i > current
            /\ \A i \in 1..n : i \in rest /\ i <= n <=> i > current
        BY <1>1, <3>1 DEF IdSets
      <4>2. 1..n = rest \union task.finished /\ rest = (1..n) \ task.finished
        BY <1>1, <1>6, <3>1, <4>1 DEF IdSets
      <4> HIDE DEF rest
      <4>3. /\ Shape(n, v) /\ Completed(n, v) /\ SettledIn(v) = 1..n
            /\ Shown(n, task, v, rest, n, "skip")
        BY <1>4, <1>6, <3>1, <4>1, <4>2, EachSkip
      <4> HIDE DEF v
      <4>4. task' = v
        BY <1>2, <4>3 DEF SetCompleted, Completed
      <4> QED BY <4>1, <4>3, <4>4 DEF Shown
    <3>2. CASE n = 0
      <4> HIDE DEF rest
      <4>1. v = task
        BY <1>4, <3>2, EachNothing
      <4> HIDE DEF v
      <4>2. Shape(n, task') /\ Completed(n, task')
        BY <1>2, <1>4, <1>6, <4>1, CompletesOpen
      <4>3. SettledIn(task') = 1..n
        BY <3>2, <4>2, TaskFields DEF Shape, SettledIn
      <4>4. \A i \in 1..n : FALSE
        BY <3>2
      <4> QED BY <4>2, <4>3, <4>4
    <3> QED BY <3>1, <3>2
  <2> HIDE DEF v, rest
  <2>2. SequenceInv(n)'
    BY <1>1, <1>2, <1>3, <2>1 DEF SequenceInv, Completed
  <2>3. Moves(n, task, task')
    BY <1>6, <2>1 DEF Moves, Open, Frozen, Completed, Abandoned
  <2>4. StepMoves(n)
    BY <1>3, <2>1, <2>3 DEF StepMoves, CallerInv, Completed
  <2> QED BY <1>1, <1>6, <2>1, <2>2, <2>4
<1> QED BY <1>5, <1>6

-----------------------------------------------------------------------------
(* Type correctness and the invariants.                                    *)

\* A sequence starts with at most its first stage running.
LEMMA NewIs ==
    ASSUME New
    PROVE  \E n \in 0..MaxStages :
              /\ StateInv(n) /\ Open(n, task) /\ current = 0
              /\ \E first \in {"wait", "run"} : \A i \in 1..n :
                    task.row[i].shows = IF i = 1 THEN first ELSE "wait"
<1>1. PICK mode \in Line!Modes, b \in Numbered, autostart \in BOOLEAN :
         task = IF autostart THEN Activate(Started(mode, b), 0) ELSE Started(mode, b)
  BY DEF New
<1> DEFINE n == b.stages
           built == Started(mode, b)
<1>2. b \in Builders /\ b.auto = {}
  BY DEF Numbered
<1>3. /\ n \in 0..MaxStages /\ n \in Nat
      /\ Shape(n, built) /\ Open(n, built)
      /\ \A i \in 1..n : built.row[i].shows = "wait"
  BY <1>2, StartedOpen
<1>4. held /\ returned /\ held \in BOOLEAN /\ returned \in BOOLEAN /\ current = 0
  BY DEF New
<1> HIDE DEF n, built
<1>5. /\ Shape(n, task) /\ Open(n, task)
      /\ \E first \in {"wait", "run"} : \A i \in 1..n :
            task.row[i].shows = IF i = 1 THEN first ELSE "wait"
  <2>1. CASE autostart /\ n > 0
    <3>1. 1 \in 1..n /\ 0 + 1 = 1
      BY <1>3, <2>1
    <3>2. task = Call("run", built, 1)
      BY <1>1, <1>3, <2>1, <3>1, StagesAre DEF Activate, Call, built
    <3>3. Shape(n, task) /\ Open(n, task) /\ Shows(n, built, task, 1, "run")
      <4>1. "run" \in Ops
        BY DEF Ops
      <4> QED BY <1>3, <3>1, <3>2, <4>1, CallsOpen
    <3>4. \A i \in 1..n : task.row[i].shows = IF i = 1 THEN "run" ELSE "wait"
      BY <1>3, <3>3 DEF Shows
    <3> QED BY <3>3, <3>4
  <2>2. CASE ~autostart \/ n = 0
    <3>1. task = built
      BY <1>1, <1>3, <2>2, StagesAre DEF Activate, built
    <3> QED BY <1>3, <3>1
  <2> QED BY <1>3, <2>1, <2>2
<1>6. CallerInv
  BY <1>4, <1>5 DEF CallerInv, Open
<1>7. CursorInv(n)
  BY <1>3, <1>4, <1>5 DEF CursorInv
<1>8. StateInv(n)
  BY <1>3, <1>4, <1>5, <1>6, <1>7 DEF StateInv, SequenceInv, TaskInv, Open
<1> QED BY <1>3, <1>4, <1>5, <1>8

\* Both ways to begin.
LEMMA InitInv ==
    ASSUME SeqInit
    PROVE  IInv
<1>1. CASE New
  BY <1>1, NewIs DEF IInv
<1>2. CASE Init /\ current = Direct
  <2>1. PICK mode \in Line!Modes, b \in Builders : task = Started(mode, b)
    BY <1>2 DEF Init
  <2> DEFINE n == b.stages
  <2>2. n \in 0..MaxStages /\ Shape(n, task) /\ Open(n, task)
    BY <2>1, StartedOpen
  <2> HIDE DEF n
  <2>3. CallerInv
    BY <1>2, <2>2 DEF CallerInv, Open, Init
  <2>4. StateInv(n)
    BY <1>2, <2>2, <2>3 DEF StateInv, TaskInv
  <2> QED BY <2>2, <2>4 DEF IInv
<1> QED BY <1>1, <1>2 DEF SeqInit

\* Every step is a move of the task, and of the cursor of a sequence.
LEMMA NextMoves ==
    ASSUME NEW n \in 0..MaxStages, StateInv(n), [SeqNext]_seqVars
    PROVE  StepMoves(n) /\ StateInv(n)'
<1>1. n \in Nat /\ TaskInv(n, task) /\ CallerInv
  BY MaxStagesAssumption DEF StateInv
<1>2. StepMoves(n) => TaskInv(n, task') /\ CallerInv'
  BY <1>1, MovesKeep DEF StepMoves
<1>3. InSequence => SequenceInv(n)
  BY DEF InSequence, StateInv
<1>4. CASE Ok
  <2>1. OkById(task, current + 1) = Call("ok", task, current + 1)
    BY DEF Call
  <2>2. StepMoves(n) /\ SequenceInv(n)'
    <3>1. "ok" \in {"ok", "skip"} /\ InSequence /\ current < Length
      BY <1>4 DEF Ok
    <3> QED BY <1>1, <1>3, <1>4, <2>1, <3>1, AdvanceMoves DEF Ok
  <2> QED BY <1>2, <2>2 DEF StateInv
<1>5. CASE Skip
  <2>1. SkipById(task, current + 1) = Call("skip", task, current + 1)
    BY DEF Call
  <2>2. StepMoves(n) /\ SequenceInv(n)'
    <3>1. "skip" \in {"ok", "skip"} /\ InSequence /\ current < Length
      BY <1>5 DEF Skip
    <3> QED BY <1>1, <1>3, <1>5, <2>1, <3>1, AdvanceMoves DEF Skip
  <2> QED BY <1>2, <2>2 DEF StateInv
<1>6. CASE Fail
  <2>1. StepMoves(n) /\ SequenceInv(n)'
    BY <1>1, <1>3, <1>6, FailMoves DEF Fail
  <2> QED BY <1>2, <2>1 DEF StateInv
<1>7. CASE Finish
  <2>1. StepMoves(n) /\ SequenceInv(n)'
    BY <1>1, <1>3, <1>7, FinishMoves DEF Finish
  <2> QED BY <1>2, <2>1 DEF StateInv
<1>8. CASE current = Direct /\ Next /\ UNCHANGED current
  <2>1. StepMoves(n)
    BY <1>1, <1>8, DirectMoves
  <2> QED BY <1>2, <1>8, <2>1 DEF StateInv
<1>9. CASE UNCHANGED seqVars
  <2>1. task' = task /\ held' = held /\ returned' = returned /\ current' = current
    BY <1>9 DEF seqVars, vars
  <2>2. Moves(n, task, task')
    BY <1>1, <2>1 DEF Moves, TaskInv, Open, Frozen, Completed, Abandoned, Tidy
  <2>3. StepMoves(n)
    BY <1>1, <2>1, <2>2 DEF StepMoves, CallerInv
  <2>4. SequenceInv(n) => SequenceInv(n)'
    BY <2>1 DEF SequenceInv, CursorInv
  <2> QED BY <1>2, <2>1, <2>3, <2>4 DEF StateInv
<1> QED BY <1>4, <1>5, <1>6, <1>7, <1>8, <1>9 DEF SeqNext

\* The inductive invariant holds in every state of a task and of a
\* sequence, whatever the calls and their order.
THEOREM Inductive == SeqSpec => []IInv
<1>1. SeqInit => IInv
  BY InitInv
<1>2. IInv /\ [SeqNext]_seqVars => IInv'
  BY NextMoves DEF IInv
<1> QED BY <1>1, <1>2, PTL DEF SeqSpec

\* Types, the lines still held are all of them or none, the cursor of a
\* sequence is within its stages, and its outcome is announced at most once.
THEOREM TypeCorrect == SeqSpec => []SeqTypeOK
<1>1. IInv => SeqTypeOK
  <2> SUFFICES ASSUME NEW n \in 0..MaxStages, StateInv(n) PROVE SeqTypeOK
    BY DEF IInv
  <2>1. n \in Nat /\ TaskInv(n, task) /\ CallerInv /\ Shape(n, task)
    BY MaxStagesAssumption DEF StateInv, TaskInv
  <2>2. Ids = 1..n /\ Length = n /\ task \in Tasks(Ids)
    BY <2>1, StagesAre DEF Ids, Length, Shape
  <2>3. /\ task.entries \in {Ids, {}} /\ task.extras \in {DOMAIN task.extra, {}}
    BY <2>1, <2>2 DEF TaskInv, Open, Completed, Frozen, Abandoned, Tidy
  <2>4. TypeOK
    BY <2>1, <2>2, <2>3 DEF TypeOK, CallerInv
  <2>5. current \in {Direct} \union 0..Length
    BY <2>2 DEF StateInv, SequenceInv
  <2>6. current # Direct => Len(task.announced) <= 1
    <3>1. current # Direct => task.announced # <<"fail", "fail">>
      BY <2>1 DEF StateInv, SequenceInv, CallerInv
    <3>2. Len(<<>>) <= 1 /\ Len(<<"ok">>) <= 1 /\ Len(<<"fail">>) <= 1
      OBVIOUS
    <3>3. \/ task.announced \in {<<>>, <<"ok">>, <<"fail">>}
          \/ task.announced = <<"fail", "fail">>
      BY <2>1 DEF TaskInv, Open, Completed, Frozen, Abandoned
    <3> QED BY <3>1, <3>2, <3>3
  <2> QED BY <2>4, <2>5, <2>6 DEF SeqTypeOK
<1> QED BY <1>1, Inductive, PTL

\* An undecided task with stages has work left and no failure on show.
THEOREM WorkIsLeft == SeqSpec => []OpenTaskHasWorkLeft
<1>1. IInv => OpenTaskHasWorkLeft
  <2> SUFFICES ASSUME NEW n \in 0..MaxStages, StateInv(n), Outcome(task) = "open"
               PROVE  (Ids # {} => Settled # Ids) /\ Failed = {}
    BY DEF IInv, OpenTaskHasWorkLeft
  <2>1. n \in Nat /\ TaskInv(n, task) /\ Shape(n, task)
    BY MaxStagesAssumption DEF StateInv, TaskInv
  <2>2. Ids = 1..n
    BY <2>1, StagesAre DEF Ids
  <2>3. Open(n, task)
    BY <2>1, OutcomeIs DEF TaskInv
  <2>4. Settled = task.finished
    BY <2>3 DEF Settled, SettledIn, Open, Ids
  <2>5. n = 0 => Ids = {}
    BY <2>1, <2>2
  <2>6. Failed = {}
    BY <2>2, <2>3 DEF Failed, Open
  <2> QED BY <2>1, <2>2, <2>3, <2>4, <2>5, <2>6 DEF Open
<1> QED BY <1>1, Inductive, PTL

\* A failed task leaves a report on the screen, a completed one none.
THEOREM FailureIsReported == SeqSpec => []FailureShowsReport
<1>1. IInv => FailureShowsReport
  <2> SUFFICES ASSUME NEW n \in 0..MaxStages, StateInv(n) PROVE FailureShowsReport
    BY DEF IInv
  <2>1. n \in Nat /\ TaskInv(n, task) /\ Shape(n, task)
    BY MaxStagesAssumption DEF StateInv, TaskInv
  <2>2. Ids = 1..n
    BY <2>1, StagesAre DEF Ids
  <2>3. ASSUME Outcome(task) = "fail"
        PROVE  \E l \in Below \union {task.head} : l.reported
    <3>1. Frozen(n, task) \/ Abandoned(n, task)
      BY <2>1, <2>3, OutcomeIs DEF TaskInv
    <3>2. CASE Frozen(n, task)
      <4>1. PICK i \in 1..n : task.row[i].reported
        BY <3>2 DEF Frozen
      <4>2. task.row[i] \in Below
        BY <2>2 DEF Below
      <4> QED BY <4>1, <4>2
    <3>3. CASE Abandoned(n, task)
      BY <3>3 DEF Abandoned
    <3> QED BY <3>1, <3>2, <3>3
  <2>4. ASSUME Outcome(task) = "success", NEW l \in Below \union {task.head},
               l.mode = "interactive"
        PROVE  ~l.reported
    <3>1. Completed(n, task)
      BY <2>1, <2>4, OutcomeIs DEF TaskInv
    <3>2. CASE l \in Below
      BY <2>2, <2>4, <3>1, <3>2 DEF Below, Completed, Tidy, Gone
    <3>3. CASE l = task.head
      BY <3>1, <3>3 DEF Completed
    <3> QED BY <3>2, <3>3
  <2> QED BY <2>3, <2>4 DEF FailureShowsReport
<1> QED BY <1>1, Inductive, PTL

\* A decided task leaves no spinner turning, and once it has dropped its
\* lines none of them on the screen.
THEOREM NothingSpins == SeqSpec => []NothingSpinsAfterTheEnd
<1>1. IInv => NothingSpinsAfterTheEnd
  <2> SUFFICES ASSUME NEW n \in 0..MaxStages, StateInv(n), task.done,
                      task.head.mode = "interactive"
               PROVE  /\ \A l \in Below \union {task.head} : l.visible => l.finished
                      /\ task.entries = {} /\ task.extras = {} =>
                            \A l \in Below : ~l.visible
    BY DEF IInv, NothingSpinsAfterTheEnd
  <2>1. n \in Nat /\ TaskInv(n, task) /\ Shape(n, task) /\ ~Open(n, task)
    BY MaxStagesAssumption DEF StateInv, TaskInv, Open
  <2>2. Ids = 1..n
    BY <2>1, StagesAre DEF Ids
  <2>3. \A l \in Below : l.mode = "interactive"
    BY <2>1, <2>2 DEF Below, Shape
  <2>4. task.head.finished
    BY <2>1 DEF TaskInv, Completed, Frozen, Abandoned, Quiet
  <2>5. CASE Frozen(n, task)
    <3>1. task.entries # {}
      BY <2>5 DEF Frozen
    <3>2. \A l \in Below : l.finished
      BY <2>2, <2>3, <2>5 DEF Below, Frozen, Quiet
    <3> QED BY <2>4, <3>1, <3>2
  <2>6. CASE Completed(n, task) \/ Abandoned(n, task)
    <3>1. \A l \in Below : l.finished /\ ~l.visible
      BY <2>2, <2>3, <2>6 DEF Below, Completed, Abandoned, Tidy, Gone
    <3> QED BY <2>4, <3>1
  <2> QED BY <2>1, <2>5, <2>6 DEF TaskInv
<1> QED BY <1>1, Inductive, PTL

\* How a task ended is announced once, or twice when it is failed as a whole
\* with stages; never a success and a failure.
THEOREM AnnouncedAtMostOnce == SeqSpec => []AnnouncedOnce
<1>1. IInv => AnnouncedOnce
  <2> SUFFICES ASSUME NEW n \in 0..MaxStages, StateInv(n) PROVE AnnouncedOnce
    BY DEF IInv
  <2>1. n \in Nat /\ TaskInv(n, task) /\ Shape(n, task) /\ CallerInv
    BY MaxStagesAssumption DEF StateInv, TaskInv
  <2>2. Ids = 1..n
    BY <2>1, StagesAre DEF Ids
  <2>3. \/ task.announced \in {<<>>, <<"ok">>, <<"fail">>}
        \/ Abandoned(n, task) /\ n > 0 /\ task.announced = <<"fail", "fail">>
    BY <2>1 DEF TaskInv, Open, Completed, Frozen, Abandoned
  <2>4. n > 0 => Ids # {}
    <3>1. n > 0 => 1 \in Ids
      BY <2>1, <2>2
    <3> QED BY <3>1
  <2> QED BY <2>1, <2>3, <2>4 DEF AnnouncedOnce, CallerInv, Abandoned
<1> QED BY <1>1, Inductive, PTL

\* The outcome of a task is decided once, what the lines show at that
\* moment justifies it, and the caller is told by the call that decided.
THEOREM OutcomeIsJustified == SeqSpec => OutcomeFollowsRows
<1>1. IInv /\ [SeqNext]_seqVars =>
         [Outcome(task)' # Outcome(task) =>
             /\ Outcome(task) = "open" /\ returned'
             /\ Outcome(task)' = "success" => Settled' = Ids
             /\ Outcome(task)' = "fail" => Ids = {} \/ Failed' # {}]_vars
  <2> SUFFICES ASSUME NEW n \in 0..MaxStages, StateInv(n), [SeqNext]_seqVars,
                      Outcome(task') # Outcome(task)
               PROVE  /\ Outcome(task) = "open" /\ returned'
                      /\ Outcome(task') = "success" => Settled' = Ids
                      /\ Outcome(task') = "fail" => Ids = {} \/ Failed' # {}
    BY DEF IInv
  <2>1. n \in Nat /\ TaskInv(n, task) /\ Shape(n, task)
    BY MaxStagesAssumption DEF StateInv, TaskInv
  <2>2. StepMoves(n) /\ Moves(n, task, task')
    BY NextMoves DEF StepMoves
  <2>3. /\ Open(n, task) /\ task' # task
        /\ Outcome(task') = "success" => SettledIn(task') = 1..n
        /\ Outcome(task') = "fail" => n = 0 \/ FailedIn(task') # {}
    BY <2>1, <2>2, MovesKeep
  <2>4. Outcome(task) = "open" /\ returned'
    BY <2>2, <2>3, OutcomeIs DEF StepMoves
  <2>5. Ids = 1..n /\ (n = 0 => Ids = {})
    BY <2>1, StagesAre DEF Ids
  <2>6. Settled' = SettledIn(task') /\ Failed' = FailedIn(task')
    BY DEF Settled, SettledIn, Failed, FailedIn, Ids
  <2> QED BY <2>3, <2>4, <2>5, <2>6
<1> QED BY <1>1, Inductive, PTL DEF SeqSpec, OutcomeFollowsRows

-----------------------------------------------------------------------------
(* The chain of stages.                                                    *)

\* What a sequence of n stages shows.
LEMMA ChainIs ==
    ASSUME NEW n \in Nat, TaskInv(n, task), current # Direct
    PROVE  /\ ChainRow = [i \in 1..n |-> task.row[i].shows]
           /\ Len(ChainRow) = n /\ Chain!Length = n
           /\ \A i \in 1..n : ChainRow[i] = task.row[i].shows
           /\ ChainOutcome = Outcome(task)
<1>1. Length = n /\ task \in Tasks(1..n)
  BY StagesAre DEF TaskInv, Length, Ids, Shape
<1>2. ChainRow = [i \in 1..n |-> task.row[i].shows] /\ ChainOutcome = Outcome(task)
  BY <1>1 DEF ChainRow, ChainOutcome
<1>3. ChainRow \in [1..n -> Line!Displays]
  <2>1. \A i \in 1..n : task.row[i].shows \in Line!Displays
    BY <1>1, TaskFields DEF Line!Lines
  <2> QED BY <1>2, <2>1
<1>4. Len(ChainRow) = n
  <2>1. ChainRow \in Seq(Line!Displays)
    BY <1>3, SeqDef
  <2>2. 1..Len(ChainRow) = 1..n /\ Len(ChainRow) \in Nat
    BY <1>3, <2>1, LenProperties
  <2> QED BY <2>2
<1> QED BY <1>2, <1>4 DEF Chain!Length

\* The same after a step.
LEMMA ChainNextIs ==
    ASSUME NEW n \in Nat, TaskInv(n, task'), current' # Direct
    PROVE  /\ ChainRow' = [i \in 1..n |-> task'.row[i].shows]
           /\ ChainOutcome' = Outcome(task')
<1>1. Length' = n
  BY StagesAre DEF TaskInv, Length, Ids
<1> QED BY <1>1 DEF ChainRow, ChainOutcome

\* What is shown of a task that is no sequence: no stage.
LEMMA ChainIsNot ==
    ASSUME current = Direct
    PROVE  ChainRow = <<>> /\ ChainOutcome = "open"
<1>1. ChainRow = [i \in 1..0 |-> task.row[i].shows]
  BY DEF ChainRow
<1> QED BY <1>1 DEF ChainOutcome

\* A sequence starts as a chain does.
LEMMA ChainStarts ==
    ASSUME SeqInit
    PROVE  Chain!Init
<1>1. CASE New
  <2>1. PICK n \in 0..MaxStages :
           /\ StateInv(n) /\ Open(n, task) /\ current = 0
           /\ \E first \in {"wait", "run"} : \A i \in 1..n :
                 task.row[i].shows = IF i = 1 THEN first ELSE "wait"
    BY <1>1, NewIs
  <2>2. n \in Nat /\ TaskInv(n, task) /\ current # Direct
    BY <2>1, MaxStagesAssumption DEF StateInv, Direct
  <2>3. /\ ChainRow = [i \in 1..n |-> task.row[i].shows] /\ Chain!Length = n
        /\ ChainOutcome = "open"
    BY <2>1, <2>2, ChainIs, OutcomeIs
  <2>4. PICK first \in {"wait", "run"} : \A i \in 1..n :
           task.row[i].shows = IF i = 1 THEN first ELSE "wait"
    BY <2>1
  <2>5. ChainRow = [i \in 1..Chain!Length |-> IF i = 1 THEN first ELSE "wait"]
    BY <2>3, <2>4
  <2> QED BY <2>3, <2>5 DEF Chain!Init
<1>2. CASE Init /\ current = Direct
  <2>1. ChainRow = <<>> /\ ChainOutcome = "open"
    BY <1>2, ChainIsNot
  <2>2. Chain!Length = 0
    BY <2>1 DEF Chain!Length
  <2>3. ChainRow = [i \in 1..Chain!Length |-> IF i = 1 THEN "wait" ELSE "wait"]
    BY <2>1, <2>2
  <2> QED BY <2>1, <2>3 DEF Chain!Init
<1> QED BY <1>1, <1>2 DEF SeqInit

\* The stage at the cursor is the one the chain has due.
LEMMA DueIs ==
    ASSUME NEW n \in Nat, TaskInv(n, task), current # Direct, CursorInv(n), current \in 0..n,
           current + 1 \in 1..n
    PROVE  Chain!Due(current + 1)
<1>1. Chain!Length = n /\ \A i \in 1..n : ChainRow[i] = task.row[i].shows
  BY ChainIs
<1>2. \A i \in 1..(current + 1 - 1) : i \in 1..n /\ i <= current
  OBVIOUS
<1>3. \A i \in (current + 1 + 1)..n : i \in 1..n /\ i > current + 1
  OBVIOUS
<1>4. /\ \A i \in 1..(current + 1 - 1) : ChainRow[i] \in {"ok", "skip"}
      /\ ChainRow[current + 1] \in {"wait", "run"}
      /\ \A i \in (current + 1 + 1)..n : ChainRow[i] = "wait"
  BY <1>1, <1>2, <1>3 DEF CursorInv
<1> QED BY <1>1, <1>4 DEF Chain!Due

\* ok and skip settle the stage that is due.
LEMMA ChainSettles ==
    ASSUME NEW n \in Nat, TaskInv(n, task), CallerInv, SequenceInv(n), NEW op \in {"ok", "skip"},
           InSequence, current < Length, Advance(Call(op, task, current + 1))
    PROVE  Chain!Settle
<1> DEFINE next == current + 1
<1>1. /\ StepMoves(n) /\ SequenceInv(n)'
      /\ Open(n, task) /\ CursorInv(n) /\ next \in 1..n
      /\ \A i \in 1..n : task'.row[i].shows = IF i = next THEN op
                                              ELSE IF i = current + 2 THEN "run"
                                              ELSE task.row[i].shows
      /\ IF next = n THEN Completed(n, task') ELSE Open(n, task')
  BY AdvanceMoves
<1>2. current \in 0..n /\ current # Direct /\ current' # Direct
  BY <1>1 DEF SequenceInv, Direct
<1>3. TaskInv(n, task')
  BY <1>1, MovesKeep DEF StepMoves
<1>4. /\ Chain!Length = n /\ \A i \in 1..n : ChainRow[i] = task.row[i].shows
      /\ ChainOutcome = "open"
  BY <1>1, <1>2, ChainIs, OutcomeIs
<1>5. /\ ChainRow' = [i \in 1..n |-> task'.row[i].shows]
      /\ ChainOutcome' = IF next = n THEN "success" ELSE "open"
  BY <1>1, <1>2, <1>3, ChainNextIs, OutcomeIs
<1>6. Chain!Due(next)
  BY <1>1, <1>2, DueIs
<1>7. ChainRow' = [i \in 1..Chain!Length |-> IF i = next THEN op
                                             ELSE IF i = next + 1 THEN "run"
                                             ELSE ChainRow[i]]
  <2>1. next + 1 = current + 2
    BY <1>2
  <2> HIDE DEF next
  <2> QED BY <1>1, <1>4, <1>5, <2>1
<1> HIDE DEF next
<1> QED BY <1>1, <1>4, <1>5, <1>6, <1>7 DEF Chain!Settle

\* A stage that fails aborts the chain.
LEMMA ChainAborts ==
    ASSUME NEW n \in Nat, TaskInv(n, task), CallerInv, SequenceInv(n), Fail
    PROVE  Chain!Abort
<1> DEFINE next == current + 1
<1>1. /\ StepMoves(n) /\ SequenceInv(n)'
      /\ Open(n, task) /\ CursorInv(n) /\ next \in 1..n
      /\ \A i \in 1..n : task'.row[i].shows = IF i = next THEN "fail"
                                              ELSE IF i > next THEN "skip"
                                              ELSE task.row[i].shows
      /\ Frozen(n, task')
  BY FailMoves
<1>2. current \in 0..n /\ current # Direct /\ current' # Direct
  BY <1>1 DEF SequenceInv, Direct
<1>3. TaskInv(n, task')
  BY <1>1, MovesKeep DEF StepMoves
<1>4. /\ Chain!Length = n /\ \A i \in 1..n : ChainRow[i] = task.row[i].shows
      /\ ChainOutcome = "open"
  BY <1>1, <1>2, ChainIs, OutcomeIs
<1>5. /\ ChainRow' = [i \in 1..n |-> task'.row[i].shows]
      /\ ChainOutcome' = "fail"
  BY <1>1, <1>2, <1>3, ChainNextIs, OutcomeIs
<1>6. Chain!Due(next)
  BY <1>1, <1>2, DueIs
<1>7. ChainRow' = [i \in 1..Chain!Length |-> IF i = next THEN "fail"
                                             ELSE IF i > next THEN "skip"
                                             ELSE ChainRow[i]]
  <2> HIDE DEF next
  <2> QED BY <1>1, <1>4, <1>5
<1> HIDE DEF next
<1> QED BY <1>1, <1>4, <1>5, <1>6, <1>7 DEF Chain!Abort

\* finish ends an open chain, and leaves one that has ended.
LEMMA ChainFinishes ==
    ASSUME NEW n \in Nat, TaskInv(n, task), CallerInv, SequenceInv(n), Finish
    PROVE  Chain!Finish \/ UNCHANGED <<ChainRow, ChainOutcome>>
<1>1. /\ StepMoves(n) /\ SequenceInv(n)'
      /\ ~Open(n, task) => task' = task
      /\ Open(n, task) =>
            /\ CursorInv(n) /\ Completed(n, task')
            /\ \A i \in 1..n : task'.row[i].shows = IF i > current THEN "skip"
                                                    ELSE task.row[i].shows
  BY FinishMoves
<1>2. current \in 0..n /\ current # Direct /\ current' # Direct
  BY <1>1 DEF SequenceInv, Direct
<1>3. TaskInv(n, task')
  BY <1>1, MovesKeep DEF StepMoves
<1>4. /\ ChainRow = [i \in 1..n |-> task.row[i].shows] /\ Chain!Length = n
      /\ \A i \in 1..n : ChainRow[i] = task.row[i].shows
      /\ ChainOutcome = Outcome(task)
  BY <1>2, ChainIs
<1>5. /\ ChainRow' = [i \in 1..n |-> task'.row[i].shows]
      /\ ChainOutcome' = Outcome(task')
  BY <1>2, <1>3, ChainNextIs
<1>6. CASE ~Open(n, task)
  BY <1>1, <1>4, <1>5, <1>6
<1>7. CASE Open(n, task)
  <2>1. ChainOutcome = "open" /\ ChainOutcome' = "success"
    BY <1>1, <1>4, <1>5, <1>7, OutcomeIs
  <2>2. \A i \in 1..n : i > current <=> task.row[i].shows \in {"wait", "run"}
    <3>1. \A i \in 1..n : i <= current \/ i = current + 1 \/ i > current + 1
      BY <1>2
    <3>2. ASSUME NEW i \in 1..n
          PROVE  i > current <=> task.row[i].shows \in {"wait", "run"}
      <4>1. CASE i <= current
        <5>1. task.row[i].shows \in {"ok", "skip"} /\ ~(i > current)
          BY <1>1, <1>2, <1>7, <4>1 DEF CursorInv
        <5> QED BY <5>1
      <4>2. CASE i = current + 1 \/ i > current + 1
        <5>1. task.row[i].shows \in {"wait", "run"} /\ i > current
          BY <1>1, <1>2, <1>7, <4>2 DEF CursorInv
        <5> QED BY <5>1
      <4> QED BY <3>1, <4>1, <4>2
    <3> QED BY <3>2
  <2>3. ChainRow' = [i \in 1..Chain!Length |-> IF ChainRow[i] \in {"wait", "run"} THEN "skip"
                                               ELSE ChainRow[i]]
    BY <1>1, <1>4, <1>5, <1>7, <2>2
  <2> QED BY <2>1, <2>3 DEF Chain!Finish
<1> QED BY <1>6, <1>7

\* A TaskSequence implements the chain of stages.
THEOREM SequenceIsAChain == SeqSpec => KeepsTheChain
<1>1. SeqInit => Chain!Init
  BY ChainStarts
<1>2. IInv /\ [SeqNext]_seqVars => [Chain!Next]_(Chain!vars)
  <2> SUFFICES ASSUME NEW n \in 0..MaxStages, StateInv(n), [SeqNext]_seqVars
               PROVE  Chain!Next \/ UNCHANGED <<ChainRow, ChainOutcome>>
    BY DEF IInv, Chain!vars
  <2>1. n \in Nat /\ TaskInv(n, task) /\ CallerInv
    BY MaxStagesAssumption DEF StateInv
  <2>2. InSequence => SequenceInv(n)
    BY DEF InSequence, StateInv
  <2>3. CASE Ok
    <3>1. OkById(task, current + 1) = Call("ok", task, current + 1)
      BY DEF Call
    <3>2. "ok" \in {"ok", "skip"} /\ InSequence /\ current < Length
      BY <2>3 DEF Ok
    <3>3. Chain!Settle
      BY <2>1, <2>2, <2>3, <3>1, <3>2, ChainSettles DEF Ok
    <3> QED BY <3>3 DEF Chain!Next
  <2>4. CASE Skip
    <3>1. SkipById(task, current + 1) = Call("skip", task, current + 1)
      BY DEF Call
    <3>2. "skip" \in {"ok", "skip"} /\ InSequence /\ current < Length
      BY <2>4 DEF Skip
    <3>3. Chain!Settle
      BY <2>1, <2>2, <2>4, <3>1, <3>2, ChainSettles DEF Skip
    <3> QED BY <3>3 DEF Chain!Next
  <2>5. CASE Fail
    <3>1. Chain!Abort
      BY <2>1, <2>2, <2>5, ChainAborts DEF Fail
    <3> QED BY <3>1 DEF Chain!Next
  <2>6. CASE Finish
    <3>1. Chain!Finish \/ UNCHANGED <<ChainRow, ChainOutcome>>
      BY <2>1, <2>2, <2>6, ChainFinishes DEF Finish
    <3> QED BY <3>1 DEF Chain!Next
  <2>7. CASE current = Direct /\ Next /\ UNCHANGED current
    <3>1. ChainRow = [i \in 1..0 |-> task.row[i].shows] /\ ChainOutcome = "open"
      BY <2>7 DEF ChainRow, ChainOutcome
    <3>2. ChainRow' = [i \in 1..0 |-> task'.row[i].shows] /\ ChainOutcome' = "open"
      BY <2>7 DEF ChainRow, ChainOutcome
    <3> QED BY <3>1, <3>2
  <2>8. CASE UNCHANGED seqVars
    <3>1. task' = task /\ current' = current
      BY <2>8 DEF seqVars, vars
    <3> QED BY <3>1 DEF ChainRow, ChainOutcome, Length, Ids
  <2> QED BY <2>3, <2>4, <2>5, <2>6, <2>7, <2>8 DEF SeqNext
<1> QED BY <1>1, <1>2, Inductive, PTL DEF SeqSpec, KeepsTheChain, Chain!Spec
=============================================================================
