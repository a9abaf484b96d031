--------------------------- MODULE TaskOpsProofs ---------------------------
(***************************************************************************)
(* What TLAPS proves about the operations of a Task, for any number of     *)
(* stages: which of four kinds a task is of, open, completed, frozen by a  *)
(* failed stage or given up as a whole, and how each operation takes it    *)
(* from one to another.  TaskSequenceProofs builds on these lemmas.        *)
(*                                                                         *)
(* A bulk operation is a loop, written as a recursive function.  What it   *)
(* computes is shown with the least round at which the loop would go       *)
(* wrong, since the induction theorems of the library cannot be used here. *)
(***************************************************************************)
EXTENDS TaskOps, SequenceTheorems, WellFoundedInduction, TLAPS

-----------------------------------------------------------------------------
(* Lines.                                                                  *)

\* A bar that does not turn, and one that has left the screen.
Quiet(l) == l.mode = "interactive" => l.finished
Gone(l) == l.mode = "interactive" => l.finished /\ ~l.visible /\ ~l.reported

\* A method keeps the mode of a line.
LEMMA LineDraws ==
    ASSUME NEW l \in Line!Lines, NEW what \in Line!Displays
    PROVE  /\ Line!Draw(l, what) \in Line!Lines
           /\ Line!Draw(l, what).mode = l.mode /\ Line!Draw(l, what).shows = what
           /\ Line!Draw(l, what).finished = l.finished
           /\ Line!Draw(l, what).reported = l.reported
<1>1. (l.visible \/ l.mode = "plain") \in BOOLEAN
  BY Zenon
<1> QED BY <1>1 DEF Line!Draw, Line!Lines

\* Finishing a line leaves what it shows.
LEMMA LineFinishes ==
    ASSUME NEW l \in Line!Lines
    PROVE  /\ Line!Finish(l) \in Line!Lines
           /\ Line!Finish(l).mode = l.mode /\ Line!Finish(l).shows = l.shows
           /\ Line!Finish(l).reported = l.reported /\ Quiet(Line!Finish(l))
           /\ Line!Finish(l).finished = (l.mode = "interactive")
<1>1. (l.mode = "interactive") \in BOOLEAN
  BY Zenon
<1> QED BY <1>1 DEF Line!Finish, Line!Lines, Quiet

\* Running redraws a line and leaves its bar as it is.
LEMMA LineRuns ==
    ASSUME NEW l \in Line!Lines
    PROVE  /\ StageRun(l) \in Line!Lines /\ StageRun(l).mode = l.mode
           /\ StageRun(l).shows = "run" /\ StageRun(l).reported = l.reported
           /\ Quiet(l) => Quiet(StageRun(l))
<1>1. "run" \in Line!Displays
  BY DEF Line!Displays
<1> QED BY <1>1, LineDraws DEF StageRun, Line!Run, Quiet

\* Success and skipping end a line.
LEMMA LineSettles ==
    ASSUME NEW l \in Line!Lines
    PROVE  /\ StageSuccess(l) \in Line!Lines /\ StageSuccess(l).mode = l.mode
           /\ StageSuccess(l).shows = "ok" /\ StageSuccess(l).reported = l.reported
           /\ Quiet(StageSuccess(l))
           /\ StageSkip(l) \in Line!Lines /\ StageSkip(l).mode = l.mode
           /\ StageSkip(l).shows = "skip" /\ StageSkip(l).reported = l.reported
           /\ Quiet(StageSkip(l))
<1>1. "ok" \in Line!Displays /\ "skip" \in Line!Displays
  BY DEF Line!Displays
<1> QED BY <1>1, LineDraws, LineFinishes
        DEF StageSuccess, StageSkip, Line!Success, Line!Skip

\* A failure ends a line; of a stage or with a report it says why.
LEMMA LineFails ==
    ASSUME NEW l \in Line!Lines
    PROVE  /\ Line!Fail(l) \in Line!Lines /\ Line!Fail(l).mode = l.mode
           /\ Line!Fail(l).shows = "fail" /\ Line!Fail(l).reported = l.reported
           /\ Quiet(Line!Fail(l))
           /\ Line!FailInsert(l) \in Line!Lines /\ Line!FailInsert(l).mode = l.mode
           /\ Line!FailInsert(l).shows = "fail" /\ Line!FailInsert(l).reported
           /\ Quiet(Line!FailInsert(l))
<1>1. "fail" \in Line!Displays
  BY DEF Line!Displays
<1>2. /\ Line!Fail(l) \in Line!Lines /\ Line!Fail(l).mode = l.mode
      /\ Line!Fail(l).shows = "fail" /\ Line!Fail(l).reported = l.reported
      /\ Quiet(Line!Fail(l))
  BY <1>1, LineDraws, LineFinishes DEF Line!Fail
<1>3. /\ Line!FailInsert(l) \in Line!Lines /\ Line!FailInsert(l).mode = l.mode
      /\ Line!FailInsert(l).shows = "fail" /\ Line!FailInsert(l).reported
      /\ Quiet(Line!FailInsert(l))
  <2> HIDE DEF Line!Fail
  <2> QED BY <1>2 DEF Line!FailInsert, Line!Lines, Quiet
<1> QED BY <1>2, <1>3

\* A cleared line leaves the screen, and its report with it.
LEMMA LineClears ==
    ASSUME NEW l \in Line!Lines
    PROVE  /\ Line!Clear(l) \in Line!Lines /\ Line!Clear(l).mode = l.mode
           /\ Line!Clear(l).shows = l.shows /\ Gone(Line!Clear(l))
<1>1. /\ Line!Finish(l) \in Line!Lines
      /\ Line!Finish(l).mode = l.mode /\ Line!Finish(l).shows = l.shows
      /\ Line!Finish(l).finished = (l.mode = "interactive")
  BY LineFinishes
<1>2. CASE l.mode = "plain"
  BY <1>2 DEF Line!Clear, Gone
<1>3. CASE l.mode # "plain"
  <2>1. Line!Clear(l) = [Line!Finish(l) EXCEPT !.visible = FALSE, !.reported = FALSE]
    BY <1>3 DEF Line!Clear
  <2> QED BY <1>1, <1>3, <2>1 DEF Line!Lines, Gone
<1> QED BY <1>2, <1>3

-----------------------------------------------------------------------------
(* The four kinds of tasks with n stages.                                  *)

SettledIn(t) == {i \in DOMAIN t.row : t.row[i].shows \in {"ok", "skip"}}

FailedIn(t) == {i \in DOMAIN t.row : t.row[i].shows = "fail"}

\* All lines of a task are in one mode.
Shape(n, t) ==
    /\ t \in Tasks(1..n)
    /\ \A i \in 1..n : t.row[i].mode = t.head.mode
    /\ \A k \in DOMAIN t.extra : t.extra[k].mode = t.head.mode

\* Undecided: the two sets and the lines of the stages agree, and there is
\* work left if there are stages.
Open(n, t) ==
    /\ ~t.done /\ t.head.shows = "title" /\ ~t.head.reported
    /\ t.entries = 1..n /\ t.extras = DOMAIN t.extra
    /\ t.failed = {} /\ t.finished = SettledIn(t) /\ (n > 0 => t.finished # 1..n)
    /\ \A i \in 1..n : t.row[i].shows \in {"wait", "run", "ok", "skip"}
    /\ t.announced = <<>>

\* All lines below the head are dropped and off the screen.
Tidy(n, t) ==
    /\ t.entries = {} /\ t.extras = {}
    /\ \A i \in 1..n : Gone(t.row[i])
    /\ \A k \in DOMAIN t.extra : Gone(t.extra[k])

Completed(n, t) ==
    /\ t.done /\ t.head.shows = "ok" /\ ~t.head.reported /\ Quiet(t.head)
    /\ Tidy(n, t)
    /\ t.announced = <<"ok">>

\* A stage has failed: the lines stay, and may still be redrawn.
Frozen(n, t) ==
    /\ t.done /\ t.head.shows = "fail" /\ Quiet(t.head)
    /\ t.entries = 1..n /\ t.extras = DOMAIN t.extra
    /\ \A i \in 1..n : Quiet(t.row[i])
    /\ \A k \in DOMAIN t.extra : Quiet(t.extra[k])
    /\ \E i \in 1..n : t.row[i].reported
    /\ t.announced = <<"fail">>

\* Failed as a whole by a caller that gives the task away.
Abandoned(n, t) ==
    /\ t.done /\ t.head.shows = "fail" /\ t.head.reported /\ Quiet(t.head)
    /\ Tidy(n, t)
    /\ \/ t.announced = <<"fail">>
       \/ n > 0 /\ t.announced = <<"fail", "fail">>

TaskInv(n, t) ==
    Shape(n, t) /\ (Open(n, t) \/ Completed(n, t) \/ Frozen(n, t) \/ Abandoned(n, t))

\* What stage id shows is replaced, and all else stays.
Shows(n, t, u, id, what) ==
    \A i \in 1..n : u.row[i].shows = IF i = id THEN what ELSE t.row[i].shows

-----------------------------------------------------------------------------
(* The record of a task.                                                   *)

\* The types of its fields.
LEMMA TaskFields ==
    ASSUME NEW n \in Nat, NEW t \in Tasks(1..n)
    PROVE  /\ t.head \in Line!Lines /\ t.row \in [1..n -> Line!Lines]
           /\ DOMAIN t.row = 1..n /\ \A i \in 1..n : t.row[i] \in Line!Lines
           /\ DOMAIN t.extra \subseteq Extras /\ t.extra \in [DOMAIN t.extra -> Line!Lines]
           /\ \A k \in DOMAIN t.extra : t.extra[k] \in Line!Lines
           /\ t.entries \subseteq 1..n /\ t.extras \subseteq Extras
           /\ t.finished \subseteq 1..n /\ t.failed \subseteq 1..n
           /\ t.done \in BOOLEAN /\ t.announced \in Seq({"ok", "fail"})
<1>1. /\ t.head \in Line!Lines /\ t.row \in [1..n -> Line!Lines]
      /\ t.extra \in UNION {[kinds -> Line!Lines] : kinds \in SUBSET Extras}
      /\ t.entries \in SUBSET (1..n) /\ t.extras \in SUBSET Extras
      /\ t.finished \in SUBSET (1..n) /\ t.failed \in SUBSET (1..n)
      /\ t.done \in BOOLEAN /\ t.announced \in Seq({"ok", "fail"})
  BY DEF Tasks
<1>2. PICK kinds \in SUBSET Extras : t.extra \in [kinds -> Line!Lines]
  BY <1>1
<1>3. DOMAIN t.extra = kinds
  BY <1>2
<1> QED BY <1>1, <1>2, <1>3

\* A record with fields of these types is a task.
LEMMA TaskBuilt ==
    ASSUME NEW n \in Nat, NEW head \in Line!Lines, NEW row \in [1..n -> Line!Lines],
           NEW extra, DOMAIN extra \subseteq Extras, extra \in [DOMAIN extra -> Line!Lines],
           NEW entries \in SUBSET (1..n), NEW extras \in SUBSET Extras,
           NEW finished \in SUBSET (1..n), NEW failed \in SUBSET (1..n),
           NEW done \in BOOLEAN, NEW announced \in Seq({"ok", "fail"})
    PROVE  [head |-> head, row |-> row, extra |-> extra, entries |-> entries,
            extras |-> extras, finished |-> finished, failed |-> failed, done |-> done,
            announced |-> announced] \in Tasks(1..n)
<1>1. extra \in UNION {[kinds -> Line!Lines] : kinds \in SUBSET Extras}
  OBVIOUS
<1> QED BY <1>1 DEF Tasks

\* The sets of stages of a task with n of them.
IdSets(n) == SUBSET (1..n)

\* The rest of a task: what no call for a stage replaces before the task
\* looks at its own state.
SameRest(t, u) ==
    /\ u.head = t.head /\ u.extra = t.extra /\ u.entries = t.entries
    /\ u.extras = t.extras /\ u.announced = t.announced

\* A stage's line and what is known of the stage are replaced.
Redraw(t, id, l, fin, fai) ==
    [t EXCEPT !.row[id] = l, !.finished = fin, !.failed = fai]

\* What a redrawn stage changes of its task, and what it leaves.
LEMMA RedrawFields ==
    ASSUME NEW n \in Nat, NEW t \in Tasks(1..n), NEW id \in 1..n, NEW l \in Line!Lines,
           NEW fin \in IdSets(n), NEW fai \in IdSets(n)
    PROVE  LET u == Redraw(t, id, l, fin, fai) IN
           /\ u \in Tasks(1..n)
           /\ u.row = [t.row EXCEPT ![id] = l] /\ u.finished = fin /\ u.failed = fai
           /\ SameRest(t, u)
<1> DEFINE row == [t.row EXCEPT ![id] = l]
           u == [head |-> t.head, row |-> row, extra |-> t.extra, entries |-> t.entries,
                 extras |-> t.extras, finished |-> fin, failed |-> fai, done |-> t.done,
                 announced |-> t.announced]
<1>1. row \in [1..n -> Line!Lines]
  BY TaskFields
<1>2. Redraw(t, id, l, fin, fai) = [t EXCEPT !.row = row, !.finished = fin, !.failed = fai]
  BY DEF Redraw
<1> HIDE DEF row
<1>3. Redraw(t, id, l, fin, fai) = u
  BY <1>2 DEF Tasks
<1>4. u \in Tasks(1..n)
  BY <1>1, TaskFields, TaskBuilt DEF IdSets
<1> QED BY <1>3, <1>4 DEF row, SameRest

\* Redrawing decides nothing.
LEMMA RedrawDone ==
    ASSUME NEW n \in Nat, NEW t \in Tasks(1..n), NEW id, NEW l, NEW fin, NEW fai
    PROVE  Redraw(t, id, l, fin, fai).done <=> t.done
<1>1. Redraw(t, id, l, fin, fai) =
          [t EXCEPT !.row = [t.row EXCEPT ![id] = l], !.finished = fin, !.failed = fai]
  BY DEF Redraw
<1> QED BY <1>1 DEF Tasks

\* The four calls redraw a line of a stage the task holds and let the task
\* look at its own state.
LEMMA CallIs ==
    ASSUME NEW t, NEW id, id \in t.entries
    PROVE  /\ RunById(t, id) = UpdateState(Redraw(t, id, StageRun(t.row[id]),
                                              t.finished \ {id}, t.failed \ {id}))
           /\ OkById(t, id) = UpdateState(Redraw(t, id, StageSuccess(t.row[id]),
                                             t.finished \union {id}, t.failed \ {id}))
           /\ SkipById(t, id) = UpdateState(Redraw(t, id, StageSkip(t.row[id]),
                                               t.finished \union {id}, t.failed \ {id}))
           /\ FailById(t, id) = UpdateState(Redraw(t, id, StageFail(t.row[id]),
                                               t.finished \ {id}, t.failed \union {id}))
<1> QED BY DEF RunById, OkById, SkipById, FailById, Redraw

\* A call for another id does nothing.
LEMMA CallIsNot ==
    ASSUME NEW t, NEW id, id \notin t.entries
    PROVE  /\ RunById(t, id) = t /\ OkById(t, id) = t
           /\ SkipById(t, id) = t /\ FailById(t, id) = t
<1> QED BY DEF RunById, OkById, SkipById, FailById

-----------------------------------------------------------------------------
(* Deciding.                                                               *)

\* Clearing what is below the head leaves what the lines show.
LEMMA ClearFields ==
    ASSUME NEW n \in Nat, NEW t \in Tasks(1..n), t.entries = 1..n, t.extras = DOMAIN t.extra
    PROVE  LET u == ClearChildren(t) IN
           /\ u \in Tasks(1..n) /\ Tidy(n, u)
           /\ \A i \in 1..n : u.row[i].mode = t.row[i].mode /\ u.row[i].shows = t.row[i].shows
           /\ DOMAIN u.extra = DOMAIN t.extra
           /\ \A k \in DOMAIN t.extra : u.extra[k].mode = t.extra[k].mode
           /\ u.head = t.head /\ (u.done <=> t.done) /\ u.announced = t.announced
           /\ u.finished = t.finished /\ u.failed = t.failed
<1> DEFINE row == [i \in 1..n |-> Line!Clear(t.row[i])]
           extra == [k \in DOMAIN t.extra |-> Line!Clear(t.extra[k])]
           u == [head |-> t.head, row |-> row, extra |-> extra, entries |-> {},
                 extras |-> {}, finished |-> t.finished, failed |-> t.failed,
                 done |-> t.done, announced |-> t.announced]
<1>1. row \in [1..n -> Line!Lines] /\ extra \in [DOMAIN t.extra -> Line!Lines]
  BY TaskFields, LineClears
<1>2. DOMAIN extra = DOMAIN t.extra
  OBVIOUS
<1>3. ClearChildren(t) = u
  <2>1. row = [i \in DOMAIN t.row |-> IF i \in t.entries THEN Line!Clear(t.row[i]) ELSE t.row[i]]
    BY TaskFields
  <2>2. extra = [k \in DOMAIN t.extra |->
                    IF k \in t.extras THEN Line!Clear(t.extra[k]) ELSE t.extra[k]]
    OBVIOUS
  <2>3. ClearChildren(t) = [t EXCEPT !.row = row, !.extra = extra, !.entries = {}, !.extras = {}]
    <3> HIDE DEF row, extra
    <3> QED BY <2>1, <2>2 DEF ClearChildren
  <2> HIDE DEF row, extra
  <2> QED BY <2>3 DEF Tasks
<1>4. \A i \in 1..n : /\ row[i].mode = t.row[i].mode /\ row[i].shows = t.row[i].shows
                      /\ Gone(row[i])
  BY TaskFields, LineClears
<1>5. \A k \in DOMAIN t.extra : extra[k].mode = t.extra[k].mode /\ Gone(extra[k])
  BY TaskFields, LineClears
<1> HIDE DEF row, extra
<1>6. u \in Tasks(1..n)
  BY <1>1, <1>2, TaskFields, TaskBuilt
<1> QED BY <1>2, <1>3, <1>4, <1>5, <1>6 DEF Tidy

\* Finishing what is below the head leaves what the lines show and their
\* reports.
LEMMA FinishFields ==
    ASSUME NEW n \in Nat, NEW t \in Tasks(1..n), t.entries = 1..n, t.extras = DOMAIN t.extra
    PROVE  LET u == FinishChildren(t) IN
           /\ u \in Tasks(1..n)
           /\ \A i \in 1..n : /\ u.row[i].mode = t.row[i].mode
                              /\ u.row[i].shows = t.row[i].shows
                              /\ u.row[i].reported = t.row[i].reported /\ Quiet(u.row[i])
           /\ DOMAIN u.extra = DOMAIN t.extra
           /\ \A k \in DOMAIN t.extra : u.extra[k].mode = t.extra[k].mode /\ Quiet(u.extra[k])
           /\ u.head = t.head /\ (u.done <=> t.done) /\ u.announced = t.announced
           /\ u.entries = t.entries /\ u.extras = t.extras
           /\ u.finished = t.finished /\ u.failed = t.failed
<1> DEFINE row == [i \in 1..n |-> Line!Finish(t.row[i])]
           extra == [k \in DOMAIN t.extra |-> Line!Finish(t.extra[k])]
           u == [head |-> t.head, row |-> row, extra |-> extra, entries |-> t.entries,
                 extras |-> t.extras, finished |-> t.finished, failed |-> t.failed,
                 done |-> t.done, announced |-> t.announced]
<1>1. row \in [1..n -> Line!Lines] /\ extra \in [DOMAIN t.extra -> Line!Lines]
  BY TaskFields, LineFinishes
<1>2. DOMAIN extra = DOMAIN t.extra
  OBVIOUS
<1>3. FinishChildren(t) = u
  <2>1. row = [i \in DOMAIN t.row |->
                  IF i \in t.entries THEN Line!FinishSilently(t.row[i]) ELSE t.row[i]]
    BY TaskFields DEF Line!FinishSilently
  <2>2. extra = [k \in DOMAIN t.extra |->
                    IF k \in t.extras THEN Line!FinishSilently(t.extra[k]) ELSE t.extra[k]]
    BY DEF Line!FinishSilently
  <2>3. FinishChildren(t) = [t EXCEPT !.row = row, !.extra = extra]
    <3> HIDE DEF row, extra
    <3> QED BY <2>1, <2>2 DEF FinishChildren
  <2> HIDE DEF row, extra
  <2> QED BY <2>3 DEF Tasks
<1>4. \A i \in 1..n : /\ row[i].mode = t.row[i].mode /\ row[i].shows = t.row[i].shows
                      /\ row[i].reported = t.row[i].reported /\ Quiet(row[i])
  BY TaskFields, LineFinishes
<1>5. \A k \in DOMAIN t.extra : extra[k].mode = t.extra[k].mode /\ Quiet(extra[k])
  BY TaskFields, LineFinishes
<1> HIDE DEF row, extra
<1>6. u \in Tasks(1..n)
  BY <1>1, <1>2, TaskFields, TaskBuilt
<1> QED BY <1>2, <1>3, <1>4, <1>5, <1>6

\* The head tells how the task ended.
Announce(t, head, how) ==
    [t EXCEPT !.head = head, !.done = TRUE, !.announced = Append(@, how)]

\* What an announcement changes of its task, and what it leaves.
LEMMA AnnounceFields ==
    ASSUME NEW n \in Nat, NEW t \in Tasks(1..n), NEW head \in Line!Lines,
           NEW how \in {"ok", "fail"}
    PROVE  LET u == Announce(t, head, how) IN
           /\ u \in Tasks(1..n)
           /\ u.head = head /\ u.done /\ u.announced = Append(t.announced, how)
           /\ u.row = t.row /\ u.extra = t.extra /\ u.entries = t.entries
           /\ u.extras = t.extras /\ u.finished = t.finished /\ u.failed = t.failed
<1> DEFINE told == Append(t.announced, how)
           u == [head |-> head, row |-> t.row, extra |-> t.extra, entries |-> t.entries,
                 extras |-> t.extras, finished |-> t.finished, failed |-> t.failed,
                 done |-> TRUE, announced |-> told]
<1>1. told \in Seq({"ok", "fail"})
  BY TaskFields
<1>2. Announce(t, head, how) = [t EXCEPT !.head = head, !.done = TRUE, !.announced = told]
  BY DEF Announce
<1> HIDE DEF told
<1>3. Announce(t, head, how) = u
  BY <1>2 DEF Tasks
<1>4. u \in Tasks(1..n)
  BY <1>1, TaskFields, TaskBuilt
<1> QED BY <1>3, <1>4 DEF told

\* What deciding a task does, in these words.
LEMMA DecidesIs ==
    ASSUME NEW t
    PROVE  /\ ~t.done => SetCompleted(t) =
                 ClearChildren(Announce(t, Line!Success(t.head), "ok"))
           /\ SetFailedAndFreeze(t) =
                 FinishChildren(Announce(t, Line!Fail(t.head), "fail"))
           /\ SetFailedAndClear(t) =
                 ClearChildren(Announce(t, Line!FailInsert(t.head), "fail"))
<1> QED BY DEF SetCompleted, SetFailedAndFreeze, SetFailedAndClear, SetFailedAndInsert, Announce

\* A task that still has its lines, and one of which nothing is told yet.
Holds(n, t) == t.entries = 1..n /\ t.extras = DOMAIN t.extra

Undecided(n, t) == Holds(n, t) /\ ~t.done /\ ~t.head.reported /\ t.announced = <<>>

\* The stages show the same in two tasks.
SameShows(n, t, u) == \A i \in 1..n : u.row[i].shows = t.row[i].shows

\* A task that holds its lines is completed.
LEMMA CompletesTask ==
    ASSUME NEW n \in Nat, NEW t, Shape(n, t), Undecided(n, t)
    PROVE  LET u == SetCompleted(t) IN
           Shape(n, u) /\ Completed(n, u) /\ SameShows(n, t, u)
<1> DEFINE h == Line!Success(t.head)
           v == Announce(t, h, "ok")
           u == ClearChildren(v)
<1>1. t \in Tasks(1..n) /\ t.head \in Line!Lines
  BY TaskFields DEF Shape
<1>2. /\ h \in Line!Lines /\ h.mode = t.head.mode /\ h.shows = "ok"
      /\ h.reported = t.head.reported /\ Quiet(h)
  BY <1>1, LineSettles DEF StageSuccess
<1> HIDE DEF h
<1>3. /\ v \in Tasks(1..n)
      /\ v.head = h /\ v.done /\ v.announced = Append(t.announced, "ok")
      /\ v.row = t.row /\ v.extra = t.extra /\ v.entries = t.entries /\ v.extras = t.extras
  <2>1. t \in Tasks(1..n) /\ h \in Line!Lines /\ "ok" \in {"ok", "fail"}
    BY <1>1, <1>2
  <2> QED BY <2>1, AnnounceFields
<1>4. v.announced = <<"ok">> /\ Holds(n, v)
  BY <1>3 DEF Undecided, Holds
<1> HIDE DEF v
<1>5. /\ u \in Tasks(1..n) /\ Tidy(n, u)
      /\ \A i \in 1..n : u.row[i].mode = t.row[i].mode /\ u.row[i].shows = t.row[i].shows
      /\ DOMAIN u.extra = DOMAIN t.extra
      /\ \A k \in DOMAIN t.extra : u.extra[k].mode = t.extra[k].mode
      /\ u.head = h /\ u.done /\ u.announced = <<"ok">>
  BY <1>3, <1>4, ClearFields DEF Holds
<1>6. SetCompleted(t) = u
  BY DecidesIs DEF v, h, Undecided
<1> HIDE DEF u
<1>7. Shape(n, u) /\ SameShows(n, t, u)
  BY <1>2, <1>5 DEF Shape, SameShows
<1>8. Completed(n, u)
  BY <1>2, <1>5 DEF Completed, Undecided
<1> QED BY <1>6, <1>7, <1>8

\* A task with a report on a stage is frozen.
LEMMA FreezesTask ==
    ASSUME NEW n \in Nat, NEW t, Shape(n, t), Undecided(n, t),
           \E i \in 1..n : t.row[i].reported
    PROVE  LET u == SetFailedAndFreeze(t) IN
           Shape(n, u) /\ Frozen(n, u) /\ SameShows(n, t, u)
<1> DEFINE h == Line!Fail(t.head)
           v == Announce(t, h, "fail")
           u == FinishChildren(v)
<1>1. t \in Tasks(1..n) /\ t.head \in Line!Lines
  BY TaskFields DEF Shape
<1>2. h \in Line!Lines /\ h.mode = t.head.mode /\ h.shows = "fail" /\ Quiet(h)
  BY <1>1, LineFails
<1> HIDE DEF h
<1>3. /\ v \in Tasks(1..n)
      /\ v.head = h /\ v.done /\ v.announced = Append(t.announced, "fail")
      /\ v.row = t.row /\ v.extra = t.extra /\ v.entries = t.entries /\ v.extras = t.extras
  <2>1. t \in Tasks(1..n) /\ h \in Line!Lines /\ "fail" \in {"ok", "fail"}
    BY <1>1, <1>2
  <2> QED BY <2>1, AnnounceFields
<1>4. v.announced = <<"fail">> /\ Holds(n, v)
  BY <1>3 DEF Undecided, Holds
<1> HIDE DEF v
<1>5. /\ u \in Tasks(1..n)
      /\ \A i \in 1..n : /\ u.row[i].mode = t.row[i].mode /\ u.row[i].shows = t.row[i].shows
                         /\ u.row[i].reported = t.row[i].reported /\ Quiet(u.row[i])
      /\ DOMAIN u.extra = DOMAIN t.extra
      /\ \A k \in DOMAIN t.extra : u.extra[k].mode = t.extra[k].mode /\ Quiet(u.extra[k])
      /\ u.head = h /\ u.done /\ u.announced = <<"fail">>
      /\ u.entries = 1..n /\ u.extras = DOMAIN t.extra
  BY <1>3, <1>4, FinishFields DEF Holds, Undecided
<1>6. SetFailedAndFreeze(t) = u
  BY DecidesIs DEF v, h
<1> HIDE DEF u
<1>7. Shape(n, u) /\ SameShows(n, t, u)
  BY <1>2, <1>5 DEF Shape, SameShows
<1>8. Frozen(n, u)
  BY <1>2, <1>5 DEF Frozen
<1> QED BY <1>6, <1>7, <1>8

\* A task that has said nothing yet, or that a stage has failed.
SaidLittle(n, t) == t.announced = <<>> \/ (n > 0 /\ t.announced = <<"fail">>)

\* A task that holds its lines is given up as a whole, whether a stage has
\* frozen it or not.
LEMMA AbandonsTask ==
    ASSUME NEW n \in Nat, NEW t, Shape(n, t), Holds(n, t), SaidLittle(n, t)
    PROVE  LET u == SetFailedAndClear(t) IN
           Shape(n, u) /\ Abandoned(n, u) /\ SameShows(n, t, u)
<1> DEFINE h == Line!FailInsert(t.head)
           v == Announce(t, h, "fail")
           u == ClearChildren(v)
<1>1. t \in Tasks(1..n) /\ t.head \in Line!Lines
  BY TaskFields DEF Shape
<1>2. /\ h \in Line!Lines /\ h.mode = t.head.mode /\ h.shows = "fail"
      /\ h.reported /\ Quiet(h)
  BY <1>1, LineFails
<1> HIDE DEF h
<1>3. /\ v \in Tasks(1..n)
      /\ v.head = h /\ v.done /\ v.announced = Append(t.announced, "fail")
      /\ v.row = t.row /\ v.extra = t.extra /\ v.entries = t.entries /\ v.extras = t.extras
  <2>1. t \in Tasks(1..n) /\ h \in Line!Lines /\ "fail" \in {"ok", "fail"}
    BY <1>1, <1>2
  <2> QED BY <2>1, AnnounceFields
<1>4. v.announced = <<"fail">> \/ (n > 0 /\ v.announced = <<"fail", "fail">>)
  BY <1>3 DEF SaidLittle
<1>5. Holds(n, v)
  BY <1>3 DEF Holds
<1> HIDE DEF v
<1>6. /\ u \in Tasks(1..n) /\ Tidy(n, u)
      /\ \A i \in 1..n : u.row[i].mode = t.row[i].mode /\ u.row[i].shows = t.row[i].shows
      /\ DOMAIN u.extra = DOMAIN t.extra
      /\ \A k \in DOMAIN t.extra : u.extra[k].mode = t.extra[k].mode
      /\ u.head = h /\ u.done /\ u.announced = v.announced
  BY <1>3, <1>5, ClearFields DEF Holds
<1>7. SetFailedAndClear(t) = u
  BY DecidesIs DEF v, h
<1> HIDE DEF u
<1>8. Shape(n, u) /\ SameShows(n, t, u)
  BY <1>2, <1>6 DEF Shape, SameShows
<1>9. Abandoned(n, u)
  BY <1>2, <1>4, <1>6 DEF Abandoned
<1> QED BY <1>7, <1>8, <1>9

-----------------------------------------------------------------------------
(* A call for one stage.                                                   *)

\* What redrawing a line does to the shape of a task and to what its stages
\* show.
LEMMA RedrawShape ==
    ASSUME NEW n \in Nat, NEW t, Shape(n, t), NEW id \in 1..n, NEW l \in Line!Lines,
           l.mode = t.row[id].mode, NEW fin \in IdSets(n), NEW fai \in IdSets(n)
    PROVE  LET u == Redraw(t, id, l, fin, fai) IN
           /\ Shape(n, u) /\ Shows(n, t, u, id, l.shows) /\ SameRest(t, u)
           /\ u.finished = fin /\ u.failed = fai
           /\ \A i \in 1..n : u.row[i] = IF i = id THEN l ELSE t.row[i]
<1> DEFINE u == Redraw(t, id, l, fin, fai)
<1>1. t \in Tasks(1..n) /\ DOMAIN t.row = 1..n
  BY TaskFields DEF Shape
<1>2. /\ u \in Tasks(1..n) /\ u.row = [t.row EXCEPT ![id] = l]
      /\ SameRest(t, u) /\ u.finished = fin /\ u.failed = fai
  BY <1>1, RedrawFields
<1> HIDE DEF u
<1>3. \A i \in 1..n : u.row[i] = IF i = id THEN l ELSE t.row[i]
  BY <1>1, <1>2
<1>4. Shape(n, u)
  BY <1>2, <1>3 DEF Shape, SameRest
<1>5. Shows(n, t, u, id, l.shows)
  BY <1>3 DEF Shows
<1> QED BY <1>2, <1>3, <1>4, <1>5 DEF u

\* Running a stage leaves an open task open.
LEMMA RunsOpen ==
    ASSUME NEW n \in Nat, NEW t, Shape(n, t), Open(n, t), NEW id \in 1..n
    PROVE  LET u == RunById(t, id) IN
           Shape(n, u) /\ Open(n, u) /\ Shows(n, t, u, id, "run")
<1> DEFINE l == StageRun(t.row[id])
           fin == t.finished \ {id}
           fai == t.failed \ {id}
           u == Redraw(t, id, l, fin, fai)
<1>1. /\ t \in Tasks(1..n) /\ DOMAIN t.row = 1..n /\ t.row[id] \in Line!Lines
      /\ fin \in IdSets(n) /\ fai \in IdSets(n)
  BY TaskFields DEF Shape, IdSets
<1>2. l \in Line!Lines /\ l.mode = t.row[id].mode /\ l.shows = "run"
  BY <1>1, LineRuns
<1>3. /\ id \in t.entries /\ fai = {} /\ id \notin fin
      /\ fin = SettledIn(t) \ {id}
  BY DEF Open
<1> HIDE DEF l, fin, fai
<1>4. u.done <=> t.done
  BY <1>1, RedrawDone
<1>5. /\ Shape(n, u) /\ Shows(n, t, u, id, "run") /\ SameRest(t, u)
      /\ u.finished = fin /\ u.failed = fai
      /\ \A i \in 1..n : u.row[i] = IF i = id THEN l ELSE t.row[i]
  BY <1>1, <1>2, RedrawShape
<1>6. /\ u \in Tasks(1..n) /\ u.head = t.head /\ u.extra = t.extra
      /\ u.entries = t.entries /\ u.extras = t.extras /\ u.announced = t.announced
      /\ u.finished = fin /\ u.failed = fai
  BY <1>5 DEF Shape, SameRest
<1>7. RunById(t, id) = UpdateState(u)
  BY <1>3, CallIs DEF l, fin, fai
<1> HIDE DEF u
<1>8. UpdateState(u) = u
  BY <1>4, <1>3, <1>6 DEF UpdateState, Open
<1>9. DOMAIN u.row = 1..n
  BY <1>6, TaskFields
<1>10. fin = SettledIn(u)
  BY <1>1, <1>2, <1>3, <1>5, <1>9 DEF SettledIn
<1>11. Open(n, u)
  BY <1>4, <1>2, <1>3, <1>6, <1>5, <1>10 DEF Open
<1> QED BY <1>5, <1>7, <1>8, <1>11

\* Settling a stage completes an open task if it is the last to settle.
LEMMA SettlesOpen ==
    ASSUME NEW n \in Nat, NEW t, Shape(n, t), Open(n, t), NEW id \in 1..n,
           NEW l \in Line!Lines, l.mode = t.row[id].mode, l.shows \in {"ok", "skip"}
    PROVE  LET u == UpdateState(Redraw(t, id, l, t.finished \union {id}, t.failed \ {id})) IN
           /\ Shape(n, u) /\ Shows(n, t, u, id, l.shows)
           /\ IF t.finished \union {id} = 1..n THEN Completed(n, u) ELSE Open(n, u)
<1> DEFINE fin == t.finished \union {id}
           fai == t.failed \ {id}
           u == Redraw(t, id, l, fin, fai)
<1>1. /\ t \in Tasks(1..n) /\ DOMAIN t.row = 1..n
      /\ fin \in IdSets(n) /\ fai \in IdSets(n)
  BY TaskFields DEF Shape, IdSets
<1>2. t.entries = 1..n /\ fai = {} /\ fin = SettledIn(t) \union {id}
  BY DEF Open
<1> HIDE DEF fin, fai
<1>3. u.done <=> t.done
  BY <1>1, RedrawDone
<1>4. /\ Shape(n, u) /\ Shows(n, t, u, id, l.shows) /\ SameRest(t, u)
      /\ u.finished = fin /\ u.failed = fai
      /\ \A i \in 1..n : u.row[i] = IF i = id THEN l ELSE t.row[i]
  BY <1>1, RedrawShape
<1>5. /\ u \in Tasks(1..n) /\ u.head = t.head /\ u.extra = t.extra
      /\ u.entries = t.entries /\ u.extras = t.extras /\ u.announced = t.announced
      /\ u.finished = fin /\ u.failed = fai
  BY <1>4 DEF Shape, SameRest
<1> HIDE DEF u
<1>6. DOMAIN u.row = 1..n
  BY <1>5, TaskFields
<1>7. fin = SettledIn(u)
  BY <1>1, <1>2, <1>4, <1>6 DEF SettledIn
<1>8. CASE fin = 1..n
  <2>1. UpdateState(u) = SetCompleted(u)
    BY <1>3, <1>2, <1>5, <1>8 DEF UpdateState, Open
  <2>2. Undecided(n, u)
    BY <1>3, <1>5 DEF Undecided, Holds, Open
  <2>3. /\ Shape(n, SetCompleted(u)) /\ Completed(n, SetCompleted(u))
        /\ SameShows(n, u, SetCompleted(u))
    BY <1>4, <2>2, CompletesTask
  <2>4. Shows(n, t, SetCompleted(u), id, l.shows)
    BY <1>4, <2>3 DEF Shows, SameShows
  <2> QED BY <1>8, <2>1, <2>3, <2>4 DEF u, fin, fai
<1>9. CASE fin # 1..n
  <2>1. ~(u.entries \subseteq u.finished)
    BY <1>1, <1>2, <1>5, <1>9 DEF IdSets
  <2>2. UpdateState(u) = u
    BY <1>3, <1>2, <1>5, <2>1 DEF UpdateState, Open
  <2>3. Open(n, u)
    BY <1>3, <1>2, <1>5, <1>4, <1>7, <1>9 DEF Open
  <2> QED BY <1>4, <1>9, <2>2, <2>3 DEF u, fin, fai
<1> QED BY <1>8, <1>9

\* A stage that fails freezes an open task.
LEMMA FailsOpen ==
    ASSUME NEW n \in Nat, NEW t, Shape(n, t), Open(n, t), NEW id \in 1..n
    PROVE  LET u == FailById(t, id) IN
           Shape(n, u) /\ Frozen(n, u) /\ Shows(n, t, u, id, "fail")
<1> DEFINE l == StageFail(t.row[id])
           fin == t.finished \ {id}
           fai == t.failed \union {id}
           u == Redraw(t, id, l, fin, fai)
<1>1. /\ t \in Tasks(1..n) /\ DOMAIN t.row = 1..n /\ t.row[id] \in Line!Lines
      /\ fin \in IdSets(n) /\ fai \in IdSets(n) /\ fai # {}
  BY TaskFields DEF Shape, IdSets
<1>2. l \in Line!Lines /\ l.mode = t.row[id].mode /\ l.shows = "fail" /\ l.reported
  BY <1>1, LineFails DEF StageFail
<1>3. id \in t.entries
  BY DEF Open
<1> HIDE DEF l, fin, fai
<1>4. u.done <=> t.done
  BY <1>1, RedrawDone
<1>5. /\ Shape(n, u) /\ Shows(n, t, u, id, "fail") /\ SameRest(t, u)
      /\ u.finished = fin /\ u.failed = fai
      /\ \A i \in 1..n : u.row[i] = IF i = id THEN l ELSE t.row[i]
  BY <1>1, <1>2, RedrawShape
<1>6. /\ u \in Tasks(1..n) /\ u.head = t.head /\ u.extra = t.extra
      /\ u.entries = t.entries /\ u.extras = t.extras /\ u.announced = t.announced
      /\ u.finished = fin /\ u.failed = fai
  BY <1>5 DEF Shape, SameRest
<1>7. FailById(t, id) = UpdateState(u)
  BY <1>3, CallIs DEF l, fin, fai
<1> HIDE DEF u
<1>8. UpdateState(u) = SetFailedAndFreeze(u)
  BY <1>4, <1>1, <1>6 DEF UpdateState, Open
<1>9. Undecided(n, u)
  BY <1>4, <1>6 DEF Undecided, Holds, Open
<1>10. \E i \in 1..n : u.row[i].reported
  BY <1>2, <1>5
<1>11. /\ Shape(n, SetFailedAndFreeze(u)) /\ Frozen(n, SetFailedAndFreeze(u))
       /\ SameShows(n, u, SetFailedAndFreeze(u))
  BY <1>5, <1>9, <1>10, FreezesTask
<1>12. Shows(n, t, SetFailedAndFreeze(u), id, "fail")
  BY <1>5, <1>11 DEF Shows, SameShows
<1> QED BY <1>7, <1>8, <1>11, <1>12

\* A frozen task redraws a line and stays frozen.
LEMMA RedrawsFrozen ==
    ASSUME NEW n \in Nat, NEW t, Shape(n, t), Frozen(n, t), NEW id \in 1..n,
           NEW l \in Line!Lines, l.mode = t.row[id].mode, Quiet(l),
           t.row[id].reported => l.reported,
           NEW fin \in IdSets(n), NEW fai \in IdSets(n)
    PROVE  LET u == UpdateState(Redraw(t, id, l, fin, fai)) IN
           Shape(n, u) /\ Frozen(n, u) /\ Shows(n, t, u, id, l.shows)
<1> DEFINE u == Redraw(t, id, l, fin, fai)
<1>1. t \in Tasks(1..n)
  BY DEF Shape
<1>2. u.done <=> t.done
  BY <1>1, RedrawDone
<1>3. /\ Shape(n, u) /\ Shows(n, t, u, id, l.shows) /\ SameRest(t, u)
      /\ u.finished = fin /\ u.failed = fai
      /\ \A i \in 1..n : u.row[i] = IF i = id THEN l ELSE t.row[i]
  BY RedrawShape
<1>4. /\ u \in Tasks(1..n) /\ u.head = t.head /\ u.extra = t.extra
      /\ u.entries = t.entries /\ u.extras = t.extras /\ u.announced = t.announced
      /\ u.finished = fin /\ u.failed = fai
  BY <1>3 DEF Shape, SameRest
<1> HIDE DEF u
<1>5. UpdateState(u) = u
  BY <1>4, <1>2 DEF UpdateState, Frozen
<1>6. \E i \in 1..n : u.row[i].reported
  BY <1>3 DEF Frozen
<1>7. Frozen(n, u)
  BY <1>4, <1>2, <1>3, <1>6 DEF Frozen
<1> QED BY <1>2, <1>3, <1>5, <1>7 DEF u

-----------------------------------------------------------------------------
(* Loops.                                                                  *)

\* A set of natural numbers that is not empty has a least one.
LEMMA LeastOne ==
    ASSUME NEW S \in SUBSET Nat, S # {}
    PROVE  \E n \in S : \A m \in S : n <= m
<1>1. \E n \in S : \A m \in S : <<m, n>> \notin OpToRel(<, Nat)
  BY NatLessThanWellFounded, WFMin, Zenon
<1>2. PICK n \in S : \A m \in S : <<m, n>> \notin OpToRel(<, Nat)
  BY <1>1
<1>3. \A m \in S : ~ m < n
  BY <1>2 DEF OpToRel
<1>4. \A m \in S : n <= m
  BY <1>3
<1> QED BY <1>4

\* What holds before the first round and is kept by each holds after the last.
LEMMA LastRound ==
    ASSUME NEW L \in Nat, NEW Right, 0 \in Right,
           \A k \in 1..L : k - 1 \in Right => k \in Right
    PROVE  L \in Right
<1> SUFFICES ASSUME L \notin Right PROVE FALSE
  OBVIOUS
<1> DEFINE Wrong == {k \in 0..L : k \notin Right}
<1>1. Wrong \in SUBSET Nat /\ Wrong # {}
  OBVIOUS
<1>2. PICK k \in Wrong : \A m \in Wrong : k <= m
  <2> HIDE DEF Wrong
  <2> QED BY <1>1, LeastOne
<1>3. k \in 1..L /\ k - 1 \in 0..L /\ ~(k <= k - 1)
  BY <1>2
<1>4. k - 1 \in Right
  BY <1>2, <1>3
<1> QED BY <1>2, <1>3, <1>4

\* The four calls a loop makes.
Call(op, t, id) ==
    CASE op = "run"  -> RunById(t, id)
      [] op = "ok"   -> OkById(t, id)
      [] op = "skip" -> SkipById(t, id)
      [] OTHER       -> FailById(t, id)

\* One round of Each.
Round(op, t, ids, f, k) ==
    IF k = 0 THEN t
    ELSE IF k \in ids THEN Call(op, f[k - 1], k)
    ELSE f[k - 1]

\* The recursion of Each has a solution for any number of rounds.
LEMMA RoundsExist ==
    ASSUME NEW op, NEW t, NEW ids
    PROVE  \A L \in Nat : \E f : f = [k \in 0..L |-> Round(op, t, ids, f, k)]
<1> DEFINE Solves(f, m) == f = [k \in 0..m |-> Round(op, t, ids, f, k)]
           Bad == {m \in Nat : ~ \E f : Solves(f, m)}
<1> SUFFICES ASSUME Bad # {} PROVE FALSE
  OBVIOUS
<1>1. PICK m \in Bad : \A k \in Bad : m <= k
  <2>1. Bad \in SUBSET Nat
    OBVIOUS
  <2> HIDE DEF Bad
  <2> QED BY <2>1, LeastOne
<1>2. CASE m = 0
  <2> DEFINE f == [k \in 0..0 |-> t]
  <2>1. Solves(f, 0)
    BY DEF Round
  <2> QED BY <2>1, <1>1, <1>2
<1>3. CASE m # 0
  <2>1. m \in Nat /\ m - 1 \in Nat /\ ~(m <= m - 1) /\ m \notin 0..(m - 1)
    BY <1>3, <1>1
  <2>2. PICK f : Solves(f, m - 1)
    BY <2>1, <1>1
  <2> DEFINE g == [k \in 0..m |-> IF k = m THEN Round(op, t, ids, f, m) ELSE f[k]]
  <2>3. \A k \in 0..m : g[k] = Round(op, t, ids, g, k)
    <3> TAKE k \in 0..m
    <3>1. CASE k = m
      <4>1. k - 1 \in 0..m /\ k - 1 # m
        BY <3>1, <2>1
      <4>2. g[k - 1] = f[k - 1]
        BY <4>1
      <4>3. g[k] = Round(op, t, ids, f, k)
        BY <3>1
      <4> HIDE DEF g
      <4> QED BY <4>2, <4>3 DEF Round
    <3>2. CASE k # m
      <4>1. k \in 0..(m - 1) /\ (k # 0 => k - 1 \in 0..m /\ k - 1 # m)
        BY <3>2, <2>1
      <4>2. f[k] = Round(op, t, ids, f, k)
        BY <4>1, <2>2
      <4>3. g[k] = f[k] /\ (k # 0 => g[k - 1] = f[k - 1])
        BY <4>1, <3>2
      <4> HIDE DEF g
      <4> QED BY <4>2, <4>3 DEF Round
    <3> QED BY <3>1, <3>2
  <2>4. Solves(g, m)
    BY <2>3, Zenon
  <2> QED BY <2>4, <1>1
<1> QED BY <1>2, <1>3

\* The rounds of a loop over the stages of a task.
Rounds(op, t, ids, f, L) ==
    /\ f[0] = t
    /\ \A k \in 1..L : f[k] = IF k \in ids THEN Call(op, f[k - 1], k) ELSE f[k - 1]

\* What a loop over calls of run_by_id computes is what its last round leaves.
LEMMA RunRounds ==
    ASSUME NEW t, NEW ids, Len(t.row) \in Nat
    PROVE  \E f : /\ Rounds("run", t, ids, f, Len(t.row))
                  /\ Each(RunById, t, ids) = f[Len(t.row)]
<1> DEFINE L == Len(t.row)
           Solves(f) == f = [k \in 0..L |-> IF k = 0 THEN t
                                            ELSE IF k \in ids THEN RunById(f[k - 1], k)
                                            ELSE f[k - 1]]
<1>1. PICK op : op = "run"
  OBVIOUS
<1>2. PICK f : f = [k \in 0..L |-> Round(op, t, ids, f, k)]
  BY RoundsExist
<1>3. \A k : Round(op, t, ids, f, k) = IF k = 0 THEN t
                                      ELSE IF k \in ids THEN RunById(f[k - 1], k)
                                      ELSE f[k - 1]
  BY <1>1, Zenon DEF Round, Call
<1>4. Solves(f)
  BY <1>2, <1>3, Zenon
<1>5. PICK g : Solves(g) /\ Each(RunById, t, ids) = g[L]
  BY <1>4, Zenon DEF Each
<1>6. Rounds("run", t, ids, g, L)
  BY <1>5 DEF Rounds, Call
<1> QED BY <1>5, <1>6

\* The same of ok_by_id.
LEMMA OkRounds ==
    ASSUME NEW t, NEW ids, Len(t.row) \in Nat
    PROVE  \E f : /\ Rounds("ok", t, ids, f, Len(t.row))
                  /\ Each(OkById, t, ids) = f[Len(t.row)]
<1> DEFINE L == Len(t.row)
           Solves(f) == f = [k \in 0..L |-> IF k = 0 THEN t
                                            ELSE IF k \in ids THEN OkById(f[k - 1], k)
                                            ELSE f[k - 1]]
<1>1. PICK op : op = "ok"
  OBVIOUS
<1>2. PICK f : f = [k \in 0..L |-> Round(op, t, ids, f, k)]
  BY RoundsExist
<1>3. \A k : Round(op, t, ids, f, k) = IF k = 0 THEN t
                                      ELSE IF k \in ids THEN OkById(f[k - 1], k)
                                      ELSE f[k - 1]
  BY <1>1, Zenon DEF Round, Call
<1>4. Solves(f)
  BY <1>2, <1>3, Zenon
<1>5. PICK g : Solves(g) /\ Each(OkById, t, ids) = g[L]
  BY <1>4, Zenon DEF Each
<1>6. Rounds("ok", t, ids, g, L)
  BY <1>5 DEF Rounds, Call
<1> QED BY <1>5, <1>6

\* The same of skip_by_id.
LEMMA SkipRounds ==
    ASSUME NEW t, NEW ids, Len(t.row) \in Nat
    PROVE  \E f : /\ Rounds("skip", t, ids, f, Len(t.row))
                  /\ Each(SkipById, t, ids) = f[Len(t.row)]
<1> DEFINE L == Len(t.row)
           Solves(f) == f = [k \in 0..L |-> IF k = 0 THEN t
                                            ELSE IF k \in ids THEN SkipById(f[k - 1], k)
                                            ELSE f[k - 1]]
<1>1. PICK op : op = "skip"
  OBVIOUS
<1>2. PICK f : f = [k \in 0..L |-> Round(op, t, ids, f, k)]
  BY RoundsExist
<1>3. \A k : Round(op, t, ids, f, k) = IF k = 0 THEN t
                                      ELSE IF k \in ids THEN SkipById(f[k - 1], k)
                                      ELSE f[k - 1]
  BY <1>1, Zenon DEF Round, Call
<1>4. Solves(f)
  BY <1>2, <1>3, Zenon
<1>5. PICK g : Solves(g) /\ Each(SkipById, t, ids) = g[L]
  BY <1>4, Zenon DEF Each
<1>6. Rounds("skip", t, ids, g, L)
  BY <1>5 DEF Rounds, Call
<1> QED BY <1>5, <1>6

\* The same of fail_by_id.
LEMMA FailRounds ==
    ASSUME NEW t, NEW ids, Len(t.row) \in Nat
    PROVE  \E f : /\ Rounds("fail", t, ids, f, Len(t.row))
                  /\ Each(FailById, t, ids) = f[Len(t.row)]
<1> DEFINE L == Len(t.row)
           Solves(f) == f = [k \in 0..L |-> IF k = 0 THEN t
                                            ELSE IF k \in ids THEN FailById(f[k - 1], k)
                                            ELSE f[k - 1]]
<1>1. PICK op : op = "fail"
  OBVIOUS
<1>2. PICK f : f = [k \in 0..L |-> Round(op, t, ids, f, k)]
  BY RoundsExist
<1>3. \A k : Round(op, t, ids, f, k) = IF k = 0 THEN t
                                      ELSE IF k \in ids THEN FailById(f[k - 1], k)
                                      ELSE f[k - 1]
  BY <1>1, Zenon DEF Round, Call
<1>4. Solves(f)
  BY <1>2, <1>3, Zenon
<1>5. PICK g : Solves(g) /\ Each(FailById, t, ids) = g[L]
  BY <1>4, Zenon DEF Each
<1>6. Rounds("fail", t, ids, g, L)
  BY <1>5 DEF Rounds, Call
<1> QED BY <1>5, <1>6

-----------------------------------------------------------------------------
(* What a call for a stage does to a task.                                 *)

Ops == {"run", "ok", "skip", "fail"}

\* A frozen task redraws the line, whichever the call, and stays frozen.
LEMMA CallsFrozen ==
    ASSUME NEW n \in Nat, NEW t, Shape(n, t), Frozen(n, t), NEW id \in 1..n, NEW op \in Ops
    PROVE  LET u == Call(op, t, id) IN
           Shape(n, u) /\ Frozen(n, u) /\ Shows(n, t, u, id, op)
<1> DEFINE l == t.row[id]
<1>1. t \in Tasks(1..n) /\ l \in Line!Lines /\ id \in t.entries /\ Quiet(l)
  BY TaskFields DEF Shape, Frozen
<1>2. /\ t.finished \ {id} \in IdSets(n) /\ t.failed \ {id} \in IdSets(n)
      /\ t.finished \union {id} \in IdSets(n) /\ t.failed \union {id} \in IdSets(n)
  BY <1>1, TaskFields DEF IdSets
<1>3. CASE op = "run"
  <2> DEFINE m == StageRun(l)
             fin == t.finished \ {id}
             fai == t.failed \ {id}
  <2>1. /\ m \in Line!Lines /\ m.mode = l.mode /\ m.shows = "run" /\ Quiet(m)
        /\ l.reported => m.reported
    BY <1>1, LineRuns
  <2>2. Call(op, t, id) = RunById(t, id)
    BY <1>3 DEF Call
  <2>3. RunById(t, id) = UpdateState(Redraw(t, id, m, fin, fai))
    BY <1>1, CallIs
  <2> HIDE DEF m, fin, fai
  <2>4. fin \in IdSets(n) /\ fai \in IdSets(n)
    BY <1>2 DEF fin, fai
  <2>5. LET u == UpdateState(Redraw(t, id, m, fin, fai)) IN
        Shape(n, u) /\ Frozen(n, u) /\ Shows(n, t, u, id, m.shows)
    BY <2>1, <2>4, RedrawsFrozen
  <2> QED BY <1>3, <2>1, <2>2, <2>3, <2>5
<1>4. CASE op = "ok"
  <2> DEFINE m == StageSuccess(l)
             fin == t.finished \union {id}
             fai == t.failed \ {id}
  <2>1. /\ m \in Line!Lines /\ m.mode = l.mode /\ m.shows = "ok" /\ Quiet(m)
        /\ l.reported => m.reported
    BY <1>1, LineSettles
  <2>2. Call(op, t, id) = OkById(t, id)
    BY <1>4 DEF Call
  <2>3. OkById(t, id) = UpdateState(Redraw(t, id, m, fin, fai))
    BY <1>1, CallIs
  <2> HIDE DEF m, fin, fai
  <2>4. fin \in IdSets(n) /\ fai \in IdSets(n)
    BY <1>2 DEF fin, fai
  <2>5. LET u == UpdateState(Redraw(t, id, m, fin, fai)) IN
        Shape(n, u) /\ Frozen(n, u) /\ Shows(n, t, u, id, m.shows)
    BY <2>1, <2>4, RedrawsFrozen
  <2> QED BY <1>4, <2>1, <2>2, <2>3, <2>5
<1>5. CASE op = "skip"
  <2> DEFINE m == StageSkip(l)
             fin == t.finished \union {id}
             fai == t.failed \ {id}
  <2>1. /\ m \in Line!Lines /\ m.mode = l.mode /\ m.shows = "skip" /\ Quiet(m)
        /\ l.reported => m.reported
    BY <1>1, LineSettles
  <2>2. Call(op, t, id) = SkipById(t, id)
    BY <1>5 DEF Call
  <2>3. SkipById(t, id) = UpdateState(Redraw(t, id, m, fin, fai))
    BY <1>1, CallIs
  <2> HIDE DEF m, fin, fai
  <2>4. fin \in IdSets(n) /\ fai \in IdSets(n)
    BY <1>2 DEF fin, fai
  <2>5. LET u == UpdateState(Redraw(t, id, m, fin, fai)) IN
        Shape(n, u) /\ Frozen(n, u) /\ Shows(n, t, u, id, m.shows)
    BY <2>1, <2>4, RedrawsFrozen
  <2> QED BY <1>5, <2>1, <2>2, <2>3, <2>5
<1>6. CASE op = "fail"
  <2> DEFINE m == StageFail(l)
             fin == t.finished \ {id}
             fai == t.failed \union {id}
  <2>1. /\ m \in Line!Lines /\ m.mode = l.mode /\ m.shows = "fail" /\ Quiet(m)
        /\ l.reported => m.reported
    BY <1>1, LineFails DEF StageFail
  <2>2. Call(op, t, id) = FailById(t, id)
    BY <1>6 DEF Call
  <2>3. FailById(t, id) = UpdateState(Redraw(t, id, m, fin, fai))
    BY <1>1, CallIs
  <2> HIDE DEF m, fin, fai
  <2>4. fin \in IdSets(n) /\ fai \in IdSets(n)
    BY <1>2 DEF fin, fai
  <2>5. LET u == UpdateState(Redraw(t, id, m, fin, fai)) IN
        Shape(n, u) /\ Frozen(n, u) /\ Shows(n, t, u, id, m.shows)
    BY <2>1, <2>4, RedrawsFrozen
  <2> QED BY <1>6, <2>1, <2>2, <2>3, <2>5
<1> QED BY <1>3, <1>4, <1>5, <1>6 DEF Ops

\* An open task goes where its stages say: it stays open, or is completed
\* by the last stage to settle, or frozen by one that fails.
LEMMA CallsOpen ==
    ASSUME NEW n \in Nat, NEW t, Shape(n, t), Open(n, t), NEW id \in 1..n, NEW op \in Ops
    PROVE  LET u == Call(op, t, id) IN
           /\ Shape(n, u) /\ Shows(n, t, u, id, op)
           /\ op = "run" => Open(n, u)
           /\ op = "fail" => Frozen(n, u)
           /\ op \in {"ok", "skip"} =>
                 IF t.finished \union {id} = 1..n THEN Completed(n, u) ELSE Open(n, u)
<1> DEFINE l == t.row[id]
<1>1. t \in Tasks(1..n) /\ l \in Line!Lines /\ id \in t.entries
  BY TaskFields DEF Shape, Open
<1>2. CASE op = "run"
  <2>1. Call(op, t, id) = RunById(t, id)
    BY <1>2 DEF Call
  <2> QED BY <1>2, <2>1, RunsOpen
<1>3. CASE op = "fail"
  <2>1. Call(op, t, id) = FailById(t, id)
    BY <1>3 DEF Call
  <2> QED BY <1>3, <2>1, FailsOpen
<1>4. CASE op = "ok"
  <2> DEFINE m == StageSuccess(l)
             u == UpdateState(Redraw(t, id, m, t.finished \union {id}, t.failed \ {id}))
  <2>1. m \in Line!Lines /\ m.mode = l.mode /\ m.shows = "ok"
    BY <1>1, LineSettles
  <2>2. Call(op, t, id) = u
    BY <1>1, <1>4, CallIs DEF Call
  <2> HIDE DEF m
  <2>3. /\ Shape(n, u) /\ Shows(n, t, u, id, m.shows)
        /\ IF t.finished \union {id} = 1..n THEN Completed(n, u) ELSE Open(n, u)
    BY <2>1, SettlesOpen
  <2> HIDE DEF u
  <2> QED BY <1>4, <2>1, <2>2, <2>3
<1>5. CASE op = "skip"
  <2> DEFINE m == StageSkip(l)
             u == UpdateState(Redraw(t, id, m, t.finished \union {id}, t.failed \ {id}))
  <2>1. m \in Line!Lines /\ m.mode = l.mode /\ m.shows = "skip"
    BY <1>1, LineSettles
  <2>2. Call(op, t, id) = u
    BY <1>1, <1>5, CallIs DEF Call
  <2> HIDE DEF m
  <2>3. /\ Shape(n, u) /\ Shows(n, t, u, id, m.shows)
        /\ IF t.finished \union {id} = 1..n THEN Completed(n, u) ELSE Open(n, u)
    BY <2>1, SettlesOpen
  <2> HIDE DEF u
  <2> QED BY <1>5, <2>1, <2>2, <2>3
<1> QED BY <1>2, <1>3, <1>4, <1>5 DEF Ops

\* A call for a stage the task does not hold, or for a task that has
\* dropped its lines, changes nothing.
LEMMA CallsNothing ==
    ASSUME NEW t, NEW id, id \notin t.entries, NEW op
    PROVE  Call(op, t, id) = t
<1> QED BY CallIsNot DEF Call

\* Where a task may go: an open one is decided as its stages say, a frozen
\* one stays frozen, and one that has dropped its lines stays as it is.
Later(n, t, u) ==
    /\ Open(n, t) => \/ Open(n, u)
                     \/ Completed(n, u) /\ SettledIn(u) = 1..n
                     \/ Frozen(n, u) /\ FailedIn(u) # {}
    /\ Frozen(n, t) => Frozen(n, u)
    /\ Completed(n, t) \/ Abandoned(n, t) => u = t

\* What a stage is settled at, and which task it completes, are the same
\* question asked of the rows.
LEMMA ShowsSettled ==
    ASSUME NEW n \in Nat, NEW t, NEW u, Shape(n, t), Shape(n, u), NEW id \in 1..n,
           NEW op \in {"ok", "skip"}, Shows(n, t, u, id, op)
    PROVE  SettledIn(u) = SettledIn(t) \union {id}
<1>1. DOMAIN t.row = 1..n /\ DOMAIN u.row = 1..n
  BY TaskFields DEF Shape
<1> QED BY <1>1 DEF Shows, SettledIn

\* A call for any id.
LEMMA CallKeeps ==
    ASSUME NEW n \in Nat, NEW t, TaskInv(n, t), NEW id, NEW op \in Ops
    PROVE  LET u == Call(op, t, id) IN Shape(n, u) /\ Later(n, t, u)
<1> DEFINE u == Call(op, t, id)
<1>1. Shape(n, t)
  BY DEF TaskInv
<1>2. CASE id \notin t.entries
  <2>1. u = t
    BY <1>2, CallsNothing
  <2> HIDE DEF u
  <2> QED BY <1>1, <2>1 DEF Later, u
<1>3. CASE id \in t.entries /\ Open(n, t)
  <2>1. id \in 1..n
    BY <1>3 DEF Open
  <2>2. /\ Shape(n, u) /\ Shows(n, t, u, id, op)
        /\ op = "run" => Open(n, u)
        /\ op = "fail" => Frozen(n, u)
        /\ op \in {"ok", "skip"} =>
              IF t.finished \union {id} = 1..n THEN Completed(n, u) ELSE Open(n, u)
    BY <1>1, <1>3, <2>1, CallsOpen
  <2> HIDE DEF u
  <2>3. DOMAIN u.row = 1..n /\ DOMAIN t.row = 1..n
    BY <1>1, <2>2, TaskFields DEF Shape
  <2>4. op = "fail" => FailedIn(u) # {}
    BY <2>1, <2>2, <2>3 DEF FailedIn, Shows
  <2>5. op \in {"ok", "skip"} => SettledIn(u) = t.finished \union {id}
    BY <1>1, <1>3, <2>1, <2>2, ShowsSettled DEF Open
  <2>6. ~Frozen(n, t) /\ ~Completed(n, t) /\ ~Abandoned(n, t)
    BY <1>3 DEF Open, Frozen, Completed, Abandoned
  <2>7. Later(n, t, u)
    BY <2>2, <2>4, <2>5, <2>6 DEF Later, Ops
  <2> QED BY <2>2, <2>7 DEF u
<1>4. CASE id \in t.entries /\ Frozen(n, t)
  <2>1. id \in 1..n
    BY <1>4 DEF Frozen
  <2>2. Shape(n, u) /\ Frozen(n, u)
    BY <1>1, <1>4, <2>1, CallsFrozen
  <2> HIDE DEF u
  <2>3. ~Open(n, t) /\ ~Completed(n, t) /\ ~Abandoned(n, t)
    BY <1>4, <2>1 DEF Open, Frozen, Completed, Abandoned, Tidy
  <2>4. Later(n, t, u)
    BY <2>2, <2>3 DEF Later
  <2> QED BY <2>2, <2>4 DEF u
<1>5. t.entries # {} => Open(n, t) \/ Frozen(n, t)
  BY DEF TaskInv, Completed, Abandoned, Tidy
<1> QED BY <1>2, <1>3, <1>4, <1>5

-----------------------------------------------------------------------------
(* What a loop does to a task.                                             *)

\* One round.
LEMMA OneRound ==
    ASSUME NEW L \in Nat, NEW op, NEW t, NEW ids, NEW f, Rounds(op, t, ids, f, L),
           NEW k \in 1..L
    PROVE  /\ k \in ids => f[k] = Call(op, f[k - 1], k)
           /\ k \notin ids => f[k] = f[k - 1]
<1> QED BY DEF Rounds

\* What the rows show after k rounds.
Shown(n, t, u, ids, k, what) ==
    \A i \in 1..n : u.row[i].shows = IF i \in ids /\ i <= k THEN what ELSE t.row[i].shows

\* One more line is shown.
LEMMA ShownNext ==
    ASSUME NEW n \in Nat, NEW t, NEW u, NEW v, NEW ids, NEW k \in 1..n, NEW what,
           Shown(n, t, u, ids, k - 1, what),
           k \in ids => Shows(n, u, v, k, what), k \notin ids => v = u
    PROVE  Shown(n, t, v, ids, k, what)
<1>1. \A i \in 1..n : i <= k <=> i <= k - 1 \/ i = k
  OBVIOUS
<1> QED BY <1>1 DEF Shown, Shows

\* No round yet.
LEMMA ShownFirst ==
    ASSUME NEW n \in Nat, NEW t, NEW ids, NEW what
    PROVE  Shown(n, t, t, ids, 0, what)
<1> QED BY DEF Shown

\* Running stages leaves an open task open.
LEMMA RunsOpenLoop ==
    ASSUME NEW n \in Nat, NEW t, Shape(n, t), Open(n, t), NEW ids \in IdSets(n), NEW f,
           Rounds("run", t, ids, f, n)
    PROVE  Shape(n, f[n]) /\ Open(n, f[n]) /\ Shown(n, t, f[n], ids, n, "run")
<1> DEFINE Right == {k \in 0..n : /\ Shape(n, f[k]) /\ Open(n, f[k])
                                  /\ Shown(n, t, f[k], ids, k, "run")}
<1>1. f[0] = t
  BY DEF Rounds
<1>2. 0 \in Right
  BY <1>1, ShownFirst
<1>3. ASSUME NEW k \in 1..n, k - 1 \in Right PROVE k \in Right
  <2>1. /\ Shape(n, f[k - 1]) /\ Open(n, f[k - 1])
        /\ Shown(n, t, f[k - 1], ids, k - 1, "run")
    BY <1>3
  <2>2. CASE k \in ids
    <3>1. f[k] = Call("run", f[k - 1], k)
      BY <2>2, OneRound
    <3>2. Shape(n, f[k]) /\ Open(n, f[k]) /\ Shows(n, f[k - 1], f[k], k, "run")
      <4>1. "run" \in Ops
        BY DEF Ops
      <4> QED BY <2>1, <3>1, <4>1, CallsOpen
    <3>3. Shown(n, t, f[k], ids, k, "run")
      BY <2>1, <2>2, <3>2, ShownNext
    <3> QED BY <3>2, <3>3
  <2>3. CASE k \notin ids
    <3>1. f[k] = f[k - 1]
      BY <2>3, OneRound
    <3>2. Shown(n, t, f[k], ids, k, "run")
      BY <2>1, <2>3, <3>1, ShownNext
    <3> QED BY <2>1, <3>1, <3>2
  <2> QED BY <2>2, <2>3
<1>4. n \in Right
  <2> HIDE DEF Right
  <2> QED BY <1>2, <1>3, LastRound
<1> QED BY <1>4

\* A frozen task redraws the lines and stays frozen.
LEMMA FrozenLoop ==
    ASSUME NEW n \in Nat, NEW t, Shape(n, t), Frozen(n, t), NEW ids \in IdSets(n), NEW f,
           NEW op \in Ops, Rounds(op, t, ids, f, n)
    PROVE  Shape(n, f[n]) /\ Frozen(n, f[n]) /\ Shown(n, t, f[n], ids, n, op)
<1> DEFINE Right == {k \in 0..n : /\ Shape(n, f[k]) /\ Frozen(n, f[k])
                                  /\ Shown(n, t, f[k], ids, k, op)}
<1>1. f[0] = t
  BY DEF Rounds
<1>2. 0 \in Right
  BY <1>1, ShownFirst
<1>3. ASSUME NEW k \in 1..n, k - 1 \in Right PROVE k \in Right
  <2>1. /\ Shape(n, f[k - 1]) /\ Frozen(n, f[k - 1])
        /\ Shown(n, t, f[k - 1], ids, k - 1, op)
    BY <1>3
  <2>2. CASE k \in ids
    <3>1. f[k] = Call(op, f[k - 1], k)
      BY <2>2, OneRound
    <3>2. Shape(n, f[k]) /\ Frozen(n, f[k]) /\ Shows(n, f[k - 1], f[k], k, op)
      BY <2>1, <3>1, CallsFrozen
    <3>3. Shown(n, t, f[k], ids, k, op)
      BY <2>1, <2>2, <3>2, ShownNext
    <3> QED BY <3>2, <3>3
  <2>3. CASE k \notin ids
    <3>1. f[k] = f[k - 1]
      BY <2>3, OneRound
    <3>2. Shown(n, t, f[k], ids, k, op)
      BY <2>1, <2>3, <3>1, ShownNext
    <3> QED BY <2>1, <3>1, <3>2
  <2> QED BY <2>2, <2>3
<1>4. n \in Right
  <2> HIDE DEF Right
  <2> QED BY <1>2, <1>3, LastRound
<1> QED BY <1>4

\* Failing the stages of an open task freezes it at the first of them.
LEMMA FailsLoop ==
    ASSUME NEW n \in Nat, NEW t, Shape(n, t), Open(n, t), NEW f, n > 0,
           Rounds("fail", t, 1..n, f, n)
    PROVE  Shape(n, f[n]) /\ Frozen(n, f[n]) /\ FailedIn(f[n]) # {}
<1> DEFINE Right == {k \in 0..n : /\ Shape(n, f[k])
                                  /\ IF k = 0 THEN Open(n, f[k])
                                     ELSE Frozen(n, f[k]) /\ FailedIn(f[k]) # {}}
<1>1. f[0] = t
  BY DEF Rounds
<1>2. 0 \in Right
  BY <1>1
<1>3. ASSUME NEW k \in 1..n, k - 1 \in Right PROVE k \in Right
  <2>1. Shape(n, f[k - 1]) /\ (Open(n, f[k - 1]) \/ Frozen(n, f[k - 1]))
    BY <1>3
  <2>2. f[k] = Call("fail", f[k - 1], k)
    BY OneRound
  <2>3. "fail" \in Ops
    BY DEF Ops
  <2>4. Shape(n, f[k]) /\ Frozen(n, f[k]) /\ Shows(n, f[k - 1], f[k], k, "fail")
    <3>1. CASE Open(n, f[k - 1])
      BY <2>1, <2>2, <2>3, <3>1, CallsOpen
    <3>2. CASE Frozen(n, f[k - 1])
      BY <2>1, <2>2, <2>3, <3>2, CallsFrozen
    <3> QED BY <2>1, <3>1, <3>2
  <2>5. k \in FailedIn(f[k])
    <3>1. DOMAIN f[k].row = 1..n
      BY <2>4, TaskFields DEF Shape
    <3> QED BY <2>4, <3>1 DEF FailedIn, Shows
  <2> QED BY <2>4, <2>5
<1>4. n \in Right
  <2> HIDE DEF Right
  <2> QED BY <1>2, <1>3, LastRound
<1> QED BY <1>4

\* Settling stages of an open task, when the other ones have settled
\* already, completes it: at the last of them at the latest.
LEMMA SettlesLoop ==
    ASSUME NEW n \in Nat, NEW t, Shape(n, t), Open(n, t), n > 0, NEW ids \in IdSets(n),
           1..n = ids \union t.finished, NEW op \in {"ok", "skip"}, NEW f,
           Rounds(op, t, ids, f, n)
    PROVE  Shape(n, f[n]) /\ Completed(n, f[n]) /\ SettledIn(f[n]) = 1..n
<1> DEFINE Right == {k \in 0..n : /\ Shape(n, f[k])
                                  /\ \/ Completed(n, f[k]) /\ SettledIn(f[k]) = 1..n
                                     \/ Open(n, f[k]) /\ \A i \in 1..n :
                                           i <= k \/ i \notin ids => i \in SettledIn(f[k])}
<1>1. f[0] = t
  BY DEF Rounds
<1>2. 0 \in Right
  BY <1>1 DEF Open
<1>3. ASSUME NEW k \in 1..n, k - 1 \in Right PROVE k \in Right
  <2> DEFINE u == f[k - 1]
  <2>1. /\ Shape(n, u)
        /\ \/ Completed(n, u) /\ SettledIn(u) = 1..n
           \/ Open(n, u) /\ \A i \in 1..n : i <= k - 1 \/ i \notin ids => i \in SettledIn(u)
    BY <1>3
  <2>2. f[k] = u \/ f[k] = Call(op, u, k)
    BY OneRound
  <2>3. CASE Completed(n, u) /\ SettledIn(u) = 1..n
    <3>1. k \notin u.entries
      BY <2>3 DEF Completed, Tidy
    <3>2. f[k] = u
      BY <2>2, <3>1, CallsNothing
    <3> QED BY <2>1, <2>3, <3>2
  <2>4. CASE /\ Open(n, u) /\ k \in ids
             /\ \A i \in 1..n : i <= k - 1 \/ i \notin ids => i \in SettledIn(u)
    <3>1. f[k] = Call(op, u, k)
      BY <2>4, OneRound
    <3>2. op \in Ops
      BY DEF Ops
    <3>3. /\ Shape(n, f[k]) /\ Shows(n, u, f[k], k, op)
          /\ IF u.finished \union {k} = 1..n THEN Completed(n, f[k]) ELSE Open(n, f[k])
      BY <2>1, <2>4, <3>1, <3>2, CallsOpen
    <3>4. SettledIn(f[k]) = SettledIn(u) \union {k} /\ u.finished = SettledIn(u)
      BY <2>1, <2>4, <3>3, ShowsSettled DEF Open
    <3>5. \A i \in 1..n : i <= k \/ i \notin ids => i \in SettledIn(f[k])
      <4> SUFFICES ASSUME NEW i \in 1..n, i <= k \/ i \notin ids
                   PROVE  i \in SettledIn(f[k])
        OBVIOUS
      <4>1. i <= k - 1 \/ i = k \/ i \notin ids
        OBVIOUS
      <4>2. i \in SettledIn(u) \/ i = k
        BY <2>4, <4>1
      <4> HIDE DEF u
      <4>3. i \in SettledIn(u) \union {k}
        BY <4>2, Zenon
      <4> QED BY <3>4, <4>3, Zenon
    <3>6. u.finished \union {k} = SettledIn(f[k])
      BY <3>4, Zenon
    <3>7. (Completed(n, f[k]) /\ SettledIn(f[k]) = 1..n) \/ Open(n, f[k])
      <4> HIDE DEF u
      <4> QED BY <3>3, <3>6, Zenon
    <3> HIDE DEF u
    <3> QED BY <3>3, <3>5, <3>7
  <2>5. CASE /\ Open(n, u) /\ k \notin ids
             /\ \A i \in 1..n : i <= k - 1 \/ i \notin ids => i \in SettledIn(u)
    <3>1. f[k] = u
      BY <2>5, OneRound
    <3>2. \A i \in 1..n : i <= k \/ i \notin ids => i \in SettledIn(u)
      BY <2>5
    <3> QED BY <2>1, <2>5, <3>1, <3>2
  <2> QED BY <2>1, <2>3, <2>4, <2>5
<1>4. n \in Right
  <2> HIDE DEF Right
  <2> QED BY <1>2, <1>3, LastRound
<1>5. Open(n, f[n]) => SettledIn(f[n]) # 1..n
  BY DEF Open
<1>6. SettledIn(f[n]) \subseteq 1..n
  BY <1>4, TaskFields DEF Shape, SettledIn
<1>7. ASSUME \A i \in 1..n : i <= n \/ i \notin ids => i \in SettledIn(f[n])
      PROVE  SettledIn(f[n]) = 1..n
  <2>1. \A i \in 1..n : i <= n
    OBVIOUS
  <2>2. 1..n \subseteq SettledIn(f[n])
    BY <1>7, <2>1, Zenon
  <2> QED BY <1>6, <2>2, Zenon
<1> QED BY <1>4, <1>5, <1>7

\* The stages an open task has left are skipped one by one: each shows it.
LEMMA SkipsLoop ==
    ASSUME NEW n \in Nat, NEW t, Shape(n, t), Open(n, t), NEW ids \in IdSets(n),
           ids = (1..n) \ t.finished, NEW f, Rounds("skip", t, ids, f, n)
    PROVE  Shown(n, t, f[n], ids, n, "skip")
<1> DEFINE Right == {k \in 0..n : /\ Shape(n, f[k]) /\ Shown(n, t, f[k], ids, k, "skip")
                                  /\ \/ Open(n, f[k])
                                     \/ Completed(n, f[k]) /\ \A i \in ids : i <= k}
<1>1. f[0] = t
  BY DEF Rounds
<1>2. 0 \in Right
  BY <1>1, ShownFirst
<1>3. ASSUME NEW k \in 1..n, k - 1 \in Right PROVE k \in Right
  <2> DEFINE u == f[k - 1]
  <2>1. /\ Shape(n, u) /\ Shown(n, t, u, ids, k - 1, "skip")
        /\ \/ Open(n, u)
           \/ Completed(n, u) /\ \A i \in ids : i <= k - 1
    BY <1>3
  <2>2. CASE k \notin ids
    <3>1. f[k] = u
      BY <2>2, OneRound
    <3>2. Shown(n, t, f[k], ids, k, "skip")
      BY <2>1, <2>2, <3>1, ShownNext
    <3>3. \A i \in ids : i <= k - 1 => i <= k
      BY DEF IdSets
    <3> QED BY <2>1, <3>1, <3>2, <3>3
  <2>3. CASE k \in ids
    <3>1. Open(n, u)
      BY <2>1, <2>3
    <3>2. f[k] = Call("skip", u, k) /\ "skip" \in Ops
      BY <2>3, OneRound DEF Ops
    <3>3. /\ Shape(n, f[k]) /\ Shows(n, u, f[k], k, "skip")
          /\ IF u.finished \union {k} = 1..n THEN Completed(n, f[k]) ELSE Open(n, f[k])
      BY <2>1, <3>1, <3>2, CallsOpen
    <3>4. Shown(n, t, f[k], ids, k, "skip")
      BY <2>1, <2>3, <3>3, ShownNext
    <3>5. ASSUME u.finished \union {k} = 1..n, NEW i \in ids PROVE i <= k
      <4>1. i \in 1..n /\ i \notin t.finished
        BY DEF IdSets
      <4>2. i = k \/ i \in SettledIn(u)
        BY <3>1, <3>5, <4>1 DEF Open
      <4>3. t.row[i].shows \notin {"ok", "skip"}
        <5>1. DOMAIN t.row = 1..n
          BY TaskFields DEF Shape
        <5> QED BY <4>1, <5>1 DEF Open, SettledIn
      <4>4. i > k - 1 => u.row[i].shows = t.row[i].shows
        BY <2>1, <4>1 DEF Shown
      <4> QED BY <4>1, <4>2, <4>3, <4>4 DEF SettledIn
    <3> QED BY <3>3, <3>4, <3>5
  <2> QED BY <2>2, <2>3
<1>4. n \in Right
  <2> HIDE DEF Right
  <2> QED BY <1>2, <1>3, LastRound
<1> QED BY <1>4

-----------------------------------------------------------------------------
(* Building a task, and the bulk operations.                               *)

\* A loop has one round for each stage.
LEMMA RowLen ==
    ASSUME NEW n \in Nat, NEW t, Shape(n, t)
    PROVE  Len(t.row) = n
<1>1. t.row \in [1..n -> Line!Lines]
  BY TaskFields DEF Shape
<1>2. t.row \in Seq(Line!Lines)
  BY <1>1, SeqDef
<1>3. 1..Len(t.row) = 1..n /\ Len(t.row) \in Nat
  BY <1>1, <1>2, LenProperties
<1> QED BY <1>3

\* A line as the builder makes it.
LEMMA LineMade ==
    ASSUME NEW mode \in Line!Modes, NEW kind \in Extras
    PROVE  /\ Line!NewLine(mode) \in Line!Lines /\ Line!NewLine(mode).mode = mode
           /\ ~Line!NewLine(mode).reported
           /\ NewExtra(mode, kind) \in Line!Lines /\ NewExtra(mode, kind).mode = mode
<1> DEFINE l == Line!NewLine(mode)
<1>1. (mode = "interactive") \in BOOLEAN
  BY Zenon
<1>2. l \in Line!Lines /\ l.mode = mode /\ ~l.reported
  BY <1>1 DEF Line!NewLine, Line!Lines, Line!Displays
<1> HIDE DEF l
<1>3. "separator" \in Line!Displays
  BY DEF Line!Displays
<1>4. Line!Draw(l, "separator") \in Line!Lines /\ Line!Draw(l, "separator").mode = mode
  BY <1>2, <1>3, LineDraws
<1>5. NewExtra(mode, kind) \in Line!Lines /\ NewExtra(mode, kind).mode = mode
  BY <1>2, <1>4, LineFinishes DEF NewExtra, Line!Separator, l
<1> QED BY <1>2, <1>5 DEF l

\* A new task is open, and its stages wait.
LEMMA NewOpen ==
    ASSUME NEW n \in Nat, NEW mode \in Line!Modes, NEW kinds \in SUBSET Extras
    PROVE  LET t == NewTask(mode, 1..n, kinds) IN
           /\ Shape(n, t) /\ Open(n, t)
           /\ \A i \in 1..n : t.row[i].shows = "wait"
<1> DEFINE placed == {k \in kinds : k = "spacer" => mode = "interactive"}
           head == Line!Title(Line!NewLine(mode))
           wait == NewStage(mode)
           row == [i \in 1..n |-> wait]
           extra == [k \in placed |-> NewExtra(mode, k)]
           t == [head |-> head, row |-> row, extra |-> extra, entries |-> 1..n,
                 extras |-> placed, finished |-> {}, failed |-> {}, done |-> FALSE,
                 announced |-> <<>>]
<1>1. /\ Line!NewLine(mode) \in Line!Lines /\ Line!NewLine(mode).mode = mode
      /\ ~Line!NewLine(mode).reported
  <2>1. "group" \in Extras
    BY DEF Extras
  <2> QED BY <2>1, LineMade
<1>2. /\ head \in Line!Lines /\ head.mode = mode /\ head.shows = "title" /\ ~head.reported
      /\ wait \in Line!Lines /\ wait.mode = mode /\ wait.shows = "wait"
  <2>1. "title" \in Line!Displays /\ "wait" \in Line!Displays
    BY DEF Line!Displays
  <2> QED BY <1>1, <2>1, LineDraws DEF Line!Title, NewStage, Line!Wait
<1>3. /\ placed \in SUBSET Extras
      /\ \A k \in placed : extra[k] \in Line!Lines /\ extra[k].mode = mode
  BY LineMade
<1>4. extra \in [placed -> Line!Lines] /\ DOMAIN extra = placed
  BY <1>3
<1>5. NewTask(mode, 1..n, kinds) = t
  BY DEF NewTask
<1> HIDE DEF placed, head, wait, extra
<1>6. row \in [1..n -> Line!Lines] /\ \A i \in 1..n : row[i] = wait
  BY <1>2
<1> HIDE DEF row
<1>7. t \in Tasks(1..n)
  <2>1. <<>> \in Seq({"ok", "fail"})
    BY EmptySeq
  <2> QED BY <1>2, <1>3, <1>4, <1>6, <2>1, TaskBuilt
<1>8. Shape(n, t)
  BY <1>2, <1>3, <1>4, <1>6, <1>7 DEF Shape
<1>9. SettledIn(t) = {}
  BY <1>2, <1>6 DEF SettledIn
<1>10. n > 0 => 1..n # {}
  <2>1. n > 0 => 1 \in 1..n
    OBVIOUS
  <2> QED BY <2>1
<1>11. Open(n, t)
  BY <1>2, <1>4, <1>6, <1>9, <1>10 DEF Open
<1> QED BY <1>2, <1>5, <1>6, <1>8, <1>11

\* Running some stages of an open task.
LEMMA EachRun ==
    ASSUME NEW n \in Nat, NEW t, Shape(n, t), Open(n, t), NEW ids \in IdSets(n)
    PROVE  LET u == Each(RunById, t, ids) IN
           Shape(n, u) /\ Open(n, u) /\ Shown(n, t, u, ids, n, "run")
<1>1. PICK f : Rounds("run", t, ids, f, n) /\ Each(RunById, t, ids) = f[n]
  BY RowLen, RunRounds
<1>2. Shape(n, f[n]) /\ Open(n, f[n]) /\ Shown(n, t, f[n], ids, n, "run")
  BY <1>1, RunsOpenLoop
<1> QED BY <1>1, <1>2

\* Skipping stages of a frozen task.
LEMMA EachFrozen ==
    ASSUME NEW n \in Nat, NEW t, Shape(n, t), Frozen(n, t), NEW ids \in IdSets(n)
    PROVE  LET u == Each(SkipById, t, ids) IN
           Shape(n, u) /\ Frozen(n, u) /\ Shown(n, t, u, ids, n, "skip")
<1>1. PICK f : Rounds("skip", t, ids, f, n) /\ Each(SkipById, t, ids) = f[n]
  BY RowLen, SkipRounds
<1>2. "skip" \in Ops
  BY DEF Ops
<1>3. Shape(n, f[n]) /\ Frozen(n, f[n]) /\ Shown(n, t, f[n], ids, n, "skip")
  BY <1>1, <1>2, FrozenLoop
<1> QED BY <1>1, <1>3

\* Failing all stages of an open task.
LEMMA EachFail ==
    ASSUME NEW n \in Nat, NEW t, Shape(n, t), Open(n, t), n > 0
    PROVE  LET u == Each(FailById, t, 1..n) IN
           Shape(n, u) /\ Frozen(n, u) /\ FailedIn(u) # {}
<1>1. PICK f : Rounds("fail", t, 1..n, f, n) /\ Each(FailById, t, 1..n) = f[n]
  BY RowLen, FailRounds
<1>2. Shape(n, f[n]) /\ Frozen(n, f[n]) /\ FailedIn(f[n]) # {}
  BY <1>1, FailsLoop
<1> QED BY <1>1, <1>2

\* All stages of an open task succeed.
LEMMA EachOk ==
    ASSUME NEW n \in Nat, NEW t, Shape(n, t), Open(n, t), n > 0
    PROVE  LET u == Each(OkById, t, 1..n) IN
           Shape(n, u) /\ Completed(n, u) /\ SettledIn(u) = 1..n
<1>1. PICK f : Rounds("ok", t, 1..n, f, n) /\ Each(OkById, t, 1..n) = f[n]
  BY RowLen, OkRounds
<1>2. 1..n \in IdSets(n) /\ 1..n = 1..n \union t.finished
  BY TaskFields DEF Shape, IdSets
<1>3. "ok" \in {"ok", "skip"}
  OBVIOUS
<1>4. Shape(n, f[n]) /\ Completed(n, f[n]) /\ SettledIn(f[n]) = 1..n
  BY <1>1, <1>2, <1>3, SettlesLoop
<1> QED BY <1>1, <1>4

\* Skipping the stages an open task has left.
LEMMA EachSkip ==
    ASSUME NEW n \in Nat, NEW t, Shape(n, t), Open(n, t), n > 0, NEW ids \in IdSets(n),
           1..n = ids \union t.finished
    PROVE  LET u == Each(SkipById, t, ids) IN
           /\ Shape(n, u) /\ Completed(n, u) /\ SettledIn(u) = 1..n
           /\ ids = (1..n) \ t.finished => Shown(n, t, u, ids, n, "skip")
<1>1. PICK f : Rounds("skip", t, ids, f, n) /\ Each(SkipById, t, ids) = f[n]
  BY RowLen, SkipRounds
<1>2. "skip" \in {"ok", "skip"}
  OBVIOUS
<1>3. Shape(n, f[n]) /\ Completed(n, f[n]) /\ SettledIn(f[n]) = 1..n
  BY <1>1, <1>2, SettlesLoop
<1>4. ids = (1..n) \ t.finished => Shown(n, t, f[n], ids, n, "skip")
  BY <1>1, SkipsLoop
<1> QED BY <1>1, <1>3, <1>4

\* A loop over the stages of a task without stages makes no call.
LEMMA EachNothing ==
    ASSUME NEW t, Shape(0, t), NEW ids
    PROVE  /\ Each(RunById, t, ids) = t /\ Each(OkById, t, ids) = t
           /\ Each(SkipById, t, ids) = t /\ Each(FailById, t, ids) = t
<1>1. Len(t.row) = 0
  BY RowLen
<1> QED BY <1>1, RunRounds, OkRounds, SkipRounds, FailRounds DEF Rounds

\* Completing an open task without stages is completing it with every stage
\* settled.
LEMMA CompletesOpen ==
    ASSUME NEW n \in Nat, NEW t, Shape(n, t), Open(n, t)
    PROVE  LET u == SetCompleted(t) IN
           Shape(n, u) /\ Completed(n, u) /\ SameShows(n, t, u)
<1>1. Undecided(n, t)
  BY DEF Open, Undecided, Holds
<1> QED BY <1>1, CompletesTask

\* run_all: an open task stays open, any other stays as it is.
LEMMA PerformRunKeeps ==
    ASSUME NEW n \in Nat, NEW t, TaskInv(n, t)
    PROVE  LET u == PerformRun(t) IN Shape(n, u) /\ Later(n, t, u)
<1>1. Shape(n, t)
  BY DEF TaskInv
<1>2. CASE t.done
  <2>1. PerformRun(t) = t /\ ~Open(n, t)
    BY <1>2 DEF PerformRun, Open
  <2> QED BY <1>1, <2>1 DEF Later
<1>3. CASE ~t.done
  <2>1. Open(n, t) /\ ~Frozen(n, t) /\ ~Completed(n, t) /\ ~Abandoned(n, t)
    BY <1>3 DEF TaskInv, Frozen, Completed, Abandoned
  <2>2. t.entries \in IdSets(n)
    BY <2>1 DEF Open, IdSets
  <2>3. PerformRun(t) = Each(RunById, t, t.entries)
    BY <1>3 DEF PerformRun, StageIds
  <2>4. Shape(n, PerformRun(t)) /\ Open(n, PerformRun(t))
    BY <1>1, <2>1, <2>2, <2>3, EachRun
  <2> QED BY <2>1, <2>4 DEF Later
<1> QED BY <1>2, <1>3

\* ok: an open task is completed with every stage settled.
LEMMA PerformOkKeeps ==
    ASSUME NEW n \in Nat, NEW t, TaskInv(n, t)
    PROVE  LET u == PerformOk(t) IN Shape(n, u) /\ Later(n, t, u)
<1>1. Shape(n, t)
  BY DEF TaskInv
<1>2. CASE t.done
  <2>1. PerformOk(t) = t /\ ~Open(n, t)
    BY <1>2 DEF PerformOk, Open
  <2> QED BY <1>1, <2>1 DEF Later
<1>3. CASE ~t.done
  <2>1. Open(n, t) /\ ~Frozen(n, t) /\ ~Completed(n, t) /\ ~Abandoned(n, t)
    BY <1>3 DEF TaskInv, Frozen, Completed, Abandoned
  <2>2. t.entries = 1..n
    BY <2>1 DEF Open
  <2>3. CASE n > 0
    <3>1. 1 \in 1..n
      BY <2>3
    <3>2. PerformOk(t) = Each(OkById, t, 1..n)
      BY <1>3, <2>2, <3>1 DEF PerformOk, StageIds
    <3>3. /\ Shape(n, PerformOk(t)) /\ Completed(n, PerformOk(t))
          /\ SettledIn(PerformOk(t)) = 1..n
      BY <1>1, <2>1, <2>3, <3>2, EachOk
    <3> QED BY <2>1, <3>3 DEF Later
  <2>4. CASE n = 0
    <3>1. PerformOk(t) = SetCompleted(t)
      BY <1>3, <2>2, <2>4 DEF PerformOk
    <3>2. Shape(n, PerformOk(t)) /\ Completed(n, PerformOk(t))
      BY <1>1, <2>1, <3>1, CompletesOpen
    <3>3. SettledIn(PerformOk(t)) = 1..n
      BY <2>4, <3>2, TaskFields DEF Shape, SettledIn
    <3> QED BY <2>1, <3>2, <3>3 DEF Later
  <2> QED BY <2>3, <2>4
<1> QED BY <1>2, <1>3

\* skip: an open task with stages is completed with every stage settled.
LEMMA PerformSkipKeeps ==
    ASSUME NEW n \in Nat, NEW t, TaskInv(n, t)
    PROVE  LET u == PerformSkip(t) IN Shape(n, u) /\ Later(n, t, u)
<1>1. Shape(n, t)
  BY DEF TaskInv
<1>2. CASE t.done
  <2>1. PerformSkip(t) = t /\ ~Open(n, t)
    BY <1>2 DEF PerformSkip, Open
  <2> QED BY <1>1, <2>1 DEF Later
<1>3. CASE ~t.done
  <2>1. Open(n, t) /\ ~Frozen(n, t) /\ ~Completed(n, t) /\ ~Abandoned(n, t)
    BY <1>3 DEF TaskInv, Frozen, Completed, Abandoned
  <2>2. t.entries = 1..n
    BY <2>1 DEF Open
  <2>3. PerformSkip(t) = Each(SkipById, t, 1..n)
    BY <1>3, <2>2 DEF PerformSkip, StageIds
  <2>4. CASE n > 0
    <3>1. 1..n \in IdSets(n) /\ 1..n = 1..n \union t.finished
      BY <1>1, TaskFields DEF Shape, IdSets
    <3>2. /\ Shape(n, PerformSkip(t)) /\ Completed(n, PerformSkip(t))
          /\ SettledIn(PerformSkip(t)) = 1..n
      BY <1>1, <2>1, <2>3, <2>4, <3>1, EachSkip
    <3> QED BY <2>1, <3>2 DEF Later
  <2>5. CASE n = 0
    <3>1. PerformSkip(t) = t
      BY <1>1, <2>3, <2>5, EachNothing
    <3> QED BY <1>1, <2>1, <3>1 DEF Later
  <2> QED BY <2>4, <2>5
<1> QED BY <1>2, <1>3

\* fail: an open task is given up, with a failed stage if it has stages.
LEMMA PerformFailKeeps ==
    ASSUME NEW n \in Nat, NEW t, TaskInv(n, t)
    PROVE  LET u == PerformFail(t) IN
           /\ Shape(n, u)
           /\ Open(n, t) => Abandoned(n, u) /\ (n = 0 \/ FailedIn(u) # {})
           /\ ~Open(n, t) => u = t
<1>1. Shape(n, t)
  BY DEF TaskInv
<1>2. CASE t.done
  <2>1. PerformFail(t) = t /\ ~Open(n, t)
    BY <1>2 DEF PerformFail, Open
  <2> QED BY <1>1, <2>1
<1>3. CASE ~t.done
  <2> DEFINE v == Each(FailById, t, 1..n)
             u == SetFailedAndClear(v)
  <2>1. Open(n, t)
    BY <1>3 DEF TaskInv, Frozen, Completed, Abandoned
  <2>2. PerformFail(t) = u
    BY <1>3, <2>1 DEF PerformFail, StageIds, Open
  <2>3. CASE n > 0
    <3>1. Shape(n, v) /\ Frozen(n, v) /\ FailedIn(v) # {}
      BY <1>1, <2>1, <2>3, EachFail
    <3> HIDE DEF v
    <3>2. Holds(n, v) /\ SaidLittle(n, v)
      BY <2>3, <3>1 DEF Frozen, Holds, SaidLittle
    <3>3. Shape(n, u) /\ Abandoned(n, u) /\ SameShows(n, v, u)
      BY <2>3, <3>1, <3>2, AbandonsTask
    <3> HIDE DEF u
    <3>4. FailedIn(u) = FailedIn(v)
      <4>1. DOMAIN u.row = 1..n /\ DOMAIN v.row = 1..n
        BY <3>1, <3>3, TaskFields DEF Shape
      <4> QED BY <3>3, <4>1 DEF FailedIn, SameShows
    <3> QED BY <2>1, <2>2, <3>1, <3>3, <3>4
  <2>4. CASE n = 0
    <3>1. v = t
      BY <1>1, <2>4, EachNothing
    <3>2. t.announced = <<>> /\ Holds(n, t)
      BY <2>1 DEF Open, Holds
    <3> HIDE DEF v
    <3>3. SaidLittle(n, t)
      BY <3>2, Zenon DEF SaidLittle
    <3>4. Shape(n, v) /\ Holds(n, v) /\ SaidLittle(n, v)
      BY <1>1, <3>1, <3>2, <3>3
    <3>5. Shape(n, u) /\ Abandoned(n, u)
      BY <3>4, AbandonsTask
    <3> QED BY <2>1, <2>2, <2>4, <3>5
  <2> QED BY <2>3, <2>4
<1> QED BY <1>2, <1>3
=============================================================================
