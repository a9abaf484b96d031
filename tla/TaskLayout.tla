---------------------------- MODULE TaskLayout ----------------------------
(***************************************************************************)
(* Where knot-terminal puts its lines.  A TaskLayout is shared by every    *)
(* clone of a TaskEngine, so steps and tasks are built, failed and         *)
(* completed by several threads: each of its methods holds the anchor's    *)
(* mutex, but a task is built, and tidied away, by many calls of them.     *)
(*                                                                         *)
(* A line is a record of its owner, its kind (head, stage, extra for those *)
(* of groups and spacers, report) and a serial number.  `lines` is the     *)
(* order of indicatif's MultiProgress, in which a line that was cleared    *)
(* keeps its place but takes no room on the screen; a new line goes below  *)
(* the anchor, or below a given line.                                      *)
(***************************************************************************)
EXTENDS Integers, Sequences, FiniteSets, SequencesExt

CONSTANTS
    Owners,        \* the tasks and steps built in a run
    MaxChildren,   \* bound: stage, group and spacer lines of a task
    MaxReports     \* bound: error reports of an owner

ASSUME LayoutAssumption ==
    MaxChildren \in Nat /\ MaxReports \in Nat

VARIABLES
    concurrent,   \* whether several owners are built or tidied at once
    bulkFail,     \* whether tasks with stages or extras are failed as a whole
    lines,        \* the lines, from the top
    cleared,      \* the lines cleared from the screen
    anchor,       \* the line below which the next head goes, or None
    phase,        \* [Owners -> Phases]
    point,        \* [Owners -> Line]: insertion_point while a task is built
    failed,       \* [Owners -> BOOLEAN]: the owner shows a failure
    nodes         \* [Owners -> set of lines]: nodes_to_clear of clear_children

useVars == <<concurrent, bulkFail>>
vars == <<useVars, lines, cleared, anchor, phase, point, failed, nodes>>

Phases == {"new", "building", "live", "failing", "clearing", "tidying", "gone"}

Line == [owner : Owners, kind : {"head", "stage", "extra", "report"}, n : Nat]

None == [owner |-> "none"]

HeadOf(o) == [owner |-> o, kind |-> "head", n |-> 0]

LinesOf(o, kind) == {l \in ToSet(lines) : l.owner = o /\ l.kind = kind}

Count(o, kind) == Cardinality(LinesOf(o, kind))

\* The next line of a kind that an owner gets.
Fresh(o, kind) == [owner |-> o, kind |-> kind, n |-> Count(o, kind) + 1]

ChildrenOf(o) == {l \in ToSet(lines) : l.owner = o /\ l.kind # "head"}

\* The entries of a task: its stages and its extras.
Entries(o) == Count(o, "stage") + Count(o, "extra")

\* In a sequential run an owner starts a call when no other is inside one.
MayStart(o) ==
    concurrent \/ \A q \in Owners \ {o} :
                     phase[q] \notin {"building", "failing", "clearing", "tidying"}

Init ==
    /\ concurrent \in BOOLEAN /\ bulkFail \in BOOLEAN
    /\ lines = <<>> /\ cleared = {} /\ anchor = None
    /\ phase = [o \in Owners |-> "new"]
    /\ point = [o \in Owners |-> HeadOf(o)]
    /\ failed = [o \in Owners |-> FALSE]
    /\ nodes = [o \in Owners |-> {}]

-----------------------------------------------------------------------------
(* The methods of TaskLayout.                                              *)

SetAnchor(line) == anchor' = line

Position(line) == SelectInSeq(lines, LAMBDA l : l = line)

Below(line, new) == InsertAt(lines, Position(line) + 1, new)

Insert(new) ==
    /\ lines' = IF anchor = None THEN Append(lines, new) ELSE Below(anchor, new)
    /\ SetAnchor(new)

InsertAfter(line, new) ==
    /\ lines' = Below(line, new)
    /\ SetAnchor(IF anchor = line THEN new ELSE anchor)

\* Fault: the anchor falls back to the head whatever it is.
UpdateAnchorAlways(set, fallback) == SetAnchor(fallback)

\* Fault: the anchor is left on a line that has been cleared.
UpdateAnchorNever(set, fallback) == UNCHANGED anchor

UpdateAnchorIfIn(set, fallback) ==
    SetAnchor(IF anchor \in set THEN fallback ELSE anchor)

-----------------------------------------------------------------------------
(* Building.                                                               *)

\* Fault: the line of a step is inserted again by its first call.
NewStepAgain(o) ==
    /\ phase[o] = "new" /\ MayStart(o)
    /\ Insert(HeadOf(o))
    /\ UNCHANGED <<cleared, phase, point, failed, nodes>>

\* TaskEngine::step and space: one line, and nothing more to build.
NewStep(o) ==
    /\ phase[o] = "new" /\ MayStart(o)
    /\ Insert(HeadOf(o))
    /\ phase' = [phase EXCEPT ![o] = "live"]
    /\ UNCHANGED <<cleared, point, failed, nodes>>

\* TaskBuilder::start: the head first (create_head_renderer) ...
NewTask(o) ==
    /\ phase[o] = "new" /\ MayStart(o)
    /\ Insert(HeadOf(o))
    /\ point' = [point EXCEPT ![o] = HeadOf(o)]
    /\ phase' = [phase EXCEPT ![o] = "building"]
    /\ UNCHANGED <<cleared, failed, nodes>>

\* Fault: a child is inserted where the next head would be.
NewChildAtAnchor(o) ==
    /\ phase[o] = "building"
    /\ Entries(o) < MaxChildren
    /\ \E kind \in {"stage", "extra"} :
          /\ Insert(Fresh(o, kind))
          /\ point' = [point EXCEPT ![o] = Fresh(o, kind)]
    /\ UNCHANGED <<cleared, phase, failed, nodes>>

\* ... then a line per stage, group and spacer, each below the last ...
NewChild(o) ==
    /\ phase[o] = "building"
    /\ Entries(o) < MaxChildren
    /\ \E kind \in {"stage", "extra"} :
          /\ InsertAfter(point[o], Fresh(o, kind))
          /\ point' = [point EXCEPT ![o] = Fresh(o, kind)]
    /\ UNCHANGED <<cleared, phase, failed, nodes>>

\* ... and the anchor moves to the last of them.
FinishBuild(o) ==
    /\ phase[o] = "building"
    /\ SetAnchor(point[o])
    /\ phase' = [phase EXCEPT ![o] = "live"]
    /\ UNCHANGED <<lines, cleared, point, failed, nodes>>

-----------------------------------------------------------------------------
(* Failing and completing.                                                 *)

\* fail_insert on a line: a report goes right below it.
Report(o, line) ==
    /\ Count(o, "report") < MaxReports
    /\ InsertAfter(line, Fresh(o, "report"))

\* A stage fails and the task freezes; so does a step, or a task that has
\* neither stages nor extras, on its only line.
Fails(o) ==
    /\ phase[o] = "live" /\ MayStart(o)
    /\ \E l \in ToSet(lines) :
          /\ l.owner = o /\ l.kind \in {"head", "stage"}
          /\ l.kind = "head" => Entries(o) = 0 /\ ~failed[o]
          /\ Report(o, l)
    /\ failed' = [failed EXCEPT ![o] = TRUE]
    /\ UNCHANGED <<cleared, phase, point, nodes>>

\* Task::fail: every stage, if there are any, gets its report, one call
\* each ...
FailsAsAWhole(o) ==
    /\ bulkFail /\ phase[o] = "live" /\ ~failed[o] /\ MayStart(o)
    /\ Entries(o) > 0
    /\ phase' = [phase EXCEPT ![o] = "failing"]
    /\ UNCHANGED <<lines, cleared, anchor, point, failed, nodes>>

FailsNextStage(o) ==
    /\ phase[o] = "failing"
    /\ Count(o, "report") < Count(o, "stage")
    /\ \E l \in LinesOf(o, "stage") :
          /\ l.n = Count(o, "report") + 1
          /\ InsertAfter(l, Fresh(o, "report"))
    /\ failed' = [failed EXCEPT ![o] = TRUE]
    /\ UNCHANGED <<cleared, phase, point, nodes>>

\* ... then the head, which keeps its own ...
FailsHead(o) ==
    /\ phase[o] = "failing"
    /\ Count(o, "report") = Count(o, "stage")
    /\ nodes' = [nodes EXCEPT ![o] = ChildrenOf(o)]
    /\ InsertAfter(HeadOf(o), Fresh(o, "report"))
    /\ phase' = [phase EXCEPT ![o] = "clearing"]
    /\ failed' = [failed EXCEPT ![o] = TRUE]
    /\ UNCHANGED <<cleared, point>>

\* ... and what was below it, extras included, is cleared.
Clears(o) ==
    /\ phase[o] = "clearing"
    /\ cleared' = cleared \union nodes[o]
    /\ phase' = [phase EXCEPT ![o] = "tidying"]
    /\ UNCHANGED <<lines, anchor, point, failed, nodes>>

\* set_completed: the children are cleared.
Completes(o) ==
    /\ phase[o] = "live" /\ ~failed[o] /\ MayStart(o)
    /\ cleared' = cleared \union ChildrenOf(o)
    /\ nodes' = [nodes EXCEPT ![o] = ChildrenOf(o)]
    /\ phase' = [phase EXCEPT ![o] = "tidying"]
    /\ UNCHANGED <<lines, anchor, point, failed>>

\* The end of clear_children: an anchor among the cleared lines falls back
\* to the head.
Tidies(o) ==
    /\ phase[o] = "tidying"
    /\ UpdateAnchorIfIn(nodes[o], HeadOf(o))
    /\ phase' = [phase EXCEPT ![o] = "gone"]
    /\ UNCHANGED <<lines, cleared, point, failed, nodes>>

\* How the program uses the layout does not change while it runs.
Next ==
    /\ UNCHANGED useVars
    /\ \E o \in Owners :
        \/ NewStep(o) \/ NewTask(o) \/ NewChild(o) \/ FinishBuild(o)
        \/ Fails(o) \/ FailsAsAWhole(o) \/ FailsNextStage(o) \/ FailsHead(o)
        \/ Clears(o) \/ Completes(o) \/ Tidies(o)

Spec == Init /\ [][Next]_vars

-----------------------------------------------------------------------------
\* What is on the screen.
Visible(i) == lines[i] \notin cleared

\* Type correctness, each line placed once.
TypeOK ==
    /\ concurrent \in BOOLEAN /\ bulkFail \in BOOLEAN
    /\ lines \in Seq(Line) /\ IsInjective(lines)
    /\ cleared \subseteq ToSet(lines)
    /\ anchor \in ToSet(lines) \union {None}
    /\ phase \in [Owners -> Phases]
    /\ point \in [Owners -> Line]
    /\ failed \in [Owners -> BOOLEAN]
    /\ nodes \in [Owners -> SUBSET ToSet(lines)]

\* The visible lines of an owner are together, its head at the top: no
\* other line comes between a task and its subtasks or its error reports,
\* whoever builds, fails or completes what meanwhile, as long as no task
\* with stages, groups or spacers is failed as a whole (Task::fail): the
\* report of such a task stays below its head, where the next line goes.
Contiguous ==
    ~bulkFail => \A i, j \in DOMAIN lines :
        i < j /\ Visible(i) /\ Visible(j) /\ lines[i].owner = lines[j].owner =>
            /\ \A k \in i..j : Visible(k) => lines[k].owner = lines[i].owner
            /\ lines[j].kind # "head"

\* The anchor is on the screen, except while the owner of the line is
\* between clearing it and moving the anchor: the next head is never placed
\* by a line that nobody sees.
AnchorOnScreen ==
    anchor \in cleared => phase[anchor.owner] = "tidying"

\* Nothing is below the line where the next head goes, so what is built
\* later is shown lower, in a run where calls do not overlap and no task
\* with stages, groups or spacers is failed as a whole: that would leave
\* its report below the anchor, without any overlap.
NothingBelowAnchor ==
    ~concurrent /\ ~bulkFail /\ (\A o \in Owners : phase[o] \in {"new", "live", "gone"}) =>
        \A l \in ToSet(lines) \ cleared : Position(l) <= Position(anchor)
=============================================================================
