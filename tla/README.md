# knot-ops: TLA+ models and proofs

knot-ops is a local service orchestrator.  A command-line client, written in
Rust, finds or launches a per-workspace daemon (`knotd`), agrees with it on the
configuration of the workspace, and runs its services through it, showing their
progress in the terminal.  This directory holds TLA+ modules that model the Rust
side of it, TLC configurations that check them on small instances, and TLAPS
proofs of all their safety properties for every size of the instance.

Paths below are relative to `components/` unless they start otherwise.

## 1. Inventory

| Component | State | Operations | What makes it correct |
|---|---|---|---|
| **Process control**, `sdk/sys` (`process.rs`, `sys/{linux,macos,windows}.rs`) | a PID with the metadata read at bind time, a pidfd / process handle / nothing | `bind`, `bind_after_spawn`, `spawn_with_args`, `kill`, `terminate`, `wait`, permission and identity checks | a signal reaches only the process that was identified, whatever happens to its PID; "it is dead" is true; waits and retries end |
| **Daemon discovery and recovery**, `sdk/facade` (`builder.rs`, `handles/{offline,stale,kill}.rs`) | lock file with the PID, socket, the handle a client holds | `connect`, `kill`, `clean`, `launch` | recovery never runs into a live daemon, a failed launch leaves nothing behind, every call returns |
| **Workspace session**, `sdk/facade` (`guarded_client.rs`, `handles/{connected,uncommitted,control,task}.rs`) | the revision and the manifest a handle carries | `handshake`, `commit`, `discard`, `recheck`, `up`, `down`, `status`, `cancel` | revisions protect what a client decided against other clients, retries and late requests |
| **IPC listener and connector**, `sdk/grpc` (`incoming.rs`, `connector.rs`, `resolver.rs`) | socket or pipe name, acceptor task, bounded channel | `bind`, accept loop, `poll_next`, drop, `connect`, name resolution | connections are handed out in order, once, and never lost; a client gets the daemon of its directory; the task ends with the listener |
| **Task**, `shared/terminal` (`task.rs`, `task/{stage,builder}.rs`) | stages, groups and spacers, finished and failed ids, `is_finished`, lines on screen | `start`, `run/ok/fail/skip_by_id`, `run`, `ok`, `fail`, `skip` | the outcome is decided once and agrees with the lines; nothing is left spinning |
| **Task sequence**, `shared/terminal` (`sequence.rs`) | a task and a cursor | `ok`, `skip`, `fail`, `finish` | stages settle one after another, nothing moves after the end |
| **Task layout**, `shared/terminal` (`layout.rs`, `task/builder.rs`, `engine.rs`) | order of lines, anchor | insert, insert after, anchor updates; building, failing and completing a task | lines of a task stay together, new lines go to the bottom |
| **Line renderer**, `shared/terminal` (`renderer.rs`) | a progress bar or a transcript | `title`, `run`, `wait`, `skip`, `success`, `fail`, `fail_insert`, `separator`, `finish_silently`, `clear` | part of what tasks and steps show; templates, indents and durations are left out |
| **Engine, styles and steps**, `shared/terminal` (`engine.rs`, `step.rs`, `style.rs`, `error.rs`, `renderer/writer.rs`) | output mode, style; a step and its line | `new`, `with_*`, `step`, `run`, `ok`, `fail`, `skip`, printing of an error report | what is told of a step goes to one output, in order, in a style that fits it |
| Paths, constants (`sdk/core`), IPC stream (`sdk/grpc`) | none | pure functions, delegation | the runtime directory is part of `IpcIncoming`; the rest is not modelled |
| Client errors, `sdk/facade` (`errors.rs`) | none | conversions, hints | which error a call of a session returns is part of `Session` |
| Wire format (`sdk/proto`, `proto/knot/v1`) | none | generated code | not modelled; its contract is the daemon's side of `Session` |
| Daemon (`knotd`, Go) | – | a stub at this commit | modelled only as the environment of the client |

**How they interact.**  The client facade opens the daemon's process through
process control, looks at the files in the runtime directory, and connects to
the socket the daemon binds through the IPC listener.  Over that connection it
makes gRPC calls; the answers to `up` and `down` are streams of events that the
command-line client maps onto the operations of a task, whose lines are placed
by a layout shared by all threads.  There is no shared memory between client and
daemon: files, sockets, PIDs and messages are all they have.

**What is hard.**  PIDs are recycled between any two system calls.  Several
clients work on the same files without a lock of their own while a daemon
starts, hangs or crashes.  A call may fail on the client's side and still be
executed.  The acceptor task, the stream and the drop of the listener run
concurrently around a bounded channel.  Task operations arrive in any order and
also after the end.  Several threads insert lines below one anchor.  The list
of hazards, with the line where each bites, is in `PROJECT.json`.

## 2. Modules

```
ProcessControl       <- MCProcessControl, ProcessControlProofs
DaemonLifecycle      <- MCDaemonLifecycle, DaemonLifecycleProofs
Session              <- MCSession, SessionProofs
AcceptQueue (abstract)   implemented by IpcIncoming
IpcIncoming          <- MCIpcIncoming, IpcIncomingProofs
TaskRenderer (operators) <- TaskOps (operators) <- TaskOpsProofs (lemmas)
                              <- TerminalTask <- TaskSequence
                         <- TerminalEngine
StageChain (abstract)    implemented by TaskSequence
TaskSequence         <- MCTaskSequence, TaskSequenceProofs (with TaskOpsProofs)
TerminalEngine       <- MCTerminalEngine, TerminalEngineProofs
TaskLayout           <- MCTaskLayout, TaskLayoutProofs
```

The `MC` modules give the constants model values and symmetry sets, nothing
else.  Operators whose comment begins with "Fault" are not used by any
specification; they are changed versions of the definition they stand before,
and each property is known to fail when one of them takes its place.

### ProcessControl

One client, the operating system's process table, and the three implementations
of the trait `ProcessControl`.  An *instance* is one life of a process, a PID
names at most one instance at a time.  `platform` is chosen once, like the
build: `ref` is what a pidfd or a Windows handle refers to, `fp` the fingerprint
a macOS handle is limited to.  What differs between the platforms has a
definition for each: opening a handle (`OpenPidfd`, `OpenHandle`,
`KeepFingerprint`), the permission and identity checks (`SignalZero`,
`CheckPidfd`, `CheckFingerprint`, `CheckHandle`), the signal itself
(`SignalPidfd`, `SignalPid`, `TerminateProcess`) and the wait (`WaitPidfd`,
`WaitForSingleObject`, and `WaitPoll` on macOS).  On Windows a `TerminateProcess`
that fails, for a reason of its own or because the process has exited, is
followed by a second system call (`IsProcessExited`), between which the process
may still exit.  What the operating system can refuse is refused at any time:
the spawn (`SpawnFails`), a look at the process table (`ReadFails`), the handle,
the exit code, the wait (`WaitFails`).  Each system call or look at
the process table is a step, and between any two of them processes start, exit,
are reaped, or get their final name by `exec`.  `target` and `signalled` are
history variables: the instance whose metadata was read last, and the instances
a signal was delivered to.  The process name is a model value, and `Expected`
the set of names `process_names_match` accepts.  `FastReuse` names the platforms
that may hand out a PID twice within the one-second resolution of start times,
`LooksActive` the instances that exit with code 259, which Windows reports for a
process that is still active.

### DaemonLifecycle

Clients and daemons on one runtime directory, on Unix.  Every look at a file and
every change of one is a step.  `cpc` is the handle a client holds or the step
of the call it is in; `lock` is the lock file, with the daemon that has it locked
and the PID written in it; `socket` the daemon behind the socket path.  A process
handle refers to one daemon for good and is told the truth about its death: that
is what `ProcessControl` shows.  `launch` has a step for the spawn and one for
the bind to the child (`BindChild`).

`Faults` says what may go wrong in a run.  `crash` and `wedge` are the daemon's:
it dies and leaves its files, or hangs.  `io` is what a client is told: an
operation fails, and its error is returned; a connection attempt that fails for
whatever reason belongs here, too, though the code takes it for a daemon that
hangs.  `look` is what a client is not told: `exists()` is false on any error,
and a lock file that cannot be read has no PID, so that what cannot be seen is
taken for absent.  `client` is a client that dies in a call, `bind` a
`bind_after_spawn` that gives up on a live child, `spare` a kill of the child
that fails, which `launch` ignores.  With `name` a client expects another process
name than the daemon has, as a builder with `with_daemon_path` alone does: the
daemon is then taken for stale while it lives.

The daemon's own steps (lock, write the PID, bind, exit, hang, die) are external,
written from what the client expects and from `docs/adr/0007`.

### Session

Clients of one daemon, each with at most one call under way.  A call sends one
request; it is answered, or it fails on the client's side, and then the request
may become a *stray* that the daemon executes at any later moment, or never.
`expected` and `manifest` are the fields of the handles, `rejected` says whether
the last call returned `WrongRevision` (`ErrorOf`: only the status Aborted is).
Deadlines (`TimeoutPolicy`) are not modelled: any call may fail at any time.  Nor
is it modelled which task a `TaskHandle` belongs to: a client may cancel while it
has a `ControlHandle`.  Of the requests that are executed late, commits and ups
are kept, the only ones on which a later state depends.  A daemon of another
version (`skew`) answers a handshake with a state the client does not know,
accepts a task without naming it in `x-task-id`, or returns an unknown code for
a cancellation.  The daemon's side is
external, written from `proto/knot/v1`: a commit of what is committed already
is a no-op, any other needs the current revision, and so does `up`.  The daemon is
assumed never to generate a revision twice, not even after a restart that loses
its registry: the client compares revisions and has nothing else to go by.

### AcceptQueue and IpcIncoming

`AcceptQueue` is what a listener promises: a queue of connections, served in
order, none given up while the listener is open.  A failed accept puts an error
into the queue, wherever accepting is at that moment (`Fail`), and the server is
given it in its turn: `served` holds errors as well as connections.  `IpcIncoming` has the names
of sockets and pipes, the kernel's backlog, the acceptor task with the connection it is sending, and
the bounded channel, for two listeners bound to one path one after another, or
to two.  `setting` says on which platform, and which runtime directory each
listener and each client looks at; a directory may be too long for a socket.
`Waiting(l)` maps channel, held connection and backlog to the abstract queue.
A drop requests the abort of the task, which takes effect at its next await.
`bind` is one step, from the removal of an old socket to the permissions of the
new one; when it fails the old socket may be gone, or still there if its removal
failed.

### TaskRenderer, TaskOps, TerminalTask, StageChain and TaskSequence

`TaskRenderer` has each method of a line as an operator: what the line shows
then, whether its bar is finished and on the screen, and whether an error report
stands below it.  In plain mode the line is a transcript, so that nothing
disappears.  `TaskOps` has each method of `Task` as an operator from a task to a
task, built from these; a task has stages and may have a group and a spacer.  A bulk
method is a loop over the ids collected before it (`StageIds`), written as a
recursive function of the rounds made (`Each`).
`announced` is a history of what the root line has announced.  `TerminalTask`
calls the methods in any order, on any stage, unknown ids included, and also
after the end.  `TaskSequence` extends it: what the caller holds is either a
task or a sequence, which drives a task with its cursor, and implements
`StageChain`, which knows nothing of ids, sets and cursors: only what the lines
(`ChainRow`) and the root line (`ChainOutcome`) show.

### TerminalEngine

An engine (mode and style), the calls that change it, and the steps made with
it, which belong to threads of their own and keep what the engine had when they
were made.  `out` is what each plain output has been given, line by line; an
error report is several lines (`ReportText`), printed one at a time, so that the
lines of others come in between (how many lines each part of a report takes is a
detail no property depends on).  `Story` is what one output says about one step.
The mode `"interactive"` is no output, which `EngineAssumption` says.

### TaskLayout

`lines` is the order of the lines; a cleared line keeps its place but is not
seen, and `Contiguous` is about what is seen.  A task has stages, which may get
reports, and extras (groups and spacers), which do not.  Each method of the
layout is a step, because each takes the anchor's mutex, and building, failing or
completing a task is several of them: a task that fails as a whole gets a report
per stage, then one below its head (`FailsHead`), then its children are cleared
(`Clears`) and the anchor falls back (`Tidies`).  `concurrent` and `bulkFail` are
chosen once: whether the program does these from several threads at a time, and
whether it fails tasks that have stages, groups or spacers as a whole.  A task
that has none of these fails on its only line (`Fails`) in every program.

## 3. Runs

All runs allow deadlock: the bounded supply of PIDs, daemons, connections,
revisions and stages ends, and a client, a daemon or a caller may really stop.

| Run | Instance | Shows |
|---|---|---|
| `process` | 3 instances, 1 PID, 3 names (the daemon's, another user's, any other), clock 0..2, timeouts 0 and 1, 2 attempts; PIDs recycled within a second on Windows, where one instance exits with code 259 | `TypeOK`; `SignalledVerified`, `SignalledIsTarget`: who is signalled; `NoFalseObituary`: what is reported as dead; `KillReachesTarget`: a kill without an error reached its process; `DeadHandleNeverSignals`; `OperationReturns` |
| `process_macos` | the same, macOS, clock 0..1 | violates `UnrelatedIsSpared` (finding) |
| `lifecycle_turns` | 2 clients that take turns, 3 daemons, 2 connection attempts, with and without SIGTERM; crashes, hangs, I/O errors (`io`) | `TypeOK`, `OneLiveDaemon`, `StaleMeansDead`, `FilesTakenFromTheDead` |
| `lifecycle_concurrent` | 2 clients without coordination, 2 daemons; crashes, hangs, failed looks, dying clients, kills of the child that fail, unexpected process names | `KilledIsDead`, `CallsReturn` |
| `lifecycle_stale` | the same, no faults | violates `StaleMeansDead` (finding) |
| `lifecycle_unreadable` | turns, failed looks | violates `StaleMeansDead` (finding) |
| `lifecycle_orphan` | turns, a failing bind to the child | violates `FailedLaunchLeavesNoDaemon` (finding) |
| `session` | 2 clients with handshake, commit, discard, recheck, up, down and cancel (status goes the way of down), 2 manifests, revisions 0..2, 1 stray, lost calls, a restart, answers of another version | `TypeOK`, `ReadyMeansInSync`, `UpRunsWhatWasSeen`, `CommitAppliedOnce`, `OutdatedChangesNothing`: a handle that is told to be outdated is, for good, and has no effect any more |
| `incoming` | 2 listeners, 3 connections, buffer 1, backlog 2, 1 accept error; on Unix in one directory, in two, and in one where no socket can be; on Windows in two | `TypeOK`, `ListenersKeepPromise` (refines `AcceptQueue`), `ReachesTheDaemonMeant`, `ConnectionsAnswered`, `DropEndsTask` |
| `task` | tasks and sequences of 0 to 4 stages with and without a group and a spacer, in both modes, every subset started at once | `SeqTypeOK`, `OpenTaskHasWorkLeft`, `FailureShowsReport`, `NothingSpinsAfterTheEnd`, `AnnouncedOnce`, `OutcomeFollowsRows`, `KeepsTheChain` (refines `StageChain`) |
| `engine` | 2 steps, 1 writer beside stdout, 1 run each, 2 changes of the engine, reports of 3 and of 4 lines | `TypeOK`, `StoryInOrder`, `StyleFitsOutput` |
| `layout` | 3 owners, 2 stages or extras, 2 reports each; one at a time and concurrently, with and without tasks failed as a whole | `TypeOK`, `Contiguous`, `AnchorOnScreen`, `NothingBelowAnchor` |

**Why the bounds are enough to be interesting.**  A wrong signal needs the
daemon, and a second process on its PID: the third instance lets the PID be
recycled twice, so that a namesake can come back.  One PID makes every start a
reuse.  Two attempts stand for 20, and two connection attempts for 40: the code
counts down and does nothing else with the number.  Three daemons let one be
dead, one be cleaned up after by mistake and one be launched beside it.  Two
revisions let a client commit on what another has just replaced, and a restart
take the place of either.  A buffer of 1 is full after one connection, with one
more held by the task and two in the backlog.  Two listeners and two directories let
one take a path from the other and leave a third client elsewhere.  Four stages
let a task have a settled, a failed, a running and an untouched one, and a
sequence stages before, at and after its cursor.  Two steps are enough to
interleave, and two changes of the engine to undo or override one another.
Three owners let one be built between two others.

**Symmetry** is declared for clients, daemons, manifests, steps and owners in runs that
check safety only: no definition or property of these modules names one of them.
The runs with liveness properties have none.

**Fairness.**  `ProcessControl`: weak fairness of the steps of a bind and of an
operation, because tokio polls a future whose waker fired and its timers expire;
none of the environment, so that a process may live forever.  `DaemonLifecycle`:
weak fairness of the steps of a call, for the same reason; a daemon may hang,
ignore SIGTERM and even outlive SIGKILL for as long as it likes.  `IpcIncoming`:
the runtime polls a task that can make progress, and the server polls the stream
it holds, as tonic's `serve_with_incoming` does.

## 4. Proofs

Every invariant, action property and refinement that a passing run checks is also proved,
for every number of processes, clients, daemons, revisions, connections, stages,
steps and lines, and every bound on them.  What is left to TLC alone is liveness.

| Module | Theorem | Statement |
|---|---|---|
| `ProcessControlProofs` | `TypeCorrect` | `TypeOK`; on Linux and Windows a bound handle refers to an instance |
| | `SignalsReachOnlyTheDaemon` | `SignalledVerified`: with a pidfd or a process handle no signal reaches a process without the daemon's name, however fast PIDs are recycled |
| | `SignalsReachOnlyTheTarget` | `SignalledIsTarget`: it reaches no other instance than the one that was identified |
| | `ObituariesAreTrue` | `NoFalseObituary`: what is reported as dead is dead |
| | `KillsReachTheirTarget` | `KillReachesTarget`: a kill or terminate that returns without an error has signalled the process of its handle or found it dead; a `TerminateProcess` that failed is taken for success only if the process has exited |
| | `DeadHandlesAreHarmless` | `DeadHandleNeverSignals`, if macOS does not recycle a PID within a second: an operation begun on a handle whose process is gone signals nobody, and no later one does |
| `DaemonLifecycleProofs` | `TypeCorrect`, `KilledDaemonsAreDead` | `TypeOK`, `KilledIsDead`, with all faults and without any coordination of clients |
| | `OneDaemonAtATime`, `StaleIsTrue`, `FilesStayWithTheLiving` | `OneLiveDaemon`, `StaleMeansDead`, `FilesTakenFromTheDead`, under `TakeTurns` (below) |
| `SessionProofs` | `TypeCorrect`, `ReadyHandlesAreInSync`, `UpRunsWhatItsCallerSaw`, `CommitsAreAppliedOnce`, `OutdatedHandlesAreDone` | `TypeOK`, `ReadyMeansInSync`, `UpRunsWhatWasSeen`, `CommitAppliedOnce`, `OutdatedChangesNothing` |
| `IpcIncomingProofs` | `TypeCorrect`, `ClientsReachTheirDaemon` | `TypeOK`, `ReachesTheDaemonMeant` |
| | `ListenersAreQueues` | `ListenersKeepPromise`: each listener implements `AcceptQueue` |
| `TaskSequenceProofs` | `TypeCorrect`, `WorkIsLeft`, `FailureIsReported`, `NothingSpins`, `AnnouncedAtMostOnce`, `OutcomeIsJustified` | `SeqTypeOK`, `OpenTaskHasWorkLeft`, `FailureShowsReport`, `NothingSpinsAfterTheEnd`, `AnnouncedOnce`, `OutcomeFollowsRows`, of tasks and sequences |
| | `SequenceIsAChain` | `KeepsTheChain`: a sequence implements `StageChain` |
| `TerminalEngineProofs` | `TypeCorrect`, `StoriesAreToldInOrder`, `StylesFitOutputs` | `TypeOK`, `StoryInOrder`, `StyleFitsOutput` |
| `TaskLayoutProofs` | `TypeCorrect`, `BlocksStayTogether`, `AnchorStaysOnScreen`, `NewLinesGoToTheBottom` | `TypeOK`, `Contiguous`, `AnchorOnScreen`, `NothingBelowAnchor` |
| all but `TaskOpsProofs` | `Inductive`, `InductiveInTurns` | the inductive invariants on which the others rest |

**Assumptions.**  Each module assumes of its constants what its `ASSUME` says.
Beyond that, three theorems about daemons have the hypothesis `TakeTurns`: clients
coordinate (`Serialized`), none dies within a call, their looks at the runtime
directory do not fail, binding to a live child and killing it do not fail, and the
daemon has the name its client expects; crashes and hangs of daemons and errors
that are reported to the client are allowed.  The code guarantees none of this: it
has no lock of its own, so that taking turns is up to whoever runs several
clients, and without each of the other conditions it breaks the properties.  A
starting daemon can be taken for stale by a client that does not take turns, as
`lifecycle_stale` shows, and a hanging one by a client that fails to read the lock
file, as `lifecycle_unreadable` shows; its files are then removed and a second one
is launched.  `DeadHandlesAreHarmless` needs that macOS does not hand out one PID
twice within a second, because a fingerprint is all a macOS handle has; for
pidfds and process handles there is no such condition.  `Contiguous` and
`NothingBelowAnchor` exclude programs that fail tasks with stages, groups or
spacers as a whole (section 5), the latter also those whose calls overlap.

**Processes.**  That a signal reaches the right process depends on what was true
when the handle was opened, two or more steps before, and the process may be
gone since.  The invariant says what each step leaves behind: PID and start time
identify an instance (`PidUnique`, `BirthUnique`); from the first read on the
fingerprint is that of `target` (`SeenInv`); the instance a handle refers to held
the PID after the first read, and once bound it is the target or gone
(`HandleInv`); whoever was signalled is the target (`SignalInv`); the process seen
by an earlier attempt has exited (`ObituaryInv`).  `Aged` collects what the
operating system never undoes, and every step of the environment ages every
instance (`EnvironmentAges`).  That a dead handle stays harmless is a second
invariant, `Harmless(sent)`, which holds from the call on: on macOS the operation
does not get past its first look at the process table, elsewhere it does, and
addresses nobody.

**Daemons.**  `KilledIsDead` is preserved together with `TypeOK` and with three
facts about who has left a trace, who is bound, and how many attempts are left.
The invariant of clients that take turns, `SerialInv`, is about knowledge: a live
daemon has left every trace of its progress, and unless it serves somebody waits
for it (`LiveInv`); at most one lives (`SingleInv`); and what a client has seen of
the files tells it, at each step of its call, that nobody lives or that the one
who does is the one it holds (`KnownInv`), a child that is being bound included
(`Launching`).  That is what makes it safe to remove
files by path.  The steps share three lemmas: `MoveInv` and `MoveSerial` for a
client that changes only its own place, `DecideInv` for one that only decides.

**Sessions.**  `ReadyMeansInSync` and `UpRunsWhatWasSeen` look at one moment; the
invariant follows requests through their whole life.  `Sound(q)`: a request, also
one left behind by a caller that gave up, vouches for what was committed at the
revision it carries.  `Truthful(q, a)`: an answer names such a revision, or was
given to a request of the past.  `OnHandle(c, q)`: a call was made on the handle
its client still holds.  Because the history of a daemon only grows, what was
sound or true stays so (`SoundStaysSound`, `TruthStaysTrue`).  A session commits
at most once because, after its first commit, all its other ones carry a revision
of the past (`AppliedInv`).  That an outdated handle is done for rests on the
same: what it has under way, and what its caller left behind, carries its own
revision or an older one (`LateInv`).

**Listeners.**  `Given(l)`, what a listener has received in whatever place, is the
invariant behind `ReachesTheDaemonMeant`.  The refinement has a lemma for each
action (`BindKeeps`, `AcceptKeeps`, ...): `Accept` and `Send` move an item from
backlog to hand and from hand to channel, which leaves the concatenation
`Waiting(l)` as it is; an accept error enters it between the channel and the
backlog; a drop takes away the part in the channel and leaves the rest to the
task, which gives it up when it stops.

**Tasks and sequences.**  `TaskOpsProofs` has only lemmas, about the operators of
`TaskOps`.  A task is of one of four kinds: `Open`, `Completed`, `Frozen` by a
failed stage, `Abandoned` as a whole.  A kind says everything about sets, lines,
root line and announcements, so that it is preserved where the properties alone
are not.  For each method there is a lemma for each kind it may be called on
(`RunsOpen`, `SettlesOpen`, `FailsOpen`, `RedrawsFrozen`, ...); bulk methods are
loops.  Induction is out of the provers' reach, so that what a loop computes is
shown with the least round at which its invariant would break (`LeastOne`,
`LastRound`, `RoundsExist`).  `TaskSequenceProofs` adds where the cursor is
(`CursorInv`): what is before it is settled, what is after it waits.  It then
shows each step of a sequence to be a step of the chain.

**Engine.**  `StoryInOrder` is about a filtered log, `About`, a recursive function.
`AboutAppend` says what one more line does to each story, again by a least
counterexample; `StoryInv` says what has been told of a step in every state, and
for one in the middle of its report that what is told and what is still to be
printed make up the whole report.

**Layout.**  `Placed(p, new)` is what inserting does to the order of lines, the
only thing the rest has to know of `InsertAt` and `SelectInSeq`.  Three invariants
build on each other: `BaseInv` for all programs, `BlocksInv` for those that do not
fail tasks as a whole, `SequentialInv` for those that also make one call at a
time.  `BlocksInv` says more than `Contiguous`, that the anchor and the insertion
point of a task being built are never inside the lines of a task: only then does
the next insertion keep them together.

**Only model-checked**: liveness (`OperationReturns`, `CallsReturn`,
`ConnectionsAnswered`, `DropEndsTask`), which needs fairness and
`ENABLED` and is beyond the prover.

## 5. Where code and documentation disagree

Checked by a run:

- `process_macos`: on macOS the identity check and `kill(2)` are two system
  calls; the PID can be recycled between them (`sdk/sys/src/sys/macos.rs:137`).
- `lifecycle_stale`: a daemon that is starting is reported as stale
  (`sdk/facade/src/builder.rs:71`).
- `lifecycle_unreadable`: a lock file that cannot be read, or looked at, is taken
  for an empty or missing one, and its live daemon for a stale one
  (`sdk/facade/src/builder.rs:71`, `114-125`, `208-211`).
- `lifecycle_orphan`: if the bind to the child fails, the child of a failed
  launch keeps running (`sdk/facade/src/handles/offline.rs:33`).

Noticed while modelling, and left out of the properties, which say what does
hold:

- `sdk/sys/src/sys/windows.rs:197`: a timeout clamped to `u32::MAX` is
  `INFINITE`.  The runs use timeouts below the clamp.  On macOS
  (`macos.rs:194`) a timeout that overflows the clock panics.
- `sdk/sys/src/sys/windows.rs:68`: a process that exits with code 259 counts as
  active, and killing it again is an error (`LooksActive`).
- `sdk/sys/src/utils.rs:31`: on Windows the name of the process found at a PID is
  split four bytes before its end, which panics inside a multi-byte character.
- `sdk/facade/src/builder.rs:35`: a builder with another binary and the default
  expected name takes its own live daemon for stale, and `clean` removes its
  files.  `StaleMeansDead` does not hold with the fault `name`, only
  `KilledIsDead` does.
- `sdk/facade/src/builder.rs:106`: any error of the connection attempt makes a
  healthy daemon look hung; the client gets a `KillHandle` and may kill it.
- `sdk/facade/src/handles/offline.rs:58`: the result of the kill of a child that
  did not come up is ignored; if the kill fails, the child lives on (`spare`).
- `sdk/facade/src/guarded_client.rs:64`: a task that was accepted without the
  header `x-task-id` is an error for the caller, runs all the same, and cannot be
  cancelled.
- `sdk/facade/src/errors.rs:105`: the hint of `WrongRevision` is to execute the
  command again.  That is right for the command line, which starts with a
  handshake.  On the same handle it changes nothing any more
  (`OutdatedChangesNothing`); a commit is answered Ok if somebody else has
  committed the same manifest meanwhile, everything else is rejected again.
- `sdk/grpc/src/incoming.rs:74`: a `buffer_size` of 0 panics;
  `IncomingAssumption` excludes it.
- `sdk/facade/src/handles/offline.rs:46`: `launch` makes no health check, a
  connection is all it waits for.
- `sdk/facade/src/handles/connected.rs:113`: `handshake` accepts `Unregistered`,
  which its documentation lists as an error.  The model accepts it, too.
- `sdk/grpc/src/incoming.rs:56`: a second `bind` takes the path from a live
  listener instead of failing, which a comment in the tests asks for
  (`incoming.rs:188`).  `IpcIncoming` has both listeners open at once.
- `shared/terminal/src/task.rs:155`: the by-id operations return `false` for a
  stage they did update once the task is finished.
- `shared/terminal/src/sequence.rs:141`: with stages left, `finish` shows
  "success" and not the message it was given, because the last skip completes
  the task first.  Messages are not modelled.
- `shared/terminal/src/task.rs:137`: after `Task::fail` on a task with stages, or
  with only a group or a spacer, the anchor falls back to its head, above its
  report: the next task is placed between the two, without any overlap of calls.
  `Contiguous` and `NothingBelowAnchor` exclude programs that do this
  (`bulkFail`).
- `shared/terminal/src/task.rs:331`: a task with stages that is failed as a whole
  announces its failure twice, first without its report; in plain mode both lines
  are printed.  `AnnouncedOnce` names the case.

## 6. Not modelled

- the daemon beyond what the client expects of it: it is a stub;
- the event streams of `up` and `down`, which the client passes through unread
  (`TaskHandle::poll_next` delegates), and the IPC stream, which delegates every
  read and write to `interprocess`;
- the comparison of process names character by character, the paths of binaries,
  and the formatting of durations, styles and error reports: pure functions.
  `TimestampUtils` (`sdk/core/src/utils.rs`) is used nowhere;
- deadlines: `TimeoutPolicy` gives `status` one always, `handshake`, `commit`, `up`
  and `down` with `long_streams`, `cancel` never.  Without one a daemon that hangs
  keeps its caller waiting;
- `DaemonLifecycle` on Windows, where pipes take the place of socket files;
- the contexts and hints of errors, which are texts.

## 7. Plan

Built: the modules above, and proofs of all their safety properties.  What would
come next:

1. Proofs: lemmas that several modules state for themselves (on sequences, on the
   least element of a set of numbers) once, in a module of their own.
2. `DaemonLifecycle`: a weaker hypothesis than `TakeTurns` for each theorem, a
   client that crashes between two calls for example, and the abstract promise of
   a runtime directory that the files of a daemon are only ever its own.
3. `Session`: the daemon's register of revisions as an abstract specification that
   clients, requests and strays implement.
4. The wire format and the daemon, once it is more than a stub.
