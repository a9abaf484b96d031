--------------------------- MODULE ProcessControl ---------------------------
(***************************************************************************)
(* Process control of knot_sys: binding a handle to an operating-system    *)
(* process that is known by its PID, and signalling and awaiting it        *)
(* through that handle while the operating system recycles PIDs.           *)
(*                                                                         *)
(* One client owns one PlatformProcess<T>.  The three implementations of   *)
(* the trait ProcessControl differ in what T holds:                        *)
(*   linux    a pidfd, a kernel reference to one process instance;         *)
(*   windows  an owned process handle, which also keeps the PID taken;     *)
(*   macos    nothing but the metadata read at bind time (fingerprint).    *)
(* An "instance" is one life of a process; a PID names at most one         *)
(* instance at a time and is free again once that instance is reaped.      *)
(***************************************************************************)
EXTENDS Naturals

CONSTANTS
  Platforms,      \* the implementations of ProcessControl to look at
  FastReuse,      \* those where a PID may be recycled within one second
  Instances,      \* process instances the operating system may create
  Pids,           \* process identifiers
  Names,          \* process names
  Expected,       \* the names process_names_match accepts for the daemon
  Foreign,        \* names of processes this user may not signal
  MaxTick,        \* bound: last second of the clock start times are read from
  Timeouts,       \* bound: wait timeouts the caller passes, in poll periods
  U32Max,         \* u32::MAX, which is also Windows' INFINITE, scaled
  MaxAttempts,    \* attempts of bind_after_spawn
  LooksActive,    \* instances that exit with code 259, Windows' STILL_ACTIVE
  None            \* "no process"

ASSUME ProcessAssumption ==
  /\ Platforms \subseteq {"linux", "macos", "windows"}
  /\ FastReuse \subseteq Platforms
  /\ Pids # {} /\ Names # {}
  /\ Expected \subseteq Names
  /\ Foreign \subseteq Names
  /\ Foreign \cap Expected = {}
  /\ MaxTick \in Nat
  /\ Timeouts \subseteq Nat
  /\ U32Max \in Nat
  /\ MaxAttempts \in Nat \ {0}
  /\ LooksActive \subseteq Instances
  /\ None \notin Instances

VARIABLES
  platform,   \* the implementation the client is built with
  tick,       \* the clock, in seconds, that start times are taken from
  status,     \* life of an instance: unborn, running, zombie, gone
  pid,        \* PID of an instance (meaningless while unborn)
  name,       \* name the operating system reports for an instance
  start,      \* start time of an instance
  pc,         \* where the client is
  reqPid,     \* the PID being bound (from a lock file, or of the child)
  attempts,   \* attempts left of bind / bind_after_spawn
  fp,         \* the metadata of the first read, later the handle's own
  ref,        \* the instance the pidfd / process handle refers to
  target,     \* history: the instance whose metadata was read last
  op,         \* the operation under way: kill, terminate or wait
  remaining,  \* poll periods left before its deadline
  result,     \* what the last bind or operation returned
  signalled   \* history: instances a SIGTERM or SIGKILL was delivered to

osVars     == <<platform, tick, status, pid, name, start>>
handleVars == <<reqPid, attempts, fp, ref, target>>
callVars   == <<op, remaining>>
vars       == <<osVars, handleVars, callVars, pc, result, signalled>>

Statuses  == {"unborn", "running", "zombie", "gone"}
BoundPcs  == {"bound", "check", "checkSend", "signal", "send", "query", "wait"}
Errors    == {"NotRunning", "Mismatch", "Reused", "Io"}
Results   == Errors \cup {"none", "ok", "exited", "timeout"}
Metadata  == [pid : Pids, name : Names, start : 0..MaxTick]

(* A zombie has exited but keeps its PID until its parent reaps it; on     *)
(* Windows, until the last open handle is closed.                          *)
HoldsPid(i) == status[i] \in {"running", "zombie"}
Holders(p)  == {i \in Instances : HoldsPid(i) /\ pid[i] = p}

(* ProcessMetadata::extract: a point-in-time look at the process table.    *)
(* Exited processes are not listed on Windows.                             *)
Listed(p) == {i \in Holders(p) : status[i] = "running" \/ platform # "windows"}
MetadataOf(i) == [pid |-> pid[i], name |-> name[i], start |-> start[i]]

-----------------------------------------------------------------------------
(* The operating system.                                                   *)

(* A free PID.  Linux and macOS count PIDs upwards, so that one is not     *)
(* handed out twice within a second; Windows may do so (FastReuse).        *)
PidFree(p) ==
  /\ Holders(p) = {}
  /\ platform \in FastReuse \/ \A i \in Instances :
                                  status[i] # "unborn" /\ pid[i] = p => start[i] < tick

Create(i, p, n) ==
  /\ status[i] = "unborn"
  /\ PidFree(p)
  /\ status' = [status EXCEPT ![i] = "running"]
  /\ pid'    = [pid EXCEPT ![i] = p]
  /\ name'   = [name EXCEPT ![i] = n]
  /\ start'  = [start EXCEPT ![i] = tick]
  /\ UNCHANGED <<platform, tick>>

Tick ==
  /\ tick < MaxTick
  /\ tick' = tick + 1
  /\ UNCHANGED <<platform, status, pid, name, start, handleVars, callVars, pc, result, signalled>>

StartProcess(i) ==
  /\ \E p \in Pids, n \in Names : Create(i, p, n)
  /\ UNCHANGED <<handleVars, callVars, pc, result, signalled>>

Exit(i) ==
  /\ status[i] = "running"
  /\ status' = [status EXCEPT ![i] = "zombie"]
  /\ UNCHANGED <<platform, tick, pid, name, start, handleVars, callVars, pc, result, signalled>>

(* The parent collects the exit status: the detached task of               *)
(* spawn_with_args for a child, init for anybody else.                     *)
Reap(i) ==
  /\ status[i] = "zombie"
  /\ platform = "windows" => ref # i
  /\ status' = [status EXCEPT ![i] = "gone"]
  /\ UNCHANGED <<platform, tick, pid, name, start, handleVars, callVars, pc, result, signalled>>

(* The child of spawn_with_args shows up under its final name: until then  *)
(* it may be listed under the name of the image it was forked from.        *)
Exec(i, n) ==
  /\ status[i] = "running"
  /\ name[i] \notin Expected
  /\ n \in Expected
  /\ name' = [name EXCEPT ![i] = n]
  /\ UNCHANGED <<platform, tick, status, pid, start, handleVars, callVars, pc, result, signalled>>

-----------------------------------------------------------------------------
(* Binding.                                                                *)

(* PlatformProcess::bind(pid): one attempt.                                *)
Bind(p) ==
  /\ pc = "idle"
  /\ pc' = "read"
  /\ reqPid' = p
  /\ attempts' = 1
  /\ UNCHANGED <<osVars, fp, ref, target, callVars, result, signalled>>

(* PlatformProcess::spawn_with_args: create the child, then                *)
(* bind_after_spawn with its PID and the binary's file name.               *)
Spawn(i) ==
  /\ pc = "idle"
  /\ \E p \in Pids, n \in Names :
       /\ Create(i, p, n)
       /\ reqPid' = p
  /\ pc' = "read"
  /\ attempts' = MaxAttempts
  /\ UNCHANGED <<fp, ref, target, callVars, result, signalled>>

(* spawn_with_args without a child: the path has no file name, or the      *)
(* binary cannot be executed.  (A child whose PID cannot be told is one    *)
(* that StartProcess starts.)                                              *)
SpawnFails ==
  /\ pc = "idle"
  /\ pc' = "failed"
  /\ result' = "Io"
  /\ UNCHANGED <<osVars, handleVars, callVars, signalled>>

(* Fault: the attempt counter of bind_after_spawn is not tested.           *)
BindFailsUnbounded(e) ==
  /\ ref' = None
  /\ \/ /\ e \in {"NotRunning", "Mismatch"}
        /\ attempts' = attempts - 1
        /\ pc' = "read"
        /\ result' = "none"
     \/ /\ e \notin {"NotRunning", "Mismatch"}
        /\ attempts' = 0
        /\ pc' = "failed"
        /\ result' = e
  /\ UNCHANGED <<osVars, reqPid, fp, callVars, signalled>>

(* An attempt to bind fails and the platform handle, if any, is dropped.   *)
(* bind_after_spawn tries again after NotRunning and Mismatch only.        *)
BindFails(e) ==
  /\ ref' = None
  /\ \/ /\ e \in {"NotRunning", "Mismatch"}
        /\ attempts > 1
        /\ attempts' = attempts - 1
        /\ pc' = "read"
        /\ result' = "none"
     \/ /\ e \notin {"NotRunning", "Mismatch"} \/ attempts = 1
        /\ attempts' = 0
        /\ pc' = "failed"
        /\ result' = e
  /\ UNCHANGED <<osVars, reqPid, fp, callVars, signalled>>

(* spawn_extract_metadata: the look at the process table itself fails, in  *)
(* the first or the second read.                                           *)
ReadFails == pc \in {"read", "verify"} /\ BindFails("Io") /\ UNCHANGED target

(* bind, first read: the metadata is extracted and its name compared.      *)
BindRead ==
  /\ pc = "read"
  /\ \/ /\ Listed(reqPid) = {}
        /\ BindFails("NotRunning")
        /\ UNCHANGED target
     \/ \E i \in Listed(reqPid) :
          /\ name[i] \notin Expected
          /\ BindFails("Mismatch")
          /\ UNCHANGED target
     \/ \E i \in Listed(reqPid) :
          /\ name[i] \in Expected
          /\ fp' = MetadataOf(i)
          /\ target' = i
          /\ pc' = "open"
          /\ UNCHANGED <<osVars, reqPid, attempts, ref, callVars, result, signalled>>

Opened(i) ==
  /\ ref' = i
  /\ pc' = "verify"
  /\ UNCHANGED <<osVars, reqPid, attempts, fp, target, callVars, result, signalled>>

(* The operating system has no handle to give: descriptors have run out,   *)
(* or OpenProcess denies the access.                                       *)
OpenFails(e) == BindFails(e) /\ UNCHANGED target

(* bind of linux: pidfd_open, and the registration with AsyncFd.           *)
OpenPidfd ==
  /\ pc = "open" /\ platform = "linux"
  /\ \/ Holders(reqPid) = {} /\ OpenFails("NotRunning")
     \/ \E i \in Holders(reqPid) : Opened(i)
     \/ OpenFails("Io")

(* bind of windows: OpenProcess.                                           *)
OpenHandle ==
  /\ pc = "open" /\ platform = "windows"
  /\ \/ Holders(reqPid) = {} /\ OpenFails("NotRunning")
     \/ \E i \in Holders(reqPid) : name[i] \notin Foreign /\ Opened(i)
     \/ OpenFails("Io")

(* bind of macos only keeps the metadata.                                  *)
KeepFingerprint ==
  pc = "open" /\ platform = "macos" /\ Opened(None)

BindOpen == OpenPidfd \/ OpenHandle \/ KeepFingerprint

(* Faults: only the PID is compared; the start time is left out.           *)
UnchangedPid(i)  == pid[i] = fp.pid
UnchangedName(i) == pid[i] = fp.pid /\ name[i] = fp.name

(* bind, second read: the metadata must not have changed meanwhile.        *)
Unchanged(i) == MetadataOf(i) = fp

(* Fault: the second read is left out.                                     *)
BindUnverified ==
  /\ pc = "verify"
  /\ attempts' = 0
  /\ pc' = "bound"
  /\ result' = "ok"
  /\ UNCHANGED <<osVars, reqPid, fp, ref, target, callVars, signalled>>

BindVerify ==
  /\ pc = "verify"
  /\ \/ /\ Listed(reqPid) = {}
        /\ BindFails("NotRunning")
        /\ UNCHANGED target
     \/ \E i \in Listed(reqPid) :
          /\ ~Unchanged(i)
          /\ BindFails("Mismatch")
          /\ UNCHANGED target
     \/ \E i \in Listed(reqPid) :
          /\ Unchanged(i)
          /\ target' = i
          /\ attempts' = 0
          /\ pc' = "bound"
          /\ result' = "ok"
          /\ UNCHANGED <<osVars, reqPid, fp, ref, callVars, signalled>>

-----------------------------------------------------------------------------
(* Operations on a bound handle: kill(t), terminate(t) and wait(t).  Each  *)
(* checks permissions, sends its signal and then waits.                    *)

Call(o, t) ==
  /\ pc = "bound"
  /\ op' = o
  /\ remaining' = t
  /\ pc' = "check"
  /\ result' = "none"
  /\ UNCHANGED <<osVars, handleVars, signalled>>

Return(r) ==
  /\ pc' = "bound"
  /\ result' = r
  /\ UNCHANGED <<osVars, handleVars, callVars, signalled>>

Goto(l) ==
  /\ pc' = l
  /\ UNCHANGED <<osVars, handleVars, callVars, result, signalled>>

(* wait() sends no signal, kill() and terminate() do.                      *)
Permitted == Goto(IF op = "wait" THEN "wait" ELSE "signal")

(* ensure_pid_not_reused of the macOS handle.                              *)
IdentityFails ==
  \/ Listed(fp.pid) = {} /\ Return("NotRunning")
  \/ \E i \in Listed(fp.pid) : ~Unchanged(i) /\ Return("Reused")
IdentityHolds == \E i \in Listed(fp.pid) : Unchanged(i)

(* The processes a signal would reach: the one the pidfd refers to on      *)
(* linux; on macOS kill(2) resolves the PID when it is called.             *)
Addressed == IF platform = "linux" THEN {i \in {ref} : HoldsPid(i)} ELSE Holders(fp.pid)

(* map_signal_error: ESRCH, or anything else.                              *)
SignalRefused ==
  \/ Addressed = {} /\ Return("NotRunning")
  \/ (\E i \in Addressed : name[i] \in Foreign) /\ Return("Io")

(* Signal 0 is a check only.                                               *)
SignalZero ==
  SignalRefused \/ ((\E i \in Addressed : name[i] \notin Foreign) /\ Permitted)

(* check_permissions of the three handles: signal 0; an identity check and *)
(* then signal 0; nothing.                                                 *)
CheckPidfd == pc = "check" /\ platform = "linux" /\ SignalZero

CheckFingerprint ==
  /\ platform = "macos"
  /\ \/ pc = "check" /\ IdentityFails
     \/ pc = "check" /\ IdentityHolds /\ Goto("checkSend")
     \/ pc = "checkSend" /\ SignalZero

CheckHandle == pc = "check" /\ platform = "windows" /\ Permitted

CheckPermissions == CheckPidfd \/ CheckFingerprint \/ CheckHandle

Deliver(i) ==
  /\ pc' = "wait"
  /\ signalled' = IF status[i] = "running" THEN signalled \cup {i} ELSE signalled
  /\ UNCHANGED <<osVars, handleVars, callVars, result>>

SignalAddressed ==
  SignalRefused \/ \E i \in Addressed : name[i] \notin Foreign /\ Deliver(i)

(* kill and terminate through a pidfd: pidfd_send_signal.                  *)
SignalPidfd == pc = "signal" /\ platform = "linux" /\ SignalAddressed

(* kill and terminate of macos: an identity check, then kill(2).           *)
SignalPid ==
  /\ platform = "macos"
  /\ \/ pc = "signal" /\ IdentityFails
     \/ pc = "signal" /\ IdentityHolds /\ Goto("send")
     \/ pc = "send" /\ SignalAddressed

(* kill and terminate of windows.  TerminateProcess fails on a process     *)
(* that has exited, and may fail on one that is exiting or still runs.     *)
TerminateProcess ==
  /\ pc = "signal" /\ platform = "windows"
  /\ \/ status[ref] = "running" /\ Deliver(ref)
     \/ Goto("query")

(* is_process_exited, after that failure: the exit code is compared with   *)
(* STILL_ACTIVE.  A process that is seen to have exited is taken for       *)
(* killed; any other is an error, and so is an exit code that cannot be    *)
(* had.                                                                    *)
SeenExited == status[ref] # "running" /\ ref \notin LooksActive

(* Fault: the comparison with STILL_ACTIVE is the wrong way round.         *)
IsProcessExitedInverted ==
  /\ pc = "query" /\ platform = "windows"
  /\ \/ ~SeenExited /\ Goto("wait")
     \/ SeenExited /\ Return("Io")

IsProcessExited ==
  /\ pc = "query" /\ platform = "windows"
  /\ \/ SeenExited /\ Goto("wait")
     \/ ~SeenExited /\ Return("Io")
     \/ Return("Io")

SendSignal == SignalPidfd \/ SignalPid \/ TerminateProcess \/ IsProcessExited

(* Fault: a readiness event is taken for an exit without polling again.    *)
WaitPidfdUnpolled == pc = "wait" /\ platform = "linux" /\ Return("exited")

(* poll_readable_now: a pidfd is readable once its process has exited.     *)
PollReadableNow == status[ref] # "running"

(* wait of linux: a poll for a timeout of zero, and readiness events, each *)
(* checked by a poll, for any other.                                       *)
WaitPidfd ==
  /\ pc = "wait" /\ platform = "linux"
  /\ Return(IF PollReadableNow THEN "exited" ELSE "timeout")

(* The timeout of windows is clamped to u32::MAX, which means INFINITE.    *)
Clamped(t) == IF t < U32Max THEN t ELSE U32Max

(* wait of windows: WaitForSingleObject on a thread of its own.            *)
WaitForSingleObject ==
  /\ pc = "wait" /\ platform = "windows"
  /\ \/ status[ref] # "running" /\ Return("exited")
     \/ /\ status[ref] = "running"
        /\ Clamped(remaining) # U32Max
        /\ Return("timeout")

WaitHandle == WaitPidfd \/ WaitForSingleObject

(* Fault: the deadline is not kept.                                        *)
WaitPollForever ==
  /\ pc = "wait"
  /\ platform = "macos"
  /\ \/ Listed(fp.pid) = {} /\ Return("exited")
     \/ \E i \in Listed(fp.pid) : ~Unchanged(i) /\ Return("Reused")

(* T::wait of macOS: poll the process table until the deadline.            *)
WaitPoll ==
  /\ pc = "wait"
  /\ platform = "macos"
  /\ \/ Listed(fp.pid) = {} /\ Return("exited")
     \/ \E i \in Listed(fp.pid) : ~Unchanged(i) /\ Return("Reused")
     \/ IdentityHolds /\ remaining = 0 /\ Return("timeout")
     \/ /\ IdentityHolds
        /\ remaining > 0
        /\ remaining' = remaining - 1
        /\ UNCHANGED <<osVars, handleVars, op, pc, result, signalled>>

(* A wait that cannot be carried out: the handle is not duplicated, or     *)
(* WaitForSingleObject fails; readable() or poll on the pidfd fails; the   *)
(* thread that waits or reads the process table cannot be joined.          *)
WaitFails == pc = "wait" /\ Return("Io")

-----------------------------------------------------------------------------
NoMetadata == [pid |-> CHOOSE p \in Pids : TRUE, name |-> CHOOSE n \in Names : TRUE, start |-> 0]

Init ==
  /\ platform \in Platforms
  /\ tick = 0
  /\ status = [i \in Instances |-> "unborn"]
  /\ pid = [i \in Instances |-> NoMetadata.pid]
  /\ name = [i \in Instances |-> NoMetadata.name]
  /\ start = [i \in Instances |-> 0]
  /\ pc = "idle"
  /\ reqPid = NoMetadata.pid
  /\ attempts = 0
  /\ fp = NoMetadata
  /\ ref = None
  /\ target = None
  /\ op = "wait"
  /\ remaining = 0
  /\ result = "none"
  /\ signalled = {}

Environment ==
  \/ Tick
  \/ \E i \in Instances : StartProcess(i) \/ Exit(i) \/ Reap(i)
  \/ \E i \in Instances, n \in Expected : Exec(i, n)

BindStep == BindRead \/ BindOpen \/ BindVerify
OpStep   == CheckPermissions \/ SendSignal \/ WaitHandle \/ WaitPoll

Client ==
  \/ \E p \in Pids : Bind(p)
  \/ SpawnFails \/ \E i \in Instances : Spawn(i)
  \/ BindStep \/ ReadFails
  \/ \E o \in {"kill", "terminate", "wait"}, t \in Timeouts : Call(o, t)
  \/ OpStep \/ WaitFails

Next == Environment \/ Client

Spec == Init /\ [][Next]_vars

(* Tokio keeps polling a future whose waker fired and its timers expire:   *)
(* a bind or an operation that can take a step eventually takes it.  That  *)
(* a read or a wait fails is never assumed.                                *)
FairSpec == Spec /\ WF_vars(BindStep) /\ WF_vars(OpStep)

-----------------------------------------------------------------------------
(* Properties.                                                             *)

(* A pidfd or a process handle is held from its opening on.                *)
HasHandle == platform # "macos" /\ pc \in BoundPcs \cup {"verify"}

(* Type correctness; a handle on Linux and Windows refers to an instance   *)
(* from its opening on, so that no operation runs on a handle of nothing.  *)
TypeOK ==
  /\ platform \in Platforms
  /\ tick \in 0..MaxTick
  /\ status \in [Instances -> Statuses]
  /\ pid \in [Instances -> Pids]
  /\ name \in [Instances -> Names]
  /\ start \in [Instances -> 0..MaxTick]
  /\ pc \in BoundPcs \cup {"idle", "read", "open", "verify", "failed"}
  /\ reqPid \in Pids
  /\ attempts \in 0..MaxAttempts
  /\ fp \in Metadata
  /\ ref \in Instances \cup {None}
  /\ HasHandle => ref \in Instances
  /\ target \in Instances \cup {None}
  /\ op \in {"kill", "terminate", "wait"}
  /\ remaining \in Nat
  /\ result \in Results
  /\ signalled \subseteq Instances

(* With a pidfd or a process handle no SIGTERM or SIGKILL ever reaches a   *)
(* process that does not carry the daemon's name, however PIDs are         *)
(* recycled between the two metadata reads of bind, the opening of the     *)
(* handle and the signal ("cannot accidentally target an unrelated process *)
(* after PID reuse", traits.rs:57-59).                                     *)
SignalledVerified ==
  platform # "macos" => \A i \in signalled : name[i] \in Expected

(* Stronger: a signal reaches only the very instance whose metadata bind   *)
(* read last, not a namesake that took its PID, even if start times cannot *)
(* tell the two apart.                                                     *)
SignalledIsTarget == platform # "macos" => signalled \subseteq {target}

(* The same of every build, macOS included: the check before kill(2)       *)
(* "prevents a recycled PID from causing the signal to be delivered to an  *)
(* unrelated process" (macos.rs:125-127).                                  *)
UnrelatedIsSpared == \A i \in signalled : name[i] \in Expected

(* What the callers treat as "that daemon is dead" is true: a bind that    *)
(* failed with NotRunning or Mismatch after having seen the daemon         *)
(* (builder.rs: Stale), an exit reported by wait, and NotRunning or Reused *)
(* from an operation (kill.rs: the process is gone).  The kernel handles   *)
(* of Linux and Windows need a PID not to be recycled within a second; the *)
(* fingerprint of macOS does not.                                          *)
Obituaries == {"exited", "NotRunning", "Reused", "Mismatch"}
NoFalseObituary ==
  /\ result \in Obituaries /\ target # None
  /\ platform = "macos" \/ platform \notin FastReuse
  => status[target] # "running"

(* A handle whose process is gone for good never signals again: an         *)
(* operation begun after that reaches nobody, on macOS too, where only the *)
(* fingerprint guards the recycled PID.                                    *)
SilentSince(sent) ==
  [](pc = "check" /\ status[target] = "gone" /\ signalled = sent => [](signalled = sent))

DeadHandleNeverSignals == \A sent \in SUBSET Instances : SilentSince(sent)

(* A kill() or terminate() that reports no error has reached the process   *)
(* of its handle, or that had exited by itself: whatever fails, exits or   *)
(* is checked in between, a live daemon that nobody signalled is never     *)
(* waited for, and Ok(false) does mean "not responding to signal"          *)
(* (kill.rs:109).  On Windows this rests on is_process_exited after a      *)
(* failed TerminateProcess (windows.rs:117-121), with PIDs recycled at any *)
(* moment.                                                                 *)
Held == IF platform = "macos" THEN target ELSE ref

KillReachesTarget ==
  op # "wait" /\ pc = "bound" /\ result \in {"exited", "timeout"}
  => Held \in signalled \/ status[Held] # "running"

(* Every bind and every operation returns: retries are bounded and a wait  *)
(* ends at its timeout even if the process never exits ("the timeout is a  *)
(* maximum wait duration", traits.rs:121).                                 *)
OperationReturns ==
  (pc \notin {"idle", "bound", "failed"}) ~> (pc \in {"bound", "failed"})
=============================================================================
