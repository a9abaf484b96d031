------------------------ MODULE ProcessControlProofs ------------------------
(* Proofs about ProcessControl.                                            *)
EXTENDS ProcessControl, TLAPS

-----------------------------------------------------------------------------
(* Type correctness.                                                       *)

\* The metadata of an instance is metadata.
LEMMA MetadataType ==
  ASSUME TypeOK, NEW i \in Instances
  PROVE  MetadataOf(i) \in Metadata
  BY DEF TypeOK, MetadataOf, Metadata

\* Types hold before any process was started.
LEMMA InitType == Init => TypeOK
  <1> SUFFICES ASSUME Init PROVE TypeOK
    OBVIOUS
  <1>1. NoMetadata \in Metadata
    BY ProcessAssumption DEF NoMetadata, Metadata
  <1>2. NoMetadata.pid \in Pids /\ NoMetadata.name \in Names
    BY <1>1 DEF Metadata
  <1> QED
    BY <1>1, <1>2, ProcessAssumption DEF Init, TypeOK, HasHandle, BoundPcs, Statuses, Results

\* Processes start, exec, exit and are reaped; time passes.
LEMMA EnvironmentType == TypeOK /\ Environment => TypeOK'
  <1> SUFFICES ASSUME TypeOK, Environment PROVE TypeOK'
    OBVIOUS
  <1> USE DEF TypeOK, HasHandle, handleVars, callVars
  <1>1. CASE Tick
    BY <1>1, ProcessAssumption DEF Tick
  <1>2. ASSUME NEW i \in Instances, StartProcess(i) PROVE TypeOK'
    BY <1>2 DEF StartProcess, Create, Statuses
  <1>3. ASSUME NEW i \in Instances, Exit(i) PROVE TypeOK'
    BY <1>3 DEF Exit, Statuses
  <1>4. ASSUME NEW i \in Instances, Reap(i) PROVE TypeOK'
    BY <1>4 DEF Reap, Statuses
  <1>5. ASSUME NEW i \in Instances, NEW n \in Expected, Exec(i, n) PROVE TypeOK'
    BY <1>5, ProcessAssumption DEF Exec
  <1> QED
    BY <1>1, <1>2, <1>3, <1>4, <1>5 DEF Environment

\* A bind that fails returns an error and keeps no handle.
LEMMA BindFailsType ==
  ASSUME TypeOK, target' \in Instances \cup {None}, NEW e \in Errors, BindFails(e)
  PROVE  TypeOK'
  BY ProcessAssumption
     DEF TypeOK, HasHandle, BindFails, osVars, callVars, Errors, Results, BoundPcs

\* A handle that was opened refers to an instance, except on macOS.
LEMMA OpenedType ==
  ASSUME TypeOK, NEW i \in Instances \cup {None}, Opened(i),
         platform # "macos" => i \in Instances
  PROVE  TypeOK'
  BY DEF TypeOK, HasHandle, Opened, osVars, callVars, BoundPcs

\* Every step of a bind: reading, opening, verifying.
LEMMA BindStepType == TypeOK /\ BindStep => TypeOK'
  <1> SUFFICES ASSUME TypeOK, BindStep PROVE TypeOK'
    OBVIOUS
  <1>0. {"NotRunning", "Mismatch", "Io"} \subseteq Errors
    BY DEF Errors
  <1>1. CASE BindRead
    <2>1. ASSUME NEW i \in Listed(reqPid), name[i] \in Expected, fp' = MetadataOf(i),
                 target' = i, pc' = "open",
                 UNCHANGED <<osVars, reqPid, attempts, ref, callVars, result, signalled>>
          PROVE  TypeOK'
      BY <2>1, MetadataType DEF Listed, Holders, TypeOK, HasHandle, osVars, callVars, BoundPcs
    <2>2. ASSUME UNCHANGED target PROVE target' \in Instances \cup {None}
      BY <2>2 DEF TypeOK
    <2> QED
      BY <1>1, <1>0, <2>1, <2>2, BindFailsType DEF BindRead
  <1>2. CASE BindOpen
    <2>1. ASSUME UNCHANGED target PROVE target' \in Instances \cup {None}
      BY <2>1 DEF TypeOK
    <2>2. Holders(reqPid) \subseteq Instances
      BY DEF Holders
    <2>3. ASSUME platform = "macos", Opened(None) PROVE TypeOK'
      BY <2>3, OpenedType
    <2>4. ASSUME NEW i \in Holders(reqPid), Opened(i) PROVE TypeOK'
      BY <2>2, <2>4, OpenedType
    <2>5. ASSUME UNCHANGED target, BindFails("NotRunning") \/ BindFails("Io") PROVE TypeOK'
      <3>1. target' \in Instances \cup {None}
        BY <2>1, <2>5
      <3>2. "NotRunning" \in Errors /\ "Io" \in Errors
        BY <1>0
      <3> QED
        BY <2>5, <3>1, <3>2, BindFailsType, Zenon
    <2> QED
      BY <1>2, <2>3, <2>4, <2>5 DEF BindOpen, OpenPidfd, OpenHandle, KeepFingerprint, OpenFails
  <1>3. CASE BindVerify
    <2>1. ASSUME UNCHANGED target PROVE target' \in Instances \cup {None}
      BY <2>1 DEF TypeOK
    <2>2. ASSUME NEW i \in Listed(reqPid), pc = "verify", target' = i, attempts' = 0, pc' = "bound",
                 result' = "ok", UNCHANGED <<osVars, reqPid, fp, ref, callVars, signalled>>
          PROVE  TypeOK'
      BY <2>2, ProcessAssumption
         DEF Listed, Holders, TypeOK, HasHandle, osVars, callVars, BoundPcs, Results
    <2> QED
      BY <1>3, <1>0, <2>1, <2>2, BindFailsType DEF BindVerify
  <1> QED
    BY <1>1, <1>2, <1>3 DEF BindStep

\* An operation that returns leaves its client bound.
LEMMA ReturnType ==
  ASSUME TypeOK, pc \in BoundPcs, NEW r \in Results, Return(r)
  PROVE  TypeOK'
  BY DEF TypeOK, HasHandle, Return, osVars, handleVars, callVars, BoundPcs

\* An operation that goes on leaves its client bound.
LEMMA GotoType ==
  ASSUME TypeOK, pc \in BoundPcs, NEW l \in BoundPcs, Goto(l)
  PROVE  TypeOK'
  BY DEF TypeOK, HasHandle, Goto, osVars, handleVars, callVars

\* A signal is delivered to an instance.
LEMMA DeliverType ==
  ASSUME TypeOK, pc \in BoundPcs, NEW i \in Instances, Deliver(i)
  PROVE  TypeOK'
  BY DEF TypeOK, HasHandle, Deliver, osVars, handleVars, callVars, BoundPcs

\* Every step of kill, terminate and wait.
LEMMA OpStepType == TypeOK /\ OpStep => TypeOK'
  <1> SUFFICES ASSUME TypeOK, OpStep PROVE TypeOK'
    OBVIOUS
  <1>1. {"NotRunning", "Reused", "Io", "exited", "timeout"} \subseteq Results
    BY DEF Results, Errors
  <1>2. {"checkSend", "signal", "send", "query", "wait"} \subseteq BoundPcs
    BY DEF BoundPcs
  <1>3. pc \in BoundPcs
    BY DEF OpStep, CheckPermissions, CheckPidfd, CheckFingerprint, CheckHandle, SendSignal,
           SignalPidfd, SignalPid, TerminateProcess, IsProcessExited, WaitHandle, WaitPidfd,
           WaitForSingleObject, WaitPoll, BoundPcs
  <1>4. ASSUME Permitted PROVE TypeOK'
    BY <1>2, <1>3, <1>4, GotoType DEF Permitted
  <1>5. ASSUME IdentityFails \/ SignalRefused PROVE TypeOK'
    BY <1>1, <1>3, <1>5, ReturnType DEF IdentityFails, SignalRefused
  <1>6. Addressed \subseteq Instances
    BY <1>3 DEF Addressed, Holders, TypeOK, HasHandle
  <1>7. CASE CheckPermissions
    BY <1>2, <1>3, <1>4, <1>5, <1>7, GotoType
    DEF CheckPermissions, CheckPidfd, CheckFingerprint, CheckHandle, SignalZero
  <1>8. CASE SendSignal
    <2>1. platform = "windows" => ref \in Instances
      BY <1>3 DEF TypeOK, HasHandle
    <2> QED
      BY <1>1, <1>2, <1>3, <1>5, <1>6, <1>8, <2>1, GotoType, DeliverType, ReturnType
      DEF SendSignal, SignalPidfd, SignalPid, SignalAddressed, TerminateProcess, IsProcessExited
  <1>9. CASE WaitHandle
    BY <1>1, <1>3, <1>9, ReturnType DEF WaitHandle, WaitPidfd, WaitForSingleObject
  <1>10. CASE WaitPoll
    <2>1. ASSUME remaining > 0, remaining' = remaining - 1,
                 UNCHANGED <<osVars, handleVars, op, pc, result, signalled>>
          PROVE  TypeOK'
      BY <2>1 DEF TypeOK, HasHandle, osVars, handleVars
    <2> QED
      BY <1>1, <1>3, <1>10, <2>1, ReturnType DEF WaitPoll
  <1> QED
    BY <1>7, <1>8, <1>9, <1>10 DEF OpStep

\* Every step keeps the types.
LEMMA NextType == TypeOK /\ [Next]_vars => TypeOK'
  <1> SUFFICES ASSUME TypeOK, [Next]_vars PROVE TypeOK'
    OBVIOUS
  <1> USE DEF TypeOK, HasHandle, BoundPcs
  <1>1. ASSUME NEW p \in Pids, Bind(p) PROVE TypeOK'
    BY <1>1, ProcessAssumption DEF Bind, osVars, callVars
  <1>2. ASSUME NEW i \in Instances, Spawn(i) PROVE TypeOK'
    BY <1>2, ProcessAssumption DEF Spawn, Create, callVars, Statuses
  <1>3. ASSUME NEW o \in {"kill", "terminate", "wait"}, NEW t \in Timeouts, Call(o, t)
        PROVE  TypeOK'
    BY <1>3, ProcessAssumption DEF Call, osVars, handleVars, Results
  <1>4. CASE UNCHANGED vars
    BY <1>4 DEF vars, osVars, handleVars, callVars
  <1>5. CASE SpawnFails
    BY <1>5 DEF SpawnFails, osVars, handleVars, callVars, Results, Errors
  <1>6. CASE ReadFails
    <2>1. target' \in Instances \cup {None} /\ "Io" \in Errors
      BY <1>6 DEF ReadFails, Errors
    <2> QED
      BY <1>6, <2>1, BindFailsType DEF ReadFails
  <1>7. CASE WaitFails
    BY <1>7, ReturnType DEF WaitFails, Results, Errors
  <1> QED
    BY <1>1, <1>2, <1>3, <1>4, <1>5, <1>6, <1>7, EnvironmentType, BindStepType, OpStepType
    DEF Next, Client

(* Every variable keeps to its type, and on Linux and Windows a client     *)
(* that has bound a process does hold a kernel reference to an instance.   *)
THEOREM TypeCorrect == Spec => []TypeOK
  BY InitType, NextType, PTL DEF Spec

-----------------------------------------------------------------------------
(* The inductive invariant behind the three safety theorems.               *)

Bound == pc \in BoundPcs
Seen  == pc \in {"open", "verify"} \cup BoundPcs

(* A PID is held by at most one instance.                                  *)
PidUnique ==
  \A i, j \in Instances : HoldsPid(i) /\ HoldsPid(j) /\ pid[i] = pid[j] => i = j

(* PID and start time identify an instance, unless a PID is recycled       *)
(* within one tick of the clock.                                           *)
BirthUnique ==
  /\ \A i \in Instances : status[i] # "unborn" => start[i] <= tick
  /\ platform \notin FastReuse =>
       \A i, j \in Instances :
         /\ status[i] # "unborn" /\ status[j] # "unborn"
         /\ pid[i] = pid[j] /\ start[i] = start[j]
         => i = j

(* From the first read on, fp describes target, which was called knotd.    *)
SeenInv ==
  /\ target # None => status[target] # "unborn"
  /\ Seen => /\ target # None
             /\ MetadataOf(target) = fp
             /\ fp.name \in Expected
             /\ fp.pid = reqPid

(* What the pidfd or process handle refers to: an instance that held the   *)
(* PID after the first read; after the second read it is the target, or    *)
(* else it is gone and its PID taken by a namesake born in the same second.*)
HandleInv ==
  /\ pc \in {"checkSend", "send"} => platform = "macos"
  /\ HasHandle =>
       /\ status[ref] # "unborn"
       /\ pid[ref] = reqPid
       /\ pc = "verify" /\ HoldsPid(target) => ref = target
       /\ Bound => /\ HoldsPid(ref) => ref = target
                   /\ platform \notin FastReuse => ref = target

(* Only a bound client has signalled, and only the target.                 *)
SignalInv ==
  /\ SignalledIsTarget
  /\ ~Bound => signalled = {}

(* While a bind is being retried the process seen by the attempt before    *)
(* has exited.                                                             *)
ObituaryInv ==
  /\ pc = "idle" => target = None
  /\ pc = "read" /\ target # None => status[target] # "running"
  /\ pc \in {"idle", "read", "open", "verify"} => result = "none"
  /\ NoFalseObituary

IInv == TypeOK /\ PidUnique /\ BirthUnique /\ SeenInv /\ HandleInv /\ SignalInv /\ ObituaryInv

-----------------------------------------------------------------------------
(* How the process table ages: what is past is never undone.               *)

Aged(i) ==
  /\ status[i] # "unborn" => /\ status'[i] # "unborn"
                             /\ pid'[i] = pid[i]
                             /\ start'[i] = start[i]
                             /\ name'[i] = name[i] \/ name[i] \notin Expected
  /\ status[i] # "unborn" /\ HoldsPid(i)' => HoldsPid(i)
  /\ status[i] # "unborn" /\ status'[i] = "running" => status[i] = "running"
  /\ name[i] \in Expected /\ status[i] # "unborn" => name'[i] \in Expected

\* A new process ages all others.
LEMMA CreateAges ==
  ASSUME TypeOK, NEW j \in Instances, NEW p \in Pids, NEW n \in Names, Create(j, p, n),
         NEW i \in Instances
  PROVE  Aged(i)
  BY DEF TypeOK, Create, Aged, HoldsPid

\* A new process gets a PID nobody holds, and a start time of its own.
LEMMA CreateUnique ==
  ASSUME TypeOK, PidUnique, BirthUnique,
         NEW j \in Instances, NEW p \in Pids, NEW n \in Names, Create(j, p, n)
  PROVE  PidUnique' /\ BirthUnique'
  <1>1. PidUnique'
    BY DEF TypeOK, PidUnique, Create, PidFree, Holders, HoldsPid
  <1>2. \A i \in Instances : status'[i] # "unborn" => start'[i] <= tick'
    BY DEF TypeOK, BirthUnique, Create
  <1>3. ASSUME platform \notin FastReuse, NEW a \in Instances, NEW b \in Instances,
               status'[a] # "unborn", status'[b] # "unborn",
               pid'[a] = pid'[b], start'[a] = start'[b]
        PROVE  a = b
    BY <1>3 DEF TypeOK, BirthUnique, Create, PidFree
  <1>4. UNCHANGED platform
    BY DEF Create
  <1> QED
    BY <1>1, <1>2, <1>3, <1>4 DEF BirthUnique

\* Whatever the system does, every instance only ages.
LEMMA EnvironmentAges ==
  ASSUME TypeOK, Environment, NEW i \in Instances
  PROVE  Aged(i)
  <1> USE DEF TypeOK, Aged, HoldsPid
  <1>1. CASE Tick
    BY <1>1 DEF Tick
  <1>2. ASSUME NEW j \in Instances, StartProcess(j) PROVE Aged(i)
    BY <1>2, CreateAges DEF StartProcess
  <1>3. ASSUME NEW j \in Instances, Exit(j) PROVE Aged(i)
    BY <1>3 DEF Exit
  <1>4. ASSUME NEW j \in Instances, Reap(j) PROVE Aged(i)
    BY <1>4 DEF Reap
  <1>5. ASSUME NEW j \in Instances, NEW n \in Expected, Exec(j, n) PROVE Aged(i)
    BY <1>5 DEF Exec
  <1> QED
    BY <1>1, <1>2, <1>3, <1>4, <1>5 DEF Environment

\* Whatever the system does, PIDs and births stay unique.
LEMMA EnvironmentUnique ==
  ASSUME TypeOK, PidUnique, BirthUnique, Environment
  PROVE  PidUnique' /\ BirthUnique'
  <1> USE DEF TypeOK, PidUnique, BirthUnique, HoldsPid
  <1>1. CASE Tick
    BY <1>1, ProcessAssumption DEF Tick
  <1>2. ASSUME NEW j \in Instances, StartProcess(j) PROVE PidUnique' /\ BirthUnique'
    BY <1>2, CreateUnique DEF StartProcess
  <1>3. ASSUME NEW j \in Instances, Exit(j) PROVE PidUnique' /\ BirthUnique'
    BY <1>3 DEF Exit
  <1>4. ASSUME NEW j \in Instances, Reap(j) PROVE PidUnique' /\ BirthUnique'
    BY <1>4 DEF Reap
  <1>5. ASSUME NEW j \in Instances, NEW n \in Expected, Exec(j, n)
        PROVE  PidUnique' /\ BirthUnique'
    BY <1>5 DEF Exec
  <1> QED
    BY <1>1, <1>2, <1>3, <1>4, <1>5 DEF Environment
-----------------------------------------------------------------------------
(* The inductive invariant is preserved.                                   *)

\* Without processes and handles the invariant holds.
LEMMA InitInv == Init => IInv
  <1> SUFFICES ASSUME Init PROVE IInv
    OBVIOUS
  <1>1. TypeOK
    BY InitType
  <1> QED
    BY <1>1 DEF Init, IInv, PidUnique, BirthUnique, SeenInv, HandleInv, SignalInv,
                SignalledIsTarget, ObituaryInv, NoFalseObituary,
                HasHandle, HoldsPid, Seen, Bound, BoundPcs

\* A handle stays right while the system goes on.
LEMMA EnvironmentInv == IInv /\ Environment => IInv'
  <1> SUFFICES ASSUME IInv, Environment PROVE IInv'
    OBVIOUS
  <1>1. TypeOK' /\ PidUnique' /\ BirthUnique'
    BY EnvironmentType, EnvironmentUnique DEF IInv
  <1>2. UNCHANGED <<platform, reqPid, attempts, fp, ref, target, op, remaining, pc, result,
                  signalled>>
    BY DEF Environment, Tick, StartProcess, Create, Exit, Reap, Exec, handleVars, callVars
  <1>3. \A i \in Instances : Aged(i)
    BY EnvironmentAges DEF IInv
  <1>4. target # None => target \in Instances
    BY DEF IInv, TypeOK
  <1>5. SeenInv'
    BY <1>2, <1>3, <1>4 DEF IInv, SeenInv, Seen, MetadataOf, Aged
  <1>6. HandleInv'
    <2>1. HasHandle => ref \in Instances
      BY DEF IInv, TypeOK
    <2>2. HasHandle' = HasHandle /\ Bound' = Bound
      BY <1>2 DEF HasHandle, Bound
    <2>3. Seen => target \in Instances
      BY <1>4 DEF IInv, SeenInv
    <2>4. HasHandle => Seen
      BY DEF HasHandle, Seen
    <2>5. HasHandle /\ HoldsPid(target)' => HoldsPid(target)
      BY <1>2, <1>3, <2>3, <2>4 DEF IInv, SeenInv, Aged, HoldsPid
    <2>6. HasHandle /\ HoldsPid(ref)' => HoldsPid(ref)
      BY <1>2, <1>3, <2>1 DEF IInv, HandleInv, Aged, HoldsPid
    <2> QED
      BY <1>2, <1>3, <2>1, <2>2, <2>5, <2>6 DEF IInv, HandleInv, Aged
  <1>7. SignalInv'
    BY <1>2, <1>3 DEF IInv, TypeOK, SignalInv, SignalledIsTarget, Bound, Aged
  <1>8. ObituaryInv'
    BY <1>2, <1>3, <1>4 DEF IInv, SeenInv, ObituaryInv, NoFalseObituary, Aged
  <1> QED
    BY <1>1, <1>5, <1>6, <1>7, <1>8 DEF IInv

(* A failed attempt to bind, when the process seen by it has exited or the *)
(* failure is no obituary.                                                 *)
LEMMA BindFailsInv ==
  ASSUME IInv, pc \in {"read", "open", "verify"}, NEW e \in Errors, BindFails(e),
         target' = target,
         e \in Obituaries /\ target # None => status[target] # "running"
  PROVE  IInv'
  <1>1. TypeOK'
    BY BindFailsType DEF IInv, TypeOK
  <1>2. UNCHANGED <<platform, tick, status, pid, name, start, reqPid, fp, signalled>>
    BY DEF BindFails, osVars
  <1>3. pc' \in {"read", "failed"} /\ ~Seen' /\ ~HasHandle' /\ ~Bound'
    BY DEF BindFails, Seen, HasHandle, Bound, BoundPcs
  <1>4. PidUnique' /\ BirthUnique' /\ SeenInv' /\ HandleInv'
    BY <1>2, <1>3 DEF IInv, PidUnique, BirthUnique, HoldsPid, SeenInv, HandleInv
  <1>5. SignalInv'
    BY <1>2, <1>3 DEF IInv, SignalInv, SignalledIsTarget, Bound, BoundPcs
  <1>6. ObituaryInv'
    <2>1. CASE pc' = "read"
      BY <1>2, <2>1 DEF BindFails, ObituaryInv, NoFalseObituary, Obituaries
    <2>2. CASE pc' = "failed"
      BY <1>2, <2>2 DEF BindFails, ObituaryInv, NoFalseObituary, Obituaries
    <2> QED
      BY <1>3, <2>1, <2>2
  <1> QED
    BY <1>1, <1>4, <1>5, <1>6 DEF IInv

\* A step of the client leaves the process table as it is.
LEMMA SameOs ==
  ASSUME UNCHANGED osVars
  PROVE  /\ PidUnique => PidUnique'
         /\ BirthUnique => BirthUnique'
         /\ \A i : HoldsPid(i)' <=> HoldsPid(i)
         /\ \A i : MetadataOf(i)' = MetadataOf(i)
  BY DEF osVars, PidUnique, BirthUnique, HoldsPid, MetadataOf

\* The first read fixes the target of a bind.
LEMMA BindReadInv == IInv /\ BindRead => IInv'
  <1> SUFFICES ASSUME IInv, BindRead PROVE IInv'
    OBVIOUS
  <1>1. ASSUME NEW e \in {"NotRunning", "Mismatch"}, BindFails(e), UNCHANGED target
        PROVE  IInv'
    BY <1>1, BindFailsInv DEF BindRead, Errors, IInv, ObituaryInv
  <1>2. ASSUME NEW i \in Listed(reqPid), name[i] \in Expected, fp' = MetadataOf(i),
               target' = i, pc' = "open",
               UNCHANGED <<osVars, reqPid, attempts, ref, callVars, result, signalled>>
        PROVE  IInv'
    <2>1. TypeOK'
      BY BindStepType DEF IInv, BindStep
    <2>2. i \in Instances /\ HoldsPid(i) /\ pid[i] = reqPid
      BY <1>2 DEF Listed, Holders
    <2>3. PidUnique' /\ BirthUnique'
      BY <1>2, SameOs DEF IInv
    <2>4. SeenInv'
      BY <1>2, <2>2, SameOs, ProcessAssumption DEF SeenInv, Seen, MetadataOf, HoldsPid, osVars
    <2>5. HandleInv' /\ SignalInv'
      BY <1>2 DEF IInv, HandleInv, HasHandle, SignalInv, SignalledIsTarget, Bound, BoundPcs,
                  BindRead, osVars
    <2>6. ObituaryInv'
      BY <1>2 DEF BindRead, IInv, ObituaryInv, NoFalseObituary, Obituaries, osVars
    <2> QED
      BY <2>1, <2>3, <2>4, <2>5, <2>6 DEF IInv
  <1> QED
    BY <1>1, <1>2 DEF BindRead

\* Opening refers to whoever has the PID now.
LEMMA BindOpenInv == IInv /\ BindOpen => IInv'
  <1> SUFFICES ASSUME IInv, BindOpen PROVE IInv'
    OBVIOUS
  <1>1. target \in Instances /\ pid[target] = reqPid /\ status[target] # "unborn"
    BY DEF BindOpen, OpenPidfd, OpenHandle, KeepFingerprint, OpenFails,
           IInv, TypeOK, SeenInv, Seen, MetadataOf
  <1>2. pc = "open" /\ "Io" \in Errors /\ "NotRunning" \in Errors
    BY DEF Errors, BindOpen, OpenPidfd, OpenHandle, KeepFingerprint
  <1>3. ASSUME Holders(reqPid) = {}, BindFails("NotRunning"), UNCHANGED target PROVE IInv'
    BY <1>2, <1>1, <1>3, BindFailsInv DEF Holders, HoldsPid
  <1>4. ASSUME BindFails("Io"), UNCHANGED target PROVE IInv'
    BY <1>2, <1>4, BindFailsInv DEF Obituaries
  <1>5. ASSUME NEW i \in Instances \cup {None}, Opened(i),
               platform # "macos" => i \in Holders(reqPid)
        PROVE  IInv'
    <2>1. TypeOK'
      BY BindStepType DEF IInv, BindStep
    <2>2. PidUnique' /\ BirthUnique'
      BY <1>5, SameOs DEF IInv, Opened
    <2>3. SeenInv'
      BY <1>5, SameOs DEF IInv, SeenInv, Seen, Opened, osVars,
                  BindOpen, OpenPidfd, OpenHandle, KeepFingerprint, OpenFails
    <2>4. HandleInv'
      BY <1>1, <1>5 DEF IInv, PidUnique, HandleInv, HasHandle, Bound, BoundPcs, Opened, Holders,
                        HoldsPid, osVars
    <2>5. SignalInv' /\ ObituaryInv'
      BY <1>5 DEF IInv, SignalInv, SignalledIsTarget, ObituaryInv, NoFalseObituary, Bound,
                  BoundPcs, Opened,
                  osVars, BindOpen, OpenPidfd, OpenHandle, KeepFingerprint, OpenFails
    <2> QED
      BY <2>1, <2>2, <2>3, <2>4, <2>5 DEF IInv
  <1>6. Holders(reqPid) \subseteq Instances
    BY DEF Holders
  <1> QED
    BY <1>3, <1>4, <1>5, <1>6
       DEF BindOpen, OpenPidfd, OpenHandle, KeepFingerprint, OpenFails

\* The second read compares with the first.
LEMMA BindVerifyInv == IInv /\ BindVerify => IInv'
  <1> SUFFICES ASSUME IInv, BindVerify PROVE IInv'
    OBVIOUS
  <1>1. /\ target \in Instances /\ pid[target] = reqPid /\ status[target] # "unborn"
        /\ MetadataOf(target) = fp
    BY DEF BindVerify, IInv, TypeOK, SeenInv, Seen, MetadataOf
  <1>2. Listed(reqPid) = {} => status[target] # "running"
    BY <1>1 DEF Listed, Holders, HoldsPid
  <1>3. ASSUME NEW i \in Listed(reqPid), ~Unchanged(i) PROVE status[target] # "running"
    BY <1>1, <1>3 DEF IInv, PidUnique, Listed, Holders, HoldsPid, Unchanged
  <1>4. ASSUME NEW e \in {"NotRunning", "Mismatch"}, BindFails(e), UNCHANGED target,
               status[target] # "running"
        PROVE  IInv'
    BY <1>4, BindFailsInv DEF BindVerify, Errors
  <1>5. ASSUME NEW i \in Listed(reqPid), Unchanged(i), target' = i, attempts' = 0,
               pc' = "bound", result' = "ok",
               UNCHANGED <<osVars, reqPid, fp, ref, callVars, signalled>>
        PROVE  IInv'
    <2>1. TypeOK'
      BY BindStepType DEF IInv, BindStep
    <2>2. /\ i \in Instances /\ HoldsPid(i) /\ pid[i] = reqPid /\ status[i] # "unborn"
          /\ MetadataOf(i) = fp /\ name[i] \in Expected
      BY <1>1, <1>5
         DEF Listed, Holders, HoldsPid, Unchanged, MetadataOf, IInv, SeenInv, Seen, BindVerify
    <2>3. platform \notin FastReuse => i = target
      BY <1>1, <2>2 DEF IInv, BirthUnique, MetadataOf
    <2>4. PidUnique' /\ BirthUnique'
      BY <1>5, SameOs DEF IInv
    <2>5. SeenInv'
      BY <1>5, <2>2, ProcessAssumption
         DEF IInv, SeenInv, Seen, BindVerify, MetadataOf, osVars
    <2>6. HandleInv'
      <3>1. platform # "macos" => ref \in Instances /\ status[ref] # "unborn" /\ pid[ref] = reqPid
        BY DEF BindVerify, IInv, TypeOK, HandleInv, HasHandle
      <3>2. platform # "macos" /\ HoldsPid(ref) => ref = i
        BY <2>2, <3>1 DEF IInv, PidUnique
      <3>3. platform # "macos" /\ platform \notin FastReuse => ref = i
        BY <2>2, <2>3 DEF BindVerify, IInv, HandleInv, HasHandle
      <3> QED
        BY <1>5, <2>2, <3>1, <3>2, <3>3 DEF HandleInv, HasHandle, HoldsPid, osVars
    <2>7. SignalInv'
      BY <1>5 DEF BindVerify, IInv, SignalInv, SignalledIsTarget, Bound, BoundPcs, osVars
    <2>8. ObituaryInv'
      BY <1>5 DEF ObituaryInv, NoFalseObituary, Obituaries
    <2> QED
      BY <2>1, <2>4, <2>5, <2>6, <2>7, <2>8 DEF IInv
  <1> QED
    BY <1>2, <1>3, <1>4, <1>5 DEF BindVerify

(* A step of an operation that keeps the handle and delivers no signal.    *)
LEMMA QuietInv ==
  ASSUME IInv, TypeOK', pc \in BoundPcs, pc' \in BoundPcs,
         pc' \in {"checkSend", "send"} => platform = "macos",
         UNCHANGED <<osVars, handleVars, signalled>>,
         result' \in Obituaries /\ (platform = "macos" \/ platform \notin FastReuse)
           => status[target] # "running"
  PROVE  IInv'
  <1>1. PidUnique' /\ BirthUnique'
    BY SameOs DEF IInv
  <1>2. SeenInv' /\ HandleInv' /\ SignalInv'
    BY DEF IInv, SeenInv, HandleInv, SignalInv, SignalledIsTarget, HasHandle, Seen, Bound,
           BoundPcs, MetadataOf,
           HoldsPid, osVars, handleVars
  <1>3. ObituaryInv'
    BY DEF ObituaryInv, NoFalseObituary, BoundPcs, osVars, handleVars
  <1> QED
    BY <1>1, <1>2, <1>3 DEF IInv

\* The start of a kill, a terminate or a wait.
LEMMA CallInv ==
  ASSUME IInv, NEW o \in {"kill", "terminate", "wait"}, NEW t \in Timeouts, Call(o, t)
  PROVE  IInv'
  <1>1. TypeOK'
    BY NextType DEF IInv, Next, Client
  <1> QED
    BY <1>1, QuietInv DEF Call, BoundPcs, Obituaries

\* The start of a bind, with nothing seen yet.
LEMMA BindInv ==
  ASSUME IInv, NEW p \in Pids, Bind(p)
  PROVE  IInv'
  <1>1. TypeOK'
    BY NextType DEF IInv, Next, Client
  <1> QED
    BY <1>1, SameOs
       DEF Bind, IInv, SeenInv, HandleInv, HasHandle, SignalInv, SignalledIsTarget, ObituaryInv,
           NoFalseObituary,
           Obituaries, Seen, Bound, BoundPcs, osVars

\* A bind to a child begins with its PID and its retries.
LEMMA SpawnInv ==
  ASSUME IInv, NEW i \in Instances, Spawn(i)
  PROVE  IInv'
  <1>1. TypeOK'
    BY NextType DEF IInv, Next, Client
  <1>2. PidUnique' /\ BirthUnique'
    BY CreateUnique DEF Spawn, IInv
  <1>3. target' = None /\ signalled' = {} /\ pc' = "read" /\ result' = "none"
    BY DEF Spawn, IInv, ObituaryInv, SignalInv, SignalledIsTarget, Bound, BoundPcs
  <1> QED
    BY <1>1, <1>2, <1>3
       DEF IInv, SeenInv, HandleInv, HasHandle, SignalInv, SignalledIsTarget, ObituaryInv,
           NoFalseObituary,
           Obituaries, Seen, Bound, BoundPcs

(* What is known of the target while a client is bound to it.              *)
LEMMA BoundFacts ==
  ASSUME IInv, pc \in BoundPcs
  PROVE  /\ target \in Instances /\ pid[target] = fp.pid /\ MetadataOf(target) = fp
         /\ Listed(fp.pid) = {} => status[target] # "running"
         /\ \A i \in Listed(fp.pid) : ~Unchanged(i) => status[target] # "running"
         /\ platform # "macos" => ref \in Instances
         /\ platform # "macos" /\ platform \notin FastReuse => ref = target
         /\ platform # "macos" /\ HoldsPid(ref) => ref = target
         /\ Addressed = {} /\ (platform = "macos" \/ platform \notin FastReuse)
              => status[target] # "running"
  <1>1. target \in Instances /\ pid[target] = fp.pid /\ MetadataOf(target) = fp
    BY DEF IInv, TypeOK, SeenInv, Seen, MetadataOf
  <1>2. Listed(fp.pid) = {} => status[target] # "running"
    BY <1>1 DEF Listed, Holders, HoldsPid
  <1>3. \A i \in Listed(fp.pid) : ~Unchanged(i) => status[target] # "running"
    BY <1>1 DEF IInv, PidUnique, Listed, Holders, HoldsPid, Unchanged
  <1>4. /\ platform # "macos" => ref \in Instances
        /\ platform # "macos" /\ platform \notin FastReuse => ref = target
        /\ platform # "macos" /\ HoldsPid(ref) => ref = target
    BY DEF IInv, TypeOK, HandleInv, HasHandle, Bound
  <1>5. Addressed = {} /\ (platform = "macos" \/ platform \notin FastReuse)
        => status[target] # "running"
    BY <1>1, <1>4 DEF Addressed, Holders, HoldsPid
  <1> QED
    BY <1>1, <1>2, <1>3, <1>4, <1>5

\* What an operation returns is true: who is reported dead is dead.
LEMMA ReturnInv ==
  ASSUME IInv, pc \in BoundPcs, NEW r \in Results, Return(r),
         r \in Obituaries /\ (platform = "macos" \/ platform \notin FastReuse)
               => status[target] # "running"
  PROVE  IInv'
  BY ReturnType, QuietInv DEF IInv, Return, BoundPcs

\* An operation that goes on knows no more than before.
LEMMA GotoInv ==
  ASSUME IInv, pc \in BoundPcs, NEW l \in BoundPcs, Goto(l),
         l \in {"checkSend", "send"} => platform = "macos"
  PROVE  IInv'
  <1>1. result \in Obituaries /\ (platform = "macos" \/ platform \notin FastReuse)
          => status[target] # "running"
    BY DEF IInv, ObituaryInv, NoFalseObituary, SeenInv, Seen
  <1> QED
    BY <1>1, GotoType, QuietInv DEF IInv, Goto

(* The one step that delivers a signal.                                    *)
LEMMA DeliverInv ==
  ASSUME IInv, pc \in BoundPcs, NEW i \in Instances, Deliver(i),
         platform # "macos" => i = ref
  PROVE  IInv'
  <1>1. TypeOK'
    BY DeliverType DEF IInv
  <1>2. PidUnique' /\ BirthUnique'
    BY SameOs DEF IInv, Deliver
  <1>3. SeenInv' /\ HandleInv'
    BY DEF IInv, SeenInv, HandleInv, HasHandle, Seen, Bound, BoundPcs, MetadataOf, HoldsPid,
           Deliver, osVars, handleVars
  <1>4. SignalInv'
    <2>1. platform # "macos" /\ status[i] = "running" => i = target
      BY BoundFacts DEF HoldsPid
    <2> QED
      BY <2>1 DEF IInv, SignalInv, SignalledIsTarget, Bound, BoundPcs, Deliver, osVars, handleVars
  <1>5. ObituaryInv'
    BY DEF IInv, ObituaryInv, NoFalseObituary, Deliver, osVars, handleVars
  <1> QED
    BY <1>1, <1>2, <1>3, <1>4, <1>5 DEF IInv

\* Checks, signals and waits act on the instance the handle refers to.
LEMMA OpStepInv == IInv /\ OpStep => IInv'
  <1> SUFFICES ASSUME IInv, OpStep PROVE IInv'
    OBVIOUS
  <1>0. {"NotRunning", "Reused", "Io", "exited", "timeout"} \subseteq Results
    BY DEF Results, Errors
  <1>1. pc \in BoundPcs
    BY DEF OpStep, CheckPermissions, CheckPidfd, CheckFingerprint, CheckHandle, SendSignal,
           SignalPidfd, SignalPid, TerminateProcess, IsProcessExited, WaitHandle, WaitPidfd,
           WaitForSingleObject, WaitPoll, BoundPcs
  <1>2. ASSUME Permitted PROVE IInv'
    BY <1>1, <1>2, GotoInv DEF Permitted, BoundPcs
  <1>3. ASSUME IdentityFails PROVE IInv'
    BY <1>0, <1>1, <1>3, BoundFacts, ReturnInv DEF IdentityFails
  <1>4. ASSUME SignalRefused PROVE IInv'
    BY <1>0, <1>1, <1>4, BoundFacts, ReturnInv DEF SignalRefused, Obituaries
  <1>5. ASSUME NEW i \in Addressed, Deliver(i), platform # "windows" PROVE IInv'
    BY <1>1, <1>5, BoundFacts, DeliverInv, ProcessAssumption DEF Addressed, Holders, IInv, TypeOK
  <1>6. ASSUME NEW l \in {"checkSend", "send"}, platform = "macos", Goto(l) PROVE IInv'
    BY <1>1, <1>6, GotoInv DEF BoundPcs
  <1>7. CASE CheckPermissions
    BY <1>2, <1>3, <1>4, <1>6, <1>7
       DEF CheckPermissions, CheckPidfd, CheckFingerprint, CheckHandle, SignalZero
  <1>8. CASE SendSignal
    <2>1. platform = "windows" /\ Deliver(ref) => IInv'
      BY <1>1, BoundFacts, DeliverInv
    <2>2. pc = "send" => platform # "windows"
      BY DEF IInv, HandleInv
    <2>3. ASSUME Return("Io") PROVE IInv'
      BY <1>0, <1>1, <2>3, ReturnInv DEF Obituaries
    <2>4. ASSUME NEW l \in {"query", "wait"}, Goto(l) PROVE IInv'
      BY <1>1, <2>4, GotoInv DEF BoundPcs
    <2> QED
      BY <1>3, <1>4, <1>5, <1>6, <1>8, <2>1, <2>2, <2>3, <2>4
         DEF SendSignal, SignalPidfd, SignalPid, SignalAddressed, TerminateProcess,
             IsProcessExited
  <1>9. CASE WaitHandle
    BY <1>0, <1>1, <1>9, BoundFacts, ReturnInv, ProcessAssumption
       DEF WaitHandle, WaitPidfd, WaitForSingleObject, PollReadableNow, Obituaries
  <1>10. CASE WaitPoll
    <2>1. ASSUME remaining > 0, remaining' = remaining - 1,
                 UNCHANGED <<osVars, handleVars, op, pc, result, signalled>>
          PROVE  IInv'
      <3>1. TypeOK'
        BY OpStepType DEF IInv
      <3>2. result \in Obituaries /\ (platform = "macos" \/ platform \notin FastReuse)
              => status[target] # "running"
        BY <1>1, BoundFacts, ProcessAssumption DEF IInv, ObituaryInv, NoFalseObituary
      <3>3. platform = "macos"
        BY <1>10 DEF WaitPoll
      <3> QED
        BY <1>1, <2>1, <3>1, <3>2, <3>3, QuietInv
    <2>2. ASSUME Return("timeout") PROVE IInv'
      BY <1>0, <1>1, <2>2, ReturnInv DEF Obituaries
    <2>3. ASSUME Listed(fp.pid) = {}, Return("exited") PROVE IInv'
      BY <1>0, <1>1, <2>3, BoundFacts, ReturnInv
    <2>4. ASSUME NEW i \in Listed(fp.pid), ~Unchanged(i), Return("Reused") PROVE IInv'
      BY <1>0, <1>1, <2>4, BoundFacts, ReturnInv
    <2> QED
      BY <1>10, <2>1, <2>2, <2>3, <2>4 DEF WaitPoll
  <1> QED
    BY <1>7, <1>8, <1>9, <1>10 DEF OpStep

(* A call that fails for a reason of its own declares nobody dead.         *)
LEMMA CallFailsInv == IInv /\ (SpawnFails \/ ReadFails \/ WaitFails) => IInv'
  <1> SUFFICES ASSUME IInv, SpawnFails \/ ReadFails \/ WaitFails PROVE IInv'
    OBVIOUS
  <1>0. "Io" \in Errors /\ "Io" \in Results /\ "Io" \notin Obituaries
    BY DEF Errors, Results, Obituaries
  <1>1. CASE SpawnFails
    <2>1. TypeOK'
      BY <1>1, NextType DEF IInv, Next, Client
    <2>2. PidUnique' /\ BirthUnique'
      BY <1>1, SameOs DEF IInv, SpawnFails
    <2> QED
      BY <1>0, <1>1, <2>1, <2>2
         DEF SpawnFails, IInv, SeenInv, HandleInv, HasHandle, SignalInv, SignalledIsTarget,
             ObituaryInv, NoFalseObituary, Seen, Bound, BoundPcs, osVars, handleVars
  <1>2. CASE ReadFails
    BY <1>0, <1>2, BindFailsInv DEF ReadFails
  <1>3. CASE WaitFails
    BY <1>0, <1>3, ReturnInv DEF WaitFails, BoundPcs
  <1> QED
    BY <1>1, <1>2, <1>3

\* Every step preserves the invariant.
LEMMA NextInv == IInv /\ [Next]_vars => IInv'
  <1> SUFFICES ASSUME IInv, [Next]_vars PROVE IInv'
    OBVIOUS
  <1>1. CASE UNCHANGED vars
    <2>1. TypeOK' /\ PidUnique' /\ BirthUnique'
      BY <1>1, NextType, SameOs DEF IInv, vars
    <2> QED
      BY <1>1, <2>1
         DEF vars, osVars, handleVars, callVars, IInv, SeenInv, HandleInv, HasHandle, SignalInv,
             SignalledIsTarget, ObituaryInv, NoFalseObituary, Seen, Bound, MetadataOf, HoldsPid
  <1>2. CASE BindStep
    BY <1>2, BindReadInv, BindOpenInv, BindVerifyInv DEF BindStep
  <1> QED
    BY <1>1, <1>2, EnvironmentInv, OpStepInv, BindInv, SpawnInv, CallInv, CallFailsInv
    DEF Next, Client

(* The inductive invariant holds in every reachable state: the fingerprint *)
(* a call has read, the handle it holds and the target it identified       *)
(* describe one process, at every step of bind and of the operations.      *)
THEOREM Inductive == Spec => []IInv
  BY InitInv, NextInv, PTL DEF Spec

-----------------------------------------------------------------------------
(* The safety theorems.                                                    *)

(* On Linux and Windows no SIGTERM or SIGKILL (or TerminateProcess) ever   *)
(* reaches a process that is not called knotd, for any number of           *)
(* processes and PIDs and however fast PIDs are recycled.                  *)
THEOREM SignalsReachOnlyTheDaemon == Spec => []SignalledVerified
  <1>1. IInv => SignalledVerified
    BY DEF IInv, SeenInv, Seen, Bound, SignalInv, SignalledIsTarget, SignalledVerified, MetadataOf
  <1> QED
    BY <1>1, Inductive, PTL

(* ... and it reaches the very instance that bind identified, even where   *)
(* start times cannot tell the users of a PID apart.                       *)
THEOREM SignalsReachOnlyTheTarget == Spec => []SignalledIsTarget
  <1>1. IInv => SignalledIsTarget
    BY DEF IInv, SignalInv
  <1> QED
    BY <1>1, Inductive, PTL

(* On every platform a process that bind or an operation declares dead is  *)
(* dead; for the kernel handles of Linux and Windows this too needs PIDs   *)
(* not to be recycled within one second.                                   *)
THEOREM ObituariesAreTrue == Spec => []NoFalseObituary
  <1>1. IInv => NoFalseObituary
    BY DEF IInv, ObituaryInv
  <1> QED
    BY <1>1, Inductive, PTL

(* A kill or terminate that has got as far as its wait has signalled the   *)
(* process of its handle, or found that it had exited.                     *)
ReachInv ==
  /\ op # "wait"
  /\ pc = "wait" \/ (pc = "bound" /\ result \in {"exited", "timeout"})
  => Held \in signalled \/ status[Held] # "running"

\* What was reached stays reached while the process table ages.
LEMMA ReachEnvironment == IInv /\ ReachInv /\ Environment => ReachInv'
  <1> SUFFICES ASSUME IInv, ReachInv, Environment, pc \in {"wait", "bound"} PROVE ReachInv'
    BY DEF ReachInv, Environment, Tick, StartProcess, Create, Exit, Reap, Exec
  <1>1. UNCHANGED <<platform, op, pc, result, ref, target, signalled>>
    BY DEF Environment, Tick, StartProcess, Create, Exit, Reap, Exec, handleVars, callVars
  <1>2. Held \in Instances /\ status[Held] # "unborn"
    BY DEF IInv, TypeOK, SeenInv, Seen, HandleInv, HasHandle, BoundPcs, Held
  <1>3. Aged(Held)
    BY <1>2, EnvironmentAges DEF IInv
  <1>4. Held' = Held
    BY <1>1 DEF Held
  <1> QED
    BY <1>1, <1>2, <1>3, <1>4 DEF ReachInv, Aged

\* An operation comes to its wait by a signal, or past the exit code.
LEMMA ReachOpStep == IInv /\ ReachInv /\ OpStep => ReachInv'
  <1> SUFFICES ASSUME IInv, ReachInv, OpStep PROVE ReachInv'
    OBVIOUS
  <1>1. pc \in BoundPcs
    BY DEF OpStep, CheckPermissions, CheckPidfd, CheckFingerprint, CheckHandle, SendSignal,
           SignalPidfd, SignalPid, TerminateProcess, IsProcessExited, WaitHandle, WaitPidfd,
           WaitForSingleObject, WaitPoll, BoundPcs
  <1>2. ASSUME NEW r \in {"NotRunning", "Reused", "Io"}, Return(r) PROVE ReachInv'
    BY <1>2 DEF ReachInv, Return
  <1>3. ASSUME pc = "wait", NEW r, Return(r) PROVE ReachInv'
    BY <1>3 DEF ReachInv, Return, Held, osVars, handleVars, callVars
  <1>4. ASSUME NEW l \in {"checkSend", "signal", "send", "query"}, Goto(l) PROVE ReachInv'
    BY <1>4 DEF ReachInv, Goto
  <1>5. ASSUME Permitted PROVE ReachInv'
    BY <1>4, <1>5 DEF Permitted, ReachInv, Goto, callVars
  <1>6. ASSUME NEW i \in Instances, Deliver(i), Held = i \/ status[Held] # "running"
        PROVE  ReachInv'
    BY <1>6 DEF ReachInv, Deliver, Held, osVars, handleVars
  <1>7. CASE CheckPermissions
    BY <1>2, <1>4, <1>5, <1>7
       DEF CheckPermissions, CheckPidfd, CheckFingerprint, CheckHandle, SignalZero, SignalRefused,
           IdentityFails
  <1>8. CASE SendSignal
    <2>1. CASE SignalPidfd
      <3>1. \A i \in Addressed : i \in Instances /\ Held = i
        BY <1>1, <2>1, BoundFacts DEF SignalPidfd, Addressed, Held
      <3> QED
        BY <1>2, <1>6, <2>1, <3>1 DEF SignalPidfd, SignalAddressed, SignalRefused
    <2>2. CASE SignalPid
      <3>1. ASSUME NEW i \in Addressed PROVE i \in Instances /\ (Held = i \/ status[Held] # "running")
        BY <1>1, <2>2, <3>1, BoundFacts
           DEF SignalPid, Addressed, Holders, HoldsPid, Held, IInv, PidUnique
      <3> QED
        BY <1>2, <1>4, <1>6, <2>2, <3>1
           DEF SignalPid, SignalAddressed, SignalRefused, IdentityFails
    <2>3. CASE TerminateProcess
      <3>1. Held = ref /\ ref \in Instances
        BY <1>1, <2>3, BoundFacts DEF TerminateProcess, Held
      <3> QED
        BY <1>4, <1>6, <2>3, <3>1 DEF TerminateProcess
    <2>4. CASE IsProcessExited
      <3>1. ASSUME SeenExited, Goto("wait") PROVE ReachInv'
        BY <2>4, <3>1 DEF IsProcessExited, SeenExited, ReachInv, Goto, Held, osVars, handleVars
      <3> QED
        BY <1>2, <2>4, <3>1 DEF IsProcessExited
    <2> QED
      BY <1>8, <2>1, <2>2, <2>3, <2>4 DEF SendSignal
  <1>9. CASE WaitHandle
    BY <1>3, <1>9 DEF WaitHandle, WaitPidfd, WaitForSingleObject
  <1>10. CASE WaitPoll
    <2>1. ASSUME pc = "wait", UNCHANGED <<osVars, handleVars, op, pc, result, signalled>>
          PROVE  ReachInv'
      BY <2>1 DEF ReachInv, Held, osVars, handleVars
    <2> QED
      BY <1>3, <1>10, <2>1 DEF WaitPoll
  <1> QED
    BY <1>7, <1>8, <1>9, <1>10 DEF OpStep

(* A kill() or terminate() that returns without an error has signalled the *)
(* process of its handle or found it dead, on every platform and however   *)
(* PIDs are recycled: a failed TerminateProcess is not taken for success   *)
(* unless the process has exited.                                          *)
THEOREM KillsReachTheirTarget == Spec => []KillReachesTarget
  <1>1. Init => ReachInv
    BY DEF Init, ReachInv
  <1>2. IInv /\ ReachInv /\ [Next]_vars => ReachInv'
    <2> SUFFICES ASSUME IInv, ReachInv, [Next]_vars PROVE ReachInv'
      OBVIOUS
    <2>1. CASE UNCHANGED vars
      BY <2>1 DEF vars, osVars, handleVars, callVars, ReachInv, Held
    <2>2. ASSUME NEW e, BindFails(e) PROVE ReachInv'
      BY <2>2 DEF BindFails, ReachInv
    <2>3. CASE BindStep
      BY <2>2, <2>3
         DEF BindStep, BindRead, BindOpen, OpenPidfd, OpenHandle, KeepFingerprint, OpenFails,
             Opened, BindVerify, ReachInv
    <2>4. CASE ReadFails \/ SpawnFails
      BY <2>2, <2>4 DEF ReadFails, SpawnFails, ReachInv
    <2>5. CASE WaitFails
      BY <2>5 DEF WaitFails, Return, ReachInv
    <2>6. ASSUME NEW p \in Pids, Bind(p) PROVE ReachInv'
      BY <2>6 DEF Bind, ReachInv
    <2>7. ASSUME NEW i \in Instances, Spawn(i) PROVE ReachInv'
      BY <2>7 DEF Spawn, ReachInv
    <2>8. ASSUME NEW o \in {"kill", "terminate", "wait"}, NEW t \in Timeouts, Call(o, t)
          PROVE  ReachInv'
      BY <2>8 DEF Call, ReachInv
    <2> QED
      BY <2>1, <2>3, <2>4, <2>5, <2>6, <2>7, <2>8, ReachEnvironment, ReachOpStep
      DEF Next, Client
  <1>3. ReachInv => KillReachesTarget
    BY DEF ReachInv, KillReachesTarget
  <1> QED
    BY <1>1, <1>2, <1>3, Inductive, PTL DEF Spec

-----------------------------------------------------------------------------
(* A handle whose process is gone.                                         *)

(* An operation was begun on it when sent had been signalled: its checks   *)
(* and its signal find nobody, and on macOS it does not get past the first *)
(* look at the process table.                                              *)
Harmless(sent) ==
  /\ Bound /\ ~HoldsPid(target)
  /\ signalled = sent
  /\ platform = "macos" => pc \in {"check", "bound"}

\* A handle that was opened refers to nobody any more, and where start times
\* can be relied on nobody has the fingerprint of a process that is gone.
LEMMA NobodyLeft ==
  ASSUME IInv, "macos" \notin FastReuse, Bound, ~HoldsPid(target)
  PROVE  /\ target \in Instances
         /\ platform # "macos" => ~HoldsPid(ref)
         /\ platform = "macos" => ~IdentityHolds
  <1>1. target \in Instances /\ MetadataOf(target) = fp /\ status[target] # "unborn"
    BY BoundFacts DEF IInv, Bound, Seen, SeenInv
  <1>2. platform # "macos" => ~HoldsPid(ref)
    BY BoundFacts DEF Bound
  <1>3. ASSUME platform = "macos", NEW i \in Listed(fp.pid), Unchanged(i) PROVE FALSE
    <2>1. i \in Instances /\ HoldsPid(i) /\ status[i] # "unborn"
      BY <1>3 DEF Listed, Holders, HoldsPid
    <2>2. pid[i] = pid[target] /\ start[i] = start[target]
      BY <1>1, <1>3 DEF Unchanged, MetadataOf
    <2> QED
      BY <1>1, <1>3, <2>1, <2>2 DEF IInv, BirthUnique
  <1> QED
    BY <1>1, <1>2, <1>3 DEF IdentityHolds

\* The steps of an operation on such a handle signal nobody.
LEMMA HarmlessOperation ==
  ASSUME IInv, "macos" \notin FastReuse, NEW sent, Harmless(sent), OpStep
  PROVE  Harmless(sent)'
  <1> USE DEF Harmless
  <1>1. /\ target \in Instances
        /\ platform # "macos" => ref \in Instances /\ ~HoldsPid(ref)
        /\ platform = "macos" => ~IdentityHolds
    BY NobodyLeft, BoundFacts DEF Bound
  <1>2. ASSUME UNCHANGED <<osVars, handleVars, signalled>>, pc' \in BoundPcs,
               platform = "macos" => pc' \in {"check", "bound"}
        PROVE  Harmless(sent)'
    BY <1>2 DEF osVars, handleVars, Bound, HoldsPid
  <1>3. ASSUME NEW r, Return(r) PROVE Harmless(sent)'
    BY <1>2, <1>3 DEF Return, osVars, handleVars, BoundPcs
  <1>4. ASSUME NEW l \in BoundPcs, Goto(l), platform # "macos" PROVE Harmless(sent)'
    BY <1>2, <1>4 DEF Goto, osVars, handleVars
  <1>5. platform = "linux" => Addressed = {}
    BY <1>1 DEF Addressed
  <1>6. CASE CheckPermissions
    <2>1. CASE CheckPidfd
      BY <1>3, <1>5, <2>1 DEF CheckPidfd, SignalZero, SignalRefused
    <2>2. CASE CheckFingerprint
      BY <1>1, <1>3, <2>2 DEF CheckFingerprint, IdentityFails
    <2>3. CASE CheckHandle
      BY <1>4, <2>3 DEF CheckHandle, Permitted, BoundPcs
    <2> QED
      BY <1>6, <2>1, <2>2, <2>3 DEF CheckPermissions
  <1>7. CASE SendSignal
    <2>1. CASE SignalPidfd
      BY <1>3, <1>5, <2>1 DEF SignalPidfd, SignalAddressed, SignalRefused
    <2>2. CASE SignalPid
      BY <2>2 DEF SignalPid
    <2>3. CASE TerminateProcess
      <3>1. status[ref] # "running" /\ platform = "windows"
        BY <1>1, <2>3 DEF TerminateProcess, HoldsPid
      <3>2. ASSUME Deliver(ref) PROVE Harmless(sent)'
        BY <1>2, <3>1, <3>2 DEF Deliver, osVars, handleVars, BoundPcs
      <3> QED
        BY <1>4, <2>3, <3>1, <3>2 DEF TerminateProcess, BoundPcs
    <2>4. CASE IsProcessExited
      BY <1>3, <1>4, <2>4 DEF IsProcessExited, BoundPcs
    <2> QED
      BY <1>7, <2>1, <2>2, <2>3, <2>4 DEF SendSignal
  <1>8. CASE WaitHandle
    BY <1>3, <1>8 DEF WaitHandle, WaitPidfd, WaitForSingleObject
  <1>9. CASE WaitPoll
    BY <1>9 DEF WaitPoll
  <1> QED
    BY <1>6, <1>7, <1>8, <1>9 DEF OpStep

\* Nothing makes such a handle dangerous again.
LEMMA StaysHarmless ==
  ASSUME IInv, "macos" \notin FastReuse, NEW sent, Harmless(sent), [Next]_vars
  PROVE  Harmless(sent)'
  <1> USE DEF Harmless
  <1>1. target \in Instances /\ status[target] # "unborn"
    BY NobodyLeft DEF IInv, Bound, Seen, SeenInv
  <1>2. CASE UNCHANGED vars
    BY <1>2 DEF vars, osVars, handleVars, Bound, HoldsPid
  <1>3. CASE Environment
    <2>1. Aged(target)
      BY <1>1, <1>3, EnvironmentAges DEF IInv
    <2>2. UNCHANGED <<platform, handleVars, pc, signalled>>
      BY <1>3 DEF Environment, Tick, StartProcess, Create, Exit, Reap, Exec
    <2> QED
      BY <1>1, <2>1, <2>2 DEF Aged, handleVars, Bound, HoldsPid
  <1>4. ASSUME NEW p \in Pids, Bind(p) PROVE FALSE
    BY <1>4 DEF Bind, Bound, BoundPcs
  <1>5. ASSUME NEW i \in Instances, Spawn(i) PROVE FALSE
    BY <1>5 DEF Spawn, Bound, BoundPcs
  <1>6. CASE BindStep
    BY <1>6 DEF BindStep, BindRead, BindOpen, OpenPidfd, OpenHandle, KeepFingerprint, OpenFails,
                BindVerify, Bound, BoundPcs
  <1>7. ASSUME NEW o \in {"kill", "terminate", "wait"}, NEW t \in Timeouts, Call(o, t)
        PROVE  Harmless(sent)'
    BY <1>7 DEF Call, osVars, handleVars, Bound, BoundPcs, HoldsPid
  <1>8. CASE OpStep
    BY <1>8, HarmlessOperation
  <1>9. CASE SpawnFails \/ ReadFails
    BY <1>9 DEF SpawnFails, ReadFails, Bound, BoundPcs
  <1>10. CASE WaitFails
    <2>1. platform # "macos"
      BY <1>10 DEF WaitFails
    <2> QED
      BY <1>10, <2>1 DEF WaitFails, Return, osVars, handleVars, Bound, BoundPcs, HoldsPid
  <1> QED
    BY <1>2, <1>3, <1>4, <1>5, <1>6, <1>7, <1>8, <1>9, <1>10 DEF Next, Client

(* A handle whose process is gone never signals again, on Linux and        *)
(* Windows however fast PIDs are recycled, on macOS where start times tell *)
(* the users of a PID apart: whatever operations follow, and whoever has   *)
(* the PID then.                                                           *)
THEOREM DeadHandlesAreHarmless ==
  ASSUME "macos" \notin FastReuse
  PROVE  Spec => DeadHandleNeverSignals
  <1>1. ASSUME NEW sent \in SUBSET Instances
        PROVE  Spec => SilentSince(sent)
    <2>1. pc = "check" /\ status[target] = "gone" /\ signalled = sent => Harmless(sent)
      BY DEF Harmless, HoldsPid, Bound, BoundPcs
    <2>2. IInv /\ Harmless(sent) /\ [Next]_vars => Harmless(sent)'
      BY StaysHarmless
    <2>3. Harmless(sent) => signalled = sent
      BY DEF Harmless
    <2> QED
      BY <2>1, <2>2, <2>3, Inductive, PTL DEF Spec, SilentSince
  <1> QED
    BY <1>1 DEF DeadHandleNeverSignals
=============================================================================
