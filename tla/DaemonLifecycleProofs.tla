------------------------ MODULE DaemonLifecycleProofs ------------------------
(* Proofs about DaemonLifecycle.                                           *)
EXTENDS DaemonLifecycle, FiniteSetTheorems, TLAPS

-----------------------------------------------------------------------------
(* The inductive invariant of clients that do not coordinate.              *)

Born(d) == dstate[d] # "unborn"

(* The steps that use a process, those before there is one, and those that *)
(* take a daemon for dead.                                                 *)
Process == {"bindPid", "hung", "terminate", "awaitTerm", "kill", "awaitKill",
            "bindChild", "launch", "giveUp"}
NoProcess == {"start", "checkLock", "checkSocket", "tryConnect", "readPid", "offline"}
Cleaning == {"stale", "rmSocket", "rmLock"}

(* Whoever left a trace, or is bound, has been started.                    *)
TracesInv ==
  /\ \A c \in Clients : bound[c] # None => Born(bound[c])
  /\ lock.pid # None => Born(lock.pid)
  /\ socket # None => dstate[socket] \in {"serving", "dead"}

(* A client binds nothing before it has read a PID or has a child.         *)
UnboundInv == \A c \in Clients : cpc[c] \in NoProcess => bound[c] = None

AttemptsInv == \A c \in Clients : cpc[c] = "launch" => retries[c] > 0

IInv == TypeOK /\ TracesInv /\ UnboundInv /\ AttemptsInv /\ KilledIsDead

-----------------------------------------------------------------------------
(* The inductive invariant of clients that take turns.                     *)

(* Clients coordinate, finish their calls, see the files that are there    *)
(* and expect the daemon's own name; a child that was started can be bound *)
(* while it lives, and killed when it is given up.                         *)
TakeTurns == Serialized /\ Faults \cap {"look", "client", "bind", "spare", "name"} = {}

(* The steps of a launch that has a child.                                 *)
Launching == {"bindChild", "launch", "giveUp"}

Free(c)    == cpc[c] \in {"start", "connected", "failed"}
NobodyLive == \A d \in Daemons : ~Live(d)

(* One client at a time looks at the files or changes them.                *)
TurnsInv == \A c, o \in Clients : c # o => Free(c) \/ Free(o)

Awaits(c, l, d) == l \in Launching /\ bound[c] = d

(* A live daemon has left every trace of its progress, and somebody waits  *)
(* for it unless it serves.                                                *)
LiveInv ==
  \A d \in Daemons : Live(d) =>
    /\ dstate[d] \in {"locked", "ready", "serving"} => lock.holder = d /\ lock.exists
    /\ dstate[d] \in {"ready", "serving"} => lock.pid = d
    /\ dstate[d] = "serving" => socket = d
    /\ \/ dstate[d] = "serving"
       \/ \E c \in Clients : Awaits(c, cpc[c], d)

SingleInv == \A d, e \in Daemons : Live(d) /\ Live(e) => d = e

(* What a client has found out: that no daemon lives, or which one does.   *)
Knows(c, l) ==
  /\ l \in Cleaning \cup {"checkSocket", "offline"} => NobodyLive
  /\ l \in Process => \A d \in Daemons : Live(d) => d = bound[c]

KnownInv == \A c \in Clients : Knows(c, cpc[c])

SerialInv == TurnsInv /\ LiveInv /\ SingleInv /\ KnownInv

-----------------------------------------------------------------------------
(* The first invariant is preserved.                                       *)

\* A lock file that its holder keeps locked is a lock file.
LEMMA LockedFileType ==
  ASSUME NEW h \in Pid, NEW p \in Pid
  PROVE  [holder |-> h, pid |-> p, exists |-> TRUE] \in LockFile
  <1> DEFINE f == [holder |-> h, pid |-> p, exists |-> TRUE]
  <1>1. f.exists \in BOOLEAN
    OBVIOUS
  <1> QED
    BY <1>1 DEF LockFile

\* An empty directory without clients satisfies the invariant.
LEMMA InitInv == Init => IInv
  <1> SUFFICES ASSUME Init PROVE IInv
    OBVIOUS
  <1>1. TypeOK
    BY LifecycleAssumption DEF Init, TypeOK, LockFile, NoFile, Pid, AtRest, CallPcs
  <1>2. TracesInv /\ UnboundInv /\ AttemptsInv /\ KilledIsDead
    BY DEF Init, TracesInv, UnboundInv, AttemptsInv, KilledIsDead, NoFile, Cleaning
  <1> QED
    BY <1>1, <1>2 DEF IInv

(* A daemon that was started stays so, and comes back from no death.       *)
Ages ==
  /\ \A d \in Daemons : (Born(d) => Born(d)') /\ (Born(d) /\ Alive(d)' => Alive(d))
  /\ lock'.pid # None => lock'.pid \in Daemons /\ Born(lock.pid)'
  /\ socket' # None => dstate'[socket'] \in {"serving", "dead"}

(* What daemons do keeps the invariant.                                    *)
LEMMA AgesInv ==
  ASSUME IInv, TypeOK', Ages, UNCHANGED clientVars
  PROVE  IInv'
  <1>1. UNCHANGED <<cpc, bound, retries>>
    BY DEF clientVars
  <1>2. \A c \in Clients : bound[c] # None => bound[c] \in Daemons
    BY DEF IInv, TypeOK, Pid
  <1>3. TracesInv'
    BY <1>1, <1>2 DEF IInv, TracesInv, Ages
  <1>4. KilledIsDead'
    BY <1>1, <1>2 DEF IInv, TracesInv, KilledIsDead, Ages
  <1>5. UnboundInv' /\ AttemptsInv'
    BY <1>1 DEF IInv, UnboundInv, AttemptsInv
  <1> QED
    BY <1>3, <1>4, <1>5 DEF IInv

\* What a daemon does on its own: locking, writing its PID, binding, dying.
LEMMA DaemonInv ==
  ASSUME IInv, NEW d \in Daemons, Daemon(d)
  PROVE  IInv'
  <1> USE DEF fileVars, clientVars, Running, Live, Alive, Born
  <1>1. UNCHANGED clientVars
    BY DEF Daemon, DaemonLock, DaemonWritePid, DaemonBind, DaemonExit, DaemonWedge, DaemonDie
  <1>2. TypeOK'
    <2> USE DEF IInv, TypeOK, LockFile, NoFile, Pid
    <2>1. CASE DaemonLock(d)
      <3>1. dstate' \in [Daemons -> {"unborn", "starting", "locked", "ready", "serving", "dead"}]
        BY <2>1 DEF DaemonLock
      <3>2. lock \in LockFile /\ lock.pid \in Pid /\ d \in Pid
        OBVIOUS
      <3>3. lock' = lock \/ lock' = [holder |-> d, pid |-> lock.pid, exists |-> TRUE]
        BY <2>1 DEF DaemonLock
      <3>4. lock' \in LockFile
        BY <3>2, <3>3, LockedFileType, Zenon
      <3> QED
        BY <2>1, <3>1, <3>4 DEF DaemonLock
    <2>2. CASE DaemonWritePid(d)
      BY <2>2 DEF DaemonWritePid
    <2>3. CASE DaemonBind(d)
      BY <2>3 DEF DaemonBind
    <2>4. CASE DaemonExit(d)
      BY <2>4 DEF DaemonExit
    <2>5. CASE DaemonWedge(d)
      BY <2>5 DEF DaemonWedge
    <2>6. CASE DaemonDie(d)
      BY <2>6 DEF DaemonDie
    <2> QED
      BY <2>1, <2>2, <2>3, <2>4, <2>5, <2>6 DEF Daemon
  <1>3. Ages
    <2> USE LifecycleAssumption DEF IInv, TypeOK, TracesInv, LockFile, NoFile, Pid, Ages
    <2>1. CASE DaemonLock(d)
      BY <2>1 DEF DaemonLock
    <2>2. CASE DaemonWritePid(d)
      BY <2>2 DEF DaemonWritePid
    <2>3. CASE DaemonBind(d)
      BY <2>3 DEF DaemonBind
    <2>4. CASE DaemonExit(d)
      BY <2>4 DEF DaemonExit
    <2>5. CASE DaemonWedge(d)
      BY <2>5 DEF DaemonWedge
    <2>6. CASE DaemonDie(d)
      BY <2>6 DEF DaemonDie
    <2> QED
      BY <2>1, <2>2, <2>3, <2>4, <2>5, <2>6 DEF Daemon
  <1> QED
    BY <1>1, <1>2, <1>3, AgesInv

(* What a client that stands at step l has to hold.                        *)
MayStand(c, l) ==
  /\ l \in Process => bound[c] # None
  /\ l \in NoProcess => bound[c] = None
  /\ l = "launch" => retries[c] > 0
  /\ l \in Cleaning /\ bound[c] # None => ~Alive(bound[c])

\* Where the invariant lets a client stand, with what it is bound to.
LEMMA StandsWell ==
  ASSUME IInv, NEW c \in Clients
  PROVE  /\ MayStand(c, cpc[c])
         /\ bound[c] # None => bound[c] \in Daemons /\ Born(bound[c])
  BY DEF IInv, TypeOK, Pid, TracesInv, UnboundInv, AttemptsInv, KilledIsDead, MayStand, Process,
         NoProcess, Cleaning

(* A client that moves to a step where it may stand, and binds at most a   *)
(* process that has been started, keeps the invariant.                     *)
LEMMA MoveInv ==
  ASSUME IInv, NEW c \in Clients, NEW l \in AtRest \cup CallPcs, Goto(c, l), MayStand(c, l)',
         Ages,
         dstate' \in [Daemons -> {"unborn", "starting", "locked", "ready", "serving", "dead"}],
         wedged' \subseteq Daemons, doomed' \subseteq Daemons, lock' \in LockFile, socket' \in Pid,
         bound' \in [Clients -> Pid], retries' \in [Clients -> 0..MaxRetries],
         bound'[c] # None => Born(bound[c])',
         \A o \in Clients \ {c} : bound'[o] = bound[o] /\ retries'[o] = retries[o]
  PROVE  IInv'
  <1>1. /\ cpc' \in [Clients -> AtRest \cup CallPcs] /\ cpc'[c] = l
        /\ \A o \in Clients \ {c} : cpc'[o] = cpc[o]
    BY DEF IInv, TypeOK, Goto
  <1>2. ASSUME NEW o \in Clients \ {c}
        PROVE  MayStand(o, cpc[o])' /\ (bound'[o] # None => Born(bound[o])')
    <2>1. /\ MayStand(o, cpc[o])
          /\ bound[o] # None => bound[o] \in Daemons /\ Born(bound[o])
      BY StandsWell
    <2> QED
      BY <1>1, <2>1 DEF MayStand, Ages
  <1>3. \A o \in Clients : MayStand(o, cpc[o])' /\ (bound'[o] # None => Born(bound[o])')
    BY <1>1, <1>2 DEF MayStand
  <1>4. TypeOK'
    BY <1>1, <1>3 DEF IInv, TypeOK, MayStand, Process
  <1>5. TracesInv' /\ UnboundInv' /\ AttemptsInv' /\ KilledIsDead'
    BY <1>3
       DEF Ages, TracesInv, UnboundInv, AttemptsInv, KilledIsDead, MayStand, NoProcess, Cleaning
  <1> QED
    BY <1>4, <1>5 DEF IInv

\* A step that leaves daemons and files alone ages everything.
LEMMA AgesWithFiles ==
  ASSUME IInv, UNCHANGED <<dstate, fileVars>>
  PROVE  Ages
  BY DEF IInv, TypeOK, LockFile, Pid, TracesInv, Ages, fileVars, Born, Alive

\* A step that only decides where its client goes next, to a place it may be.
LEMMA DecideInv ==
  ASSUME IInv, NEW c \in Clients, NEW l \in AtRest \cup CallPcs, Decide(c, l), MayStand(c, l)
  PROVE  IInv'
  <1>1. UNCHANGED <<dstate, wedged, doomed, lock, socket, fileVars, bound, retries>> /\ Goto(c, l)
    BY DEF Decide, daemonVars, fileVars
  <1>2. MayStand(c, l)' /\ (bound'[c] # None => Born(bound[c])')
    BY <1>1, StandsWell DEF MayStand, Alive, Born
  <1> QED
    BY <1>1, <1>2, AgesWithFiles, MoveInv DEF IInv, TypeOK

\* A call that fails ends where its client may always be.
LEMMA FailsInv ==
  ASSUME IInv, NEW c \in Clients, Fails(c)
  PROVE  IInv'
  BY DecideInv DEF Fails, MayStand, Process, NoProcess, Cleaning, AtRest

(* The builder.                                                            *)
LEMMA ConnectInv ==
  ASSUME IInv, NEW c \in Clients,
         \/ Connect(c) \/ CheckLock(c) \/ CheckSocket(c) \/ TryConnect(c) \/ ReadPid(c)
         \/ BindPid(c)
  PROVE  IInv'
  <1> USE StandsWell DEF MayStand, Process, NoProcess, Cleaning, AtRest, Handles, CallPcs
  <1>1. CASE Connect(c)
    BY <1>1, DecideInv DEF Connect
  <1>2. CASE CheckLock(c)
    BY <1>2, DecideInv DEF CheckLock
  <1>3. ASSUME Goto(c, "stale"), bound' = [bound EXCEPT ![c] = None],
               UNCHANGED <<daemonVars, fileVars, retries>>
        PROVE  IInv'
    <2>1. UNCHANGED <<dstate, wedged, doomed, lock, socket, fileVars, retries>>
      BY <1>3 DEF daemonVars, fileVars
    <2>2. /\ bound' \in [Clients -> Pid] /\ bound'[c] = None
          /\ \A o \in Clients \ {c} : bound'[o] = bound[o]
      BY <1>3 DEF IInv, TypeOK, Pid
    <2> QED
      BY <1>3, <2>1, <2>2, AgesWithFiles, MoveInv DEF IInv, TypeOK
  <1>4. CASE CheckSocket(c)
    BY <1>3, <1>4, DecideInv DEF CheckSocket
  <1>5. CASE TryConnect(c)
    BY <1>5, DecideInv DEF TryConnect
  <1>6. CASE ReadPid(c)
    <2>1. UNCHANGED <<dstate, wedged, doomed, lock, socket, fileVars, retries>>
      BY <1>6 DEF ReadPid, daemonVars, fileVars
    <2>2. PICK p \in ReadAsU32 :
            /\ bound' = [bound EXCEPT ![c] = p]
            /\ Goto(c, IF p = None THEN "stale" ELSE "bindPid")
      BY <1>6 DEF ReadPid
    <2>3. p \in Pid /\ (p # None => Born(p))
      BY <2>2 DEF IInv, TypeOK, LockFile, Pid, TracesInv, ReadAsU32
    <2>4. /\ bound' \in [Clients -> Pid] /\ bound'[c] = p
          /\ \A o \in Clients \ {c} : bound'[o] = bound[o]
      BY <2>2, <2>3 DEF IInv, TypeOK
    <2>5. CASE p = None
      BY <2>1, <2>2, <2>4, <2>5, AgesWithFiles, MoveInv DEF IInv, TypeOK
    <2>6. CASE p # None
      <3>1. Goto(c, "bindPid") /\ MayStand(c, "bindPid")' /\ Born(bound[c])'
        BY <2>1, <2>2, <2>3, <2>4, <2>6 DEF Born
      <3> QED
        BY <2>1, <2>4, <3>1, AgesWithFiles, MoveInv DEF IInv, TypeOK
    <2> QED
      BY <2>5, <2>6
  <1>7. CASE BindPid(c)
    BY <1>3, <1>7, DecideInv, FailsInv DEF BindPid
  <1> QED
    BY <1>1, <1>2, <1>4, <1>5, <1>6, <1>7

(* kill().                                                                 *)
LEMMA KillInv ==
  ASSUME IInv, NEW c \in Clients,
         Kill(c) \/ Terminate(c) \/ AwaitTerm(c) \/ ForceKill(c) \/ AwaitKill(c)
  PROVE  IInv'
  <1> USE StandsWell DEF MayStand, Process, NoProcess, Cleaning, AtRest, Handles, CallPcs
  <1>1. CASE Kill(c)
    BY <1>1, DecideInv DEF Kill
  <1>2. CASE Terminate(c)
    BY <1>2, DecideInv, FailsInv DEF Terminate
  <1>3. CASE AwaitTerm(c)
    BY <1>3, DecideInv, FailsInv DEF AwaitTerm
  <1>4. CASE ForceKill(c)
    <2>1. ASSUME cpc[c] = "kill", doomed' = doomed \cup {bound[c]}, Goto(c, "awaitKill"),
                 UNCHANGED <<dstate, wedged, fileVars, bound, retries>>
          PROVE  IInv'
      <3>1. UNCHANGED <<lock, socket>> /\ doomed' \subseteq Daemons
        BY <2>1 DEF fileVars, IInv, TypeOK
      <3>2. MayStand(c, "awaitKill")' /\ (bound'[c] # None => Born(bound[c])')
        BY <2>1 DEF Born
      <3> QED
        BY <2>1, <3>1, <3>2, AgesWithFiles, MoveInv DEF IInv, TypeOK
    <2> QED
      BY <1>4, <2>1, DecideInv, FailsInv DEF ForceKill
  <1>5. CASE AwaitKill(c)
    BY <1>5, DecideInv, FailsInv DEF AwaitKill
  <1> QED
    BY <1>1, <1>2, <1>3, <1>4, <1>5

(* clean().                                                                *)
LEMMA CleanInv ==
  ASSUME IInv, NEW c \in Clients, Clean(c) \/ RemoveSocket(c) \/ RemoveLock(c)
  PROVE  IInv'
  <1> USE StandsWell DEF MayStand, Process, NoProcess, Cleaning, AtRest, Handles, CallPcs
  <1>1. CASE Clean(c)
    BY <1>1, DecideInv DEF Clean
  <1>2. ASSUME cpc[c] = "rmSocket", socket' = None,
               NEW l \in {"failed", "rmLock"}, Goto(c, l),
               UNCHANGED <<daemonVars, lock, bound, retries>>
        PROVE  IInv'
    <2>1. UNCHANGED <<dstate, wedged, doomed>> /\ socket' \in Pid
      BY <1>2 DEF daemonVars, Pid
    <2>2. Ages
      BY <1>2, <2>1 DEF IInv, TypeOK, LockFile, Pid, TracesInv, Ages, Born, Alive
    <2>3. MayStand(c, l)' /\ (bound'[c] # None => Born(bound[c])')
      BY <1>2, <2>1 DEF Born, Alive
    <2> QED
      BY <1>2, <2>1, <2>2, <2>3, MoveInv DEF IInv, TypeOK
  <1>3. CASE RemoveSocket(c)
    BY <1>2, <1>3, FailsInv DEF RemoveSocket
  <1>4. ASSUME cpc[c] = "rmLock", lock' = NoFile, Goto(c, "offline"),
               bound' = [bound EXCEPT ![c] = None],
               UNCHANGED <<daemonVars, socket, retries>>
        PROVE  IInv'
    <2>1. UNCHANGED <<dstate, wedged, doomed>>
      BY <1>4 DEF daemonVars
    <2>2. lock' \in LockFile /\ lock'.pid = None
      BY <1>4 DEF NoFile, LockFile, Pid
    <2>3. Ages
      BY <1>4, <2>1, <2>2 DEF IInv, TypeOK, TracesInv, Ages, Born, Alive
    <2>4. /\ bound' \in [Clients -> Pid] /\ bound'[c] = None
          /\ \A o \in Clients \ {c} : bound'[o] = bound[o]
      BY <1>4 DEF IInv, TypeOK, Pid
    <2> QED
      BY <1>4, <2>1, <2>2, <2>3, <2>4, MoveInv DEF IInv, TypeOK
  <1>5. CASE RemoveLock(c)
    BY <1>4, <1>5, FailsInv DEF RemoveLock
  <1> QED
    BY <1>1, <1>3, <1>5

(* launch().                                                               *)
LEMMA LaunchInv ==
  ASSUME IInv, NEW c \in Clients, SpawnFails(c) \/ Launch(c) \/ BindChild(c) \/ LaunchTry(c) \/ GiveUp(c)
  PROVE  IInv'
  <1> USE StandsWell DEF MayStand, Process, NoProcess, Cleaning, AtRest, Handles, CallPcs
  <1>1. CASE SpawnFails(c)
    BY <1>1, FailsInv DEF SpawnFails
  <1>2. CASE Launch(c)
    <2>1. PICK d \in Daemons :
            /\ dstate[d] = "unborn"
            /\ dstate' = [dstate EXCEPT ![d] = "starting"]
            /\ bound' = [bound EXCEPT ![c] = d]
      BY <1>2 DEF Launch
    <2>2. UNCHANGED <<wedged, doomed, lock, socket, retries>> /\ Goto(c, "bindChild")
      BY <1>2 DEF Launch, fileVars
    <2>3. /\ bound' \in [Clients -> Pid] /\ bound'[c] = d
          /\ \A o \in Clients \ {c} : bound'[o] = bound[o]
      BY <2>1 DEF IInv, TypeOK, Pid
    <2>4. dstate' \in [Daemons -> {"unborn", "starting", "locked", "ready", "serving", "dead"}]
      BY <2>1 DEF IInv, TypeOK
    <2>5. Ages
      BY <2>1, <2>2 DEF IInv, TypeOK, LockFile, Pid, TracesInv, Ages, Born, Alive
    <2>6. MayStand(c, "bindChild")' /\ Born(bound[c])'
      BY <2>1, <2>3, LifecycleAssumption DEF IInv, TypeOK, Born
    <2> QED
      BY <2>2, <2>3, <2>4, <2>5, <2>6, MoveInv DEF IInv, TypeOK
  <1>3. CASE BindChild(c)
    <2>1. ASSUME cpc[c] = "bindChild", Goto(c, "launch"),
                 retries' = [retries EXCEPT ![c] = MaxRetries],
                 UNCHANGED <<daemonVars, fileVars, bound>>
          PROVE  IInv'
      <3>1. UNCHANGED <<dstate, wedged, doomed, lock, socket>>
        BY <2>1 DEF daemonVars, fileVars
      <3>2. /\ retries' \in [Clients -> 0..MaxRetries] /\ retries'[c] = MaxRetries
            /\ \A o \in Clients \ {c} : retries'[o] = retries[o]
        BY <2>1, LifecycleAssumption DEF IInv, TypeOK
      <3>3. MayStand(c, "launch")' /\ Born(bound[c])'
        BY <2>1, <3>1, <3>2, LifecycleAssumption DEF Born
      <3> QED
        BY <2>1, <3>1, <3>2, <3>3, AgesWithFiles, MoveInv DEF IInv, TypeOK
    <2> QED
      BY <1>3, <2>1, DecideInv DEF BindChild
  <1>4. ASSUME cpc[c] = "launch", retries' = [retries EXCEPT ![c] = @ - 1],
               Goto(c, IF retries[c] = 1 THEN "giveUp" ELSE "launch"),
               UNCHANGED <<daemonVars, fileVars, bound>>
        PROVE  IInv'
    <2>1. UNCHANGED <<dstate, wedged, doomed, lock, socket>>
      BY <1>4 DEF daemonVars, fileVars
    <2>2. retries[c] \in 0..MaxRetries /\ retries[c] > 0
      BY <1>4 DEF IInv, TypeOK
    <2>3. /\ retries' \in [Clients -> 0..MaxRetries] /\ retries'[c] = retries[c] - 1
          /\ \A o \in Clients \ {c} : retries'[o] = retries[o]
      BY <1>4, <2>2, LifecycleAssumption DEF IInv, TypeOK
    <2>4. bound'[c] # None /\ Born(bound[c])'
      BY <1>4, <2>1 DEF Born
    <2>5. CASE retries[c] = 1
      BY <1>4, <2>1, <2>3, <2>4, <2>5, AgesWithFiles, MoveInv DEF IInv, TypeOK
    <2>6. CASE retries[c] # 1
      <3>1. retries'[c] > 0
        BY <2>2, <2>3, <2>6, LifecycleAssumption
      <3> QED
        BY <1>4, <2>1, <2>3, <2>4, <2>6, <3>1, AgesWithFiles, MoveInv DEF IInv, TypeOK
    <2> QED
      BY <2>5, <2>6
  <1>5. CASE LaunchTry(c)
    BY <1>4, <1>5, DecideInv DEF LaunchTry
  <1>6. CASE GiveUp(c)
    <2>1. UNCHANGED <<lock, socket>> /\ doomed' \subseteq Daemons
      BY <1>6 DEF GiveUp, fileVars, IInv, TypeOK
    <2>2. bound'[c] # None => Born(bound[c])'
      BY <1>6 DEF GiveUp, Born
    <2> QED
      BY <1>6, <2>1, <2>2, AgesWithFiles, MoveInv DEF GiveUp, IInv, TypeOK
  <1> QED
    BY <1>1, <1>2, <1>5, <1>6, <1>3

\* A handle that is dropped and a client that crashes begin anew.
LEMMA RestartInv ==
  ASSUME IInv, NEW c \in Clients, Drop(c) \/ ClientCrash(c)
  PROVE  IInv'
  <1>1. /\ Goto(c, "start")
        /\ bound' = [bound EXCEPT ![c] = None] /\ retries' = [retries EXCEPT ![c] = 0]
        /\ UNCHANGED <<dstate, wedged, doomed, lock, socket, fileVars>>
    BY DEF Drop, ClientCrash, Restart, daemonVars, fileVars
  <1>2. /\ bound' \in [Clients -> Pid] /\ bound'[c] = None
        /\ retries' \in [Clients -> 0..MaxRetries]
        /\ \A o \in Clients \ {c} : bound'[o] = bound[o] /\ retries'[o] = retries[o]
    BY <1>1, LifecycleAssumption DEF IInv, TypeOK, Pid
  <1>3. MayStand(c, "start")' /\ "start" \in AtRest \cup CallPcs
    BY <1>2 DEF MayStand, Process, AtRest
  <1> QED
    BY <1>1, <1>2, <1>3, AgesWithFiles, MoveInv DEF IInv, TypeOK

\* Every step preserves the invariant: daemons, calls, decisions, restarts.
LEMMA NextInv == IInv /\ [Next]_vars => IInv'
  <1> SUFFICES ASSUME IInv, [Next]_vars PROVE IInv'
    OBVIOUS
  <1>1. ASSUME NEW c \in Clients, Client(c) PROVE IInv'
    BY <1>1, ConnectInv, KillInv, CleanInv, LaunchInv, RestartInv DEF Client, CallStep
  <1>2. CASE UNCHANGED vars
    <2>1. UNCHANGED <<dstate, wedged, doomed, lock, socket, cpc, bound, retries, fileVars,
                      clientVars>>
      BY <1>2 DEF vars, daemonVars, fileVars, clientVars
    <2> QED
      BY <2>1, AgesWithFiles, AgesInv DEF IInv, TypeOK
  <1> QED
    BY <1>1, <1>2, DaemonInv DEF Next

(* The first inductive invariant, for any number of clients and daemons    *)
(* and with every fault.                                                   *)
THEOREM Inductive == Spec => []IInv
  BY InitInv, NextInv, PTL DEF Spec

(* Every variable keeps to its type: a step that uses a process has one,   *)
(* and launch makes no more than its number of attempts.                   *)
THEOREM TypeCorrect == Spec => []TypeOK
  <1>1. IInv => TypeOK
    BY DEF IInv
  <1> QED
    BY <1>1, Inductive, PTL

(* kill() and connect() tell the truth about the process they bound: what  *)
(* they declare dead is dead, whatever other clients and daemons do.       *)
THEOREM KilledDaemonsAreDead == Spec => []KilledIsDead
  <1>1. IInv => KilledIsDead
    BY DEF IInv
  <1> QED
    BY <1>1, Inductive, PTL

-----------------------------------------------------------------------------
(* The invariant of clients that take turns is preserved.                  *)

\* Before the first call nobody knows a daemon, and there is none.
LEMMA InitSerial == Init => SerialInv
  BY DEF Init, SerialInv, TurnsInv, Free, LiveInv, SingleInv, KnownInv, Knows, Live, Alive,
         Process, Cleaning

(* The only daemon alive, once nobody waits for one to start.              *)
LEMMA Settled ==
  ASSUME SerialInv, NEW c \in Clients, ~Free(c), cpc[c] \notin Launching,
         NEW d \in Daemons, Live(d)
  PROVE  /\ dstate[d] = "serving" /\ socket = d
         /\ lock.holder = d /\ lock.pid = d /\ lock.exists
  <1>1. \A o \in Clients : cpc[o] \notin Launching
    BY DEF SerialInv, TurnsInv, Free, Launching
  <1> QED
    BY <1>1 DEF SerialInv, LiveInv, Awaits

\* A daemon's own steps while at most one client is in a call.
LEMMA DaemonSerial ==
  ASSUME IInv, SerialInv, NEW d \in Daemons, Daemon(d)
  PROVE  SerialInv'
  <1> USE DEF Live, Alive, Running
  <1>1. UNCHANGED <<cpc, bound>>
    BY DEF Daemon, DaemonLock, DaemonWritePid, DaemonBind, DaemonExit, DaemonWedge, DaemonDie,
           clientVars
  <1>2. \A e \in Daemons : Live(e)' => Live(e)
    BY DEF Daemon, DaemonLock, DaemonWritePid, DaemonBind, DaemonExit, DaemonWedge, DaemonDie,
           IInv, TypeOK
  <1>3. TurnsInv' /\ SingleInv' /\ KnownInv'
    BY <1>1, <1>2 DEF SerialInv, TurnsInv, Free, SingleInv, KnownInv, Knows, NobodyLive
  <1>4. \A o \in Clients, e \in Daemons : Awaits(o, cpc[o], e)' <=> Awaits(o, cpc[o], e)
    BY <1>1 DEF Awaits
  <1>5. LiveInv'
    <2> USE <1>2, <1>4 DEF IInv, TypeOK, SerialInv, LiveInv, SingleInv, fileVars
    <2>1. CASE DaemonLock(d)
      BY <2>1 DEF DaemonLock
    <2>2. CASE DaemonWritePid(d)
      BY <2>2 DEF DaemonWritePid
    <2>3. CASE DaemonBind(d)
      BY <2>3 DEF DaemonBind
    <2>4. CASE DaemonExit(d)
      BY <2>4 DEF DaemonExit
    <2>5. CASE DaemonWedge(d)
      BY <2>5 DEF DaemonWedge
    <2>6. CASE DaemonDie(d)
      BY <2>6 DEF DaemonDie
    <2> QED
      BY <2>1, <2>2, <2>3, <2>4, <2>5, <2>6 DEF Daemon
  <1> QED
    BY <1>3, <1>5 DEF SerialInv

(* A client moves on, knowing what it has to know; it starts a turn only   *)
(* when nobody else has one, touches no file of a live daemon, and stops   *)
(* waiting for its child only when the child serves or is doomed.          *)
LEMMA MoveSerial ==
  ASSUME IInv, SerialInv, NEW c \in Clients, NEW l, Goto(c, l), Knows(c, l)',
         UNCHANGED dstate, doomed \subseteq doomed',
         \A o \in Clients \ {c} : bound'[o] = bound[o],
         UNCHANGED <<lock, socket>> \/ NobodyLive,
         \/ ~Free(c)
         \/ l \in {"start", "connected", "failed"}
         \/ \A o \in Clients \ {c} : Free(o),
         \A d \in Daemons :
           Awaits(c, cpc[c], d) /\ Live(d)' => dstate[d] = "serving" \/ Awaits(c, l, d)'
  PROVE  SerialInv'
  <1>1. /\ cpc'[c] = l
        /\ \A o \in Clients \ {c} : cpc'[o] = cpc[o]
    BY DEF IInv, TypeOK, Goto
  <1>2. \A d \in Daemons : Live(d)' => Live(d)
    BY DEF Live, Alive
  <1>3. TurnsInv'
    BY <1>1 DEF SerialInv, TurnsInv, Free
  <1>4. SingleInv'
    BY <1>2 DEF SerialInv, SingleInv
  <1>5. KnownInv'
    BY <1>1, <1>2 DEF SerialInv, KnownInv, Knows, NobodyLive
  <1>6. LiveInv'
    <2> SUFFICES ASSUME NEW d \in Daemons, Live(d)'
                 PROVE  /\ dstate'[d] \in {"locked", "ready", "serving"}
                             => lock'.holder = d /\ lock'.exists
                        /\ dstate'[d] \in {"ready", "serving"} => lock'.pid = d
                        /\ dstate'[d] = "serving" => socket' = d
                        /\ \/ dstate'[d] = "serving"
                           \/ \E o \in Clients : Awaits(o, cpc[o], d)'
      BY DEF LiveInv
    <2>1. Live(d) /\ UNCHANGED <<lock, socket>>
      BY <1>2 DEF NobodyLive
    <2>2. ASSUME NEW o \in Clients, Awaits(o, cpc[o], d), dstate[d] # "serving"
          PROVE  Awaits(o, cpc[o], d)'
      <3>1. CASE o = c
        BY <1>1, <2>2, <3>1
      <3>2. CASE o # c
        BY <1>1, <2>2, <3>2 DEF Awaits
      <3> QED
        BY <3>1, <3>2
    <2> QED
      BY <2>1, <2>2 DEF SerialInv, LiveInv
  <1> QED
    BY <1>3, <1>4, <1>5, <1>6 DEF SerialInv

\* A decision preserves what clients that take turns know of daemons.
LEMMA DecideSerial ==
  ASSUME IInv, SerialInv, NEW c \in Clients, NEW l, Decide(c, l), Knows(c, l),
         \/ ~Free(c)
         \/ l \in {"start", "connected", "failed"}
         \/ \A o \in Clients \ {c} : Free(o),
         \A d \in Daemons :
           Awaits(c, cpc[c], d) /\ Live(d) => dstate[d] = "serving" \/ Awaits(c, l, d)
  PROVE  SerialInv'
  <1>1. UNCHANGED <<dstate, wedged, doomed, lock, socket, bound>> /\ Goto(c, l)
    BY DEF Decide, daemonVars, fileVars
  <1>2. Knows(c, l)' /\ \A d \in Daemons : Live(d)' <=> Live(d)
    BY <1>1 DEF Knows, NobodyLive, Live, Alive
  <1>3. \A d \in Daemons : Awaits(c, l, d)' <=> Awaits(c, l, d)
    BY <1>1 DEF Awaits
  <1> QED
    BY <1>1, <1>2, <1>3, MoveSerial

\* A call that fails outside a launch leaves nobody to look after.
LEMMA FailsSerial ==
  ASSUME IInv, SerialInv, NEW c \in Clients, Fails(c), cpc[c] \notin Launching
  PROVE  SerialInv'
  BY DecideSerial DEF Fails, Knows, Process, Cleaning, Awaits

(* connect(): what the files say of the daemon is true, since the client   *)
(* whose turn it is sees no launch halfway.                                *)
LEMMA ConnectSerial ==
  ASSUME TakeTurns, IInv, SerialInv, NEW c \in Clients,
         \/ Connect(c) \/ CheckLock(c) \/ CheckSocket(c) \/ TryConnect(c) \/ ReadPid(c)
         \/ BindPid(c)
  PROVE  SerialInv'
  <1> USE DEF Knows, Process, Cleaning, Awaits, Launching
  <1>1. Knows(c, cpc[c]) /\ ~Overlooked
    BY DEF SerialInv, KnownInv, TakeTurns, Overlooked
  <1>2. CASE Connect(c)
    <2>1. \A o \in Clients \ {c} : Free(o)
      BY <1>2 DEF TakeTurns, Connect, Free
    <2> QED
      BY <1>2, <2>1, DecideSerial DEF Connect
  <1>3. CASE CheckLock(c)
    <2>1. ~lock.exists => NobodyLive
      BY <1>3, Settled DEF CheckLock, Free, NobodyLive, Launching
    <2> QED
      BY <1>1, <1>3, <2>1, DecideSerial DEF CheckLock, Free
  <1>4. CASE CheckSocket(c)
    <2>1. NobodyLive /\ ~Free(c)
      BY <1>1, <1>4 DEF CheckSocket, Free
    <2>2. ASSUME Goto(c, "stale"), bound' = [bound EXCEPT ![c] = None],
                 UNCHANGED <<daemonVars, fileVars, retries>>
          PROVE  SerialInv'
      <3>1. /\ UNCHANGED <<dstate, doomed, lock, socket>>
            /\ \A o \in Clients \ {c} : bound'[o] = bound[o]
        BY <2>2 DEF daemonVars, fileVars, IInv, TypeOK
      <3>2. NobodyLive'
        BY <2>1, <3>1 DEF NobodyLive, Live, Alive
      <3> QED
        BY <1>4, <2>1, <2>2, <3>1, <3>2, MoveSerial DEF CheckSocket
    <2> QED
      BY <1>4, <2>1, <2>2, DecideSerial DEF CheckSocket
  <1>5. CASE TryConnect(c)
    BY <1>5, DecideSerial DEF TryConnect, Free
  <1>6. CASE ReadPid(c)
    <2>1. UNCHANGED <<dstate, doomed, lock, socket>> /\ ~Free(c)
      BY <1>6 DEF ReadPid, daemonVars, fileVars, Free
    <2>2. \A d \in Daemons : Live(d) => d = lock.pid /\ lock.pid # None
      BY <1>6, <2>1, Settled, LifecycleAssumption DEF ReadPid
    <2>3. /\ Goto(c, IF lock.pid = None THEN "stale" ELSE "bindPid")
          /\ bound' = [bound EXCEPT ![c] = lock.pid]
      BY <1>1, <1>6 DEF ReadPid, ReadAsU32
    <2>4. bound'[c] = lock.pid /\ \A o \in Clients \ {c} : bound'[o] = bound[o]
      BY <2>3 DEF IInv, TypeOK
    <2>5. \A d \in Daemons : Live(d)' => Live(d)
      BY <2>1 DEF Live, Alive
    <2>6. CASE lock.pid = None
      <3>1. NobodyLive' /\ Goto(c, "stale")
        BY <2>2, <2>3, <2>5, <2>6 DEF NobodyLive
      <3> QED
        BY <1>6, <2>1, <2>4, <3>1, MoveSerial DEF ReadPid
    <2>7. CASE lock.pid # None
      <3>1. Goto(c, "bindPid") /\ Knows(c, "bindPid")'
        BY <2>2, <2>3, <2>5, <2>7, <2>4
      <3> QED
        BY <1>6, <2>1, <2>4, <3>1, MoveSerial DEF ReadPid
    <2> QED
      BY <2>6, <2>7
  <1>7. CASE BindPid(c)
    <2>1. \A d \in Daemons : Live(d) => d = bound[c]
      BY <1>1, <1>7 DEF BindPid
    <2>2. ~Alive(bound[c]) => NobodyLive
      BY <2>1 DEF NobodyLive, Live
    <2>3. ~Mismatches /\ ~Free(c) /\ cpc[c] = "bindPid"
      BY <1>7 DEF TakeTurns, Mismatches, BindPid, Free
    <2> QED
      BY <1>7, <2>1, <2>2, <2>3, DecideSerial, FailsSerial DEF BindPid
  <1> QED
    BY <1>2, <1>3, <1>4, <1>5, <1>6, <1>7

(* kill(): the daemon it was bound to is the only one.                     *)
LEMMA KillSerial ==
  ASSUME IInv, SerialInv, NEW c \in Clients,
         Kill(c) \/ Terminate(c) \/ AwaitTerm(c) \/ ForceKill(c) \/ AwaitKill(c)
  PROVE  SerialInv'
  <1> USE DEF Knows, Process, Cleaning, Awaits, Launching
  <1>1. cpc[c] \in {"hung", "terminate", "awaitTerm", "kill", "awaitKill"} /\ ~Free(c)
    BY DEF Kill, Terminate, AwaitTerm, ForceKill, AwaitKill, Free
  <1>2. \A d \in Daemons : Live(d) => d = bound[c]
    BY <1>1 DEF SerialInv, KnownInv
  <1>3. ~Alive(bound[c]) => NobodyLive
    BY <1>2 DEF NobodyLive, Live
  <1>4. CASE Kill(c)
    BY <1>1, <1>2, <1>4, DecideSerial DEF Kill
  <1>5. CASE Terminate(c)
    BY <1>1, <1>2, <1>3, <1>5, DecideSerial, FailsSerial DEF Terminate
  <1>6. CASE AwaitTerm(c)
    BY <1>1, <1>2, <1>3, <1>6, DecideSerial, FailsSerial DEF AwaitTerm
  <1>7. CASE ForceKill(c)
    <2>1. ASSUME doomed' = doomed \cup {bound[c]}, Goto(c, "awaitKill"),
                 UNCHANGED <<dstate, wedged, fileVars, bound, retries>>
          PROVE  SerialInv'
      <3>1. UNCHANGED <<lock, socket>> /\ doomed \subseteq doomed'
        BY <2>1 DEF fileVars
      <3>2. \A d \in Daemons : Live(d)' => d = bound'[c]
        BY <1>2, <2>1 DEF Live, Alive
      <3> QED
        BY <1>1, <2>1, <3>1, <3>2, MoveSerial
    <2> QED
      BY <1>1, <1>2, <1>3, <1>7, <2>1, DecideSerial, FailsSerial DEF ForceKill
  <1>8. CASE AwaitKill(c)
    BY <1>1, <1>2, <1>3, <1>8, DecideSerial, FailsSerial DEF AwaitKill
  <1> QED
    BY <1>4, <1>5, <1>6, <1>7, <1>8

(* clean(): no daemon lives, so that nobody misses the files.              *)
LEMMA CleanSerial ==
  ASSUME IInv, SerialInv, NEW c \in Clients, Clean(c) \/ RemoveSocket(c) \/ RemoveLock(c)
  PROVE  SerialInv'
  <1> USE DEF Knows, Process, Cleaning, Awaits, Launching
  <1>1. cpc[c] \in {"stale", "rmSocket", "rmLock"} /\ ~Free(c)
    BY DEF Clean, RemoveSocket, RemoveLock, Free
  <1>2. NobodyLive
    BY <1>1 DEF SerialInv, KnownInv
  <1>3. CASE Clean(c)
    BY <1>1, <1>2, <1>3, DecideSerial DEF Clean
  <1>4. ASSUME NEW l \in {"failed", "rmLock", "offline"}, Goto(c, l),
               UNCHANGED daemonVars, \A o \in Clients \ {c} : bound'[o] = bound[o]
        PROVE  SerialInv'
    <2>1. UNCHANGED <<dstate, doomed>> /\ NobodyLive'
      BY <1>2, <1>4 DEF daemonVars, NobodyLive, Live, Alive
    <2> QED
      BY <1>1, <1>2, <1>4, <2>1, MoveSerial
  <1>5. CASE RemoveSocket(c)
    BY <1>1, <1>4, <1>5, FailsSerial DEF RemoveSocket
  <1>6. CASE RemoveLock(c)
    <2>1. bound' = [bound EXCEPT ![c] = None]
             => \A o \in Clients \ {c} : bound'[o] = bound[o]
      BY DEF IInv, TypeOK
    <2> QED
      BY <1>1, <1>4, <1>6, <2>1, FailsSerial DEF RemoveLock
  <1> QED
    BY <1>3, <1>5, <1>6

(* launch(): the child is the only daemon, until it serves or is killed.   *)
LEMMA LaunchSerial ==
  ASSUME TakeTurns, IInv, SerialInv, NEW c \in Clients,
         SpawnFails(c) \/ Launch(c) \/ BindChild(c) \/ LaunchTry(c) \/ GiveUp(c)
  PROVE  SerialInv'
  <1>1. /\ cpc[c] \in {"offline"} \cup Launching /\ ~Free(c)
        /\ Knows(c, cpc[c])
    BY DEF SpawnFails, Launch, BindChild, LaunchTry, GiveUp, Free, Launching, SerialInv, KnownInv
  <1>2. CASE SpawnFails(c)
    BY <1>2, FailsSerial DEF SpawnFails, Launching
  <1>3. CASE Launch(c)
    <2>1. NobodyLive
      BY <1>1, <1>3 DEF Launch, Knows
    <2>2. PICK d \in Daemons :
            /\ dstate' = [dstate EXCEPT ![d] = "starting"]
            /\ bound' = [bound EXCEPT ![c] = d]
            /\ Goto(c, "bindChild")
      BY <1>3 DEF Launch
    <2>3. /\ UNCHANGED doomed /\ dstate'[d] = "starting"
          /\ bound'[c] = d /\ cpc'[c] = "bindChild"
          /\ \A o \in Clients \ {c} : bound'[o] = bound[o] /\ cpc'[o] = cpc[o]
      BY <1>3, <2>2 DEF Launch, Goto, IInv, TypeOK
    <2>4. \A e \in Daemons : Live(e)' => e = d
      BY <2>1, <2>2, <2>3 DEF NobodyLive, Live, Alive, IInv, TypeOK
    <2>5. \A o \in Clients \ {c} : Free(o) /\ Free(o)'
      BY <1>1, <2>3 DEF SerialInv, TurnsInv, Free
    <2>6. TurnsInv' /\ SingleInv'
      BY <2>4, <2>5 DEF TurnsInv, SingleInv
    <2>7. KnownInv'
      BY <2>3, <2>4, <2>5 DEF KnownInv, Knows, Free, Process, Cleaning
    <2>8. LiveInv'
      <3>1. Awaits(c, cpc[c], d)'
        BY <2>3 DEF Awaits, Launching
      <3> QED
        BY <2>3, <2>4, <3>1 DEF LiveInv
    <2> QED
      BY <2>6, <2>7, <2>8 DEF SerialInv
  <1>4. ASSUME cpc[c] \in {"bindChild", "launch"}, NEW l \in {"launch", "giveUp"}, Goto(c, l),
               UNCHANGED <<daemonVars, fileVars, bound>>
        PROVE  SerialInv'
    <2>1. UNCHANGED <<dstate, doomed, lock, socket>>
      BY <1>4 DEF daemonVars, fileVars
    <2>2. Knows(c, l)'
      BY <1>1, <1>4, <2>1 DEF Knows, Process, Cleaning, Live, Alive
    <2>3. \A d \in Daemons : Awaits(c, cpc[c], d) => Awaits(c, l, d)'
      BY <1>4 DEF Awaits, Launching
    <2> QED
      BY <1>1, <1>4, <2>1, <2>2, <2>3, MoveSerial
  <1>5. CASE LaunchTry(c)
    <2>1. CASE Connects /\ Decide(c, "connected")
      <3>1. socket \in Daemons /\ Live(socket) /\ dstate[socket] = "serving"
        BY <2>1 DEF Connects, Live, Alive, IInv, TypeOK, Pid, TracesInv
      <3>2. \A d \in Daemons : Live(d) => dstate[d] = "serving"
        BY <3>1 DEF SerialInv, SingleInv
      <3>3. Knows(c, "connected")
        BY DEF Knows, Process, Cleaning
      <3> QED
        BY <1>1, <2>1, <3>2, <3>3, DecideSerial
    <2> QED
      BY <1>4, <1>5, <2>1 DEF LaunchTry
  <1>6. CASE GiveUp(c)
    <2>1. UNCHANGED <<dstate, lock, socket, bound>> /\ doomed' = doomed \cup {bound[c]}
      BY <1>6 DEF GiveUp, fileVars, TakeTurns
    <2>2. \A d \in Daemons : ~Live(d)'
      BY <1>1, <1>6, <2>1 DEF GiveUp, Knows, Process, Live, Alive
    <2>3. Knows(c, "failed")'
      BY DEF Knows, Process, Cleaning
    <2> QED
      BY <1>1, <1>6, <2>1, <2>2, <2>3, MoveSerial DEF GiveUp
  <1>7. CASE BindChild(c)
    <2>1. CASE ~Alive(bound[c]) /\ Decide(c, "failed")
      <3>1. NobodyLive /\ Knows(c, "failed")
        BY <1>1, <1>7, <2>1 DEF BindChild, NobodyLive, Knows, Process, Cleaning, Live
      <3> QED
        BY <1>1, <2>1, <3>1, DecideSerial DEF NobodyLive
    <2> QED
      BY <1>4, <1>7, <2>1 DEF BindChild, TakeTurns
  <1> QED
    BY <1>2, <1>3, <1>5, <1>6, <1>7

\* Every step of clients that take turns preserves their invariant.
LEMMA NextSerial ==
  ASSUME TakeTurns, IInv, SerialInv, [Next]_vars
  PROVE  SerialInv'
  <1>1. ASSUME NEW c \in Clients, Drop(c) PROVE SerialInv'
    <2>1. /\ Goto(c, "start") /\ UNCHANGED <<dstate, doomed, lock, socket>>
          /\ \A o \in Clients \ {c} : bound'[o] = bound[o]
          /\ cpc[c] \notin Launching
      BY <1>1 DEF Drop, Restart, AtRest, Handles, Launching, daemonVars, fileVars, IInv, TypeOK
    <2> QED
      BY <2>1, MoveSerial DEF Knows, Process, Cleaning, Awaits
  <1>2. \A c \in Clients : ~ClientCrash(c)
    BY DEF TakeTurns, ClientCrash
  <1>3. CASE UNCHANGED vars
    <2>1. UNCHANGED <<dstate, doomed, lock, socket, cpc, bound>>
      BY <1>3 DEF vars, daemonVars, fileVars, clientVars
    <2> QED
      BY <2>1 DEF SerialInv, TurnsInv, Free, LiveInv, Awaits, SingleInv, KnownInv, Knows,
                  NobodyLive, Live, Alive
  <1> QED
    BY <1>1, <1>2, <1>3, DaemonSerial, ConnectSerial, KillSerial, CleanSerial, LaunchSerial
    DEF Next, Client, CallStep

(* The second inductive invariant: what a live daemon has left behind, and *)
(* what the client whose turn it is knows of it, as long as no look at the *)
(* files fails and no SIGKILL is spared.                                   *)
THEOREM InductiveInTurns == ASSUME TakeTurns PROVE Spec => []SerialInv
  <1>1. ASSUME TakeTurns PROVE IInv /\ SerialInv /\ [Next]_vars => SerialInv'
    BY <1>1, NextSerial
  <1> QED
    BY <1>1, InitSerial, Inductive, PTL DEF Spec

-----------------------------------------------------------------------------
(* The theorems about clients that take turns.                             *)

(* With clients that take turns, by a lock of their own, there is at most  *)
(* one live daemon, for any number of clients and daemons; unless a look   *)
(* at the directory fails, the SIGKILL to a child that was given up is not *)
(* sent, a child that lives cannot be bound, or a client dies in a call or *)
(* expects another name (TakeTurns): the code then does start a second.    *)
THEOREM OneDaemonAtATime == ASSUME TakeTurns PROVE Spec => []OneLiveDaemon
  <1>1. SerialInv => OneLiveDaemon
    <2> SUFFICES ASSUME SerialInv PROVE OneLiveDaemon
      OBVIOUS
    <2> DEFINE L == {d \in Daemons : Live(d)}
    <2>1. CASE L = {}
      BY <2>1, FS_EmptySet DEF OneLiveDaemon
    <2>2. CASE L # {}
      <3>1. PICK d \in Daemons : Live(d)
        BY <2>2
      <3>2. L = {d}
        BY <3>1 DEF SerialInv, SingleInv
      <3>3. Cardinality(L) = 1
        BY <3>2, FS_Singleton
      <3> QED
        BY <3>3 DEF OneLiveDaemon
    <2> QED
      BY <2>1, <2>2
  <1> QED
    BY <1>1, InductiveInTurns, PTL

(* A client that is told "stale" is told the truth, where clients take     *)
(* turns and see the files that are there: a lock file or socket that      *)
(* cannot be looked at makes it a lie (TakeTurns excludes that).           *)
THEOREM StaleIsTrue == ASSUME TakeTurns PROVE Spec => StaleMeansDead
  <1> DEFINE Told == \A c \in Clients : cpc[c] # "stale" /\ cpc'[c] = "stale"
                       => \A d \in Daemons : ~Live(d)'
  <1>1. SerialInv' => Told
    BY DEF SerialInv, KnownInv, Knows, Cleaning, NobodyLive
  <1>2. Spec => [][Told]_vars
    BY <1>1, InductiveInTurns, PTL DEF Spec
  <1> QED
    BY <1>2 DEF StaleMeansDead

(* clean() and bind() never take the files of a live daemon, where clients *)
(* take turns and see the files that are there.                            *)
THEOREM FilesStayWithTheLiving == ASSUME TakeTurns PROVE Spec => FilesTakenFromTheDead
  <1> DEFINE Keep(d) == Live(d) /\ Live(d)'
                          => /\ socket = d => socket' = d
                             /\ lock.holder = d => lock'.holder = d
             Kept == \A d \in Daemons : Keep(d)
  <1>1. ASSUME IInv, SerialInv, [Next]_vars PROVE Kept
    <2> SUFFICES ASSUME NEW d \in Daemons, Live(d), Live(d)',
                        ~(UNCHANGED fileVars)
                 PROVE  /\ socket = d => socket' = d
                        /\ lock.holder = d => lock'.holder = d
      BY DEF fileVars
    <2>1. ~NobodyLive /\ \A e \in Daemons : Live(e) => e = d
      BY <1>1 DEF NobodyLive, SerialInv, SingleInv
    <2>2. ASSUME NEW e \in Daemons, Daemon(e)
          PROVE  /\ socket = d => socket' = d
                 /\ lock.holder = d => lock'.holder = d
      <3>1. e = d
        BY <2>1, <2>2 DEF Daemon, DaemonLock, DaemonWritePid, DaemonBind, DaemonExit, DaemonWedge,
                          DaemonDie, Running
      <3>2. dstate'[d] # "dead"
        BY DEF Live, Alive
      <3> QED
        BY <1>1, <2>2, <3>1, <3>2
        DEF Daemon, DaemonLock, DaemonWritePid, DaemonBind, DaemonExit, DaemonWedge, DaemonDie,
            fileVars, IInv, TypeOK, LockFile
    <2>3. ASSUME NEW c \in Clients, Client(c) PROVE FALSE
      <3>1. cpc[c] \in {"rmSocket", "rmLock"}
        BY <2>3 DEF Client, CallStep, Connect, Kill, Clean, Launch, SpawnFails, CheckLock,
             CheckSocket, TryConnect, ReadPid, BindPid, Terminate, AwaitTerm, ForceKill, AwaitKill,
             RemoveSocket, RemoveLock, BindChild, LaunchTry, GiveUp, Drop, ClientCrash, Restart,
             Fails, Decide
      <3> QED
        BY <1>1, <2>1, <3>1 DEF SerialInv, KnownInv, Knows, Cleaning
    <2>4. ~(UNCHANGED vars)
      BY DEF vars, fileVars
    <2> QED
      BY <1>1, <2>2, <2>3, <2>4 DEF Next
  <1>2. IInv /\ SerialInv /\ [Next]_vars => [Kept]_vars
    BY <1>1
  <1>3. Spec => [][Kept]_vars
    BY <1>2, Inductive, InductiveInTurns, PTL DEF Spec
  <1> QED
    BY <1>3 DEF FilesTakenFromTheDead
=============================================================================
