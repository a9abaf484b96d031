--------------------------- MODULE DaemonLifecycle ---------------------------
(***************************************************************************)
(* Discovery and recovery of the daemon by the clients of knot_sdk (Unix): *)
(* ClientBuilder::connect and the handles it returns, KillHandle::kill,    *)
(* StaleHandle::clean and OfflineHandle::launch.  Clients and daemons      *)
(* share the runtime directory: a lock file that carries the daemon's PID, *)
(* and the socket.  Every look at, and every change of, these files is a   *)
(* step of its own, so everything the others do may come between.          *)
(*                                                                         *)
(* The daemon is not part of the Rust sources.  It is modelled from what   *)
(* the client expects of it: it locks the lock file (or exits if a live    *)
(* daemon has it locked), writes its PID there and then binds the socket.  *)
(* Process handles behave as ProcessControl shows: a handle refers to one  *)
(* daemon process for good, and is told the truth about its death.         *)
(***************************************************************************)
EXTENDS Naturals, FiniteSets

CONSTANTS
  Clients,        \* client processes (CLI invocations)
  Daemons,        \* daemon processes that may be spawned
  MaxRetries,     \* connection attempts of launch (40 in the code)
  GraceTimeouts,  \* graceful timeouts of the kill policy: 0 skips SIGTERM
  Serialized,     \* do clients take turns, by a lock of their own?
  Faults,         \* the faults that may happen, see below
  None            \* "no process"

(* crash: a daemon dies and leaves its files behind.                       *)
(* wedge: a daemon stops making progress and ignores SIGTERM.              *)
(* io:    a connection, a removal, a spawn or a process handle fails, and  *)
(*        the client is told so.                                           *)
(* look:  a look at the runtime directory fails, and the client takes what *)
(*        it cannot see for absent: exists() is false, and a lock file     *)
(*        that cannot be read has no PID.                                  *)
(* client: a client dies in the middle of a call.                          *)
(* bind:  bind_after_spawn gives up on a child that is alive.              *)
(* spare: the SIGKILL to a child that is given up is not sent.             *)
(* name:  a client expects another process name than the daemon has.       *)
LifecycleFaults == {"crash", "wedge", "io", "look", "client", "bind", "spare", "name"}

ASSUME LifecycleAssumption ==
  /\ MaxRetries \in Nat \ {0}
  /\ GraceTimeouts \subseteq Nat /\ GraceTimeouts # {}
  /\ Serialized \in BOOLEAN
  /\ Faults \subseteq LifecycleFaults
  /\ None \notin Daemons

VARIABLES
  dstate,   \* progress of a daemon: unborn, starting, locked, ready, serving, dead
  wedged,   \* daemons that make no progress any more
  doomed,   \* daemons that were sent SIGKILL
  lock,     \* the lock file: the daemon that has it locked and the PID in it
  socket,   \* the daemon whose listener the socket path leads to
  cpc,      \* where a client is: the handle it holds, or the step of a call
  bound,    \* the process of the client's KillHandle, or its child
  retries   \* connection attempts left of launch

daemonVars == <<dstate, wedged, doomed>>
fileVars   == <<lock, socket>>
clientVars == <<cpc, bound, retries>>
vars       == <<daemonVars, fileVars, clientVars>>

Pid      == Daemons \cup {None}
LockFile == [holder : Pid, pid : Pid, exists : BOOLEAN]
NoFile   == [holder |-> None, pid |-> None, exists |-> FALSE]

Alive(d)   == dstate[d] \notin {"unborn", "dead"}
Live(d)    == Alive(d) /\ d \notin doomed
Running(d) == Live(d) /\ d \notin wedged

-----------------------------------------------------------------------------
(* The daemon.                                                             *)

(* flock succeeds if no live daemon holds the file; what a predecessor     *)
(* wrote stays there until the PID is written.  Otherwise it exits.        *)
DaemonLock(d) ==
  /\ Running(d) /\ dstate[d] = "starting"
  /\ IF lock.holder # None /\ Alive(lock.holder)
       THEN /\ dstate' = [dstate EXCEPT ![d] = "dead"]
            /\ UNCHANGED lock
       ELSE /\ dstate' = [dstate EXCEPT ![d] = "locked"]
            /\ lock' = [holder |-> d, pid |-> lock.pid, exists |-> TRUE]
  /\ UNCHANGED <<wedged, doomed, socket, clientVars>>

(* If the file was unlinked meanwhile, the PID goes to an inode nobody     *)
(* will ever read.                                                         *)
DaemonWritePid(d) ==
  /\ Running(d) /\ dstate[d] = "locked"
  /\ dstate' = [dstate EXCEPT ![d] = "ready"]
  /\ lock' = IF lock.holder = d THEN [lock EXCEPT !.pid = d] ELSE lock
  /\ UNCHANGED <<wedged, doomed, socket, clientVars>>

(* IpcIncoming::bind removes whatever is at the path first.                *)
DaemonBind(d) ==
  /\ Running(d) /\ dstate[d] = "ready"
  /\ dstate' = [dstate EXCEPT ![d] = "serving"]
  /\ socket' = d
  /\ UNCHANGED <<wedged, doomed, lock, clientVars>>

(* A graceful end, by SIGTERM or not: its own files are removed.           *)
DaemonExit(d) ==
  /\ Running(d)
  /\ dstate' = [dstate EXCEPT ![d] = "dead"]
  /\ socket' = IF socket = d THEN None ELSE socket
  /\ lock' = IF lock.holder = d THEN NoFile ELSE lock
  /\ UNCHANGED <<wedged, doomed, clientVars>>

DaemonWedge(d) ==
  /\ "wedge" \in Faults
  /\ Running(d)
  /\ wedged' = wedged \cup {d}
  /\ UNCHANGED <<dstate, doomed, fileVars, clientVars>>

(* A crash, or the death that follows SIGKILL; the files stay.             *)
DaemonDie(d) ==
  /\ Alive(d)
  /\ d \in doomed \/ "crash" \in Faults
  /\ dstate' = [dstate EXCEPT ![d] = "dead"]
  /\ UNCHANGED <<wedged, doomed, fileVars, clientVars>>

-----------------------------------------------------------------------------
(* Steps of a client.                                                      *)

Goto(c, l) == cpc' = [cpc EXCEPT ![c] = l]

(* A step that looks and decides, and changes nothing else.                *)
Decide(c, l) == Goto(c, l) /\ UNCHANGED <<daemonVars, fileVars, bound, retries>>

Fails(c) == "io" \in Faults /\ Decide(c, "failed")

(* ConnectedHandle::new: a connection is made when a live listener is at   *)
(* the path.  No request is sent: the kernel completes the connection for  *)
(* a wedged daemon too, until its backlog is full.  Any other error of the *)
(* attempt, with a daemon that serves, is no different from a refusal.     *)
Connects     == socket # None /\ Live(socket)
ConnectFails == ~(socket # None /\ Running(socket)) \/ "io" \in Faults

(* What is there cannot be seen.                                           *)
Overlooked == "look" \in Faults

(* The handles a client rests in between two calls.                        *)
Handles == {"hung", "stale", "offline", "connected"}
AtRest  == Handles \cup {"start", "failed"}

(* ClientBuilder::connect is called.                                       *)
Connect(c) ==
  /\ cpc[c] = "start"
  /\ Serialized => \A o \in Clients \ {c} : cpc[o] \in {"start", "connected", "failed"}
  /\ Decide(c, "checkLock")

CheckLock(c) ==
  /\ cpc[c] = "checkLock"
  /\ \/ lock.exists /\ Decide(c, "tryConnect")
     \/ (~lock.exists \/ Overlooked) /\ Decide(c, "checkSocket")

(* A socket without a lock file is stale; with neither it is offline.      *)
CheckSocket(c) ==
  /\ cpc[c] = "checkSocket"
  /\ \/ /\ socket # None
        /\ Goto(c, "stale")
        /\ bound' = [bound EXCEPT ![c] = None]
        /\ UNCHANGED <<daemonVars, fileVars, retries>>
     \/ (socket = None \/ Overlooked) /\ Decide(c, "offline")

TryConnect(c) ==
  /\ cpc[c] = "tryConnect"
  /\ \/ Connects /\ Decide(c, "connected")
     \/ ConnectFails /\ Decide(c, "readPid")

(* read_as_u32: the PID, or None from a missing or empty file and from one *)
(* that cannot be read.                                                    *)
ReadAsU32 == {lock.pid} \cup (IF Overlooked THEN {None} ELSE {})

ReadPid(c) ==
  /\ cpc[c] = "readPid"
  /\ \E p \in ReadAsU32 :
       /\ bound' = [bound EXCEPT ![c] = p]
       /\ Goto(c, IF p = None THEN "stale" ELSE "bindPid")
  /\ UNCHANGED <<daemonVars, fileVars, retries>>

(* Fault: a live process is taken for stale.                               *)
BindPidStale(c) ==
  /\ cpc[c] = "bindPid"
  /\ \/ Decide(c, "stale")
     \/ Fails(c)

(* The builder sets the path of the daemon and the name to expect of its   *)
(* process independently, with knotd as the default of both.               *)
Mismatches == "name" \in Faults

(* Process::bind on that PID: NotRunning, Reused and Mismatch are stale; a *)
(* StaleHandle that a live daemon gave by its name vouches for no death.   *)
BindPid(c) ==
  /\ cpc[c] = "bindPid"
  /\ \/ Alive(bound[c]) /\ Decide(c, "hung")
     \/ ~Alive(bound[c]) /\ Decide(c, "stale")
     \/ /\ Mismatches
        /\ Goto(c, "stale")
        /\ bound' = [bound EXCEPT ![c] = None]
        /\ UNCHANGED <<daemonVars, fileVars, retries>>
     \/ Fails(c)

-----------------------------------------------------------------------------
(* KillHandle::kill.                                                       *)

Kill(c) ==
  /\ cpc[c] = "hung"
  /\ \E grace \in GraceTimeouts : Decide(c, IF grace = 0 THEN "kill" ELSE "terminate")

(* terminate: SIGTERM asks; whether the daemon complies is up to it.       *)
(* NotRunning counts as success, every other error is returned.            *)
Terminate(c) ==
  /\ cpc[c] = "terminate"
  /\ \/ Alive(bound[c]) /\ Decide(c, "awaitTerm")
     \/ ~Alive(bound[c]) /\ Decide(c, "stale")
     \/ Fails(c)

(* Fault: a graceful timeout is taken for success.                         *)
AwaitTermGivesUp(c) ==
  /\ cpc[c] = "awaitTerm"
  /\ Decide(c, "stale")

AwaitTerm(c) ==
  /\ cpc[c] = "awaitTerm"
  /\ \/ ~Alive(bound[c]) /\ Decide(c, "stale")
     \/ Alive(bound[c]) /\ Decide(c, "kill")
     \/ Fails(c)

ForceKill(c) ==
  /\ cpc[c] = "kill"
  /\ \/ /\ Alive(bound[c])
        /\ doomed' = doomed \cup {bound[c]}
        /\ Goto(c, "awaitKill")
        /\ UNCHANGED <<dstate, wedged, fileVars, bound, retries>>
     \/ ~Alive(bound[c]) /\ Decide(c, "stale")
     \/ Fails(c)

(* A daemon that outlives the force timeout is an error: NotResponding.    *)
AwaitKill(c) ==
  /\ cpc[c] = "awaitKill"
  /\ \/ ~Alive(bound[c]) /\ Decide(c, "stale")
     \/ Alive(bound[c]) /\ Decide(c, "failed")
     \/ Fails(c)

-----------------------------------------------------------------------------
(* StaleHandle::clean.                                                     *)

Clean(c) ==
  /\ cpc[c] = "stale"
  /\ \/ socket # None /\ Decide(c, "rmSocket")
     \/ (socket = None \/ Overlooked) /\ Decide(c, "rmLock")

(* A socket that has vanished since the check is an error here ...         *)
RemoveSocket(c) ==
  /\ cpc[c] = "rmSocket"
  /\ \/ /\ socket' = None
        /\ Goto(c, IF socket = None THEN "failed" ELSE "rmLock")
        /\ UNCHANGED <<daemonVars, lock, bound, retries>>
     \/ Fails(c)

(* ... and a vanished lock file is not.  Any other error leaves the lock   *)
(* file behind, with the socket gone.                                      *)
RemoveLock(c) ==
  /\ cpc[c] = "rmLock"
  /\ \/ /\ lock' = NoFile
        /\ Goto(c, "offline")
        /\ bound' = [bound EXCEPT ![c] = None]
        /\ UNCHANGED <<daemonVars, socket, retries>>
     \/ Fails(c)

-----------------------------------------------------------------------------
(* OfflineHandle::launch.                                                  *)

(* Process::spawn cannot execute the binary: there is no child.            *)
SpawnFails(c) == cpc[c] = "offline" /\ Fails(c)

(* Process::spawn: the child runs before it is bound ...                   *)
Launch(c) ==
  /\ cpc[c] = "offline"
  /\ \E d \in Daemons :
       /\ dstate[d] = "unborn"
       /\ dstate' = [dstate EXCEPT ![d] = "starting"]
       /\ bound' = [bound EXCEPT ![c] = d]
  /\ Goto(c, "bindChild")
  /\ UNCHANGED <<wedged, doomed, fileVars, retries>>

(* ... so that a bind that fails leaves it behind.  A child that has died  *)
(* can be bound until it is reaped, and not after.                         *)
BindChild(c) ==
  /\ cpc[c] = "bindChild"
  /\ \/ /\ Goto(c, "launch")
        /\ retries' = [retries EXCEPT ![c] = MaxRetries]
        /\ UNCHANGED <<daemonVars, fileVars, bound>>
     \/ (~Alive(bound[c]) \/ "bind" \in Faults) /\ Decide(c, "failed")

(* Faults: the attempts are not counted; one too many is made.             *)
LaunchTryUncounted(c) ==
  /\ cpc[c] = "launch"
  /\ \/ Connects /\ Decide(c, "connected")
     \/ ConnectFails /\ Decide(c, "launch")
LaunchTryOverrun(c) ==
  /\ cpc[c] = "launch"
  /\ \/ Connects /\ Decide(c, "connected")
     \/ /\ ConnectFails
        /\ retries' = [retries EXCEPT ![c] = @ - 1]
        /\ Goto(c, IF retries[c] = 0 THEN "giveUp" ELSE "launch")
        /\ UNCHANGED <<daemonVars, fileVars, bound>>

LaunchTry(c) ==
  /\ cpc[c] = "launch"
  /\ \/ Connects /\ Decide(c, "connected")
     \/ /\ ConnectFails
        /\ retries' = [retries EXCEPT ![c] = @ - 1]
        /\ Goto(c, IF retries[c] = 1 THEN "giveUp" ELSE "launch")
        /\ UNCHANGED <<daemonVars, fileVars, bound>>

(* Fault: the child of a launch that has failed is not killed.             *)
GiveUpSilently(c) == cpc[c] = "giveUp" /\ Decide(c, "failed")

(* The child is killed, and what the kill returns is ignored, also when it *)
(* fails before the signal.                                                *)
GiveUp(c) ==
  /\ cpc[c] = "giveUp"
  /\ \/ doomed' = doomed \cup {bound[c]}
     \/ "spare" \in Faults /\ UNCHANGED doomed
  /\ Goto(c, "failed")
  /\ UNCHANGED <<dstate, wedged, fileVars, bound, retries>>

(* A handle is dropped, or an error has been returned: the client may      *)
(* start over.                                                             *)
Restart(c) ==
  /\ Goto(c, "start")
  /\ bound' = [bound EXCEPT ![c] = None]
  /\ retries' = [retries EXCEPT ![c] = 0]
  /\ UNCHANGED <<daemonVars, fileVars>>

Drop(c) == cpc[c] \in AtRest \ {"start"} /\ Restart(c)

ClientCrash(c) == "client" \in Faults /\ cpc[c] \notin AtRest /\ Restart(c)

-----------------------------------------------------------------------------
Init ==
  /\ dstate = [d \in Daemons |-> "unborn"]
  /\ wedged = {}
  /\ doomed = {}
  /\ lock = NoFile
  /\ socket = None
  /\ cpc = [c \in Clients |-> "start"]
  /\ bound = [c \in Clients |-> None]
  /\ retries = [c \in Clients |-> 0]

Daemon(d) ==
  \/ DaemonLock(d) \/ DaemonWritePid(d) \/ DaemonBind(d)
  \/ DaemonExit(d) \/ DaemonWedge(d) \/ DaemonDie(d)

(* A method call, from its first step to its return.                       *)
CallStep(c) ==
  \/ CheckLock(c) \/ CheckSocket(c) \/ TryConnect(c) \/ ReadPid(c) \/ BindPid(c)
  \/ Terminate(c) \/ AwaitTerm(c) \/ ForceKill(c) \/ AwaitKill(c)
  \/ RemoveSocket(c) \/ RemoveLock(c)
  \/ BindChild(c) \/ LaunchTry(c) \/ GiveUp(c)

Client(c) ==
  \/ Connect(c) \/ Kill(c) \/ Clean(c) \/ Launch(c) \/ SpawnFails(c)
  \/ CallStep(c)
  \/ Drop(c) \/ ClientCrash(c)

Next == (\E d \in Daemons : Daemon(d)) \/ (\E c \in Clients : Client(c))

Spec == Init /\ [][Next]_vars

(* The steps of a call are polled by the client's runtime, and its waits   *)
(* are timed: a call that can take a step eventually takes it.  Nothing is *)
(* assumed of the daemons, nor that a client uses the handle it holds.     *)
FairSpec == Spec /\ \A c \in Clients : WF_vars(CallStep(c))

-----------------------------------------------------------------------------
(* Properties.                                                             *)

CallPcs == {"checkLock", "checkSocket", "tryConnect", "readPid", "bindPid",
            "terminate", "awaitTerm", "kill", "awaitKill", "rmSocket", "rmLock",
            "bindChild", "launch", "giveUp"}

(* Type correctness; the steps that use a process have one, and the        *)
(* attempts of launch stay within their bound.                             *)
TypeOK ==
  /\ dstate \in [Daemons -> {"unborn", "starting", "locked", "ready", "serving", "dead"}]
  /\ wedged \subseteq Daemons
  /\ doomed \subseteq Daemons
  /\ lock \in LockFile
  /\ socket \in Pid
  /\ cpc \in [Clients -> AtRest \cup CallPcs]
  /\ bound \in [Clients -> Pid]
  /\ \A c \in Clients : cpc[c] \in {"bindPid", "hung", "terminate", "awaitTerm",
                                    "kill", "awaitKill", "bindChild", "launch", "giveUp"}
                          => bound[c] # None
  /\ retries \in [Clients -> 0..MaxRetries]

(* The next three need clients that take turns, and that see the runtime   *)
(* directory as it is: none of the faults look, client, bind, spare and    *)
(* name.  With any of these the code does break them.                      *)

(* Recovery never ends with two daemons: connect, kill, clean and launch   *)
(* do not start one while another lives.                                   *)
OneLiveDaemon == Cardinality({d \in Daemons : Live(d)}) <= 1

(* A client is told "stale" only when no daemon lives: "This state occurs  *)
(* when the operating system confirms that the daemon process is no longer *)
(* running" (stale.rs:12-13).                                              *)
StaleMeansDead ==
  [][\A c \in Clients : cpc[c] # "stale" /\ cpc'[c] = "stale"
       => \A d \in Daemons : ~Live(d)']_vars

(* clean() and bind() take the lock file and the socket only from the      *)
(* dead: "safely delete the orphaned socket and PID files" (stale.rs:35).  *)
FilesTakenFromTheDead ==
  [][\A d \in Daemons : Live(d) /\ Live(d)'
       => /\ socket = d => socket' = d
          /\ lock.holder = d => lock'.holder = d]_vars

(* The StaleHandle a client gets after binding to a process, in particular *)
(* from kill(), means that very process has died, whatever other clients   *)
(* and daemons do: cleaning up after it cannot race it.                    *)
KilledIsDead ==
  \A c \in Clients :
    cpc[c] \in {"stale", "rmSocket", "rmLock"} /\ bound[c] # None => ~Alive(bound[c])

(* A launch that fails does not leave its child behind, alive and unknown  *)
(* to everybody: LaunchFailed means "the daemon process fails to start" or *)
(* that it was given up and killed (offline.rs:28-30).                     *)
FailedLaunchLeavesNoDaemon ==
  [][\A c \in Clients :
       /\ cpc[c] \in {"bindChild", "launch", "giveUp"} /\ cpc'[c] = "failed"
       => ~Live(bound[c])']_vars

(* Every call returns, also when the daemon is wedged or ignores signals:  *)
(* the waits of kill() and the attempts of launch() are bounded.           *)
CallsReturn == \A c \in Clients : cpc[c] \in CallPcs ~> cpc[c] \in AtRest
=============================================================================
