----------------------------- MODULE IpcIncoming -----------------------------
(***************************************************************************)
(* The listener and the connector of knot_grpc.  IpcIncoming::bind takes   *)
(* over a socket path and starts a task that accepts connections and       *)
(* passes them through a bounded channel to the server, which polls        *)
(* IpcIncoming as a Stream.  Dropping it aborts the task; the abort takes  *)
(* effect only where the task awaits, so that the endpoint outlives the    *)
(* listener for a while.                                                   *)
(*                                                                         *)
(* All sockets have the same file name, in the runtime directory of their  *)
(* daemon, so a directory stands for a path.  On Unix the endpoint is a    *)
(* file there; on Windows it is a pipe named by the file name alone.       *)
(***************************************************************************)
EXTENDS Naturals, Sequences, FiniteSets, SequencesExt

CONSTANTS
  Listeners,   \* IpcIncoming values, bound one after another
  Conns,       \* connections clients may make
  Dirs,        \* runtime directories
  LongDirs,    \* those whose socket path has more than 100 bytes
  Default,     \* the directory of who asks for no other
  Pipe,        \* the name of the pipe on Windows
  Settings,    \* bound: the platforms and directories to look at
  BufferSize,  \* IncomingOptions.buffer_size (64 by default)
  Backlog,     \* connections the kernel completes before they are accepted
  MaxErrors,   \* bound: accept errors
  Error,       \* an accept error, passed on like a connection
  None         \* nothing

ASSUME IncomingAssumption ==
  /\ BufferSize \in Nat \ {0}   \* mpsc::channel panics on 0
  /\ Backlog \in Nat \ {0}
  /\ MaxErrors \in Nat
  /\ LongDirs \subseteq Dirs /\ Default \in Dirs /\ Pipe \notin Dirs
  /\ Error \notin Conns /\ None \notin Conns \cup {Error} /\ None \notin Listeners
  /\ None \notin Dirs \cup {Pipe}
  /\ Settings \subseteq [os : {"unix", "windows"},
                          asked : [Listeners \cup Conns -> Dirs \cup {None}]]

VARIABLES
  setting,   \* the platform, and the directory everybody asks for
  endpoint,  \* the listener a name leads to
  phase,     \* of a listener: unbound, open, dropped, failed
  task,      \* of its accept task: none, select, send, ended
  backlog,   \* connections the kernel has completed for it
  held,      \* what the task has accepted and is sending
  chan,      \* the channel between the task and the stream
  served,    \* what the server got from the stream
  fresh,     \* connections no client has tried to make yet
  errors     \* accept errors so far

vars == <<setting, endpoint, phase, task, backlog, held, chan, served, fresh, errors>>

Unix == setting.os = "unix"

(* daemon_runtime_dir, unless the caller or the environment of a process   *)
(* (XDG_RUNTIME_DIR, on Unix) asks for another directory.                  *)
RuntimeDir(x) == IF setting.asked[x] = None THEN Default ELSE setting.asked[x]

-----------------------------------------------------------------------------
(* resolve_socket_name: None for an error.                                 *)

Names == Dirs \cup {Pipe}

(* Fault: the directory is ignored on every platform.                      *)
ResolveFileName(dir) == Pipe

Resolve(dir) ==
  IF ~Unix THEN Pipe ELSE IF dir \in LongDirs THEN None ELSE dir

(* The endpoint of a name is there until its task has ended.               *)
Exists(name) == endpoint[name] # None /\ task[endpoint[name]] # "ended"

Listening(name) == Exists(name) /\ Len(backlog[endpoint[name]]) < Backlog

-----------------------------------------------------------------------------
(* On Unix bind removes whatever is at the path, without a look at it; on  *)
(* Windows there is no file, and a pipe that exists is not created again.  *)
(* The removal, the listener and its permissions are one step: a client in *)
(* between is refused, as one that finds nobody listening is.              *)
Bind(l) ==
  /\ phase[l] = "unbound"
  /\ LET name == Resolve(RuntimeDir(l)) IN
       /\ name # None
       /\ Unix \/ ~Exists(name)
       /\ endpoint' = [endpoint EXCEPT ![name] = l]
  /\ phase' = [phase EXCEPT ![l] = "open"]
  /\ task' = [task EXCEPT ![l] = "select"]
  /\ UNCHANGED <<setting, backlog, held, chan, served, fresh, errors>>

(* The name, the listener or the permissions fail: by then a socket at the *)
(* path has been removed, unless that failed, which is only logged, but    *)
(* not a pipe.                                                             *)
BindFails(l) ==
  /\ phase[l] = "unbound"
  /\ phase' = [phase EXCEPT ![l] = "failed"]
  /\ \/ UNCHANGED endpoint
     \/ Unix /\ endpoint' = [endpoint EXCEPT ![RuntimeDir(l)] = None]
  /\ UNCHANGED <<setting, task, backlog, held, chan, served, fresh, errors>>

(* IpcConnector::call: a connection to whatever endpoint has the name; the *)
(* connector is always ready for another one.                              *)
ClientConnects(k) ==
  /\ k \in fresh
  /\ fresh' = fresh \ {k}
  /\ LET name == Resolve(RuntimeDir(k)) IN
       \/ /\ name # None /\ Listening(name)
          /\ backlog' = [backlog EXCEPT ![endpoint[name]] = Append(@, k)]
       \/ /\ name # None => ~Listening(name)
          /\ UNCHANGED backlog
  /\ UNCHANGED <<setting, endpoint, phase, task, held, chan, served, errors>>

(* The select! of the task: an accept that succeeds or fails.  It may win  *)
(* against tx.closed() after the stream is gone, too.                      *)
Accept(l) ==
  /\ task[l] = "select"
  /\ \/ /\ backlog[l] # <<>>
        /\ held' = [held EXCEPT ![l] = Head(backlog[l])]
        /\ backlog' = [backlog EXCEPT ![l] = Tail(@)]
        /\ UNCHANGED errors
     \/ /\ errors < MaxErrors
        /\ errors' = errors + 1
        /\ held' = [held EXCEPT ![l] = Error]
        /\ UNCHANGED backlog
  /\ task' = [task EXCEPT ![l] = "send"]
  /\ UNCHANGED <<setting, endpoint, phase, chan, served, fresh>>

(* Fault: one item more than the channel has room for.                     *)
SendOverfull(l) ==
  /\ task[l] = "send"
  /\ phase[l] = "open"
  /\ Len(chan[l]) <= BufferSize
  /\ chan' = [chan EXCEPT ![l] = Append(@, held[l])]
  /\ held' = [held EXCEPT ![l] = None]
  /\ task' = [task EXCEPT ![l] = "select"]
  /\ UNCHANGED <<setting, endpoint, phase, backlog, served, fresh, errors>>

(* Fault: what does not fit into the channel is dropped.                   *)
SendOrDrop(l) ==
  /\ task[l] = "send"
  /\ phase[l] = "open"
  /\ chan' = [chan EXCEPT ![l] = IF Len(@) < BufferSize THEN Append(@, held[l]) ELSE @]
  /\ held' = [held EXCEPT ![l] = None]
  /\ task' = [task EXCEPT ![l] = "select"]
  /\ UNCHANGED <<setting, endpoint, phase, backlog, served, fresh, errors>>

(* Fault: the task ends when accept has failed.                            *)
SendStopsOnError(l) ==
  /\ task[l] = "send"
  /\ phase[l] = "open"
  /\ Len(chan[l]) < BufferSize
  /\ chan' = [chan EXCEPT ![l] = Append(@, held[l])]
  /\ held' = [held EXCEPT ![l] = None]
  /\ task' = [task EXCEPT ![l] = IF held[l] = Error THEN "ended" ELSE "select"]
  /\ UNCHANGED <<setting, endpoint, phase, backlog, served, fresh, errors>>

(* tx.send waits for room while the stream is there.                       *)
Send(l) ==
  /\ task[l] = "send"
  /\ phase[l] = "open"
  /\ Len(chan[l]) < BufferSize
  /\ chan' = [chan EXCEPT ![l] = Append(@, held[l])]
  /\ held' = [held EXCEPT ![l] = None]
  /\ task' = [task EXCEPT ![l] = "select"]
  /\ UNCHANGED <<setting, endpoint, phase, backlog, served, fresh, errors>>

(* Fault: a task that waits for room is not woken up by the drop.          *)
StopSelecting(l) ==
  /\ phase[l] = "dropped"
  /\ task[l] = "select"
  /\ task' = [task EXCEPT ![l] = "ended"]
  /\ held' = [held EXCEPT ![l] = None]
  /\ backlog' = [backlog EXCEPT ![l] = <<>>]
  /\ \/ UNCHANGED endpoint
     \/ Unix /\ endpoint' = [endpoint EXCEPT ![RuntimeDir(l)] = None]
  /\ UNCHANGED <<setting, phase, chan, served, fresh, errors>>

(* The task ends: it was aborted, or it noticed by tx.closed() or a send   *)
(* that failed.  What it held and what was in the backlog is closed with   *)
(* the listener, which may also remove the path, whoever owns it by now    *)
(* ("depends on the interprocess implementation", incoming.rs:625).        *)
Stop(l) ==
  /\ phase[l] = "dropped"
  /\ task[l] \in {"select", "send"}
  /\ task' = [task EXCEPT ![l] = "ended"]
  /\ held' = [held EXCEPT ![l] = None]
  /\ backlog' = [backlog EXCEPT ![l] = <<>>]
  /\ \/ UNCHANGED endpoint
     \/ Unix /\ endpoint' = [endpoint EXCEPT ![RuntimeDir(l)] = None]
  /\ UNCHANGED <<setting, phase, chan, served, fresh, errors>>

(* poll_next: the server takes the next item, an error included.           *)
PollNext(l) ==
  /\ phase[l] = "open"
  /\ chan[l] # <<>>
  /\ served' = [served EXCEPT ![l] = Append(@, Head(chan[l]))]
  /\ chan' = [chan EXCEPT ![l] = Tail(@)]
  /\ UNCHANGED <<setting, endpoint, phase, task, backlog, held, fresh, errors>>

(* Drop: the abort is requested and the receiver closed with its contents. *)
Drop(l) ==
  /\ phase[l] = "open"
  /\ phase' = [phase EXCEPT ![l] = "dropped"]
  /\ chan' = [chan EXCEPT ![l] = <<>>]
  /\ UNCHANGED <<setting, endpoint, task, backlog, held, served, fresh, errors>>

-----------------------------------------------------------------------------
Init ==
  /\ setting \in Settings
  /\ endpoint = [name \in Names |-> None]
  /\ phase = [l \in Listeners |-> "unbound"]
  /\ task = [l \in Listeners |-> "none"]
  /\ backlog = [l \in Listeners |-> <<>>]
  /\ held = [l \in Listeners |-> None]
  /\ chan = [l \in Listeners |-> <<>>]
  /\ served = [l \in Listeners |-> <<>>]
  /\ fresh = Conns
  /\ errors = 0

TaskStep(l) == Accept(l) \/ Send(l) \/ Stop(l)

Next ==
  \/ \E l \in Listeners : Bind(l) \/ BindFails(l) \/ TaskStep(l) \/ PollNext(l) \/ Drop(l)
  \/ \E k \in Conns : ClientConnects(k)

Spec == Init /\ [][Next]_vars

(* The runtime polls a task that can make progress, and the server polls   *)
(* the stream it holds, as tonic's serve_with_incoming does.               *)
FairSpec ==
  Spec /\ \A l \in Listeners : WF_vars(TaskStep(l)) /\ WF_vars(PollNext(l))

-----------------------------------------------------------------------------
(* Properties.                                                             *)

Items == Conns \cup {Error}

(* Type correctness; the channel never holds more than buffer_size, and    *)
(* the task waits to send exactly while it holds an item.                  *)
TypeOK ==
  /\ setting \in Settings
  /\ endpoint \in [Names -> Listeners \cup {None}]
  /\ phase \in [Listeners -> {"unbound", "open", "dropped", "failed"}]
  /\ task \in [Listeners -> {"none", "select", "send", "ended"}]
  /\ backlog \in [Listeners -> Seq(Conns)]
  /\ held \in [Listeners -> Items \cup {None}]
  /\ \A l \in Listeners : task[l] = "send" <=> held[l] # None
  /\ chan \in [Listeners -> Seq(Items)]
  /\ \A l \in Listeners : Len(chan[l]) <= BufferSize /\ Len(backlog[l]) <= Backlog
  /\ served \in [Listeners -> Seq(Items)]
  /\ fresh \subseteq Conns
  /\ errors \in 0..MaxErrors

(* Connections made and not yet served, oldest first, and the accept       *)
(* errors among them.                                                      *)
Holding(l) == IF held[l] = None THEN <<>> ELSE <<held[l]>>
Waiting(l) == chan[l] \o Holding(l) \o backlog[l]

(* A client is answered by the daemon of the runtime directory it looks    *)
(* in, however listeners come and go; on Windows the directory does not    *)
(* count, and what holds is that nobody takes the pipe from a listener     *)
(* that is open (resolver.rs:15-17).                                       *)
ReachesTheDaemonMeant ==
  \A l \in Listeners :
    IF Unix
      THEN \A k \in Conns \cap ToSet(served[l] \o Waiting(l)) :
             RuntimeDir(k) = RuntimeDir(l)
      ELSE phase[l] = "open" => endpoint[Pipe] = l

Promised(l) == INSTANCE AcceptQueue WITH
                 open   <- phase[l] = "open",
                 queue  <- Waiting(l),
                 served <- served[l]

(* The task, its select! and the bounded channel together are a queue:     *)
(* whatever the order of accepts, failed accepts, polls and drops, no      *)
(* connection and no error is lost, served twice or overtaken while the    *)
(* stream is held, and a full channel delays them without dropping them.   *)
ListenersKeepPromise ==
  /\ \A l \in Listeners : Promised(l)!Init
  /\ [][\A l \in Listeners : [Promised(l)!Next]_(Promised(l)!queueVars)]_vars

(* Every connection made is served, unless the listener is dropped, and    *)
(* then it is closed: no client is left hanging on a connection that       *)
(* nobody will ever take.                                                  *)
ConnectionsAnswered ==
  \A l \in Listeners, k \in Conns :
    k \in ToSet(Waiting(l)) ~> k \notin ToSet(Waiting(l))

(* Drop ends the task and with it the endpoint, also when the task waits   *)
(* for room in the channel ("the background acceptor task is explicitly    *)
(* aborted and resources are cleaned up", incoming.rs:23-25).              *)
DropEndsTask == \A l \in Listeners : phase[l] = "dropped" ~> task[l] = "ended"
=============================================================================
