------------------------------- MODULE Session -------------------------------
(***************************************************************************)
(* A workspace session of knot_sdk: handshake, commit, discard, recheck    *)
(* and the commands of a ControlHandle, by several clients of one daemon.  *)
(* A handle carries the revision the daemon gave it; the daemon rejects    *)
(* what was decided on an older revision.  Calls may fail on the client's  *)
(* side while the daemon still executes them, and then may be retried.     *)
(* Which calls have a deadline (TimeoutPolicy) is left out: any call may   *)
(* fail at any time, and a daemon that hangs takes no step.                *)
(*                                                                         *)
(* The daemon is not part of the Rust sources; it is modelled from the     *)
(* contract the client is written against (proto/knot/v1).  It is assumed  *)
(* to generate no revision twice, not even after a restart that loses its  *)
(* registry: a client has no other means to tell two states apart.         *)
(***************************************************************************)
EXTENDS Naturals, FiniteSets

CONSTANTS
  Clients,       \* clients with a connection to the daemon
  Manifests,     \* contents of the local workspace configuration
  Commands,      \* the commands clients use: up, down, status, cancel
  MaxRevision,   \* bound: revisions the daemon generates
  MaxStrays,     \* bound: requests under way whose caller has given up
  Faults,        \* "loss": calls fail, "restart": the daemon restarts without
                 \* its registry, "skew": it speaks another version of the
                 \* protocol
  None           \* nothing

ASSUME SessionAssumption ==
  /\ Commands \subseteq {"up", "down", "status", "cancel"}
  /\ MaxRevision \in Nat
  /\ MaxStrays \in Nat
  /\ Faults \subseteq {"loss", "restart", "skew"}
  /\ None \notin Manifests

VARIABLES
  registered,  \* does the daemon know the workspace?
  committed,   \* the manifest committed last
  rev,         \* the daemon's revision of the workspace
  at,          \* history: the manifest that was committed at each revision
  strays,      \* requests whose caller has given up, still to be executed
  lastRun,     \* history: what the last up ran on, and what its caller vouched for
  applied,     \* history: commits applied for the session a client is in
  handle,      \* the handle a client holds: gone, connected, uncommitted, control
  expected,    \* expected_revision of that handle
  manifest,    \* to_commit, or the manifest a ControlHandle is in sync with
  rejected,    \* did the client's last call return WrongRevision?
  call         \* the call under way

daemonVars == <<registered, committed, rev, at, lastRun>>
handleVars == <<handle, expected, manifest>>
clientVars == <<handleVars, rejected, call>>
vars       == <<daemonVars, strays, applied, clientVars>>

Revisions == 0..MaxRevision
HandleStates == {"gone", "connected", "uncommitted", "control"}
Kinds     == {"handshake", "commit", "up", "down", "status", "cancel"}
Codes     == {"InSync", "OutOfSync", "Unregistered", "Unspecified",
              "Ok", "NoTaskId", "UnknownCode", "Aborted", "Error"}
Answers   == [code : Codes, rev : Revisions]
Requests  == [kind : Kinds, from : Clients, rev : Revisions, manifest : Manifests \cup {None}]
Calls     == [req : Requests, answer : Answers \cup {None}]
Errors    == {"Protocol", "Contract", "WrongRevision", "none"}

-----------------------------------------------------------------------------
(* The client: every call sends one request.                               *)

Send(c, kind, r, m) ==
  /\ call[c] = None
  /\ call' = [call EXCEPT ![c] =
       [req |-> [kind |-> kind, from |-> c, rev |-> r, manifest |-> m], answer |-> None]]
  /\ rejected' = [rejected EXCEPT ![c] = FALSE]

(* KnotClient::connect: a ConnectedHandle.                                 *)
Connect(c) ==
  /\ call[c] = None
  /\ handle[c] = "gone"
  /\ handle' = [handle EXCEPT ![c] = "connected"]
  /\ UNCHANGED <<daemonVars, strays, applied, expected, manifest, rejected, call>>

(* ConnectedHandle::handshake, with the local configuration as it is by    *)
(* then.  It consumes the handle.                                          *)
Handshake(c, m) ==
  /\ handle[c] = "connected"
  /\ Send(c, "handshake", 0, m)
  /\ UNCHANGED <<daemonVars, strays, applied, handleVars>>

(* ControlHandle::recheck: the same on the connection of a ControlHandle.  *)
Recheck(c, m) ==
  /\ handle[c] = "control"
  /\ Send(c, "handshake", 0, m)
  /\ UNCHANGED <<daemonVars, strays, applied, handleVars>>

Commit(c) ==
  /\ handle[c] = "uncommitted"
  /\ Send(c, "commit", expected[c], manifest[c])
  /\ UNCHANGED <<daemonVars, strays, applied, handleVars>>

(* discard: no request; the handle vouches for no manifest.                *)
Discard(c) ==
  /\ call[c] = None
  /\ handle[c] = "uncommitted"
  /\ handle' = [handle EXCEPT ![c] = "control"]
  /\ manifest' = [manifest EXCEPT ![c] = None]
  /\ UNCHANGED <<daemonVars, strays, applied, expected, rejected, call>>

(* up sends the revision, and vouches for a manifest by it; down and status*)
(* send the project's path only.                                           *)
Command(c, kind) ==
  /\ handle[c] = "control"
  /\ \/ kind = "up" /\ Send(c, kind, expected[c], manifest[c])
     \/ kind # "up" /\ Send(c, kind, 0, None)
  /\ UNCHANGED <<daemonVars, strays, applied, handleVars>>

(* TaskHandle::cancel.  Which tasks a client has handles of is left out: a *)
(* client may cancel, whether one was accepted or not, while it has the    *)
(* ControlHandle that tasks come from.                                     *)
Cancel(c) ==
  /\ "cancel" \in Commands
  /\ handle[c] = "control"
  /\ Send(c, "cancel", 0, None)
  /\ UNCHANGED <<daemonVars, strays, applied, handleVars>>

Drop(c) ==
  /\ call[c] = None
  /\ handle[c] # "gone"
  /\ handle' = [handle EXCEPT ![c] = "gone"]
  /\ expected' = [expected EXCEPT ![c] = 0]
  /\ manifest' = [manifest EXCEPT ![c] = None]
  /\ applied' = [applied EXCEPT ![c] = 0]
  /\ rejected' = [rejected EXCEPT ![c] = FALSE]
  /\ UNCHANGED <<daemonVars, strays, call>>

-----------------------------------------------------------------------------
(* What a call returns, and what becomes of the handle.                    *)

(* Fault: every rejected call is taken for one on an outdated revision.    *)
ErrorOfRejection(code) ==
  CASE code \in {"Aborted", "Error"} -> "WrongRevision"
    [] code \in {"Unspecified", "NoTaskId", "UnknownCode"} -> "Contract"
    [] OTHER -> "none"

(* The ClientError of an answer: call_rpc tells the status Aborted from    *)
(* the others; an answer that is not in the contract has its own error.    *)
ErrorOf(code) ==
  CASE code = "Aborted" -> "WrongRevision"
    [] code = "Error" -> "Protocol"
    [] code \in {"Unspecified", "NoTaskId", "UnknownCode"} -> "Contract"
    [] OTHER -> "none"

NewHandle(c, h, r, m) ==
  /\ handle' = [handle EXCEPT ![c] = h]
  /\ expected' = [expected EXCEPT ![c] = r]
  /\ manifest' = [manifest EXCEPT ![c] = m]

SameHandle == UNCHANGED handleVars

(* Faults: OutOfSync is taken for ready; the manifest to commit is lost.   *)
HandshakeReturnsReady(c, q, a) ==
  /\ q.kind = "handshake"
  /\ IF ErrorOf(a.code) # "none"
       THEN NewHandle(c, "gone", 0, None)
       ELSE NewHandle(c, "control", a.rev, q.manifest)

HandshakeReturnsBare(c, q, a) ==
  /\ q.kind = "handshake"
  /\ \/ a.code = "InSync" /\ NewHandle(c, "control", a.rev, q.manifest)
     \/ /\ a.code \in {"OutOfSync", "Unregistered"}
        /\ NewHandle(c, "uncommitted", a.rev, None)
     \/ ErrorOf(a.code) # "none" /\ NewHandle(c, "gone", 0, None)

(* Unregistered is treated as OutOfSync; anything else consumes the handle.*)
HandshakeReturns(c, q, a) ==
  /\ q.kind = "handshake"
  /\ \/ a.code = "InSync" /\ NewHandle(c, "control", a.rev, q.manifest)
     \/ /\ a.code \in {"OutOfSync", "Unregistered"}
        /\ NewHandle(c, "uncommitted", a.rev, q.manifest)
     \/ ErrorOf(a.code) # "none" /\ NewHandle(c, "gone", 0, None)

(* Faults: set_revision is left out; a failed commit picks up the revision *)
(* of the daemon, so that a retry is taken for a new decision.             *)
CommitReturnsUnset(c, q, a) ==
  /\ q.kind = "commit"
  /\ \/ a.code = "Ok" /\ NewHandle(c, "control", expected[c], manifest[c])
     \/ a.code # "Ok" /\ SameHandle
CommitReturnsRefreshed(c, q, a) ==
  /\ q.kind = "commit"
  /\ \/ a.code = "Ok" /\ NewHandle(c, "control", a.rev, manifest[c])
     \/ a.code # "Ok" /\ NewHandle(c, "uncommitted", rev, manifest[c])

(* A failed commit hands the handle back, with revision and manifest as    *)
(* they were.                                                              *)
CommitReturns(c, q, a) ==
  /\ q.kind = "commit"
  /\ \/ a.code = "Ok" /\ NewHandle(c, "control", a.rev, manifest[c])
     \/ a.code # "Ok" /\ SameHandle

(* up, down and status borrow the handle, and cancel has its own.  A task  *)
(* without the x-task-id header runs, but its caller gets Contract instead *)
(* of a TaskHandle, and nobody can cancel it.                              *)
CommandReturns(c, q, a) ==
  /\ q.kind \in {"up", "down", "status", "cancel"}
  /\ SameHandle

Returns(c, q, a) ==
  /\ call' = [call EXCEPT ![c] = None]
  /\ rejected' = [rejected EXCEPT ![c] = ErrorOf(a.code) = "WrongRevision"]
  /\ HandshakeReturns(c, q, a) \/ CommitReturns(c, q, a) \/ CommandReturns(c, q, a)
  /\ applied' = IF q.kind = "handshake" THEN [applied EXCEPT ![c] = 0] ELSE applied

Answered(c) ==
  /\ call[c] # None
  /\ call[c].answer # None
  /\ Returns(c, call[c].req, call[c].answer)
  /\ UNCHANGED <<daemonVars, strays>>

(* The call fails, by its deadline or by a broken connection.  The daemon  *)
(* may have executed the request, may do so later, or may never see it.    *)
(* Of the late ones those that can change what a client relies on are kept.*)
Failed(c) ==
  /\ call[c] # None
  /\ "loss" \in Faults
  /\ Returns(c, call[c].req, [code |-> "Error", rev |-> 0])
  /\ strays' \in {strays} \cup
       {strays \cup {q \in {call[c].req} :
          call[c].answer = None /\ q.kind \in {"commit", "up"}}}
  /\ Cardinality(strays') <= MaxStrays
  /\ UNCHANGED daemonVars

-----------------------------------------------------------------------------
(* The daemon: what it does with a request, and its answer.                *)

Skewed == "skew" \in Faults

(* An unknown workspace is registered, or reported as unknown.             *)
DoHandshake(q, a) ==
  /\ q.kind = "handshake"
  /\ \/ /\ registered
        /\ a = [code |-> IF committed = q.manifest THEN "InSync" ELSE "OutOfSync", rev |-> rev]
        /\ UNCHANGED registered
     \/ /\ ~registered
        /\ \/ a = [code |-> "Unregistered", rev |-> rev] /\ UNCHANGED registered
           \/ a = [code |-> "OutOfSync", rev |-> rev] /\ registered' = TRUE
     \/ Skewed /\ a = [code |-> "Unspecified", rev |-> rev] /\ UNCHANGED registered
  /\ UNCHANGED <<committed, rev, at, lastRun, applied>>

(* A commit of what is committed already is a no-op; otherwise the         *)
(* revision must match, and a new one is generated.                        *)
DoCommit(q, a) ==
  /\ q.kind = "commit"
  /\ \/ /\ committed = q.manifest
        /\ a = [code |-> "Ok", rev |-> rev]
        /\ UNCHANGED <<registered, committed, rev, at, applied>>
     \/ /\ committed # q.manifest /\ (q.rev # rev \/ rev = MaxRevision)
        /\ a = [code |-> IF q.rev # rev THEN "Aborted" ELSE "Error", rev |-> 0]
        /\ UNCHANGED <<registered, committed, rev, at, applied>>
     \/ /\ committed # q.manifest /\ q.rev = rev /\ rev < MaxRevision
        /\ registered' = TRUE
        /\ committed' = q.manifest
        /\ rev' = rev + 1
        /\ at' = [at EXCEPT ![rev + 1] = q.manifest]
        /\ applied' = [applied EXCEPT ![q.from] = @ + 1]
        /\ a = [code |-> "Ok", rev |-> rev + 1]
  /\ UNCHANGED lastRun

Accepted(kind) ==
  [code : {"Ok"} \cup {k \in {"NoTaskId"} : Skewed /\ kind \in {"up", "down"}}
                \cup {k \in {"UnknownCode"} : Skewed /\ kind = "cancel"},
   rev : {0}]

(* up runs on what is committed, if nobody committed in between; down and  *)
(* the others do not depend on the revision.                               *)
DoCommand(q, a) ==
  /\ q.kind \in {"up", "down", "status", "cancel"}
  /\ \/ q.kind = "up" /\ q.rev # rev /\ a = [code |-> "Aborted", rev |-> 0] /\ UNCHANGED lastRun
     \/ /\ q.kind = "up" /\ q.rev = rev
        /\ lastRun' = [ran |-> committed, vouched |-> q.manifest]
        /\ a \in Accepted(q.kind)
     \/ /\ q.kind # "up" /\ UNCHANGED lastRun
        /\ a \in Accepted(q.kind) \cup {[code |-> "Error", rev |-> 0]}
  /\ UNCHANGED <<registered, committed, rev, at, applied>>

Execute(q, a) == DoHandshake(q, a) \/ DoCommit(q, a) \/ DoCommand(q, a)

DaemonAnswers(c) ==
  /\ call[c] # None
  /\ call[c].answer = None
  /\ \E a \in Answers : Execute(call[c].req, a) /\ call' = [call EXCEPT ![c].answer = a]
  /\ UNCHANGED <<strays, handleVars, rejected>>

DaemonRunsStray(q) ==
  /\ strays' = strays \ {q}
  /\ \E a \in Answers : Execute(q, a)
  /\ UNCHANGED clientVars

(* A restart that loses the registry: requests under way fail, handles     *)
(* survive it (the channel reconnects) with revisions of the past.         *)
DaemonRestart ==
  /\ "restart" \in Faults
  /\ rev < MaxRevision
  /\ rev' = rev + 1
  /\ at' = [at EXCEPT ![rev + 1] = None]
  /\ registered' = FALSE
  /\ committed' = None
  /\ strays' = {}
  /\ call' = [c \in Clients |->
       IF call[c] = None THEN None
       ELSE [call[c] EXCEPT !.answer = IF @ = None THEN [code |-> "Error", rev |-> 0] ELSE @]]
  /\ UNCHANGED <<lastRun, applied, handleVars, rejected>>

-----------------------------------------------------------------------------
Init ==
  /\ registered = FALSE
  /\ committed = None
  /\ rev = 0
  /\ at = [r \in Revisions |-> None]
  /\ strays = {}
  /\ lastRun = [ran |-> None, vouched |-> None]
  /\ applied = [c \in Clients |-> 0]
  /\ handle = [c \in Clients |-> "gone"]
  /\ expected = [c \in Clients |-> 0]
  /\ manifest = [c \in Clients |-> None]
  /\ rejected = [c \in Clients |-> FALSE]
  /\ call = [c \in Clients |-> None]

ClientStep(c) ==
  \/ Connect(c) \/ Commit(c) \/ Discard(c) \/ Cancel(c) \/ Drop(c)
  \/ \E m \in Manifests : Handshake(c, m) \/ Recheck(c, m)
  \/ \E kind \in Commands \ {"cancel"} : Command(c, kind)
  \/ Answered(c) \/ Failed(c)

DaemonStep ==
  \/ \E c \in Clients : DaemonAnswers(c)
  \/ \E q \in strays : DaemonRunsStray(q)
  \/ DaemonRestart

Next == DaemonStep \/ \E c \in Clients : ClientStep(c)

Spec == Init /\ [][Next]_vars

-----------------------------------------------------------------------------
(* Properties.                                                             *)

(* Type correctness; an UncommittedHandle always has a manifest to commit. *)
TypeOK ==
  /\ registered \in BOOLEAN
  /\ committed \in Manifests \cup {None}
  /\ rev \in Revisions
  /\ at \in [Revisions -> Manifests \cup {None}]
  /\ strays \subseteq Requests
  /\ lastRun \in [ran : Manifests \cup {None}, vouched : Manifests \cup {None}]
  /\ applied \in [Clients -> Revisions]
  /\ handle \in [Clients -> HandleStates]
  /\ \A c \in Clients : handle[c] = "uncommitted" => manifest[c] # None
  /\ expected \in [Clients -> Revisions]
  /\ manifest \in [Clients -> Manifests \cup {None}]
  /\ rejected \in [Clients -> BOOLEAN]
  /\ call \in [Clients -> Calls \cup {None}]

(* A ControlHandle that was not obtained by discard() carries a revision   *)
(* at which exactly its own manifest was committed, whatever was lost,     *)
(* retried or committed by others on the way there.                        *)
ReadyMeansInSync ==
  \A c \in Clients :
    handle[c] = "control" /\ manifest[c] # None => at[expected[c]] = manifest[c]

(* An accepted up runs the manifest its caller vouched for: it "proves the *)
(* client holds the up-to-date state" (up.proto:23-24), also when the      *)
(* request arrives long after its caller gave up.                          *)
UpRunsWhatWasSeen == lastRun.vouched # None => lastRun.ran = lastRun.vouched

(* However often a commit is retried, it is applied at most once in a      *)
(* session: "Retrying is safe" (uncommitted.rs:73), it never overwrites    *)
(* what others have committed since.                                       *)
CommitAppliedOnce == \A c \in Clients : applied[c] <= 1

(* The revision a client's handle carries is of the past.                  *)
Outdated(c) == handle[c] \in {"uncommitted", "control"} /\ expected[c] < rev

(* WrongRevision is told only to a client whose handle is outdated, no     *)
(* other failure sends it back to a handshake (errors.rs:58), and an       *)
(* outdated handle is outdated for good: no call on it, and none that was  *)
(* lost on the way, changes what is committed or starts an up any more.  A *)
(* commit tried again on it may still be answered Ok, when somebody else   *)
(* has committed the same manifest; that gives a new handle.               *)
OutdatedChangesNothing ==
  [][\A c \in Clients :
       /\ rejected[c] => Outdated(c)
       /\ Outdated(c) =>
            /\ expected'[c] = expected[c] => expected'[c] < rev'
            /\ applied'[c] <= applied[c]
            /\ call'[c] # call[c] => UNCHANGED lastRun]_vars
=============================================================================
