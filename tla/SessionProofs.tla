---------------------------- MODULE SessionProofs ----------------------------
(* Proofs about Session.                                                   *)
EXTENDS Session, TLAPS

-----------------------------------------------------------------------------
(* The inductive invariant.                                                *)

(* No request comes from the future; what an up or a commit vouches for    *)
(* was committed at the revision it carries.                               *)
Sound(q) ==
  /\ q.rev <= rev
  /\ q.kind \in {"handshake", "commit"} => q.manifest # None
  /\ q.kind = "up" /\ q.manifest # None => at[q.rev] = q.manifest

(* An answer that makes a handle ready names a revision at which the       *)
(* manifest of the request was committed; an Aborted one was given to a    *)
(* request that carried a revision of the past.                            *)
Truthful(q, a) ==
  /\ a.rev <= rev
  /\ a.code = "InSync" \/ (a.code = "Ok" /\ q.kind = "commit") => at[a.rev] = q.manifest
  /\ a.code = "Aborted" => q.kind \in {"commit", "up"} /\ q.rev < rev

(* A call was made on the handle its client still holds.                   *)
OnHandle(c, q) ==
  /\ q.from = c
  /\ q.kind = "handshake" => handle[c] # "uncommitted"
  /\ q.kind = "commit" => /\ handle[c] = "uncommitted"
                          /\ q.rev = expected[c]
                          /\ q.manifest = manifest[c]
  /\ q.kind = "up" => handle[c] = "control" /\ q.rev = expected[c]

CallInv(c) ==
  call[c] # None =>
    /\ Sound(call[c].req)
    /\ OnHandle(c, call[c].req)
    /\ call[c].answer # None => Truthful(call[c].req, call[c].answer)

HistoryInv == at[rev] = committed

RequestsInv ==
  /\ \A q \in strays : Sound(q)
  /\ \A c \in Clients : CallInv(c)

HandlesInv ==
  /\ \A c \in Clients : expected[c] <= rev
  /\ \A c \in Clients : rejected[c] => Outdated(c)
  /\ ReadyMeansInSync

(* Once a commit was applied for a session, its other commits are outdated.*)
AppliedInv ==
  /\ CommitAppliedOnce
  /\ \A c \in Clients : applied[c] # 0 =>
       /\ \A q \in strays : q.from = c /\ q.kind = "commit" => q.rev < rev
       /\ handle[c] = "uncommitted" => expected[c] < rev

(* Late commits are no newer than the handle of their client, nor than the *)
(* one it is about to get.                                                 *)
IsLate(q, c) == q.from = c /\ q.kind = "commit"
Grants(q, a) == /\ q.kind \in {"handshake", "commit"}
                /\ a.code \in {"InSync", "OutOfSync", "Unregistered", "Ok"}
LateInv ==
  \A c \in Clients, q \in strays : IsLate(q, c) =>
    /\ handle[c] \in {"uncommitted", "control"} => q.rev <= expected[c]
    /\ call[c] # None /\ call[c].answer # None /\ Grants(call[c].req, call[c].answer)
         => q.rev <= call[c].answer.rev

IInv == TypeOK /\ HistoryInv /\ RequestsInv /\ HandlesInv /\ AppliedInv /\ UpRunsWhatWasSeen

-----------------------------------------------------------------------------
(* What a call and its request are made of.                                *)

\* A call under way has a request and perhaps an answer.
LEMMA CallFields ==
  ASSUME TypeOK, NEW c \in Clients, call[c] # None
  PROVE  /\ call[c] \in Calls
         /\ call[c].req \in Requests
         /\ call[c].answer # None => call[c].answer \in Answers
  BY DEF TypeOK, Calls

\* The parts of a request.
LEMMA RequestFields ==
  ASSUME NEW q \in Requests
  PROVE  /\ q.kind \in Kinds
         /\ q.from \in Clients
         /\ q.rev \in Revisions
         /\ q.manifest \in Manifests \cup {None}
  BY DEF Requests

\* The parts of an answer.
LEMMA AnswerFields ==
  ASSUME NEW a \in Answers
  PROVE  a.code \in Codes /\ a.rev \in Revisions
  BY DEF Answers

\* Revisions are numbers, so that they can be compared.
LEMMA RevisionsAreNumbers == \A r \in Revisions : r \in Nat /\ r <= MaxRevision
  BY SessionAssumption DEF Revisions

\* A fresh daemon and clients without handles satisfy the invariant.
LEMMA InitInv == Init => IInv
  <1> SUFFICES ASSUME Init PROVE IInv
    OBVIOUS
  <1>1. 0 \in Revisions
    BY SessionAssumption DEF Revisions
  <1>2. TypeOK
    BY <1>1 DEF Init, TypeOK, HandleStates
  <1>3. HistoryInv /\ RequestsInv /\ UpRunsWhatWasSeen
    BY <1>1 DEF Init, HistoryInv, RequestsInv, CallInv, UpRunsWhatWasSeen
  <1>4. HandlesInv /\ AppliedInv
    BY DEF Init, HandlesInv, ReadyMeansInSync, AppliedInv, CommitAppliedOnce
  <1> QED
    BY <1>2, <1>3, <1>4 DEF IInv

-----------------------------------------------------------------------------
(* What a client does.                                                     *)

(* The predicates on requests and answers read nothing but the daemon's    *)
(* revisions.                                                              *)
LEMMA SameDaemon ==
  ASSUME UNCHANGED daemonVars
  PROVE  /\ \A q : Sound(q)' <=> Sound(q)
         /\ \A q, a : Truthful(q, a)' <=> Truthful(q, a)
         /\ UNCHANGED <<registered, committed, rev, at, lastRun>>
  BY DEF daemonVars, Sound, Truthful

(* A request that fits the handle it is made on may be sent.               *)
LEMMA SendInv ==
  ASSUME IInv, NEW c \in Clients, NEW kind \in Kinds, NEW r \in Revisions,
         NEW m \in Manifests \cup {None}, Send(c, kind, r, m),
         Sound([kind |-> kind, from |-> c, rev |-> r, manifest |-> m]),
         OnHandle(c, [kind |-> kind, from |-> c, rev |-> r, manifest |-> m]),
         UNCHANGED <<daemonVars, strays, applied, handleVars>>
  PROVE  IInv'
  <1> DEFINE q == [kind |-> kind, from |-> c, rev |-> r, manifest |-> m]
             new == [req |-> q, answer |-> None]
  <1>1. q \in Requests /\ new \in Calls
    BY DEF Requests, Calls
  <1>2. /\ call' = [call EXCEPT ![c] = new]
        /\ rejected' = [rejected EXCEPT ![c] = FALSE]
    BY DEF Send
  <1>3. UNCHANGED <<handle, expected, manifest>>
    BY DEF handleVars
  <1>4. TypeOK'
    BY <1>1, <1>2, <1>3, SameDaemon DEF IInv, TypeOK
  <1>5. call'[c] = new /\ \A d \in Clients \ {c} : call'[d] = call[d]
    BY <1>2 DEF IInv, TypeOK
  <1>6. \A d \in Clients : \A x : OnHandle(d, x)' <=> OnHandle(d, x)
    BY <1>3 DEF OnHandle
  <1>7. RequestsInv'
    <2>1. \A x \in strays' : Sound(x)'
      BY SameDaemon DEF IInv, RequestsInv
    <2>2. CallInv(c)'
      <3>1. Sound(q)' /\ OnHandle(c, q)'
        BY <1>6, SameDaemon
      <3> QED
        BY <3>1, <1>5 DEF CallInv
    <2>3. ASSUME NEW d \in Clients \ {c} PROVE CallInv(d)'
      BY <1>5, <1>6, SameDaemon DEF IInv, RequestsInv, CallInv
    <2> QED
      BY <2>1, <2>2, <2>3 DEF RequestsInv
  <1>8. HandlesInv'
    BY <1>2, <1>3, SameDaemon DEF IInv, TypeOK, HandlesInv, Outdated,
        ReadyMeansInSync
  <1>9. HistoryInv' /\ UpRunsWhatWasSeen'
    BY SameDaemon DEF IInv, HistoryInv, UpRunsWhatWasSeen
  <1>10. AppliedInv'
    BY <1>3, SameDaemon DEF IInv, AppliedInv, CommitAppliedOnce
  <1> QED
    BY <1>4, <1>7, <1>8, <1>9, <1>10 DEF IInv

(* The calls of a client fit the handle they are made on.                  *)
LEMMA SendsInv ==
  ASSUME IInv, NEW c \in Clients,
         \/ Commit(c) \/ Cancel(c)
         \/ \E m \in Manifests : Handshake(c, m) \/ Recheck(c, m)
         \/ \E kind \in Commands \ {"cancel"} : Command(c, kind)
  PROVE  IInv'
  <1>1. /\ 0 \in Revisions /\ expected[c] \in Revisions
        /\ manifest[c] \in Manifests \cup {None}
        /\ 0 <= rev /\ expected[c] <= rev
    BY SessionAssumption DEF IInv, TypeOK, HandlesInv, Revisions
  <1>2. CASE Commit(c)
    <2>1. manifest[c] # None
      BY <1>2 DEF Commit, IInv, TypeOK
    <2> QED
      BY <1>1, <1>2, <2>1, SendInv DEF Commit, Sound, OnHandle, Kinds
  <1>3. CASE Cancel(c)
    BY <1>1, <1>3, SendInv DEF Cancel, Sound, OnHandle, Kinds
  <1>4. ASSUME NEW m \in Manifests, Handshake(c, m) \/ Recheck(c, m)
        PROVE  IInv'
    <2>1. m # None
      BY SessionAssumption
    <2> QED
      BY <1>1, <1>4, <2>1, SendInv DEF Handshake, Recheck, Sound, OnHandle, Kinds
  <1>5. ASSUME NEW kind \in Commands \ {"cancel"}, Command(c, kind)
        PROVE  IInv'
    <2>1. kind \in {"up", "down", "status"}
      BY SessionAssumption
    <2>2. kind = "up" /\ manifest[c] # None => at[expected[c]] = manifest[c]
      BY <1>5 DEF Command, IInv, HandlesInv, ReadyMeansInSync
    <2> QED
      BY <1>1, <1>5, <2>1, <2>2, SendInv DEF Command, Sound, OnHandle, Kinds
  <1> QED
    BY <1>2, <1>3, <1>4, <1>5

(* What moves a handle while no call is under way on it.                   *)
LEMMA HandleMovesInv ==
  ASSUME IInv, NEW c \in Clients,
         Connect(c) \/ Discard(c) \/ Drop(c)
  PROVE  IInv'
  <1>1. /\ UNCHANGED <<daemonVars, strays, call>>
        /\ call[c] = None
        /\ 0 \in Revisions /\ 0 <= rev
    BY SessionAssumption DEF Connect, Discard, Drop, Revisions, IInv, TypeOK
  <1>2. \A d \in Clients \ {c} :
          /\ handle'[d] = handle[d] /\ expected'[d] = expected[d]
          /\ manifest'[d] = manifest[d] /\ rejected'[d] = rejected[d] /\ applied'[d] = applied[d]
    BY DEF Connect, Discard, Drop, IInv, TypeOK
  <1>3. \A d \in Clients : call[d] # None => \A x : OnHandle(d, x)' <=> OnHandle(d, x)
    BY <1>1, <1>2 DEF OnHandle
  <1>4. TypeOK'
    <2> USE SameDaemon DEF IInv, TypeOK, HandleStates
    <2>1. CASE Connect(c)
      BY <1>1, <2>1 DEF Connect
    <2>2. CASE Discard(c)
      BY <1>1, <2>2 DEF Discard
    <2>3. CASE Drop(c)
      BY <1>1, <2>3 DEF Drop
    <2> QED
      BY <2>1, <2>2, <2>3
  <1>5. RequestsInv'
    BY <1>1, <1>3, SameDaemon DEF IInv, RequestsInv, CallInv
  <1>6. /\ handle'[c] # "uncommitted"
        /\ handle'[c] = "control" => manifest'[c] = None
        /\ expected'[c] \in {0, expected[c]}
        /\ applied'[c] \in {0, applied[c]}
        /\ \/ ~rejected'[c]
           \/ ~rejected[c] /\ rejected'[c] = rejected[c]
           \/ /\ rejected'[c] = rejected[c] /\ expected'[c] = expected[c]
              /\ handle'[c] = "control"
    BY DEF Connect, Discard, Drop, IInv, TypeOK, HandlesInv, Outdated
  <1>7. HandlesInv'
    <2>1. \A d \in Clients : expected'[d] <= rev'
      BY <1>1, <1>2, <1>6, SameDaemon DEF IInv, HandlesInv
    <2>2. \A d \in Clients : rejected'[d] => Outdated(d)'
      BY <1>1, <1>2, <1>6, SameDaemon DEF IInv, HandlesInv, Outdated
    <2>3. ReadyMeansInSync'
      BY <1>1, <1>2, <1>6, SameDaemon DEF IInv, HandlesInv, ReadyMeansInSync
    <2> QED
      BY <2>1, <2>2, <2>3 DEF HandlesInv
  <1>8. AppliedInv'
    BY <1>1, <1>2, <1>6, SameDaemon DEF IInv, AppliedInv, CommitAppliedOnce
  <1>9. HistoryInv' /\ UpRunsWhatWasSeen'
    BY <1>1, SameDaemon DEF IInv, HistoryInv, UpRunsWhatWasSeen
  <1> QED
    BY <1>4, <1>5, <1>7, <1>8, <1>9 DEF IInv

(* Only an Aborted call sends its client back to a handshake.              *)
LEMMA ErrorOfCodes ==
  ASSUME NEW code
  PROVE  /\ ErrorOf(code) \in Errors
         /\ ErrorOf(code) = "WrongRevision" <=> code = "Aborted"
  <1>1. CASE code = "Aborted"
    BY <1>1 DEF ErrorOf, Errors
  <1>2. CASE code = "Error"
    BY <1>2 DEF ErrorOf, Errors
  <1>3. CASE code \in {"Unspecified", "NoTaskId", "UnknownCode"}
    BY <1>3 DEF ErrorOf, Errors
  <1>4. CASE code \notin {"Aborted", "Error", "Unspecified", "NoTaskId", "UnknownCode"}
    BY <1>4 DEF ErrorOf, Errors
  <1> QED
    BY <1>1, <1>2, <1>3, <1>4

HandleTypes ==
  /\ handle \in [Clients -> HandleStates]
  /\ expected \in [Clients -> Revisions]
  /\ manifest \in [Clients -> Manifests \cup {None}]

\* A handle made from an answer is a handle.
LEMMA NewHandleType ==
  ASSUME TypeOK, NEW c \in Clients, NEW h \in HandleStates, NEW r \in Revisions,
         NEW m \in Manifests \cup {None}, NewHandle(c, h, r, m)
  PROVE  HandleTypes'
  BY DEF TypeOK, NewHandle, HandleTypes

(* A call that returns with an answer that is true leaves a handle on      *)
(* which everything holds; a request that failed may be left behind.       *)
LEMMA ReturnsInv ==
  ASSUME IInv, NEW c \in Clients, call[c] # None,
         NEW a \in Answers, Truthful(call[c].req, a), Returns(c, call[c].req, a),
         strays' \subseteq strays \cup {call[c].req},
         UNCHANGED <<daemonVars>>
  PROVE  IInv'
  <1> DEFINE q == call[c].req
  <1>1. /\ q \in Requests /\ Sound(q) /\ OnHandle(c, q)
        /\ q.kind \in Kinds /\ q.manifest \in Manifests \cup {None} /\ q.rev \in Revisions
        /\ a.code \in Codes /\ a.rev \in Revisions /\ 0 \in Revisions
    BY CallFields, RequestFields, AnswerFields, SessionAssumption
    DEF IInv, RequestsInv, CallInv, Revisions
  <1>2. \A d \in Clients \ {c} :
          /\ handle'[d] = handle[d] /\ expected'[d] = expected[d]
          /\ manifest'[d] = manifest[d] /\ rejected'[d] = rejected[d] /\ applied'[d] = applied[d]
          /\ call'[d] = call[d]
    BY DEF Returns, HandshakeReturns, CommitReturns, CommandReturns, NewHandle, SameHandle,
           handleVars, IInv, TypeOK
  <1>3. call'[c] = None /\ rejected'[c] = (ErrorOf(a.code) = "WrongRevision")
    BY DEF Returns, IInv, TypeOK
  <1>4. \A d \in Clients \ {c} : \A x : OnHandle(d, x)' <=> OnHandle(d, x)
    BY <1>2 DEF OnHandle
  <1>5. \/ /\ q.kind = "handshake" /\ applied'[c] = 0
           /\ a.code # "Aborted"
           /\ \/ /\ handle'[c] = "control" /\ at[a.rev] = q.manifest
                 /\ expected'[c] = a.rev /\ manifest'[c] = q.manifest
              \/ /\ handle'[c] = "uncommitted"
                 /\ expected'[c] = a.rev /\ manifest'[c] = q.manifest
              \/ handle'[c] = "gone" /\ expected'[c] = 0 /\ manifest'[c] = None
        \/ /\ q.kind = "commit" /\ a.code = "Ok" /\ applied' = applied
           /\ handle'[c] = "control" /\ at[a.rev] = q.manifest
           /\ expected'[c] = a.rev /\ manifest'[c] = q.manifest
        \/ /\ q.kind # "handshake" /\ applied' = applied
           /\ a.code = "Aborted" => q.rev = expected[c]
           /\ handle'[c] = handle[c] /\ expected'[c] = expected[c]
           /\ manifest'[c] = manifest[c]
    BY <1>1
    DEF Returns, HandshakeReturns, CommitReturns, CommandReturns, NewHandle, SameHandle,
        handleVars, IInv, TypeOK, OnHandle, Truthful
  <1>6. TypeOK'
    <2>1. /\ call' \in [Clients -> Calls \cup {None}]
          /\ rejected' \in [Clients -> BOOLEAN]
          /\ applied' \in [Clients -> Revisions]
          /\ strays' \subseteq Requests
      BY <1>1, ErrorOfCodes DEF Returns, IInv, TypeOK
    <2>2. HandleTypes'
      <3>1. /\ expected[c] \in Revisions /\ manifest[c] \in Manifests \cup {None}
            /\ {"control", "uncommitted", "gone"} \subseteq HandleStates
        BY DEF IInv, TypeOK, HandleStates
      <3>2. CASE HandshakeReturns(c, q, a)
        BY <1>1, <3>1, <3>2, NewHandleType DEF HandshakeReturns, IInv
      <3>3. CASE CommitReturns(c, q, a)
        <4>1. CASE SameHandle
          BY <4>1 DEF SameHandle, handleVars, HandleTypes, IInv, TypeOK
        <4> QED
          BY <1>1, <3>1, <3>3, <4>1, NewHandleType DEF CommitReturns, IInv
      <3>4. CASE CommandReturns(c, q, a)
        BY <3>4 DEF CommandReturns, SameHandle, handleVars, HandleTypes, IInv, TypeOK
      <3> QED
        BY <3>2, <3>3, <3>4 DEF Returns
    <2>3. ASSUME NEW d \in Clients, handle'[d] = "uncommitted" PROVE manifest'[d] # None
      BY <1>1, <1>2, <1>5, <2>3 DEF IInv, TypeOK, Sound
    <2> QED
      BY <2>1, <2>2, <2>3, SameDaemon DEF HandleTypes, IInv, TypeOK
  <1>7. HistoryInv' /\ UpRunsWhatWasSeen'
    BY SameDaemon DEF IInv, HistoryInv, UpRunsWhatWasSeen
  <1>8. RequestsInv'
    BY <1>1, <1>2, <1>3, <1>4, SameDaemon DEF IInv, RequestsInv, CallInv
  <1>9. HandlesInv'
    <2>1. a.rev <= rev /\ 0 <= rev
      BY SessionAssumption DEF IInv, TypeOK, Truthful, Revisions
    <2>2. \A d \in Clients : expected'[d] <= rev'
      BY <1>2, <1>5, <2>1, SameDaemon DEF IInv, HandlesInv
    <2>3. a.code = "Aborted" => Outdated(c)'
      BY <1>1, <1>5, SameDaemon DEF Truthful, Outdated, OnHandle
    <2>4. \A d \in Clients : rejected'[d] => Outdated(d)'
      BY <1>2, <1>3, <2>3, ErrorOfCodes, SameDaemon DEF IInv, HandlesInv, Outdated
    <2>5. ReadyMeansInSync'
      BY <1>2, <1>5, SameDaemon DEF IInv, HandlesInv, ReadyMeansInSync
    <2> QED
      BY <2>2, <2>4, <2>5 DEF HandlesInv
  <1>10. AppliedInv'
    <2>1. applied'[c] \in {0, applied[c]}
      BY <1>5
    <2>2. CommitAppliedOnce'
      BY <1>2, <2>1 DEF IInv, AppliedInv, CommitAppliedOnce
    <2>3. ASSUME NEW d \in Clients, applied'[d] # 0,
                 NEW x \in strays', x.from = d, x.kind = "commit"
          PROVE  x.rev < rev'
      <3>1. applied[d] # 0
        BY <1>2, <2>1, <2>3
      <3>2. CASE x \in strays
        BY <2>3, <3>1, <3>2, SameDaemon DEF IInv, AppliedInv
      <3>3. CASE x = q
        BY <1>1, <2>3, <3>1, <3>3, SameDaemon DEF IInv, AppliedInv, OnHandle
      <3> QED
        BY <3>2, <3>3
    <2>4. ASSUME NEW d \in Clients, applied'[d] # 0, handle'[d] = "uncommitted"
          PROVE  expected'[d] < rev'
      BY <1>2, <1>5, <2>4, SameDaemon DEF IInv, AppliedInv
    <2> QED
      BY <2>2, <2>3, <2>4 DEF AppliedInv
  <1> QED
    BY <1>6, <1>7, <1>8, <1>9, <1>10 DEF IInv

(* A call that fails carries no revision, and is no sign of an outdated one. *)
LEMMA AnswersInv ==
  ASSUME IInv, NEW c \in Clients, Answered(c) \/ Failed(c)
  PROVE  IInv'
  <1>1. CASE Answered(c)
    <2>1. call[c].answer \in Answers /\ Truthful(call[c].req, call[c].answer)
      BY <1>1, CallFields DEF Answered, IInv, RequestsInv, CallInv
    <2> QED
      BY <1>1, <2>1, ReturnsInv DEF Answered
  <1>2. CASE Failed(c)
    <2> DEFINE a == [code |-> "Error", rev |-> 0]
    <2>1. a \in Answers
      BY SessionAssumption DEF Answers, Codes, Revisions
    <2>2. Truthful(call[c].req, a)
      BY SessionAssumption DEF IInv, TypeOK, Truthful, Revisions
    <2>3. strays' \subseteq strays \cup {call[c].req}
      BY <1>2 DEF Failed
    <2>4. call[c] # None /\ Returns(c, call[c].req, a) /\ UNCHANGED daemonVars
      BY <1>2 DEF Failed
    <2> QED
      BY <2>1, <2>2, <2>3, <2>4, ReturnsInv
  <1> QED
    BY <1>1, <1>2

-----------------------------------------------------------------------------
(* What the daemon does.                                                   *)

(* Revisions only grow, and what was committed at one never changes.       *)
Advances ==
  /\ registered' \in BOOLEAN
  /\ committed' \in Manifests \cup {None}
  /\ rev' \in Revisions /\ rev <= rev'
  /\ at' \in [Revisions -> Manifests \cup {None}]
  /\ at'[rev'] = committed'
  /\ \A r \in Revisions : r <= rev => at'[r] = at[r]

\* Requests that were sound stay so while the daemon's history grows.
LEMMA SoundStaysSound ==
  ASSUME TypeOK, Advances, NEW q \in Requests, Sound(q)
  PROVE  Sound(q)'
  BY RevisionsAreNumbers, RequestFields DEF TypeOK, Advances, Sound

\* Answers that were true stay so while the daemon's history grows.
LEMMA TruthStaysTrue ==
  ASSUME TypeOK, Advances, NEW q \in Requests, NEW a \in Answers, Truthful(q, a)
  PROVE  Truthful(q, a)'
  <1>1. /\ rev \in Nat /\ rev' \in Nat /\ a.rev \in Revisions /\ a.rev \in Nat
        /\ q.rev \in Nat
    BY RevisionsAreNumbers, RequestFields, AnswerFields DEF TypeOK, Advances
  <1> QED
    BY <1>1 DEF Advances, Truthful

(* Where a commit is applied the revision was up to date, and moves on.    *)
CountsCommit(q) ==
  \/ UNCHANGED applied
  \/ /\ q.kind = "commit" /\ q.rev = rev /\ rev' = rev + 1
     /\ applied' = [applied EXCEPT ![q.from] = @ + 1]

(* Every request the daemon executes is answered truthfully.               *)
LEMMA ExecuteFacts ==
  ASSUME TypeOK, HistoryInv, UpRunsWhatWasSeen,
         NEW q \in Requests, Sound(q), NEW a \in Answers, Execute(q, a)
  PROVE  /\ Advances
         /\ Truthful(q, a)'
         /\ CountsCommit(q)
         /\ UpRunsWhatWasSeen'
         /\ lastRun' \in [ran : Manifests \cup {None}, vouched : Manifests \cup {None}]
  <1>1. /\ q.kind \in Kinds /\ q.manifest \in Manifests \cup {None} /\ q.rev \in Revisions
        /\ q.rev \in Nat /\ rev \in Nat /\ rev \in Revisions
        /\ MaxRevision \in Nat
    BY RequestFields, RevisionsAreNumbers, SessionAssumption DEF TypeOK
  <1>2. CASE DoHandshake(q, a)
    <2>1. UNCHANGED <<committed, rev, at, lastRun, applied>> /\ registered' \in BOOLEAN
      BY <1>2 DEF DoHandshake, TypeOK
    <2>2. Advances
      BY <1>1, <2>1 DEF Advances, TypeOK, HistoryInv
    <2>3. Truthful(q, a)'
      BY <1>1, <1>2, <2>1 DEF DoHandshake, Truthful, HistoryInv
    <2> QED
      BY <2>1, <2>2, <2>3 DEF CountsCommit, UpRunsWhatWasSeen, TypeOK
  <1>3. CASE DoCommit(q, a)
    <2>1. /\ UNCHANGED lastRun
          /\ UpRunsWhatWasSeen'
      BY <1>3 DEF DoCommit, UpRunsWhatWasSeen
    <2>2. CASE UNCHANGED <<registered, committed, rev, at, applied>>
      <3>1. Advances
        BY <1>1, <2>2 DEF Advances, TypeOK, HistoryInv
      <3>2. Truthful(q, a)'
        BY <1>1, <1>3, <2>2 DEF DoCommit, Truthful, HistoryInv, Sound
      <3> QED
        BY <2>1, <2>2, <3>1, <3>2 DEF CountsCommit, TypeOK
    <2>3. CASE /\ q.rev = rev /\ rev < MaxRevision
               /\ registered' = TRUE /\ committed' = q.manifest /\ rev' = rev + 1
               /\ at' = [at EXCEPT ![rev + 1] = q.manifest]
               /\ applied' = [applied EXCEPT ![q.from] = @ + 1]
               /\ a = [code |-> "Ok", rev |-> rev + 1]
      <3>1. rev + 1 \in Revisions
        BY <1>1, <2>3 DEF Revisions
      <3>2. /\ at' \in [Revisions -> Manifests \cup {None}]
            /\ at'[rev + 1] = q.manifest
            /\ \A r \in Revisions : r <= rev => at'[r] = at[r]
        BY <1>1, <2>3, <3>1 DEF TypeOK
      <3> QED
        BY <1>1, <1>3, <2>1, <2>3, <3>1, <3>2
        DEF DoCommit, Advances, Truthful, CountsCommit, TypeOK
    <2> QED
      BY <1>3, <2>2, <2>3 DEF DoCommit
  <1>4. CASE DoCommand(q, a)
    <2>1. UNCHANGED <<registered, committed, rev, at, applied>>
      BY <1>4 DEF DoCommand
    <2>2. Advances
      BY <1>1, <2>1 DEF Advances, TypeOK, HistoryInv
    <2>3. q.kind # "commit" /\ q.kind # "handshake"
      BY <1>4 DEF DoCommand
    <2>4. \/ UNCHANGED lastRun
          \/ /\ q.kind = "up" /\ q.rev = rev
             /\ lastRun' = [ran |-> committed, vouched |-> q.manifest]
      BY <1>4 DEF DoCommand
    <2>5. /\ a.rev = 0 /\ a.code # "InSync"
          /\ a.code = "Aborted" => q.kind = "up" /\ q.rev # rev
      BY <1>4 DEF DoCommand, Accepted
    <2>6. Truthful(q, a)'
      BY <1>1, <2>1, <2>3, <2>5 DEF Truthful, Sound
    <2>7. /\ UpRunsWhatWasSeen'
          /\ lastRun' \in [ran : Manifests \cup {None}, vouched : Manifests \cup {None}]
      <3>1. CASE UNCHANGED lastRun
        BY <3>1 DEF UpRunsWhatWasSeen, TypeOK
      <3>2. CASE /\ q.kind = "up" /\ q.rev = rev
                 /\ lastRun' = [ran |-> committed, vouched |-> q.manifest]
        <4>1. q.manifest # None => q.manifest = committed
          BY <3>2 DEF HistoryInv, Sound
        <4> QED
          BY <1>1, <3>2, <4>1 DEF UpRunsWhatWasSeen, TypeOK
      <3> QED
        BY <2>4, <3>1, <3>2
    <2> QED
      BY <2>1, <2>2, <2>6, <2>7 DEF CountsCommit
  <1> QED
    BY <1>2, <1>3, <1>4 DEF Execute

(* Handles and answers that were good stay good while the daemon goes on.  *)
LEMMA HandlesStayGood ==
  ASSUME TypeOK, HandlesInv, Advances, UNCHANGED <<handleVars, rejected>>
  PROVE  HandlesInv'
  <1>1. UNCHANGED <<handle, expected, manifest, rejected>>
    BY DEF handleVars
  <1>2. /\ rev \in Nat /\ rev' \in Nat
        /\ \A c \in Clients : expected[c] \in Revisions /\ expected[c] \in Nat
    BY RevisionsAreNumbers DEF TypeOK, Advances
  <1> QED
    BY <1>1, <1>2 DEF HandlesInv, ReadyMeansInSync, Outdated, Advances

(* So do the calls the daemon is not working on.                           *)
LEMMA CallStaysGood ==
  ASSUME IInv, Advances, UNCHANGED handleVars, NEW c \in Clients, call'[c] = call[c]
  PROVE  CallInv(c)'
  <1> SUFFICES ASSUME call[c] # None PROVE CallInv(c)'
    BY DEF CallInv
  <1>1. PICK q \in Requests : q = call[c].req
    BY CallFields DEF IInv
  <1>2. UNCHANGED <<handle, expected, manifest>>
    BY DEF handleVars
  <1>3. Sound(q)' /\ OnHandle(c, q)'
    BY <1>1, <1>2, SoundStaysSound DEF IInv, RequestsInv, CallInv, OnHandle
  <1>4. ASSUME call[c].answer # None
        PROVE  Truthful(call[c].req, call[c].answer)'
    <2>1. PICK a \in Answers : a = call[c].answer
      BY <1>4, CallFields DEF IInv
    <2>2. Truthful(q, a)'
      BY <1>1, <1>4, <2>1, TruthStaysTrue DEF IInv, RequestsInv, CallInv
    <2> QED
      BY <1>1, <2>1, <2>2
  <1> QED
    BY <1>1, <1>3, <1>4 DEF CallInv

(* A commit is applied for a session only if none was before, and makes    *)
(* the other requests of the session outdated.                             *)
LEMMA AppliedStaysOnce ==
  ASSUME IInv, NEW q \in Requests, Advances, CountsCommit(q),
         q.kind = "commit" /\ q.rev = rev => applied[q.from] = 0,
         UNCHANGED handleVars, strays' \subseteq strays
  PROVE  AppliedInv' /\ applied' \in [Clients -> Revisions]
  <1>1. /\ rev \in Nat /\ rev' \in Nat /\ rev <= rev' /\ q.from \in Clients
        /\ UNCHANGED <<handle, expected, manifest>>
        /\ \A x \in strays : x.rev \in Nat /\ x.rev <= rev
        /\ \A c \in Clients : expected[c] \in Nat /\ expected[c] <= rev
    BY RequestFields, RevisionsAreNumbers
    DEF IInv, TypeOK, RequestsInv, Sound, HandlesInv, Advances, handleVars
  <1>2. CASE UNCHANGED applied
    BY <1>1, <1>2 DEF IInv, TypeOK, AppliedInv, CommitAppliedOnce
  <1>3. CASE /\ q.kind = "commit" /\ q.rev = rev /\ rev' = rev + 1
             /\ applied' = [applied EXCEPT ![q.from] = @ + 1]
    <2>1. /\ applied'[q.from] = 1
          /\ \A c \in Clients \ {q.from} : applied'[c] = applied[c]
      BY <1>1, <1>3 DEF IInv, TypeOK
    <2>2. 1 \in Revisions
      BY <1>1, <1>3, SessionAssumption DEF Advances, Revisions
    <2>3. applied' \in [Clients -> Revisions]
      BY <1>1, <1>3, <2>1, <2>2 DEF IInv, TypeOK
    <2>4. CommitAppliedOnce'
      BY <2>1 DEF IInv, AppliedInv, CommitAppliedOnce
    <2>5. \A x \in strays' : x.rev < rev'
      BY <1>1, <1>3
    <2>6. \A c \in Clients : expected'[c] < rev'
      BY <1>1, <1>3
    <2> QED
      BY <2>3, <2>4, <2>5, <2>6 DEF AppliedInv
  <1> QED
    BY <1>2, <1>3 DEF CountsCommit

(* The request of a client that is still waiting for it.                   *)
LEMMA DaemonAnswersInv ==
  ASSUME IInv, NEW c \in Clients, DaemonAnswers(c)
  PROVE  IInv'
  <1>1. PICK q \in Requests : q = call[c].req
    BY CallFields DEF DaemonAnswers, IInv
  <1>2. /\ call[c] # None /\ call[c] \in Calls /\ call[c].answer = None
        /\ Sound(q) /\ OnHandle(c, q)
    BY <1>1, CallFields DEF DaemonAnswers, IInv, RequestsInv, CallInv
  <1>3. PICK a \in Answers : Execute(q, a) /\ call' = [call EXCEPT ![c].answer = a]
    BY <1>1 DEF DaemonAnswers
  <1>4. /\ Advances /\ Truthful(q, a)' /\ CountsCommit(q) /\ UpRunsWhatWasSeen'
        /\ lastRun' \in [ran : Manifests \cup {None}, vouched : Manifests \cup {None}]
    BY <1>2, <1>3, ExecuteFacts DEF IInv
  <1>5. UNCHANGED <<strays, handle, expected, manifest, handleVars, rejected>>
    BY DEF DaemonAnswers, handleVars
  <1>6. /\ call'[c].req = q /\ call'[c].answer = a
        /\ call' \in [Clients -> Calls \cup {None}]
        /\ \A d \in Clients \ {c} : call'[d] = call[d]
    BY <1>1, <1>2, <1>3 DEF IInv, TypeOK, Calls
  <1>7. HistoryInv' /\ HandlesInv'
    BY <1>4, <1>5, HandlesStayGood DEF IInv, Advances, HistoryInv
  <1>8. RequestsInv'
    <2>1. \A x \in strays' : Sound(x)'
      BY <1>4, <1>5, SoundStaysSound DEF IInv, TypeOK, RequestsInv
    <2>2. Sound(q)' /\ OnHandle(c, q)'
      BY <1>2, <1>4, <1>5, SoundStaysSound DEF IInv, OnHandle
    <2>3. CallInv(c)'
      BY <1>4, <1>6, <2>2 DEF CallInv
    <2>4. \A d \in Clients \ {c} : CallInv(d)'
      BY <1>4, <1>5, <1>6, CallStaysGood
    <2> QED
      BY <2>1, <2>3, <2>4 DEF RequestsInv
  <1>9. AppliedInv' /\ applied' \in [Clients -> Revisions]
    <2>1. ASSUME q.kind = "commit", q.rev = rev PROVE applied[q.from] = 0
      <3>1. q.from = c /\ handle[c] = "uncommitted" /\ expected[c] = rev
        BY <1>2, <2>1 DEF OnHandle
      <3>2. rev \in Nat
        BY RevisionsAreNumbers DEF IInv, TypeOK
      <3> QED
        BY <3>1, <3>2 DEF IInv, AppliedInv
    <2> QED
      BY <1>4, <1>5, <2>1, AppliedStaysOnce
  <1>10. TypeOK'
    BY <1>4, <1>5, <1>6, <1>9 DEF IInv, TypeOK, Advances
  <1> QED
    BY <1>4, <1>7, <1>8, <1>9, <1>10 DEF IInv

(* A request whose caller has given up.                                    *)
LEMMA DaemonRunsStrayInv ==
  ASSUME IInv, NEW q \in strays, DaemonRunsStray(q)
  PROVE  IInv'
  <1>1. q \in Requests /\ Sound(q)
    BY DEF IInv, TypeOK, RequestsInv
  <1>2. PICK a \in Answers : Execute(q, a)
    BY DEF DaemonRunsStray
  <1>3. /\ Advances /\ CountsCommit(q) /\ UpRunsWhatWasSeen'
        /\ lastRun' \in [ran : Manifests \cup {None}, vouched : Manifests \cup {None}]
    BY <1>1, <1>2, ExecuteFacts DEF IInv
  <1>4. /\ UNCHANGED <<handle, expected, manifest, handleVars, rejected, call>>
        /\ strays' \subseteq strays
    BY DEF DaemonRunsStray, clientVars, handleVars
  <1>5. HistoryInv' /\ HandlesInv'
    BY <1>3, <1>4, HandlesStayGood DEF IInv, Advances, HistoryInv
  <1>6. RequestsInv'
    BY <1>3, <1>4, SoundStaysSound, CallStaysGood DEF IInv, TypeOK, RequestsInv
  <1>7. AppliedInv' /\ applied' \in [Clients -> Revisions]
    <2>1. ASSUME q.kind = "commit", q.rev = rev PROVE applied[q.from] = 0
      BY <1>1, <2>1, RequestFields, RevisionsAreNumbers DEF IInv, TypeOK, AppliedInv
    <2> QED
      BY <1>1, <1>3, <1>4, <2>1, AppliedStaysOnce
  <1>8. TypeOK'
    BY <1>3, <1>4, <1>7 DEF IInv, TypeOK, Advances
  <1> QED
    BY <1>3, <1>5, <1>6, <1>7, <1>8 DEF IInv

(* A restart: the calls under way fail, the others keep their answers.     *)
LEMMA DaemonRestartInv ==
  ASSUME IInv, DaemonRestart
  PROVE  IInv'
  <1>1. /\ rev \in Nat /\ rev < MaxRevision /\ MaxRevision \in Nat /\ rev' = rev + 1
        /\ rev' \in Revisions
    BY RevisionsAreNumbers, SessionAssumption DEF IInv, TypeOK, DaemonRestart, Revisions
  <1>2. Advances
    <2>1. /\ registered' = FALSE /\ committed' = None
          /\ at' = [at EXCEPT ![rev + 1] = None]
      BY DEF DaemonRestart
    <2>2. /\ at' \in [Revisions -> Manifests \cup {None}]
          /\ at'[rev'] = committed'
          /\ \A r \in Revisions : r <= rev => at'[r] = at[r]
      BY <1>1, <2>1 DEF IInv, TypeOK
    <2>3. rev' \in Revisions /\ rev <= rev'
      BY <1>1
    <2>4. registered' \in BOOLEAN /\ committed' \in Manifests \cup {None}
      BY <2>1, Zenon
    <2> QED
      BY <2>2, <2>3, <2>4, Zenon DEF Advances
  <1>3. /\ UNCHANGED <<applied, lastRun, handle, expected, manifest, handleVars, rejected>>
        /\ strays' = {}
    BY DEF DaemonRestart, handleVars
  <1>4. HistoryInv' /\ HandlesInv'
    BY <1>2, <1>3, HandlesStayGood DEF IInv, Advances, HistoryInv
  <1>5. ASSUME NEW c \in Clients
        PROVE  CallInv(c)' /\ call'[c] \in Calls \cup {None}
    <2>1. CASE call[c] = None
      BY <2>1 DEF DaemonRestart, CallInv
    <2>2. CASE call[c] # None
      <3> DEFINE failed == [code |-> "Error", rev |-> 0]
      <3>1. PICK q \in Requests : q = call[c].req
        BY <2>2, CallFields DEF IInv
      <3>2. Sound(q)' /\ OnHandle(c, q)'
        BY <1>2, <1>3, <2>2, <3>1, SoundStaysSound
        DEF IInv, RequestsInv, CallInv, OnHandle
      <3>3. /\ call'[c] = [call[c] EXCEPT !.answer = IF @ = None THEN failed ELSE @]
            /\ call[c] \in Calls
        BY <2>2, CallFields DEF DaemonRestart, IInv
      <3>4. CASE call[c].answer = None
        <4>1. call'[c].req = q /\ call'[c].answer = failed
          BY <3>1, <3>3, <3>4 DEF Calls
        <4>2. failed \in Answers /\ Truthful(q, failed)'
          BY <1>1, SessionAssumption DEF Answers, Codes, Revisions, Truthful
        <4>3. call'[c] \in Calls
          BY <3>3, <3>4, <4>2 DEF Calls
        <4> QED
          BY <3>2, <4>1, <4>2, <4>3 DEF CallInv
      <3>5. CASE call[c].answer # None
        <4>1. call'[c] = call[c]
          BY <3>3, <3>5 DEF Calls
        <4> QED
          BY <1>2, <1>3, <3>3, <4>1, CallStaysGood
      <3> QED
        BY <3>4, <3>5
    <2> QED
      BY <2>1, <2>2
  <1>6. RequestsInv'
    BY <1>3, <1>5 DEF RequestsInv
  <1>7. AppliedInv'
    <2>1. \A c \in Clients : expected[c] \in Nat /\ expected[c] <= rev
      BY RevisionsAreNumbers DEF IInv, TypeOK, HandlesInv
    <2> QED
      BY <1>1, <1>3, <2>1 DEF IInv, AppliedInv, CommitAppliedOnce
  <1>8. UpRunsWhatWasSeen'
    BY <1>3 DEF IInv, UpRunsWhatWasSeen
  <1>9. TypeOK'
    <2>1. call' \in [Clients -> Calls \cup {None}]
      BY <1>5 DEF DaemonRestart
    <2> QED
      BY <1>2, <1>3, <2>1 DEF IInv, TypeOK, Advances
  <1> QED
    BY <1>4, <1>6, <1>7, <1>8, <1>9 DEF IInv

\* Nothing happens.
LEMMA QuietInv ==
  ASSUME IInv, UNCHANGED vars
  PROVE  IInv'
  <1>1. UNCHANGED <<registered, committed, rev, at, lastRun, strays, applied,
                    handle, expected, manifest, rejected, call>>
    BY DEF vars, daemonVars, clientVars, handleVars
  <1>2. TypeOK'
    BY <1>1 DEF IInv, TypeOK
  <1>3. RequestsInv'
    BY <1>1 DEF IInv, RequestsInv, CallInv, Sound, Truthful, OnHandle
  <1> QED
    BY <1>1, <1>2, <1>3 DEF IInv, HistoryInv, HandlesInv, ReadyMeansInSync, Outdated,
                            AppliedInv, CommitAppliedOnce, UpRunsWhatWasSeen

\* Every step preserves the invariant.
LEMMA NextInv == IInv /\ [Next]_vars => IInv'
  <1> SUFFICES ASSUME IInv, [Next]_vars PROVE IInv'
    OBVIOUS
  <1>1. ASSUME NEW c \in Clients, ClientStep(c) PROVE IInv'
    BY <1>1, SendsInv, HandleMovesInv, AnswersInv DEF ClientStep
  <1> QED
    BY <1>1, DaemonAnswersInv, DaemonRunsStrayInv, DaemonRestartInv, QuietInv
    DEF Next, DaemonStep

(* The inductive invariant holds for any number of clients, manifests,     *)
(* revisions and requests left behind, and whatever faults occur.          *)
THEOREM Inductive == Spec => []IInv
  BY InitInv, NextInv, PTL DEF Spec

-----------------------------------------------------------------------------
(* The theorems.                                                           *)

(* Every variable keeps to its type, and an UncommittedHandle always has a *)
(* manifest to commit (uncommitted.rs).                                    *)
THEOREM TypeCorrect == Spec => []TypeOK
  <1>1. IInv => TypeOK
    BY DEF IInv
  <1> QED
    BY <1>1, Inductive, PTL

(* A ControlHandle that came from a handshake or a commit carries a        *)
(* revision at which its own manifest was committed.                       *)
THEOREM ReadyHandlesAreInSync == Spec => []ReadyMeansInSync
  <1>1. IInv => ReadyMeansInSync
    BY DEF IInv, HandlesInv
  <1> QED
    BY <1>1, Inductive, PTL

(* An accepted up runs the manifest its caller vouched for, however late   *)
(* the request arrives.                                                    *)
THEOREM UpRunsWhatItsCallerSaw == Spec => []UpRunsWhatWasSeen
  <1>1. IInv => UpRunsWhatWasSeen
    BY DEF IInv
  <1> QED
    BY <1>1, Inductive, PTL

(* However often a commit is retried, and however late the lost ones       *)
(* arrive, a session changes what is committed at most once.               *)
THEOREM CommitsAreAppliedOnce == Spec => []CommitAppliedOnce
  <1>1. IInv => CommitAppliedOnce
    BY DEF IInv, AppliedInv
  <1> QED
    BY <1>1, Inductive, PTL

-----------------------------------------------------------------------------
(* Handles of the past.                                                    *)

\* Calls that are made, and handles that move without one.
LEMMA MovesLate ==
  ASSUME IInv, LateInv, NEW c \in Clients,
         \/ Connect(c) \/ Commit(c) \/ Discard(c) \/ Cancel(c) \/ Drop(c)
         \/ \E m \in Manifests : Handshake(c, m) \/ Recheck(c, m)
         \/ \E kind \in Commands \ {"cancel"} : Command(c, kind)
  PROVE  LateInv'
  <1>1. /\ UNCHANGED strays
        /\ \A d \in Clients \ {c} :
             handle'[d] = handle[d] /\ expected'[d] = expected[d] /\ call'[d] = call[d]
    BY DEF Connect, Commit, Discard, Cancel, Drop, Handshake, Recheck, Command, Send, handleVars,
           IInv, TypeOK
  <1>2. call'[c] = None \/ (call'[c] # None /\ call'[c].answer = None)
    BY DEF Connect, Commit, Discard, Cancel, Drop, Handshake, Recheck, Command, Send, IInv, TypeOK
  <1>3. \/ handle'[c] \in {"gone", "connected"}
        \/ handle[c] \in {"uncommitted", "control"} /\ expected'[c] = expected[c]
        \/ handle'[c] = handle[c] /\ expected'[c] = expected[c]
    BY DEF Connect, Commit, Discard, Cancel, Drop, Handshake, Recheck, Command, Send, handleVars,
           IInv, TypeOK
  <1> QED
    BY <1>1, <1>2, <1>3 DEF LateInv, IsLate

(* The handle that a call returns is at least as new as the commits its    *)
(* client has lost before, and a commit that is lost now is as new as the  *)
(* handle it was made on.                                                  *)
LEMMA ReturnsLate ==
  ASSUME IInv, LateInv, NEW c \in Clients, Answered(c) \/ Failed(c)
  PROVE  LateInv'
  <1> DEFINE q == call[c].req
  <1>1. PICK a :
          /\ Returns(c, q, a)
          /\ \/ a = call[c].answer /\ a # None /\ UNCHANGED strays
             \/ a.code = "Error" /\ strays' \subseteq strays \cup {q}
    <2>1. CASE Answered(c)
      BY <2>1 DEF Answered
    <2>2. CASE Failed(c)
      <3>1. Returns(c, q, [code |-> "Error", rev |-> 0]) /\ strays' \subseteq strays \cup {q}
        BY <2>2 DEF Failed
      <3> QED
        BY <3>1
    <2> QED
      BY <2>1, <2>2
  <1>2. call[c] # None /\ q \in Requests /\ OnHandle(c, q) /\ q.rev \in Nat
    BY CallFields, RequestFields, RevisionsAreNumbers
    DEF Answered, Failed, IInv, RequestsInv, CallInv
  <1>3. /\ call'[c] = None
        /\ \A d \in Clients \ {c} :
             handle'[d] = handle[d] /\ expected'[d] = expected[d] /\ call'[d] = call[d]
    BY <1>1 DEF Returns, HandshakeReturns, CommitReturns, CommandReturns, NewHandle, SameHandle,
           handleVars, IInv, TypeOK
  <1>4. \/ handle'[c] = "gone"
        \/ handle'[c] = handle[c] /\ expected'[c] = expected[c]
        \/ Grants(q, a) /\ expected'[c] = a.rev
    BY <1>1 DEF Returns, HandshakeReturns, CommitReturns, CommandReturns, NewHandle, SameHandle,
           handleVars, Grants, IInv, TypeOK
  <1>5. ASSUME NEW x \in strays', IsLate(x, c), handle'[c] \in {"uncommitted", "control"}
        PROVE  x.rev <= expected'[c]
    <2>1. CASE x \in strays
      BY <1>1, <1>2, <1>4, <1>5, <2>1 DEF LateInv, Grants
    <2>2. CASE x = q /\ a.code = "Error"
      BY <1>2, <1>4, <1>5, <2>2 DEF OnHandle, IsLate, Grants
    <2> QED
      BY <1>1, <2>1, <2>2
  <1>6. ASSUME NEW d \in Clients \ {c}, NEW x \in strays', IsLate(x, d) PROVE x \in strays
    BY <1>1, <1>2, <1>6 DEF OnHandle, IsLate
  <1> QED
    BY <1>3, <1>5, <1>6 DEF LateInv

\* The daemon grants no revision older than the one it has.
LEMMA AnswersLate ==
  ASSUME IInv, LateInv, NEW c \in Clients, DaemonAnswers(c)
  PROVE  LateInv'
  <1> DEFINE q == call[c].req
  <1>1. PICK a \in Answers : Execute(q, a) /\ call' = [call EXCEPT ![c].answer = a]
    BY DEF DaemonAnswers
  <1>2. UNCHANGED <<strays, handle, expected>>
    BY DEF DaemonAnswers, handleVars
  <1>3. /\ call[c] # None /\ call[c] \in Calls
        /\ call'[c].answer = a /\ call'[c].req = q
        /\ \A d \in Clients \ {c} : call'[d] = call[d]
    BY <1>1, CallFields DEF DaemonAnswers, Calls, IInv, TypeOK
  <1>4. rev \in Nat /\ \A x \in strays : x.rev \in Nat /\ x.rev <= rev
    BY RequestFields, RevisionsAreNumbers DEF IInv, TypeOK, RequestsInv, Sound
  <1>5. Grants(q, a) => a.rev \in {rev, rev + 1}
    BY <1>1 DEF Grants, Execute, DoHandshake, DoCommit, DoCommand
  <1>6. \A x \in strays : Grants(q, a) => x.rev <= a.rev
    BY <1>4, <1>5
  <1> QED
    BY <1>2, <1>3, <1>6 DEF LateInv

\* Every step keeps late commits behind the handles of their clients.
LEMMA NextLate ==
  ASSUME IInv, LateInv, [Next]_vars
  PROVE  LateInv'
  <1>1. ASSUME NEW q \in strays, DaemonRunsStray(q) PROVE LateInv'
    <2>1. strays' \subseteq strays /\ UNCHANGED <<handle, expected, call>>
      BY <1>1 DEF DaemonRunsStray, clientVars, handleVars
    <2> QED
      BY <2>1 DEF LateInv
  <1>2. CASE DaemonRestart
    BY <1>2 DEF DaemonRestart, LateInv
  <1>3. CASE UNCHANGED vars
    BY <1>3 DEF vars, daemonVars, clientVars, handleVars, LateInv
  <1> QED
    BY <1>1, <1>2, <1>3, MovesLate, ReturnsLate, AnswersLate DEF Next, ClientStep, DaemonStep

(* WrongRevision is told only to a client with a handle of the past, and   *)
(* nothing sent with that handle, in time or late, changes what is         *)
(* committed or starts an up, for any number of clients and revisions.     *)
THEOREM OutdatedHandlesAreDone == Spec => OutdatedChangesNothing
  <1> DEFINE Idle(c) ==
               /\ rejected[c] => Outdated(c)
               /\ Outdated(c) =>
                    /\ expected'[c] = expected[c] => expected'[c] < rev'
                    /\ applied'[c] <= applied[c]
                    /\ call'[c] # call[c] => UNCHANGED lastRun
             AllIdle == \A c \in Clients : Idle(c)
  <1>1. ASSUME IInv, IInv', LateInv, [Next]_vars, NEW c \in Clients PROVE Idle(c)
    <2>1. rejected[c] => Outdated(c)
      BY <1>1 DEF IInv, HandlesInv
    <2> SUFFICES ASSUME Outdated(c)
                 PROVE  /\ expected'[c] = expected[c] => expected'[c] < rev'
                        /\ applied'[c] <= applied[c]
                        /\ call'[c] # call[c] => UNCHANGED lastRun
      BY <2>1
    <2>2. /\ expected[c] \in Nat /\ rev \in Nat /\ expected[c] < rev
          /\ applied[c] \in Nat
      BY <1>1, RevisionsAreNumbers DEF Outdated, IInv, TypeOK
    <2>3. ASSUME NEW q \in Requests, NEW a \in Answers, Sound(q), Execute(q, a)
          PROVE  /\ rev' \in Nat /\ rev <= rev'
                 /\ CountsCommit(q)
                 /\ UNCHANGED lastRun \/ (q.kind = "up" /\ q.rev = rev)
      <3>1. Advances /\ CountsCommit(q)
        BY <1>1, <2>3, ExecuteFacts DEF IInv
      <3>2. UNCHANGED lastRun \/ (q.kind = "up" /\ q.rev = rev)
        BY <2>3 DEF Execute, DoHandshake, DoCommit, DoCommand
      <3> QED
        BY <3>1, <3>2, RevisionsAreNumbers DEF Advances
    <2>4. ASSUME NEW e \in Clients, DaemonAnswers(e)
          PROVE  /\ rev' \in Nat /\ rev <= rev'
                 /\ applied'[c] = applied[c]
                 /\ call'[c] # call[c] => UNCHANGED lastRun
      <3>1. PICK q \in Requests : q = call[e].req
        BY <1>1, <2>4, CallFields DEF DaemonAnswers, IInv
      <3>2. Sound(q) /\ OnHandle(e, q)
        BY <1>1, <2>4, <3>1 DEF DaemonAnswers, IInv, RequestsInv, CallInv
      <3>3. PICK a \in Answers : Execute(q, a) /\ call' = [call EXCEPT ![e].answer = a]
        BY <2>4, <3>1 DEF DaemonAnswers
      <3>4. e = c => ~(q.kind \in {"commit", "up"} /\ q.rev = rev)
        BY <2>2, <3>2 DEF OnHandle
      <3>5. applied'[c] = applied[c]
        BY <1>1, <2>3, <3>2, <3>3, <3>4 DEF CountsCommit, OnHandle, IInv, TypeOK
      <3>6. call'[c] # call[c] => e = c
        BY <1>1, <3>3 DEF IInv, TypeOK
      <3> QED
        BY <2>3, <3>2, <3>3, <3>4, <3>5, <3>6
    <2>5. ASSUME NEW q \in strays, DaemonRunsStray(q)
          PROVE  /\ rev' \in Nat /\ rev <= rev'
                 /\ applied'[c] = applied[c]
                 /\ call'[c] = call[c]
      <3>1. q \in Requests /\ Sound(q) /\ q.rev \in Nat
        BY <1>1, RequestFields, RevisionsAreNumbers DEF IInv, TypeOK, RequestsInv
      <3>2. PICK a \in Answers : Execute(q, a)
        BY <2>5 DEF DaemonRunsStray
      <3>3. IsLate(q, c) => q.rev # rev
        BY <1>1, <2>2, <3>1 DEF LateInv, Outdated
      <3>4. applied'[c] = applied[c]
        BY <1>1, <2>3, <3>1, <3>2, <3>3 DEF CountsCommit, IsLate, IInv, TypeOK
      <3> QED
        BY <2>3, <2>5, <3>1, <3>2, <3>4 DEF DaemonRunsStray, clientVars
    <2>6. ASSUME NEW e \in Clients, ClientStep(e)
          PROVE  /\ UNCHANGED <<rev, lastRun>>
                 /\ applied'[c] \in {0, applied[c]}
      <3>1. UNCHANGED <<rev, lastRun>>
        BY <2>6 DEF ClientStep, Connect, Commit, Discard, Cancel, Drop, Handshake, Recheck,
             Command, Answered, Failed, daemonVars
      <3>2. applied'[c] \in {0, applied[c]}
        BY <1>1, <2>6 DEF ClientStep, Connect, Commit, Discard, Cancel, Drop, Handshake, Recheck,
             Command, Answered, Failed, Returns, IInv, TypeOK
      <3> QED
        BY <3>1, <3>2
    <2>7. CASE DaemonRestart
      <3>1. rev' = rev + 1 /\ UNCHANGED <<applied, lastRun>>
        BY <2>7 DEF DaemonRestart
      <3> QED
        BY <2>2, <3>1
    <2>8. CASE UNCHANGED vars
      <3>1. UNCHANGED <<rev, applied, lastRun>>
        BY <2>8 DEF vars, daemonVars
      <3> QED
        BY <2>2, <3>1
    <2>9. CASE \E e \in Clients : DaemonAnswers(e)
      BY <2>2, <2>4, <2>9
    <2>10. CASE \E q \in strays : DaemonRunsStray(q)
      BY <2>2, <2>5, <2>10
    <2>11. CASE \E e \in Clients : ClientStep(e)
      BY <2>2, <2>6, <2>11
    <2> QED
      BY <1>1, <2>7, <2>8, <2>9, <2>10, <2>11 DEF Next, DaemonStep
  <1>2. IInv /\ IInv' /\ LateInv /\ [Next]_vars => [AllIdle]_vars
    BY <1>1
  <1>3. Init => LateInv
    BY DEF Init, LateInv
  <1>4. Spec => []LateInv
    BY <1>3, NextLate, Inductive, PTL DEF Spec
  <1>5. Spec => [][AllIdle]_vars
    BY <1>2, <1>4, Inductive, PTL DEF Spec
  <1> QED
    BY <1>5 DEF OutdatedChangesNothing
=============================================================================
