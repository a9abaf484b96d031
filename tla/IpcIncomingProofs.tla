-------------------------- MODULE IpcIncomingProofs --------------------------
(* Proofs about IpcIncoming.                                               *)
EXTENDS IpcIncoming, SequenceTheorems, TLAPS

-----------------------------------------------------------------------------
(* Lemmas about sequences.                                                 *)

(* What one more element, or one less, makes of the elements.              *)
LEMMA ToSetAppend ==
  ASSUME NEW S, NEW s \in Seq(S), NEW e \in S
  PROVE  ToSet(Append(s, e)) = ToSet(s) \cup {e}
  <1>1. /\ DOMAIN s = 1..Len(s)
        /\ Len(s) \in Nat
        /\ DOMAIN Append(s, e) = 1..(Len(s) + 1)
    BY LenProperties, AppendProperties
  <1>2. \A i \in 1..Len(s) : Append(s, e)[i] = s[i]
    BY AppendProperties
  <1>3. Append(s, e)[Len(s) + 1] = e
    BY AppendProperties
  <1>4. 1..(Len(s) + 1) = 1..Len(s) \cup {Len(s) + 1}
    BY <1>1
  <1> QED
    BY <1>1, <1>2, <1>3, <1>4, Zenon DEF ToSet

\* A sequence that is not empty has its head and its tail's elements.
LEMMA ToSetTail ==
  ASSUME NEW S, NEW s \in Seq(S), s # <<>>
  PROVE  /\ Head(s) \in ToSet(s)
         /\ ToSet(Tail(s)) \subseteq ToSet(s)
  <1>1. /\ DOMAIN s = 1..Len(s)
        /\ Len(s) \in Nat \ {0}
        /\ DOMAIN Tail(s) = 1..Len(Tail(s))
        /\ Len(Tail(s)) = Len(s) - 1
        /\ \A i \in 1..Len(Tail(s)) : Tail(s)[i] = s[i + 1]
    BY LenProperties, EmptySeq, HeadTailProperties
  <1>2. Head(s) = s[1]
    OBVIOUS
  <1> QED
    BY <1>1, <1>2 DEF ToSet

\* What two sequences hold, their concatenation holds.
LEMMA ToSetConcat ==
  ASSUME NEW S, NEW s \in Seq(S), NEW t \in Seq(S)
  PROVE  ToSet(s \o t) = ToSet(s) \cup ToSet(t)
  <1>1. \A f : ToSet(f) = Range(f)
    BY DEF ToSet, Range
  <1> QED
    BY <1>1, RangeConcatenation

\* Concatenation stays within sequences over the same elements.
LEMMA ConcatType ==
  ASSUME NEW S, NEW s \in Seq(S), NEW t \in Seq(S)
  PROVE  s \o t \in Seq(S)
  BY ConcatProperties

\* The empty sequence holds nothing.
LEMMA ToSetEmpty == ToSet(<<>>) = {}
  BY DEF ToSet

(* A prefix and the rest of a concatenation.                               *)
LEMMA SplitConcat ==
  ASSUME NEW S, NEW s \in Seq(S), NEW t \in Seq(S)
  PROVE  /\ Len(s) \in 0..Len(s \o t)
         /\ SubSeq(s \o t, 1, Len(s)) = s
         /\ SubSeq(s \o t, Len(s) + 1, Len(s \o t)) = t
  <1>1. /\ Len(s) \in Nat
        /\ Len(t) \in Nat
        /\ s \o t \in Seq(S)
        /\ Len(s \o t) = Len(s) + Len(t)
        /\ \A i \in 1..Len(s) : (s \o t)[i] = s[i]
        /\ \A i \in 1..Len(t) : (s \o t)[Len(s) + i] = t[i]
    BY LenProperties, ConcatProperties
  <1>2. \A i \in 1..Len(s \o t) : (s \o t)[i] \in S
    BY <1>1, ElementOfSeq
  <1>3. /\ SubSeq(s \o t, 1, Len(s)) \in Seq(S)
        /\ Len(SubSeq(s \o t, 1, Len(s))) = Len(s)
        /\ \A i \in 1..Len(s) : SubSeq(s \o t, 1, Len(s))[i] = s[i]
    BY <1>1, <1>2, SubSeqProperties
  <1>4. SubSeq(s \o t, 1, Len(s)) = s
    BY <1>1, <1>3, SeqEqual
  <1>5. /\ SubSeq(s \o t, Len(s) + 1, Len(s \o t)) \in Seq(S)
        /\ Len(SubSeq(s \o t, Len(s) + 1, Len(s \o t))) = Len(t)
        /\ \A i \in 1..Len(t) : SubSeq(s \o t, Len(s) + 1, Len(s \o t))[i] = t[i]
    BY <1>1, <1>2, SubSeqProperties
  <1>6. SubSeq(s \o t, Len(s) + 1, Len(s \o t)) = t
    BY <1>1, <1>5, SeqEqual
  <1> QED
    BY <1>1, <1>4, <1>6

(* A sequence is its first element and the rest.                           *)
LEMMA HeadFirst ==
  ASSUME NEW S, NEW s \in Seq(S), s # <<>>
  PROVE  s = <<Head(s)>> \o Tail(s)
  <1>1. /\ Head(s) \in S
        /\ Tail(s) \in Seq(S)
        /\ Len(Tail(s)) = Len(s) - 1
        /\ \A i \in 1..Len(Tail(s)) : Tail(s)[i] = s[i + 1]
    BY HeadTailProperties
  <1>2. Len(s) \in Nat \ {0} /\ Head(s) = s[1]
    BY EmptySeq
  <1>3. /\ <<Head(s)>> \in Seq(S)
        /\ Len(<<Head(s)>>) = 1
        /\ <<Head(s)>>[1] = Head(s)
    BY <1>1
  <1>4. /\ <<Head(s)>> \o Tail(s) \in Seq(S)
        /\ Len(<<Head(s)>> \o Tail(s)) = Len(s)
        /\ \A i \in 1..Len(s) :
             (<<Head(s)>> \o Tail(s))[i] =
                IF i <= 1 THEN <<Head(s)>>[i] ELSE Tail(s)[i - 1]
    BY <1>1, <1>2, <1>3, ConcatProperties
  <1>5. \A i \in 1..Len(s) : s[i] = (<<Head(s)>> \o Tail(s))[i]
    BY <1>1, <1>2, <1>3, <1>4
  <1> QED
    BY <1>4, <1>5, SeqEqual

(* What comes last of two sequences, and what comes first.                 *)
LEMMA AppendLast ==
  ASSUME NEW S, NEW s \in Seq(S), NEW t \in Seq(S), NEW e \in S
  PROVE  s \o Append(t, e) = Append(s \o t, e)
  <1>1. Append(t, e) = t \o <<e>> /\ <<e>> \in Seq(S)
    BY AppendIsConcat
  <1>2. s \o t \in Seq(S)
    BY ConcatType
  <1>3. Append(s \o t, e) = (s \o t) \o <<e>>
    BY <1>2, AppendIsConcat
  <1>4. (s \o t) \o <<e>> = s \o (t \o <<e>>)
    BY <1>1, ConcatAssociative
  <1> QED
    BY <1>1, <1>3, <1>4

\* Taking the head of a concatenation takes it from the first part.
LEMMA HeadTailConcat ==
  ASSUME NEW S, NEW s \in Seq(S), NEW t \in Seq(S), s # <<>>
  PROVE  /\ s \o t # <<>>
         /\ Head(s \o t) = Head(s)
         /\ Tail(s \o t) = Tail(s) \o t
  <1>1. /\ Len(s) \in Nat \ {0} /\ Len(t) \in Nat
        /\ s \o t \in Seq(S)
        /\ Len(s \o t) = Len(s) + Len(t)
        /\ \A i \in 1..(Len(s) + Len(t)) :
             (s \o t)[i] = IF i <= Len(s) THEN s[i] ELSE t[i - Len(s)]
    BY EmptySeq, LenProperties, ConcatProperties
  <1>2. s \o t # <<>>
    BY <1>1
  <1>3. Head(s \o t) = Head(s)
    BY <1>1
  <1>4. /\ Tail(s) \in Seq(S) /\ Len(Tail(s)) = Len(s) - 1
        /\ \A i \in 1..Len(Tail(s)) : Tail(s)[i] = s[i + 1]
    BY HeadTailProperties
  <1>5. /\ Tail(s \o t) \in Seq(S) /\ Len(Tail(s \o t)) = Len(s) + Len(t) - 1
        /\ \A i \in 1..Len(Tail(s \o t)) : Tail(s \o t)[i] = (s \o t)[i + 1]
    BY <1>1, <1>2, HeadTailProperties
  <1>6. /\ Tail(s) \o t \in Seq(S) /\ Len(Tail(s) \o t) = Len(s) + Len(t) - 1
        /\ \A i \in 1..(Len(s) + Len(t) - 1) :
             (Tail(s) \o t)[i] = IF i <= Len(s) - 1 THEN Tail(s)[i] ELSE t[i - (Len(s) - 1)]
    BY <1>1, <1>4, ConcatProperties
  <1>7. \A i \in 1..(Len(s) + Len(t) - 1) : Tail(s \o t)[i] = (Tail(s) \o t)[i]
    BY <1>1, <1>4, <1>5, <1>6
  <1>8. Tail(s \o t) = Tail(s) \o t
    BY <1>5, <1>6, <1>7, SeqEqual
  <1> QED
    BY <1>2, <1>3, <1>8

-----------------------------------------------------------------------------
(* The inductive invariant.                                                *)

(* A listener that was not bound has no task, one that is open has one     *)
(* that runs, and one that was dropped keeps nothing in its channel.       *)
PhasesInv ==
  \A l \in Listeners :
    /\ phase[l] \in {"unbound", "failed"} => task[l] = "none"
    /\ phase[l] = "open" => task[l] \in {"select", "send"}
    /\ phase[l] # "open" => chan[l] = <<>>

(* On Unix a path leads to a listener of its own directory; on Windows     *)
(* the pipe leads to the listener that is open.                            *)
EndpointsInv ==
  IF Unix
    THEN \A n \in Names : endpoint[n] # None => RuntimeDir(endpoint[n]) = n
    ELSE \A l \in Listeners : phase[l] = "open" => endpoint[Pipe] = l

(* What a listener has been given so far, wherever it is by now.           *)
Given(l) == ToSet(served[l]) \cup ToSet(chan[l]) \cup {held[l]} \cup ToSet(backlog[l])

GivenInv ==
  Unix => \A l \in Listeners : \A k \in Conns \cap Given(l) :
             RuntimeDir(k) = RuntimeDir(l)

IInv == TypeOK /\ PhasesInv /\ EndpointsInv /\ GivenInv

-----------------------------------------------------------------------------
(* It holds initially, and every step preserves it.                        *)

\* Nothing bound, nothing connected: the invariant holds.
LEMMA InitInv == Init => IInv
  <1> SUFFICES ASSUME Init PROVE IInv
    OBVIOUS
  <1> USE IncomingAssumption DEF Init
  <1>1. TypeOK
    BY DEF TypeOK, Items
  <1>2. PhasesInv
    BY DEF PhasesInv
  <1>3. EndpointsInv
    BY DEF EndpointsInv
  <1>4. GivenInv
    BY ToSetEmpty DEF GivenInv, Given
  <1> QED
    BY <1>1, <1>2, <1>3, <1>4 DEF IInv

(* The names of Unix are directories, None is none of the values.          *)
LEMMA NamesApart ==
  /\ None \notin Names /\ Pipe \in Names /\ Pipe \notin Dirs
  /\ Error \in Items /\ None \notin Items
  /\ \A l \in Listeners : l # None
  BY IncomingAssumption DEF Names, Items

\* Every listener and every client looks at a directory and finds a name or
\* none.
LEMMA DirType ==
  ASSUME TypeOK, NEW x \in Listeners \cup Conns
  PROVE  /\ RuntimeDir(x) \in Dirs
         /\ Resolve(RuntimeDir(x)) \in Names \cup {None}
         /\ Unix /\ Resolve(RuntimeDir(x)) # None => Resolve(RuntimeDir(x)) = RuntimeDir(x)
         /\ ~Unix => Resolve(RuntimeDir(x)) = Pipe
  <1>1. setting.asked[x] \in Dirs \cup {None}
    BY IncomingAssumption DEF TypeOK
  <1> QED
    BY <1>1, IncomingAssumption DEF RuntimeDir, Resolve, Names

(* A step that leaves setting alone leaves the directories alone.          *)
LEMMA SameDirs ==
  ASSUME setting' = setting
  PROVE  /\ Unix' = Unix
         /\ \A x : RuntimeDir(x)' = RuntimeDir(x)
  BY DEF Unix, RuntimeDir

\* A bind takes the name from whoever had it and begins with nothing.
LEMMA BindInv ==
  ASSUME IInv, NEW l \in Listeners, Bind(l)
  PROVE  IInv'
  <1> DEFINE name == Resolve(RuntimeDir(l))
  <1> USE DEF IInv
  <1>1. /\ phase[l] = "unbound" /\ task[l] = "none"
        /\ name \in Names /\ (Unix \/ ~Exists(name))
        /\ endpoint' = [endpoint EXCEPT ![name] = l]
        /\ phase' = [phase EXCEPT ![l] = "open"]
        /\ task' = [task EXCEPT ![l] = "select"]
        /\ UNCHANGED <<setting, backlog, held, chan, served, fresh, errors>>
    BY DirType DEF Bind, PhasesInv
  <1>2. TypeOK'
    BY <1>1 DEF TypeOK
  <1>3. PhasesInv'
    BY <1>1 DEF PhasesInv, TypeOK
  <1>4. EndpointsInv'
    <2>1. CASE Unix
      <3>1. name = RuntimeDir(l)
        BY <1>1, <2>1, DirType, NamesApart
      <3>2. \A n \in Names : endpoint'[n] = IF n = name THEN l ELSE endpoint[n]
        BY <1>1 DEF TypeOK
      <3> QED
        BY <1>1, <2>1, <3>1, <3>2, SameDirs DEF EndpointsInv
    <2>2. CASE ~Unix
      <3>1. name = Pipe /\ ~Exists(Pipe)
        BY <1>1, <2>2, DirType
      <3>2. \A m \in Listeners : phase[m] # "open"
        BY <2>2, <3>1, NamesApart DEF EndpointsInv, PhasesInv, Exists
      <3>3. endpoint'[Pipe] = l
        BY <1>1, <3>1 DEF TypeOK
      <3>4. \A m \in Listeners : phase'[m] = "open" => m = l
        BY <1>1, <3>2 DEF TypeOK
      <3> QED
        BY <1>1, <2>2, <3>3, <3>4, SameDirs DEF EndpointsInv
    <2> QED
      BY <2>1, <2>2
  <1>5. GivenInv'
    BY <1>1, SameDirs DEF GivenInv, Given
  <1> QED
    BY <1>2, <1>3, <1>4, <1>5

\* A bind that fails has unlinked the path and taken no name.
LEMMA BindFailsInv ==
  ASSUME IInv, NEW l \in Listeners, BindFails(l)
  PROVE  IInv'
  <1> USE DEF IInv, BindFails
  <1>1. TypeOK'
    BY DEF TypeOK
  <1>2. PhasesInv'
    BY DEF PhasesInv, TypeOK
  <1>3. EndpointsInv'
    <2>1. CASE Unix
      <3>1. \A n \in Names : endpoint'[n] \in {endpoint[n], None}
        BY <2>1 DEF TypeOK
      <3> QED
        BY <2>1, <3>1, SameDirs DEF EndpointsInv
    <2>2. CASE ~Unix
      BY <2>2, SameDirs DEF EndpointsInv, TypeOK
    <2> QED
      BY <2>1, <2>2
  <1>4. GivenInv'
    BY SameDirs DEF GivenInv, Given
  <1> QED
    BY <1>1, <1>2, <1>3, <1>4

(* A step that leaves the names and the phases alone preserves the rest    *)
(* if nobody is given more.                                                *)
LEMMA NothingNew ==
  ASSUME IInv, setting' = setting,
         \A m \in Listeners : Given(m)' \subseteq Given(m) \cup {Error, None}
  PROVE  GivenInv'
  <1>1. \A m \in Listeners : Conns \cap Given(m)' \subseteq Given(m)
    BY IncomingAssumption
  <1> QED
    BY <1>1, SameDirs DEF IInv, GivenInv

\* A client waits in the backlog of the listener its name belongs to.
LEMMA ClientConnectsInv ==
  ASSUME IInv, NEW k \in Conns, ClientConnects(k)
  PROVE  IInv'
  <1> DEFINE name == Resolve(RuntimeDir(k))
             l == endpoint[name]
  <1> USE DEF IInv
  <1>1. /\ fresh' = fresh \ {k}
        /\ UNCHANGED <<setting, endpoint, phase, task, held, chan, served, errors>>
    BY DEF ClientConnects
  <1>2. PhasesInv' /\ EndpointsInv'
    BY <1>1, SameDirs DEF PhasesInv, EndpointsInv
  <1>3. CASE UNCHANGED backlog
    <2>1. TypeOK'
      BY <1>1, <1>3 DEF TypeOK
    <2>2. GivenInv'
      BY <1>1, <1>3, SameDirs DEF GivenInv, Given
    <2> QED
      BY <1>2, <2>1, <2>2
  <1>4. CASE name # None /\ Listening(name) /\ backlog' = [backlog EXCEPT ![l] = Append(@, k)]
    <2>1. /\ name \in Names /\ l \in Listeners /\ Len(backlog[l]) < Backlog
          /\ backlog[l] \in Seq(Conns)
      BY <1>4, DirType DEF TypeOK, Listening, Exists
    <2>2. /\ backlog' \in [Listeners -> Seq(Conns)]
          /\ \A m \in Listeners :
               backlog'[m] = IF m = l THEN Append(backlog[l], k) ELSE backlog[m]
      BY <1>4, <2>1 DEF TypeOK
    <2>3. \A m \in Listeners : Len(backlog'[m]) <= Backlog
      <3>1. Len(Append(backlog[l], k)) = Len(backlog[l]) + 1 /\ Len(backlog[l]) \in Nat
        BY <2>1, AppendProperties, LenProperties
      <3> QED
        BY <2>1, <2>2, <3>1, IncomingAssumption DEF TypeOK
    <2>4. TypeOK'
      BY <1>1, <2>2, <2>3 DEF TypeOK
    <2>5. GivenInv'
      <3>1. SUFFICES ASSUME Unix PROVE GivenInv'
        BY <1>1, SameDirs DEF GivenInv
      <3>2. RuntimeDir(k) = RuntimeDir(l)
        <4>1. name = RuntimeDir(k) /\ endpoint[name] # None
          BY <1>4, <3>1, DirType DEF Listening, Exists
        <4>2. \A n \in Names : endpoint[n] # None => RuntimeDir(endpoint[n]) = n
          BY <3>1 DEF EndpointsInv
        <4> HIDE DEF name
        <4> QED
          BY <2>1, <4>1, <4>2, Zenon
      <3>3. ToSet(backlog'[l]) = ToSet(backlog[l]) \cup {k}
        <4>1. ToSet(Append(backlog[l], k)) = ToSet(backlog[l]) \cup {k}
          BY <2>1, ToSetAppend
        <4> QED
          BY <2>1, <2>2, <4>1
      <3>4. \A m \in Listeners : Given(m)' \subseteq IF m = l THEN Given(m) \cup {k} ELSE Given(m)
        BY <1>1, <2>2, <3>3 DEF Given
      <3> QED
        BY <1>1, <3>1, <3>2, <3>4, SameDirs DEF GivenInv
    <2> QED
      BY <1>2, <2>4, <2>5
  <1> QED
    BY <1>3, <1>4 DEF ClientConnects

\* What the task takes from the backlog, an error included, it holds.
LEMMA AcceptInv ==
  ASSUME IInv, NEW l \in Listeners, Accept(l)
  PROVE  IInv'
  <1> USE DEF IInv
  <1>1. /\ task[l] = "select"
        /\ task' = [task EXCEPT ![l] = "send"]
        /\ UNCHANGED <<setting, endpoint, phase, chan, served, fresh>>
    BY DEF Accept
  <1>2. PhasesInv' /\ EndpointsInv'
    BY <1>1, SameDirs DEF PhasesInv, EndpointsInv, TypeOK
  <1>3. CASE /\ backlog[l] # <<>>
             /\ held' = [held EXCEPT ![l] = Head(backlog[l])]
             /\ backlog' = [backlog EXCEPT ![l] = Tail(@)]
             /\ UNCHANGED errors
    <2>1. /\ backlog[l] \in Seq(Conns)
          /\ Head(backlog[l]) \in Conns /\ Tail(backlog[l]) \in Seq(Conns)
          /\ Len(Tail(backlog[l])) <= Len(backlog[l])
          /\ Len(Tail(backlog[l])) \in Nat
          /\ Len(backlog[l]) <= Backlog /\ Len(backlog[l]) \in Nat
      BY <1>3, HeadTailProperties, LenProperties DEF TypeOK
    <2>2. TypeOK'
      BY <1>1, <1>3, <2>1, NamesApart, IncomingAssumption DEF TypeOK, Items
    <2>3. GivenInv'
      <3>1. /\ Head(backlog[l]) \in ToSet(backlog[l])
            /\ ToSet(Tail(backlog[l])) \subseteq ToSet(backlog[l])
        BY <1>3, <2>1, ToSetTail
      <3>2. \A m \in Listeners : Given(m)' \subseteq Given(m)
        BY <1>1, <1>3, <3>1 DEF Given, TypeOK
      <3> QED
        BY <1>1, <3>2, NothingNew
    <2> QED
      BY <1>2, <2>2, <2>3
  <1>4. CASE /\ errors < MaxErrors
             /\ errors' = errors + 1
             /\ held' = [held EXCEPT ![l] = Error]
             /\ UNCHANGED backlog
    <2>1. TypeOK'
      BY <1>1, <1>4, NamesApart, IncomingAssumption DEF TypeOK
    <2>2. \A m \in Listeners : Given(m)' \subseteq Given(m) \cup {Error}
      BY <1>1, <1>4 DEF Given, TypeOK
    <2>3. GivenInv'
      BY <1>1, <2>2, NothingNew
    <2> QED
      BY <1>2, <2>1, <2>3
  <1> QED
    BY <1>3, <1>4 DEF Accept

\* What the task holds goes to the end of the channel, within its size.
LEMMA SendInv ==
  ASSUME IInv, NEW l \in Listeners, Send(l)
  PROVE  IInv'
  <1> USE DEF IInv
  <1>1. /\ task[l] = "send" /\ phase[l] = "open" /\ Len(chan[l]) < BufferSize
        /\ chan' = [chan EXCEPT ![l] = Append(chan[l], held[l])]
        /\ held' = [held EXCEPT ![l] = None]
        /\ task' = [task EXCEPT ![l] = "select"]
        /\ UNCHANGED <<setting, endpoint, phase, backlog, served, fresh, errors>>
    BY DEF Send
  <1>2. /\ chan[l] \in Seq(Items) /\ held[l] \in Items
        /\ Append(chan[l], held[l]) \in Seq(Items)
        /\ Len(Append(chan[l], held[l])) = Len(chan[l]) + 1 /\ Len(chan[l]) \in Nat
    BY <1>1, AppendProperties, LenProperties DEF TypeOK
  <1>3. PhasesInv' /\ EndpointsInv'
    BY <1>1, SameDirs DEF PhasesInv, EndpointsInv, TypeOK
  <1>4. TypeOK'
    BY <1>1, <1>2, IncomingAssumption DEF TypeOK
  <1>5. GivenInv'
    <2>1. ToSet(Append(chan[l], held[l])) = ToSet(chan[l]) \cup {held[l]}
      BY <1>2, ToSetAppend
    <2>2. \A m \in Listeners : Given(m)' \subseteq Given(m) \cup {None}
      BY <1>1, <2>1 DEF Given, TypeOK
    <2> QED
      BY <1>1, <2>2, NothingNew
  <1> QED
    BY <1>3, <1>4, <1>5

\* A task that is aborted lets go of what it holds and of its backlog.
LEMMA StopInv ==
  ASSUME IInv, NEW l \in Listeners, Stop(l)
  PROVE  IInv'
  <1> USE DEF IInv
  <1>1. /\ phase[l] = "dropped"
        /\ task' = [task EXCEPT ![l] = "ended"]
        /\ held' = [held EXCEPT ![l] = None]
        /\ backlog' = [backlog EXCEPT ![l] = <<>>]
        /\ UNCHANGED <<setting, phase, chan, served, fresh, errors>>
    BY DEF Stop
  <1>2. \/ UNCHANGED endpoint
        \/ Unix /\ endpoint' = [endpoint EXCEPT ![RuntimeDir(l)] = None]
    BY DEF Stop
  <1>3. Len(<<>>) = 0 /\ <<>> \in Seq(Conns) /\ 0 <= Backlog
    BY IncomingAssumption
  <1>4. TypeOK'
    BY <1>1, <1>2, <1>3 DEF TypeOK
  <1>5. PhasesInv'
    BY <1>1 DEF PhasesInv, TypeOK
  <1>6. EndpointsInv'
    <2>1. CASE Unix
      <3>1. \A n \in Names : endpoint'[n] \in {endpoint[n], None}
        BY <1>2 DEF TypeOK
      <3> QED
        BY <1>1, <2>1, <3>1, SameDirs DEF EndpointsInv
    <2>2. CASE ~Unix
      BY <1>1, <1>2, <2>2, SameDirs DEF EndpointsInv
    <2> QED
      BY <2>1, <2>2
  <1>7. GivenInv'
    <2>1. \A m \in Listeners : Given(m)' \subseteq Given(m) \cup {None}
      BY <1>1, ToSetEmpty DEF Given, TypeOK
    <2> QED
      BY <1>1, <2>1, NothingNew
  <1> QED
    BY <1>4, <1>5, <1>6, <1>7

\* What the server takes from the channel is served.
LEMMA PollNextInv ==
  ASSUME IInv, NEW l \in Listeners, PollNext(l)
  PROVE  IInv'
  <1> USE DEF IInv
  <1>1. /\ phase[l] = "open" /\ chan[l] # <<>>
        /\ served' = [served EXCEPT ![l] = Append(served[l], Head(chan[l]))]
        /\ chan' = [chan EXCEPT ![l] = Tail(chan[l])]
        /\ UNCHANGED <<setting, endpoint, phase, task, backlog, held, fresh, errors>>
    BY DEF PollNext
  <1>2. /\ chan[l] \in Seq(Items) /\ served[l] \in Seq(Items)
        /\ Head(chan[l]) \in Items /\ Tail(chan[l]) \in Seq(Items)
        /\ Len(Tail(chan[l])) = Len(chan[l]) - 1 /\ Len(chan[l]) \in Nat
        /\ Append(served[l], Head(chan[l])) \in Seq(Items)
    BY <1>1, HeadTailProperties, AppendProperties, LenProperties DEF TypeOK
  <1>3. PhasesInv' /\ EndpointsInv'
    BY <1>1, SameDirs DEF PhasesInv, EndpointsInv, TypeOK
  <1>4. TypeOK'
    BY <1>1, <1>2, IncomingAssumption DEF TypeOK
  <1>5. GivenInv'
    <2>1. /\ Head(chan[l]) \in ToSet(chan[l]) /\ ToSet(Tail(chan[l])) \subseteq ToSet(chan[l])
          /\ ToSet(Append(served[l], Head(chan[l]))) = ToSet(served[l]) \cup {Head(chan[l])}
      BY <1>1, <1>2, ToSetTail, ToSetAppend
    <2>2. \A m \in Listeners : Given(m)' \subseteq Given(m)
      BY <1>1, <2>1 DEF Given, TypeOK
    <2> QED
      BY <1>1, <2>2, NothingNew
  <1> QED
    BY <1>3, <1>4, <1>5

\* A listener that is dropped gives up its channel; its task stops later.
LEMMA DropInv ==
  ASSUME IInv, NEW l \in Listeners, Drop(l)
  PROVE  IInv'
  <1> USE DEF IInv
  <1>1. /\ phase[l] = "open"
        /\ phase' = [phase EXCEPT ![l] = "dropped"]
        /\ chan' = [chan EXCEPT ![l] = <<>>]
        /\ UNCHANGED <<setting, endpoint, task, backlog, held, served, fresh, errors>>
    BY DEF Drop
  <1>2. Len(<<>>) = 0 /\ <<>> \in Seq(Items) /\ 0 <= BufferSize
    BY IncomingAssumption
  <1>3. TypeOK'
    BY <1>1, <1>2 DEF TypeOK
  <1>4. PhasesInv'
    BY <1>1 DEF PhasesInv, TypeOK
  <1>5. EndpointsInv'
    BY <1>1, SameDirs DEF EndpointsInv, TypeOK
  <1>6. GivenInv'
    <2>1. \A m \in Listeners : Given(m)' \subseteq Given(m)
      BY <1>1, ToSetEmpty DEF Given, TypeOK
    <2> QED
      BY <1>1, <2>1, NothingNew
  <1> QED
    BY <1>3, <1>4, <1>5, <1>6

\* Every step preserves the invariant.
LEMMA NextInv == IInv /\ [Next]_vars => IInv'
  <1> SUFFICES ASSUME IInv, [Next]_vars PROVE IInv'
    OBVIOUS
  <1>1. CASE UNCHANGED vars
    <2>1. /\ setting' = setting /\ endpoint' = endpoint /\ phase' = phase /\ task' = task
          /\ backlog' = backlog /\ held' = held /\ chan' = chan /\ served' = served
          /\ fresh' = fresh /\ errors' = errors
      BY <1>1 DEF vars
    <2> QED
      BY <2>1, SameDirs
      DEF IInv, TypeOK, PhasesInv, EndpointsInv, GivenInv, Given
  <1>2. ASSUME NEW l \in Listeners, TaskStep(l) PROVE IInv'
    BY <1>2, AcceptInv, SendInv, StopInv DEF TaskStep
  <1> QED
    BY <1>1, <1>2, BindInv, BindFailsInv, PollNextInv, DropInv, ClientConnectsInv DEF Next

(* The inductive invariant of any number of listeners, connections and     *)
(* directories, with channels and backlogs of any size.                    *)
THEOREM Inductive == Spec => []IInv
  BY InitInv, NextInv, PTL DEF Spec

(* Every variable keeps to its type: the channel never holds more than     *)
(* buffer_size items, and the task waits to send while it holds one.       *)
THEOREM TypeCorrect == Spec => []TypeOK
  <1>1. IInv => TypeOK
    BY DEF IInv
  <1> QED
    BY <1>1, Inductive, PTL

-----------------------------------------------------------------------------
(* What waits, and what is promised.                                       *)

\* What the task holds is a sequence of at most one item.
LEMMA HoldingType ==
  ASSUME TypeOK, NEW l \in Listeners
  PROVE  Holding(l) \in Seq(Items)
  BY DEF TypeOK, Holding

\* Channel, held item and backlog are sequences of items, and so is their
\* whole.
LEMMA WaitingType ==
  ASSUME TypeOK, NEW l \in Listeners
  PROVE  /\ chan[l] \in Seq(Items) /\ Holding(l) \in Seq(Items) /\ backlog[l] \in Seq(Items)
         /\ Waiting(l) \in Seq(Items)
         /\ Waiting(l) = chan[l] \o (Holding(l) \o backlog[l])
  <1>1. chan[l] \in Seq(Items) /\ Holding(l) \in Seq(Items)
    BY HoldingType DEF TypeOK
  <1>2. backlog[l] \in Seq(Items)
    BY SeqMonotonic DEF TypeOK, Items
  <1>3. Waiting(l) = chan[l] \o (Holding(l) \o backlog[l])
    <2>1. \A s, t, u \in Seq(Items) : (s \o t) \o u = s \o (t \o u)
      BY ConcatAssociative
    <2> QED
      BY <1>1, <1>2, <2>1, Zenon DEF Waiting
  <1>4. chan[l] \o Holding(l) \in Seq(Items)
    BY <1>1, ConcatType
  <1>5. Waiting(l) \in Seq(Items)
    BY <1>2, <1>4, ConcatType DEF Waiting
  <1> QED
    BY <1>1, <1>2, <1>3, <1>5

\* Nothing is served or waits that the kernel has not given to the listener.
LEMMA WaitingIsGiven ==
  ASSUME TypeOK, NEW l \in Listeners
  PROVE  ToSet(served[l] \o Waiting(l)) \subseteq Given(l)
  <1>0. /\ chan[l] \in Seq(Items) /\ Holding(l) \in Seq(Items) /\ backlog[l] \in Seq(Items)
        /\ Waiting(l) \in Seq(Items)
        /\ Waiting(l) = chan[l] \o (Holding(l) \o backlog[l])
    BY WaitingType
  <1>1. served[l] \in Seq(Items) /\ Holding(l) \o backlog[l] \in Seq(Items)
    BY <1>0, ConcatType DEF TypeOK
  <1>2. ToSet(served[l] \o Waiting(l))
          = ToSet(served[l]) \cup (ToSet(chan[l]) \cup (ToSet(Holding(l)) \cup ToSet(backlog[l])))
    <2>1. \A s, t \in Seq(Items) : ToSet(s \o t) = ToSet(s) \cup ToSet(t)
      BY ToSetConcat
    <2>2. ToSet(served[l] \o Waiting(l)) = ToSet(served[l]) \cup ToSet(Waiting(l))
      BY <1>0, <1>1, <2>1, Zenon
    <2>3. ToSet(Waiting(l)) = ToSet(chan[l]) \cup ToSet(Holding(l) \o backlog[l])
      BY <1>0, <1>1, <2>1, Zenon
    <2>4. ToSet(Holding(l) \o backlog[l]) = ToSet(Holding(l)) \cup ToSet(backlog[l])
      BY <1>0, <2>1, Zenon
    <2> QED
      BY <2>2, <2>3, <2>4, Zenon
  <1>3. ToSet(Holding(l)) \subseteq {held[l]}
    BY DEF ToSet, Holding
  <1> QED
    BY <1>2, <1>3 DEF Given

(* A client is answered by the daemon of its directory, and on Windows the *)
(* open listener keeps the pipe: whoever binds, fails and goes meanwhile.  *)
THEOREM ClientsReachTheirDaemon == Spec => []ReachesTheDaemonMeant
  <1>1. ASSUME IInv PROVE ReachesTheDaemonMeant
    BY <1>1, WaitingIsGiven DEF IInv, ReachesTheDaemonMeant, EndpointsInv, GivenInv
  <1> QED
    BY <1>1, Inductive, PTL

-----------------------------------------------------------------------------
(* The refinement of AcceptQueue, one action at a time: l is the listener  *)
(* whose promise is looked at, m the one that acts.                        *)

Kept(l) == [Promised(l)!Next]_(Promised(l)!queueVars)

\* A listener whose queue does not change makes no abstract step.
LEMMA SameQueue ==
  ASSUME NEW l \in Listeners,
         (phase[l] = "open") <=> (phase'[l] = "open"),
         Waiting(l)' = Waiting(l), served'[l] = served[l]
  PROVE  Kept(l)
  BY DEF Kept, Promised!queueVars

\* A bind opens the abstract queue of its listener, and of no other.
LEMMA BindKeeps ==
  ASSUME IInv, NEW m \in Listeners, Bind(m), NEW l \in Listeners
  PROVE  Kept(l)
  <1>1. /\ phase[m] = "unbound" /\ phase' = [phase EXCEPT ![m] = "open"]
        /\ UNCHANGED <<backlog, held, chan, served>>
        /\ phase \in [Listeners -> {"unbound", "open", "dropped", "failed"}]
    BY DEF Bind, IInv, TypeOK
  <1>2. Waiting(l)' = Waiting(l) /\ served'[l] = served[l]
    BY <1>1 DEF Waiting, Holding
  <1>3. CASE l = m
    <2>1. Promised(l)!Open
      BY <1>1, <1>2, <1>3 DEF Promised!Open
    <2> QED
      BY <2>1 DEF Kept, Promised!Next
  <1>4. CASE l # m
    BY <1>1, <1>2, <1>4, SameQueue
  <1> QED
    BY <1>3, <1>4

(* The sequences a listener that acts is made of, in a form that the       *)
(* provers can calculate with.                                             *)
LEMMA Parts ==
  ASSUME TypeOK, NEW l \in Listeners
  PROVE  /\ chan[l] \in Seq(Items) /\ Holding(l) \in Seq(Items) /\ backlog[l] \in Seq(Items)
         /\ Holding(l) \o backlog[l] \in Seq(Items)
         /\ Waiting(l) \in Seq(Items)
         /\ Waiting(l) = chan[l] \o (Holding(l) \o backlog[l])
  <1>1. /\ chan[l] \in Seq(Items) /\ Holding(l) \in Seq(Items) /\ backlog[l] \in Seq(Items)
        /\ Waiting(l) \in Seq(Items)
        /\ Waiting(l) = chan[l] \o (Holding(l) \o backlog[l])
    BY WaitingType
  <1>2. Holding(l) \o backlog[l] \in Seq(Items)
    BY <1>1, ConcatType
  <1> QED
    BY <1>1, <1>2, Zenon

\* The arithmetic of sequences that the refinement needs.
LEMMA Calculate ==
  /\ \A s, t, u \in Seq(Items) : (s \o t) \o u = s \o (t \o u)
  /\ \A s \in Seq(Items) : <<>> \o s = s /\ s \o <<>> = s
  /\ \A s, t \in Seq(Items) : /\ Len(s) \in 0..Len(s \o t)
                             /\ SubSeq(s \o t, 1, Len(s)) = s
                             /\ SubSeq(s \o t, Len(s) + 1, Len(s \o t)) = t
  /\ \A s, t \in Seq(Items) : s # <<>> => /\ s \o t # <<>>
                                         /\ Head(s \o t) = Head(s)
                                         /\ Tail(s \o t) = Tail(s) \o t
  <1>1. \A s, t, u \in Seq(Items) : (s \o t) \o u = s \o (t \o u)
    BY ConcatAssociative
  <1>2. \A s \in Seq(Items) : <<>> \o s = s /\ s \o <<>> = s
    BY ConcatEmptySeq
  <1>3. \A s, t \in Seq(Items) : /\ Len(s) \in 0..Len(s \o t)
                                /\ SubSeq(s \o t, 1, Len(s)) = s
                                /\ SubSeq(s \o t, Len(s) + 1, Len(s \o t)) = t
    BY SplitConcat
  <1>4. \A s, t \in Seq(Items) : s # <<>> => /\ s \o t # <<>>
                                            /\ Head(s \o t) = Head(s)
                                            /\ Tail(s \o t) = Tail(s) \o t
    BY HeadTailConcat
  <1> QED
    BY <1>1, <1>2, <1>3, <1>4, Zenon

\* A client that connects enters the abstract queue of one listener.
LEMMA ClientConnectsKeeps ==
  ASSUME IInv, NEW k \in Conns, ClientConnects(k), NEW l \in Listeners
  PROVE  Kept(l)
  <1> DEFINE m == endpoint[Resolve(RuntimeDir(k))]
  <1>1. UNCHANGED <<phase, held, chan, served>> /\ TypeOK
    BY DEF ClientConnects, IInv
  <1>2. CASE UNCHANGED backlog
    BY <1>1, <1>2, SameQueue DEF Waiting, Holding
  <1>3. CASE backlog' = [backlog EXCEPT ![m] = Append(@, k)]
    <2>1. CASE l = m
      <3>1. backlog'[l] = Append(backlog[l], k) /\ k \in Items
        BY <1>1, <1>3, <2>1 DEF TypeOK, Items
      <3>2. Waiting(l)' = (chan[l] \o Holding(l)) \o Append(backlog[l], k)
        BY <1>1, <3>1 DEF Waiting, Holding
      <3>3. chan[l] \o Holding(l) \in Seq(Items) /\ backlog[l] \in Seq(Items)
        BY <1>1, WaitingType, ConcatType
      <3>4. (chan[l] \o Holding(l)) \o Append(backlog[l], k) = Append(Waiting(l), k)
        <4>1. \A s, t \in Seq(Items) : s \o Append(t, k) = Append(s \o t, k)
          BY <3>1, AppendLast
        <4> QED
          BY <3>3, <4>1, Zenon DEF Waiting
      <3>5. Promised(l)!Enter(k)
        BY <1>1, <3>2, <3>4 DEF Promised!Enter
      <3> QED
        BY <3>5 DEF Kept, Promised!Next
    <2>2. CASE l # m
      <3>1. backlog'[l] = backlog[l]
        BY <1>1, <1>3, <2>2 DEF TypeOK
      <3> QED
        BY <1>1, <3>1, SameQueue DEF Waiting, Holding
    <2> QED
      BY <2>1, <2>2
  <1> QED
    BY <1>2, <1>3 DEF ClientConnects

\* Accepting moves the head of the backlog on: the queue stays, or an error
\* enters it.
LEMMA AcceptKeeps ==
  ASSUME IInv, NEW m \in Listeners, Accept(m), NEW l \in Listeners
  PROVE  Kept(l)
  <1>1. TypeOK /\ task[m] = "select" /\ UNCHANGED <<phase, chan, served>>
    BY DEF Accept, IInv
  <1>2. CASE l # m
    <2>1. backlog'[l] = backlog[l] /\ held'[l] = held[l]
      BY <1>1, <1>2 DEF Accept, TypeOK
    <2> QED
      BY <1>1, <2>1, SameQueue DEF Waiting, Holding
  <1>3. CASE l = m
    <2>1. Holding(l) = <<>>
      BY <1>1, <1>3 DEF TypeOK, Holding
    <2>2. Waiting(l) = chan[l] \o backlog[l]
      <3>1. chan[l] \in Seq(Items) /\ <<>> \o backlog[l] = backlog[l]
        BY <1>1, Parts, Calculate
      <3> QED
        BY <1>1, <2>1, <3>1, Parts, Zenon
    <2>3. CASE /\ backlog[l] # <<>>
               /\ held' = [held EXCEPT ![l] = Head(backlog[l])]
               /\ backlog' = [backlog EXCEPT ![l] = Tail(backlog[l])]
      <3>1. /\ backlog[l] \in Seq(Conns)
            /\ Head(backlog[l]) \in Conns /\ Tail(backlog[l]) \in Seq(Conns)
        BY <1>1, <2>3, HeadTailProperties DEF TypeOK
      <3>2. /\ Holding(l)' = <<Head(backlog[l])>>
            /\ backlog'[l] = Tail(backlog[l])
        BY <1>1, <2>3, <3>1, NamesApart DEF TypeOK, Holding, Items
      <3>3. /\ <<Head(backlog[l])>> \in Seq(Items) /\ Tail(backlog[l]) \in Seq(Items)
            /\ backlog[l] = <<Head(backlog[l])>> \o Tail(backlog[l])
        BY <2>3, <3>1, HeadFirst, SeqMonotonic DEF Items
      <3>4. Waiting(l)' = (chan[l] \o <<Head(backlog[l])>>) \o Tail(backlog[l])
        BY <1>1, <3>2 DEF Waiting
      <3>5. Waiting(l)' = chan[l] \o (<<Head(backlog[l])>> \o Tail(backlog[l]))
        <4>1. chan[l] \in Seq(Items)
          BY <1>1, Parts
        <4> QED
          BY <3>3, <3>4, <4>1, Calculate, Zenon
      <3> QED
        BY <1>1, <2>2, <3>3, <3>5, SameQueue
    <2>4. CASE held' = [held EXCEPT ![l] = Error] /\ UNCHANGED backlog
      <3>1. Holding(l)' = <<Error>> /\ backlog'[l] = backlog[l]
        BY <1>1, <2>4, NamesApart DEF TypeOK, Holding, Items
      <3>2. Waiting(l)' = (chan[l] \o <<Error>>) \o backlog[l]
        BY <1>1, <3>1 DEF Waiting
      <3>3. chan[l] \in Seq(Items) /\ backlog[l] \in Seq(Items)
        BY <1>1, Parts
      <3>4. /\ Len(chan[l]) \in 0..Len(Waiting(l))
            /\ SubSeq(Waiting(l), 1, Len(chan[l])) = chan[l]
            /\ SubSeq(Waiting(l), Len(chan[l]) + 1, Len(Waiting(l))) = backlog[l]
        <4>1. /\ Len(chan[l]) \in 0..Len(chan[l] \o backlog[l])
              /\ SubSeq(chan[l] \o backlog[l], 1, Len(chan[l])) = chan[l]
              /\ SubSeq(chan[l] \o backlog[l], Len(chan[l]) + 1, Len(chan[l] \o backlog[l]))
                   = backlog[l]
          BY <3>3, Calculate, Zenon
        <4> QED
          BY <2>2, <4>1, Zenon
      <3>5. Promised(l)!Fail
        BY <1>1, <3>2, <3>4 DEF Promised!Fail
      <3> QED
        BY <3>5 DEF Kept, Promised!Next
    <2> QED
      BY <1>3, <2>3, <2>4 DEF Accept
  <1> QED
    BY <1>2, <1>3

\* Sending moves the held item into the channel: the queue stays.
LEMMA SendKeeps ==
  ASSUME IInv, NEW m \in Listeners, Send(m), NEW l \in Listeners
  PROVE  Kept(l)
  <1>1. /\ TypeOK /\ task[m] = "send" /\ UNCHANGED <<phase, backlog, served>>
        /\ chan' = [chan EXCEPT ![m] = Append(chan[m], held[m])]
        /\ held' = [held EXCEPT ![m] = None]
    BY DEF Send, IInv
  <1>2. CASE l # m
    <2>1. chan'[l] = chan[l] /\ held'[l] = held[l]
      BY <1>1, <1>2 DEF TypeOK
    <2>2. backlog' = backlog
      BY <1>1
    <2>3. Waiting(l)' = Waiting(l)
      BY <2>1, <2>2, Zenon DEF Waiting, Holding
    <2> QED
      BY <1>1, <2>3, SameQueue
  <1>3. CASE l = m
    <2>1. /\ held[l] \in Items /\ Holding(l) = <<held[l]>>
          /\ Holding(l)' = <<>> /\ chan'[l] = Append(chan[l], held[l])
      BY <1>1, <1>3 DEF TypeOK, Holding
    <2>2. chan[l] \in Seq(Items) /\ backlog[l] \in Seq(Items) /\ <<held[l]>> \in Seq(Items)
      BY <1>1, <2>1, Parts
    <2>3. /\ Append(chan[l], held[l]) = chan[l] \o <<held[l]>>
          /\ Append(chan[l], held[l]) \in Seq(Items)
      BY <2>1, <2>2, AppendIsConcat, AppendProperties
    <2>4. Append(chan[l], held[l]) \o <<>> = Append(chan[l], held[l])
      BY <2>3, Calculate
    <2>5. Waiting(l)' = (Append(chan[l], held[l]) \o <<>>) \o backlog[l]
      BY <1>1, <2>1 DEF Waiting
    <2>6. Waiting(l) = (chan[l] \o <<held[l]>>) \o backlog[l]
      BY <2>1 DEF Waiting
    <2> QED
      BY <1>1, <2>3, <2>4, <2>5, <2>6, SameQueue
  <1> QED
    BY <1>2, <1>3

\* A task that stops does so after the drop, when nothing is promised.
LEMMA StopKeeps ==
  ASSUME IInv, NEW m \in Listeners, Stop(m), NEW l \in Listeners
  PROVE  Kept(l)
  <1>1. /\ TypeOK /\ phase[m] = "dropped" /\ UNCHANGED <<phase, chan, served>>
        /\ held' = [held EXCEPT ![m] = None]
        /\ backlog' = [backlog EXCEPT ![m] = <<>>]
    BY DEF Stop, IInv
  <1>2. CASE l # m
    <2>1. backlog'[l] = backlog[l] /\ held'[l] = held[l]
      BY <1>1, <1>2 DEF TypeOK
    <2> QED
      <3>1. chan' = chan
        BY <1>1
      <3>2. Waiting(l)' = Waiting(l)
        BY <2>1, <3>1, Zenon DEF Waiting, Holding
      <3> QED
        BY <1>1, <3>2, SameQueue
  <1>3. CASE l = m
    <2>1. chan[l] = <<>> /\ Holding(l)' = <<>> /\ backlog'[l] = <<>>
      BY <1>1, <1>3 DEF IInv, PhasesInv, TypeOK, Holding
    <2>2. <<>> \o <<>> = <<>> /\ <<>> \in Seq(Items)
      BY Calculate
    <2>3. Waiting(l)' = <<>>
      BY <1>1, <2>1, <2>2, Zenon DEF Waiting
    <2>4. CASE Waiting(l) = <<>>
      BY <1>1, <2>3, <2>4, SameQueue
    <2>5. CASE Waiting(l) # <<>>
      <3>1. Waiting(l) \in Seq(Items)
        BY <1>1, Parts
      <3>2. Len(Waiting(l)) \in Nat \ {0}
        BY <2>5, <3>1, EmptySeq
      <3>3. SubSeq(Waiting(l), Len(Waiting(l)) + 1, Len(Waiting(l))) = <<>>
        BY <3>2, SubSeqEmpty
      <3>4. Promised(l)!GiveUp
        BY <1>1, <1>3, <2>3, <3>2, <3>3 DEF Promised!GiveUp
      <3> QED
        BY <3>4 DEF Kept, Promised!Next
    <2> QED
      BY <2>4, <2>5
  <1> QED
    BY <1>2, <1>3

\* Polling takes the head of the channel, which is the head of the queue.
LEMMA PollNextKeeps ==
  ASSUME IInv, NEW m \in Listeners, PollNext(m), NEW l \in Listeners
  PROVE  Kept(l)
  <1>1. /\ TypeOK /\ phase[m] = "open" /\ chan[m] # <<>> /\ UNCHANGED <<phase, held, backlog>>
        /\ served' = [served EXCEPT ![m] = Append(served[m], Head(chan[m]))]
        /\ chan' = [chan EXCEPT ![m] = Tail(chan[m])]
    BY DEF PollNext, IInv
  <1>2. CASE l # m
    <2>1. chan'[l] = chan[l] /\ served'[l] = served[l]
      BY <1>1, <1>2 DEF TypeOK
    <2> QED
      BY <1>1, <2>1, SameQueue DEF Waiting, Holding
  <1>3. CASE l = m
    <2> DEFINE rest == Holding(l) \o backlog[l]
    <2>1. /\ chan'[l] = Tail(chan[l]) /\ Holding(l)' = Holding(l) /\ backlog'[l] = backlog[l]
          /\ served'[l] = Append(served[l], Head(chan[l]))
      BY <1>1, <1>3 DEF TypeOK, Holding
    <2>2. /\ chan[l] \in Seq(Items) /\ rest \in Seq(Items) /\ Tail(chan[l]) \in Seq(Items)
          /\ Holding(l) \in Seq(Items) /\ backlog[l] \in Seq(Items)
      BY <1>1, <1>3, Parts, HeadTailProperties
    <2>3. Waiting(l) = chan[l] \o rest
      BY <1>1, Parts
    <2>4. Waiting(l)' = Tail(chan[l]) \o rest
      <3>1. Waiting(l)' = (Tail(chan[l]) \o Holding(l)) \o backlog[l]
        BY <2>1 DEF Waiting
      <3> QED
        BY <2>2, <3>1, Calculate, Zenon
    <2>5. Waiting(l) # <<>> /\ Head(Waiting(l)) = Head(chan[l]) /\ Tail(Waiting(l)) = Waiting(l)'
      <3> HIDE DEF rest
      <3> QED
        <4>1. /\ chan[l] \o rest # <<>>
              /\ Head(chan[l] \o rest) = Head(chan[l])
              /\ Tail(chan[l] \o rest) = Tail(chan[l]) \o rest
          BY <1>1, <1>3, <2>2, Calculate
        <4> QED
          BY <2>3, <2>4, <4>1, Zenon
    <2>6. Promised(l)!Deliver
      BY <1>1, <1>3, <2>1, <2>5 DEF Promised!Deliver
    <2> QED
      BY <2>6 DEF Kept, Promised!Next
  <1> QED
    BY <1>2, <1>3

\* A drop closes the abstract queue of its listener.
LEMMA DropKeeps ==
  ASSUME IInv, NEW m \in Listeners, Drop(m), NEW l \in Listeners
  PROVE  Kept(l)
  <1>1. /\ TypeOK /\ phase[m] = "open" /\ UNCHANGED <<held, backlog, served>>
        /\ phase' = [phase EXCEPT ![m] = "dropped"]
        /\ chan' = [chan EXCEPT ![m] = <<>>]
    BY DEF Drop, IInv
  <1>2. CASE l # m
    <2>1. chan'[l] = chan[l] /\ phase'[l] = phase[l]
      BY <1>1, <1>2 DEF TypeOK
    <2> QED
      BY <1>1, <2>1, SameQueue DEF Waiting, Holding
  <1>3. CASE l = m
    <2> DEFINE rest == Holding(l) \o backlog[l]
    <2>1. /\ chan'[l] = <<>> /\ Holding(l)' = Holding(l) /\ backlog'[l] = backlog[l]
          /\ phase[l] = "open" /\ phase'[l] = "dropped" /\ served'[l] = served[l]
      BY <1>1, <1>3 DEF TypeOK, Holding
    <2>2. chan[l] \in Seq(Items) /\ rest \in Seq(Items) /\ Waiting(l) = chan[l] \o rest
      BY <1>1, Parts
    <2>3. Waiting(l)' = rest
      <3>1. Waiting(l)' = (<<>> \o Holding(l)) \o backlog[l]
        BY <2>1 DEF Waiting
      <3>2. <<>> \o Holding(l) = Holding(l)
        BY <1>1, Parts, Calculate
      <3> QED
        BY <3>1, <3>2
    <2>4. /\ Len(chan[l]) \in 0..Len(Waiting(l))
          /\ SubSeq(Waiting(l), Len(chan[l]) + 1, Len(Waiting(l))) = rest
      <3> HIDE DEF rest
      <3>1. /\ Len(chan[l]) \in 0..Len(chan[l] \o rest)
            /\ SubSeq(chan[l] \o rest, Len(chan[l]) + 1, Len(chan[l] \o rest)) = rest
        BY <2>2, Calculate, Zenon
      <3> QED
        BY <2>2, <3>1, Zenon
    <2>5. Promised(l)!Shut
      BY <2>1, <2>3, <2>4 DEF Promised!Shut
    <2> QED
      BY <2>5 DEF Kept, Promised!Next
  <1> QED
    BY <1>2, <1>3

\* Every step of the listeners is a step of each abstract queue, or none.
LEMMA NextKeeps ==
  ASSUME IInv, [Next]_vars, NEW l \in Listeners
  PROVE  Kept(l)
  <1>1. CASE UNCHANGED vars
    <2>1. phase' = phase /\ backlog' = backlog /\ held' = held /\ chan' = chan /\ served' = served
      BY <1>1 DEF vars
    <2> QED
      BY <2>1, SameQueue DEF Waiting, Holding
  <1>2. ASSUME NEW m \in Listeners, BindFails(m) PROVE Kept(l)
    <2>1. /\ phase[m] = "unbound" /\ phase' = [phase EXCEPT ![m] = "failed"] /\ TypeOK
          /\ UNCHANGED <<backlog, held, chan, served>>
      BY <1>2 DEF BindFails, IInv
    <2>2. (phase[l] = "open") <=> (phase'[l] = "open")
      BY <2>1 DEF TypeOK
    <2> QED
      BY <2>1, <2>2, SameQueue DEF Waiting, Holding
  <1>3. ASSUME NEW m \in Listeners, TaskStep(m) PROVE Kept(l)
    BY <1>3, AcceptKeeps, SendKeeps, StopKeeps DEF TaskStep
  <1> QED
    BY <1>1, <1>2, <1>3, BindKeeps, PollNextKeeps, DropKeeps, ClientConnectsKeeps DEF Next

(* Each listener implements its queue: nothing that connects, and no       *)
(* failed accept, is lost, doubled or overtaken while the server holds the *)
(* listener, with a channel and a backlog of any size.                     *)
THEOREM ListenersAreQueues == Spec => ListenersKeepPromise
  <1>1. Init => \A l \in Listeners : Promised(l)!Init
    <2> SUFFICES ASSUME Init, NEW l \in Listeners PROVE Promised(l)!Init
      OBVIOUS
    <2>1. phase[l] = "unbound" /\ served[l] = <<>> /\ chan[l] = <<>> /\ backlog[l] = <<>>
      BY DEF Init
    <2>2. Holding(l) = <<>>
      BY DEF Init, Holding
    <2>3. Waiting(l) = <<>>
      BY <2>1, <2>2, ConcatEmptySeq DEF Waiting
    <2> QED
      BY <2>1, <2>3 DEF Promised!Init
  <1>2. IInv /\ [Next]_vars =>
          [\A l \in Listeners : [Promised(l)!Next]_(Promised(l)!queueVars)]_vars
    BY NextKeeps DEF Kept
  <1> QED
    BY <1>1, <1>2, Inductive, PTL DEF Spec, ListenersKeepPromise
=============================================================================
