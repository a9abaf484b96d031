--------------------------- MODULE TaskLayoutProofs ---------------------------
(* Proofs about TaskLayout.                                                *)
EXTENDS TaskLayout, SequenceTheorems, FiniteSetTheorems, TLAPS

-----------------------------------------------------------------------------
(* The inductive invariant.                                                *)

(* The lines of an owner are there from its first call on, its head first; *)
(* the others are numbered from 1.                                         *)
LinesInv ==
    /\ \A o \in Owners : phase[o] # "new" => HeadOf(o) \in ToSet(lines)
    /\ \A l \in ToSet(lines) :
          /\ phase[l.owner] # "new"
          /\ l.kind = "head" => l = HeadOf(l.owner)
          /\ l.kind # "head" => l.n <= Count(l.owner, l.kind)
    /\ \A i, j \in DOMAIN lines :
          i < j /\ lines[i].owner = lines[j].owner => lines[j].kind # "head"

(* The next child of a task goes below one of its own lines.               *)
PointInv ==
    \A o \in Owners : phase[o] = "building" =>
        point[o] \in ToSet(lines) /\ point[o].owner = o

(* Only clear_children clears lines, those of its task but for the head.   *)
ClearedInv ==
    /\ \A l \in cleared : /\ l.kind # "head"
                          /\ phase[l.owner] \in {"tidying", "gone"}
                          /\ l \in nodes[l.owner]
    /\ \A o \in Owners : \A l \in nodes[o] : l.owner = o /\ l.kind # "head"

(* The anchor falls back to a line, never to none.                         *)
AnchorInv == anchor = None => lines = <<>>

BaseInv == TypeOK /\ LinesInv /\ PointInv /\ ClearedInv /\ AnchorInv /\ AnchorOnScreen

(* A task whose lines may still get company.                               *)
Active(o) == phase[o] \in {"building", "live", "tidying"}

IsLast(s, l) ==
    \A i, j \in DOMAIN s : s[i] = l /\ s[j].owner = l.owner => j <= i

Together ==
    \A i, j \in DOMAIN lines :
        i < j /\ lines[i].owner = lines[j].owner /\ Active(lines[i].owner) =>
            \A k \in i..j : lines[k].owner = lines[i].owner

(* The lines of a task are together until they are cleared, and the anchor *)
(* is not inside of them, nor is the place of the next child.              *)
BlocksInv ==
    /\ \A o \in Owners : phase[o] \notin {"failing", "clearing"}
    /\ Together
    /\ anchor # None /\ Active(anchor.owner) => IsLast(lines, anchor)
    /\ \A o \in Owners : phase[o] = "building" => IsLast(lines, point[o])
    /\ \A o \in Owners : phase[o] \in {"tidying", "gone"} => ChildrenOf(o) \subseteq cleared

(* What is on the screen is not below the anchor, with one call at a time. *)
NothingBelow == \A i, j \in DOMAIN lines : lines[i] = anchor /\ Visible(j) => j <= i

SequentialInv ==
    /\ \A o, q \in Owners : phase[o] \in {"building", "tidying"}
                            /\ phase[q] \in {"building", "tidying"} => o = q
    /\ NothingBelow
    /\ \A o \in Owners : phase[o] = "building" => anchor = point[o]

IInv ==
    /\ BaseInv
    /\ ~bulkFail => BlocksInv
    /\ ~bulkFail /\ ~concurrent => SequentialInv

-----------------------------------------------------------------------------
(* Lemmas about inserting.                                                 *)

(* The new line is at p + 1, and the others keep their order.              *)
Placed(p, new) ==
    /\ p \in 0..Len(lines)
    /\ lines' \in Seq(Line)
    /\ Len(lines') = Len(lines) + 1
    /\ lines'[p + 1] = new
    /\ \A i \in 1..p : lines'[i] = lines[i]
    /\ \A i \in (p + 1)..Len(lines) : lines'[i + 1] = lines[i]

\* Inserting at a position places the line there and moves the ones below.
LEMMA InsertAtPlaces ==
    ASSUME lines \in Seq(Line), NEW new \in Line, NEW p \in 0..Len(lines),
           lines' = InsertAt(lines, p + 1, new)
    PROVE  Placed(p, new)
  <1> DEFINE s == SubSeq(lines, 1, p)
             t == SubSeq(lines, p + 1, Len(lines))
  <1>1. Len(lines) \in Nat /\ \A i \in 1..Len(lines) : lines[i] \in Line
    BY LenProperties, ElementOfSeq
  <1>2. /\ s \in Seq(Line) /\ Len(s) = p
        /\ \A i \in 1..p : s[i] = lines[i]
    <2>1. \A i \in 1..p : lines[i] \in Line
      BY <1>1
    <2> QED
      BY <1>1, <2>1, SubSeqProperties
  <1>3. /\ t \in Seq(Line) /\ Len(t) = Len(lines) - p
        /\ \A i \in 1..(Len(lines) - p) : t[i] = lines[p + i]
    <2>1. \A i \in (p + 1)..Len(lines) : lines[i] \in Line
      BY <1>1
    <2>2. /\ t \in Seq(Line)
          /\ Len(t) = IF p + 1 <= Len(lines) THEN Len(lines) - (p + 1) + 1 ELSE 0
          /\ \A i \in 1..(Len(lines) - (p + 1) + 1) : t[i] = lines[(p + 1) + i - 1]
      BY <1>1, <2>1, SubSeqProperties
    <2> QED
      BY <1>1, <2>2
  <1> DEFINE u == s \o <<new>>
  <1>4. /\ u \in Seq(Line) /\ Len(u) = p + 1
        /\ \A i \in 1..p : u[i] = lines[i]
        /\ u[p + 1] = new
    <2> HIDE DEF s
    <2>1. /\ u \in Seq(Line) /\ Len(u) = p + 1
          /\ \A i \in 1..(p + 1) : u[i] = IF i <= p THEN s[i] ELSE new
      BY <1>2, ConcatProperties
    <2> HIDE DEF u
    <2> QED
      BY <1>2, <2>1
  <1>5. /\ u \o t \in Seq(Line)
        /\ Len(u \o t) = Len(u) + Len(t)
        /\ \A i \in 1..(Len(u) + Len(t)) :
              (u \o t)[i] = IF i <= Len(u) THEN u[i] ELSE t[i - Len(u)]
    <2> HIDE DEF u, t
    <2> QED
      BY <1>3, <1>4, ConcatProperties
  <1>6. lines' = u \o t
    <2>1. (p + 1) - 1 = p
      OBVIOUS
    <2> QED
      BY <2>1, Zenon DEF InsertAt
  <1> HIDE DEF s, t, u
  <1>7. Len(u) + Len(t) = Len(lines) + 1
    BY <1>1, <1>3, <1>4
  <1>8. lines'[p + 1] = new
    BY <1>4, <1>5, <1>6, <1>7, <1>1
  <1>9. ASSUME NEW i \in 1..p PROVE lines'[i] = lines[i]
    BY <1>1, <1>4, <1>5, <1>6, <1>7
  <1>10. ASSUME NEW i \in (p + 1)..Len(lines) PROVE lines'[i + 1] = lines[i]
    <2>1. /\ i + 1 \in 1..(Len(lines) + 1) /\ ~(i + 1 <= p + 1)
          /\ (i + 1) - (p + 1) = i - p /\ i - p \in 1..(Len(lines) - p) /\ p + (i - p) = i
      BY <1>1
    <2>2. lines'[i + 1] = t[(i + 1) - (p + 1)]
      BY <1>4, <1>5, <1>6, <1>7, <2>1
    <2>3. t[i - p] = lines[p + (i - p)]
      BY <1>3, <2>1
    <2> QED
      BY <2>1, <2>2, <2>3
  <1> QED
    BY <1>5, <1>6, <1>7, <1>8, <1>9, <1>10 DEF Placed

(* Where a line is.                                                        *)
LEMMA PositionIs ==
    ASSUME lines \in Seq(Line), IsInjective(lines), NEW p \in DOMAIN lines
    PROVE  Position(lines[p]) = p
  <1>1. DOMAIN lines = 1..Len(lines) /\ p \in Int
    BY LenProperties
  <1>2. {i \in 1..Len(lines) : lines[i] = lines[p]} = {p}
    BY <1>1 DEF IsInjective
  <1>3. (CHOOSE x \in {p} : \A y \in {p} : x <= y) = p
    BY <1>1
  <1> QED
    BY <1>2, <1>3 DEF Position, SelectInSeq, Min

\* A line inserted at the bottom comes right below the anchor, and is the
\* anchor.
LEMMA InsertPlaces ==
    ASSUME TypeOK, NEW new \in Line, Insert(new)
    PROVE  /\ anchor' = new
           /\ \E p \in 0..Len(lines) :
                 /\ Placed(p, new)
                 /\ anchor = None => p = Len(lines)
                 /\ anchor # None => p \in DOMAIN lines /\ lines[p] = anchor
  <1>1. lines \in Seq(Line) /\ DOMAIN lines = 1..Len(lines) /\ Len(lines) \in Nat
    BY LenProperties DEF TypeOK
  <1>2. anchor' = new
    BY DEF Insert, SetAnchor
  <1>3. CASE anchor = None
    <2>1. lines' = Append(lines, new)
      BY <1>3 DEF Insert
    <2>2. Placed(Len(lines), new)
      <3>1. /\ Append(lines, new) \in Seq(Line) /\ Len(Append(lines, new)) = Len(lines) + 1
            /\ \A i \in 1..Len(lines) : Append(lines, new)[i] = lines[i]
            /\ Append(lines, new)[Len(lines) + 1] = new
        BY <1>1, AppendProperties
      <3>2. Len(lines) \in 0..Len(lines) /\ (Len(lines) + 1)..Len(lines) = {}
        BY <1>1
      <3> QED
        BY <2>1, <3>1, <3>2 DEF Placed
    <2>3. Len(lines) \in 0..Len(lines)
      BY <1>1
    <2> QED
      BY <1>2, <1>3, <2>2, <2>3, Zenon
  <1>4. CASE anchor # None
    <2>1. PICK p \in DOMAIN lines : lines[p] = anchor
      BY <1>4 DEF TypeOK, ToSet
    <2>2. lines' = InsertAt(lines, p + 1, new)
      BY <1>1, <1>4, <2>1, PositionIs DEF Insert, Below, TypeOK
    <2>3. p \in 0..Len(lines)
      BY <1>1
    <2>4. Placed(p, new)
      BY <1>1, <2>2, <2>3, InsertAtPlaces
    <2> QED
      BY <1>2, <1>4, <2>1, <2>3, <2>4
  <1> QED
    BY <1>3, <1>4

\* A line inserted after another comes right below it.
LEMMA InsertAfterPlaces ==
    ASSUME TypeOK, NEW line \in ToSet(lines), NEW new \in Line, InsertAfter(line, new)
    PROVE  /\ anchor' = IF anchor = line THEN new ELSE anchor
           /\ \E p \in DOMAIN lines : lines[p] = line /\ Placed(p, new)
  <1>1. lines \in Seq(Line) /\ DOMAIN lines = 1..Len(lines) /\ Len(lines) \in Nat
    BY LenProperties DEF TypeOK
  <1>2. PICK p \in DOMAIN lines : lines[p] = line
    BY DEF ToSet
  <1>3. lines' = InsertAt(lines, p + 1, new)
    BY <1>1, <1>2, PositionIs DEF InsertAfter, Below, TypeOK
  <1>4. Placed(p, new)
    BY <1>1, <1>3, InsertAtPlaces
  <1> QED
    BY <1>2, <1>4 DEF InsertAfter, SetAnchor

(* Where a line that is there after an insertion was before it.            *)
Old(p, i) == IF i <= p THEN i ELSE i - 1

\* Where the old lines are once a line is placed.
LEMMA PlacedIndices ==
    ASSUME lines \in Seq(Line), NEW p, NEW new, Placed(p, new)
    PROVE  /\ p \in Nat /\ p <= Len(lines) /\ Len(lines) \in Nat
           /\ DOMAIN lines = 1..Len(lines)
           /\ DOMAIN lines' = 1..(Len(lines) + 1)
           /\ p + 1 \in DOMAIN lines' /\ lines'[p + 1] = new
           /\ \A i \in DOMAIN lines' : i # p + 1 =>
                 Old(p, i) \in DOMAIN lines /\ lines'[i] = lines[Old(p, i)]
           /\ \A i \in DOMAIN lines : \E j \in DOMAIN lines' : lines'[j] = lines[i]
  <1>1. /\ p \in Nat /\ p <= Len(lines) /\ Len(lines) \in Nat
        /\ DOMAIN lines = 1..Len(lines)
        /\ DOMAIN lines' = 1..(Len(lines) + 1)
    BY LenProperties DEF Placed
  <1>2. ASSUME NEW i \in DOMAIN lines', i # p + 1
        PROVE  Old(p, i) \in DOMAIN lines /\ lines'[i] = lines[Old(p, i)]
    <2>1. CASE i <= p
      BY <1>1, <1>2, <2>1 DEF Placed, Old
    <2>2. CASE i > p
      <3>1. i - 1 \in (p + 1)..Len(lines) /\ (i - 1) + 1 = i
        BY <1>1, <1>2, <2>2
      <3> QED
        BY <1>1, <2>2, <3>1 DEF Placed, Old
    <2> QED
      BY <1>1, <2>1, <2>2
  <1>3. ASSUME NEW i \in DOMAIN lines
        PROVE  \E j \in DOMAIN lines' : lines'[j] = lines[i]
    <2>1. CASE i <= p
      BY <1>1, <2>1 DEF Placed
    <2>2. CASE i > p
      BY <1>1, <2>2 DEF Placed
    <2> QED
      BY <1>1, <2>1, <2>2
  <1> QED
    BY <1>1, <1>2, <1>3 DEF Placed

\* Placing a line adds this line, and keeps lines from occurring twice.
LEMMA PlacedSet ==
    ASSUME lines \in Seq(Line), IsInjective(lines), NEW p, NEW new, Placed(p, new),
           new \notin ToSet(lines)
    PROVE  /\ ToSet(lines)' = ToSet(lines) \union {new}
           /\ IsInjective(lines)'
  <1>1. ToSet(lines)' = ToSet(lines) \union {new}
    BY PlacedIndices DEF ToSet
  <1>2. ASSUME NEW a \in DOMAIN lines', NEW b \in DOMAIN lines', lines'[a] = lines'[b]
        PROVE  a = b
    <2>1. a = p + 1 <=> b = p + 1
      BY <1>2, PlacedIndices DEF ToSet
    <2>2. CASE a # p + 1 /\ b # p + 1
      <3>1. Old(p, a) = Old(p, b)
        BY <1>2, <2>2, PlacedIndices DEF IsInjective
      <3>2. a \in Nat /\ b \in Nat /\ p \in Nat
        BY PlacedIndices
      <3> QED
        BY <2>2, <3>1, <3>2 DEF Old
    <2> QED
      BY <2>1, <2>2
  <1> QED
    BY <1>1, <1>2 DEF IsInjective

(* A line more is one line more of its owner and kind.                     *)
LEMMA CountType ==
    ASSUME lines \in Seq(Line), NEW o, NEW kind
    PROVE  IsFiniteSet(LinesOf(o, kind)) /\ Count(o, kind) \in Nat
  <1>1. IsFiniteSet(1..Len(lines))
    BY LenProperties, FS_Interval
  <1>2. ToSet(lines) = {lines[i] : i \in 1..Len(lines)}
    BY LenProperties DEF ToSet
  <1>3. IsFiniteSet(ToSet(lines))
    <2>1. lines \in Surjection(1..Len(lines), ToSet(lines))
      BY <1>2, LenProperties DEF Surjection
    <2> QED
      BY <1>1, <2>1, FS_Surjection
  <1>4. IsFiniteSet(LinesOf(o, kind))
    BY <1>3, FS_Subset DEF LinesOf
  <1> QED
    BY <1>4, FS_CardinalityType DEF Count

\* A new line counts for its owner and kind, and for nobody else.
LEMMA CountGrows ==
    ASSUME lines \in Seq(Line), NEW new \in Line, new \notin ToSet(lines),
           ToSet(lines)' = ToSet(lines) \union {new}
    PROVE  \A o, kind : Count(o, kind)' =
              Count(o, kind) + (IF new.owner = o /\ new.kind = kind THEN 1 ELSE 0)
  <1> SUFFICES ASSUME NEW o, NEW kind
               PROVE  Count(o, kind)' =
                         Count(o, kind) + (IF new.owner = o /\ new.kind = kind THEN 1 ELSE 0)
    OBVIOUS
  <1>1. IsFiniteSet(LinesOf(o, kind)) /\ Count(o, kind) \in Nat
    BY CountType
  <1>2. CASE new.owner = o /\ new.kind = kind
    <2>1. LinesOf(o, kind)' = LinesOf(o, kind) \union {new} /\ new \notin LinesOf(o, kind)
      BY <1>2 DEF LinesOf
    <2>2. Cardinality(LinesOf(o, kind) \union {new}) = Cardinality(LinesOf(o, kind)) + 1
      BY <1>1, <2>1, FS_AddElement
    <2> QED
      BY <1>2, <2>1, <2>2 DEF Count
  <1>3. CASE ~(new.owner = o /\ new.kind = kind)
    <2>1. LinesOf(o, kind)' = LinesOf(o, kind)
      BY <1>3 DEF LinesOf
    <2> QED
      BY <1>1, <1>3, <2>1 DEF Count
  <1> QED
    BY <1>2, <1>3

-----------------------------------------------------------------------------
(* The lines and the anchor.                                               *)

\* The anchor of an empty layout is no line.
LEMMA NoneIsNoLine == None \notin Line
  <1>1. ASSUME NEW l \in Line PROVE l # None
    <2>1. "kind" \in DOMAIN l
      BY DEF Line
    <2>2. "kind" \notin DOMAIN None
      BY DEF None
    <2> QED
      BY <2>1, <2>2
  <1> QED
    BY <1>1

\* The head of a task is a line of it.
LEMMA HeadType ==
    ASSUME NEW o \in Owners
    PROVE  /\ HeadOf(o) \in Line
           /\ HeadOf(o).owner = o /\ HeadOf(o).kind = "head"
  BY DEF HeadOf, Line

\* A fresh line is a line of its owner, with a number.
LEMMA FreshType ==
    ASSUME TypeOK, NEW o \in Owners, NEW kind \in {"stage", "extra", "report"}
    PROVE  /\ Fresh(o, kind) \in Line
           /\ Fresh(o, kind).owner = o /\ Fresh(o, kind).kind = kind
           /\ Fresh(o, kind).n = Count(o, kind) + 1 /\ Count(o, kind) \in Nat
  BY CountType DEF Fresh, Line, TypeOK

\* What stands in the layout has an owner, a kind and a number.
LEMMA LineType ==
    ASSUME TypeOK, NEW l \in ToSet(lines)
    PROVE  /\ l \in Line /\ l.owner \in Owners /\ l.kind \in {"head", "stage", "extra", "report"}
           /\ l.n \in Nat
  <1>1. l \in Line
    BY ElementOfSeq, LenProperties DEF TypeOK, ToSet
  <1> QED
    BY <1>1 DEF Line

(* The head of an owner is the first of its lines.                         *)
LEMMA HeadGrows ==
    ASSUME BaseInv, NEW o \in Owners, phase[o] = "new", NEW p, Placed(p, HeadOf(o)),
           phase' \in [Owners -> Phases], phase'[o] # "new",
           \A q \in Owners \ {o} : phase'[q] = phase[q]
    PROVE  /\ HeadOf(o) \notin ToSet(lines)
           /\ ToSet(lines)' = ToSet(lines) \union {HeadOf(o)}
           /\ IsInjective(lines)'
           /\ LinesInv'
  <1> USE DEF BaseInv
  <1>1. \A l \in ToSet(lines) : l.owner # o
    BY DEF LinesInv
  <1>2. HeadOf(o) \notin ToSet(lines) /\ lines \in Seq(Line)
    BY <1>1, HeadType DEF TypeOK
  <1>3. ToSet(lines)' = ToSet(lines) \union {HeadOf(o)} /\ IsInjective(lines)'
    BY <1>2, PlacedSet DEF TypeOK
  <1>4. \A q \in Owners : phase'[q] # "new" => HeadOf(q) \in ToSet(lines)'
    BY <1>3 DEF LinesInv
  <1>5. ASSUME NEW l \in ToSet(lines)'
        PROVE  /\ phase'[l.owner] # "new"
               /\ l.kind = "head" => l = HeadOf(l.owner)
               /\ l.kind # "head" => l.n <= Count(l.owner, l.kind)'
    <2>1. CASE l = HeadOf(o)
      BY <2>1, HeadType
    <2>2. CASE l \in ToSet(lines)
      <3>1. l.owner \in Owners /\ l.owner # o /\ l.n \in Nat
        BY <1>1, <2>2, LineType
      <3>2. Count(l.owner, l.kind)' = Count(l.owner, l.kind)
        BY <1>2, <1>3, <3>1, HeadType, CountGrows, CountType
      <3> QED
        BY <2>2, <3>1, <3>2 DEF LinesInv
    <2> QED
      BY <1>3, <2>1, <2>2
  <1>6. ASSUME NEW i \in DOMAIN lines', NEW j \in DOMAIN lines',
               i < j, lines'[i].owner = lines'[j].owner
        PROVE  lines'[j].kind # "head"
    <2>1. i # p + 1 /\ j # p + 1
      <3>1. \A k \in DOMAIN lines' : k # p + 1 => lines'[k].owner # o
        BY <1>1, <1>2, PlacedIndices DEF ToSet
      <3>2. i \in Int /\ j \in Int /\ lines'[p + 1].owner = o
        BY <1>2, PlacedIndices, HeadType
      <3> QED
        BY <1>6, <3>1, <3>2
    <2>2. /\ Old(p, i) \in DOMAIN lines /\ lines'[i] = lines[Old(p, i)]
          /\ Old(p, j) \in DOMAIN lines /\ lines'[j] = lines[Old(p, j)]
          /\ i \in Int /\ j \in Int /\ p \in Int
      BY <1>2, <2>1, PlacedIndices
    <2>3. Old(p, i) < Old(p, j)
      BY <1>6, <2>1, <2>2 DEF Old
    <2> QED
      BY <1>6, <2>2, <2>3 DEF LinesInv
  <1> QED
    BY <1>2, <1>3, <1>4, <1>5, <1>6 DEF LinesInv

(* A new line goes below one of its owner, and is numbered as the next.    *)
LEMMA OwnerGrows ==
    ASSUME BaseInv, NEW o \in Owners, NEW kind \in {"stage", "extra", "report"},
           NEW p \in DOMAIN lines, lines[p].owner = o, Placed(p, Fresh(o, kind)),
           phase' \in [Owners -> Phases],
           \A q \in Owners : phase'[q] = "new" <=> phase[q] = "new"
    PROVE  /\ Fresh(o, kind) \notin ToSet(lines)
           /\ ToSet(lines)' = ToSet(lines) \union {Fresh(o, kind)}
           /\ IsInjective(lines)'
           /\ LinesInv'
  <1> DEFINE new == Fresh(o, kind)
  <1> USE DEF BaseInv
  <1>1. /\ new \in Line /\ new.owner = o /\ new.kind = kind /\ kind # "head"
        /\ new.n = Count(o, kind) + 1 /\ Count(o, kind) \in Nat
        /\ lines \in Seq(Line)
    BY FreshType DEF TypeOK
  <1> HIDE DEF new
  <1>2. new \notin ToSet(lines)
    BY <1>1 DEF LinesInv
  <1>3. ToSet(lines)' = ToSet(lines) \union {new} /\ IsInjective(lines)'
    BY <1>1, <1>2, PlacedSet DEF TypeOK, new
  <1>4. \A q \in Owners : phase'[q] # "new" => HeadOf(q) \in ToSet(lines)'
    BY <1>3 DEF LinesInv
  <1>5. ASSUME NEW l \in ToSet(lines)'
        PROVE  /\ phase'[l.owner] # "new"
               /\ l.kind = "head" => l = HeadOf(l.owner)
               /\ l.kind # "head" => l.n <= Count(l.owner, l.kind)'
    <2>1. Count(l.owner, l.kind)' = Count(l.owner, l.kind) +
             (IF new.owner = l.owner /\ new.kind = l.kind THEN 1 ELSE 0)
      BY <1>1, <1>2, <1>3, CountGrows
    <2>2. Count(l.owner, l.kind) \in Nat
      BY <1>1, CountType
    <2>3. CASE l = new
      <3>1. lines[p] \in ToSet(lines)
        BY DEF ToSet
      <3>2. phase[o] # "new"
        BY <3>1 DEF LinesInv
      <3> QED
        BY <1>1, <2>1, <2>3, <3>2
    <2>4. CASE l \in ToSet(lines)
      <3>1. l.owner \in Owners /\ l.n \in Nat
        BY <2>4, LineType
      <3> QED
        BY <2>1, <2>2, <2>4, <3>1 DEF LinesInv
    <2> QED
      BY <1>3, <2>3, <2>4
  <1>6. ASSUME NEW i \in DOMAIN lines', NEW j \in DOMAIN lines',
               i < j, lines'[i].owner = lines'[j].owner
        PROVE  lines'[j].kind # "head"
    <2>1. /\ p \in Int /\ i \in Int /\ j \in Int /\ p + 1 \in DOMAIN lines'
          /\ lines'[p + 1] = new /\ DOMAIN lines = 1..Len(lines) /\ Len(lines) \in Nat
          /\ DOMAIN lines' = 1..(Len(lines) + 1)
      BY <1>1, PlacedIndices DEF new
    <2>2. CASE j = p + 1
      BY <1>1, <2>1, <2>2
    <2>3. CASE j # p + 1
      <3>1. lines'[j] = lines[Old(p, j)] /\ Old(p, j) \in DOMAIN lines
        BY <1>1, <2>3, PlacedIndices DEF new
      <3>2. lines'[i].owner = lines[Old(p, i)].owner /\ Old(p, i) \in DOMAIN lines
        <4>1. CASE i = p + 1
          BY <1>1, <2>1, <4>1 DEF Old
        <4>2. CASE i # p + 1
          BY <1>1, <4>2, PlacedIndices DEF new
        <4> QED
          BY <4>1, <4>2
      <3>3. Old(p, i) < Old(p, j)
        BY <1>6, <2>1, <2>3 DEF Old
      <3> QED
        BY <1>6, <3>1, <3>2, <3>3 DEF LinesInv
    <2> QED
      BY <2>2, <2>3
  <1> QED
    BY <1>2, <1>3, <1>4, <1>5, <1>6 DEF LinesInv, new

-----------------------------------------------------------------------------
(* Every step preserves the base of the invariant.                         *)

(* What a new head, and a new line below another, leave of it.             *)
LEMMA HeadBase ==
    ASSUME BaseInv, NEW o \in Owners, phase[o] = "new", Insert(HeadOf(o)),
           NEW x \in {"building", "live"}, phase' = [phase EXCEPT ![o] = x],
           point' \in {point, [point EXCEPT ![o] = HeadOf(o)]},
           x = "building" => point'[o] = HeadOf(o),
           UNCHANGED <<useVars, cleared, failed, nodes>>
    PROVE  BaseInv'
  <1> USE DEF BaseInv
  <1>1. PICK p \in 0..Len(lines) : Placed(p, HeadOf(o))
    BY HeadType, InsertPlaces
  <1>2. /\ phase \in [Owners -> Phases] /\ phase' \in [Owners -> Phases]
        /\ phase'[o] = x /\ phase'[o] # "new"
        /\ \A q \in Owners \ {o} : phase'[q] = phase[q]
    BY DEF TypeOK, Phases
  <1>3. /\ HeadOf(o) \notin ToSet(lines)
        /\ ToSet(lines)' = ToSet(lines) \union {HeadOf(o)}
        /\ IsInjective(lines)' /\ LinesInv'
    BY <1>1, <1>2, HeadGrows
  <1>4. anchor' = HeadOf(o) /\ lines' \in Seq(Line) /\ lines' # <<>>
    BY <1>1, HeadType, InsertPlaces, LenProperties DEF Placed, TypeOK
  <1>5. /\ concurrent' = concurrent /\ bulkFail' = bulkFail
        /\ cleared' = cleared /\ failed' = failed /\ nodes' = nodes
    BY DEF useVars
  <1>6. /\ point' \in [Owners -> Line]
        /\ \A q \in Owners \ {o} : point'[q] = point[q]
    BY HeadType DEF TypeOK
  <1>7. TypeOK'
    BY <1>2, <1>3, <1>4, <1>5, <1>6 DEF TypeOK
  <1>8. PointInv'
    BY <1>2, <1>3, <1>6, HeadType DEF PointInv
  <1>9. ClearedInv'
    <2>1. \A l \in cleared : l.owner # o
      BY <1>2 DEF ClearedInv
    <2>2. \A l \in cleared : l.owner \in Owners
      BY LineType DEF TypeOK
    <2> QED
      BY <1>2, <1>5, <2>1, <2>2 DEF ClearedInv
  <1>10. AnchorInv' /\ AnchorOnScreen'
    BY <1>3, <1>4, <1>5, HeadType, NoneIsNoLine DEF AnchorInv, AnchorOnScreen, TypeOK
  <1> QED
    BY <1>3, <1>7, <1>8, <1>9, <1>10

\* A line inserted below a line of its own task keeps the base.
LEMMA BelowBase ==
    ASSUME BaseInv, NEW o \in Owners, NEW kind \in {"stage", "extra", "report"},
           NEW line \in ToSet(lines), line.owner = o, InsertAfter(line, Fresh(o, kind)),
           phase' \in [Owners -> Phases],
           \A q \in Owners : phase'[q] = "new" <=> phase[q] = "new"
    PROVE  /\ Fresh(o, kind) \notin ToSet(lines)
           /\ ToSet(lines)' = ToSet(lines) \union {Fresh(o, kind)}
           /\ lines' \in Seq(Line) /\ IsInjective(lines)'
           /\ anchor' = IF anchor = line THEN Fresh(o, kind) ELSE anchor
           /\ anchor' \in ToSet(lines)' \union {None}
           /\ LinesInv' /\ AnchorInv'
  <1> USE DEF BaseInv
  <1>1. Fresh(o, kind) \in Line
    BY FreshType
  <1>2. PICK p \in DOMAIN lines : lines[p] = line /\ Placed(p, Fresh(o, kind))
    BY <1>1, InsertAfterPlaces
  <1>3. /\ Fresh(o, kind) \notin ToSet(lines)
        /\ ToSet(lines)' = ToSet(lines) \union {Fresh(o, kind)}
        /\ IsInjective(lines)' /\ LinesInv'
    BY <1>2, OwnerGrows
  <1>4. anchor' = IF anchor = line THEN Fresh(o, kind) ELSE anchor
    BY <1>1, InsertAfterPlaces
  <1>5. anchor # None
    <2>1. lines # <<>>
      BY <1>2, LenProperties DEF TypeOK
    <2> QED
      BY <2>1 DEF AnchorInv
  <1>6. anchor' # None /\ anchor' \in ToSet(lines)'
    BY <1>1, <1>3, <1>4, <1>5, NoneIsNoLine DEF TypeOK
  <1> QED
    BY <1>2, <1>3, <1>4, <1>6 DEF AnchorInv, Placed

\* A child is inserted below the last line of a task being built.
LEMMA NewChildBase ==
    ASSUME BaseInv, NEW o \in Owners, NewChild(o), UNCHANGED useVars
    PROVE  BaseInv'
  <1> USE DEF BaseInv
  <1>0. PICK kind \in {"stage", "extra"} :
           /\ InsertAfter(point[o], Fresh(o, kind))
           /\ point' = [point EXCEPT ![o] = Fresh(o, kind)]
    BY DEF NewChild
  <1> DEFINE new == Fresh(o, kind)
  <1>1. /\ phase[o] = "building" /\ InsertAfter(point[o], new)
        /\ point' = [point EXCEPT ![o] = new]
        /\ UNCHANGED <<cleared, phase, failed, nodes>>
        /\ concurrent' = concurrent /\ bulkFail' = bulkFail
    BY <1>0 DEF NewChild, useVars
  <1>2. /\ new \notin ToSet(lines) /\ ToSet(lines)' = ToSet(lines) \union {new}
        /\ lines' \in Seq(Line) /\ IsInjective(lines)'
        /\ anchor' = IF anchor = point[o] THEN new ELSE anchor
        /\ anchor' \in ToSet(lines)' \union {None}
        /\ LinesInv' /\ AnchorInv'
    <2>1. point[o] \in ToSet(lines) /\ point[o].owner = o
      BY <1>1 DEF PointInv
    <2>2. phase' \in [Owners -> Phases] /\ \A q \in Owners : phase'[q] = "new" <=> phase[q] = "new"
      BY <1>1 DEF TypeOK
    <2> QED
      BY <1>1, <2>1, <2>2, BelowBase
  <1>3. new \in Line /\ new.owner = o
    BY FreshType
  <1> HIDE DEF new
  <1>4. TypeOK'
    BY <1>1, <1>2, <1>3 DEF TypeOK
  <1>5. PointInv'
    BY <1>1, <1>2, <1>3 DEF PointInv, TypeOK
  <1>6. ClearedInv'
    BY <1>1 DEF ClearedInv
  <1>7. AnchorOnScreen'
    BY <1>1, <1>2 DEF AnchorOnScreen, TypeOK
  <1> QED
    BY <1>2, <1>4, <1>5, <1>6, <1>7

\* A task that is built sets the anchor to its insertion point.
LEMMA FinishBuildBase ==
    ASSUME BaseInv, NEW o \in Owners, FinishBuild(o), UNCHANGED useVars
    PROVE  BaseInv'
  <1> USE DEF BaseInv
  <1>1. /\ phase[o] = "building" /\ anchor' = point[o]
        /\ phase' = [phase EXCEPT ![o] = "live"]
        /\ UNCHANGED <<lines, cleared, point, failed, nodes>>
        /\ concurrent' = concurrent /\ bulkFail' = bulkFail
    BY DEF FinishBuild, SetAnchor, useVars
  <1>2. point[o] \in ToSet(lines) /\ point[o].owner = o
    BY <1>1 DEF PointInv
  <1>3. TypeOK'
    BY <1>1, <1>2 DEF TypeOK, Phases
  <1>4. LinesInv'
    <2>1. \A a, k : Count(a, k)' = Count(a, k)
      BY <1>1 DEF Count, LinesOf
    <2>2. \A q \in Owners : phase'[q] = "new" <=> phase[q] = "new"
      BY <1>1 DEF TypeOK
    <2>3. \A l \in ToSet(lines) : l.owner \in Owners
      BY LineType
    <2> QED
      BY <1>1, <2>1, <2>2, <2>3 DEF LinesInv
  <1>5. PointInv'
    BY <1>1 DEF PointInv, TypeOK
  <1>6. ClearedInv'
    BY <1>1 DEF ClearedInv, TypeOK
  <1>7. AnchorInv' /\ AnchorOnScreen'
    BY <1>1, <1>2, LineType, NoneIsNoLine DEF AnchorInv, AnchorOnScreen, ClearedInv
  <1> QED
    BY <1>3, <1>4, <1>5, <1>6, <1>7

\* Without a new line or a new task the lines stay well placed.
LEMMA SameLines ==
    ASSUME BaseInv, lines' = lines,
           \A q \in Owners : phase'[q] = "new" <=> phase[q] = "new"
    PROVE  LinesInv'
  <1>1. \A a, k : Count(a, k)' = Count(a, k)
    BY DEF Count, LinesOf
  <1>2. \A l \in ToSet(lines) : l.owner \in Owners
    BY LineType DEF BaseInv
  <1> QED
    BY <1>1, <1>2 DEF LinesInv, BaseInv

(* A report of a stage, a step or a task that has no children.             *)
LEMMA ReportBase ==
    ASSUME BaseInv, NEW o \in Owners, phase[o] # "building",
           NEW line \in ToSet(lines), line.owner = o, InsertAfter(line, Fresh(o, "report")),
           failed' \in [Owners -> BOOLEAN],
           UNCHANGED <<useVars, cleared, phase, point, nodes>>
    PROVE  BaseInv'
  <1> DEFINE new == Fresh(o, "report")
  <1> USE DEF BaseInv
  <1>1. /\ UNCHANGED <<cleared, phase, point, nodes>>
        /\ concurrent' = concurrent /\ bulkFail' = bulkFail
    BY DEF useVars
  <1>2. /\ new \notin ToSet(lines) /\ ToSet(lines)' = ToSet(lines) \union {new}
        /\ lines' \in Seq(Line) /\ IsInjective(lines)'
        /\ anchor' = IF anchor = line THEN new ELSE anchor
        /\ anchor' \in ToSet(lines)' \union {None}
        /\ LinesInv' /\ AnchorInv'
    <2>1. phase' \in [Owners -> Phases] /\ \A q \in Owners : phase'[q] = "new" <=> phase[q] = "new"
      BY <1>1 DEF TypeOK
    <2> QED
      BY <2>1, BelowBase
  <1> HIDE DEF new
  <1>3. TypeOK'
    BY <1>1, <1>2 DEF TypeOK
  <1>4. PointInv'
    BY <1>1, <1>2 DEF PointInv
  <1>5. ClearedInv'
    BY <1>1 DEF ClearedInv
  <1>6. AnchorOnScreen'
    BY <1>1, <1>2 DEF AnchorOnScreen, TypeOK
  <1> QED
    BY <1>2, <1>3, <1>4, <1>5, <1>6

\* A report below a stage keeps the base.
LEMMA FailsBase ==
    ASSUME BaseInv, NEW o \in Owners, Fails(o), UNCHANGED useVars
    PROVE  BaseInv'
  <1>1. PICK l \in ToSet(lines) : l.owner = o /\ Report(o, l)
    BY DEF Fails
  <1>2. failed' \in [Owners -> BOOLEAN]
    BY DEF Fails, BaseInv, TypeOK
  <1> QED
    BY <1>1, <1>2, ReportBase DEF Fails, Report

\* A report below the next stage of a task failed as a whole keeps the base.
LEMMA FailsNextStageBase ==
    ASSUME BaseInv, NEW o \in Owners, FailsNextStage(o), UNCHANGED useVars
    PROVE  BaseInv'
  <1>1. PICK l \in LinesOf(o, "stage") : InsertAfter(l, Fresh(o, "report"))
    BY DEF FailsNextStage
  <1>2. l \in ToSet(lines) /\ l.owner = o
    BY DEF LinesOf
  <1>3. failed' \in [Owners -> BOOLEAN]
    BY DEF FailsNextStage, BaseInv, TypeOK
  <1> QED
    BY <1>1, <1>2, <1>3, ReportBase DEF FailsNextStage

\* A task that fails as a whole begins with its first stage.
LEMMA FailsAsAWholeBase ==
    ASSUME BaseInv, NEW o \in Owners, FailsAsAWhole(o), UNCHANGED useVars
    PROVE  BaseInv'
  <1> USE DEF BaseInv
  <1>1. /\ phase[o] = "live" /\ phase' = [phase EXCEPT ![o] = "failing"]
        /\ UNCHANGED <<lines, cleared, anchor, point, failed, nodes>>
        /\ concurrent' = concurrent /\ bulkFail' = bulkFail
    BY DEF FailsAsAWhole, useVars
  <1>2. TypeOK'
    BY <1>1 DEF TypeOK, Phases
  <1>3. LinesInv'
    BY <1>1, SameLines DEF TypeOK
  <1>4. PointInv' /\ ClearedInv' /\ AnchorInv'
    BY <1>1 DEF PointInv, ClearedInv, AnchorInv, TypeOK
  <1>5. AnchorOnScreen'
    BY <1>1 DEF AnchorOnScreen, ClearedInv, TypeOK
  <1> QED
    BY <1>2, <1>3, <1>4, <1>5

\* A report below the head keeps the base.
LEMMA FailsHeadBase ==
    ASSUME BaseInv, NEW o \in Owners, FailsHead(o), UNCHANGED useVars
    PROVE  BaseInv'
  <1> DEFINE new == Fresh(o, "report")
  <1> USE DEF BaseInv
  <1>1. /\ phase[o] = "failing" /\ InsertAfter(HeadOf(o), new)
        /\ phase' = [phase EXCEPT ![o] = "clearing"]
        /\ nodes' = [nodes EXCEPT ![o] = ChildrenOf(o)]
        /\ failed' \in [Owners -> BOOLEAN]
        /\ UNCHANGED <<cleared, point>>
        /\ concurrent' = concurrent /\ bulkFail' = bulkFail
    BY DEF FailsHead, TypeOK, useVars
  <1>2. HeadOf(o) \in ToSet(lines) /\ HeadOf(o).owner = o
    BY <1>1, HeadType DEF LinesInv
  <1>3. phase' \in [Owners -> Phases] /\ \A q \in Owners : phase'[q] = "new" <=> phase[q] = "new"
    BY <1>1 DEF TypeOK, Phases
  <1>4. /\ new \notin ToSet(lines) /\ ToSet(lines)' = ToSet(lines) \union {new}
        /\ lines' \in Seq(Line) /\ IsInjective(lines)'
        /\ anchor' = IF anchor = HeadOf(o) THEN new ELSE anchor
        /\ anchor' \in ToSet(lines)' \union {None}
        /\ LinesInv' /\ AnchorInv'
    BY <1>1, <1>2, <1>3, BelowBase
  <1> HIDE DEF new
  <1>5. /\ ChildrenOf(o) \subseteq ToSet(lines)
        /\ \A l \in ChildrenOf(o) : l.owner = o /\ l.kind # "head"
    BY DEF ChildrenOf
  <1>6. TypeOK'
    BY <1>1, <1>3, <1>4, <1>5 DEF TypeOK
  <1>7. PointInv'
    BY <1>1, <1>4 DEF PointInv, TypeOK
  <1>8. \A l \in cleared : l.owner # o /\ l.owner \in Owners
    BY <1>1, LineType DEF ClearedInv, TypeOK
  <1>9. ClearedInv'
    BY <1>1, <1>5, <1>8 DEF ClearedInv, TypeOK
  <1>10. AnchorOnScreen'
    BY <1>1, <1>4, <1>8 DEF AnchorOnScreen, TypeOK
  <1> QED
    BY <1>4, <1>6, <1>7, <1>9, <1>10

(* clear_children, by a task that is failed as a whole and by one that is  *)
(* completed: its nodes keep their places.                                 *)
LEMMA ClearedBase ==
    ASSUME BaseInv, NEW o \in Owners, phase[o] \in {"live", "clearing"},
           phase' = [phase EXCEPT ![o] = "tidying"],
           NEW set, set \subseteq ChildrenOf(o),
           cleared' = cleared \union set,
           nodes' = [nodes EXCEPT ![o] = set],
           UNCHANGED <<useVars, lines, anchor, point, failed>>
    PROVE  BaseInv'
  <1> USE DEF BaseInv
  <1>1. /\ concurrent' = concurrent /\ bulkFail' = bulkFail
        /\ UNCHANGED <<lines, anchor, point, failed>>
    BY DEF useVars
  <1>2. /\ set \subseteq ToSet(lines)
        /\ \A l \in set : l.owner = o /\ l.kind # "head"
    BY DEF ChildrenOf
  <1>3. TypeOK'
    BY <1>1, <1>2 DEF TypeOK, Phases
  <1>4. PointInv'
    BY <1>1 DEF PointInv, TypeOK
  <1>5. ClearedInv'
    <2>1. \A l \in cleared : l.owner # o /\ l.owner \in Owners
      BY LineType DEF ClearedInv, TypeOK
    <2>2. ASSUME NEW l \in cleared'
          PROVE  l.kind # "head" /\ phase'[l.owner] \in {"tidying", "gone"} /\ l \in nodes'[l.owner]
      <3>1. CASE l \in cleared
        BY <2>1, <3>1 DEF ClearedInv, TypeOK
      <3>2. CASE l \in set
        BY <1>2, <3>2 DEF TypeOK
      <3> QED
        BY <2>2, <3>1, <3>2
    <2>3. \A q \in Owners : \A l \in nodes'[q] : l.owner = q /\ l.kind # "head"
      BY <1>2 DEF ClearedInv, TypeOK
    <2> QED
      BY <2>2, <2>3 DEF ClearedInv
  <1>6. AnchorOnScreen'
    <2> SUFFICES ASSUME anchor \in cleared' PROVE phase'[anchor.owner] = "tidying"
      BY <1>1 DEF AnchorOnScreen
    <2>1. CASE anchor \in cleared
      <3>1. phase[anchor.owner] = "tidying" /\ anchor.owner \in Owners
        BY <2>1, LineType DEF AnchorOnScreen, TypeOK
      <3> QED
        BY <3>1 DEF TypeOK
    <2>2. CASE anchor \in set
      BY <1>2, <2>2 DEF TypeOK
    <2> QED
      BY <2>1, <2>2
  <1>7. LinesInv' /\ AnchorInv'
    BY <1>1, SameLines DEF TypeOK, AnchorInv
  <1> QED
    BY <1>3, <1>4, <1>5, <1>6, <1>7

\* A task failed as a whole clears what was below its head before.
LEMMA ClearsBase ==
    ASSUME BaseInv, NEW o \in Owners, Clears(o), UNCHANGED useVars
    PROVE  BaseInv'
  <1>1. nodes[o] \subseteq ChildrenOf(o) /\ nodes' = [nodes EXCEPT ![o] = nodes[o]]
    BY DEF Clears, BaseInv, TypeOK, ClearedInv, ChildrenOf
  <1> QED
    BY <1>1, ClearedBase DEF Clears

\* A task that completes clears its children, which keep their places.
LEMMA CompletesBase ==
    ASSUME BaseInv, NEW o \in Owners, Completes(o), UNCHANGED useVars
    PROVE  BaseInv'
  BY ClearedBase DEF Completes

\* After clearing, the anchor moves to the head if it was on a cleared line.
LEMMA TidiesBase ==
    ASSUME BaseInv, NEW o \in Owners, Tidies(o), UNCHANGED useVars
    PROVE  BaseInv'
  <1> USE DEF BaseInv
  <1>1. /\ phase[o] = "tidying" /\ phase' = [phase EXCEPT ![o] = "gone"]
        /\ anchor' = IF anchor \in nodes[o] THEN HeadOf(o) ELSE anchor
        /\ UNCHANGED <<lines, cleared, point, failed, nodes>>
        /\ concurrent' = concurrent /\ bulkFail' = bulkFail
    BY DEF Tidies, UpdateAnchorIfIn, SetAnchor, useVars
  <1>2. HeadOf(o) \in ToSet(lines) /\ HeadOf(o) \in Line /\ HeadOf(o).kind = "head"
    BY <1>1, HeadType DEF LinesInv
  <1>3. TypeOK'
    BY <1>1, <1>2 DEF TypeOK, Phases
  <1>4. LinesInv'
    BY <1>1, SameLines DEF TypeOK
  <1>5. PointInv' /\ ClearedInv' /\ AnchorInv'
    BY <1>1, <1>2, NoneIsNoLine DEF PointInv, ClearedInv, AnchorInv, TypeOK
  <1>6. AnchorOnScreen'
    <2> SUFFICES ASSUME anchor' \in cleared PROVE phase'[anchor'.owner] = "tidying"
      BY <1>1 DEF AnchorOnScreen
    <2>1. anchor' = anchor /\ anchor \notin nodes[o]
      BY <1>1, <1>2 DEF ClearedInv
    <2>2. phase[anchor.owner] = "tidying" /\ anchor.owner \in Owners /\ anchor.owner # o
      BY <2>1, LineType DEF AnchorOnScreen, ClearedInv, TypeOK
    <2> QED
      BY <1>1, <2>1, <2>2 DEF TypeOK
  <1> QED
    BY <1>3, <1>4, <1>5, <1>6

\* Every step keeps the base.
LEMMA NextBase ==
    ASSUME BaseInv, [Next]_vars
    PROVE  BaseInv'
  <1>1. CASE UNCHANGED vars
    <2>1. UNCHANGED <<concurrent, bulkFail, lines, cleared, anchor, phase, point, failed, nodes>>
      BY <1>1 DEF vars, useVars
    <2>2. LinesInv'
      BY <2>1, SameLines
    <2> QED
      BY <2>1, <2>2 DEF BaseInv, TypeOK, PointInv, ClearedInv, AnchorInv, AnchorOnScreen
  <1>2. ASSUME UNCHANGED useVars, NEW o \in Owners, NewStep(o) PROVE BaseInv'
    BY <1>2, HeadBase DEF NewStep
  <1>3. ASSUME UNCHANGED useVars, NEW o \in Owners, NewTask(o) PROVE BaseInv'
    <2>1. point'[o] = HeadOf(o)
      BY <1>3 DEF NewTask, BaseInv, TypeOK
    <2> QED
      BY <1>3, <2>1, HeadBase DEF NewTask
  <1> QED
    BY <1>1, <1>2, <1>3, NewChildBase, FinishBuildBase, FailsBase, FailsAsAWholeBase,
       FailsNextStageBase, FailsHeadBase, ClearsBase, CompletesBase, TidiesBase DEF Next

-----------------------------------------------------------------------------
(* Blocks: the lines of a task stay together.                              *)

(* A line that is the last of its owner stays so if the new line goes to   *)
(* another owner, or below a line of its owner that is not the last.       *)
LEMMA LastStays ==
    ASSUME lines \in Seq(Line), NEW l \in ToSet(lines), IsLast(lines, l),
           NEW p, NEW new, Placed(p, new), new \notin ToSet(lines),
           new.owner # l.owner \/ (p \in DOMAIN lines /\ lines[p].owner = l.owner /\ lines[p] # l)
    PROVE  IsLast(lines', l)
  <1> SUFFICES ASSUME NEW i \in DOMAIN lines', NEW j \in DOMAIN lines',
                      lines'[i] = l, lines'[j].owner = l.owner
               PROVE  j <= i
    BY DEF IsLast
  <1>1. /\ i # p + 1 /\ i \in Int /\ j \in Int /\ p \in Int
        /\ Old(p, i) \in DOMAIN lines /\ lines[Old(p, i)] = l /\ Old(p, i) \in Int
        /\ lines'[p + 1] = new
    BY PlacedIndices
  <1>2. CASE j = p + 1
    <2>1. p \in DOMAIN lines /\ lines[p].owner = l.owner /\ lines[p] # l
      BY <1>1, <1>2
    <2>2. p <= Old(p, i) /\ p # Old(p, i)
      BY <1>1, <2>1 DEF IsLast
    <2> QED
      BY <1>1, <1>2, <2>2 DEF Old
  <1>3. CASE j # p + 1
    <2>1. Old(p, j) \in DOMAIN lines /\ lines[Old(p, j)].owner = l.owner
      BY <1>3, PlacedIndices
    <2>2. Old(p, j) <= Old(p, i)
      BY <1>1, <2>1 DEF IsLast
    <2> QED
      BY <1>1, <1>3, <2>2 DEF Old
  <1> QED
    BY <1>2, <1>3

(* Below the last line of an owner there is the new last one.              *)
LEMMA LastMoves ==
    ASSUME lines \in Seq(Line), NEW p \in DOMAIN lines, IsLast(lines, lines[p]),
           NEW new, Placed(p, new), new \notin ToSet(lines), new.owner = lines[p].owner
    PROVE  IsLast(lines', new)
  <1> SUFFICES ASSUME NEW i \in DOMAIN lines', NEW j \in DOMAIN lines',
                      lines'[i] = new, lines'[j].owner = new.owner
               PROVE  j <= i
    BY DEF IsLast
  <1>1. i = p + 1 /\ j \in Int /\ p \in Int
    BY PlacedIndices DEF ToSet
  <1>2. CASE j # p + 1
    <2>1. Old(p, j) \in DOMAIN lines /\ lines[Old(p, j)].owner = lines[p].owner
      BY <1>2, PlacedIndices
    <2>2. Old(p, j) <= p
      BY <1>1, <2>1 DEF IsLast
    <2> QED
      BY <1>1, <1>2, <2>2 DEF Old
  <1> QED
    BY <1>1, <1>2

(* A new head goes below the anchor, which is not inside a block.          *)
LEMMA HeadBlocks ==
    ASSUME BaseInv, BlocksInv, NEW o \in Owners, phase[o] = "new", Insert(HeadOf(o)),
           NEW x \in {"building", "live"}, phase' = [phase EXCEPT ![o] = x],
           point' \in {point, [point EXCEPT ![o] = HeadOf(o)]},
           x = "building" => point'[o] = HeadOf(o),
           UNCHANGED cleared
    PROVE  BlocksInv'
  <1> DEFINE new == HeadOf(o)
  <1> USE DEF BaseInv
  <1>1. /\ new \in Line /\ new.owner = o /\ new.kind = "head" /\ anchor' = new
        /\ lines \in Seq(Line)
    BY HeadType, InsertPlaces DEF TypeOK
  <1>2. PICK p \in 0..Len(lines) : /\ Placed(p, new)
                                   /\ anchor = None => p = Len(lines)
                                   /\ anchor # None => p \in DOMAIN lines /\ lines[p] = anchor
    BY HeadType, InsertPlaces
  <1>3. /\ phase \in [Owners -> Phases] /\ phase'[o] = x
        /\ \A q \in Owners \ {o} : phase'[q] = phase[q] /\ point'[q] = point[q]
    BY DEF TypeOK
  <1>4. \A l \in ToSet(lines) : l.owner \in Owners /\ l.owner # o
    BY LineType DEF LinesInv
  <1>5. new \notin ToSet(lines)
    BY <1>1, <1>4
  <1>6. ToSet(lines)' = ToSet(lines) \union {new}
    BY <1>1, <1>2, <1>5, PlacedSet DEF TypeOK
  <1>7. /\ DOMAIN lines = 1..Len(lines) /\ DOMAIN lines' = 1..(Len(lines) + 1)
        /\ Len(lines) \in Nat /\ p \in Nat /\ lines'[p + 1] = new
        /\ \A i \in DOMAIN lines' : i # p + 1 =>
              /\ Old(p, i) \in DOMAIN lines /\ lines'[i] = lines[Old(p, i)]
              /\ lines'[i].owner # o
    BY <1>1, <1>2, <1>4, PlacedIndices DEF ToSet
  <1> HIDE DEF new
  <1>8. \A q \in Owners : phase'[q] \notin {"failing", "clearing"}
    BY <1>3 DEF BlocksInv
  <1>9. Together'
    <2> SUFFICES ASSUME NEW i \in DOMAIN lines', NEW j \in DOMAIN lines', i < j,
                        lines'[i].owner = lines'[j].owner, Active(lines[i].owner)',
                        NEW k \in i..j
                 PROVE  lines'[k].owner = lines'[i].owner
      BY DEF Together
    <2>1. i # p + 1 /\ j # p + 1
      BY <1>1, <1>7
    <2>2. /\ Old(p, i) \in DOMAIN lines /\ lines'[i] = lines[Old(p, i)]
          /\ Old(p, j) \in DOMAIN lines /\ lines'[j] = lines[Old(p, j)]
          /\ lines'[i].owner # o /\ Old(p, i) < Old(p, j)
      BY <1>7, <2>1 DEF Old
    <2>3. lines'[i].owner \in Owners /\ Active(lines[Old(p, i)].owner)
      BY <1>3, <1>4, <2>2 DEF Active, ToSet
    <2>4. \A m \in Old(p, i)..Old(p, j) : lines[m].owner = lines'[i].owner
      BY <2>2, <2>3 DEF BlocksInv, Together
    <2>5. CASE k = p + 1
      <3>1. p \in DOMAIN lines /\ p \in Old(p, i)..Old(p, j) /\ p < Old(p, j) /\ p # Len(lines)
        <4>1. /\ i \in 1..(Len(lines) + 1) /\ j \in 1..(Len(lines) + 1)
              /\ Len(lines) \in Nat /\ p \in Nat
          BY <1>7
        <4>2. i <= p /\ p + 1 < j
          BY <2>1, <2>5, <4>1
        <4>3. Old(p, i) = i /\ Old(p, j) = j - 1
          BY <4>1, <4>2 DEF Old
        <4>4. p \in 1..Len(lines) /\ p \in i..(j - 1) /\ p < j - 1 /\ p # Len(lines)
          BY <4>1, <4>2
        <4> QED
          BY <1>7, <4>3, <4>4
      <3>2. lines[p] = anchor /\ anchor # None
        BY <1>2, <3>1
      <3>3. Active(anchor.owner) /\ anchor.owner = lines[Old(p, j)].owner
        BY <2>2, <2>3, <2>4, <3>1, <3>2
      <3>4. Old(p, j) <= p
        BY <2>2, <3>1, <3>2, <3>3 DEF BlocksInv, IsLast
      <3> QED
        <4>1. Old(p, j) \in Int /\ p \in Int
          BY <1>7, <2>2
        <4> QED
          BY <3>1, <3>4, <4>1
    <2>6. CASE k # p + 1
      <3>1. k \in DOMAIN lines' /\ Old(p, k) \in Old(p, i)..Old(p, j)
        BY <1>7, <2>1, <2>6 DEF Old
      <3> QED
        BY <1>7, <2>4, <2>6, <3>1
    <2> QED
      BY <2>5, <2>6
  <1>10. IsLast(lines', new)
    <2> SUFFICES ASSUME NEW i \in DOMAIN lines', NEW j \in DOMAIN lines',
                        lines'[i] = new, lines'[j].owner = new.owner
                 PROVE  j <= i
      BY DEF IsLast
    <2> QED
      BY <1>1, <1>7
  <1>11. ASSUME NEW q \in Owners, phase'[q] = "building" PROVE IsLast(lines', point'[q])
    <2>1. CASE q = o
      BY <1>3, <1>10, <1>11, <2>1 DEF new
    <2>2. CASE q # o
      <3>1. /\ phase[q] = "building" /\ point'[q] = point[q]
            /\ point[q] \in ToSet(lines) /\ point[q].owner = q /\ IsLast(lines, point[q])
        BY <1>3, <1>11, <2>2 DEF PointInv, BlocksInv
      <3>2. IsLast(lines', point[q])
        BY <1>1, <1>2, <1>5, <2>2, <3>1, LastStays
      <3> QED
        BY <3>1, <3>2
    <2> QED
      BY <2>1, <2>2
  <1>12. ASSUME NEW q \in Owners, phase'[q] \in {"tidying", "gone"}
         PROVE  ChildrenOf(q)' \subseteq cleared'
    <2>1. q # o /\ phase[q] \in {"tidying", "gone"}
      BY <1>3, <1>12
    <2>2. ChildrenOf(q)' = ChildrenOf(q)
      BY <1>1, <1>6, <2>1 DEF ChildrenOf
    <2> QED
      BY <2>1, <2>2 DEF BlocksInv
  <1> QED
    BY <1>1, <1>8, <1>9, <1>10, <1>11, <1>12 DEF BlocksInv

(* A line below another of its owner makes its block longer.               *)
LEMMA BelowBlocks ==
    ASSUME BaseInv, BlocksInv, NEW o \in Owners, NEW kind \in {"stage", "extra", "report"},
           NEW line \in ToSet(lines), line.owner = o, InsertAfter(line, Fresh(o, kind)),
           phase[o] \in {"building", "live"},
           phase[o] = "building" => /\ line = point[o]
                                    /\ point' = [point EXCEPT ![o] = Fresh(o, kind)],
           phase[o] = "live" => point' = point,
           UNCHANGED <<phase, cleared>>
    PROVE  BlocksInv'
  <1> DEFINE new == Fresh(o, kind)
  <1> USE DEF BaseInv
  <1>1. /\ new \in Line /\ new.owner = o /\ new.kind = kind
        /\ lines \in Seq(Line)
    BY FreshType DEF TypeOK
  <1>2. PICK p \in DOMAIN lines : lines[p] = line /\ Placed(p, new)
    BY <1>1, InsertAfterPlaces
  <1>3. anchor' = IF anchor = line THEN new ELSE anchor
    BY <1>1, InsertAfterPlaces
  <1>4. new \notin ToSet(lines) /\ ToSet(lines)' = ToSet(lines) \union {new}
    BY BelowBase DEF TypeOK
  <1>5. /\ DOMAIN lines = 1..Len(lines) /\ DOMAIN lines' = 1..(Len(lines) + 1)
        /\ Len(lines) \in Nat /\ p \in Nat /\ p <= Len(lines) /\ lines'[p + 1] = new
        /\ \A i \in DOMAIN lines' : i # p + 1 =>
              Old(p, i) \in DOMAIN lines /\ lines'[i] = lines[Old(p, i)]
    BY <1>1, <1>2, PlacedIndices
  <1> HIDE DEF new
  <1>6. \A i \in DOMAIN lines' :
           Old(p, i) \in DOMAIN lines /\ lines'[i].owner = lines[Old(p, i)].owner
    <2>1. Old(p, p + 1) = p
      BY <1>5 DEF Old
    <2> QED
      BY <1>1, <1>2, <1>5, <2>1
  <1>7. Together'
    <2> SUFFICES ASSUME NEW i \in DOMAIN lines', NEW j \in DOMAIN lines', i < j,
                        lines'[i].owner = lines'[j].owner, Active(lines[i].owner)',
                        NEW k \in i..j
                 PROVE  lines'[k].owner = lines'[i].owner
      BY DEF Together
    <2>1. /\ k \in DOMAIN lines' /\ Old(p, k) \in Old(p, i)..Old(p, j)
          /\ Old(p, i) \in Int /\ Old(p, j) \in Int
      BY <1>5 DEF Old
    <2>2. Active(lines[Old(p, i)].owner)
      BY <1>6 DEF Active
    <2>3. CASE Old(p, i) < Old(p, j)
      BY <1>6, <2>1, <2>2, <2>3 DEF BlocksInv, Together
    <2>4. CASE ~(Old(p, i) < Old(p, j))
      <3>1. Old(p, k) = Old(p, i)
        BY <2>1, <2>4
      <3> QED
        BY <1>6, <2>1, <3>1
    <2> QED
      BY <2>3, <2>4
  <1>8. ASSUME IsLast(lines, line) PROVE IsLast(lines', new)
    BY <1>1, <1>2, <1>4, <1>8, LastMoves
  <1>9. ASSUME anchor' # None, Active(anchor.owner)' PROVE IsLast(lines', anchor')
    <2>1. CASE anchor = line
      <3>1. Active(line.owner) /\ anchor # None
        BY <2>1, NoneIsNoLine, LineType DEF Active
      <3> QED
        BY <1>3, <1>8, <2>1, <3>1 DEF BlocksInv
    <2>2. CASE anchor # line
      <3>1. anchor' = anchor /\ anchor \in ToSet(lines) /\ Active(anchor.owner)
        BY <1>3, <1>9, <2>2 DEF TypeOK, Active
      <3>2. IsLast(lines, anchor)
        BY <1>9, <3>1 DEF BlocksInv
      <3>3. IsLast(lines', anchor)
        BY <1>1, <1>2, <1>4, <2>2, <3>1, <3>2, LastStays
      <3> QED
        BY <3>1, <3>3
    <2> QED
      BY <2>1, <2>2
  <1>10. ASSUME NEW q \in Owners, phase'[q] = "building" PROVE IsLast(lines', point'[q])
    <2>1. CASE q = o
      <3>1. phase[o] = "building" /\ point'[o] = new /\ IsLast(lines, line)
        BY <1>10, <2>1 DEF BlocksInv, TypeOK, new
      <3> QED
        BY <1>8, <2>1, <3>1
    <2>2. CASE q # o
      <3>1. /\ phase[q] = "building" /\ point'[q] = point[q]
            /\ point[q] \in ToSet(lines) /\ point[q].owner = q /\ IsLast(lines, point[q])
        BY <1>10, <2>2 DEF PointInv, BlocksInv, TypeOK
      <3>2. IsLast(lines', point[q])
        BY <1>1, <1>2, <1>4, <2>2, <3>1, LastStays
      <3> QED
        BY <3>1, <3>2
    <2> QED
      BY <2>1, <2>2
  <1>11. ASSUME NEW q \in Owners, phase'[q] \in {"tidying", "gone"}
         PROVE  ChildrenOf(q)' \subseteq cleared'
    <2>1. q # o /\ phase[q] \in {"tidying", "gone"}
      BY <1>11
    <2>2. ChildrenOf(q)' = ChildrenOf(q)
      BY <1>1, <1>4, <2>1 DEF ChildrenOf
    <2> QED
      BY <2>1, <2>2 DEF BlocksInv
  <1> QED
    BY <1>7, <1>9, <1>10, <1>11 DEF BlocksInv

\* Every step keeps the blocks, unless tasks are failed as a whole.
LEMMA NextBlocks ==
    ASSUME BaseInv, ~bulkFail, BlocksInv, [Next]_vars
    PROVE  BlocksInv'
  <1> USE DEF BaseInv
  <1>1. CASE UNCHANGED vars
    <2>1. UNCHANGED <<lines, cleared, anchor, phase, point>>
      BY <1>1 DEF vars
    <2> QED
      BY <2>1 DEF BlocksInv, Together, Active, ChildrenOf
  <1>2. ASSUME NEW o \in Owners, NewStep(o) PROVE BlocksInv'
    BY <1>2, HeadBlocks DEF NewStep
  <1>3. ASSUME NEW o \in Owners, NewTask(o) PROVE BlocksInv'
    <2>1. point'[o] = HeadOf(o)
      BY <1>3 DEF NewTask, TypeOK
    <2> QED
      BY <1>3, <2>1, HeadBlocks DEF NewTask
  <1>4. ASSUME NEW o \in Owners, NewChild(o) PROVE BlocksInv'
    <2>1. point[o] \in ToSet(lines) /\ point[o].owner = o
      BY <1>4 DEF NewChild, PointInv
    <2>2. PICK kind \in {"stage", "extra"} :
             /\ InsertAfter(point[o], Fresh(o, kind))
             /\ point' = [point EXCEPT ![o] = Fresh(o, kind)]
      BY <1>4 DEF NewChild
    <2> QED
      BY <1>4, <2>1, <2>2, BelowBlocks DEF NewChild
  <1>5. ASSUME NEW o \in Owners, Fails(o) PROVE BlocksInv'
    <2>1. PICK l \in ToSet(lines) : l.owner = o /\ InsertAfter(l, Fresh(o, "report"))
      BY <1>5 DEF Fails, Report
    <2> QED
      BY <1>5, <2>1, BelowBlocks DEF Fails
  <1>6. ASSUME NEW o \in Owners, FinishBuild(o) PROVE BlocksInv'
    <2>1. /\ phase[o] = "building" /\ anchor' = point[o]
          /\ phase' = [phase EXCEPT ![o] = "live"]
          /\ UNCHANGED <<lines, cleared, point>>
      BY <1>6 DEF FinishBuild, SetAnchor
    <2>2. /\ \A l \in ToSet(lines) : Active(l.owner)' => Active(l.owner)
          /\ \A q \in Owners : phase'[q] \notin {"failing", "clearing"}
      BY <2>1, LineType DEF Active, TypeOK, BlocksInv
    <2>3. Together'
      BY <2>1, <2>2 DEF Together, BlocksInv, ToSet
    <2>4. IsLast(lines', anchor')
      BY <2>1 DEF BlocksInv
    <2>5. ASSUME NEW q \in Owners
          PROVE  /\ phase'[q] = "building" => IsLast(lines', point'[q])
                 /\ phase'[q] \in {"tidying", "gone"} => ChildrenOf(q)' \subseteq cleared'
      BY <2>1 DEF BlocksInv, TypeOK, ChildrenOf
    <2> QED
      BY <2>2, <2>3, <2>4, <2>5 DEF BlocksInv
  <1>7. ASSUME NEW o \in Owners, Completes(o) PROVE BlocksInv'
    <2>1. /\ phase[o] = "live" /\ phase' = [phase EXCEPT ![o] = "tidying"]
          /\ cleared' = cleared \union ChildrenOf(o)
          /\ UNCHANGED <<lines, anchor, point>>
      BY <1>7 DEF Completes
    <2>2. /\ \A l \in ToSet(lines) : Active(l.owner)' => Active(l.owner)
          /\ \A q \in Owners : phase'[q] \notin {"failing", "clearing"}
      BY <2>1, LineType DEF Active, TypeOK, BlocksInv
    <2>3. Together'
      BY <2>1, <2>2 DEF Together, BlocksInv, ToSet
    <2>4. anchor' # None /\ Active(anchor.owner)' => IsLast(lines', anchor')
      BY <2>1, <2>2 DEF BlocksInv, TypeOK
    <2>5. ASSUME NEW q \in Owners
          PROVE  /\ phase'[q] = "building" => IsLast(lines', point'[q])
                 /\ phase'[q] \in {"tidying", "gone"} => ChildrenOf(q)' \subseteq cleared'
      BY <2>1 DEF BlocksInv, TypeOK, ChildrenOf
    <2> QED
      BY <2>2, <2>3, <2>4, <2>5 DEF BlocksInv
  <1>8. ASSUME NEW o \in Owners, Tidies(o) PROVE BlocksInv'
    <2>1. /\ phase[o] = "tidying" /\ phase' = [phase EXCEPT ![o] = "gone"]
          /\ anchor' \in {HeadOf(o), anchor}
          /\ UNCHANGED <<lines, cleared, point>>
      BY <1>8 DEF Tidies, UpdateAnchorIfIn, SetAnchor
    <2>2. /\ \A l \in ToSet(lines) : Active(l.owner)' => Active(l.owner)
          /\ \A q \in Owners : phase'[q] \notin {"failing", "clearing"}
          /\ ~Active(o)'
      BY <2>1, LineType DEF Active, TypeOK, BlocksInv
    <2>3. Together'
      BY <2>1, <2>2 DEF Together, BlocksInv, ToSet
    <2>4. anchor' # None /\ Active(anchor.owner)' => IsLast(lines', anchor')
      <3>1. CASE anchor' = HeadOf(o)
        BY <2>2, <3>1, HeadType DEF Active
      <3>2. CASE anchor' = anchor
        BY <2>1, <2>2, <3>2 DEF BlocksInv, TypeOK
      <3> QED
        BY <2>1, <3>1, <3>2
    <2>5. ASSUME NEW q \in Owners
          PROVE  /\ phase'[q] = "building" => IsLast(lines', point'[q])
                 /\ phase'[q] \in {"tidying", "gone"} => ChildrenOf(q)' \subseteq cleared'
      BY <2>1 DEF BlocksInv, TypeOK, ChildrenOf
    <2> QED
      BY <2>2, <2>3, <2>4, <2>5 DEF BlocksInv
  <1>9. ASSUME NEW o \in Owners, FailsAsAWhole(o) PROVE FALSE
    BY <1>9 DEF FailsAsAWhole
  <1>10. ASSUME NEW o \in Owners, FailsNextStage(o) \/ FailsHead(o) \/ Clears(o) PROVE FALSE
    BY <1>10 DEF FailsNextStage, FailsHead, Clears, BlocksInv
  <1> QED
    BY <1>1, <1>2, <1>3, <1>4, <1>5, <1>6, <1>7, <1>8, <1>9, <1>10 DEF Next

-----------------------------------------------------------------------------
(* One call at a time: new lines go to the bottom.                         *)

\* A new head goes to the bottom.
LEMMA HeadBottom ==
    ASSUME BaseInv, NothingBelow, NEW o \in Owners, phase[o] = "new", Insert(HeadOf(o)),
           UNCHANGED cleared
    PROVE  NothingBelow'
  <1> DEFINE new == HeadOf(o)
  <1> USE DEF BaseInv
  <1>1. /\ new \in Line /\ anchor' = new /\ lines \in Seq(Line)
        /\ new \notin ToSet(lines)
    BY HeadType, InsertPlaces DEF TypeOK, LinesInv
  <1>2. PICK p \in 0..Len(lines) : /\ Placed(p, new)
                                   /\ anchor = None => p = Len(lines)
                                   /\ anchor # None => p \in DOMAIN lines /\ lines[p] = anchor
    BY HeadType, InsertPlaces
  <1> HIDE DEF new
  <1>3. /\ DOMAIN lines = 1..Len(lines) /\ DOMAIN lines' = 1..(Len(lines) + 1)
        /\ Len(lines) \in Nat /\ p \in Nat
        /\ \A i \in DOMAIN lines' : i # p + 1 =>
              Old(p, i) \in DOMAIN lines /\ lines'[i] = lines[Old(p, i)]
    BY <1>1, <1>2, PlacedIndices
  <1> SUFFICES ASSUME NEW i \in DOMAIN lines', NEW j \in DOMAIN lines',
                      lines'[i] = new, Visible(j)'
               PROVE  j <= i
    BY <1>1 DEF NothingBelow
  <1>4. i = p + 1
    BY <1>1, <1>3 DEF ToSet
  <1>5. CASE anchor = None
    BY <1>2, <1>3, <1>4, <1>5
  <1>6. CASE anchor # None /\ j # p + 1
    <2>1. Old(p, j) \in DOMAIN lines /\ Visible(Old(p, j))
      BY <1>3, <1>6 DEF Visible
    <2>2. Old(p, j) <= p
      BY <1>2, <1>6, <2>1 DEF NothingBelow
    <2> QED
      BY <1>3, <1>4, <2>2 DEF Old
  <1> QED
    BY <1>3, <1>4, <1>5, <1>6

\* A line inserted below a visible line of its task leaves nothing below the anchor.
LEMMA BelowBottom ==
    ASSUME BaseInv, NothingBelow, NEW o \in Owners, NEW kind \in {"stage", "extra", "report"},
           NEW line \in ToSet(lines), line.owner = o, InsertAfter(line, Fresh(o, kind)),
           line \notin cleared, UNCHANGED cleared
    PROVE  NothingBelow'
  <1> DEFINE new == Fresh(o, kind)
  <1> USE DEF BaseInv
  <1>1. new \in Line /\ lines \in Seq(Line)
    BY FreshType DEF TypeOK
  <1>2. PICK p \in DOMAIN lines : lines[p] = line /\ Placed(p, new)
    BY <1>1, InsertAfterPlaces
  <1>3. anchor' = IF anchor = line THEN new ELSE anchor
    BY <1>1, InsertAfterPlaces
  <1>4. new \notin ToSet(lines)
    <2>1. \A l \in ToSet(lines) : l.kind # "head" => l.n <= Count(l.owner, l.kind)
      BY DEF LinesInv
    <2> QED
      BY <2>1, FreshType
  <1>5. anchor \in ToSet(lines)
    BY <1>1, <1>2, LenProperties DEF TypeOK, AnchorInv
  <1> HIDE DEF new
  <1>6. /\ DOMAIN lines = 1..Len(lines) /\ DOMAIN lines' = 1..(Len(lines) + 1)
        /\ Len(lines) \in Nat /\ p \in Nat
        /\ \A i \in DOMAIN lines' : i # p + 1 =>
              Old(p, i) \in DOMAIN lines /\ lines'[i] = lines[Old(p, i)]
        /\ lines'[p + 1] = new
    BY <1>1, <1>2, PlacedIndices
  <1> SUFFICES ASSUME NEW i \in DOMAIN lines', NEW j \in DOMAIN lines',
                      lines'[i] = anchor', Visible(j)'
               PROVE  j <= i
    BY DEF NothingBelow
  <1>7. j # p + 1 => Old(p, j) \in DOMAIN lines /\ Visible(Old(p, j))
    BY <1>6 DEF Visible
  <1>8. CASE anchor = line
    <2>1. i = p + 1
      BY <1>3, <1>4, <1>6, <1>8 DEF ToSet
    <2>2. j # p + 1 => Old(p, j) <= p
      BY <1>2, <1>7, <1>8 DEF NothingBelow
    <2> QED
      BY <1>6, <2>1, <2>2 DEF Old
  <1>9. CASE anchor # line
    <2>1. anchor' = anchor /\ i # p + 1
      BY <1>3, <1>4, <1>5, <1>6, <1>9
    <2>2. Old(p, i) \in DOMAIN lines /\ lines[Old(p, i)] = anchor
      BY <1>6, <2>1
    <2>3. p <= Old(p, i) /\ p # Old(p, i)
      BY <1>2, <1>9, <2>2 DEF NothingBelow, Visible
    <2>4. j # p + 1 => Old(p, j) <= Old(p, i)
      BY <1>7, <2>2 DEF NothingBelow
    <2> QED
      BY <1>6, <2>1, <2>3, <2>4 DEF Old
  <1> QED
    BY <1>8, <1>9

(* The anchor that falls back to a head falls back to the lowest line of   *)
(* the screen, because all that was between them has been cleared.         *)
LEMMA TidiesBottom ==
    ASSUME BaseInv, BlocksInv, NothingBelow, NEW o \in Owners, Tidies(o)
    PROVE  NothingBelow'
  <1> USE DEF BaseInv
  <1>1. /\ phase[o] = "tidying"
        /\ anchor' = IF anchor \in nodes[o] THEN HeadOf(o) ELSE anchor
        /\ UNCHANGED <<lines, cleared>>
    BY DEF Tidies, UpdateAnchorIfIn, SetAnchor
  <1>2. CASE anchor \notin nodes[o]
    BY <1>1, <1>2 DEF NothingBelow, Visible
  <1>3. CASE anchor \in nodes[o]
    <2> SUFFICES ASSUME NEW i \in DOMAIN lines, NEW j \in DOMAIN lines,
                        lines[i] = HeadOf(o), Visible(j), i < j
                 PROVE  FALSE
      <3>1. DOMAIN lines \subseteq Int
        BY LenProperties DEF TypeOK
      <3> QED
        BY <1>1, <1>3, <3>1 DEF NothingBelow, Visible
    <2>1. anchor \in ToSet(lines) /\ anchor.owner = o /\ anchor.kind # "head"
      BY <1>3 DEF ClearedInv, TypeOK
    <2>2. PICK a \in DOMAIN lines : lines[a] = anchor
      BY <2>1 DEF ToSet
    <2>3. j <= a /\ i \in Int /\ j \in Int /\ a \in Int
      BY <2>2, LenProperties DEF NothingBelow, TypeOK
    <2>4. lines[i].owner = o /\ lines[a].owner = o /\ Active(o)
      BY <1>1, <2>1, <2>2, HeadType DEF Active
    <2>5. lines[j].owner = o
      BY <2>2, <2>3, <2>4 DEF BlocksInv, Together
    <2>6. lines[j].kind # "head"
      BY <2>4, <2>5 DEF LinesInv
    <2>7. lines[j] \in ChildrenOf(o)
      BY <2>5, <2>6 DEF ChildrenOf, ToSet
    <2> QED
      BY <1>1, <2>7 DEF BlocksInv, Visible
  <1> QED
    BY <1>2, <1>3

\* Without overlapping calls every step keeps new lines at the bottom.
LEMMA NextSequential ==
    ASSUME BaseInv, ~bulkFail, BlocksInv, ~concurrent, SequentialInv, [Next]_vars
    PROVE  SequentialInv'
  <1> USE DEF BaseInv
  <1> DEFINE Inside(o) == phase[o] \in {"building", "tidying"}
  <1>1. CASE UNCHANGED vars
    <2>1. UNCHANGED <<lines, cleared, anchor, phase, point>>
      BY <1>1 DEF vars
    <2> QED
      BY <2>1 DEF SequentialInv, NothingBelow, Visible
  <1>2. ASSUME NEW o \in Owners, NewStep(o) PROVE SequentialInv'
    <2>1. /\ phase[o] = "new" /\ Insert(HeadOf(o)) /\ phase' = [phase EXCEPT ![o] = "live"]
          /\ \A q \in Owners \ {o} : ~Inside(q)
          /\ UNCHANGED <<cleared, point>>
      BY <1>2 DEF NewStep, MayStart
    <2>2. \A q \in Owners : ~Inside(q)'
      BY <2>1 DEF TypeOK
    <2> QED
      BY <2>1, <2>2, HeadBottom DEF SequentialInv
  <1>3. ASSUME NEW o \in Owners, NewTask(o) PROVE SequentialInv'
    <2>1. /\ phase[o] = "new" /\ Insert(HeadOf(o)) /\ phase' = [phase EXCEPT ![o] = "building"]
          /\ \A q \in Owners \ {o} : ~Inside(q)
          /\ point' = [point EXCEPT ![o] = HeadOf(o)]
          /\ UNCHANGED cleared
      BY <1>3 DEF NewTask, MayStart
    <2>2. \A q \in Owners : Inside(q)' => q = o
      BY <2>1 DEF TypeOK
    <2>3. anchor' = HeadOf(o) /\ point'[o] = HeadOf(o)
      BY <2>1, HeadType, InsertPlaces DEF TypeOK
    <2> QED
      BY <2>1, <2>2, <2>3, HeadBottom DEF SequentialInv
  <1>4. ASSUME NEW o \in Owners, NewChild(o) PROVE SequentialInv'
    <2>1. PICK kind \in {"stage", "extra"} :
             /\ phase[o] = "building" /\ InsertAfter(point[o], Fresh(o, kind))
             /\ point' = [point EXCEPT ![o] = Fresh(o, kind)]
             /\ UNCHANGED <<cleared, phase>>
      BY <1>4 DEF NewChild
    <2>2. point[o] \in ToSet(lines) /\ point[o].owner = o /\ point[o] \notin cleared
      BY <2>1 DEF PointInv, ClearedInv
    <2>3. anchor' = Fresh(o, kind) /\ point'[o] = Fresh(o, kind)
      BY <2>1, <2>2, FreshType, InsertAfterPlaces DEF SequentialInv, TypeOK
    <2>4. NothingBelow'
      BY <2>1, <2>2, BelowBottom DEF SequentialInv
    <2> QED
      BY <2>1, <2>3, <2>4 DEF SequentialInv
  <1>5. ASSUME NEW o \in Owners, FinishBuild(o) PROVE SequentialInv'
    <2>1. /\ phase[o] = "building" /\ anchor' = point[o] /\ anchor' = anchor
          /\ phase' = [phase EXCEPT ![o] = "live"]
          /\ UNCHANGED <<lines, cleared, point>>
      BY <1>5 DEF FinishBuild, SetAnchor, SequentialInv
    <2> QED
      BY <2>1 DEF SequentialInv, NothingBelow, Visible, TypeOK
  <1>6. ASSUME NEW o \in Owners, Fails(o) PROVE SequentialInv'
    <2>1. /\ phase[o] = "live" /\ \A q \in Owners \ {o} : ~Inside(q)
          /\ UNCHANGED <<cleared, phase, point>>
      BY <1>6 DEF Fails, MayStart
    <2>2. PICK l \in ToSet(lines) : l.owner = o /\ InsertAfter(l, Fresh(o, "report"))
      BY <1>6 DEF Fails, Report
    <2>3. l \notin cleared
      BY <2>1, <2>2 DEF ClearedInv
    <2>4. NothingBelow'
      BY <2>1, <2>2, <2>3, BelowBottom DEF SequentialInv
    <2> QED
      BY <2>1, <2>4 DEF SequentialInv
  <1>7. ASSUME NEW o \in Owners, Completes(o) PROVE SequentialInv'
    <2>1. /\ phase' = [phase EXCEPT ![o] = "tidying"]
          /\ \A q \in Owners \ {o} : ~Inside(q)
          /\ cleared \subseteq cleared' /\ UNCHANGED <<lines, anchor, point>>
      BY <1>7 DEF Completes, MayStart
    <2>2. \A q \in Owners : Inside(q)' => q = o
      BY <2>1 DEF TypeOK
    <2>3. phase'[o] # "building"
      BY <2>1 DEF TypeOK
    <2>4. NothingBelow'
      BY <2>1 DEF SequentialInv, NothingBelow, Visible
    <2> QED
      BY <2>2, <2>3, <2>4 DEF SequentialInv
  <1>8. ASSUME NEW o \in Owners, Tidies(o) PROVE SequentialInv'
    <2>1. phase[o] = "tidying" /\ phase' = [phase EXCEPT ![o] = "gone"]
      BY <1>8 DEF Tidies
    <2>2. \A q \in Owners : ~Inside(q)'
      BY <2>1 DEF SequentialInv, TypeOK
    <2> QED
      BY <1>8, <2>2, TidiesBottom DEF SequentialInv
  <1>9. ASSUME NEW o \in Owners,
               FailsAsAWhole(o) \/ FailsNextStage(o) \/ FailsHead(o) \/ Clears(o)
        PROVE  FALSE
    BY <1>9 DEF FailsAsAWhole, FailsNextStage, FailsHead, Clears, BlocksInv
  <1> QED
    BY <1>1, <1>2, <1>3, <1>4, <1>5, <1>6, <1>7, <1>8, <1>9 DEF Next

-----------------------------------------------------------------------------
(* The theorems.                                                           *)

\* An empty layout satisfies the invariant.
LEMMA InitInv == Init => IInv
  <1> SUFFICES ASSUME Init PROVE IInv
    OBVIOUS
  <1> USE DEF Init
  <1>1. ToSet(lines) = {} /\ DOMAIN lines = {} /\ lines \in Seq(Line) /\ IsInjective(lines)
    BY DEF ToSet, IsInjective
  <1>2. TypeOK
    BY <1>1, HeadType DEF TypeOK, Phases
  <1>3. BaseInv
    BY <1>1, <1>2 DEF BaseInv, LinesInv, PointInv, ClearedInv, AnchorInv, AnchorOnScreen
  <1>4. BlocksInv
    BY <1>1 DEF BlocksInv, Together
  <1>5. SequentialInv
    BY <1>1 DEF SequentialInv, NothingBelow
  <1> QED
    BY <1>3, <1>4, <1>5 DEF IInv

\* Every step preserves the invariant.
LEMMA NextInv == IInv /\ [Next]_vars => IInv'
  <1> SUFFICES ASSUME IInv, [Next]_vars PROVE IInv'
    OBVIOUS
  <1>1. bulkFail' = bulkFail /\ concurrent' = concurrent
    BY DEF Next, vars, useVars
  <1> QED
    BY <1>1, NextBase, NextBlocks, NextSequential DEF IInv

(* The inductive invariant of any number of owners, with as many lines as  *)
(* one likes, built, failed and tidied away in any order.                  *)
THEOREM Inductive == Spec => []IInv
  BY InitInv, NextInv, PTL DEF Spec

(* Every line is placed once, also by threads that build and fail at the   *)
(* same time: no two lines get the same number.                            *)
THEOREM TypeCorrect == Spec => []TypeOK
  <1>1. IInv => TypeOK
    BY DEF IInv, BaseInv
  <1> QED
    BY <1>1, Inductive, PTL

(* The anchor is never left on a line that has been cleared, except while  *)
(* clear_children has not come to its end.                                 *)
THEOREM AnchorStaysOnScreen == Spec => []AnchorOnScreen
  <1>1. IInv => AnchorOnScreen
    BY DEF IInv, BaseInv
  <1> QED
    BY <1>1, Inductive, PTL

(* A task and its subtasks and reports stay together on the screen, as     *)
(* long as no task with stages, groups or spacers is failed as a whole:    *)
(* the report of such a task stays below its head, where the anchor falls  *)
(* back to, so that the next line comes in between.                        *)
THEOREM BlocksStayTogether == Spec => []Contiguous
  <1>1. ASSUME IInv, ~bulkFail, NEW i \in DOMAIN lines, NEW j \in DOMAIN lines,
               i < j, Visible(i), Visible(j), lines[i].owner = lines[j].owner
        PROVE  /\ \A k \in i..j : Visible(k) => lines[k].owner = lines[i].owner
               /\ lines[j].kind # "head"
    <2>1. BaseInv /\ BlocksInv /\ TypeOK
      BY <1>1 DEF IInv, BaseInv
    <2>2. lines[j].kind # "head"
      BY <1>1, <2>1 DEF BaseInv, LinesInv
    <2>3. lines[j] \in ToSet(lines) /\ lines[j].owner \in Owners
      BY <2>1, LineType DEF ToSet
    <2>4. phase[lines[j].owner] \notin {"new", "failing", "clearing"}
      BY <2>1, <2>3 DEF BaseInv, LinesInv, BlocksInv
    <2>5. phase[lines[j].owner] \notin {"tidying", "gone"}
      <3>1. lines[j] \in ChildrenOf(lines[j].owner)
        BY <2>2, <2>3 DEF ChildrenOf
      <3> QED
        BY <1>1, <2>1, <2>3, <3>1 DEF BlocksInv, Visible
    <2>6. Active(lines[i].owner)
      BY <1>1, <2>1, <2>3, <2>4, <2>5 DEF Active, TypeOK, Phases
    <2> QED
      BY <1>1, <2>1, <2>2, <2>6 DEF BlocksInv, Together
  <1>2. IInv => Contiguous
    BY <1>1 DEF Contiguous
  <1> QED
    BY <1>2, Inductive, PTL

(* What is built later is shown lower, in a run where calls do not overlap *)
(* and no task with stages, groups or spacers is failed as a whole: such a *)
(* failure leaves a report below the anchor without any overlap.           *)
THEOREM NewLinesGoToTheBottom == Spec => []NothingBelowAnchor
  <1>1. ASSUME IInv, ~concurrent, ~bulkFail, NEW l \in ToSet(lines) \ cleared
        PROVE  Position(l) <= Position(anchor)
    <2>1. TypeOK /\ NothingBelow /\ AnchorInv
      BY <1>1 DEF IInv, BaseInv, SequentialInv
    <2>2. PICK j \in DOMAIN lines : lines[j] = l
      BY DEF ToSet
    <2>3. lines # <<>>
      BY <2>1, <2>2, LenProperties DEF TypeOK
    <2>4. PICK a \in DOMAIN lines : lines[a] = anchor
      BY <2>1, <2>3 DEF TypeOK, AnchorInv, ToSet
    <2>5. Position(l) = j /\ Position(anchor) = a
      BY <2>1, <2>2, <2>4, PositionIs DEF TypeOK
    <2> QED
      BY <2>1, <2>2, <2>4, <2>5 DEF NothingBelow, Visible
  <1>2. IInv => NothingBelowAnchor
    BY <1>1 DEF NothingBelowAnchor
  <1> QED
    BY <1>2, Inductive, PTL
=============================================================================
