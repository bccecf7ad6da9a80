--------------------------- MODULE FollowTailProofs ---------------------------
(***************************************************************************)
(* Proofs about "Follow newest", for any page, capacity, batches and       *)
(* number of steps.                                                        *)
(*                                                                         *)
(* TailShownOrCounted is not inductive.  FollowInv adds that the log is    *)
(* numbered without a gap, that the view agrees with the rows laid out     *)
(* (Settled: its edge state, its count and the bounds of its scroll bar),  *)
(* that the missed rows were delivered, and that a user who browses left   *)
(* no mark behind.  The slots are shown once, for any state they can be    *)
(* called in (parts 2 to 4), and the actions are put together from them.   *)
(***************************************************************************)
EXTENDS FollowTail, SequenceTheorems, FiniteSetTheorems, WellFoundedInduction, TLAPS

-----------------------------------------------------------------------------
(* 1. The display order.                                                   *)

Row == [id : Nat \ {0}, ok : BOOLEAN, key : Int]
Way == [rev : BOOLEAN, sorted : BOOLEAN, filtered : BOOLEAN]

(* Rows that can be laid out: no two have an id in common.                 *)
Distinct(S) ==
    /\ IsFiniteSet(S) /\ S \subseteq Row
    /\ \A a, b \in S : a.id = b.id => a = b

Place(S, w, r) == Cardinality(Above(S, w, r))

(* The order of the proxies is a strict total order of the rows.           *)
LEMMA TotalOrder ==
    ASSUME NEW S, S \subseteq Row, \A a, b \in S : a.id = b.id => a = b, NEW w \in Way
    PROVE  /\ \A a \in S : ~Before(w, a, a)
           /\ \A a, b \in S : a # b => Before(w, a, b) \/ Before(w, b, a)
           /\ \A a, b, c \in S : Before(w, a, b) /\ Before(w, b, c) => Before(w, a, c)
<1>1. ASSUME NEW a \in S PROVE a.id \in Nat /\ a.key \in Int
  BY DEF Row
<1>2. \A a \in S : ~Before(w, a, a)
  BY <1>1 DEF Before, Earlier
<1>3. \A a, b \in S : a # b => Before(w, a, b) \/ Before(w, b, a)
  BY <1>1 DEF Before, Earlier
<1>4. \A a, b, c \in S : Before(w, a, b) /\ Before(w, b, c) => Before(w, a, c)
  BY <1>1 DEF Before, Earlier
<1> QED BY <1>2, <1>3, <1>4

LEMMA AboveFinite ==
    ASSUME NEW S, Distinct(S), NEW w \in Way, NEW r
    PROVE  IsFiniteSet(Above(S, w, r)) /\ Place(S, w, r) \in Nat /\ Above(S, w, r) \subseteq S
<1>1. Above(S, w, r) \in SUBSET S
  BY DEF Above
<1> QED BY <1>1, FS_Subset, FS_CardinalityType DEF Distinct, Place

(* The rows above a row are a row fewer than those above the next.         *)
LEMMA PlacesInOrder ==
    ASSUME NEW S, Distinct(S), NEW w \in Way, NEW a \in S, NEW b \in S, Before(w, a, b)
    PROVE  Place(S, w, a) < Place(S, w, b)
<1>1. Above(S, w, a) \in SUBSET Above(S, w, b)
  BY TotalOrder DEF Above, Distinct
<1>2. a \in Above(S, w, b) /\ a \notin Above(S, w, a)
  BY TotalOrder DEF Above, Distinct
<1>3. /\ Place(S, w, a) <= Place(S, w, b)
      /\ Place(S, w, a) = Place(S, w, b) => Above(S, w, b) = Above(S, w, a)
  BY <1>1, AboveFinite, FS_Subset DEF Place
<1> QED BY <1>2, <1>3, AboveFinite

(* Every place from the first to the last is that of exactly one row.      *)
LEMMA PlacesFilled ==
    ASSUME NEW S, Distinct(S), NEW w \in Way
    PROVE  /\ Cardinality(S) \in Nat
           /\ \A r \in S : Place(S, w, r) \in 0 .. (Cardinality(S) - 1)
           /\ \A a, b \in S : Place(S, w, a) = Place(S, w, b) => a = b
           /\ \A i \in 0 .. (Cardinality(S) - 1) : \E r \in S : Place(S, w, r) = i
<1> DEFINE n == Cardinality(S)
           f == [r \in S |-> Place(S, w, r)]
<1>1. n \in Nat
  BY FS_CardinalityType DEF Distinct
<1>2. ASSUME NEW r \in S PROVE Place(S, w, r) \in 0 .. (n - 1)
  <2>1. Above(S, w, r) \in SUBSET (S \ {r})
    BY TotalOrder DEF Above, Distinct
  <2>2. IsFiniteSet(S \ {r}) /\ Cardinality(S \ {r}) = n - 1
    BY FS_RemoveElement DEF Distinct
  <2>3. Place(S, w, r) <= n - 1
    BY <2>1, <2>2, FS_Subset DEF Place
  <2> QED BY <1>1, <2>3, AboveFinite
<1>3. \A a, b \in S : Place(S, w, a) = Place(S, w, b) => a = b
  <2> SUFFICES ASSUME NEW a \in S, NEW b \in S, a # b PROVE Place(S, w, a) # Place(S, w, b)
    OBVIOUS
  <2>1. Before(w, a, b) \/ Before(w, b, a)
    BY TotalOrder DEF Distinct
  <2>2. Place(S, w, a) < Place(S, w, b) \/ Place(S, w, b) < Place(S, w, a)
    BY <2>1, PlacesInOrder
  <2> QED BY <2>2, AboveFinite
<1>4. f \in Injection(S, 0 .. (n - 1))
  BY <1>2, <1>3 DEF Injection, IsInjective
<1>5. IsFiniteSet(0 .. (n - 1)) /\ Cardinality(0 .. (n - 1)) = n
  <2>1. 0 \in Int /\ n - 1 \in Int
    BY <1>1
  <2>2. IsFiniteSet(0 .. (n - 1)) /\ Cardinality(0 .. (n - 1)) = IF 0 > n - 1 THEN 0 ELSE n - 1 - 0 + 1
    BY <2>1, FS_Interval
  <2> QED BY <2>2, <1>1
<1>6. f \in Surjection(S, 0 .. (n - 1))
  BY <1>4, <1>5, FS_Injection
<1>7. \A i \in 0 .. (n - 1) : \E r \in S : Place(S, w, r) = i
  BY <1>6 DEF Surjection
<1> QED BY <1>1, <1>2, <1>3, <1>7

(* What Display lays out: the row with i - 1 rows above it at place i.     *)
Laid(d, S, w) ==
    /\ Len(d) = Cardinality(S) /\ Len(d) \in Nat /\ DOMAIN d = 1 .. Len(d) /\ d \in Seq(S)
    /\ \A i \in 1 .. Len(d) : d[i] \in S /\ Place(S, w, d[i]) = i - 1
    /\ \A r \in S : /\ Place(S, w, r) + 1 \in 1 .. Len(d) /\ d[Place(S, w, r) + 1] = r
                    /\ Shows(d, r.id) /\ Position(d, r.id) = Place(S, w, r) + 1
    /\ \A x : Shows(d, x) => \E r \in S : r.id = x
    /\ d = <<>> <=> S = {}

LEMMA LaidOut ==
    ASSUME NEW rows, NEW w \in Way, Distinct(Accepted(rows, w))
    PROVE  Laid(Display(rows, w), Accepted(rows, w), w)
<1> DEFINE S == Accepted(rows, w)
           d == Display(rows, w)
           n == Cardinality(S)
<1>1. n \in Nat
  BY PlacesFilled
<1>2. d = [i \in 1 .. n |-> CHOOSE r \in S : Place(S, w, r) = i - 1]
  BY DEF Display, Place
<1>9. Distinct(S)
  OBVIOUS
<1> HIDE DEF S, d
<1>3. ASSUME NEW i \in 1 .. n PROVE d[i] \in S /\ Place(S, w, d[i]) = i - 1
  <2>1. i - 1 \in 0 .. (n - 1)
    BY <1>1
  <2>2. \E r \in S : Place(S, w, r) = i - 1
    BY <1>9, <2>1, PlacesFilled
  <2> QED BY <1>2, <2>2
<1>4. d \in [1 .. n -> S] /\ DOMAIN d = 1 .. n
  BY <1>2, <1>3
<1>5. Len(d) = n /\ d \in Seq(S)
  BY <1>1, <1>4, LenProperties, SeqDef
<1>6. ASSUME NEW r \in S
      PROVE  /\ Place(S, w, r) + 1 \in 1 .. n /\ d[Place(S, w, r) + 1] = r
             /\ Shows(d, r.id) /\ Position(d, r.id) = Place(S, w, r) + 1
  <2>1. Place(S, w, r) \in 0 .. (n - 1)
    BY <1>9, PlacesFilled
  <2>2. Place(S, w, r) + 1 \in 1 .. n /\ (Place(S, w, r) + 1) - 1 = Place(S, w, r)
    BY <1>1, <2>1
  <2>3. d[Place(S, w, r) + 1] = r
    BY <1>3, <1>9, <2>2, PlacesFilled
  <2>4. \A j \in DOMAIN d : d[j].id = r.id => j = Place(S, w, r) + 1
    <3> SUFFICES ASSUME NEW j \in 1 .. n, d[j].id = r.id PROVE j = Place(S, w, r) + 1
      BY <1>4
    <3>1. d[j] = r /\ Place(S, w, r) = j - 1
      BY <1>3, <1>9 DEF Distinct
    <3> QED BY <3>1, <2>1
  <2>5. Shows(d, r.id) /\ Position(d, r.id) = Place(S, w, r) + 1
    BY <1>4, <2>2, <2>3, <2>4 DEF Shows, Position
  <2> QED BY <2>2, <2>3, <2>5
<1>7. \A x : Shows(d, x) => \E r \in S : r.id = x
  BY <1>3, <1>4 DEF Shows
<1>8. d = <<>> <=> S = {}
  <2>1. n = 0 <=> S = {}
    BY <1>9, FS_EmptySet DEF Distinct
  <2>2. d = <<>> <=> Len(d) = 0
    BY <1>5, EmptySeq
  <2> QED BY <2>1, <2>2, <1>5
<1>10. Laid(d, S, w)
  BY <1>1, <1>3, <1>4, <1>5, <1>6, <1>7, <1>8 DEF Laid
<1> QED BY <1>10 DEF S, d

-----------------------------------------------------------------------------
(* 2. The view's slots.                                                    *)

View == [value : Nat, edge : {"top", "bottom"}, atTail : BOOLEAN,
         pending : Nat, quiet : BOOLEAN, user : BOOLEAN]
State == [n : Nat, view : View, follow : BOOLEAN]

(* The cached edge state is that of the scroll bar, and the pill is silent *)
(* at the tail and while Follow is mirrored into the view.                 *)
Agrees(s) ==
    /\ s \in State
    /\ s.view.atTail = ComputeAtTailEdge(s.view.edge, s.view.value, s.n)
    /\ s.view.atTail \/ s.view.quiet => s.view.pending = 0

Settled(s) == Agrees(s) /\ s.view.value <= MaxValue(s.n)

(* What a slot may do to the rest: the mark of the user is only removed,   *)
(* Follow changes only when it is, to what the edge then is, and the count *)
(* is only dropped.                                                        *)
Moved(s, t) ==
    /\ t.view.edge = s.view.edge
    /\ t.view.user => s.view.user
    /\ \/ t.follow = s.follow /\ t.view.quiet = s.view.quiet
       \/ /\ s.view.user /\ ~t.view.user
          /\ t.follow = t.view.atTail /\ t.view.quiet = t.view.atTail
    /\ \/ t.view.pending = s.view.pending
       \/ t.view.pending = 0 /\ (t.view.atTail \/ t.view.quiet)

LEMMA Bounded ==
    ASSUME NEW n \in Nat, NEW x \in Int
    PROVE  /\ MaxValue(n) \in Nat /\ Clamp(x, n) \in 0 .. MaxValue(n)
           /\ x \in 0 .. MaxValue(n) => Clamp(x, n) = x
           /\ Page \in Nat \ {0} /\ (n > 0 => MaxValue(n) < n)
           /\ n > Page => MaxValue(n) = n - Page
           /\ n <= Page => MaxValue(n) = 0
BY TailAssumption DEF MaxValue, Clamp

LEMMA EdgeIsBoolean ==
    ASSUME NEW e, NEW v \in Nat, NEW n
    PROVE  ComputeAtTailEdge(e, v, n) \in BOOLEAN
<1>1. CASE e = "bottom" /\ v >= MaxValue(n)
  <2>1. ComputeAtTailEdge(e, v, n) = TRUE
    BY <1>1 DEF ComputeAtTailEdge
  <2> QED BY <2>1
<1>2. CASE e = "bottom" /\ ~(v >= MaxValue(n))
  <2>1. ComputeAtTailEdge(e, v, n) = FALSE
    BY <1>2 DEF ComputeAtTailEdge
  <2> QED BY <2>1
<1>3. CASE e # "bottom" /\ v <= 0
  <2>1. ComputeAtTailEdge(e, v, n) = TRUE
    BY <1>3 DEF ComputeAtTailEdge
  <2> QED BY <2>1
<1>4. CASE e # "bottom" /\ ~(v <= 0)
  <2>1. ComputeAtTailEdge(e, v, n) = FALSE
    BY <1>4 DEF ComputeAtTailEdge
  <2> QED BY <2>1
<1> QED BY <1>1, <1>2, <1>3, <1>4

LEMMA FollowSet ==
    ASSUME NEW s, Agrees(s), NEW on \in BOOLEAN, NEW t, t = SetFollow(s, on)
    PROVE  /\ Agrees(t) /\ t.n = s.n /\ t.follow = on
           /\ t.view.value = s.view.value /\ t.view.edge = s.view.edge
           /\ t.view.atTail = s.view.atTail /\ t.view.user = s.view.user
           /\ t.view.quiet = IF s.follow = on THEN s.view.quiet ELSE on
           /\ t.view.pending = s.view.pending \/ (t.view.pending = 0 /\ t.view.quiet)
<1>1. CASE s.follow = on
  BY <1>1 DEF SetFollow
<1>2. CASE s.follow # on /\ s.view.quiet = on
  <2>1. t = [s EXCEPT !.follow = on]
    BY <1>2 DEF SetFollow, SetPendingNewRowsSuppressed, Agrees, State, View
  <2> QED BY <1>2, <2>1 DEF Agrees, State, View
<1>3. CASE s.follow # on /\ s.view.quiet # on
  <2>1. t = [s EXCEPT !.follow = on, !.view = [s.view EXCEPT !.quiet = on, !.pending = IF on THEN 0 ELSE s.view.pending]]
    BY <1>3 DEF SetFollow, SetPendingNewRowsSuppressed, Agrees, State, View
  <2>2. s.view \in View /\ s \in State
    BY DEF Agrees, State
  <2> DEFINE w == [s.view EXCEPT !.quiet = on, !.pending = IF on THEN 0 ELSE s.view.pending]
  <2>3. /\ w \in View /\ w.value = s.view.value /\ w.edge = s.view.edge /\ w.atTail = s.view.atTail
        /\ w.user = s.view.user /\ w.quiet = on /\ w.pending = IF on THEN 0 ELSE s.view.pending
    <3>1. (IF on THEN 0 ELSE s.view.pending) \in Nat
      BY <2>2 DEF View
    <3> QED BY <3>1, <2>2 DEF View
  <2>4. t \in State /\ t.view = w /\ t.n = s.n /\ t.follow = on
    <3> HIDE DEF w
    <3> QED BY <2>1, <2>2, <2>3 DEF w, State
  <2> HIDE DEF w
  <2>5. t.view.atTail = ComputeAtTailEdge(t.view.edge, t.view.value, t.n)
    BY <2>3, <2>4 DEF Agrees
  <2> QED BY <1>3, <2>3, <2>4, <2>5 DEF Agrees
<1> QED BY <1>1, <1>2, <1>3

LEMMA ValueChanged ==
    ASSUME NEW s, Agrees(s), NEW v \in Nat, v <= MaxValue(s.n), NEW t, t = OnVerticalScrollValueChanged(s, v)
    PROVE  /\ Settled(t) /\ t.n = s.n /\ t.view.value = v /\ Moved(s, t)
           /\ t.follow # s.follow \/ t.view.quiet # s.view.quiet => t.view.atTail # s.view.atTail
           /\ ~t.view.user
<1> DEFINE at == ComputeAtTailEdge(s.view.edge, v, s.n)
           seen == [s EXCEPT !.view.value = v, !.view.user = FALSE]
           m == [seen EXCEPT !.view.atTail = at, !.view.pending = IF at THEN 0 ELSE @]
<1>1. at \in BOOLEAN
  BY EdgeIsBoolean
<1>2. t = IF at = s.view.atTail THEN seen ELSE IF s.view.user THEN UserScrolled(m, at) ELSE m
  BY DEF OnVerticalScrollValueChanged
<1>3. CASE at = s.view.atTail
  <2>1. t = seen
    BY <1>2, <1>3
  <2>2. /\ t \in State /\ t.n = s.n /\ t.view.value = v /\ t.view.edge = s.view.edge
        /\ t.view.atTail = s.view.atTail /\ t.view.pending = s.view.pending
        /\ t.view.quiet = s.view.quiet /\ ~t.view.user /\ t.follow = s.follow
    <3>1. s.view \in View /\ s \in State
      BY DEF Agrees, State
    <3>2. t.view = [s.view EXCEPT !.value = v, !.user = FALSE] /\ t.n = s.n /\ t.follow = s.follow
      BY <2>1, <3>1 DEF State
    <3>3. t = [n |-> t.n, view |-> t.view, follow |-> t.follow]
      BY <2>1, <3>1 DEF State
    <3>4. /\ t.view \in View /\ t.view.value = v /\ t.view.edge = s.view.edge
          /\ t.view.atTail = s.view.atTail /\ t.view.pending = s.view.pending
          /\ t.view.quiet = s.view.quiet /\ t.view.user = FALSE
      BY <3>1, <3>2 DEF View
    <3>5. t \in State
      BY <3>1, <3>2, <3>3, <3>4 DEF State
    <3> QED BY <3>2, <3>4, <3>5
  <2>3. t.view.atTail = ComputeAtTailEdge(t.view.edge, t.view.value, t.n)
    BY <1>3, <2>2
  <2> QED BY <2>2, <2>3 DEF Agrees, Settled, Moved
<1>4. /\ Agrees(m) /\ m.n = s.n /\ m.view.value = v /\ m.view.atTail = at /\ ~m.view.user
      /\ m.view.edge = s.view.edge /\ m.follow = s.follow /\ m.view.quiet = s.view.quiet
      /\ m.view.pending = s.view.pending \/ (m.view.pending = 0 /\ at)
  <2> HIDE DEF at
  <2>1. m \in State /\ m.n = s.n /\ m.view.value = v /\ m.view.atTail = at /\ ~m.view.user
        /\ m.view.edge = s.view.edge /\ m.follow = s.follow /\ m.view.quiet = s.view.quiet
        /\ m.view.pending = IF at THEN 0 ELSE s.view.pending
    BY <1>1 DEF Agrees, State, View
  <2>2. m.view.atTail = ComputeAtTailEdge(m.view.edge, m.view.value, m.n)
    BY <2>1 DEF at
  <2> QED BY <2>1, <2>2 DEF Agrees
<1>5. CASE at # s.view.atTail /\ ~s.view.user
  <2>1. t = m
    BY <1>2, <1>5
  <2> HIDE DEF m, at
  <2> QED BY <2>1, <1>4, <1>5 DEF Settled, Moved
<1>6. CASE at # s.view.atTail /\ s.view.user
  <2>1. t = m \/ t = SetFollow(m, at)
    <3> HIDE DEF m, at
    <3> QED BY <1>2, <1>6 DEF UserScrolled
  <2>2. CASE t = m
    <3> HIDE DEF m, at
    <3> QED BY <2>2, <1>4, <1>6 DEF Settled, Moved
  <2>3. CASE t = SetFollow(m, at)
    <3>1. /\ Agrees(t) /\ t.n = m.n /\ t.follow = at
          /\ t.view.value = m.view.value /\ t.view.edge = m.view.edge
          /\ t.view.atTail = m.view.atTail /\ t.view.user = m.view.user
          /\ t.view.quiet = IF m.follow = at THEN m.view.quiet ELSE at
          /\ t.view.pending = m.view.pending \/ (t.view.pending = 0 /\ t.view.quiet)
      <4> HIDE DEF m, at
      <4> QED BY <1>1, <1>4, <2>3, FollowSet
    <3> HIDE DEF m, at
    <3> QED BY <3>1, <1>4, <1>6 DEF Settled, Moved
  <2> QED BY <2>1, <2>2, <2>3
<1> QED BY <1>3, <1>5, <1>6

LEMMA ValueSet ==
    ASSUME NEW s, Agrees(s), NEW x \in Int, NEW t, t = SetValue(s, x)
    PROVE  /\ Settled(t) /\ t.n = s.n /\ t.view.value = Clamp(x, s.n) /\ Moved(s, t)
           /\ t.follow # s.follow \/ t.view.quiet # s.view.quiet => t.view.atTail # s.view.atTail
<1>1. s.n \in Nat
  BY DEF Agrees, State
<1>2. Clamp(x, s.n) \in Nat /\ Clamp(x, s.n) <= MaxValue(s.n)
  <2>1. MaxValue(s.n) \in Nat /\ Clamp(x, s.n) \in 0 .. MaxValue(s.n)
    BY <1>1, Bounded
  <2> QED BY <2>1
<1>3. CASE Clamp(x, s.n) = s.view.value
  BY <1>2, <1>3 DEF SetValue, Settled, Moved
<1>4. CASE Clamp(x, s.n) # s.view.value
  <2>1. t = OnVerticalScrollValueChanged(s, Clamp(x, s.n))
    BY <1>4 DEF SetValue
  <2> QED BY <1>2, <2>1, ValueChanged
<1> QED BY <1>3, <1>4

LEMMA RangeChanged ==
    ASSUME NEW s \in State, s.view.atTail \/ s.view.quiet => s.view.pending = 0,
           NEW t, t = OnVerticalScrollRangeChanged(s)
    PROVE  /\ Agrees(t) /\ t.n = s.n /\ t.follow = s.follow
           /\ t.view.value = s.view.value /\ t.view.edge = s.view.edge
           /\ t.view.quiet = s.view.quiet /\ t.view.user = s.view.user
           /\ t.view.pending = s.view.pending \/ (t.view.pending = 0 /\ t.view.atTail)
<1> DEFINE at == ComputeAtTailEdge(s.view.edge, s.view.value, s.n)
<1>1. s.view \in View /\ at \in BOOLEAN
  BY EdgeIsBoolean DEF State, View
<1>2. CASE at = s.view.atTail
  <2>1. t = s
    BY <1>2 DEF OnVerticalScrollRangeChanged
  <2> QED BY <1>2, <2>1 DEF Agrees
<1>3. CASE at # s.view.atTail
  <2> DEFINE v == [s.view EXCEPT !.atTail = at, !.pending = IF at THEN 0 ELSE s.view.pending]
  <2>1. t = [s EXCEPT !.view = v]
    <3>1. t = [s EXCEPT !.view.atTail = at, !.view.pending = IF at THEN 0 ELSE @]
      BY <1>3 DEF OnVerticalScrollRangeChanged
    <3> HIDE DEF at
    <3> QED BY <3>1, <1>1 DEF State
  <2>2. /\ v \in View /\ v.value = s.view.value /\ v.edge = s.view.edge /\ v.atTail = at
        /\ v.user = s.view.user /\ v.quiet = s.view.quiet /\ v.pending = IF at THEN 0 ELSE s.view.pending
    <3> HIDE DEF at
    <3>1. (IF at THEN 0 ELSE s.view.pending) \in Nat
      BY <1>1 DEF View
    <3> QED BY <3>1, <1>1 DEF View
  <2>3. t \in State /\ t.view = v /\ t.n = s.n /\ t.follow = s.follow
    <3> HIDE DEF v
    <3> QED BY <2>1, <2>2 DEF State
  <2>4. t.view.atTail = ComputeAtTailEdge(t.view.edge, t.view.value, t.n)
    <3> HIDE DEF v
    <3> QED BY <2>2, <2>3
  <2> HIDE DEF v, at
  <2> QED BY <1>1, <2>2, <2>3, <2>4 DEF Agrees
<1> QED BY <1>2, <1>3

LEMMA RangeSet ==
    ASSUME NEW s, Settled(s), NEW n \in Nat, NEW t, t = SetRange(s, n)
    PROVE  /\ Settled(t) /\ t.n = n /\ t.view.value = Clamp(s.view.value, n) /\ Moved(s, t)
           /\ t.follow # s.follow \/ t.view.quiet # s.view.quiet => t.view.atTail
           /\ Clamp(s.view.value, n) = s.view.value =>
                 t.follow = s.follow /\ t.view.quiet = s.view.quiet /\ t.view.user = s.view.user
<1> DEFINE grown == [s EXCEPT !.n = n]
           v == s.view.value
<1>1. /\ grown \in State /\ grown.view = s.view /\ grown.n = n /\ grown.follow = s.follow
      /\ s.view \in View /\ v \in Nat /\ v <= MaxValue(s.n) /\ s.n \in Nat
  BY DEF Settled, Agrees, State, View
<1>2. CASE MaxValue(n) = MaxValue(s.n)
  <2>1. t = grown
    BY <1>2 DEF SetRange
  <2>2. Clamp(v, n) = v
    <3>1. v \in 0 .. MaxValue(n)
      BY <1>1, <1>2, Bounded
    <3> HIDE DEF v
    <3> QED BY <3>1, Bounded
  <2>3. t.view.atTail = ComputeAtTailEdge(t.view.edge, t.view.value, t.n)
    <3>1. s.view.atTail = ComputeAtTailEdge(s.view.edge, v, s.n)
      BY DEF Settled, Agrees
    <3> HIDE DEF grown
    <3> QED BY <2>1, <1>1, <1>2, <3>1 DEF ComputeAtTailEdge
  <2> HIDE DEF grown
  <2> QED BY <1>1, <1>2, <2>1, <2>2, <2>3 DEF Settled, Agrees, Moved
<1>3. CASE MaxValue(n) # MaxValue(s.n)
  <2> DEFINE mid == OnVerticalScrollRangeChanged(grown)
  <2>1. t = SetValue(mid, v)
    BY <1>1, <1>3 DEF SetRange
  <2>2. /\ Agrees(mid) /\ mid.n = n /\ mid.follow = s.follow
        /\ mid.view.value = v /\ mid.view.edge = s.view.edge
        /\ mid.view.quiet = s.view.quiet /\ mid.view.user = s.view.user
        /\ mid.view.pending = s.view.pending \/ (mid.view.pending = 0 /\ mid.view.atTail)
    <3>1. grown.view.atTail \/ grown.view.quiet => grown.view.pending = 0
      BY <1>1 DEF Settled, Agrees
    <3> HIDE DEF grown, mid
    <3> QED BY <1>1, <3>1, RangeChanged DEF mid
  <2> HIDE DEF mid, grown
  <2>3. /\ Settled(t) /\ t.n = mid.n /\ t.view.value = Clamp(v, mid.n) /\ Moved(mid, t)
        /\ t.follow # mid.follow \/ t.view.quiet # mid.view.quiet => t.view.atTail # mid.view.atTail
    BY <1>1, <2>1, <2>2, ValueSet
  <2>4. mid.view.atTail => t.view.atTail
    <3>1. mid.view.atTail = ComputeAtTailEdge(s.view.edge, v, n)
      BY <2>2 DEF Agrees
    <3>2. t.view.atTail = ComputeAtTailEdge(s.view.edge, Clamp(v, n), n)
      BY <2>2, <2>3 DEF Settled, Agrees, Moved
    <3>3. /\ v >= MaxValue(n) => Clamp(v, n) >= MaxValue(n)
          /\ v <= 0 => Clamp(v, n) <= 0
      BY <1>1, TailAssumption DEF Clamp, MaxValue
    <3> QED BY <3>1, <3>2, <3>3 DEF ComputeAtTailEdge
  <2>5. mid.view.atTail \in BOOLEAN /\ t.view.atTail \in BOOLEAN
    BY <2>2, <2>3 DEF Settled, Agrees, State, View
  <2>6. t.view.atTail # mid.view.atTail => t.view.atTail
    BY <2>4, <2>5
  <2>7. t.follow # s.follow \/ t.view.quiet # s.view.quiet => t.view.atTail
    BY <2>2, <2>3, <2>6
  <2>8. Moved(s, t)
    <3>1. t.view.edge = s.view.edge /\ (t.view.user => s.view.user)
      BY <2>2, <2>3 DEF Moved
    <3>2. \/ t.follow = s.follow /\ t.view.quiet = s.view.quiet
          \/ /\ s.view.user /\ ~t.view.user
             /\ t.follow = t.view.atTail /\ t.view.quiet = t.view.atTail
      BY <2>2, <2>3 DEF Moved
    <3>3. t.view.pending = s.view.pending \/ (t.view.pending = 0 /\ (t.view.atTail \/ t.view.quiet))
      BY <2>2, <2>3, <2>4 DEF Moved, Settled, Agrees
    <3> QED BY <3>1, <3>2, <3>3 DEF Moved
  <2>9. Clamp(v, n) = v => t = mid
    BY <2>1, <2>2 DEF SetValue
  <2> HIDE DEF v
  <2> QED BY <2>2, <2>3, <2>7, <2>8, <2>9 DEF v
<1> QED BY <1>2, <1>3

-----------------------------------------------------------------------------
(* 3. Rows that appear in the view.                                        *)

LEMMA PlaceGrows ==
    ASSUME NEW S, NEW T, Distinct(T), S \subseteq T, NEW w \in Way
    PROVE  /\ Distinct(S) /\ Cardinality(S) <= Cardinality(T)
           /\ \A r : Place(S, w, r) <= Place(T, w, r)
<1>1. Distinct(S) /\ Cardinality(S) <= Cardinality(T)
  BY FS_Subset DEF Distinct
<1>2. ASSUME NEW r PROVE Place(S, w, r) <= Place(T, w, r)
  <2>1. Above(S, w, r) \in SUBSET Above(T, w, r)
    BY DEF Above
  <2> QED BY <2>1, AboveFinite, FS_Subset DEF Place
<1> QED BY <1>1, <1>2

(* k rows were inserted: the tail may be lost but not reached, Follow is   *)
(* left alone, and a reader who is away from the tail is told of all k.    *)
Grown(s, t, k) ==
    /\ Settled(t) /\ t.view.edge = s.view.edge
    /\ t.follow = s.follow /\ t.view.quiet = s.view.quiet
    /\ t.view.user => s.view.user
    /\ t.view.atTail => s.view.atTail
    /\ s.view.edge = "top" /\ s.view.atTail => t.view.atTail
    /\ t.view.pending <= s.view.pending + k
    /\ ~s.view.atTail /\ ~s.view.quiet => t.view.pending = s.view.pending + k

(* The rows d made room: t is s with the rows e laid out, and the row that *)
(* was on top is scrolled to if the reader is away from the top edge.      *)
Relaid(s, t, d, e, S, T, w) ==
    /\ Settled(t) /\ t.n = Len(e) /\ t.view.edge = s.view.edge
    /\ t.follow = s.follow /\ t.view.quiet = s.view.quiet
    /\ t.view.user => s.view.user
    /\ t.view.atTail => s.view.atTail
    /\ s.view.edge = "top" /\ s.view.atTail => t.view.atTail
    /\ t.view.pending = s.view.pending
    /\ s.view.edge = "top" /\ ~s.view.atTail =>
          /\ s.view.value + 1 \in 1 .. Len(d) /\ d[s.view.value + 1] \in S
          /\ t.view.value = Clamp(Place(T, w, d[s.view.value + 1]), Len(e))

LEMMA RowsLaid ==
    ASSUME NEW w \in Way, NEW S, NEW T, S \subseteq T, Distinct(T),
           NEW d, Laid(d, S, w), NEW e, Laid(e, T, w),
           NEW s, Settled(s), s.n = Len(d)
    PROVE  Relaid(s, RestoreAnchor(SetRange(s, Len(e)), SavedAnchor(s, d), e), d, e, S, T, w)
<1> DEFINE t == RestoreAnchor(SetRange(s, Len(e)), SavedAnchor(s, d), e)
           n == Len(d)
           m == Len(e)
           mid == SetRange(s, m)
           v == s.view.value
<1>1. Distinct(S) /\ n \in Nat /\ m \in Nat /\ n <= m /\ DOMAIN e = 1 .. m
  <2>1. Distinct(S) /\ Cardinality(S) <= Cardinality(T)
    BY PlaceGrows
  <2>2. Len(d) = Cardinality(S) /\ Len(d) \in Nat
    BY <2>1 DEF Laid
  <2>3. Len(e) = Cardinality(T) /\ Len(e) \in Nat /\ DOMAIN e = 1 .. Len(e)
    BY DEF Laid
  <2> QED BY <2>1, <2>2, <2>3
<1>12. /\ \A i \in 1 .. Len(d) : d[i] \in S /\ Place(S, w, d[i]) = i - 1
       /\ d = <<>> <=> S = {}
  BY DEF Laid
<1>2. /\ v \in Nat /\ v <= MaxValue(n) /\ s.view \in View /\ s \in State
      /\ s.view.atTail = ComputeAtTailEdge(s.view.edge, v, n)
  BY DEF Settled, Agrees, State, View
<1>3. MaxValue(n) <= MaxValue(m) /\ MaxValue(n) \in Nat /\ MaxValue(m) \in Nat /\ Clamp(v, m) = v
  BY <1>1, <1>2, TailAssumption DEF MaxValue, Clamp
<1>4. /\ Settled(mid) /\ mid.n = m /\ mid.view.value = v /\ Moved(s, mid)
      /\ mid.follow = s.follow /\ mid.view.quiet = s.view.quiet /\ mid.view.user = s.view.user
  <2> HIDE DEF n, m
  <2> QED BY <1>1, <1>3, RangeSet
<1> HIDE DEF mid, t
<1>5. mid.view.atTail = ComputeAtTailEdge(s.view.edge, v, m) /\ mid.view.edge = s.view.edge
  BY <1>4 DEF Settled, Agrees, Moved
<1>6. mid.view.atTail \in BOOLEAN /\ s.view.atTail \in BOOLEAN
  BY <1>2, <1>4 DEF Settled, Agrees, State, View
<1>7. /\ mid.view.atTail => s.view.atTail
      /\ s.view.edge = "top" => (s.view.atTail <=> v = 0) /\ (mid.view.atTail <=> v = 0)
  <2>1. CASE s.view.edge = "bottom"
    <3>1. (s.view.atTail <=> v >= MaxValue(n)) /\ (mid.view.atTail <=> v >= MaxValue(m))
      BY <2>1, <1>2, <1>5, <1>6 DEF ComputeAtTailEdge
    <3> HIDE DEF n, m, v
    <3> QED BY <2>1, <3>1, <1>2, <1>3
  <2>2. CASE s.view.edge # "bottom"
    <3>1. (s.view.atTail <=> v <= 0) /\ (mid.view.atTail <=> v <= 0)
      BY <2>2, <1>2, <1>5, <1>6 DEF ComputeAtTailEdge
    <3> QED BY <3>1, <1>2
  <2> QED BY <2>1, <2>2
<1> HIDE DEF n, m, v
<1>8. SavedAnchor(s, d) = IF s.view.edge # "top" \/ s.view.atTail \/ d = <<>> THEN 0 ELSE d[v + 1].id
  BY DEF SavedAnchor, v
<1>9. mid.view.pending = s.view.pending
  <2>1. CASE mid.view.atTail \/ mid.view.quiet
    BY <2>1, <1>4, <1>7 DEF Settled, Agrees
  <2>2. CASE ~(mid.view.atTail \/ mid.view.quiet)
    BY <2>2, <1>4 DEF Moved
  <2> QED BY <2>1, <2>2
<1>10. ASSUME s.view.edge # "top" \/ s.view.atTail
       PROVE  Relaid(s, t, d, e, S, T, w)
  <2>1. t = mid
    BY <1>8, <1>10 DEF RestoreAnchor, mid, m, t
  <2> QED BY <2>1, <1>4, <1>5, <1>7, <1>9, <1>10 DEF m, Relaid
<1>11. ASSUME s.view.edge = "top" /\ ~s.view.atTail
       PROVE  Relaid(s, t, d, e, S, T, w)
  <2>1. v > 0 /\ v + 1 \in 1 .. n /\ n > Page
    <3>1. v > 0
      BY <1>2, <1>7, <1>11
    <3> QED BY <3>1, <1>1, <1>2, TailAssumption DEF MaxValue
  <2> DEFINE r == d[v + 1]
  <2>2. r \in S /\ Place(S, w, r) = v /\ d # <<>>
    <3>1. d[v + 1] \in S /\ Place(S, w, d[v + 1]) = (v + 1) - 1
      BY <2>1, <1>12 DEF n
    <3> QED BY <3>1, <1>12, <1>2
  <2> HIDE DEF r
  <2>3. r \in T /\ r.id \in Nat \ {0}
    BY <2>2 DEF Distinct, Row
  <2>4. Shows(e, r.id) /\ Position(e, r.id) = Place(T, w, r) + 1
    BY <2>3 DEF Laid
  <2>5. Place(T, w, r) \in Nat /\ v <= Place(T, w, r) /\ (Place(T, w, r) + 1) - 1 = Place(T, w, r)
    <3>1. Place(T, w, r) \in Nat
      BY AboveFinite
    <3>2. Place(S, w, r) <= Place(T, w, r)
      BY PlaceGrows
    <3> QED BY <3>1, <3>2, <2>2
  <2>6. t = SetValue(mid, Place(T, w, r))
    <3>1. SavedAnchor(s, d) = r.id
      BY <1>8, <1>11, <2>2 DEF r
    <3> QED BY <3>1, <2>3, <2>4, <2>5 DEF RestoreAnchor, mid, m, t
  <2>7. /\ Settled(t) /\ t.n = m /\ t.view.value = Clamp(Place(T, w, r), m) /\ Moved(mid, t)
        /\ t.follow # mid.follow \/ t.view.quiet # mid.view.quiet => t.view.atTail # mid.view.atTail
    <3>1. Agrees(mid) /\ Place(T, w, r) \in Int
      BY <1>4, <2>5 DEF Settled
    <3> QED BY <3>1, <2>6, <1>4, ValueSet
  <2>8. Clamp(Place(T, w, r), m) > 0
    BY <2>1, <2>5, <1>1, <1>2, <1>3 DEF Clamp
  <2>9. t.view.atTail = FALSE /\ mid.view.atTail = FALSE
    <3>1. t.view.atTail = ComputeAtTailEdge("top", t.view.value, m)
      BY <2>7, <1>5, <1>11 DEF Settled, Agrees, Moved
    <3>2. t.view.value > 0 /\ t.view.value \in Nat
      BY <2>7, <2>8 DEF Settled, Agrees, State, View
    <3>3. t.view.atTail \in BOOLEAN /\ ~(t.view.value <= 0)
      BY <2>7, <3>2 DEF Settled, Agrees, State, View
    <3>4. t.view.atTail = FALSE
      BY <3>1, <3>3 DEF ComputeAtTailEdge
    <3>5. mid.view.atTail = FALSE
      BY <1>6, <1>7, <1>11, <2>1
    <3> QED BY <3>4, <3>5
  <2>10. t.view.pending = mid.view.pending
    <3>1. CASE t.view.quiet
      BY <3>1, <2>7, <2>9, <1>4 DEF Settled, Agrees
    <3>2. CASE ~t.view.quiet
      BY <3>2, <2>7, <2>9 DEF Moved
    <3> QED BY <3>1, <3>2
  <2>11. t.view.edge = s.view.edge /\ (t.view.user => s.view.user)
         /\ t.follow = s.follow /\ t.view.quiet = s.view.quiet
    BY <1>4, <1>5, <2>7, <2>9 DEF Moved
  <2> QED BY <1>9, <1>11, <2>1, <2>2, <2>7, <2>9, <2>10, <2>11 DEF r, v, m, n, Relaid
<1> QED BY <1>10, <1>11 DEF t

(* Where the reader ends up: at the row that was on top, in the new order. *)
TopRow(s, t, d, T, w, n) ==
    s.view.edge = "top" /\ ~s.view.atTail =>
        /\ s.view.value + 1 \in DOMAIN d
        /\ t.view.value = Clamp(Place(T, w, d[s.view.value + 1]), n)

Joined(s, t, d, e, T, w) ==
    /\ Grown(s, t, Len(e) - Len(d)) /\ t.n = Len(e) /\ TopRow(s, t, d, T, w, Len(e))
    /\ Len(e) - Len(d) \in Nat

LEMMA RowsInserted ==
    ASSUME NEW w \in Way, NEW S, NEW T, S \subseteq T, Distinct(T),
           NEW d, Laid(d, S, w), NEW e, Laid(e, T, w),
           NEW s, Settled(s), s.n = Len(d)
    PROVE  Joined(s, TableRowsInserted(s, d, e), d, e, T, w)
<1> DEFINE t == TableRowsInserted(s, d, e)
           laid == RestoreAnchor(SetRange(s, Len(e)), SavedAnchor(s, d), e)
           k == Len(e) - Len(d)
<1>1. k \in Nat
  <2>1. Cardinality(S) <= Cardinality(T)
    BY PlaceGrows
  <2>2. Len(d) = Cardinality(S) /\ Len(d) \in Nat /\ Len(e) = Cardinality(T) /\ Len(e) \in Nat
    BY DEF Laid
  <2> QED BY <2>1, <2>2
<1>2. Relaid(s, laid, d, e, S, T, w)
  BY RowsLaid
<1>3. DOMAIN d = 1 .. Len(d) /\ s.view.pending \in Nat
  BY DEF Laid, Settled, Agrees, State, View
<1>4. t = IF laid.view.atTail \/ laid.view.quiet THEN laid ELSE [laid EXCEPT !.view.pending = @ + k]
  BY DEF TableRowsInserted
<1> HIDE DEF laid, k, t
<1>5. ASSUME laid.view.atTail \/ laid.view.quiet
      PROVE  Joined(s, t, d, e, T, w)
  <2>1. t = laid
    BY <1>4, <1>5
  <2> QED BY <2>1, <1>1, <1>2, <1>3, <1>5 DEF Grown, TopRow, k, Joined, Relaid
<1>6. ASSUME ~(laid.view.atTail \/ laid.view.quiet)
      PROVE  Joined(s, t, d, e, T, w)
  <2> DEFINE v == [laid.view EXCEPT !.pending = laid.view.pending + k]
  <2>1. laid \in State /\ laid.view \in View
    BY <1>2 DEF Settled, Agrees, State, Relaid
  <2>2. t = [laid EXCEPT !.view = v]
    BY <1>4, <1>6, <2>1 DEF State
  <2>3. /\ v \in View /\ v.value = laid.view.value /\ v.edge = laid.view.edge
        /\ v.atTail = laid.view.atTail /\ v.quiet = laid.view.quiet /\ v.user = laid.view.user
        /\ v.pending = laid.view.pending + k
    BY <1>1, <2>1 DEF View
  <2> HIDE DEF v
  <2>4. t \in State /\ t.view = v /\ t.n = laid.n /\ t.follow = laid.follow
    BY <2>1, <2>2, <2>3 DEF State
  <2>5. Settled(t)
    <3>1. t.view.atTail = ComputeAtTailEdge(t.view.edge, t.view.value, t.n)
      BY <2>3, <2>4, <1>2 DEF Settled, Agrees, Relaid
    <3> QED BY <3>1, <2>3, <2>4, <1>2, <1>6 DEF Settled, Agrees, Relaid
  <2> QED BY <2>3, <2>4, <2>5, <1>1, <1>2, <1>3, <1>6 DEF Grown, TopRow, k, Joined, Relaid
<1> QED BY <1>5, <1>6 DEF t

LEMMA InsertedOnce ==
    ASSUME NEW w \in Way, NEW S, NEW T, S \subseteq T, Distinct(T),
           NEW d, Laid(d, S, w), NEW e, Laid(e, T, w),
           NEW s, Settled(s), s.n = Len(d),
           NEW t, t = Inserted(s, d, e)
    PROVE  Joined(s, t, d, e, T, w)
<1>1. CASE d # e
  <2>1. t = TableRowsInserted(s, d, e)
    BY <1>1 DEF Inserted
  <2> QED BY <2>1, RowsInserted
<1>2. CASE d = e
  <2>1. t = s /\ Len(e) - Len(d) = 0 /\ Len(e) \in Nat /\ DOMAIN e = 1 .. Len(e)
    BY <1>2 DEF Inserted, Laid
  <2>2. Grown(s, t, 0)
    <3>1. s.view.pending \in Nat
      BY DEF Settled, Agrees, State, View
    <3> QED BY <2>1, <3>1 DEF Grown
  <2>3. TopRow(s, t, d, T, w, Len(e))
    <3> SUFFICES ASSUME s.view.edge = "top", ~s.view.atTail
                 PROVE  /\ s.view.value + 1 \in DOMAIN d
                        /\ t.view.value = Clamp(Place(T, w, d[s.view.value + 1]), Len(e))
      BY DEF TopRow
    <3>1. s.view.value \in Nat /\ s.view.value <= MaxValue(s.n) /\ s.view.value > 0
      <4>1. /\ s.view.value \in Nat /\ s.view.value <= MaxValue(s.n)
            /\ s.view.atTail = ComputeAtTailEdge(s.view.edge, s.view.value, s.n)
        BY DEF Settled, Agrees, State, View
      <4>2. ~(s.view.value <= 0)
        BY <4>1 DEF ComputeAtTailEdge
      <4> QED BY <4>1, <4>2
    <3>2. s.view.value + 1 \in 1 .. Len(e) /\ Clamp(s.view.value, Len(e)) = s.view.value
      BY <1>2, <2>1, <3>1, TailAssumption DEF MaxValue, Clamp
    <3>3. Place(T, w, e[s.view.value + 1]) = (s.view.value + 1) - 1
      BY <3>2 DEF Laid
    <3> QED BY <1>2, <2>1, <3>1, <3>2, <3>3
  <2> QED BY <1>2, <2>1, <2>2, <2>3 DEF Joined
<1> QED BY <1>1, <1>2

LEMMA GrownTwice ==
    ASSUME NEW s, NEW t, NEW u, NEW j \in Nat, NEW k \in Nat, Settled(s), Grown(s, t, j), Grown(t, u, k)
    PROVE  Grown(s, u, j + k)
<1>1. s.view.pending \in Nat /\ t.view.pending \in Nat /\ u.view.pending \in Nat
  BY DEF Grown, Settled, Agrees, State, View
<1> QED BY <1>1 DEF Grown

LEMMA LeastNat ==
    ASSUME NEW T \in SUBSET Nat, T # {}
    PROVE  \E m \in T : \A k \in T : m <= k
<1> DEFINE R == OpToRel(<, Nat)
<1>1. IsWellFoundedOn(R, Nat)
  BY NatLessThanWellFounded
<1>2. PICK m \in T : \A k \in T : ~ (<<k, m>> \in R)
  BY <1>1, WFMin, Zenon
<1>3. \A k, n \in Nat : k < n => <<k, n>> \in R
  BY DEF OpToRel
<1> HIDE DEF R
<1>4. \A k \in T : ~ (k < m) /\ k \in Nat /\ m \in Nat
  BY <1>2, <1>3
<1> QED BY <1>4

LEMMA NoBadNumber ==
    ASSUME NEW Bad \in SUBSET Nat, 0 \notin Bad, \A n \in Nat : n \notin Bad => n + 1 \notin Bad
    PROVE  Bad = {}
<1> SUFFICES ASSUME Bad # {} PROVE FALSE
  OBVIOUS
<1>1. PICK m \in Bad : \A k \in Bad : m <= k
  BY LeastNat
<1>2. m - 1 \in Nat /\ m - 1 \notin Bad /\ (m - 1) + 1 = m
  BY <1>1
<1> QED BY <1>1, <1>2

(* The rows of a log with more rows at its end.                            *)
LEMMA RowsJoined ==
    ASSUME NEW rows \in Seq(Row), NEW new \in Seq(Row), NEW i \in 0 .. Len(new), NEW j \in i .. Len(new), NEW w
    PROVE  /\ Accepted(rows \o FirstOf(new, i), w) \subseteq Accepted(rows \o FirstOf(new, j), w)
           /\ Accepted(rows \o FirstOf(new, i), w) \subseteq Accepted(rows \o new, w)
<1> DEFINE n == Len(new)
           taken(k) == IF way.rev THEN (n - k + 1) .. n ELSE 1 .. k
<1>1. n \in Nat /\ \A x \in 1 .. n : new[x] \in Row
  OBVIOUS
<1>2. ASSUME NEW k \in 0 .. n
      PROVE  FirstOf(new, k) \in Seq(Row) /\ Range(FirstOf(new, k)) = {new[x] : x \in taken(k)}
  <2>0. k \in Nat /\ k <= n
    BY <1>1
  <2>1. CASE way.rev
    <3>1. n - k + 1 \in Int /\ n \in Int /\ \A x \in (n - k + 1) .. n : new[x] \in Row
      BY <1>1, <2>0
    <3>2. /\ SubSeq(new, n - k + 1, n) \in Seq(Row)
          /\ Len(SubSeq(new, n - k + 1, n)) = IF n - k + 1 <= n THEN n - (n - k + 1) + 1 ELSE 0
          /\ \A x \in 1 .. (n - (n - k + 1) + 1) : SubSeq(new, n - k + 1, n)[x] = new[(n - k + 1) + x - 1]
      BY <3>1, SubSeqProperties
    <3> DEFINE f == SubSeq(new, n - k + 1, n)
    <3>3. f \in Seq(Row) /\ FirstOf(new, k) = f
      BY <2>1, <3>2 DEF FirstOf
    <3> HIDE DEF n
    <3>4. Len(f) = k /\ \A x \in 1 .. k : f[x] = new[(n - k) + x]
      <4>1. n - (n - k + 1) + 1 = k /\ (n - k + 1 <= n <=> k # 0)
        BY <1>1, <2>0
      <4>2. \A x \in 1 .. k : (n - k + 1) + x - 1 = (n - k) + x
        BY <1>1, <2>0
      <4> QED BY <3>2, <4>1, <4>2
    <3> HIDE DEF f
    <3>5. Range(f) = {f[x] : x \in 1 .. k}
      BY <3>3, <3>4, RangeEquality
    <3>6. \A y \in (n - k + 1) .. n : y - (n - k) \in 1 .. k /\ (n - k) + (y - (n - k)) = y
      BY <1>1, <2>0
    <3>7. \A x \in 1 .. k : (n - k) + x \in (n - k + 1) .. n
      BY <1>1, <2>0
    <3> QED BY <2>1, <3>3, <3>4, <3>5, <3>6, <3>7
  <2>2. CASE ~way.rev
    <3>1. 1 \in Int /\ k \in Int /\ \A x \in 1 .. k : new[x] \in Row
      BY <1>1, <2>0
    <3>2. /\ SubSeq(new, 1, k) \in Seq(Row) /\ Len(SubSeq(new, 1, k)) = k
          /\ \A x \in 1 .. k : SubSeq(new, 1, k)[x] = new[x]
      BY <2>0, <3>1, SubSeqProperties
    <3>3. Range(SubSeq(new, 1, k)) = {SubSeq(new, 1, k)[x] : x \in 1 .. Len(SubSeq(new, 1, k))}
      BY <3>2, RangeEquality
    <3> QED BY <2>2, <3>2, <3>3 DEF FirstOf
  <2> QED BY <2>1, <2>2
<1>3. ASSUME NEW k \in 0 .. n
      PROVE  Range(rows \o FirstOf(new, k)) = Range(rows) \cup {new[x] : x \in taken(k)}
  BY <1>2, RangeConcatenation
<1>4. Range(rows \o new) = Range(rows) \cup {new[x] : x \in 1 .. n}
  BY RangeConcatenation, RangeEquality
<1>5. i \in 0 .. n /\ j \in 0 .. n /\ i <= j /\ j <= n /\ i \in Nat /\ j \in Nat
  OBVIOUS
<1> HIDE DEF n
<1>6. taken(i) \subseteq taken(j) /\ taken(i) \subseteq 1 .. n
  BY <1>1, <1>5
<1> HIDE DEF taken
<1> QED BY <1>3, <1>4, <1>5, <1>6 DEF Accepted

(* Rows inserted one by one, the way oneByOne in InsertRows goes on.       *)
OneByOne(g, s, shown, n) ==
    g = [i \in 0 .. n |-> IF i = 0 THEN s ELSE Inserted(g[i - 1], shown[i - 1], shown[i])]

LEMMA OneByOneExists ==
    ASSUME NEW s, NEW shown, NEW n \in Nat
    PROVE  \E g : OneByOne(g, s, shown, n)
<1> DEFINE Bad == {m \in Nat : ~ \E g : OneByOne(g, s, shown, m)}
<1>1. 0 \notin Bad
  <2> DEFINE g == [i \in 0 .. 0 |-> s]
  <2>1. \A i \in 0 .. 0 : i = 0
    OBVIOUS
  <2>2. OneByOne(g, s, shown, 0)
    BY <2>1 DEF OneByOne
  <2> QED BY <2>2
<1>2. ASSUME NEW m \in Nat, m \notin Bad
      PROVE  m + 1 \notin Bad
  <2>1. PICK h : OneByOne(h, s, shown, m)
    BY <1>2
  <2> DEFINE g == [i \in 0 .. (m + 1) |-> IF i = 0 THEN s ELSE Inserted(h[i - 1], shown[i - 1], shown[i])]
  <2>2. ASSUME NEW i \in 0 .. m PROVE g[i] = h[i]
    <3>1. h[i] = IF i = 0 THEN s ELSE Inserted(h[i - 1], shown[i - 1], shown[i])
      BY <2>1 DEF OneByOne
    <3>2. i \in 0 .. (m + 1)
      OBVIOUS
    <3> QED BY <3>1, <3>2
  <2>3. ASSUME NEW i \in 0 .. (m + 1)
        PROVE  g[i] = IF i = 0 THEN s ELSE Inserted(g[i - 1], shown[i - 1], shown[i])
    <3>1. g[i] = IF i = 0 THEN s ELSE Inserted(h[i - 1], shown[i - 1], shown[i])
      OBVIOUS
    <3>2. i # 0 => i - 1 \in 0 .. m
      OBVIOUS
    <3> HIDE DEF g
    <3> QED BY <2>2, <3>1, <3>2
  <2>4. OneByOne(g, s, shown, m + 1)
    <3>1. g = [i \in 0 .. (m + 1) |-> g[i]]
      OBVIOUS
    <3> HIDE DEF g
    <3> QED BY <2>3, <3>1 DEF OneByOne
  <2> QED BY <2>4
<1>3. Bad = {}
  <2>1. Bad \in SUBSET Nat
    OBVIOUS
  <2> HIDE DEF Bad
  <2> QED BY <1>1, <1>2, <2>1, NoBadNumber
<1> QED BY <1>3

(* A batch inserted into the view: all at once in row order, one by one    *)
(* into a sorted view.                                                     *)
LEMMA BatchInserted ==
    ASSUME way \in Way, NEW rows \in Seq(Row), NEW new \in Seq(Row), Distinct(Range(rows \o new)),
           NEW s, Settled(s), s.n = Len(Display(rows, way)),
           NEW t, t = InsertRows(s, rows, new)
    PROVE  LET d == Display(rows, way)
               e == Display(rows \o new, way)
           IN  /\ Grown(s, t, Len(e) - Len(d)) /\ t.n = Len(e) /\ Len(e) - Len(d) \in Nat
               /\ ~way.sorted => TopRow(s, t, d, Accepted(rows \o new, way), way, Len(e))
<1> DEFINE A(i) == Accepted(rows \o FirstOf(new, i), way)
           shown == [i \in 0 .. Len(new) |-> Display(rows \o FirstOf(new, i), way)]
           T == Accepted(rows \o new, way)
           d == Display(rows, way)
           e == Display(rows \o new, way)
           n == Len(new)
<1>1. Distinct(T)
  BY FS_Subset DEF Distinct, Accepted
<1>2. n \in Nat /\ 0 \in 0 .. n /\ n \in 0 .. n /\ rows \o FirstOf(new, 0) = rows /\ rows \o FirstOf(new, n) = rows \o new
  <2>1. n \in Nat /\ n - 0 + 1 > n /\ n - n + 1 = 1
    OBVIOUS
  <2>2. FirstOf(new, 0) = <<>> /\ FirstOf(new, n) = new
    BY <2>1 DEF FirstOf
  <2> QED BY <2>1, <2>2
<1>3. ASSUME NEW i \in 0 .. n
      PROVE  A(i) \subseteq T /\ Distinct(A(i)) /\ Laid(shown[i], A(i), way)
  <2>1. A(i) \subseteq T
    BY RowsJoined
  <2>2. Distinct(A(i))
    <3> HIDE DEF A, T
    <3> QED BY <2>1, <1>1, PlaceGrows
  <2> QED BY <2>1, <2>2, LaidOut
<1>4. shown[0] = d /\ shown[n] = e /\ A(n) = T
  BY <1>2
<1>5. CASE ~way.sorted
  <2>1. t = Inserted(s, d, e)
    BY <1>5 DEF InsertRows
  <2>2. A(0) \subseteq T /\ Laid(d, A(0), way) /\ Laid(e, T, way)
    BY <1>2, <1>3, <1>4
  <2>3. Joined(s, t, d, e, T, way)
    <3> HIDE DEF A, T, d, e
    <3>1. s.n = Len(d)
      BY DEF d
    <3> QED BY <1>1, <2>1, <2>2, <3>1, InsertedOnce
  <2> HIDE DEF d, e, T
  <2> QED BY <2>3 DEF Joined, d, e, T
<1>6. CASE way.sorted
  <2> DEFINE P(g) == g = [i \in 0 .. n |-> IF i = 0 THEN s ELSE Inserted(g[i - 1], shown[i - 1], shown[i])]
             f == CHOOSE g : P(g)
  <2>1. t = f[n]
    BY <1>6 DEF InsertRows
  <2>2. \A g : P(g) <=> OneByOne(g, s, shown, n)
    BY DEF OneByOne
  <2>3. OneByOne(f, s, shown, n)
    <3>1. \E g : P(g)
      <4> HIDE DEF P, shown, n
      <4> QED BY <2>2, <1>2, OneByOneExists
    <3>2. P(f)
      <4> HIDE DEF P
      <4> QED BY <3>1
    <3> HIDE DEF P, f
    <3> QED BY <2>2, <3>2
  <2> HIDE DEF P, f
  <2> DEFINE Right(i) == /\ Grown(s, f[i], Len(shown[i]) - Len(d)) /\ f[i].n = Len(shown[i])
                         /\ Len(shown[i]) - Len(d) \in Nat /\ Settled(f[i])
             Bad == {i \in Nat : i <= n /\ ~Right(i)}
  <2>4. 0 \notin Bad
    <3>1. f[0] = s /\ Len(shown[0]) = Len(d) /\ Len(d) \in Nat
      BY <1>2, <1>3, <1>4, <2>3 DEF OneByOne, Laid
    <3>2. Len(shown[0]) - Len(d) = 0 /\ s.view.pending \in Nat
      BY <3>1 DEF Settled, Agrees, State, View
    <3>3. Right(0)
      <4> HIDE DEF shown, d
      <4>1. s.n = Len(d)
        BY DEF d
      <4> QED BY <3>1, <3>2, <4>1 DEF Grown
    <3> QED BY <3>3
  <2>5. ASSUME NEW i \in Nat, i \notin Bad
        PROVE  i + 1 \notin Bad
    <3> SUFFICES ASSUME i + 1 <= n PROVE Right(i + 1)
      OBVIOUS
    <3>1. i \in 0 .. n /\ i + 1 \in 0 .. n /\ i <= n /\ (i + 1) - 1 = i /\ i + 1 # 0 /\ i + 1 \in i .. n
      BY <1>2
    <3>2. Right(i)
      BY <2>5, <3>1
    <3>3. f[i + 1] = Inserted(f[i], shown[i], shown[i + 1])
      <4> HIDE DEF shown, Right
      <4> QED BY <2>3, <3>1 DEF OneByOne
    <3>4. A(i) \subseteq A(i + 1)
      BY <3>1, RowsJoined
    <3>5. Distinct(A(i + 1)) /\ Laid(shown[i], A(i), way) /\ Laid(shown[i + 1], A(i + 1), way)
      BY <1>3, <3>1
    <3>6. Joined(f[i], f[i + 1], shown[i], shown[i + 1], A(i + 1), way)
      <4> HIDE DEF A, shown
      <4> QED BY <3>2, <3>3, <3>4, <3>5, InsertedOnce
    <3>7. Len(shown[i]) \in Nat /\ Len(shown[i + 1]) \in Nat /\ Len(d) \in Nat
      <4>1. Laid(shown[0], A(0), way)
        BY <1>2, <1>3
      <4> HIDE DEF A, shown
      <4> QED BY <3>5, <4>1, <1>4 DEF Laid
    <3> HIDE DEF A, shown, d
    <3> DEFINE j == Len(shown[i]) - Len(d)
               k == Len(shown[i + 1]) - Len(shown[i])
    <3>8. Grown(s, f[i], j) /\ Grown(f[i], f[i + 1], k) /\ j \in Nat /\ k \in Nat
      BY <3>2, <3>6 DEF Joined
    <3>9. Grown(s, f[i + 1], j + k)
      <4> HIDE DEF j, k
      <4> QED BY <3>8, GrownTwice
    <3>10. j + k = Len(shown[i + 1]) - Len(d)
      BY <3>7
    <3>11. Settled(f[i + 1]) /\ f[i + 1].n = Len(shown[i + 1])
      BY <3>6 DEF Joined, Grown
    <3>12. /\ Grown(s, f[i + 1], Len(shown[i + 1]) - Len(d))
           /\ Len(shown[i + 1]) - Len(d) \in Nat
      <4>1. j + k \in Nat
        <5> HIDE DEF j, k
        <5> QED BY <3>8
      <4> HIDE DEF j, k
      <4> QED BY <3>9, <3>10, <4>1
    <3> QED BY <3>11, <3>12
  <2>6. Bad = {}
    <3>1. Bad \in SUBSET Nat
      OBVIOUS
    <3> HIDE DEF Bad
    <3> QED BY <2>4, <2>5, <3>1, NoBadNumber
  <2>7. Right(n)
    <3>1. n \in Nat /\ n <= n
      BY <1>2
    <3> HIDE DEF Right, n
    <3> QED BY <2>6, <3>1
  <2> HIDE DEF shown, d, e, T
  <2> QED BY <1>4, <1>6, <2>1, <2>7 DEF d, e, T
<1> QED BY <1>5, <1>6

-----------------------------------------------------------------------------
(* 4. The other movements.                                                 *)

(* An id is painted when the scroll bar stands at most a page above it.    *)
LEMMA PaintedThere ==
    ASSUME NEW d, Len(d) \in Nat, DOMAIN d = 1 .. Len(d), NEW id, Shows(d, id),
           NEW v, NEW x \in Int, Position(d, id) - Page <= x, x <= Position(d, id) - 1,
           v.value = Clamp(x, Len(d))
    PROVE  id \in Painted(d, v)
<1> DEFINE p == Position(d, id)
<1>1. p \in 1 .. Len(d) /\ d[p].id = id
  BY DEF Shows, Position
<1>2. v.value < p /\ p <= v.value + Page /\ v.value \in Nat
  <2> HIDE DEF p
  <2>1. p - Page <= x /\ x <= p - 1 /\ p \in Nat /\ p <= Len(d)
    BY <1>1 DEF p
  <2> QED BY <1>1, <2>1, TailAssumption DEF Clamp, MaxValue
<1> HIDE DEF p
<1> QED BY <1>1, <1>2 DEF Painted

(* The rows are laid out anew: the reader's row stays on top if it is      *)
(* still shown.                                                            *)
Rearranged(s, t, before, after) ==
    /\ Settled(t) /\ t.n = Len(after) /\ Moved(s, t)
    /\ LET id == before[s.view.value + 1].id
       IN (s.view.edge = "top" /\ ~s.view.atTail /\ before # <<>> /\ id # 0 /\ Shows(after, id)) =>
             t.view.value = Clamp(Position(after, id) - 1, Len(after))

LEMMA LaidOutAnew ==
    ASSUME NEW s, Settled(s), NEW before, NEW after, Len(after) \in Nat, DOMAIN after = 1 .. Len(after)
    PROVE  Rearranged(s, Relayout(s, before, after), before, after)
<1> DEFINE t == Relayout(s, before, after)
           n == Len(after)
           mid == SetRange(s, n)
           anchor == SavedAnchor(s, before)
<1>1. t = RestoreAnchor(mid, anchor, after)
  BY DEF Relayout
<1>2. /\ Settled(mid) /\ mid.n = n /\ mid.view.value = Clamp(s.view.value, n) /\ Moved(s, mid)
      /\ mid.follow # s.follow \/ mid.view.quiet # s.view.quiet => mid.view.atTail
  BY RangeSet
<1> HIDE DEF t, mid
<1>3. /\ s.view.value \in Nat /\ s.view \in View /\ mid.view \in View /\ t = t
      /\ s.view.atTail = ComputeAtTailEdge(s.view.edge, s.view.value, s.n)
      /\ mid.view.atTail = ComputeAtTailEdge(mid.view.edge, mid.view.value, n)
      /\ mid.view.edge = s.view.edge
  BY <1>2 DEF Settled, Agrees, State, View, Moved
<1>4. CASE anchor = 0 \/ ~Shows(after, anchor)
  <2>1. t = mid
    BY <1>1, <1>4 DEF RestoreAnchor
  <2>2. (s.view.edge = "top" /\ ~s.view.atTail /\ before # <<>>) => anchor = before[s.view.value + 1].id
    BY DEF SavedAnchor
  <2> HIDE DEF anchor, n
  <2> QED BY <2>1, <2>2, <1>2, <1>4 DEF Rearranged, t, n
<1>5. CASE anchor # 0 /\ Shows(after, anchor)
  <2>1. s.view.edge = "top" /\ ~s.view.atTail /\ before # <<>> /\ anchor = before[s.view.value + 1].id
    BY <1>5 DEF SavedAnchor
  <2> HIDE DEF anchor, n
  <2>2. /\ t = SetValue(mid, Position(after, anchor) - 1) /\ Position(after, anchor) \in 1 .. n
        /\ Settled(t) /\ t.n = mid.n /\ t.view.value = Clamp(Position(after, anchor) - 1, n) /\ Moved(mid, t)
        /\ t.follow # mid.follow \/ t.view.quiet # mid.view.quiet => t.view.atTail # mid.view.atTail
    <3>1. Position(after, anchor) \in 1 .. n
      BY <1>5 DEF Shows, Position, n
    <3>2. t = SetValue(mid, Position(after, anchor) - 1)
      BY <1>1, <1>5 DEF RestoreAnchor
    <3>3. Position(after, anchor) - 1 \in Int /\ Agrees(mid)
      BY <3>1, <1>2 DEF n, Settled
    <3> QED BY <3>1, <3>2, <3>3, <1>2, ValueSet
  <2>3. s.view.value > 0
    <3>1. ~(s.view.value <= 0)
      BY <1>3, <2>1 DEF ComputeAtTailEdge
    <3> QED BY <3>1, <1>3
  <2>4. mid.view.atTail => t.view.atTail
    <3>1. mid.view.atTail => mid.view.value <= 0
      BY <1>3, <2>1 DEF ComputeAtTailEdge
    <3>2. t.view.atTail = ComputeAtTailEdge("top", t.view.value, n)
      BY <2>2, <1>2, <1>3, <2>1 DEF Settled, Agrees, Moved
    <3>3. t.view.value <= 0 => t.view.atTail
      BY <3>2 DEF ComputeAtTailEdge
    <3>4. Clamp(s.view.value, n) <= 0 => Clamp(Position(after, anchor) - 1, n) <= 0
      <4>1. n \in Nat /\ Position(after, anchor) \in Nat \ {0}
        BY <2>2 DEF n
      <4> QED BY <4>1, <2>3, <1>3, TailAssumption DEF Clamp, MaxValue
    <3> QED BY <3>1, <3>3, <3>4, <1>2, <2>2
  <2>5. Moved(s, t)
    <3>1. t.view.edge = s.view.edge /\ (t.view.user => s.view.user)
      BY <1>2, <2>2 DEF Moved
    <3>2. \/ t.follow = s.follow /\ t.view.quiet = s.view.quiet
          \/ /\ s.view.user /\ ~t.view.user
             /\ t.follow = t.view.atTail /\ t.view.quiet = t.view.atTail
      <4>1. CASE mid.follow = s.follow /\ mid.view.quiet = s.view.quiet
        BY <4>1, <1>2, <2>2 DEF Moved
      <4>2. CASE ~(mid.follow = s.follow /\ mid.view.quiet = s.view.quiet)
        <5>1. /\ s.view.user /\ ~mid.view.user /\ mid.view.atTail
              /\ mid.follow = mid.view.atTail /\ mid.view.quiet = mid.view.atTail
          BY <4>2, <1>2 DEF Moved
        <5>2. t.follow = mid.follow /\ t.view.quiet = mid.view.quiet /\ ~t.view.user
          BY <5>1, <2>2 DEF Moved
        <5>3. mid.view.atTail = t.view.atTail
          BY <5>1, <2>4, <2>2, <1>2 DEF Settled, Agrees, State, View
        <5> QED BY <5>1, <5>2, <5>3
      <4> QED BY <4>1, <4>2
    <3>3. t.view.pending = s.view.pending \/ (t.view.pending = 0 /\ (t.view.atTail \/ t.view.quiet))
      <4>1. CASE t.view.atTail \/ t.view.quiet
        BY <4>1, <2>2 DEF Settled, Agrees
      <4>2. CASE ~(t.view.atTail \/ t.view.quiet)
        <5>1. ~mid.view.atTail /\ mid.follow = s.follow /\ mid.view.quiet = s.view.quiet
          BY <4>2, <2>4, <1>2
        <5>2. t.view.pending = mid.view.pending
          BY <4>2, <2>2 DEF Moved
        <5>3. CASE mid.view.quiet
          BY <5>1, <5>2, <5>3, <1>2 DEF Settled, Agrees
        <5>4. CASE ~mid.view.quiet
          BY <5>1, <5>2, <5>4, <1>2 DEF Moved
        <5> QED BY <5>3, <5>4
      <4> QED BY <4>1, <4>2
    <3> QED BY <3>1, <3>2, <3>3 DEF Moved
  <2>6. /\ t.n = Len(after) /\ Settled(t)
        /\ t.view.value = Clamp(Position(after, before[s.view.value + 1].id) - 1, Len(after))
    BY <2>1, <2>2, <1>2 DEF n
  <2> QED BY <2>5, <2>6 DEF Rearranged, t
<1> QED BY <1>4, <1>5 DEF t

(* The orientation is set: the edge is recomputed and an old count dropped.*)
LEMMA EdgeSet ==
    ASSUME NEW s, Settled(s), NEW edge \in {"top", "bottom"}, NEW t, t = SetTailEdge(s, edge)
    PROVE  /\ Settled(t) /\ t.n = s.n /\ t.follow = s.follow /\ t.view.value = s.view.value
           /\ t.view.edge = edge /\ t.view.quiet = s.view.quiet /\ t.view.user = s.view.user
           /\ t.view.pending = s.view.pending \/ t.view.pending = 0
           /\ edge # s.view.edge => t.view.pending = 0
           /\ edge = s.view.edge => t.view.pending = s.view.pending /\ t.view.atTail = s.view.atTail
<1> DEFINE at == ComputeAtTailEdge(edge, s.view.value, s.n)
           v == [s.view EXCEPT !.edge = edge, !.atTail = at,
                               !.pending = IF edge # s.view.edge \/ at THEN 0 ELSE s.view.pending]
<1>1. s \in State /\ s.view \in View /\ at \in BOOLEAN /\ (edge = s.view.edge => at = s.view.atTail)
  <2>1. s \in State /\ s.view \in View /\ s.view.value \in Nat /\ s.view.atTail = ComputeAtTailEdge(s.view.edge, s.view.value, s.n)
    BY DEF Settled, Agrees, State, View
  <2> QED BY <2>1, EdgeIsBoolean
<1>2. t = [s EXCEPT !.view.edge = edge, !.view.atTail = at,
                    !.view.pending = IF edge # s.view.edge \/ at THEN 0 ELSE @]
  BY DEF SetTailEdge
<1> HIDE DEF at
<1>3. t = [s EXCEPT !.view = v]
  BY <1>1, <1>2 DEF State
<1>4. /\ v \in View /\ v.value = s.view.value /\ v.edge = edge /\ v.atTail = at
      /\ v.user = s.view.user /\ v.quiet = s.view.quiet
      /\ v.pending = IF edge # s.view.edge \/ at THEN 0 ELSE s.view.pending
  <2>1. (IF edge # s.view.edge \/ at THEN 0 ELSE s.view.pending) \in Nat
    BY <1>1 DEF View
  <2> QED BY <1>1, <2>1 DEF View
<1>5. t \in State /\ t.view = v /\ t.n = s.n /\ t.follow = s.follow
  <2> HIDE DEF v
  <2> QED BY <1>1, <1>3, <1>4 DEF State
<1> HIDE DEF v
<1>6. t.view.atTail = ComputeAtTailEdge(t.view.edge, t.view.value, t.n)
  BY <1>4, <1>5 DEF at
<1>7. s.view.atTail \/ s.view.quiet => s.view.pending = 0
  BY DEF Settled, Agrees
<1>8. s.view.value <= MaxValue(s.n)
  BY DEF Settled
<1> QED BY <1>1, <1>4, <1>5, <1>6, <1>7, <1>8 DEF Settled, Agrees

-----------------------------------------------------------------------------
(* 5. The log and the jump to its newest row.                              *)

(* The log holds the last of the rows delivered, numbered on.              *)
Numbered(rows, last) ==
    /\ rows \in Seq(Row) /\ last \in Nat /\ Len(rows) <= last
    /\ \A i \in 1 .. Len(rows) : rows[i].id = last - Len(rows) + i

LEMMA LogDistinct ==
    ASSUME NEW rows, NEW last, Numbered(rows, last)
    PROVE  /\ Distinct(Range(rows)) /\ \A r \in Range(rows) : r.id \in 1 .. last
           /\ Range(rows) = {rows[i] : i \in 1 .. Len(rows)}
<1>1. rows \in Seq(Row) /\ Len(rows) \in Nat /\ last \in Nat /\ Len(rows) <= last
  BY DEF Numbered
<1>2. Range(rows) = {rows[i] : i \in 1 .. Len(rows)}
  BY <1>1, RangeEquality
<1>3. IsFiniteSet(Range(rows))
  <2> DEFINE f == [i \in 1 .. Len(rows) |-> rows[i]]
  <2>1. f \in Surjection(1 .. Len(rows), Range(rows))
    BY <1>2 DEF Surjection
  <2>2. IsFiniteSet(1 .. Len(rows))
    BY <1>1, FS_Interval
  <2> QED BY <2>1, <2>2, FS_Surjection
<1>4. ASSUME NEW i \in 1 .. Len(rows) PROVE rows[i] \in Row /\ rows[i].id \in 1 .. last
  BY <1>1 DEF Numbered
<1>5. ASSUME NEW i \in 1 .. Len(rows), NEW j \in 1 .. Len(rows), rows[i].id = rows[j].id
      PROVE  i = j
  <2>1. rows[i].id = last - Len(rows) + i /\ rows[j].id = last - Len(rows) + j
    BY DEF Numbered
  <2>2. last - Len(rows) + i = last - Len(rows) + j
    BY <1>5, <2>1
  <2>3. i \in Nat /\ j \in Nat
    OBVIOUS
  <2> QED BY <1>1, <2>2, <2>3
<1> QED BY <1>2, <1>3, <1>4, <1>5 DEF Distinct

LEMMA LogLaid ==
    ASSUME NEW rows, NEW last, Numbered(rows, last), NEW w \in Way
    PROVE  Distinct(Accepted(rows, w)) /\ Laid(Display(rows, w), Accepted(rows, w), w)
<1>1. Distinct(Accepted(rows, w))
  <2>1. Distinct(Range(rows)) /\ Accepted(rows, w) \subseteq Range(rows)
    BY LogDistinct DEF Accepted
  <2> QED BY <2>1, PlaceGrows
<1> QED BY <1>1, LaidOut

(* The newest shown row of the walk, when there is one, is a shown row.    *)
LEMMA NewestShown ==
    ASSUME NEW rows, NEW last, Numbered(rows, last), NEW d, NewestWithin(rows, d) # 0
    PROVE  Shows(d, NewestWithin(rows, d)) /\ rows # <<>> /\ d # <<>>
<1> DEFINE near == {r \in Range(rows) : Shows(d, r.id) /\ Last(rows).id - r.id <= WalkLimit}
<1>1. near # {} /\ NewestWithin(rows, d) = (CHOOSE r \in near : \A o \in near : o.id <= r.id).id
  BY DEF NewestWithin
<1>2. near \subseteq Range(rows) /\ \A r \in Range(rows) : r.id \in 1 .. last
  BY LogDistinct
<1>3. last \in Nat
  BY DEF Numbered
<1>4. \E r \in near : \A o \in near : o.id <= r.id
  <2> HIDE DEF near
  <2> DEFINE T == {last - r.id : r \in near}
  <2>1. T \in SUBSET Nat /\ T # {}
    BY <1>1, <1>2, <1>3
  <2>2. PICK m \in T : \A k \in T : m <= k
    <3> HIDE DEF T
    <3> QED BY <2>1, LeastNat
  <2>3. PICK r \in near : m = last - r.id
    OBVIOUS
  <2>4. ASSUME NEW o \in near PROVE o.id <= r.id
    <3>1. last - r.id <= last - o.id
      BY <2>2, <2>3
    <3>2. r.id \in Nat /\ o.id \in Nat
      BY <1>2
    <3> QED BY <3>1, <3>2, <1>3
  <2> QED BY <2>4
<1>5. NewestWithin(rows, d) \in {r.id : r \in near}
  <2> HIDE DEF near
  <2> QED BY <1>1, <1>4
<1>6. \E r \in Range(rows) : Shows(d, r.id) /\ NewestWithin(rows, d) = r.id
  BY <1>5
<1> QED BY <1>6, EmptySeq DEF Shows, Range

(* Following the tail ends with the newest row painted.                    *)
Jumped(s, t, rows, d) ==
    /\ Settled(t) /\ t.n = s.n /\ Moved(s, t)
    /\ t.follow # s.follow \/ t.view.quiet # s.view.quiet => t.view.atTail # s.view.atTail
    /\ NewestWithin(rows, d) # 0 => NewestWithin(rows, d) \in Painted(d, t.view)

LEMMA JumpShowsNewest ==
    ASSUME NEW rows, NEW last, Numbered(rows, last), NEW d, Len(d) \in Nat, DOMAIN d = 1 .. Len(d),
           d = <<>> <=> Len(d) = 0,
           NEW s, Settled(s), s.n = Len(d)
    PROVE  Jumped(s, JumpToNewestRow(s, rows, d), rows, d)
<1> DEFINE t == JumpToNewestRow(s, rows, d)
           newest == NewestWithin(rows, d)
           at == IF newest # 0 THEN Position(d, newest) - 1 ELSE IF s.view.edge = "top" THEN 0 ELSE Len(d) - 1
           x == IF s.view.edge = "top" THEN at ELSE at - Page + 1
<1>1. t = IF rows = <<>> THEN s
          ELSE IF d = <<>> THEN [s EXCEPT !.view.pending = 0] ELSE SetValue(s, x)
  BY DEF JumpToNewestRow
<1>2. newest # 0 => /\ Shows(d, newest) /\ rows # <<>> /\ d # <<>>
                    /\ Position(d, newest) \in 1 .. Len(d)
  BY NewestShown DEF Shows, Position
<1> HIDE DEF newest, t
<1>3. /\ Agrees(s) /\ s \in State /\ s.view \in View /\ s.view.value \in Nat
      /\ s.view.value <= MaxValue(s.n) /\ Page \in Nat \ {0}
      /\ s.view.atTail = ComputeAtTailEdge(s.view.edge, s.view.value, s.n)
      /\ (s.view.atTail => s.view.pending = 0)
  BY TailAssumption DEF Settled, Agrees, State, View
<1>4. CASE rows = <<>>
  <2>1. t = s
    BY <1>1, <1>4
  <2> QED BY <2>1, <1>2, <1>4 DEF Jumped, Moved, newest, t
<1>5. CASE rows # <<>> /\ d = <<>>
  <2>1. s.view.value = 0 /\ MaxValue(s.n) = 0
    BY <1>3, <1>5 DEF MaxValue
  <2>2. s.view.pending = 0
    BY <1>3, <2>1 DEF ComputeAtTailEdge
  <2>3. t = s
    BY <1>1, <1>3, <1>5, <2>2 DEF State, View
  <2> QED BY <2>3, <1>2, <1>5 DEF Jumped, Moved, newest, t
<1>6. CASE rows # <<>> /\ d # <<>>
  <2>1. at \in Int /\ x \in Int
    BY <1>2, <1>3
  <2>2. t = SetValue(s, x)
    BY <1>1, <1>6
  <2>3. newest # 0 => Position(d, newest) - Page <= x /\ x <= Position(d, newest) - 1
    BY <1>2, <1>3
  <2> HIDE DEF x, at
  <2>4. /\ Settled(t) /\ t.n = s.n /\ t.view.value = Clamp(x, s.n) /\ Moved(s, t)
        /\ t.follow # s.follow \/ t.view.quiet # s.view.quiet => t.view.atTail # s.view.atTail
    BY <1>3, <2>1, <2>2, ValueSet
  <2>5. newest # 0 => newest \in Painted(d, t.view)
    BY <1>2, <2>1, <2>3, <2>4, PaintedThere
  <2> QED BY <2>4, <2>5 DEF Jumped, newest, t
<1> QED BY <1>4, <1>5, <1>6 DEF t

-----------------------------------------------------------------------------
(* 6. The invariant.                                                       *)

(* The missed rows are rows delivered, none of them while the tail is      *)
(* shown or followed, and the pill counts them.                            *)
MissedCounted ==
    /\ missed.sure \subseteq missed.all /\ missed.all \subseteq 1 .. arrived
    /\ view.atTail \/ view.quiet => missed.all = {}
    /\ PillCountsMissedRows

TailInv ==
    /\ Numbered(log, arrived) /\ way \in Way /\ live \in BOOLEAN /\ front \in BOOLEAN
    /\ Settled(TailState(Display(log, way)))
    /\ view.edge = IF way.rev THEN "top" ELSE "bottom"
    /\ MissedCounted
    /\ browse = "yes" => ~follow /\ ~view.user
    /\ "did" \in DOMAIN reading

FollowInv == TailInv /\ FollowingShowsNewest /\ ReadingPositionKept

LEMMA InvHolds == FollowInv => TailShownOrCounted
<1> SUFFICES ASSUME FollowInv PROVE TailShownOrCounted
  OBVIOUS
<1> DEFINE d == Display(log, way)
<1>1. Settled(TailState(d)) /\ live \in BOOLEAN /\ front \in BOOLEAN
  BY DEF FollowInv, TailInv
<1>2. /\ view \in View /\ follow \in BOOLEAN /\ Len(d) \in Nat /\ view.value <= MaxValue(Len(d))
      /\ view.atTail = ComputeAtTailEdge(view.edge, view.value, Len(d))
      /\ view.atTail => view.pending = 0
  <2> HIDE DEF d
  <2> QED BY <1>1 DEF Settled, Agrees, State, TailState
<1>3. MaxValue(Len(d)) \in Nat
  BY <1>2, Bounded
<1>4. FollowTypeOK
  <2>1. view.value \in 0 .. MaxValue(Len(d))
    <3> HIDE DEF d
    <3> QED BY <1>2, <1>3 DEF View
  <2> QED BY <2>1, <1>1, <1>2 DEF FollowTypeOK, View
<1>5. PillCountsMissedRows /\ BrowsingNotYanked /\ FollowingShowsNewest /\ ReadingPositionKept
  BY DEF FollowInv, TailInv, MissedCounted, BrowsingNotYanked
<1> QED BY <1>4, <1>5 DEF TailShownOrCounted

(* The state a step starts from.                                           *)
LEMMA Here ==
    ASSUME TailInv, NEW d, d = Display(log, way)
    PROVE  /\ Settled(TailState(d)) /\ Agrees(TailState(d)) /\ TailState(d) \in State
           /\ Laid(d, Accepted(log, way), way) /\ Distinct(Accepted(log, way))
           /\ Len(d) \in Nat /\ DOMAIN d = 1 .. Len(d) /\ (d = <<>> <=> Len(d) = 0)
           /\ TailState(d).n = Len(d) /\ TailState(d).view = view /\ TailState(d).follow = follow
           /\ view \in View /\ follow \in BOOLEAN /\ view.value \in Nat /\ view.value <= MaxValue(Len(d))
           /\ view.atTail = ComputeAtTailEdge(view.edge, view.value, Len(d))
           /\ (view.atTail \/ view.quiet => view.pending = 0)
<1>1. Settled(TailState(d)) /\ Numbered(log, arrived) /\ way \in Way
  BY DEF TailInv
<1>2. Laid(d, Accepted(log, way), way) /\ Distinct(Accepted(log, way))
  BY <1>1, LogLaid
<1>3. TailState(d).n = Len(d) /\ TailState(d).view = view /\ TailState(d).follow = follow
  BY DEF TailState
<1>4. /\ Agrees(TailState(d)) /\ TailState(d) \in State
      /\ view \in View /\ follow \in BOOLEAN /\ Len(d) \in Nat /\ view.value \in Nat /\ view.value <= MaxValue(Len(d))
      /\ view.atTail = ComputeAtTailEdge(view.edge, view.value, Len(d))
      /\ (view.atTail \/ view.quiet => view.pending = 0)
  BY <1>1, <1>3 DEF Settled, Agrees, State, View
<1>5. DOMAIN d = 1 .. Len(d) /\ (d = <<>> <=> Len(d) = 0)
  <2>1. DOMAIN d = 1 .. Len(d) /\ d \in Seq(Accepted(log, way))
    BY <1>2 DEF Laid
  <2> QED BY <2>1, EmptySeq
<1> QED BY <1>1, <1>2, <1>3, <1>4, <1>5

(* The same lemmas, of the expressions the actions are written with.       *)
OnlyMarked(s, t, b) ==
    /\ Settled(t) /\ Agrees(t) /\ t.n = s.n /\ t.follow = s.follow /\ t.view.value = s.view.value
    /\ t.view.edge = s.view.edge /\ t.view.quiet = s.view.quiet /\ t.view.user = b
    /\ t.view.pending = s.view.pending /\ t.view.atTail = s.view.atTail

LEMMA MarkSet ==
    ASSUME NEW s, Settled(s), NEW b \in BOOLEAN
    PROVE  OnlyMarked(s, [s EXCEPT !.view.user = b], b)
<1> DEFINE v == [s.view EXCEPT !.user = b]
           t == [s EXCEPT !.view.user = b]
<1>1. s \in State /\ s.view \in View
  BY DEF Settled, Agrees, State
<1>2. t = [s EXCEPT !.view = v]
  BY <1>1 DEF State
<1> HIDE DEF t
<1>3. /\ v \in View /\ v.value = s.view.value /\ v.edge = s.view.edge /\ v.atTail = s.view.atTail
      /\ v.user = b /\ v.quiet = s.view.quiet /\ v.pending = s.view.pending
  BY <1>1 DEF View
<1> HIDE DEF v
<1>4. t \in State /\ t.view = v /\ t.n = s.n /\ t.follow = s.follow
  BY <1>1, <1>2, <1>3 DEF State
<1>5. OnlyMarked(s, t, b)
  BY <1>3, <1>4 DEF Settled, Agrees, OnlyMarked
<1> QED BY <1>5 DEF t

OnlyFollow(s, t, on) ==
    /\ Agrees(t) /\ t.n = s.n /\ t.follow = on
    /\ t.view.value = s.view.value /\ t.view.edge = s.view.edge
    /\ t.view.atTail = s.view.atTail /\ t.view.user = s.view.user
    /\ t.view.quiet = IF s.follow = on THEN s.view.quiet ELSE on
    /\ t.view.pending = s.view.pending \/ (t.view.pending = 0 /\ t.view.quiet)
    /\ Settled(s) => Settled(t)

LEMMA FollowIsSet ==
    ASSUME NEW s, Agrees(s), NEW on \in BOOLEAN
    PROVE  OnlyFollow(s, SetFollow(s, on), on)
<1> DEFINE t == SetFollow(s, on)
<1>0. t = SetFollow(s, on)
  OBVIOUS
<1> HIDE DEF t
<1>1. OnlyFollow(s, t, on)
  BY <1>0, FollowSet DEF OnlyFollow, Settled
<1> QED BY <1>1 DEF t

Scrolled(s, t, x) ==
    /\ Settled(t) /\ t.n = s.n /\ t.view.value = Clamp(x, s.n) /\ Moved(s, t)
    /\ t.follow # s.follow \/ t.view.quiet # s.view.quiet => t.view.atTail # s.view.atTail

LEMMA ValueIsSet ==
    ASSUME NEW s, Agrees(s), NEW x \in Int
    PROVE  Scrolled(s, SetValue(s, x), x)
<1> DEFINE t == SetValue(s, x)
<1>0. t = SetValue(s, x)
  OBVIOUS
<1> HIDE DEF t
<1>1. Scrolled(s, t, x)
  BY <1>0, ValueSet DEF Scrolled
<1> QED BY <1>1 DEF t

(* What a step without new rows has to show.                               *)
Silent(t, reset) ==
    ~t.view.atTail /\ ~t.view.quiet => t.view.pending = IF reset THEN 0 ELSE view.pending

LEMMA NothingMissed ==
    ASSUME TailInv, NEW t, NEW did, NEW d, NEW reset \in BOOLEAN, Settle(t, did, d, {}, reset),
           Settled(t), Silent(t, reset), arrived' = arrived
    PROVE  MissedCounted'
<1>1. view' = t.view /\ t.view \in View
  BY DEF Settle, Settled, Agrees, State
<1>2. (t.view.atTail \/ t.view.quiet => t.view.pending = 0)
  BY DEF Settled, Agrees
<1>3. missed.sure \subseteq missed.all /\ missed.all \subseteq 1 .. arrived /\ PillCountsMissedRows
      /\ (view.atTail \/ view.quiet => missed.all = {})
  BY DEF TailInv, MissedCounted
<1>4. Cardinality({}) = 0 /\ 0 \in 0 .. 0
  BY FS_EmptySet
<1>5. CASE t.view.atTail \/ t.view.quiet
  <2>1. missed' = [all |-> {}, sure |-> {}]
    BY <1>5 DEF Settle
  <2> QED BY <1>1, <1>2, <1>4, <1>5, <2>1 DEF MissedCounted, PillCountsMissedRows
<1>6. CASE ~(t.view.atTail \/ t.view.quiet) /\ reset
  <2>1. missed' = [all |-> {}, sure |-> {}]
    BY <1>6 DEF Settle
  <2>2. view'.pending = 0
    BY <1>1, <1>6 DEF Silent
  <2> QED BY <1>1, <1>4, <1>6, <2>1, <2>2 DEF MissedCounted, PillCountsMissedRows
<1>7. CASE ~(t.view.atTail \/ t.view.quiet) /\ ~reset
  <2>1. missed'.all = missed.all /\ missed'.sure = missed.sure
    BY <1>7 DEF Settle
  <2>2. view'.pending = view.pending
    BY <1>1, <1>7 DEF Silent
  <2>3. view.pending \in Cardinality(missed.sure) .. Cardinality(missed.all)
    <3>1. CASE view.quiet
      <4>1. missed.all = {} /\ missed.sure = {}
        BY <1>3, <3>1
      <4>2. view.pending = 0
        BY <1>3, <3>1 DEF PillCountsMissedRows
      <4> QED BY <1>4, <4>1, <4>2
    <3>2. CASE ~view.quiet
      BY <1>3, <3>2 DEF PillCountsMissedRows
    <3> QED BY <3>1, <3>2
  <2> QED BY <1>1, <1>3, <1>7, <2>1, <2>2, <2>3 DEF MissedCounted, PillCountsMissedRows
<1> QED BY <1>5, <1>6, <1>7

LEMMA StepSettles ==
    ASSUME TailInv, NEW t, NEW did, NEW d, NEW new, NEW reset, Settle(t, did, d, new, reset),
           Settled(t), t.n = Len(Display(log', way')), MissedCounted',
           Numbered(log', arrived'), way' \in Way, live' \in BOOLEAN, front' \in BOOLEAN,
           t.view.edge = IF way'.rev THEN "top" ELSE "bottom",
           browse' = "yes" => ~t.follow /\ ~t.view.user
    PROVE  TailInv' /\ reading'.did = did
<1>1. view' = t.view /\ follow' = t.follow /\ t \in State /\ reading'.did = did /\ "did" \in DOMAIN reading'
  BY DEF Settle, Settled, Agrees
<1>2. TailState(Display(log, way))' = t
  BY <1>1 DEF TailState, State
<1>3. Settled(TailState(Display(log, way)))'
  BY <1>2 DEF Settled, Agrees
<1> QED BY <1>1, <1>3 DEF TailInv

(* A step that is neither a batch nor a new layout.                        *)
PlainTo(t, reset) ==
    /\ Settled(t) /\ t.n = Len(Display(log', way')) /\ Silent(t, reset) /\ arrived' = arrived
    /\ Numbered(log', arrived') /\ way' \in Way /\ live' \in BOOLEAN /\ front' \in BOOLEAN
    /\ t.view.edge = IF way'.rev THEN "top" ELSE "bottom"
    /\ browse' = "yes" => ~t.follow /\ ~t.view.user

LEMMA PlainStep ==
    ASSUME TailInv, NEW t, NEW did, NEW d, NEW reset \in BOOLEAN, Settle(t, did, d, {}, reset),
           did # "batch", did # "layout", PlainTo(t, reset)
    PROVE  FollowInv'
<1>1. MissedCounted'
  BY NothingMissed DEF PlainTo
<1>2. TailInv' /\ reading'.did = did
  BY <1>1, StepSettles DEF PlainTo
<1> QED BY <1>2 DEF FollowInv, FollowingShowsNewest, ReadingPositionKept

(* Where the rows stay, a step only moves the view.                        *)
LEMMA SameRows ==
    ASSUME TailInv, UNCHANGED <<log, way, live, front, arrived>>,
           NEW t, Settled(t), t.n = Len(Display(log, way)), t.view.edge = view.edge,
           NEW reset, Silent(t, reset), browse' = "yes" => ~t.follow /\ ~t.view.user
    PROVE  PlainTo(t, reset)
BY DEF TailInv, PlainTo

-----------------------------------------------------------------------------
(* 7. The steps without new rows.                                          *)

LEMMA MovedIsSilent ==
    ASSUME NEW s, NEW t, Moved(s, t), s.view.pending = view.pending
    PROVE  Silent(t, FALSE)
BY DEF Moved, Silent

LEMMA WheelStep ==
    ASSUME TailInv, NEW to, ScrollByWheel(to)
    PROVE  FollowInv'
<1> DEFINE d == Display(log, way)
           r == TailState(d)
           s0 == [r EXCEPT !.view.user = TRUE]
           s == SetValue(s0, to)
           t == [s EXCEPT !.view.user = FALSE]
<1>1. /\ Settled(r) /\ r.n = Len(d) /\ r.view = view /\ Len(d) \in Nat
  <2> HIDE DEF d
  <2> QED BY Here DEF d
<1>2. Settle(t, "user", d, {}, FALSE) /\ to \in 0 .. MaxValue(Len(d)) /\ browse' = "no"
      /\ UNCHANGED <<log, way, live, front, arrived>>
  BY DEF ScrollByWheel, Browsing
<1>3. to \in Int /\ TRUE \in BOOLEAN /\ FALSE \in BOOLEAN
  BY <1>1, <1>2, Bounded
<1> HIDE DEF d, r
<1>4. OnlyMarked(r, s0, TRUE)
  BY <1>1, <1>3, MarkSet
<1> HIDE DEF s0
<1>5. Scrolled(s0, s, to)
  BY <1>3, <1>4, ValueIsSet DEF OnlyMarked
<1> HIDE DEF s
<1>6. OnlyMarked(s, t, FALSE)
  BY <1>3, <1>5, MarkSet DEF Scrolled
<1> HIDE DEF t
<1>7. Settled(t) /\ t.n = Len(d) /\ t.view.edge = view.edge /\ ~t.view.user
  BY <1>1, <1>4, <1>5, <1>6 DEF OnlyMarked, Scrolled, Moved
<1>8. Silent(t, FALSE)
  BY <1>1, <1>4, <1>5, <1>6 DEF OnlyMarked, Scrolled, Moved, Silent
<1>9. PlainTo(t, FALSE)
  BY <1>2, <1>7, <1>8, SameRows DEF d
<1> QED BY <1>2, <1>3, <1>9, PlainStep

LEMMA BarStep ==
    ASSUME TailInv, NEW to, ScrollByBar(to)
    PROVE  FollowInv'
<1> DEFINE d == Display(log, way)
           r == TailState(d)
           s0 == [r EXCEPT !.view.user = TRUE]
           t == SetValue(s0, to)
<1>1. /\ Settled(r) /\ r.n = Len(d) /\ r.view = view /\ Len(d) \in Nat
  <2> HIDE DEF d
  <2> QED BY Here DEF d
<1>2. Settle(t, "user", d, {}, FALSE) /\ to \in 0 .. MaxValue(Len(d)) /\ browse' = "no"
      /\ UNCHANGED <<log, way, live, front, arrived>>
  BY DEF ScrollByBar, Browsing
<1>3. to \in Int /\ TRUE \in BOOLEAN /\ FALSE \in BOOLEAN
  BY <1>1, <1>2, Bounded
<1> HIDE DEF d, r
<1>4. OnlyMarked(r, s0, TRUE)
  BY <1>1, <1>3, MarkSet
<1> HIDE DEF s0
<1>5. Scrolled(s0, t, to)
  BY <1>3, <1>4, ValueIsSet DEF OnlyMarked
<1> HIDE DEF t
<1>7. Settled(t) /\ t.n = Len(d) /\ t.view.edge = view.edge
  BY <1>1, <1>4, <1>5 DEF OnlyMarked, Scrolled, Moved
<1>8. Silent(t, FALSE)
  BY <1>1, <1>4, <1>5 DEF OnlyMarked, Scrolled, Moved, Silent
<1>9. PlainTo(t, FALSE)
  BY <1>2, <1>7, <1>8, SameRows DEF d
<1> QED BY <1>2, <1>3, <1>9, PlainStep

LEMMA ToggleStep ==
    ASSUME TailInv, ToggleFollow
    PROVE  FollowInv'
<1> DEFINE d == Display(log, way)
           r == TailState(d)
           t == SetFollow(r, ~follow)
<1>1. Settled(r) /\ r.n = Len(d) /\ r.view = view /\ follow \in BOOLEAN
  <2> HIDE DEF d
  <2> QED BY Here DEF d
<1>2. Settle(t, "user", d, {}, FALSE) /\ browse' = "no" /\ UNCHANGED <<log, way, live, front, arrived>>
  BY DEF ToggleFollow, Browsing
<1>3. (~follow) \in BOOLEAN /\ FALSE \in BOOLEAN
  OBVIOUS
<1> HIDE DEF d, r
<1>4. OnlyFollow(r, t, ~follow)
  BY <1>1, <1>3, FollowIsSet DEF Settled
<1> HIDE DEF t
<1>7. Settled(t) /\ t.n = Len(d) /\ t.view.edge = view.edge
  BY <1>1, <1>4 DEF OnlyFollow
<1>8. Silent(t, FALSE)
  BY <1>1, <1>4 DEF OnlyFollow, Silent
<1>9. PlainTo(t, FALSE)
  BY <1>2, <1>7, <1>8, SameRows DEF d
<1> QED BY <1>2, <1>3, <1>9, PlainStep

LEMMA RailStep ==
    ASSUME TailInv, NEW at, RailClicked(at)
    PROVE  FollowInv'
<1> DEFINE d == Display(log, way)
           r == TailState(d)
           s0 == SetFollow(r, FALSE)
           x == at - Page \div 2
           t == SetValue(s0, x)
<1>1. /\ Settled(r) /\ r.n = Len(d) /\ r.view = view /\ r.follow = follow /\ Len(d) \in Nat
      /\ (view.quiet => view.pending = 0)
  <2> HIDE DEF d
  <2> QED BY Here DEF d
<1>2. Settle(t, "browse", d, {}, FALSE) /\ at \in 0 .. Len(d) - 1 /\ browse' = (IF view.user THEN "flag" ELSE "yes")
      /\ UNCHANGED <<log, way, live, front, arrived>>
  BY DEF RailClicked, ScrollToProxyRow, Browsing
<1>3. x \in Int /\ FALSE \in BOOLEAN
  BY <1>1, <1>2, TailAssumption
<1> HIDE DEF d, r, x
<1>4. OnlyFollow(r, s0, FALSE)
  BY <1>1, <1>3, FollowIsSet DEF Settled
<1> HIDE DEF s0
<1>5. Scrolled(s0, t, x)
  BY <1>3, <1>4, ValueIsSet DEF OnlyFollow
<1> HIDE DEF t
<1>6. s0.view.pending = view.pending
  <2>1. CASE s0.view.pending = r.view.pending
    BY <2>1, <1>1
  <2>2. CASE s0.view.pending = 0 /\ s0.view.quiet
    <3>1. s0.view.quiet = IF r.follow = FALSE THEN r.view.quiet ELSE FALSE
      BY <1>4 DEF OnlyFollow
    <3>2. view.quiet
      BY <2>2, <3>1, <1>1
    <3> QED BY <2>2, <3>2, <1>1
  <2> QED BY <2>1, <2>2, <1>4 DEF OnlyFollow
<1>7. Settled(t) /\ t.n = Len(d) /\ t.view.edge = view.edge
  BY <1>1, <1>4, <1>5 DEF OnlyFollow, Scrolled, Moved
<1>8. Silent(t, FALSE)
  BY <1>5, <1>6, MovedIsSilent DEF Scrolled
<1>9. browse' = "yes" => ~t.follow /\ ~t.view.user
  <2> SUFFICES ASSUME browse' = "yes" PROVE ~t.follow /\ ~t.view.user
    OBVIOUS
  <2>1. ~view.user
    BY <1>2
  <2>2. s0.follow = FALSE /\ s0.view.user = view.user
    BY <1>1, <1>4 DEF OnlyFollow
  <2> QED BY <2>1, <2>2, <1>5 DEF Scrolled, Moved
<1>10. PlainTo(t, FALSE)
  BY <1>2, <1>7, <1>8, <1>9, SameRows DEF d
<1> QED BY <1>2, <1>3, <1>10, PlainStep

LEMMA SelectStep ==
    ASSUME TailInv, NEW at, SelectShownRow(at)
    PROVE  FollowInv'
<1> DEFINE d == Display(log, way)
           r == TailState(d)
           x == at - Page \div 2
           t == SetValue(r, x)
<1>1. /\ Settled(r) /\ Agrees(r) /\ r.n = Len(d) /\ r.view = view /\ r.follow = follow /\ Len(d) \in Nat
  <2> HIDE DEF d
  <2> QED BY Here DEF d
<1>2. Settle(t, "select", d, {}, FALSE) /\ at \in 0 .. Len(d) - 1
      /\ browse' = (IF view.user /\ browse = "yes" THEN "flag" ELSE browse)
      /\ UNCHANGED <<log, way, live, front, arrived>>
  BY DEF SelectShownRow
<1>3. x \in Int /\ FALSE \in BOOLEAN
  BY <1>1, <1>2, TailAssumption
<1> HIDE DEF d, r, x
<1>5. Scrolled(r, t, x)
  BY <1>1, <1>3, ValueIsSet
<1> HIDE DEF t
<1>7. Settled(t) /\ t.n = Len(d) /\ t.view.edge = view.edge
  BY <1>1, <1>5 DEF Scrolled, Moved
<1>8. Silent(t, FALSE)
  BY <1>1, <1>5, MovedIsSilent DEF Scrolled
<1>9. browse' = "yes" => ~t.follow /\ ~t.view.user
  <2> SUFFICES ASSUME browse' = "yes" PROVE ~t.follow /\ ~t.view.user
    OBVIOUS
  <2>1. browse = "yes"
    BY <1>2
  <2>2. ~follow /\ ~view.user
    BY <2>1 DEF TailInv
  <2> QED BY <1>1, <2>2, <1>5 DEF Scrolled, Moved
<1>10. PlainTo(t, FALSE)
  BY <1>2, <1>7, <1>8, <1>9, SameRows DEF d
<1> QED BY <1>2, <1>3, <1>10, PlainStep

OnlyCleared(s, t) ==
    /\ Settled(t) /\ Agrees(t) /\ t.n = s.n /\ t.follow = s.follow /\ t.view.value = s.view.value
    /\ t.view.edge = s.view.edge /\ t.view.quiet = s.view.quiet /\ t.view.user = s.view.user
    /\ t.view.pending = 0 /\ t.view.atTail = s.view.atTail

LEMMA CountCleared ==
    ASSUME NEW s, Settled(s)
    PROVE  OnlyCleared(s, [s EXCEPT !.view.pending = 0])
<1> DEFINE v == [s.view EXCEPT !.pending = 0]
           t == [s EXCEPT !.view.pending = 0]
<1>1. s \in State /\ s.view \in View
  BY DEF Settled, Agrees, State
<1>2. t = [s EXCEPT !.view = v]
  BY <1>1 DEF State
<1> HIDE DEF t
<1>3. /\ v \in View /\ v.value = s.view.value /\ v.edge = s.view.edge /\ v.atTail = s.view.atTail
      /\ v.user = s.view.user /\ v.quiet = s.view.quiet /\ v.pending = 0
  BY <1>1 DEF View
<1> HIDE DEF v
<1>4. t \in State /\ t.view = v /\ t.n = s.n /\ t.follow = s.follow
  BY <1>1, <1>2, <1>3 DEF State
<1>5. OnlyCleared(s, t)
  BY <1>3, <1>4 DEF Settled, Agrees, OnlyCleared
<1> QED BY <1>5 DEF t

LEMMA PillStep ==
    ASSUME TailInv, PillClicked
    PROVE  FollowInv'
<1> DEFINE d == Display(log, way)
           r == TailState(d)
           s0 == [r EXCEPT !.view.pending = 0]
           s == JumpToNewestRow(s0, log, d)
           t == IF live THEN SetFollow(s, TRUE) ELSE s
<1>1. /\ Settled(r) /\ r.n = Len(d) /\ r.view = view /\ r.follow = follow
      /\ Len(d) \in Nat /\ DOMAIN d = 1 .. Len(d) /\ (d = <<>> <=> Len(d) = 0)
  <2> HIDE DEF d
  <2> QED BY Here DEF d
<1>2. Settle(t, "user", d, {}, TRUE) /\ browse' = "no" /\ UNCHANGED <<log, way, live, front, arrived>>
  BY DEF PillClicked, Browsing
<1>3. TRUE \in BOOLEAN /\ Numbered(log, arrived)
  BY DEF TailInv
<1> HIDE DEF d, r
<1>4. OnlyCleared(r, s0)
  BY <1>1, CountCleared
<1> HIDE DEF s0
<1>5. Jumped(s0, s, log, d)
  BY <1>1, <1>3, <1>4, JumpShowsNewest DEF OnlyCleared
<1> HIDE DEF s
<1>6. /\ Settled(t) /\ t.n = Len(d) /\ t.view.edge = view.edge
      /\ t.view.atTail = s.view.atTail /\ (t.view.pending = s.view.pending \/ (t.view.pending = 0 /\ t.view.quiet))
  <2>1. Settled(s) /\ s.n = Len(d) /\ s.view.edge = view.edge
    BY <1>1, <1>4, <1>5 DEF Jumped, Moved, OnlyCleared
  <2>2. CASE live
    <3> DEFINE u == SetFollow(s, TRUE)
    <3>1. OnlyFollow(s, u, TRUE)
      BY <2>1, <1>3, FollowIsSet DEF Settled
    <3> HIDE DEF u
    <3>2. t = u
      BY <2>2 DEF t, u
    <3> HIDE DEF t
    <3> QED BY <2>1, <3>1, <3>2 DEF OnlyFollow
  <2>3. CASE ~live
    BY <2>1, <2>3
  <2> QED BY <2>2, <2>3
<1>7. s.view.pending = 0
  BY <1>4, <1>5 DEF Jumped, Moved, OnlyCleared
<1> HIDE DEF t
<1>8. Silent(t, TRUE)
  BY <1>6, <1>7 DEF Silent
<1>9. PlainTo(t, TRUE)
  BY <1>2, <1>6, <1>8, SameRows DEF d
<1> QED BY <1>2, <1>3, <1>9, PlainStep

LEMMA ReturnStep ==
    ASSUME TailInv, Return
    PROVE  FollowInv'
<1> DEFINE d == Display(log, way)
           r == TailState(d)
           v == SetPendingNewRowsSuppressed(view, follow)
           t == [r EXCEPT !.view = v]
<1>1. /\ Settled(r) /\ Agrees(r) /\ r.n = Len(d) /\ r.view = view /\ r.follow = follow /\ follow \in BOOLEAN
      /\ r \in State /\ view \in View /\ (view.quiet => view.pending = 0)
  <2> HIDE DEF d
  <2> QED BY Here DEF d
<1>2. Settle(t, "return", d, {}, FALSE) /\ front' = TRUE /\ UNCHANGED <<log, way, live, arrived, browse>>
  BY DEF Return, TailState
<1>3. FALSE \in BOOLEAN
  OBVIOUS
<1> HIDE DEF d, r
<1>4. /\ v \in View /\ v.value = view.value /\ v.edge = view.edge /\ v.atTail = view.atTail /\ v.user = view.user
      /\ v.quiet = follow /\ v.pending = (IF view.quiet # follow /\ follow THEN 0 ELSE view.pending)
  <2>1. CASE view.quiet = follow
    <3>1. v = view
      BY <2>1 DEF SetPendingNewRowsSuppressed
    <3> HIDE DEF v
    <3> QED BY <1>1, <2>1, <3>1
  <2>2. CASE view.quiet # follow
    <3>1. v = [view EXCEPT !.quiet = follow, !.pending = IF follow THEN 0 ELSE view.pending]
      BY <2>2 DEF SetPendingNewRowsSuppressed
    <3> HIDE DEF v
    <3>2. (IF follow THEN 0 ELSE view.pending) \in Nat
      BY <1>1 DEF View
    <3> QED BY <1>1, <2>2, <3>1, <3>2 DEF View
  <2> QED BY <2>1, <2>2
<1> HIDE DEF v
<1>5. t \in State /\ t.view = v /\ t.n = r.n /\ t.follow = follow
  BY <1>1, <1>4 DEF State
<1> HIDE DEF t
<1>7. Settled(t) /\ t.n = Len(d) /\ t.view.edge = view.edge
  <2>1. t.view.atTail = ComputeAtTailEdge(t.view.edge, t.view.value, t.n)
    BY <1>1, <1>4, <1>5 DEF Agrees
  <2>2. t.view.atTail \/ t.view.quiet => t.view.pending = 0
    BY <1>1, <1>4, <1>5 DEF Agrees
  <2> QED BY <2>1, <2>2, <1>1, <1>4, <1>5 DEF Settled, Agrees
<1>8. Silent(t, FALSE)
  BY <1>4, <1>5 DEF Silent
<1>9. browse' = "yes" => ~t.follow /\ ~t.view.user
  BY <1>2, <1>4, <1>5 DEF TailInv
<1>10. PlainTo(t, FALSE)
  BY <1>2, <1>7, <1>8, <1>9 DEF d, PlainTo, TailInv
<1> QED BY <1>2, <1>3, <1>10, PlainStep

(* The shared action changes while the view is not told.                   *)
LEMMA ActionChanged ==
    ASSUME TailInv, UNCHANGED <<log, way, view, arrived, missed>>, follow' \in BOOLEAN,
           live' \in BOOLEAN, front' \in BOOLEAN, browse' = "no",
           NEW did, did # "batch", did # "layout", reading' = [reading EXCEPT !.did = did]
    PROVE  FollowInv'
<1> DEFINE d == Display(log, way)
<1>1. Settled(TailState(d)) /\ TailState(d) \in State /\ TailState(d).n = Len(d) /\ TailState(d).view = view
  <2> HIDE DEF d
  <2> QED BY Here DEF d
<1>2. reading'.did = did /\ "did" \in DOMAIN reading'
  BY DEF TailInv
<1>3. Settled(TailState(Display(log, way)))'
  <2> DEFINE t == [n |-> Len(d), view |-> view, follow |-> follow']
  <2>1. TailState(Display(log, way))' = t
    BY DEF TailState
  <2>2. Settled(t)
    <3>1. t \in State /\ t.view = view /\ t.n = Len(d)
      <4> HIDE DEF d
      <4> QED BY <1>1 DEF State
    <3> HIDE DEF t, d
    <3> QED BY <1>1, <3>1 DEF Settled, Agrees
  <2> HIDE DEF t
  <2> QED BY <2>1, <2>2 DEF Settled, Agrees
<1>4. MissedCounted'
  BY DEF TailInv, MissedCounted, PillCountsMissedRows
<1>5. Numbered(log, arrived)'
  BY DEF TailInv, Numbered
<1>6. TailInv'
  BY <1>2, <1>3, <1>4, <1>5 DEF TailInv
<1> QED BY <1>2, <1>6 DEF FollowInv, FollowingShowsNewest, ReadingPositionKept

LEMMA LeaveStep ==
    ASSUME TailInv, NEW on \in BOOLEAN, Leave(on)
    PROVE  FollowInv'
<1>1. /\ UNCHANGED <<log, way, view, live, arrived, missed>> /\ follow' = on /\ front' = FALSE /\ browse' = "no"
      /\ reading' = [reading EXCEPT !.did = "leave"] /\ live' \in BOOLEAN
  BY DEF Leave, Browsing, TailInv
<1>2. "leave" # "batch" /\ "leave" # "layout"
  OBVIOUS
<1> QED BY <1>1, <1>2, ActionChanged

LEMMA EndsStep ==
    ASSUME TailInv, StreamEnds
    PROVE  FollowInv'
<1>1. /\ UNCHANGED <<log, way, view, front, arrived, missed>> /\ follow' = (front \/ follow) /\ live' = FALSE
      /\ browse' = "no" /\ reading' = [reading EXCEPT !.did = "end"] /\ front' \in BOOLEAN
  BY DEF StreamEnds, Browsing, TailInv
<1>2. follow' \in BOOLEAN
  <2>1. follow' = (front \/ follow)
    BY <1>1
  <2>2. (front \/ follow) \in BOOLEAN
    OBVIOUS
  <2> QED BY <2>1, <2>2
<1>3. "end" # "batch" /\ "end" # "layout"
  OBVIOUS
<1> QED BY <1>1, <1>2, <1>3, ActionChanged

Ranged(s, t, n) ==
    /\ Settled(t) /\ t.n = n /\ t.view.value = Clamp(s.view.value, n) /\ Moved(s, t)
    /\ t.follow # s.follow \/ t.view.quiet # s.view.quiet => t.view.atTail
    /\ Clamp(s.view.value, n) = s.view.value =>
          t.follow = s.follow /\ t.view.quiet = s.view.quiet /\ t.view.user = s.view.user

LEMMA RangeIsSet ==
    ASSUME NEW s, Settled(s), NEW n \in Nat
    PROVE  Ranged(s, SetRange(s, n), n)
<1> DEFINE t == SetRange(s, n)
<1>0. t = SetRange(s, n)
  OBVIOUS
<1> HIDE DEF t
<1>1. Ranged(s, t, n)
  BY <1>0, RangeSet DEF Ranged
<1> QED BY <1>1 DEF t

Turned(s, t, edge) ==
    /\ Settled(t) /\ t.n = s.n /\ t.follow = s.follow /\ t.view.value = s.view.value
    /\ t.view.edge = edge /\ t.view.quiet = s.view.quiet /\ t.view.user = s.view.user
    /\ t.view.pending = s.view.pending \/ t.view.pending = 0
    /\ edge # s.view.edge => t.view.pending = 0
    /\ edge = s.view.edge => t.view.pending = s.view.pending /\ t.view.atTail = s.view.atTail

LEMMA EdgeIsSet ==
    ASSUME NEW s, Settled(s), NEW edge \in {"top", "bottom"}
    PROVE  Turned(s, SetTailEdge(s, edge), edge)
<1> DEFINE t == SetTailEdge(s, edge)
<1>0. t = SetTailEdge(s, edge)
  OBVIOUS
<1> HIDE DEF t
<1>1. Turned(s, t, edge)
  BY <1>0, EdgeSet DEF Turned
<1> QED BY <1>1 DEF t

LEMMA EmptyDisplay ==
    ASSUME NEW w \in Way, NEW last \in Nat
    PROVE  Numbered(<<>>, last) /\ Display(<<>>, w) = <<>> /\ Len(Display(<<>>, w)) = 0
<1>1. Numbered(<<>>, last)
  BY DEF Numbered
<1>2. Laid(Display(<<>>, w), Accepted(<<>>, w), w)
  BY <1>1, LogLaid
<1>3. Accepted(<<>>, w) = {}
  BY DEF Accepted, Range
<1> QED BY <1>1, <1>2, <1>3, FS_EmptySet DEF Laid

LEMMA StartsStep ==
    ASSUME TailInv, StreamStarts
    PROVE  FollowInv'
<1> DEFINE d == Display(log, way)
           r == TailState(d)
           s0 == [r EXCEPT !.view.pending = 0]
           s == SetRange(s0, 0)
           t == SetTailEdge(s, view.edge)
<1>1. /\ Settled(r) /\ r \in State /\ r.n = Len(d) /\ r.view = view /\ r.follow = follow /\ view \in View
  <2> HIDE DEF d
  <2> QED BY Here DEF d
<1>2. /\ Settle(t, "start", <<>>, {}, TRUE) /\ browse' = "no" /\ live' = TRUE /\ log' = <<>>
      /\ UNCHANGED <<way, front, arrived>>
  <2> DEFINE empty == [n |-> 0, view |-> [view EXCEPT !.pending = 0], follow |-> follow]
  <2>1. [empty EXCEPT !.n = Len(d)] = s0
    <3>1. [empty EXCEPT !.n = Len(d)] = [n |-> Len(d), view |-> [view EXCEPT !.pending = 0], follow |-> follow]
      OBVIOUS
    <3>2. s0 = [n |-> Len(d), view |-> [view EXCEPT !.pending = 0], follow |-> follow]
      <4>1. r = [n |-> Len(d), view |-> view, follow |-> follow]
        BY DEF TailState
      <4> HIDE DEF r
      <4> QED BY <4>1
    <3> QED BY <3>1, <3>2
  <2>2. Settle(SetTailEdge(SetRange([empty EXCEPT !.n = Len(d)], 0), view.edge), "start", <<>>, {}, TRUE)
    BY DEF StreamStarts
  <2>3. Settle(t, "start", <<>>, {}, TRUE)
    <3> HIDE DEF empty, s0
    <3> QED BY <2>1, <2>2
  <2> QED BY <2>3 DEF StreamStarts, Browsing
<1>3. TRUE \in BOOLEAN /\ 0 \in Nat /\ way \in Way /\ arrived \in Nat
  BY DEF TailInv, Numbered
<1> HIDE DEF d, r
<1>4. OnlyCleared(r, s0)
  BY <1>1, CountCleared
<1> HIDE DEF s0
<1>5. Ranged(s0, s, 0)
  BY <1>3, <1>4, RangeIsSet DEF OnlyCleared
<1> HIDE DEF s
<1>6. view.edge \in {"top", "bottom"} /\ s.view.edge = view.edge /\ Settled(s)
  BY <1>1, <1>4, <1>5 DEF Ranged, Moved, OnlyCleared, View
<1>7. Turned(s, t, view.edge)
  BY <1>6, EdgeIsSet
<1> HIDE DEF t
<1>8. Settled(t) /\ t.n = 0 /\ t.view.edge = view.edge /\ t.view.pending = 0
  BY <1>4, <1>5, <1>6, <1>7 DEF Turned, Ranged, Moved, OnlyCleared
<1>9. Silent(t, TRUE)
  BY <1>8 DEF Silent
<1>10. Numbered(log', arrived') /\ Len(Display(log', way')) = 0
  BY <1>2, <1>3, EmptyDisplay
<1>11. PlainTo(t, TRUE)
  BY <1>2, <1>8, <1>9, <1>10 DEF PlainTo, TailInv
<1> QED BY <1>2, <1>3, <1>11, PlainStep

(* The reader's row after a new layout: on top, or as near as the scroll   *)
(* bar reaches.                                                            *)
LEMMA LayoutStep ==
    ASSUME TailInv, NEW w \in Way, ChangeLayout(w)
    PROVE  FollowInv'
<1> DEFINE b == Display(log, way)
           d == Display(log, w)
           r == TailState(b)
           t == Relayout(r, b, d)
<1>1. /\ Settled(r) /\ r.n = Len(b) /\ r.view = view /\ r.follow = follow
      /\ Len(b) \in Nat /\ DOMAIN b = 1 .. Len(b) /\ (b = <<>> <=> Len(b) = 0)
      /\ view.atTail = ComputeAtTailEdge(view.edge, view.value, Len(b))
  <2> HIDE DEF b
  <2> QED BY Here DEF b
<1>2. /\ Settle(t, "layout", d, {}, FALSE) /\ way' = w /\ w.rev = way.rev
      /\ browse' = (IF view.user /\ browse = "yes" THEN "flag" ELSE browse)
      /\ UNCHANGED <<log, live, front, arrived>>
  BY DEF ChangeLayout
<1>3. FALSE \in BOOLEAN /\ Numbered(log, arrived) /\ way \in Way /\ view.edge = IF way.rev THEN "top" ELSE "bottom"
  BY DEF TailInv
<1>4. Laid(d, Accepted(log, w), w) /\ Laid(b, Accepted(log, way), way)
  BY <1>3, LogLaid
<1> HIDE DEF b, d, r
<1>5. Len(d) \in Nat /\ DOMAIN d = 1 .. Len(d)
  BY <1>4 DEF Laid
<1>6. Rearranged(r, t, b, d)
  BY <1>1, <1>5, LaidOutAnew
<1> HIDE DEF t
<1>7. Settled(t) /\ t.n = Len(d) /\ t.view.edge = view.edge
  BY <1>1, <1>6 DEF Rearranged, Moved
<1>8. Silent(t, FALSE)
  BY <1>1, <1>6, MovedIsSilent DEF Rearranged
<1>9. browse' = "yes" => ~t.follow /\ ~t.view.user
  <2> SUFFICES ASSUME browse' = "yes" PROVE ~t.follow /\ ~t.view.user
    OBVIOUS
  <2>1. browse = "yes"
    BY <1>2
  <2>2. ~follow /\ ~view.user
    BY <2>1 DEF TailInv
  <2> QED BY <1>1, <2>2, <1>6 DEF Rearranged, Moved
<1>10. t.n = Len(Display(log', way'))
  BY <1>2, <1>7 DEF d
<1>11. PlainTo(t, FALSE)
  BY <1>2, <1>3, <1>7, <1>8, <1>9, <1>10 DEF PlainTo, TailInv
<1>12. MissedCounted'
  BY <1>2, <1>3, <1>11, NothingMissed DEF PlainTo
<1>13. TailInv' /\ reading'.did = "layout"
  BY <1>2, <1>11, <1>12, StepSettles DEF PlainTo
<1>14. FollowingShowsNewest'
  BY <1>13 DEF FollowingShowsNewest
<1>15. ReadingPositionKept'
  <2> DEFINE id == reading'.top
  <2>1. /\ reading'.top = (IF b = <<>> THEN 0 ELSE b[view.value + 1].id)
        /\ reading'.away = (~view.atTail /\ view.edge = "top" /\ ~follow)
        /\ view' = t.view
    BY <1>2 DEF Settle, b
  <2> SUFFICES ASSUME reading'.away, Shows(d, id) PROVE id \in Painted(d, t.view)
    BY <1>2, <2>1 DEF ReadingPositionKept, d
  <2> HIDE DEF id
  <2>2. Position(d, id) \in 1 .. Len(d) /\ id # 0
    <3>1. Position(d, id) \in 1 .. Len(d) /\ d[Position(d, id)].id = id
      BY <1>5 DEF Shows, Position
    <3>2. d[Position(d, id)] \in Row
      BY <3>1, <1>3, <1>4, LogLaid DEF Laid, Distinct
    <3> QED BY <3>1, <3>2 DEF Row
  <2>3. ~view.atTail /\ view.edge = "top"
    BY <2>1
  <2>4. b # <<>>
    BY <2>1, <2>2 DEF id
  <2>5. id = b[view.value + 1].id
    BY <2>1, <2>4 DEF id
  <2>6. t.view.value = Clamp(Position(d, id) - 1, Len(d))
    BY <1>1, <1>6, <2>2, <2>3, <2>4, <2>5 DEF Rearranged
  <2>7. Position(d, id) - 1 \in Int /\ Position(d, id) - Page <= Position(d, id) - 1
        /\ Position(d, id) - 1 <= Position(d, id) - 1
    BY <2>2, TailAssumption
  <2> QED BY <1>5, <2>6, <2>7, PaintedThere
<1> QED BY <1>13, <1>14, <1>15 DEF FollowInv

(* The shell may have moved a following view to its newest row.            *)
FollowedUp(s, t, shown, rows, d) ==
    /\ Settled(t) /\ t.n = s.n /\ Moved(s, t)
    /\ t.follow # s.follow \/ t.view.quiet # s.view.quiet => t.view.atTail # s.view.atTail
    /\ t = s \/ (shown /\ live /\ s.follow /\ Jumped(s, t, rows, d))
    /\ shown /\ live /\ s.follow => Jumped(s, t, rows, d)

LEMMA ScrolledIfFollowing ==
    ASSUME NEW rows, NEW last, Numbered(rows, last), NEW d, Len(d) \in Nat, DOMAIN d = 1 .. Len(d),
           d = <<>> <=> Len(d) = 0,
           NEW s, Settled(s), s.n = Len(d), NEW shown \in BOOLEAN
    PROVE  FollowedUp(s, IF shown THEN ScrollToNewestRowIfFollowing(s, rows, d) ELSE s, shown, rows, d)
<1> DEFINE t == IF shown THEN ScrollToNewestRowIfFollowing(s, rows, d) ELSE s
<1>0. t = IF shown THEN ScrollToNewestRowIfFollowing(s, rows, d) ELSE s
  OBVIOUS
<1> HIDE DEF t
<1>1. ASSUME shown /\ live /\ s.follow PROVE FollowedUp(s, t, shown, rows, d)
  <2>1. t = JumpToNewestRow(s, rows, d)
    BY <1>0, <1>1 DEF ScrollToNewestRowIfFollowing
  <2>2. Jumped(s, t, rows, d)
    BY <2>1, JumpShowsNewest
  <2> QED BY <1>1, <2>2 DEF Jumped, FollowedUp
<1>2. ASSUME ~(shown /\ live /\ s.follow) PROVE FollowedUp(s, t, shown, rows, d)
  <2>1. t = s
    BY <1>0, <1>2 DEF ScrollToNewestRowIfFollowing
  <2>2. Moved(s, t)
    BY <2>1 DEF Moved
  <2> QED BY <1>2, <2>1, <2>2 DEF FollowedUp
<1>3. FollowedUp(s, t, shown, rows, d)
  BY <1>1, <1>2
<1> QED BY <1>3 DEF t

LEMMA OrderStep ==
    ASSUME TailInv, NEW rev \in BOOLEAN, ApplyTailOrder(rev)
    PROVE  FollowInv'
<1> DEFINE w == [way EXCEPT !.rev = rev]
           b == Display(log, way)
           d == Display(log, w)
           r == TailState(b)
           edge == IF rev THEN "top" ELSE "bottom"
           turned == IF rev = way.rev THEN r ELSE Relayout(r, b, d)
           edged == SetTailEdge(turned, edge)
           shown == live /\ front
           t == IF shown THEN ScrollToNewestRowIfFollowing(edged, log, d) ELSE edged
           reset == rev # way.rev
<1>1. /\ Settled(r) /\ r.n = Len(b) /\ r.view = view /\ r.follow = follow
      /\ Len(b) \in Nat /\ DOMAIN b = 1 .. Len(b) /\ (b = <<>> <=> Len(b) = 0)
  <2> HIDE DEF b
  <2> QED BY Here DEF b
<1>2. /\ Numbered(log, arrived) /\ way \in Way /\ w \in Way /\ w.rev = rev /\ w.filtered = way.filtered
      /\ view.edge = IF way.rev THEN "top" ELSE "bottom"
  BY DEF TailInv, Way
<1>3. Accepted(log, w) = Accepted(log, way)
  <2> HIDE DEF w
  <2> QED BY <1>2 DEF Accepted
<1>4. Laid(d, Accepted(log, w), w) /\ Laid(b, Accepted(log, way), way)
  <2> HIDE DEF w
  <2> QED BY <1>2, LogLaid
<1>5. Len(d) = Len(b) /\ DOMAIN d = 1 .. Len(d) /\ TailState(d) = r /\ (d = <<>> <=> Len(d) = 0)
  <2> HIDE DEF w, b, d
  <2>1. Len(d) = Len(b) /\ DOMAIN d = 1 .. Len(d) /\ Len(d) \in Nat /\ d \in Seq(Accepted(log, w))
    BY <1>3, <1>4 DEF Laid
  <2>2. d = <<>> <=> Len(d) = 0
    BY <2>1, EmptySeq
  <2> QED BY <2>1, <2>2 DEF TailState
<1>6. /\ Settle(t, "order", d, {}, reset) /\ way' = w
      /\ browse' = (IF view.user /\ browse = "yes" THEN "flag" ELSE browse)
      /\ UNCHANGED <<log, live, front, arrived>>
  <2>1. TailState(d) = r
    BY <1>5
  <2>2. Settle(IF live /\ front
               THEN ScrollToNewestRowIfFollowing(SetTailEdge(IF rev = way.rev THEN TailState(d)
                       ELSE Relayout(TailState(d), b, d), edge), log, d)
               ELSE SetTailEdge(IF rev = way.rev THEN TailState(d)
                       ELSE Relayout(TailState(d), b, d), edge),
               "order", d, {}, reset)
    BY DEF ApplyTailOrder
  <2>3. Settle(t, "order", d, {}, reset)
    <3> HIDE DEF d, b, r
    <3> QED BY <2>1, <2>2
  <2> QED BY <2>3 DEF ApplyTailOrder
<1>7. edge \in {"top", "bottom"} /\ shown \in BOOLEAN /\ reset \in BOOLEAN /\ (reset <=> edge # view.edge)
  BY <1>2 DEF Way
<1>8. Settled(turned) /\ turned.n = Len(d) /\ Moved(r, turned) /\ (~reset => turned = r)
  <2> HIDE DEF b, d, r, w
  <2>1. CASE ~reset
    <3>1. turned = r
      BY <2>1
    <3>2. Moved(r, turned)
      BY <3>1 DEF Moved
    <3> QED BY <3>1, <3>2, <1>1, <1>5
  <2>2. CASE reset
    <3>1. turned = Relayout(r, b, d)
      BY <2>2
    <3>2. Rearranged(r, turned, b, d)
      <4>1. Rearranged(r, Relayout(r, b, d), b, d)
        BY <1>1, <1>5, LaidOutAnew
      <4> QED BY <3>1, <4>1
    <3> HIDE DEF turned
    <3> QED BY <2>2, <3>2 DEF Rearranged
  <2> QED BY <2>1, <2>2
<1> HIDE DEF turned, d, b, r, w, reset
<1>9. Turned(turned, edged, edge)
  <2> HIDE DEF edge
  <2> QED BY <1>7, <1>8, EdgeIsSet
<1> HIDE DEF edged
<1>10. /\ Settled(t) /\ t.n = edged.n /\ Moved(edged, t)
       /\ t = edged \/ (shown /\ live /\ edged.follow /\ Jumped(edged, t, log, d))
  <2>1. Settled(edged) /\ edged.n = Len(d) /\ Len(d) \in Nat
    BY <1>1, <1>5, <1>8, <1>9 DEF Turned
  <2> HIDE DEF shown
  <2>2. FollowedUp(edged, t, shown, log, d)
    BY <1>2, <1>5, <1>7, <2>1, ScrolledIfFollowing
  <2> HIDE DEF t
  <2> QED BY <2>2 DEF FollowedUp
<1> HIDE DEF t, shown
<1>11. t.n = Len(d) /\ t.view.edge = edge
  BY <1>8, <1>9, <1>10 DEF Turned, Moved
<1>12. Silent(t, reset)
  <2>1. CASE reset
    <3>1. edged.view.pending = 0
      <4>1. turned.view.edge = view.edge
        BY <1>1, <1>8 DEF Moved
      <4> QED BY <1>7, <1>9, <2>1, <4>1 DEF Turned
    <3>2. t.view.pending = 0
      BY <3>1, <1>10 DEF Moved
    <3> QED BY <2>1, <3>2 DEF Silent
  <2>2. CASE ~reset
    <3>1. edged.view.pending = view.pending
      <4>1. turned.view.edge = edge /\ turned.view.pending = view.pending
        BY <1>1, <1>7, <1>8, <2>2
      <4> QED BY <1>9, <4>1 DEF Turned
    <3> QED BY <3>1, <1>10, <2>2 DEF Moved, Silent
  <2> QED BY <2>1, <2>2
<1>13. browse' = "yes" => ~t.follow /\ ~t.view.user
  <2> SUFFICES ASSUME browse' = "yes" PROVE ~t.follow /\ ~t.view.user
    OBVIOUS
  <2>1. browse = "yes"
    BY <1>6
  <2>2. ~r.follow /\ ~r.view.user
    BY <1>1, <2>1 DEF TailInv
  <2>3. ~turned.follow /\ ~turned.view.user
    BY <1>8, <2>2 DEF Moved
  <2>4. ~edged.follow /\ ~edged.view.user
    BY <1>9, <2>3 DEF Turned
  <2> QED BY <1>10, <2>4 DEF Moved
<1>14. t.n = Len(Display(log', way')) /\ t.view.edge = IF way'.rev THEN "top" ELSE "bottom"
  BY <1>2, <1>6, <1>11 DEF d
<1>15. PlainTo(t, reset)
  BY <1>2, <1>6, <1>10, <1>12, <1>13, <1>14 DEF PlainTo, TailInv
<1>16. "order" # "batch" /\ "order" # "layout" /\ Settle(t, "order", d, {}, reset)
  BY <1>6
<1> HIDE DEF edge
<1> QED BY <1>7, <1>15, <1>16, PlainStep

-----------------------------------------------------------------------------
(* 8. A batch.                                                             *)

(* What is evicted is older than what is kept, and that older than the     *)
(* batch.                                                                  *)
Delivered(old, kept, new, last, k, w) ==
    /\ k \in Nat /\ kept \in Seq(Row) /\ new \in Seq(Row)
    /\ Numbered(kept, last) /\ Numbered(kept \o new, last + k)
    /\ Distinct(Accepted(new, w))
    /\ Accepted(kept, w) \subseteq Accepted(old, w)
    /\ Accepted(kept \o new, w) = Accepted(kept, w) \cup Accepted(new, w)
    /\ \A r \in Accepted(old, w) : r.id > last - Len(kept) => r \in Accepted(kept, w)
    /\ \A r \in Accepted(kept, w) : r.id > last - Len(kept)
    /\ \A r \in Accepted(old, w) : r.id \in 1 .. last
    /\ \A r \in Accepted(new, w) : r.id \in (last + 1) .. (last + k)

LEMMA BatchJoined ==
    ASSUME NEW last, NEW old, Numbered(old, last), NEW m \in 0 .. Len(old),
           NEW k \in Nat, NEW new \in Seq(Row), Len(new) = k, \A i \in 1 .. k : new[i].id = last + i,
           NEW kept \in Seq(Row), Len(kept) = Len(old) - m, \A i \in 1 .. (Len(old) - m) : kept[i] = old[m + i],
           NEW w
    PROVE  Delivered(old, kept, new, last, k, w)
<1>1. /\ k \in Nat /\ last \in Nat
      /\ old \in Seq(Row) /\ Len(old) \in Nat /\ Len(old) <= last /\ m \in Nat /\ m <= Len(old)
  BY DEF Numbered
<1>2. Len(new) = k /\ new \in Seq(Row) /\ \A i \in 1 .. k : new[i].id = last + i
  OBVIOUS
<1>3. /\ kept \in Seq(Row) /\ Len(kept) = Len(old) - m
      /\ \A i \in 1 .. (Len(old) - m) : kept[i] = old[m + i]
  OBVIOUS
<1>4. \A i \in 1 .. Len(old) : old[i].id = last - Len(old) + i
  BY DEF Numbered
<1>5. \A i \in 1 .. Len(kept) : kept[i].id = last - Len(kept) + i
  <2> SUFFICES ASSUME NEW i \in 1 .. Len(kept) PROVE kept[i].id = last - Len(kept) + i
    OBVIOUS
  <2>1. m + i \in 1 .. Len(old) /\ kept[i] = old[m + i]
    BY <1>1, <1>3
  <2>2. old[m + i].id = last - Len(old) + (m + i)
    BY <1>4, <2>1
  <2> QED BY <2>1, <2>2, <1>1, <1>3
<1>7. Numbered(kept, last)
  BY <1>1, <1>3, <1>5 DEF Numbered
<1>8. Numbered(kept \o new, last + k)
  <2>1. /\ kept \o new \in Seq(Row) /\ Len(kept \o new) = Len(kept) + k
        /\ \A i \in 1 .. (Len(kept) + k) : (kept \o new)[i] = IF i <= Len(kept) THEN kept[i] ELSE new[i - Len(kept)]
    <3>1. kept \in Seq(Row) /\ new \in Seq(Row)
      BY <1>2, <1>3
    <3>2. /\ kept \o new \in Seq(Row) /\ Len(kept \o new) = Len(kept) + Len(new)
          /\ \A i \in 1 .. (Len(kept) + Len(new)) :
                (kept \o new)[i] = IF i <= Len(kept) THEN kept[i] ELSE new[i - Len(kept)]
      BY <3>1, ConcatProperties, Zenon
    <3> QED BY <3>2, <1>2
  <2>2. Len(kept) \in Nat /\ Len(kept) <= last
    BY <1>7 DEF Numbered
  <2>3. ASSUME NEW i \in 1 .. (Len(kept) + k) PROVE (kept \o new)[i].id = last + k - (Len(kept) + k) + i
    <3>1. CASE i <= Len(kept)
      <4>1. (kept \o new)[i] = kept[i] /\ i \in 1 .. Len(kept)
        BY <2>1, <2>2, <3>1
      <4>2. kept[i].id = last - Len(kept) + i
        BY <1>5, <4>1
      <4> QED BY <4>1, <4>2, <1>1, <2>2
    <3>2. CASE ~(i <= Len(kept))
      <4>1. (kept \o new)[i] = new[i - Len(kept)] /\ i - Len(kept) \in 1 .. k
        BY <1>1, <2>1, <2>2, <3>2
      <4>2. new[i - Len(kept)].id = last + (i - Len(kept))
        BY <1>2, <4>1
      <4> QED BY <4>1, <4>2, <1>1, <2>2
    <3> QED BY <3>1, <3>2
  <2> QED BY <1>1, <2>1, <2>2, <2>3 DEF Numbered
<1>9. Numbered(new, last + k)
  <2>1. \A i \in 1 .. k : new[i].id = last + k - k + i
    BY <1>1, <1>2
  <2> QED BY <1>1, <1>2, <2>1 DEF Numbered
<1>10. /\ Range(kept) = {kept[i] : i \in 1 .. Len(kept)} /\ Range(new) = {new[i] : i \in 1 .. k}
       /\ Range(old) = {old[i] : i \in 1 .. Len(old)}
       /\ Range(kept \o new) = Range(kept) \cup Range(new)
  <2>1. Range(kept) = {kept[i] : i \in 1 .. Len(kept)}
    BY <1>3, RangeEquality, Zenon
  <2>2. Range(new) = {new[i] : i \in 1 .. Len(new)}
    BY <1>2, RangeEquality, Zenon
  <2>3. Range(old) = {old[i] : i \in 1 .. Len(old)}
    BY <1>1, RangeEquality, Zenon
  <2>4. Range(kept \o new) = Range(kept) \cup Range(new)
    BY <1>2, <1>3, RangeConcatenation, Zenon
  <2> QED BY <1>2, <2>1, <2>2, <2>3, <2>4, Zenon
<1>11. Range(kept) \subseteq Range(old)
  BY <1>1, <1>3, <1>10
<1>12. \A r \in Range(old) : r.id > last - Len(kept) => r \in Range(kept)
  <2> SUFFICES ASSUME NEW i \in 1 .. Len(old), old[i].id > last - Len(kept) PROVE old[i] \in Range(kept)
    BY <1>10
  <2>1. i > m
    BY <1>1, <1>3, <1>4
  <2>2. i - m \in 1 .. Len(kept) /\ m + (i - m) = i
    BY <1>1, <1>3, <2>1
  <2>3. kept[i - m] = old[i]
    BY <1>3, <2>2
  <2> QED BY <1>10, <2>2, <2>3
<1>13. \A r \in Range(kept) : r.id > last - Len(kept)
  BY <1>1, <1>3, <1>5, <1>10
<1>14. \A r \in Range(old) : r.id \in 1 .. last
  BY LogDistinct
<1>15. \A r \in Range(new) : r.id \in (last + 1) .. (last + k)
  BY <1>1, <1>2, <1>10
<1>16. Distinct(Accepted(new, w))
  <2>1. Distinct(Range(new)) /\ Accepted(new, w) \in SUBSET Range(new)
    BY <1>9, LogDistinct DEF Accepted
  <2>2. IsFiniteSet(Accepted(new, w))
    BY <2>1, FS_Subset DEF Distinct
  <2> QED BY <2>1, <2>2 DEF Distinct
<1> QED
  BY <1>1, <1>2, <1>3, <1>7, <1>8, <1>10, <1>11, <1>12, <1>13, <1>14, <1>15, <1>16 DEF Delivered, Accepted

LEMMA BatchRows ==
    ASSUME NEW last, NEW old, Numbered(old, last), NEW m \in 0 .. Len(old), NEW b \in TailBatches,
           NEW new, new = [i \in DOMAIN b |-> [id |-> last + i, ok |-> b[i].ok, key |-> b[i].key]],
           NEW kept, kept = SubSeq(old, m + 1, Len(old)), NEW w
    PROVE  Delivered(old, kept, new, last, Len(b), w)
<1> DEFINE k == Len(b)
<1>0. /\ DOMAIN b = 1 .. k /\ k \in Nat
      /\ \A i \in 1 .. k : b[i].ok \in BOOLEAN /\ b[i].key \in Int
  <2> DEFINE X == [ok : BOOLEAN, key : Int]
  <2>1. b \in Seq(X)
    BY TailAssumption
  <2>2. \A x \in X : x.ok \in BOOLEAN /\ x.key \in Int
    OBVIOUS
  <2> HIDE DEF X
  <2>3. DOMAIN b = 1 .. k /\ k \in Nat /\ \A i \in 1 .. k : b[i] \in X
    BY <2>1, ElementOfSeq, LenProperties
  <2> QED BY <2>2, <2>3
<1>1. /\ k \in Nat /\ last \in Nat
      /\ old \in Seq(Row) /\ Len(old) \in Nat /\ Len(old) <= last /\ m \in Nat /\ m <= Len(old)
  BY <1>0 DEF Numbered
<1> HIDE DEF k
<1>2. /\ new \in Seq(Row) /\ Len(new) = k
      /\ \A i \in 1 .. k : new[i] = [id |-> last + i, ok |-> b[i].ok, key |-> b[i].key]
  <2>1. ASSUME NEW i \in 1 .. k PROVE [id |-> last + i, ok |-> b[i].ok, key |-> b[i].key] \in Row
    <3>1. b[i].ok \in BOOLEAN /\ b[i].key \in Int
      BY <1>0
    <3>2. last + i \in Nat \ {0}
      BY <1>1
    <3> QED BY <3>1, <3>2 DEF Row
  <2>2. new \in [1 .. k -> Row]
    BY <1>0, <2>1
  <2>3. new \in Seq(Row) /\ Len(new) = k
    BY <1>1, <2>2
  <2> QED BY <1>0, <2>3
<1>3. /\ kept \in Seq(Row) /\ Len(kept) = Len(old) - m
      /\ \A i \in 1 .. (Len(old) - m) : kept[i] = old[m + i]
  <2>1. \A i \in (m + 1) .. Len(old) : old[i] \in Row
    BY <1>1
  <2>2. m + 1 \in Int /\ Len(old) \in Int
    BY <1>1
  <2>3. /\ kept \in Seq(Row) /\ Len(kept) = IF m + 1 <= Len(old) THEN Len(old) - (m + 1) + 1 ELSE 0
        /\ \A i \in 1 .. (Len(old) - (m + 1) + 1) : kept[i] = old[(m + 1) + i - 1]
    BY <2>1, <2>2, SubSeqProperties
  <2>4. Len(kept) = Len(old) - m /\ Len(old) - (m + 1) + 1 = Len(old) - m
    BY <2>3, <1>1
  <2>5. ASSUME NEW i \in 1 .. (Len(old) - m) PROVE kept[i] = old[m + i]
    <3>1. (m + 1) + i - 1 = m + i /\ i \in 1 .. (Len(old) - (m + 1) + 1)
      BY <1>1
    <3> QED BY <2>3, <3>1
  <2> QED BY <2>3, <2>4, <2>5
<1>4. \A i \in 1 .. k : new[i].id = last + i
  BY <1>2
<1>5. Delivered(old, kept, new, last, k, w)
  BY <1>1, <1>2, <1>3, <1>4, BatchJoined
<1> QED BY <1>5 DEF k

(* As many rows are shown more as the batch has rows the filter takes.     *)
Counted(ids, d, e, new, w, last, k) ==
    /\ IsFiniteSet(ids) /\ Cardinality(ids) = Len(e) - Len(d) /\ Cardinality(ids) \in Nat
    /\ Len(d) \in Nat /\ Len(e) = Len(d) + Cardinality(Accepted(new, w))
    /\ Cardinality(Accepted(new, w)) = Cardinality(ids)
    /\ ids \subseteq (last + 1) .. (last + k)

LEMMA BatchCounted ==
    ASSUME NEW w \in Way, NEW old, NEW kept, NEW new, NEW last \in Nat, NEW k, Delivered(old, kept, new, last, k, w),
           NEW d, Laid(d, Accepted(kept, w), w), NEW e, Laid(e, Accepted(kept \o new, w), w)
    PROVE  Counted({r.id : r \in Accepted(new, w)}, d, e, new, w, last, k)
<1> DEFINE ids == {r.id : r \in Accepted(new, w)}
<1> DEFINE A == Accepted(new, w)
           K == Accepted(kept, w)
<1>1. Distinct(A) /\ IsFiniteSet(A)
  BY DEF Delivered, Distinct
<1>2. IsFiniteSet(ids) /\ Cardinality(ids) = Cardinality(A) /\ Cardinality(A) \in Nat
  <2> DEFINE f == [r \in A |-> r.id]
  <2>1. f \in Bijection(A, ids)
    <3>1. f \in Surjection(A, ids)
      BY DEF Surjection
    <3>2. f \in Injection(A, ids)
      <4>1. f \in [A -> ids]
        BY <3>1 DEF Surjection
      <4>2. \A a, b \in A : a.id = b.id => a = b
        BY <1>1 DEF Distinct
      <4>3. \A a, b \in A : f[a] = f[b] => a = b
        <5> HIDE DEF A
        <5> QED BY <4>2
      <4> HIDE DEF A, f
      <4> QED BY <4>1, <4>3 DEF Injection, IsInjective
    <3> QED BY <3>1, <3>2 DEF Bijection
  <2>2. ExistsBijection(A, ids)
    BY <2>1 DEF ExistsBijection
  <2> HIDE DEF A, f
  <2> QED BY <1>1, <2>2, FS_Bijection, FS_CardinalityType
<1>3. Distinct(K)
  <2>1. Distinct(Range(kept)) /\ K \in SUBSET Range(kept)
    BY LogDistinct DEF Accepted, Delivered
  <2>2. IsFiniteSet(K)
    BY <2>1, FS_Subset DEF Distinct
  <2> QED BY <2>1, <2>2 DEF Distinct
<1>4. K \cap A = {}
  <2> SUFFICES ASSUME NEW r \in K, r \in A PROVE FALSE
    OBVIOUS
  <2>1. r.id \in 1 .. last /\ r.id \in (last + 1) .. (last + k) /\ k \in Nat
    BY DEF Delivered
  <2> QED BY <2>1
<1>5. Accepted(kept \o new, w) = K \cup A
  BY DEF Delivered
<1>6. Len(d) = Cardinality(K) /\ Len(d) \in Nat /\ Len(e) = Cardinality(K \cup A)
  BY <1>5 DEF Laid
<1> HIDE DEF A, K
<1>7. Cardinality(K \cup A) = Cardinality(K) + Cardinality(A)
  <2>1. /\ IsFiniteSet(K) /\ Cardinality(K \cap A) = 0
    BY <1>3, <1>4, FS_EmptySet DEF Distinct
  <2>2. Cardinality(K \cup A) = Cardinality(K) + Cardinality(A) - Cardinality(K \cap A)
    BY <1>1, <2>1, FS_Union
  <2>3. Cardinality(K) \in Nat
    BY <2>1, FS_CardinalityType
  <2> QED BY <2>1, <2>2, <2>3, <1>2
<1>8. ids \subseteq (last + 1) .. (last + k)
  BY DEF Delivered
<1> HIDE DEF ids
<1>9. Counted(ids, d, e, new, w, last, k)
  BY <1>2, <1>6, <1>7, <1>8 DEF A, Counted
<1> QED BY <1>9 DEF ids

BatchGrown(s, t, d, e, T) ==
    /\ Grown(s, t, Len(e) - Len(d)) /\ t.n = Len(e) /\ Len(e) - Len(d) \in Nat
    /\ ~way.sorted => TopRow(s, t, d, T, way, Len(e))

LEMMA BatchIsInserted ==
    ASSUME way \in Way, NEW rows \in Seq(Row), NEW new \in Seq(Row), Distinct(Range(rows \o new)),
           NEW s, Settled(s), s.n = Len(Display(rows, way))
    PROVE  BatchGrown(s, InsertRows(s, rows, new), Display(rows, way), Display(rows \o new, way),
                      Accepted(rows \o new, way))
<1> DEFINE t == InsertRows(s, rows, new)
<1>0. t = InsertRows(s, rows, new)
  OBVIOUS
<1> HIDE DEF t
<1>1. BatchGrown(s, t, Display(rows, way), Display(rows \o new, way), Accepted(rows \o new, way))
  BY <1>0, BatchInserted DEF BatchGrown
<1> QED BY <1>1 DEF t

(* Newest first, eviction takes rows below a row that stays, and the batch *)
(* comes above it.                                                         *)
LEMMA ReaderRow ==
    ASSUME NEW w \in Way, w.rev, ~w.sorted, NEW last \in Nat, NEW k, NEW old, NEW kept, NEW new,
           Delivered(old, kept, new, last, k, w), Distinct(Accepted(old, w)), NEW r \in Accepted(kept, w)
    PROVE  /\ Place(Accepted(kept, w), w, r) = Place(Accepted(old, w), w, r)
           /\ Place(Accepted(kept \o new, w), w, r)
                = Place(Accepted(kept, w), w, r) + Cardinality(Accepted(new, w))
           /\ Place(Accepted(kept, w), w, r) \in Nat
<1> DEFINE S == Accepted(old, w)
           K == Accepted(kept, w)
           A == Accepted(new, w)
           T == Accepted(kept \o new, w)
<1>1. /\ K \subseteq S /\ T = K \cup A /\ Distinct(A) /\ k \in Nat
      /\ \A q \in S : q.id > last - Len(kept) => q \in K
      /\ \A q \in K : q.id > last - Len(kept)
      /\ \A q \in S : q.id \in 1 .. last
      /\ \A q \in A : q.id \in (last + 1) .. (last + k)
      /\ Len(kept) \in Nat
  BY DEF Delivered
<1>2. Distinct(K)
  <2>1. K \in SUBSET S
    BY <1>1
  <2>2. IsFiniteSet(K)
    BY <2>1, FS_Subset DEF Distinct
  <2> QED BY <2>1, <2>2 DEF Distinct
<1> HIDE DEF S, K, A, T
<1>3. r \in K
  BY DEF K
<1>4. ASSUME NEW X PROVE Above(X, w, r) = {o \in X : o.id > r.id}
  BY DEF Above, Before, Earlier
<1>5. Above(K, w, r) = Above(S, w, r)
  <2>1. r.id > last - Len(kept) /\ r.id \in 1 .. last
    BY <1>1, <1>3
  <2>2. ASSUME NEW o \in S, o.id > r.id PROVE o \in K
    <3>1. o.id \in 1 .. last
      BY <1>1
    <3>2. o.id > last - Len(kept)
      BY <1>1, <2>1, <2>2, <3>1
    <3> QED BY <1>1, <3>2
  <2> QED BY <1>1, <1>4, <2>2
<1>6. Above(T, w, r) = Above(K, w, r) \cup A /\ Above(K, w, r) \cap A = {}
  <2>1. r.id \in 1 .. last
    BY <1>1, <1>3
  <2>2. \A q \in A : q.id > r.id
    BY <1>1, <2>1
  <2>3. \A q \in K : q \notin A
    BY <1>1
  <2> QED BY <1>1, <1>4, <2>2, <2>3
<1>7. Place(T, w, r) = Place(K, w, r) + Cardinality(A) /\ Place(K, w, r) \in Nat
  <2>1. /\ IsFiniteSet(Above(K, w, r)) /\ IsFiniteSet(A) /\ Place(K, w, r) \in Nat
    BY <1>1, <1>2, AboveFinite DEF Distinct
  <2>2. Cardinality(Above(K, w, r) \cup A)
          = Cardinality(Above(K, w, r)) + Cardinality(A) - Cardinality(Above(K, w, r) \cap A)
    BY <2>1, FS_Union
  <2>3. Cardinality(Above(K, w, r) \cap A) = 0 /\ Cardinality(A) \in Nat
    BY <1>6, <2>1, FS_EmptySet, FS_CardinalityType
  <2>4. Place(T, w, r) = Cardinality(Above(K, w, r) \cup A) /\ Place(K, w, r) = Cardinality(Above(K, w, r))
    BY <1>6 DEF Place
  <2> QED BY <2>1, <2>2, <2>3, <2>4
<1> QED BY <1>5, <1>7 DEF Place, S, K, A, T

(* The pill after a batch.                                                 *)
LEMMA BatchMissed ==
    ASSUME TailInv, NEW r, Settled(r), r.view = view,
           NEW n, NEW evicted, Ranged(r, evicted, n),
           NEW ids, IsFiniteSet(ids), Cardinality(ids) \in Nat, NEW m \in Nat, ids \subseteq (arrived + 1) .. (arrived + m),
           NEW grown, Grown(evicted, grown, Cardinality(ids)),
           NEW t, Settled(t), Moved(grown, t),
           t.follow # grown.follow \/ t.view.quiet # grown.view.quiet => t.view.atTail # grown.view.atTail,
           NEW new, ids = {q.id : q \in {x \in new : way.filtered => x.ok}},
           NEW d, Settle(t, "batch", d, new, evicted.view.atTail), arrived' = arrived + m
    PROVE  MissedCounted'
<1> DEFINE k == Cardinality(ids)
<1>1. /\ view' = t.view /\ (t.view.atTail \/ t.view.quiet => t.view.pending = 0)
  BY DEF Settle, Settled, Agrees
<1>2. /\ missed.sure \subseteq missed.all /\ missed.all \subseteq 1 .. arrived /\ PillCountsMissedRows
      /\ (view.atTail \/ view.quiet => missed.all = {}) /\ arrived \in Nat
  BY DEF TailInv, MissedCounted, Numbered
<1>3. /\ evicted.view.pending \in Nat /\ grown.view.pending \in Nat /\ t.view.pending \in Nat
      /\ (evicted.view.atTail => evicted.view.pending = 0)
      /\ {evicted.view.atTail, grown.view.atTail, t.view.atTail} \subseteq BOOLEAN
      /\ {evicted.view.quiet, grown.view.quiet, t.view.quiet, view.quiet} \subseteq BOOLEAN
  BY DEF Ranged, Grown, Settled, Agrees, State, View
<1>4. IsFiniteSet(missed.all) /\ IsFiniteSet(missed.sure)
  <2>1. IsFiniteSet(1 .. arrived) /\ missed.all \in SUBSET (1 .. arrived) /\ missed.sure \in SUBSET (1 .. arrived)
    <3>1. IsFiniteSet(1 .. arrived)
      BY <1>2, FS_Interval
    <3>2. missed.sure \subseteq missed.all /\ missed.all \subseteq 1 .. arrived
      BY <1>2
    <3> QED BY <3>1, <3>2
  <2> QED BY <2>1, FS_Subset
<1>5. ids \subseteq 1 .. (arrived + m) /\ missed.all \subseteq 1 .. (arrived + m)
      /\ missed.all \cap ids = {} /\ missed.sure \cap ids = {}
  BY <1>2
<1>6. CASE t.view.atTail \/ t.view.quiet
  <2>1. missed' = [all |-> {}, sure |-> {}]
    BY <1>6 DEF Settle
  <2>2. Cardinality({}) = 0
    BY FS_EmptySet
  <2> QED BY <1>1, <1>6, <2>1, <2>2 DEF MissedCounted, PillCountsMissedRows
<1>7. CASE ~(t.view.atTail \/ t.view.quiet) /\ evicted.view.atTail
  <2>1. missed'.all = ids /\ missed'.sure = {}
    BY <1>7 DEF Settle
  <2>2. t.view.pending <= k
    <3>1. t.view.pending = grown.view.pending
      BY <1>7 DEF Moved
    <3>2. grown.view.pending <= evicted.view.pending + k
      BY DEF Grown
    <3> QED BY <1>3, <1>7, <3>1, <3>2
  <2>3. Cardinality({}) = 0 /\ t.view.pending \in 0 .. k
    BY <1>3, <2>2, FS_EmptySet
  <2> HIDE DEF k
  <2>4. view'.pending \in Cardinality(missed'.sure) .. Cardinality(missed'.all)
    BY <1>1, <2>1, <2>3 DEF k
  <2> QED BY <1>1, <1>5, <1>7, <2>1, <2>4 DEF MissedCounted, PillCountsMissedRows
<1>8. CASE ~(t.view.atTail \/ t.view.quiet) /\ ~evicted.view.atTail
  <2>1. ~grown.view.atTail
    BY <1>8 DEF Grown
  <2>2. ~grown.view.quiet /\ ~evicted.view.quiet /\ ~view.quiet
    <3>1. t.view.atTail = grown.view.atTail
      BY <1>3, <1>8, <2>1
    <3>2. grown.view.quiet = t.view.quiet
      BY <3>1
    <3>3. evicted.view.quiet = grown.view.quiet
      BY DEF Grown
    <3>4. evicted.view.quiet = view.quiet
      BY <1>8 DEF Ranged
    <3> QED BY <1>8, <3>2, <3>3, <3>4
  <2>3. t.view.pending = view.pending + k
    <3>1. t.view.pending = grown.view.pending
      BY <1>8 DEF Moved
    <3>2. grown.view.pending = evicted.view.pending + k
      BY <1>8, <2>2 DEF Grown
    <3>3. evicted.view.pending = view.pending
      BY <1>8, <2>2 DEF Ranged, Moved
    <3> QED BY <3>1, <3>2, <3>3
  <2>4. view.pending \in Cardinality(missed.sure) .. Cardinality(missed.all)
    BY <1>2, <2>2 DEF PillCountsMissedRows
  <2>5. /\ missed'.all = missed.all \cup ids
        /\ missed'.sure = missed.sure \/ missed'.sure = missed.sure \cup ids
    BY <1>8 DEF Settle
  <2>6. /\ Cardinality(missed.all \cup ids) = Cardinality(missed.all) + k
        /\ Cardinality(missed.sure \cup ids) = Cardinality(missed.sure) + k
        /\ Cardinality(missed.all) \in Nat /\ Cardinality(missed.sure) \in Nat
    <3>1. Cardinality(missed.all) \in Nat /\ Cardinality(missed.sure) \in Nat /\ Cardinality({}) = 0
      BY <1>4, FS_CardinalityType, FS_EmptySet
    <3>2. Cardinality(missed.all \cup ids) = Cardinality(missed.all) + k - Cardinality(missed.all \cap ids)
      BY <1>4, FS_Union
    <3>3. Cardinality(missed.sure \cup ids) = Cardinality(missed.sure) + k - Cardinality(missed.sure \cap ids)
      BY <1>4, FS_Union
    <3>4. k \in Nat /\ Cardinality(missed.all \cap ids) = 0 /\ Cardinality(missed.sure \cap ids) = 0
      BY <1>5, <3>1
    <3> HIDE DEF k
    <3> QED BY <3>1, <3>2, <3>3, <3>4
  <2>7. k \in Nat
    OBVIOUS
  <2> HIDE DEF k
  <2>8. view'.pending \in Cardinality(missed'.sure) .. Cardinality(missed'.all)
    <3>1. view'.pending = view.pending + k
      BY <1>1, <2>3
    <3>2. Cardinality(missed'.all) = Cardinality(missed.all) + k
      BY <2>5, <2>6
    <3>3. \/ Cardinality(missed'.sure) = Cardinality(missed.sure)
          \/ Cardinality(missed'.sure) = Cardinality(missed.sure) + k
      BY <2>5, <2>6
    <3>4. Cardinality(missed.all) \in Nat /\ Cardinality(missed.sure) \in Nat
      BY <2>6
    <3> QED BY <3>1, <3>2, <3>3, <3>4, <2>4, <2>7
  <2>9. missed'.sure \subseteq missed'.all /\ missed'.all \subseteq 1 .. (arrived + m)
    BY <1>2, <1>5, <2>5
  <2> QED BY <1>1, <1>8, <2>8, <2>9 DEF MissedCounted, PillCountsMissedRows
<1> QED BY <1>6, <1>7, <1>8

(* The row a reader has on top stays on screen through a batch.            *)
LEMMA ReaderKept ==
    ASSUME way \in Way, way.rev, ~way.sorted, NEW last \in Nat, NEW k,
           NEW old, NEW kept, NEW new, Delivered(old, kept, new, last, k, way), Distinct(Accepted(old, way)),
           NEW d, Laid(d, Accepted(old, way), way), NEW dk, Laid(dk, Accepted(kept, way), way),
           NEW e, Laid(e, Accepted(kept \o new, way), way),
           NEW r, Settled(r), r.n = Len(d), r.view.edge = "top", ~r.view.atTail,
           NEW evicted, Ranged(r, evicted, Len(dk)), ~evicted.view.atTail,
           NEW grown, BatchGrown(evicted, grown, dk, e, Accepted(kept \o new, way)),
           Shows(e, d[r.view.value + 1].id)
    PROVE  d[r.view.value + 1].id \in Painted(e, grown.view)
<1> DEFINE v == r.view.value
           row == d[v + 1]
           S == Accepted(old, way)
           K == Accepted(kept, way)
           T == Accepted(kept \o new, way)
           c == Cardinality(Accepted(new, way))
           x == evicted.view.value
           top == dk[x + 1]
<1>1. /\ Len(d) \in Nat /\ DOMAIN d = 1 .. Len(d) /\ Len(dk) \in Nat /\ DOMAIN dk = 1 .. Len(dk)
      /\ Len(e) \in Nat /\ DOMAIN e = 1 .. Len(e)
  BY DEF Laid
<1>2. v \in Nat /\ v <= MaxValue(Len(d)) /\ v > 0
  <2>1. /\ v \in Nat /\ v <= MaxValue(Len(d))
        /\ r.view.atTail = ComputeAtTailEdge(r.view.edge, v, Len(d))
    BY DEF Settled, Agrees, State, View
  <2>2. ~(v <= 0)
    BY <2>1 DEF ComputeAtTailEdge
  <2> QED BY <2>1, <2>2
<1>3. v + 1 \in 1 .. Len(d)
  BY <1>1, <1>2, TailAssumption DEF MaxValue
<1>4. row \in S /\ Place(S, way, row) = v
  <2>1. d[v + 1] \in S /\ Place(S, way, d[v + 1]) = (v + 1) - 1
    BY <1>3 DEF Laid
  <2> QED BY <1>2, <2>1
<1>5. row \in K
  <2>1. PICK q \in T : q.id = row.id
    BY DEF Laid
  <2>2. T = K \cup Accepted(new, way) /\ K \subseteq S /\ k \in Nat
    BY DEF Delivered
  <2>3. row.id \in 1 .. last
    BY <1>4 DEF Delivered
  <2>4. q \notin Accepted(new, way)
    <3>1. \A p \in Accepted(new, way) : p.id \in (last + 1) .. (last + k)
      BY DEF Delivered
    <3> QED BY <2>1, <2>2, <2>3, <3>1
  <2>5. q \in K /\ q \in S
    BY <2>2, <2>4
  <2>6. q = row
    BY <1>4, <2>1, <2>5 DEF Distinct
  <2> QED BY <2>5, <2>6
<1> HIDE DEF row
<1>6. Place(K, way, row) = v /\ Place(T, way, row) = v + c /\ row \in T /\ c \in Nat
  <2>1. /\ Place(K, way, row) = Place(S, way, row)
        /\ Place(T, way, row) = Place(K, way, row) + c
    BY <1>5, ReaderRow
  <2>2. row \in T
    BY <1>5 DEF Delivered
  <2>3. c \in Nat
    BY FS_CardinalityType DEF Delivered, Distinct
  <2> QED BY <1>4, <2>1, <2>2, <2>3
<1>7. v + 1 \in 1 .. Len(dk)
  <2>1. Place(K, way, row) + 1 \in 1 .. Len(dk)
    BY <1>5 DEF Laid
  <2> QED BY <1>6, <2>1
<1>8. x = Clamp(v, Len(dk))
  BY DEF Ranged
<1> HIDE DEF v, x, top, c
<1>9. x \in Nat /\ x <= v /\ v + 1 - Page <= x
  BY <1>1, <1>2, <1>7, <1>8, TailAssumption DEF Clamp, MaxValue
<1>10. x + 1 \in 1 .. Len(dk) /\ grown.view.value = Clamp(Place(T, way, top), Len(e))
  <2>1. evicted.view.edge = "top"
    BY DEF Ranged, Moved
  <2>2. TopRow(evicted, grown, dk, T, way, Len(e))
    BY DEF BatchGrown
  <2> QED BY <1>1, <2>1, <2>2 DEF TopRow, x, top
<1>11. top \in K /\ Place(K, way, top) = x
  <2>1. dk[x + 1] \in K /\ Place(K, way, dk[x + 1]) = (x + 1) - 1
    BY <1>10 DEF Laid
  <2> QED BY <1>9, <2>1 DEF top
<1>12. Place(T, way, top) = x + c
  <2>1. Place(T, way, top) = Place(K, way, top) + c
    BY <1>11, ReaderRow DEF c
  <2> QED BY <1>11, <2>1
<1>13. Shows(e, row.id) /\ Position(e, row.id) = v + c + 1
  <2>1. Shows(e, row.id) /\ Position(e, row.id) = Place(T, way, row) + 1
    BY <1>6 DEF Laid
  <2> QED BY <1>6, <2>1
<1>14. /\ x + c \in Int /\ Position(e, row.id) - Page <= x + c /\ x + c <= Position(e, row.id) - 1
       /\ grown.view.value = Clamp(x + c, Len(e))
  <2>1. Page \in Nat /\ c \in Nat /\ x \in Nat /\ v \in Nat
    BY <1>2, <1>6, <1>9, TailAssumption DEF c
  <2> QED BY <1>9, <1>10, <1>12, <1>13, <2>1
<1>15. row.id \in Painted(e, grown.view)
  BY <1>1, <1>13, <1>14, PaintedThere
<1> QED BY <1>15 DEF row, v

LEMMA DeliverStep ==
    ASSUME TailInv, NEW b \in TailBatches, Deliver(b)
    PROVE  FollowInv'
<1> DEFINE m == Len(b)
           new == [i \in DOMAIN b |-> [id |-> arrived + i, ok |-> b[i].ok, key |-> b[i].key]]
           over == Len(log) + Len(b) - TailCap
           drop == IF over < 0 THEN 0 ELSE IF over > Len(log) THEN Len(log) ELSE over
           kept == SubSeq(log, drop + 1, Len(log))
           rows == kept \o new
           d == Display(log, way)
           dk == Display(kept, way)
           e == Display(rows, way)
           r == TailState(d)
           evicted == SetRange(r, Len(dk))
           grown == InsertRows(evicted, kept, new)
           t == IF front THEN ScrollToNewestRowIfFollowing(grown, rows, e) ELSE grown
           ids == {q.id : q \in Accepted(new, way)}
<1>1. /\ Settle(t, "batch", e, Range(new), evicted.view.atTail)
      /\ arrived' = arrived + m /\ log' = rows /\ live
      /\ UNCHANGED <<way, live, front, browse>>
  BY DEF Deliver
<1>2. /\ Numbered(log, arrived) /\ way \in Way /\ live \in BOOLEAN /\ front \in BOOLEAN
      /\ view.edge = (IF way.rev THEN "top" ELSE "bottom") /\ log \in Seq(Row) /\ Len(log) \in Nat /\ arrived \in Nat
  BY DEF TailInv, Numbered
<1>3. drop \in 0 .. Len(log) /\ m \in Nat
  <2>1. b \in Seq([ok : BOOLEAN, key : Int])
    BY TailAssumption
  <2>2. Len(b) \in Nat
    BY <2>1, LenProperties
  <2> QED BY <1>2, <2>2, TailAssumption
<1>4. Delivered(log, kept, new, arrived, m, way)
  <2> DEFINE a == new
             o == kept
  <2>1. a = new /\ o = kept
    OBVIOUS
  <2> HIDE DEF drop, a, o
  <2>2. Delivered(log, o, a, arrived, Len(b), way)
    BY <1>2, <1>3, <2>1, BatchRows
  <2> QED BY <2>1, <2>2
<1>5. /\ Settled(r) /\ r.n = Len(d) /\ r.view = view /\ r.follow = follow
      /\ Laid(d, Accepted(log, way), way) /\ Distinct(Accepted(log, way)) /\ (d = <<>> <=> Len(d) = 0)
      /\ view.value \in Nat /\ view.value <= MaxValue(Len(d))
  <2> HIDE DEF d
  <2> QED BY Here DEF d
<1> HIDE DEF new, kept, drop, over, m
<1>6. /\ kept \in Seq(Row) /\ new \in Seq(Row) /\ Numbered(kept, arrived) /\ Numbered(rows, arrived + m)
  BY <1>4 DEF Delivered
<1>7. Laid(dk, Accepted(kept, way), way) /\ Laid(e, Accepted(rows, way), way) /\ Distinct(Range(rows))
  <2> HIDE DEF rows
  <2> QED BY <1>2, <1>6, LogLaid, LogDistinct
<1>8. IsFiniteSet(ids) /\ Cardinality(ids) = Len(e) - Len(dk) /\ Cardinality(ids) \in Nat
      /\ ids \subseteq (arrived + 1) .. (arrived + m)
  <2>1. Laid(e, Accepted(kept \o new, way), way)
    BY <1>7
  <2> HIDE DEF dk, e
  <2>2. Counted(ids, dk, e, new, way, arrived, m)
    BY <1>2, <1>4, <1>7, <2>1, BatchCounted
  <2> HIDE DEF ids
  <2> QED BY <2>2 DEF Counted
<1>9. Len(dk) \in Nat /\ Len(e) \in Nat /\ DOMAIN e = 1 .. Len(e) /\ (e = <<>> <=> Len(e) = 0)
  <2>1. Len(dk) \in Nat /\ Len(e) \in Nat /\ DOMAIN e = 1 .. Len(e) /\ e \in Seq(Accepted(rows, way))
    BY <1>7 DEF Laid
  <2> HIDE DEF e, rows
  <2>2. e = <<>> <=> Len(e) = 0
    BY <2>1, EmptySeq
  <2> QED BY <2>1, <2>2
<1> HIDE DEF r
<1>10. Ranged(r, evicted, Len(dk))
  <2> HIDE DEF dk
  <2> QED BY <1>5, <1>9, RangeIsSet
<1>11. Settled(evicted) /\ evicted.n = Len(Display(kept, way))
  BY <1>10 DEF Ranged
<1> HIDE DEF evicted
<1>12. BatchGrown(evicted, grown, dk, e, Accepted(rows, way))
  BY <1>2, <1>6, <1>7, <1>11, BatchIsInserted
<1> HIDE DEF grown
<1>13. Settled(grown) /\ grown.n = Len(e)
  BY <1>12 DEF BatchGrown, Grown
<1> HIDE DEF rows, dk, d
<1>14. /\ Settled(t) /\ t.n = grown.n /\ Moved(grown, t)
       /\ t.follow # grown.follow \/ t.view.quiet # grown.view.quiet => t.view.atTail # grown.view.atTail
       /\ t = grown \/ (front /\ live /\ grown.follow /\ Jumped(grown, t, rows, e))
       /\ front /\ live /\ grown.follow => Jumped(grown, t, rows, e)
  <2> HIDE DEF e
  <2>1. FollowedUp(grown, t, front, rows, e)
    BY <1>2, <1>6, <1>9, <1>13, ScrolledIfFollowing
  <2> HIDE DEF t
  <2> QED BY <2>1 DEF FollowedUp
<1> HIDE DEF t
<1>15. MissedCounted'
  <2>1. Grown(evicted, grown, Cardinality(ids))
    BY <1>8, <1>12 DEF BatchGrown
  <2>2. ids = {q.id : q \in {x \in Range(new) : way.filtered => x.ok}}
    BY DEF Accepted
  <2> HIDE DEF ids, e
  <2> QED BY <1>1, <1>3, <1>5, <1>8, <1>10, <1>14, <2>1, <2>2, BatchMissed
<1>16. t.view.edge = view.edge /\ evicted.view.edge = view.edge
  BY <1>5, <1>10, <1>12, <1>14 DEF Ranged, BatchGrown, Grown, Moved
<1>17. browse' = "yes" => ~t.follow /\ ~t.view.user
  <2> SUFFICES ASSUME browse' = "yes" PROVE ~t.follow /\ ~t.view.user
    OBVIOUS
  <2>1. browse = "yes"
    BY <1>1
  <2>2. ~r.follow /\ ~r.view.user
    BY <1>5, <2>1 DEF TailInv
  <2>3. ~evicted.follow /\ ~evicted.view.user
    BY <1>10, <2>2 DEF Ranged, Moved
  <2>4. ~grown.follow /\ ~grown.view.user
    BY <1>12, <2>3 DEF BatchGrown, Grown
  <2> QED BY <1>14, <2>4 DEF Moved
<1>18. Numbered(log', arrived') /\ t.n = Len(Display(log', way'))
  BY <1>1, <1>6, <1>13, <1>14 DEF e
<1>19. TailInv' /\ reading'.did = "batch"
  <2>1. way' \in Way /\ live' \in BOOLEAN /\ front' \in BOOLEAN /\ t.view.edge = IF way'.rev THEN "top" ELSE "bottom"
    BY <1>1, <1>2, <1>16
  <2>2. Settle(t, "batch", e, Range(new), evicted.view.atTail)
    BY <1>1
  <2> HIDE DEF e
  <2> QED BY <1>14, <1>15, <1>17, <1>18, <2>1, <2>2, StepSettles
<1>20. view' = t.view /\ follow' = t.follow
       /\ reading'.top = (IF d = <<>> THEN 0 ELSE d[view.value + 1].id)
       /\ reading'.away = (~view.atTail /\ view.edge = "top" /\ ~follow)
  BY <1>1 DEF Settle, d
<1>21. Display(log', way') = e
  BY <1>1 DEF e
<1>22. FollowingShowsNewest'
  <2>1. FollowingShowsNewest' =
          ((reading'.did = "batch" /\ live' /\ front' /\ follow' /\ NewestWithin(log', Display(log', way')) # 0)
             => NewestWithin(log', Display(log', way')) \in Painted(Display(log', way'), view'))
    BY DEF FollowingShowsNewest
  <2> SUFFICES ASSUME live', front', follow', NewestWithin(rows, e) # 0
               PROVE  NewestWithin(rows, e) \in Painted(e, t.view)
    BY <1>1, <1>20, <1>21, <2>1
  <2> HIDE DEF e
  <2>2. grown.follow
    BY <1>14, <1>20
  <2>3. Jumped(grown, t, rows, e)
    BY <1>1, <1>14, <2>2
  <2> QED BY <2>3 DEF Jumped
<1>23. ReadingPositionKept'
  <2>1. ReadingPositionKept' =
          ((/\ reading'.did \in {"batch", "layout"} /\ reading'.away
            /\ ~way'.sorted /\ ~view'.atTail /\ ~follow' /\ Shows(Display(log', way'), reading'.top))
             => reading'.top \in Painted(Display(log', way'), view'))
    BY DEF ReadingPositionKept
  <2> SUFFICES ASSUME reading'.away, ~way.sorted, ~t.view.atTail, ~t.follow, Shows(e, reading'.top)
               PROVE  reading'.top \in Painted(e, t.view)
    BY <1>1, <1>20, <1>21, <2>1
  <2> HIDE DEF e
  <2>2. ~view.atTail /\ view.edge = "top" /\ ~follow /\ way.rev
    BY <1>2, <1>20
  <2>3. d # <<>>
    <3>1. Len(d) \in Nat /\ view.atTail = ComputeAtTailEdge(view.edge, view.value, Len(d))
      BY <1>5 DEF Settled, Agrees, State
    <3>2. ~(view.value <= 0)
      BY <2>2, <3>1 DEF ComputeAtTailEdge
    <3>3. Len(d) # 0
      BY <1>5, <3>1, <3>2, TailAssumption DEF MaxValue
    <3> QED BY <1>5, <3>3
  <2>4. reading'.top = d[r.view.value + 1].id
    BY <1>5, <1>20, <2>3
  <2>5. ~grown.follow
    <3>1. CASE t = grown
      BY <3>1
    <3>2. CASE t # grown /\ grown.follow
      <4>1. grown.view.user
        BY <3>2, <1>14 DEF Moved
      <4>2. evicted.view.user /\ evicted.follow
        BY <3>2, <4>1, <1>12 DEF BatchGrown, Grown
      <4>3. r.follow
        BY <4>2, <1>10 DEF Ranged, Moved
      <4> QED BY <4>3, <1>5, <2>2
    <3> QED BY <3>1, <3>2
  <2>6. t = grown
    BY <1>14, <2>5
  <2>7. ~evicted.view.atTail
    BY <1>12, <1>16, <2>2, <2>6 DEF BatchGrown, Grown
  <2> HIDE DEF ids
  <2>8. d[r.view.value + 1].id \in Painted(e, grown.view)
    <3>1. Delivered(log, kept, new, arrived, m, way) /\ Distinct(Accepted(log, way))
          /\ Laid(d, Accepted(log, way), way) /\ Laid(dk, Accepted(kept, way), way)
      BY <1>4, <1>5, <1>7
    <3>2. Laid(e, Accepted(kept \o new, way), way) /\ BatchGrown(evicted, grown, dk, e, Accepted(kept \o new, way))
      BY <1>7, <1>12 DEF rows
    <3>3. Settled(r) /\ r.n = Len(d) /\ r.view.edge = "top" /\ ~r.view.atTail
      BY <1>5, <2>2
    <3>4. Shows(e, d[r.view.value + 1].id)
      BY <2>4
    <3> QED BY <1>2, <2>2, <1>10, <2>7, <3>1, <3>2, <3>3, <3>4, ReaderKept
  <2> QED BY <2>4, <2>6, <2>8
<1> QED BY <1>19, <1>22, <1>23 DEF FollowInv

LEMMA FollowStarts == FollowInit => FollowInv
<1> SUFFICES ASSUME FollowInit PROVE FollowInv
  OBVIOUS
<1>1. way \in Way
  BY DEF FollowInit, Way
<1>2. Numbered(log, arrived) /\ Len(Display(log, way)) = 0
  BY <1>1, EmptyDisplay DEF FollowInit
<1> DEFINE v == [value |-> 0, edge |-> IF way.rev THEN "top" ELSE "bottom",
                 atTail |-> TRUE, pending |-> 0, quiet |-> TRUE, user |-> FALSE]
           r == [n |-> 0, view |-> v, follow |-> TRUE]
<1>3. TailState(Display(log, way)) = r /\ view = v
  BY <1>2 DEF FollowInit, TailState
<1>4. v \in View /\ v.edge = (IF way.rev THEN "top" ELSE "bottom") /\ v.value = 0 /\ v.atTail = TRUE
      /\ v.pending = 0 /\ v.quiet = TRUE
  BY DEF View
<1> HIDE DEF v
<1>5. r \in State /\ r.view = v /\ r.n = 0
  BY <1>4 DEF State
<1> HIDE DEF r
<1>6. Settled(r)
  <2>1. MaxValue(0) = 0
    BY TailAssumption DEF MaxValue
  <2>2. ComputeAtTailEdge(v.edge, 0, 0) = TRUE
    BY <2>1 DEF ComputeAtTailEdge
  <2>3. r.view.edge = v.edge /\ r.view.value = 0 /\ r.n = 0 /\ r.view.atTail = TRUE /\ r.view.pending = 0
    BY <1>4, <1>5
  <2>4. r.view.atTail = ComputeAtTailEdge(r.view.edge, r.view.value, r.n)
    BY <2>2, <2>3
  <2>5. r.view.value <= MaxValue(r.n)
    BY <2>1, <2>3
  <2> QED BY <1>5, <2>3, <2>4, <2>5 DEF Settled, Agrees
<1>7. MissedCounted
  BY <1>3, <1>4 DEF FollowInit, MissedCounted, PillCountsMissedRows
<1>8. TailInv
  BY <1>1, <1>2, <1>3, <1>4, <1>6, <1>7 DEF FollowInit, TailInv
<1> QED BY <1>8 DEF FollowInv, FollowInit, FollowingShowsNewest, ReadingPositionKept

LEMMA FollowGoesOn == FollowInv /\ [FollowNext]_followVars => FollowInv'
<1> SUFFICES ASSUME FollowInv, [FollowNext]_followVars PROVE FollowInv'
  OBVIOUS
<1>1. TailInv
  BY DEF FollowInv
<1>2. CASE FollowNext
  <2>1. ASSUME NEW b \in TailBatches, Deliver(b) PROVE FollowInv'
    BY <1>1, <2>1, DeliverStep
  <2>2. ASSUME NEW at \in 0 .. Len(log), ScrollByWheel(at) PROVE FollowInv'
    BY <1>1, <2>2, WheelStep
  <2>3. ASSUME NEW at \in 0 .. Len(log), ScrollByBar(at) PROVE FollowInv'
    BY <1>1, <2>3, BarStep
  <2>4. ASSUME NEW at \in 0 .. Len(log), RailClicked(at) PROVE FollowInv'
    BY <1>1, <2>4, RailStep
  <2>5. ASSUME NEW at \in 0 .. Len(log), SelectShownRow(at) PROVE FollowInv'
    BY <1>1, <2>5, SelectStep
  <2>6. ASSUME ToggleFollow PROVE FollowInv'
    BY <1>1, <2>6, ToggleStep
  <2>7. ASSUME PillClicked PROVE FollowInv'
    BY <1>1, <2>7, PillStep
  <2>8. ASSUME Return PROVE FollowInv'
    BY <1>1, <2>8, ReturnStep
  <2>9. ASSUME StreamEnds PROVE FollowInv'
    BY <1>1, <2>9, EndsStep
  <2>10. ASSUME StreamStarts PROVE FollowInv'
    BY <1>1, <2>10, StartsStep
  <2>11. ASSUME NEW rev \in BOOLEAN, ApplyTailOrder(rev) PROVE FollowInv'
    BY <1>1, <2>11, OrderStep
  <2>12. ASSUME NEW w \in [rev : BOOLEAN, sorted : BOOLEAN, filtered : BOOLEAN], ChangeLayout(w)
         PROVE  FollowInv'
    BY <1>1, <2>12, LayoutStep DEF Way
  <2>13. ASSUME NEW on \in BOOLEAN, Leave(on) PROVE FollowInv'
    BY <1>1, <2>13, LeaveStep
  <2> QED BY <1>2, <2>1, <2>2, <2>3, <2>4, <2>5, <2>6, <2>7, <2>8, <2>9, <2>10, <2>11, <2>12, <2>13 DEF FollowNext
<1>3. CASE UNCHANGED followVars
  BY <1>3 DEF followVars, FollowInv, TailInv, MissedCounted, PillCountsMissedRows,
              FollowingShowsNewest, ReadingPositionKept, Numbered, Settled, Agrees, TailState
<1> QED BY <1>2, <1>3

(* The tail is shown to who follows it and counted for who does not, for   *)
(* any page, any capacity and any batches.                                 *)
THEOREM TailStaysShownOrCounted == FollowSpec => []TailShownOrCounted
<1>1. FollowSpec => []FollowInv
  BY FollowStarts, FollowGoesOn, PTL DEF FollowSpec
<1> QED BY <1>1, InvHolds, PTL
=============================================================================
