----------------------------- MODULE DataLemmas -----------------------------
(***************************************************************************)
(* Facts about the data of all the modules: the least and the greatest     *)
(* member of a set of numbers, a set put in order, induction and recursion *)
(* over an interval of numbers, and sequences put in a row.                *)
(***************************************************************************)
EXTENDS Ascending, SequencesExt, FiniteSetTheorems, SequenceTheorems, WellFoundedInduction, TLAPS

\* The least member of a set of numbers exists: what CHOOSE finds is one.
LEMMA MinExists ==
    ASSUME NEW S \in SUBSET Nat, S # {}
    PROVE  Min(S) \in S /\ \A x \in S : Min(S) <= x
<1> DEFINE R == {ss \in Nat \X Nat : ss[1] < ss[2]}
<1>1. IsWellFoundedOn(R, Nat)
  BY NatLessThanWellFounded DEF OpToRel
<1>2. \E x \in S : \A y \in S : ~(<<y, x>> \in R)
  <2> HIDE DEF R
  <2> QED BY <1>1, WFMin
<1>3. \A x, y \in Nat : <<y, x>> \notin R => x <= y
  OBVIOUS
<1>4. \E x \in S : \A y \in S : x <= y
  <2> HIDE DEF R
  <2> QED BY <1>2, <1>3
<1> QED BY <1>4 DEF Min

\* So does the greatest one of a set with a bound.
LEMMA MaxExists ==
    ASSUME NEW m \in Nat, NEW S \in SUBSET (0..m), S # {}
    PROVE  Max(S) \in S /\ \A x \in S : x <= Max(S)
<1> DEFINE T == {m - i : i \in S}
<1>1. T \in SUBSET Nat /\ T # {} /\ \A i \in S : m - i \in T
  <2>1. \A i \in S : m - i \in Nat
    OBVIOUS
  <2>2. \A i \in S : m - i \in T
    OBVIOUS
  <2>3. T \in SUBSET Nat
    BY <2>1
  <2>4. T # {}
    <3> PICK i \in S : TRUE
      OBVIOUS
    <3> HIDE DEF T
    <3> QED BY <2>2
  <2> HIDE DEF T
  <2> QED BY <2>2, <2>3, <2>4
<1>2. Min(T) \in T /\ \A x \in T : Min(T) <= x
  <2> HIDE DEF T
  <2> QED BY <1>1, MinExists
<1>3. PICK x \in S : Min(T) = m - x
  BY <1>2
<1>4. \A y \in S : y <= x
  <2> SUFFICES ASSUME NEW y \in S PROVE y <= x
    OBVIOUS
  <2>1. m - x <= m - y
    <3> HIDE DEF T
    <3> QED BY <1>1, <1>2, <1>3
  <2> QED BY <2>1
<1> QED BY <1>4 DEF Max

-----------------------------------------------------------------------------
(* Sets in order. *)

\* A bounded set is finite, and so is the part of it up to a number.
LEMMA UpToFinite ==
    ASSUME NEW m \in Nat, NEW S \in SUBSET (0..m)
    PROVE  /\ IsFiniteSet(S) /\ Cardinality(S) \in Nat
           /\ \A n : /\ UpTo(S, n) \in SUBSET S /\ IsFiniteSet(UpTo(S, n))
                    /\ Cardinality(UpTo(S, n)) \in Nat
                    /\ Cardinality(UpTo(S, n)) <= Cardinality(S)
<1>1. IsFiniteSet(0..m)
  BY FS_Interval
<1>2. IsFiniteSet(S) /\ Cardinality(S) \in Nat
  BY <1>1, FS_Subset, FS_CardinalityType
<1>3. ASSUME NEW n
      PROVE  /\ UpTo(S, n) \in SUBSET S /\ IsFiniteSet(UpTo(S, n))
             /\ Cardinality(UpTo(S, n)) \in Nat
             /\ Cardinality(UpTo(S, n)) <= Cardinality(S)
  <2>1. UpTo(S, n) \in SUBSET S
    BY DEF UpTo
  <2> QED
    BY <1>2, <2>1, FS_Subset, FS_CardinalityType
<1> QED
  BY <1>2, <1>3

\* The more of a number, the more is up to it.
LEMMA UpToGrows ==
    ASSUME NEW m \in Nat, NEW S \in SUBSET (0..m), NEW x \in Int, NEW y \in S, x < y
    PROVE  Cardinality(UpTo(S, x)) < Cardinality(UpTo(S, y))
<1> \A z \in S : z \in Int
  OBVIOUS
<1>1. UpTo(S, x) \in SUBSET UpTo(S, y) /\ y \in UpTo(S, y) /\ y \notin UpTo(S, x)
  <2>1. \A z \in S : z <= x => z <= y
    OBVIOUS
  <2>2. y <= y /\ ~(y <= x)
    OBVIOUS
  <2> QED BY <2>1, <2>2 DEF UpTo
<1>2. IsFiniteSet(UpTo(S, y)) /\ Cardinality(UpTo(S, x)) \in Nat /\ Cardinality(UpTo(S, y)) \in Nat
  BY UpToFinite
<1>3. Cardinality(UpTo(S, x)) <= Cardinality(UpTo(S, y))
      /\ Cardinality(UpTo(S, x)) # Cardinality(UpTo(S, y))
  BY <1>1, <1>2, FS_Subset
<1> QED
  BY <1>2, <1>3

\* A member stands at the place that counts the members up to it.
LEMMA SortedRank ==
    ASSUME NEW m \in Nat, NEW S \in SUBSET (0..m), NEW e \in S
    PROVE  /\ Cardinality(UpTo(S, e)) \in 1..Cardinality(S)
           /\ Sorted(S)[Cardinality(UpTo(S, e))] = e
<1> DEFINE k == Cardinality(UpTo(S, e))
           T == {x \in S : Cardinality(UpTo(S, x)) >= k}
<1>1. k \in 1..Cardinality(S) /\ k \in Nat
  <2>1. e \in UpTo(S, e) /\ IsFiniteSet(UpTo(S, e)) /\ k \in Nat /\ k <= Cardinality(S)
        /\ Cardinality(S) \in Nat
    BY UpToFinite DEF UpTo
  <2>2. k # 0
    BY <2>1, FS_EmptySet
  <2> QED
    BY <2>1, <2>2
<1>2. Sorted(S)[k] = Min(T)
  BY <1>1 DEF Sorted
<1>3. T \in SUBSET Nat /\ e \in T
  <2>1. T \in SUBSET Nat
    <3> S \in SUBSET Nat
      OBVIOUS
    <3> QED OBVIOUS
  <2>2. k >= k
    BY <1>1
  <2> QED BY <2>1, <2>2
<1>4. Min(T) \in T /\ Min(T) <= e
  <2> HIDE DEF T
  <2> QED BY <1>3, MinExists
<1>5. ~(Min(T) < e)
  <2> SUFFICES ASSUME NEW x \in T, x < e PROVE FALSE
    BY <1>4
  <2>1. Cardinality(UpTo(S, x)) < k
    BY UpToGrows
  <2>2. Cardinality(UpTo(S, x)) >= k /\ Cardinality(UpTo(S, x)) \in Nat
    BY UpToFinite
  <2> HIDE DEF T, k
  <2> QED BY <1>1, <2>1, <2>2
<1>6. Min(T) \in Nat
  BY <1>3, <1>4
<1> HIDE DEF T
<1> QED
  BY <1>1, <1>2, <1>4, <1>5, <1>6

\* A set in order is a sequence of its members.
LEMMA SortedIsSeq ==
    ASSUME NEW m \in Nat, NEW S \in SUBSET (0..m)
    PROVE  /\ Sorted(S) \in Seq(S) /\ Len(Sorted(S)) = Cardinality(S)
           /\ DOMAIN Sorted(S) = 1..Cardinality(S)
           /\ \A k \in 1..Cardinality(S) : Sorted(S)[k] \in S
<1>1. IsFiniteSet(S) /\ Cardinality(S) \in Nat
  BY UpToFinite
<1>2. ASSUME NEW k \in 1..Cardinality(S) PROVE Sorted(S)[k] \in S
  <2> DEFINE T == {x \in S : Cardinality(UpTo(S, x)) >= k}
  <2>1. S # {}
    BY <1>1, FS_EmptySet
  <2>2. Max(S) \in S /\ \A x \in S : x <= Max(S)
    BY <2>1, MaxExists
  <2>3. UpTo(S, Max(S)) = S
    BY <2>2 DEF UpTo
  <2>4. T \in SUBSET Nat /\ Max(S) \in T
    <3>1. T \in SUBSET Nat
      <4> S \in SUBSET Nat
        OBVIOUS
      <4> QED OBVIOUS
    <3>2. Cardinality(S) >= k
      BY <1>1
    <3> QED BY <2>2, <2>3, <3>1, <3>2
  <2>5. Min(T) \in T
    <3> HIDE DEF T
    <3> QED BY <2>4, MinExists
  <2>6. Min(T) \in S
    BY <2>5
  <2> QED
    BY <2>6 DEF Sorted
<1>3. Sorted(S) \in [1..Cardinality(S) -> S]
  BY <1>2 DEF Sorted
<1> QED
  BY <1>1, <1>2, <1>3

LEMMA SortedEmpty == Sorted({}) = <<>>
<1>1. Cardinality({}) = 0
  BY FS_EmptySet
<1> QED
  BY <1>1 DEF Sorted

\* A member above all others comes last.
LEMMA SortedAppend ==
    ASSUME NEW m \in Nat, NEW S \in SUBSET (0..m), NEW x \in 0..m, \A y \in S : y < x
    PROVE  /\ Sorted(S \cup {x}) = Append(Sorted(S), x)
           /\ Cardinality(S \cup {x}) = Cardinality(S) + 1
<1> DEFINE n == Cardinality(S)  U == S \cup {x}
<1> \A y \in S : y \in Int
  OBVIOUS
<1>1. n \in Nat /\ IsFiniteSet(S) /\ Cardinality(U) = n + 1 /\ U \in SUBSET (0..m)
  <2>1. n \in Nat /\ IsFiniteSet(S) /\ U \in SUBSET (0..m)
    BY UpToFinite
  <2>2. x \notin S
    OBVIOUS
  <2> QED BY <2>1, <2>2, FS_AddElement
<1>2. Sorted(S) \in Seq(S) /\ Len(Sorted(S)) = n
  BY SortedIsSeq
<1>3. Sorted(U) \in Seq(U) /\ Len(Sorted(U)) = n + 1
  BY <1>1, SortedIsSeq
<1>4. UpTo(U, x) = U /\ x \in U
  <2>1. \A y \in U : y <= x
    OBVIOUS
  <2> QED BY <2>1 DEF UpTo
<1>5. Sorted(U)[n + 1] = x
  <2> HIDE DEF U
  <2>1. Sorted(U)[Cardinality(UpTo(U, x))] = x
    BY <1>1, <1>4, SortedRank
  <2> QED BY <1>1, <1>4, <2>1
<1>6. ASSUME NEW k \in 1..n PROVE Sorted(U)[k] = Sorted(S)[k]
  <2> DEFINE T == {y \in S : Cardinality(UpTo(S, y)) >= k}
             V == {y \in U : Cardinality(UpTo(U, y)) >= k}
  <2>1. \A y \in S : UpTo(U, y) = UpTo(S, y)
    BY DEF UpTo
  <2>2. V = T \cup {x}
    <3>1. x \in V
      <4>1. n + 1 >= k
        BY <1>1
      <4> QED BY <1>1, <1>4, <4>1
    <3> QED BY <2>1, <3>1
  <2>3. Sorted(S)[k] \in S
    BY <1>2
  <2>4. Sorted(S)[k] = Min(T)
    BY <1>1 DEF Sorted
  <2>5. Sorted(U)[k] = Min(V)
    BY <1>1 DEF Sorted
  <2>6. T # {} /\ T \in SUBSET Nat /\ V \in SUBSET Nat
    <3>1. Max(S) \in S /\ \A y \in S : y <= Max(S)
      <4>1. S # {}
        BY <1>1, FS_EmptySet
      <4> QED BY <4>1, MaxExists
    <3>2. UpTo(S, Max(S)) = S
      BY <3>1 DEF UpTo
    <3>3. n >= k
      BY <1>1
    <3>4. Max(S) \in T
      BY <3>1, <3>2, <3>3
    <3>5. T \in SUBSET Nat /\ V \in SUBSET Nat
      <4> S \in SUBSET Nat /\ U \in SUBSET Nat
        OBVIOUS
      <4> QED OBVIOUS
    <3> QED BY <3>4, <3>5
  <2>7. /\ Min(T) \in T /\ \A y \in T : Min(T) <= y
        /\ Min(V) \in V /\ \A y \in V : Min(V) <= y
    <3>1. V # {}
      BY <2>2, <2>6
    <3> HIDE DEF T, V
    <3> QED BY <2>6, <3>1, MinExists
  <2>8. \A y \in T : y < x /\ y \in Nat
    OBVIOUS
  <2>9. Min(T) \in Nat /\ Min(V) \in Nat
    <3> HIDE DEF T, V
    <3> QED BY <2>6, <2>7
  <2> HIDE DEF T, V
  <2>10. Min(T) \in V /\ Min(V) <= Min(T) /\ Min(T) < x
    BY <2>2, <2>7, <2>8
  <2>11. Min(V) \in T
    <3>1. Min(V) # x
      BY <2>9, <2>10
    <3> QED BY <2>2, <2>7, <3>1
  <2>12. Min(T) <= Min(V)
    BY <2>7, <2>11
  <2> QED
    BY <2>4, <2>5, <2>9, <2>10, <2>12
<1> HIDE DEF n, U
<1>7. Append(Sorted(S), x) \in Seq(U) /\ Len(Append(Sorted(S), x)) = n + 1
      /\ \A k \in 1..n : Append(Sorted(S), x)[k] = Sorted(S)[k]
      /\ Append(Sorted(S), x)[n + 1] = x
  <2>1. Sorted(S) \in Seq(U) /\ x \in U
    BY <1>2 DEF U
  <2> QED
    BY <1>1, <1>2, <2>1
<1>8. \A k \in 1..(n + 1) : Sorted(U)[k] = Append(Sorted(S), x)[k]
  BY <1>1, <1>5, <1>6, <1>7
<1>9. Sorted(U) = Append(Sorted(S), x)
  BY <1>1, <1>3, <1>7, <1>8, SeqEqual
<1> QED
  BY <1>1, <1>9 DEF U, n

\* A set in order ascends.
LEMMA SortedAscends ==
    ASSUME NEW m \in Nat, NEW S \in SUBSET (0..m), NEW k \in 2..Cardinality(S)
    PROVE  /\ k - 1 \in 1..Cardinality(S)
           /\ Sorted(S)[k - 1] \in S /\ Sorted(S)[k] \in S
           /\ Sorted(S)[k - 1] <= Sorted(S)[k]
<1> DEFINE T(i) == {x \in S : Cardinality(UpTo(S, x)) >= i}
<1>1. Cardinality(S) \in Nat /\ k \in 1..Cardinality(S) /\ k - 1 \in 1..Cardinality(S)
  <2>1. Cardinality(S) \in Nat
    BY UpToFinite
  <2> QED BY <2>1
<1>2. \A i \in 1..Cardinality(S) : Sorted(S)[i] \in S
  BY SortedIsSeq
<1>3. Sorted(S)[k] = Min(T(k)) /\ Sorted(S)[k - 1] = Min(T(k - 1))
  BY <1>1 DEF Sorted
<1>4. T(k) \in SUBSET T(k - 1)
  <2>1. \A x : Cardinality(UpTo(S, x)) \in Nat
    BY UpToFinite
  <2>2. \A n \in Nat : n >= k => n >= k - 1
    OBVIOUS
  <2> QED BY <2>1, <2>2
<1>5. T(k) # {}
  <2>1. S # {}
    BY <1>1, <1>2
  <2>2. Max(S) \in S /\ \A x \in S : x <= Max(S)
    BY <2>1, MaxExists
  <2>3. UpTo(S, Max(S)) = S
    BY <2>2 DEF UpTo
  <2>4. Cardinality(S) >= k
    BY <1>1
  <2> QED BY <2>2, <2>3, <2>4
<1>6. T(k) \in SUBSET Nat /\ T(k - 1) \in SUBSET Nat
  <2>1. S \in SUBSET Nat
    OBVIOUS
  <2> QED BY <2>1
<1> HIDE DEF T
<1>7. Min(T(k)) \in T(k)
  BY <1>5, <1>6, MinExists
<1>8. \A x \in T(k - 1) : Min(T(k - 1)) <= x
  BY <1>4, <1>5, <1>6, MinExists
<1> QED
  BY <1>1, <1>2, <1>3, <1>4, <1>7, <1>8

\* The next member after a number, when there is none between.
LEMMA UpToJump ==
    ASSUME NEW m \in Nat, NEW S \in SUBSET (0..m), NEW n \in Nat, NEW e \in S, n < e,
           \A y \in S : ~(n < y /\ y < e)
    PROVE  /\ UpTo(S, e) = UpTo(S, n) \cup {e}
           /\ Cardinality(UpTo(S, e)) = Cardinality(UpTo(S, n)) + 1
           /\ Sorted(UpTo(S, e)) = Append(Sorted(UpTo(S, n)), e)
<1>1. e \in 0..m /\ \A y \in S : (y <= e <=> y <= n \/ y = e) /\ (y <= n => y < e)
  OBVIOUS
<1>2. UpTo(S, e) = UpTo(S, n) \cup {e}
  BY <1>1 DEF UpTo
<1>3. UpTo(S, n) \in SUBSET (0..m) /\ \A y \in UpTo(S, n) : y < e
  <2>1. UpTo(S, n) \in SUBSET S
    BY DEF UpTo
  <2>2. \A y \in UpTo(S, n) : y < e
    BY <1>1 DEF UpTo
  <2> QED BY <2>1, <2>2
<1> QED
  BY <1>1, <1>2, <1>3, SortedAppend

\* One number further.
LEMMA UpToNext ==
    ASSUME NEW m \in Nat, NEW S \in SUBSET (0..m), NEW n \in Nat
    PROVE  /\ n + 1 \notin S => UpTo(S, n + 1) = UpTo(S, n)
           /\ n + 1 \in S => /\ UpTo(S, n + 1) = UpTo(S, n) \cup {n + 1}
                             /\ Cardinality(UpTo(S, n + 1)) = Cardinality(UpTo(S, n)) + 1
                             /\ Sorted(UpTo(S, n + 1)) = Append(Sorted(UpTo(S, n)), n + 1)
<1>1. \A y \in S : y \in Int /\ (y <= n + 1 <=> y <= n \/ y = n + 1)
  OBVIOUS
<1>2. n + 1 \notin S => UpTo(S, n + 1) = UpTo(S, n)
  BY <1>1 DEF UpTo
<1>3. ASSUME n + 1 \in S
      PROVE  UpTo(S, n + 1) = UpTo(S, n) \cup {n + 1}
  BY <1>1, <1>3 DEF UpTo
<1>4. ASSUME n + 1 \in S
      PROVE  /\ Cardinality(UpTo(S, n + 1)) = Cardinality(UpTo(S, n)) + 1
             /\ Sorted(UpTo(S, n + 1)) = Append(Sorted(UpTo(S, n)), n + 1)
  <2> DEFINE T == UpTo(S, n)
  <2>1. T \in SUBSET (0..m) /\ n + 1 \in 0..m
    BY <1>4 DEF UpTo
  <2>2. \A y \in T : y < n + 1
    <3>1. \A y \in S : y <= n => y < n + 1
      OBVIOUS
    <3> QED BY <3>1 DEF UpTo
  <2> HIDE DEF T
  <2>3. /\ Sorted(T \cup {n + 1}) = Append(Sorted(T), n + 1)
        /\ Cardinality(T \cup {n + 1}) = Cardinality(T) + 1
    BY <2>1, <2>2, SortedAppend
  <2> QED BY <1>3, <1>4, <2>3 DEF T
<1> QED
  BY <1>2, <1>3, <1>4

LEMMA UpToEnds ==
    ASSUME NEW m \in Nat, NEW S \in SUBSET (1..m)
    PROVE  S \in SUBSET (0..m) /\ UpTo(S, m) = S /\ UpTo(S, 0) = {}
<1>1. \A y \in S : y <= m /\ ~(y <= 0) /\ y \in 0..m
  OBVIOUS
<1>2. S \in SUBSET (0..m)
  BY <1>1
<1>3. UpTo(S, m) = S /\ UpTo(S, 0) = {}
  BY <1>1 DEF UpTo
<1> QED
  BY <1>2, <1>3

(* What s has at some places, in order. *)
LEMMA PickedFacts ==
    ASSUME NEW m \in Nat, NEW S \in SUBSET (0..m), NEW s
    PROVE  /\ Cardinality(S) \in Nat /\ DOMAIN Picked(s, S) = 1..Cardinality(S)
           /\ Picked(s, S) = [k \in 1..Cardinality(S) |-> s[Sorted(S)[k]]]
           /\ \A k \in 1..Cardinality(S) : Sorted(S)[k] \in S
<1>1. DOMAIN Sorted(S) = 1..Cardinality(S) /\ \A k \in 1..Cardinality(S) : Sorted(S)[k] \in S
  BY SortedIsSeq
<1>2. Cardinality(S) \in Nat
  BY UpToFinite
<1> QED
  BY <1>1, <1>2 DEF Picked

LEMMA PickedType ==
    ASSUME NEW m \in Nat, NEW S \in SUBSET (0..m), NEW s, NEW V, \A x \in S : s[x] \in V
    PROVE  Picked(s, S) \in Seq(V) /\ Len(Picked(s, S)) = Cardinality(S)
<1> DEFINE c == Cardinality(S)
           t == Picked(s, S)
<1>1. c \in Nat /\ t = [k \in 1..c |-> s[Sorted(S)[k]]] /\ \A k \in 1..c : Sorted(S)[k] \in S
  BY PickedFacts
<1> HIDE DEF c, t
<1>2. t \in [1..c -> V]
  BY <1>1
<1>3. t \in Seq(V) /\ Len(t) = c
  BY <1>1, <1>2
<1> QED
  BY <1>3 DEF c, t

LEMMA PickedEmpty == ASSUME NEW s PROVE Picked(s, {}) = <<>>
<1>1. Sorted({}) = <<>>
  BY SortedEmpty
<1> QED
  BY <1>1 DEF Picked

(* A place above all others comes last. *)
LEMMA PickedAppend ==
    ASSUME NEW m \in Nat, NEW S \in SUBSET (0..m), NEW x \in 0..m, \A y \in S : y < x, NEW s,
           NEW V, \A y \in S : s[y] \in V, s[x] \in V
    PROVE  /\ Picked(s, S \cup {x}) = Append(Picked(s, S), s[x])
           /\ Cardinality(S \cup {x}) = Cardinality(S) + 1
<1> DEFINE T == S \cup {x}
           c == Cardinality(S)
<1>1. Sorted(T) = Append(Sorted(S), x) /\ Cardinality(T) = c + 1
  BY SortedAppend
<1>2. T \in SUBSET (0..m) /\ \A y \in T : s[y] \in V
  OBVIOUS
<1> HIDE DEF T
<1>3. Picked(s, S) \in Seq(V) /\ Len(Picked(s, S)) = c
  BY PickedType
<1>4. Picked(s, T) \in Seq(V) /\ Len(Picked(s, T)) = c + 1
  BY <1>1, <1>2, PickedType
<1>5. /\ c \in Nat /\ Picked(s, S) = [k \in 1..c |-> s[Sorted(S)[k]]]
      /\ Sorted(S) \in Seq(S) /\ Len(Sorted(S)) = c
  <2>1. c \in Nat /\ Picked(s, S) = [k \in 1..c |-> s[Sorted(S)[k]]]
    BY PickedFacts
  <2>2. Sorted(S) \in Seq(S) /\ Len(Sorted(S)) = c
    BY SortedIsSeq
  <2> QED
    BY <2>1, <2>2
<1>6. Picked(s, T) = [k \in 1..(c + 1) |-> s[Sorted(T)[k]]]
  <2>1. Picked(s, T) = [k \in 1..Cardinality(T) |-> s[Sorted(T)[k]]]
    BY <1>2, PickedFacts
  <2> QED
    BY <1>1, <2>1
<1> HIDE DEF c
<1>7. (\A k \in 1..c : Sorted(T)[k] = Sorted(S)[k]) /\ Sorted(T)[c + 1] = x
  BY <1>1, <1>5
<1>8. \A k \in 1..c : Picked(s, T)[k] = Picked(s, S)[k]
  BY <1>5, <1>6, <1>7
<1>9. Picked(s, T)[c + 1] = s[x]
  <2>1. c + 1 \in 1..(c + 1)
    BY <1>5
  <2> QED
    BY <1>6, <1>7, <2>1
<1> DEFINE p == Picked(s, S)
           q == Picked(s, T)
<1>10. q = Append(p, s[x])
  <2>1. p \in Seq(V) /\ Len(p) = c /\ q \in Seq(V) /\ Len(q) = c + 1 /\ c \in Nat
        /\ (\A k \in 1..c : q[k] = p[k]) /\ q[c + 1] = s[x]
    BY <1>3, <1>4, <1>5, <1>8, <1>9
  <2> HIDE DEF p, q
  <2>2. Append(p, s[x]) \in Seq(V) /\ Len(Append(p, s[x])) = c + 1
        /\ (\A k \in 1..c : Append(p, s[x])[k] = p[k]) /\ Append(p, s[x])[c + 1] = s[x]
    BY <2>1, AppendProperties
  <2>3. \A k \in 1..(c + 1) : k \in 1..c \/ k = c + 1
    BY <2>1
  <2>4. \A k \in 1..(c + 1) : q[k] = Append(p, s[x])[k]
    BY <2>1, <2>2, <2>3
  <2> QED
    BY <2>1, <2>2, <2>4, SeqEqual
<1> QED
  BY <1>1, <1>10 DEF T, c

-----------------------------------------------------------------------------
(* Induction and recursion over an interval of numbers. *)

\* What holds of 0 and passes from each number to the next holds up to n.
LEMMA UpToInduction ==
    ASSUME NEW n \in Nat, NEW P, 0 \in P, \A i \in 1..n : i - 1 \in P => i \in P
    PROVE  \A i \in 0..n : i \in P
<1> DEFINE T == (0..n) \ P
<1> SUFFICES ASSUME T # {} PROVE FALSE
  OBVIOUS
<1>1. T \in SUBSET Nat
  OBVIOUS
<1>2. Min(T) \in T /\ \A x \in T : Min(T) <= x
  <2> HIDE DEF T
  <2> QED BY <1>1, MinExists
<1>3. PICK t \in T : \A x \in T : t <= x
  BY <1>2
<1>4. t \in 1..n /\ t - 1 \in 0..n
  OBVIOUS
<1>5. t - 1 \notin T
  <2> HIDE DEF T
  <2> QED BY <1>3, <1>4
<1> QED
  BY <1>4, <1>5

\* f starts with b and makes each value from the one before.
Follows(f, n, V, b, step) ==
    f \in [0..n -> V] /\ f[0] = b /\ \A i \in 1..n : f[i] = step[<<i, f[i - 1]>>]

\* A value for 0 and a way from each value to the next define a function.
LEMMA RecursionExists ==
    ASSUME NEW n \in Nat, NEW V, NEW b \in V, NEW step \in [(1..n) \X V -> V]
    PROVE  \E f : Follows(f, n, V, b, step)
<1> DEFINE Good(k, f) == Follows(f, k, V, b, step)
           P == {k \in 0..n : \E f : Good(k, f)}
<1>1. 0 \in P
  <2>1. Good(0, [i \in 0..0 |-> b])
    BY DEF Follows
  <2> HIDE DEF Good
  <2> QED BY <2>1
<1>2. ASSUME NEW k \in 1..n, k - 1 \in P PROVE k \in P
  <2>1. PICK f : Good(k - 1, f)
    BY <1>2
  <2> DEFINE g == [i \in 0..k |-> IF i = k THEN step[<<k, f[k - 1]>>] ELSE f[i]]
  <2>2. k - 1 \in 0..(k - 1) /\ f[k - 1] \in V
    BY <2>1 DEF Follows
  <2>3. step[<<k, f[k - 1]>>] \in V
    BY <2>2
  <2>4. g \in [0..k -> V]
    <3>1. \A i \in 0..k : i # k => i \in 0..(k - 1)
      OBVIOUS
    <3> QED BY <2>1, <2>3, <3>1 DEF Follows
  <2>5. g[0] = b
    BY <2>1 DEF Follows
  <2>6. \A i \in 1..k : g[i] = step[<<i, g[i - 1]>>]
    <3> SUFFICES ASSUME NEW i \in 1..k PROVE g[i] = step[<<i, g[i - 1]>>]
      OBVIOUS
    <3>1. i \in 0..k /\ i - 1 \in 0..k /\ i - 1 # k
      OBVIOUS
    <3>2. g[i - 1] = f[i - 1]
      BY <3>1
    <3>3. CASE i = k
      BY <3>1, <3>2, <3>3
    <3>4. CASE i # k
      <4>1. i \in 1..(k - 1)
        BY <3>4
      <4>2. f[i] = step[<<i, f[i - 1]>>]
        BY <2>1, <4>1 DEF Follows
      <4> QED BY <3>1, <3>2, <3>4, <4>2
    <3> QED BY <3>3, <3>4
  <2>7. Good(k, g)
    BY <2>4, <2>5, <2>6 DEF Follows
  <2> HIDE DEF Good, g
  <2> QED BY <2>7
<1> HIDE DEF P
<1>3. n \in P
  BY <1>1, <1>2, UpToInduction
<1> QED
  BY <1>3 DEF P

-----------------------------------------------------------------------------
(* Sequences of sequences, one after the other. *)

\* f[i] is the first i of the sequences in a row.
Rows(f, E, ss) ==
    /\ f \in [0..Len(ss) -> Seq(E)] /\ f[0] = <<>>
    /\ \A i \in 1..Len(ss) : f[i] = f[i - 1] \o ss[i]

\* FlattenSeq appends the sequences one by one.
LEMMA FlattenUnfolds ==
    ASSUME NEW E, NEW ss \in Seq(Seq(E))
    PROVE  \E f : Rows(f, E, ss) /\ FlattenSeq(ss) = f[Len(ss)]
<1> DEFINE n == Len(ss)  V == Seq(E)
           step == [p \in (1..n) \X V |-> p[2] \o ss[p[1]]]
<1>1. n \in Nat /\ <<>> \in V /\ \A i \in 1..n : ss[i] \in V
  OBVIOUS
<1>2. \A v \in V : <<>> \o v = v
  OBVIOUS
<1>3. step \in [(1..n) \X V -> V]
  <2>1. \A p \in (1..n) \X V : p[2] \o ss[p[1]] \in V
    BY <1>1
  <2> QED BY <2>1
<1>4. PICK f : Follows(f, n, V, <<>>, step)
  <2> HIDE DEF step, n, V
  <2> QED BY <1>1, <1>3, RecursionExists
<1>5. /\ f \in [0..n -> V] /\ f[0] = <<>>
      /\ \A i \in 1..n : f[i] = f[i - 1] \o ss[i]
  <2> HIDE DEF n, V
  <2>1. f \in [0..n -> V] /\ f[0] = <<>>
    BY <1>4 DEF Follows
  <2>2. ASSUME NEW i \in 1..n PROVE f[i] = f[i - 1] \o ss[i]
    <3>1. i - 1 \in 0..n
      BY <1>1
    <3>2. f[i - 1] \in V
      BY <2>1, <3>1
    <3>3. step[<<i, f[i - 1]>>] = f[i - 1] \o ss[i]
      BY <3>2
    <3> QED BY <1>4, <3>3 DEF Follows
  <2> QED BY <2>1, <2>2
<1> HIDE DEF step
<1>6. FlattenSeq(ss) = f[n]
  <2>1. CASE n = 0
    BY <1>5, <2>1 DEF FlattenSeq
  <2>2. CASE n # 0
    <3> DEFINE Body(F) == [i \in 1..n |-> IF i = 1 THEN ss[i] ELSE F[i - 1] \o ss[i]]
               F == CHOOSE F : F = Body(F)
               G == [i \in 1..n |-> f[i]]
    <3>1. FlattenSeq(ss) = F[n]
      BY <2>2 DEF FlattenSeq
    <3> HIDE DEF n, V
    <3>2. ASSUME NEW i \in 1..n, i = 1 PROVE f[i] = ss[i]
      <4>1. f[i] = f[i - 1] \o ss[i]
        BY <1>5
      <4>2. i - 1 = 0
        BY <3>2
      <4> QED BY <1>1, <1>2, <1>5, <4>1, <4>2
    <3>3. ASSUME NEW i \in 1..n PROVE i - 1 \in 1..n \/ i = 1
      BY <1>1
    <3>4. G = Body(G)
      <4>1. ASSUME NEW i \in 1..n
            PROVE  f[i] = IF i = 1 THEN ss[i] ELSE G[i - 1] \o ss[i]
        <5>1. CASE i = 1
          BY <3>2, <5>1
        <5>2. CASE i # 1
          BY <1>5, <3>3, <5>2
        <5> QED BY <5>1, <5>2
      <4> QED BY <4>1
    <3>5. F = Body(F)
      <4> HIDE DEF Body, G
      <4> QED BY <3>4
    <3> HIDE DEF F
    <3> DEFINE P == {0} \cup {i \in 1..n : F[i] = f[i]}
    <3>6. ASSUME NEW i \in 1..n, i - 1 \in P PROVE i \in P
      <4>1. F[i] = IF i = 1 THEN ss[i] ELSE F[i - 1] \o ss[i]
        BY <3>5
      <4>2. CASE i = 1
        BY <3>2, <4>1, <4>2
      <4>3. CASE i # 1
        <5>1. F[i - 1] = f[i - 1]
          BY <3>6, <4>3
        <5> QED BY <1>5, <4>1, <4>3, <5>1
      <4> QED BY <4>2, <4>3
    <3>7. n \in P
      <4>1. 0 \in P /\ n \in 0..n
        BY <1>1
      <4> HIDE DEF P
      <4> QED BY <1>1, <3>6, <4>1, UpToInduction
    <3> QED
      BY <2>2, <3>1, <3>7
  <2> QED
    BY <2>1, <2>2
<1> QED
  BY <1>5, <1>6 DEF Rows

LEMMA FlattenEmpty == FlattenSeq(<<>>) = <<>>
BY DEF FlattenSeq

\* One sequence more.
LEMMA FlattenAppend ==
    ASSUME NEW E, NEW ss \in Seq(Seq(E)), NEW s \in Seq(E)
    PROVE  FlattenSeq(ss) \in Seq(E) /\ FlattenSeq(Append(ss, s)) = FlattenSeq(ss) \o s
<1> DEFINE n == Len(ss)  tt == Append(ss, s)
<1>1. n \in Nat /\ tt \in Seq(Seq(E)) /\ Len(tt) = n + 1 /\ tt[n + 1] = s
      /\ \A i \in 1..n : tt[i] = ss[i]
  OBVIOUS
<1>2. PICK f : Rows(f, E, ss) /\ FlattenSeq(ss) = f[n]
  BY FlattenUnfolds
<1>3. PICK g : Rows(g, E, tt) /\ FlattenSeq(tt) = g[n + 1]
  <2> HIDE DEF tt
  <2>1. \E g : Rows(g, E, tt) /\ FlattenSeq(tt) = g[Len(tt)]
    BY <1>1, FlattenUnfolds
  <2> QED BY <1>1, <2>1
<1>4. /\ f \in [0..n -> Seq(E)] /\ f[0] = <<>>
      /\ \A i \in 1..n : f[i] = f[i - 1] \o ss[i]
  BY <1>2 DEF Rows
<1>5. /\ g[0] = <<>>
      /\ \A i \in 1..(n + 1) : g[i] = g[i - 1] \o tt[i]
  <2> HIDE DEF tt
  <2> QED BY <1>1, <1>3 DEF Rows
<1> HIDE DEF n, tt
<1> DEFINE P == {i \in 0..n : f[i] = g[i]}
<1>6. ASSUME NEW i \in 1..n, i - 1 \in P PROVE i \in P
  <2>1. i \in 1..(n + 1) /\ i \in 0..n
    BY <1>1
  <2>2. f[i] = f[i - 1] \o ss[i] /\ g[i] = g[i - 1] \o tt[i] /\ tt[i] = ss[i]
    BY <1>1, <1>4, <1>5, <2>1
  <2>3. f[i - 1] = g[i - 1]
    BY <1>6
  <2> QED BY <2>1, <2>2, <2>3
<1>7. n \in P
  <2>1. 0 \in P /\ n \in 0..n
    BY <1>1, <1>4, <1>5
  <2> HIDE DEF P
  <2> QED BY <1>1, <1>6, <2>1, UpToInduction
<1>8. g[n + 1] = g[n] \o s
  <2>1. n + 1 \in 1..(n + 1) /\ (n + 1) - 1 = n
    BY <1>1
  <2>2. g[n + 1] = g[(n + 1) - 1] \o tt[n + 1]
    BY <1>5, <2>1
  <2> QED BY <1>1, <2>1, <2>2
<1>9. f[n] \in Seq(E) /\ f[n] = g[n]
  BY <1>1, <1>4, <1>7
<1> QED
  BY <1>2, <1>3, <1>8, <1>9 DEF tt

\* The same, of the first n and the first n + 1 values of a function.
LEMMA FlattenNext ==
    ASSUME NEW E, NEW n \in Nat, NEW f, \A k \in 1..(n + 1) : f[k] \in Seq(E)
    PROVE  /\ FlattenSeq([k \in 1..n |-> f[k]]) \in Seq(E)
           /\ FlattenSeq([k \in 1..(n + 1) |-> f[k]]) = FlattenSeq([k \in 1..n |-> f[k]]) \o f[n + 1]
<1> DEFINE ss == [k \in 1..n |-> f[k]]  tt == [k \in 1..(n + 1) |-> f[k]]
<1>1. n + 1 \in 1..(n + 1) /\ \A k \in 1..n : k \in 1..(n + 1) /\ k # n + 1
  OBVIOUS
<1>2. ss \in [1..n -> Seq(E)]
  BY <1>1
<1>3. ss \in Seq(Seq(E)) /\ Len(ss) = n
  <2> HIDE DEF ss
  <2> QED BY <1>2
<1>4. tt \in [1..(n + 1) -> Seq(E)]
  OBVIOUS
<1>5. tt \in Seq(Seq(E)) /\ Len(tt) = n + 1
  <2> HIDE DEF tt
  <2> QED BY <1>4
<1>6. f[n + 1] \in Seq(E)
  BY <1>1
<1>7. /\ Append(ss, f[n + 1]) \in Seq(Seq(E)) /\ Len(Append(ss, f[n + 1])) = n + 1
      /\ \A k \in 1..n : Append(ss, f[n + 1])[k] = ss[k]
      /\ Append(ss, f[n + 1])[n + 1] = f[n + 1]
  <2> HIDE DEF ss
  <2> QED BY <1>3, <1>6
<1>8. \A k \in 1..(n + 1) : tt[k] = Append(ss, f[n + 1])[k]
  <2> TAKE k \in 1..(n + 1)
  <2>1. CASE k = n + 1
    <3>1. tt[n + 1] = f[n + 1]
      BY <1>1
    <3> HIDE DEF tt, ss
    <3> QED BY <1>7, <2>1, <3>1
  <2>2. CASE k # n + 1
    <3>1. k \in 1..n
      BY <2>2
    <3>2. tt[k] = ss[k]
      BY <3>1
    <3> HIDE DEF tt, ss
    <3> QED BY <1>7, <3>1, <3>2
  <2> QED BY <2>1, <2>2
<1>9. tt = Append(ss, f[n + 1])
  <2> HIDE DEF tt, ss
  <2> QED BY <1>5, <1>7, <1>8, SeqEqual
<1> HIDE DEF tt, ss
<1>10. FlattenSeq(ss) \in Seq(E) /\ FlattenSeq(Append(ss, f[n + 1])) = FlattenSeq(ss) \o f[n + 1]
  BY <1>3, <1>6, FlattenAppend
<1> QED
  BY <1>9, <1>10 DEF tt, ss
=============================================================================
