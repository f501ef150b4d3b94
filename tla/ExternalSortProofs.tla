------------------------ MODULE ExternalSortProofs ------------------------
(***************************************************************************)
(* The out-of-core build for every input, run size, offset width and       *)
(* stamp width: its runs hold the input, its quads are the in-memory       *)
(* build's, its families address them, and its run directory goes with the *)
(* last reader.  What a sort, a flush and a turn of a merge do, for every  *)
(* input, comes first.                                                     *)
(***************************************************************************)
EXTENDS ExternalSort, FiniteSetTheorems, TLAPS

Tuples(n) == [1..n -> Nat]

-----------------------------------------------------------------------------
(* The order of tuples                                                     *)

(* A set of numbers that is not empty has a least one.                     *)
LEMMA LeastNumber ==
  ASSUME NEW T \in SUBSET Nat, T # {}
  PROVE  \E x \in T : \A y \in T : x <= y
<1> DEFINE R == OpToRel(<, Nat)
<1>1. \A x, y \in Nat : <<y, x>> \in R <=> y < x
  BY DEF OpToRel
<1>2. IsWellFoundedOn(R, Nat)
  BY NatLessThanWellFounded
<1> HIDE DEF R
<1>3. PICK x \in T : \A y \in T : ~(<<y, x>> \in R)
  BY <1>2, WFMin
<1>4. \A y \in T : x <= y
  <2> TAKE y \in T
  <2>1. x \in Nat /\ y \in Nat
    OBVIOUS
  <2>2. ~(y < x)
    BY <1>1, <1>3, <2>1, Zenon
  <2> QED BY <2>1, <2>2
<1> QED BY <1>4

(* Less is a strict order of the tuples of one length.                     *)
LEMMA LessStrict ==
  ASSUME NEW n \in Nat
  PROVE  /\ \A a \in Tuples(n) : ~Less(a, a)
         /\ \A a, b, c \in Tuples(n) : Less(a, b) /\ Less(b, c) => Less(a, c)
         /\ \A a, b \in Tuples(n) : Less(a, b) => ~Less(b, a) /\ a # b
<1>1. \A a \in Tuples(n) : ~Less(a, a)
  BY DEF Less, Tuples
<1>2. ASSUME NEW a \in Tuples(n), NEW b \in Tuples(n), NEW c \in Tuples(n), Less(a, b), Less(b, c)
      PROVE  Less(a, c)
  <2>1. PICK i \in 1..n : a[i] < b[i] /\ \A j \in 1..(i - 1) : a[j] = b[j]
    BY <1>2 DEF Less, Tuples
  <2>2. PICK k \in 1..n : b[k] < c[k] /\ \A j \in 1..(k - 1) : b[j] = c[j]
    BY <1>2 DEF Less, Tuples
  <2>3. \A j \in 1..n : a[j] \in Nat /\ b[j] \in Nat /\ c[j] \in Nat
    BY DEF Tuples
  <2>4. CASE i <= k
    <3>1. b[i] <= c[i]
      <4>1. CASE i = k
        BY <4>1, <2>2, <2>3
      <4>2. CASE i < k
        <5>1. i \in 1..(k - 1)
          BY <4>2
        <5> QED BY <5>1, <2>2, <2>3
      <4> QED BY <4>1, <4>2, <2>4
    <3>2. a[i] < c[i]
      BY <3>1, <2>1, <2>3
    <3>3. \A j \in 1..(i - 1) : a[j] = c[j]
      <4> TAKE j \in 1..(i - 1)
      <4>1. j \in 1..(k - 1)
        BY <2>4
      <4> QED BY <4>1, <2>1, <2>2
    <3> QED BY <3>2, <3>3 DEF Less, Tuples
  <2>5. CASE k < i
    <3>1. k \in 1..(i - 1)
      BY <2>5
    <3>2. a[k] < c[k]
      BY <3>1, <2>1, <2>2, <2>3
    <3>3. \A j \in 1..(k - 1) : a[j] = c[j]
      <4> TAKE j \in 1..(k - 1)
      <4>1. j \in 1..(i - 1)
        BY <2>5
      <4> QED BY <4>1, <2>1, <2>2
    <3> QED BY <3>2, <3>3 DEF Less, Tuples
  <2> QED BY <2>4, <2>5
<1>3. ASSUME NEW a \in Tuples(n), NEW b \in Tuples(n), Less(a, b)
      PROVE  ~Less(b, a) /\ a # b
  BY <1>1, <1>2, <1>3
<1> QED BY <1>1, <1>2, <1>3, Zenon

(* It is total: two tuples differ first somewhere.                         *)
LEMMA LessTotal ==
  ASSUME NEW n \in Nat, NEW a \in Tuples(n), NEW b \in Tuples(n), a # b
  PROVE  Less(a, b) \/ Less(b, a)
<1> DEFINE T == {i \in 1..n : a[i] # b[i]}
<1>1. T # {}
  BY DEF Tuples
<1>2. T \in SUBSET Nat
  OBVIOUS
<1>3. PICK i \in T : \A j \in T : i <= j
  <2> HIDE DEF T
  <2> QED BY <1>1, <1>2, LeastNumber
<1>4. i \in 1..n /\ a[i] # b[i] /\ a[i] \in Nat /\ b[i] \in Nat
  BY DEF Tuples
<1>5. \A j \in 1..(i - 1) : a[j] = b[j]
  <2> SUFFICES ASSUME NEW j \in 1..(i - 1), a[j] # b[j] PROVE FALSE
    OBVIOUS
  <2>1. j \in T /\ j < i
    BY <1>4
  <2> QED BY <2>1, <1>3, <1>4
<1>6. a[i] < b[i] \/ b[i] < a[i]
  BY <1>4
<1> QED BY <1>4, <1>5, <1>6 DEF Less, Tuples

-----------------------------------------------------------------------------
(* Sorted sets                                                             *)

(* The members of S before x, by their keys.                               *)
Before(S, kf, x) == {y \in S : Less(kf[y], kf[x])}

(* SortedBy, the key as a function.                                        *)
InOrderOf(S, kf) == [i \in 1..Cardinality(S) |-> CHOOSE x \in S : Cardinality(Before(S, kf, x)) = i - 1]

(* Keys for S: tuples of one length, no two members with the same one.     *)
Keyed(S, n, kf) == kf \in [S -> Tuples(n)] /\ \A x, y \in S : kf[x] = kf[y] => x = y

(* An initial segment of the numbers is finite and has its last number of  *)
(* members.                                                                *)
LEMMA CountingTo ==
  ASSUME NEW n \in Nat
  PROVE  IsFiniteSet(1..n) /\ Cardinality(1..n) = n
BY FS_Interval

(* Each member of a finite set has a position of its own, and later        *)
(* members later ones.                                                     *)
LEMMA PositionsAscend ==
  ASSUME NEW S, IsFiniteSet(S), NEW n \in Nat, NEW kf, Keyed(S, n, kf)
  PROVE  /\ \A x \in S : Cardinality(Before(S, kf, x)) \in 0..(Cardinality(S) - 1)
         /\ \A x, y \in S : Less(kf[x], kf[y]) => Cardinality(Before(S, kf, x)) < Cardinality(Before(S, kf, y))
         /\ \A x, y \in S : Cardinality(Before(S, kf, x)) = Cardinality(Before(S, kf, y)) => x = y
<1>1. \A x \in S : kf[x] \in Tuples(n)
  BY DEF Keyed
<1>2. \A x \in S : /\ IsFiniteSet(Before(S, kf, x)) /\ x \notin Before(S, kf, x)
                   /\ Cardinality(Before(S, kf, x)) \in Nat
                   /\ IsFiniteSet(Before(S, kf, x) \cup {x})
                   /\ Cardinality(Before(S, kf, x) \cup {x}) = Cardinality(Before(S, kf, x)) + 1
  <2> TAKE x \in S
  <2>1. Before(S, kf, x) \in SUBSET S /\ x \notin Before(S, kf, x)
    BY <1>1, LessStrict DEF Before
  <2>2. IsFiniteSet(Before(S, kf, x))
    BY <2>1, FS_Subset
  <2> QED BY <2>1, <2>2, FS_AddElement, FS_CardinalityType
<1>3. Cardinality(S) \in Nat
  BY FS_CardinalityType
<1>4. ASSUME NEW x \in S
      PROVE  Cardinality(Before(S, kf, x)) \in 0..(Cardinality(S) - 1)
  <2>1. (Before(S, kf, x) \cup {x}) \in SUBSET S
    BY DEF Before
  <2>2. Cardinality(Before(S, kf, x) \cup {x}) <= Cardinality(S)
    BY <2>1, FS_Subset
  <2> QED BY <2>2, <1>2, <1>3
<1>5. ASSUME NEW x \in S, NEW y \in S, Less(kf[x], kf[y])
      PROVE  Cardinality(Before(S, kf, x)) < Cardinality(Before(S, kf, y))
  <2>1. (Before(S, kf, x) \cup {x}) \in SUBSET Before(S, kf, y)
    BY <1>1, <1>5, LessStrict DEF Before
  <2>2. Cardinality(Before(S, kf, x) \cup {x}) <= Cardinality(Before(S, kf, y))
    BY <2>1, <1>2, FS_Subset
  <2> DEFINE cx == Cardinality(Before(S, kf, x))
             cy == Cardinality(Before(S, kf, y))
  <2>3. cx \in Nat /\ cy \in Nat /\ cx + 1 <= cy
    BY <2>2, <1>2
  <2>4. cx < cy
    <3> HIDE DEF cx, cy
    <3> QED BY <2>3
  <2> QED BY <2>4
<1>6. ASSUME NEW x \in S, NEW y \in S, Cardinality(Before(S, kf, x)) = Cardinality(Before(S, kf, y))
      PROVE  x = y
  <2> SUFFICES ASSUME x # y PROVE FALSE
    OBVIOUS
  <2>1. kf[x] # kf[y]
    BY DEF Keyed
  <2>2. Less(kf[x], kf[y]) \/ Less(kf[y], kf[x])
    BY <2>1, <1>1, LessTotal
  <2> DEFINE cx == Cardinality(Before(S, kf, x))
             cy == Cardinality(Before(S, kf, y))
  <2>3. (cx < cy \/ cy < cx) /\ cx \in Nat /\ cy \in Nat
    BY <2>2, <1>5, <1>2, Zenon
  <2>4. cx = cy
    BY <1>6
  <2> HIDE DEF cx, cy
  <2> QED BY <2>3, <2>4
<1> QED BY <1>4, <1>5, <1>6, Zenon

(* Sorting a finite set yields every member once, in order.                *)
LEMMA SortingFacts ==
  ASSUME NEW S, IsFiniteSet(S), NEW n \in Nat, NEW kf, Keyed(S, n, kf)
  PROVE  LET sq == InOrderOf(S, kf)
         IN /\ Cardinality(S) \in Nat
            /\ sq \in [1..Cardinality(S) -> S]
            /\ Values(sq) = S
            /\ \A i \in 1..Cardinality(S) : Cardinality(Before(S, kf, sq[i])) = i - 1
            /\ \A i, j \in 1..Cardinality(S) : i < j => Less(kf[sq[i]], kf[sq[j]])
<1> DEFINE sq == InOrderOf(S, kf)
           N == Cardinality(S)
           pos == [x \in S |-> Cardinality(Before(S, kf, x))]
<1>1. N \in Nat
  BY FS_CardinalityType
<1>2. IsFiniteSet(0..(N - 1)) /\ Cardinality(0..(N - 1)) = N
  <2>1. (N - 1) \in Int /\ 0 \in Int
    BY <1>1
  <2> HIDE DEF N
  <2> QED BY <1>1, <2>1, FS_Interval
<1>3. pos \in Injection(S, 0..(N - 1))
  BY PositionsAscend DEF Injection, IsInjective
<1>4. pos \in Surjection(S, 0..(N - 1))
  <2> HIDE DEF pos
  <2> QED BY <1>2, <1>3, FS_Injection
<1>5. \A r \in 0..(N - 1) : \E x \in S : Cardinality(Before(S, kf, x)) = r
  BY <1>4 DEF Surjection
<1>6. ASSUME NEW i \in 1..N
      PROVE  sq[i] \in S /\ Cardinality(Before(S, kf, sq[i])) = i - 1
  <2>1. i - 1 \in 0..(N - 1)
    BY <1>1
  <2>2. \E x \in S : Cardinality(Before(S, kf, x)) = i - 1
    BY <2>1, <1>5
  <2>3. sq[i] = CHOOSE x \in S : Cardinality(Before(S, kf, x)) = i - 1
    BY DEF InOrderOf
  <2> QED BY <2>2, <2>3
<1>7. sq \in [1..N -> S]
  <2>1. sq = [i \in 1..N |-> sq[i]]
    BY DEF InOrderOf
  <2> HIDE DEF sq
  <2> QED BY <2>1, <1>6
<1> HIDE DEF sq
<1>8. Values(sq) = S
  <2>1. Values(sq) \subseteq S
    BY <1>7 DEF Values
  <2>2. ASSUME NEW x \in S
        PROVE  x \in Values(sq)
    <3> DEFINE r == Cardinality(Before(S, kf, x))
    <3>1. r \in 0..(N - 1)
      BY PositionsAscend
    <3>2. r + 1 \in 1..N /\ (r + 1) - 1 = r
      <4> HIDE DEF r, N
      <4> QED BY <1>1, <3>1
    <3>3. Cardinality(Before(S, kf, sq[r + 1])) = r /\ sq[r + 1] \in S
      BY <3>2, <1>6
    <3>4. sq[r + 1] = x
      BY <3>3, PositionsAscend
    <3> QED BY <3>4, <3>2, <1>7 DEF Values
  <2> QED BY <2>1, <2>2
<1>9. ASSUME NEW i \in 1..N, NEW j \in 1..N, i < j
      PROVE  Less(kf[sq[i]], kf[sq[j]])
  <2>1. sq[i] \in S /\ sq[j] \in S /\ kf[sq[i]] \in Tuples(n) /\ kf[sq[j]] \in Tuples(n)
    BY <1>6 DEF Keyed
  <2>2. kf[sq[i]] # kf[sq[j]]
    <3>1. sq[i] # sq[j]
      BY <1>6, <1>9
    <3> QED BY <3>1, <2>1 DEF Keyed
  <2>3. ~Less(kf[sq[j]], kf[sq[i]])
    <3> SUFFICES ASSUME Less(kf[sq[j]], kf[sq[i]]) PROVE FALSE
      OBVIOUS
    <3>1. Cardinality(Before(S, kf, sq[j])) < Cardinality(Before(S, kf, sq[i]))
      BY <2>1, PositionsAscend
    <3>2. j - 1 < i - 1
      BY <3>1, <1>6
    <3> QED BY <3>2, <1>9
  <2> QED BY <2>1, <2>2, <2>3, LessTotal
<1>10. QED BY <1>1, <1>6, <1>7, <1>8, <1>9 DEF sq

(* An ascending sequence is the sorted form of the set of its values: no   *)
(* other sequence holds them in order.                                     *)
LEMMA AscendingIsSorted ==
  ASSUME NEW S, NEW n \in Nat, NEW kf, Keyed(S, n, kf),
         NEW m \in Nat, NEW sq \in [1..m -> S], Values(sq) = S,
         \A i, j \in 1..m : i < j => Less(kf[sq[i]], kf[sq[j]])
  PROVE  IsFiniteSet(S) /\ Cardinality(S) = m /\ sq = InOrderOf(S, kf)
<1>1. \A x \in S : kf[x] \in Tuples(n)
  BY DEF Keyed
<1>2. \A i, j \in 1..m : sq[i] = sq[j] => i = j
  <2> SUFFICES ASSUME NEW i \in 1..m, NEW j \in 1..m, sq[i] = sq[j], i # j PROVE FALSE
    OBVIOUS
  <2>1. i < j \/ j < i
    OBVIOUS
  <2>2. Less(kf[sq[i]], kf[sq[i]])
    BY <2>1
  <2> QED BY <2>2, <1>1, LessStrict
<1>3. sq \in Bijection(1..m, S)
  BY <1>2 DEF Bijection, Injection, IsInjective, Surjection, Values
<1>4. IsFiniteSet(1..m) /\ Cardinality(1..m) = m
  BY FS_Interval
<1>5. IsFiniteSet(S) /\ Cardinality(S) = m
  BY <1>3, <1>4, FS_Bijection DEF ExistsBijection
<1>6. ASSUME NEW i \in 1..m
      PROVE  Cardinality(Before(S, kf, sq[i])) = i - 1
  <2> DEFINE g == [j \in 1..(i - 1) |-> sq[j]]
             B == Before(S, kf, sq[i])
  <2>1. ASSUME NEW x \in B
        PROVE  \E j \in 1..(i - 1) : sq[j] = x
    <3>1. x \in S /\ Less(kf[x], kf[sq[i]])
      BY DEF Before
    <3>2. PICK j \in 1..m : sq[j] = x
      BY <3>1 DEF Values
    <3>3. ~(i < j)
      BY <3>1, <3>2, <1>1, LessStrict
    <3>4. i # j
      BY <3>1, <3>2, <1>1, LessStrict
    <3> QED BY <3>2, <3>3, <3>4
  <2>2. ASSUME NEW j \in 1..(i - 1)
        PROVE  sq[j] \in B
    BY DEF Before
  <2>3. g \in Bijection(1..(i - 1), B)
    <3> HIDE DEF B
    <3> QED BY <1>2, <2>1, <2>2 DEF Bijection, Injection, IsInjective, Surjection
  <2>4. IsFiniteSet(1..(i - 1)) /\ Cardinality(1..(i - 1)) = i - 1
    BY FS_Interval
  <2> QED BY <2>3, <2>4, FS_Bijection DEF ExistsBijection
<1>7. ASSUME NEW i \in 1..m
      PROVE  sq[i] = CHOOSE x \in S : Cardinality(Before(S, kf, x)) = i - 1
  <2>1. \A x \in S : Cardinality(Before(S, kf, x)) = i - 1 => x = sq[i]
    BY <1>5, <1>6, PositionsAscend
  <2> QED BY <2>1, <1>6
<1>8. sq = [i \in 1..m |-> CHOOSE x \in S : Cardinality(Before(S, kf, x)) = i - 1]
  BY <1>7
<1> QED BY <1>5, <1>8 DEF InOrderOf

(* Tuples sort by themselves.                                              *)
Same(S) == [x \in S |-> x]

(* A tuple is its own key.                                                 *)
LEMMA SameKeys ==
  ASSUME NEW S, NEW n \in Nat, S \subseteq Tuples(n)
  PROVE  Keyed(S, n, Same(S)) /\ Sorted(S) = InOrderOf(S, Same(S))
<1>1. Keyed(S, n, Same(S))
  BY DEF Keyed, Same
<1>2. \A x \in S : Before(S, Same(S), x) = {y \in S : Less(y, x)}
  BY DEF Before, Same
<1> DEFINE A(i) == CHOOSE x \in S : Cardinality({y \in S : Less(y, x)}) = i - 1
           B(i) == CHOOSE x \in S : Cardinality(Before(S, Same(S), x)) = i - 1
<1>3. ASSUME NEW i \in 1..Cardinality(S)
      PROVE  A(i) = B(i)
  <2>1. \A x \in S : Cardinality({y \in S : Less(y, x)}) = i - 1 <=> Cardinality(Before(S, Same(S), x)) = i - 1
    BY <1>2
  <2> QED BY <2>1
<1>4. Sorted(S) = [i \in 1..Cardinality(S) |-> A(i)]
  BY DEF Sorted, SortedBy
<1>5. InOrderOf(S, Same(S)) = [i \in 1..Cardinality(S) |-> B(i)]
  BY DEF InOrderOf
<1> HIDE DEF A, B
<1> QED BY <1>1, <1>3, <1>4, <1>5

(* A set of tuples in order.                                               *)
LEMMA SortedTuples ==
  ASSUME NEW n \in Nat, NEW S \in SUBSET Tuples(n), IsFiniteSet(S)
  PROVE  /\ Cardinality(S) \in Nat
         /\ Sorted(S) \in [1..Cardinality(S) -> S]
         /\ Values(Sorted(S)) = S
         /\ \A i \in 1..Cardinality(S) : Cardinality({y \in S : Less(y, Sorted(S)[i])}) = i - 1
         /\ \A i, j \in 1..Cardinality(S) : i < j => Less(Sorted(S)[i], Sorted(S)[j])
<1>1. Keyed(S, n, Same(S)) /\ Sorted(S) = InOrderOf(S, Same(S))
  BY SameKeys
<1>2. \A x \in S : Before(S, Same(S), x) = {y \in S : Less(y, x)} /\ Same(S)[x] = x
  BY DEF Before, Same
<1> DEFINE sq == Sorted(S)
<1>3. /\ Cardinality(S) \in Nat
      /\ sq \in [1..Cardinality(S) -> S]
      /\ Values(sq) = S
      /\ \A i \in 1..Cardinality(S) : Cardinality(Before(S, Same(S), sq[i])) = i - 1
      /\ \A i, j \in 1..Cardinality(S) : i < j => Less(Same(S)[sq[i]], Same(S)[sq[j]])
  BY <1>1, SortingFacts
<1> HIDE DEF sq
<1>4. \A i \in 1..Cardinality(S) : sq[i] \in S
  BY <1>3
<1>5. \A i \in 1..Cardinality(S) : Cardinality({y \in S : Less(y, sq[i])}) = i - 1
  BY <1>2, <1>3, <1>4
<1>6. \A i, j \in 1..Cardinality(S) : i < j => Less(sq[i], sq[j])
  BY <1>2, <1>3, <1>4
<1> QED BY <1>3, <1>5, <1>6 DEF sq

(* A sequence of tuples, each before the next ones.                        *)
Ascends(sq) == \A i, j \in DOMAIN sq : i < j => Less(sq[i], sq[j])

(* An ascending sequence of all of a set's tuples is that set, sorted.     *)
LEMMA AscendingTuples ==
  ASSUME NEW n \in Nat, NEW S \in SUBSET Tuples(n), NEW m \in Nat, NEW sq \in [1..m -> S],
         Values(sq) = S, Ascends(sq)
  PROVE  IsFiniteSet(S) /\ Cardinality(S) = m /\ sq = Sorted(S)
<1>1. Keyed(S, n, Same(S)) /\ Sorted(S) = InOrderOf(S, Same(S))
  BY SameKeys
<1>2. \A i, j \in 1..m : i < j => Less(Same(S)[sq[i]], Same(S)[sq[j]])
  BY DEF Same, Ascends
<1> QED BY <1>1, <1>2, AscendingIsSorted

(* A finite set of tuples has a least one.                                 *)
LEMMA LeastTuple ==
  ASSUME NEW n \in Nat, NEW S \in SUBSET Tuples(n), IsFiniteSet(S), S # {}
  PROVE  \E x \in S : \A y \in S : x = y \/ Less(x, y)
<1> DEFINE sq == Sorted(S)
           N  == Cardinality(S)
<1>1. /\ N \in Nat /\ sq \in [1..N -> S] /\ Values(sq) = S
      /\ \A i, j \in 1..N : i < j => Less(sq[i], sq[j])
  BY SortedTuples
<1>2. N # 0
  BY FS_EmptySet
<1> HIDE DEF sq, N
<1>3. 1 \in 1..N /\ sq[1] \in S
  BY <1>1, <1>2
<1>4. ASSUME NEW y \in S
      PROVE  sq[1] = y \/ Less(sq[1], y)
  <2>1. PICK j \in 1..N : sq[j] = y
    BY <1>1 DEF Values
  <2>2. j = 1 \/ 1 < j
    BY <1>1
  <2> QED BY <2>1, <2>2, <1>1, <1>3
<1> QED BY <1>3, <1>4

(* The values of a sequence are finitely many.                             *)
LEMMA ValuesFinite ==
  ASSUME NEW m \in Nat, NEW sq, DOMAIN sq = 1..m
  PROVE  IsFiniteSet(Values(sq))
<1> DEFINE g == [i \in 1..m |-> sq[i]]
<1>1. g \in Surjection(1..m, Values(sq))
  BY DEF Surjection, Values
<1>2. IsFiniteSet(1..m)
  BY FS_Interval
<1> HIDE DEF g
<1> QED BY <1>1, <1>2, FS_Surjection

-----------------------------------------------------------------------------
(* Tables                                                                  *)

(* A tuple of keys that a table holds, looked up.                          *)
LEMMA ThroughFacts ==
  ASSUME NEW H, NEW V, NEW table, H \subseteq DOMAIN table, \A x \in H : table[x] \in V,
         NEW k \in Nat, NEW ids \in [1..k -> H]
  PROVE  /\ Through(table, ids) \in [1..k -> V]
         /\ \A i \in 1..k : Through(table, ids)[i] = table[ids[i]]
BY DEF Through

(* Two tables that order their keys alike order tuples of keys alike.      *)
LEMMA LessThrough ==
  ASSUME NEW H, NEW t1, NEW t2, H \subseteq DOMAIN t1, H \subseteq DOMAIN t2,
         \A x \in H : t1[x] \in Nat /\ t2[x] \in Nat,
         \A x, y \in H : (t1[x] < t1[y]) <=> (t2[x] < t2[y]),
         NEW k \in Nat, NEW a \in [1..k -> H], NEW b \in [1..k -> H],
         Less(Through(t1, a), Through(t1, b))
  PROVE  Less(Through(t2, a), Through(t2, b))
<1>1. /\ Through(t1, a) \in [1..k -> Nat] /\ Through(t1, b) \in [1..k -> Nat]
      /\ Through(t2, a) \in [1..k -> Nat] /\ Through(t2, b) \in [1..k -> Nat]
      /\ \A i \in 1..k : Through(t1, a)[i] = t1[a[i]] /\ Through(t1, b)[i] = t1[b[i]]
      /\ \A i \in 1..k : Through(t2, a)[i] = t2[a[i]] /\ Through(t2, b)[i] = t2[b[i]]
  <2>1. (\A x \in H : t1[x] \in Nat) /\ (\A x \in H : t2[x] \in Nat)
    OBVIOUS
  <2>2. /\ Through(t1, a) \in [1..k -> Nat] /\ Through(t1, b) \in [1..k -> Nat]
        /\ \A i \in 1..k : Through(t1, a)[i] = t1[a[i]] /\ Through(t1, b)[i] = t1[b[i]]
    BY <2>1 DEF Through
  <2>3. /\ Through(t2, a) \in [1..k -> Nat] /\ Through(t2, b) \in [1..k -> Nat]
        /\ \A i \in 1..k : Through(t2, a)[i] = t2[a[i]] /\ Through(t2, b)[i] = t2[b[i]]
    BY <2>1 DEF Through
  <2> QED BY <2>2, <2>3
<1>2. \A x, y \in H : t1[x] = t1[y] => t2[x] = t2[y]
  <2> TAKE x \in H, y \in H
  <2>1. t1[x] \in Nat /\ t1[y] \in Nat /\ t2[x] \in Nat /\ t2[y] \in Nat
    OBVIOUS
  <2> QED BY <2>1
<1>3. PICK i \in 1..k : /\ Through(t1, a)[i] < Through(t1, b)[i]
                        /\ \A j \in 1..(i - 1) : Through(t1, a)[j] = Through(t1, b)[j]
  BY <1>1 DEF Less
<1>4. a[i] \in H /\ b[i] \in H /\ Through(t2, a)[i] < Through(t2, b)[i]
  BY <1>1, <1>3
<1>5. ASSUME NEW j \in 1..(i - 1)
      PROVE  Through(t2, a)[j] = Through(t2, b)[j]
  <2>1. j \in 1..k /\ a[j] \in H /\ b[j] \in H
    OBVIOUS
  <2>2. t1[a[j]] = t1[b[j]]
    BY <2>1, <1>1, <1>3
  <2> QED BY <2>1, <2>2, <1>1, <1>2
<1> QED BY <1>1, <1>4, <1>5 DEF Less

(* A table no two of whose entries are equal.                              *)
Distinct(ts) == \A i, j \in DOMAIN ts : ts[i] = ts[j] => i = j

(* Quads as ids of terms.                                                  *)
IdTuples(k, ts) == [1..k -> DOMAIN ts]

(* Distinct terms tell id tuples apart.                                    *)
LEMMA ThroughInjective ==
  ASSUME NEW ts, Distinct(ts), NEW k \in Nat,
         NEW a \in IdTuples(k, ts), NEW b \in IdTuples(k, ts), Through(ts, a) = Through(ts, b)
  PROVE  a = b
<1>1. \A i \in 1..k : Through(ts, a)[i] = ts[a[i]] /\ Through(ts, b)[i] = ts[b[i]]
  BY DEF Through, IdTuples
<1>2. \A i \in 1..k : a[i] = b[i]
  BY <1>1 DEF Distinct, IdTuples
<1> QED BY <1>2 DEF IdTuples

(* SortedBy with the tuples' terms for a key.                              *)
TermOrder(S, ts) ==
  [i \in 1..Cardinality(S) |->
     CHOOSE x \in S : Cardinality({y \in S : Less(Through(ts, y), Through(ts, x))}) = i - 1]

(* A set of id tuples sorted by their terms.                               *)
LEMMA SortedThrough ==
  ASSUME NEW ts \in Seq(Nat), Distinct(ts), NEW k \in Nat,
         NEW S \in SUBSET IdTuples(k, ts), IsFiniteSet(S)
  PROVE  LET sq == TermOrder(S, ts)
         IN /\ Cardinality(S) \in Nat
            /\ sq \in [1..Cardinality(S) -> S]
            /\ Values(sq) = S
            /\ \A i, j \in 1..Cardinality(S) : i < j => Less(Through(ts, sq[i]), Through(ts, sq[j]))
<1> DEFINE kf == [x \in S |-> Through(ts, x)]
<1>1. Keyed(S, k, kf)
  <2>1. \A x \in S : Through(ts, x) \in Tuples(k)
    BY DEF Through, Tuples, IdTuples
  <2>2. \A x, y \in S : Through(ts, x) = Through(ts, y) => x = y
    BY ThroughInjective
  <2> QED BY <2>1, <2>2 DEF Keyed
<1>2. \A x \in S : Before(S, kf, x) = {y \in S : Less(Through(ts, y), Through(ts, x))} /\ kf[x] = Through(ts, x)
  BY DEF Before
<1> DEFINE A(i) == CHOOSE x \in S : Cardinality({y \in S : Less(Through(ts, y), Through(ts, x))}) = i - 1
           B(i) == CHOOSE x \in S : Cardinality(Before(S, kf, x)) = i - 1
<1> HIDE DEF kf
<1>3. ASSUME NEW i \in 1..Cardinality(S)
      PROVE  A(i) = B(i)
  <2>1. \A x \in S : Cardinality({y \in S : Less(Through(ts, y), Through(ts, x))}) = i - 1
                        <=> Cardinality(Before(S, kf, x)) = i - 1
    BY <1>2
  <2> QED BY <2>1
<1>4. TermOrder(S, ts) = [i \in 1..Cardinality(S) |-> A(i)]
  BY DEF TermOrder
<1>5. InOrderOf(S, kf) = [i \in 1..Cardinality(S) |-> B(i)]
  BY DEF InOrderOf
<1>6. TermOrder(S, ts) = InOrderOf(S, kf)
  <2> HIDE DEF A, B
  <2> QED BY <1>3, <1>4, <1>5
<1> DEFINE sq == InOrderOf(S, kf)
<1>7. /\ Cardinality(S) \in Nat
      /\ sq \in [1..Cardinality(S) -> S]
      /\ Values(sq) = S
      /\ \A i, j \in 1..Cardinality(S) : i < j => Less(kf[sq[i]], kf[sq[j]])
  BY <1>1, SortingFacts
<1> HIDE DEF sq
<1>8. \A i \in 1..Cardinality(S) : sq[i] \in S
  BY <1>7
<1>9. \A i, j \in 1..Cardinality(S) : i < j => Less(Through(ts, sq[i]), Through(ts, sq[j]))
  BY <1>2, <1>7, <1>8
<1> QED BY <1>6, <1>7, <1>9 DEF sq

-----------------------------------------------------------------------------
(* QuadSpiller                                                             *)

(* The marks are stamps of sorts gone by.                                  *)
Marked(sp) == sp.sorts \in 0..(STAMPS - 1) /\ \A id \in DOMAIN sp.seen : sp.seen[id] \in 0..sp.sorts

(* A sort's stamp is new: no mark that it finds carries it.                *)
LEMMA StampIsNew ==
  ASSUME NEW sp, NEW ts, Marked(sp)
  PROVE  /\ Stamped(sp, ts).sorts \in 1..(STAMPS - 1)
         /\ DOMAIN Stamped(sp, ts).seen = DOMAIN ts
         /\ \A id \in DOMAIN ts : Stamped(sp, ts).seen[id] \in 0..(Stamped(sp, ts).sorts - 1)
<1> DEFINE next == (sp.sorts + 1) % STAMPS
<1>1. STAMPS \in Nat /\ STAMPS >= 2 /\ sp.sorts \in 0..(STAMPS - 1)
  BY SizesAssumption DEF Marked
<1>2. next = IF sp.sorts + 1 = STAMPS THEN 0 ELSE sp.sorts + 1
  <2> DEFINE s == sp.sorts
  <2>1. s \in 0..(STAMPS - 1)
    BY <1>1
  <2> HIDE DEF s
  <2>2. (s + 1) % STAMPS = IF s + 1 = STAMPS THEN 0 ELSE s + 1
    BY <1>1, <2>1
  <2> QED BY <2>2 DEF s
<1> HIDE DEF next
<1>3. /\ Stamped(sp, ts).sorts = IF next = 0 THEN 1 ELSE next
      /\ Stamped(sp, ts).seen = [id \in DOMAIN ts |-> IF next # 0 /\ id \in DOMAIN sp.seen THEN sp.seen[id] ELSE 0]
  BY DEF Stamped, next
<1>4. Stamped(sp, ts).sorts \in 1..(STAMPS - 1)
  BY <1>1, <1>2, <1>3
<1>5. ASSUME NEW id \in DOMAIN ts
      PROVE  Stamped(sp, ts).seen[id] \in 0..(Stamped(sp, ts).sorts - 1)
  <2>1. CASE next # 0 /\ id \in DOMAIN sp.seen
    <3>1. sp.seen[id] \in 0..sp.sorts
      BY <2>1 DEF Marked
    <3> QED BY <3>1, <2>1, <1>1, <1>2, <1>3
  <2>2. CASE ~(next # 0 /\ id \in DOMAIN sp.seen)
    <3>1. Stamped(sp, ts).seen[id] = 0
      BY <2>2, <1>3
    <3> QED BY <3>1, <1>4, <1>1
  <2> QED BY <2>1, <2>2
<1> QED BY <1>3, <1>4, <1>5

(* A run holds the quads of a buffer, each once, in their terms' order.    *)
TermAscends(run, ts) == \A i, j \in DOMAIN run : i < j => Less(Through(ts, run[i]), Through(ts, run[j]))

RunOf(run, Q, ts) == run \in Seq(Q) /\ Values(run) = Q /\ TermAscends(run, ts)

(* The run sorted term by term holds the buffer's quads once each, in      *)
(* order.                                                                  *)
LEMMA TermRunFacts ==
  ASSUME NEW ts \in Seq(Nat), Distinct(ts), NEW buf \in Seq(IdTuples(4, ts))
  PROVE  RunOf(TermRun(buf, ts), Values(buf), ts)
<1> DEFINE S == Values(buf)
           sq == TermOrder(S, ts)
<1>1. S \in SUBSET IdTuples(4, ts)
  BY DEF Values
<1>2. IsFiniteSet(S)
  BY ValuesFinite
<1>3. TermRun(buf, ts) = sq
  BY DEF TermRun, SortedBy, TermOrder
<1> HIDE DEF S
<1>4. /\ Cardinality(S) \in Nat /\ sq \in [1..Cardinality(S) -> S] /\ Values(sq) = S
      /\ \A i, j \in 1..Cardinality(S) : i < j => Less(Through(ts, sq[i]), Through(ts, sq[j]))
  BY <1>1, <1>2, SortedThrough
<1> HIDE DEF sq
<1>5. sq \in Seq(S) /\ DOMAIN sq = 1..Cardinality(S)
  BY <1>4
<1>6. RunOf(sq, S, ts)
  BY <1>4, <1>5 DEF RunOf, TermAscends
<1> QED BY <1>3, <1>6 DEF S

(* Ranks are numbers.                                                      *)
LEMMA RanksAreTuples ==
  ASSUME NEW k \in Nat, NEW N \in Nat, NEW t \in [1..k -> 1..N]
  PROVE  t \in Tuples(k)
<1>1. \A i \in 1..k : t[i] \in Nat
  OBVIOUS
<1> QED BY <1>1 DEF Tuples

(* The ids a buffer holds are ids of the table.                            *)
LEMMA HeldFacts ==
  ASSUME NEW ts, NEW buf \in Seq(IdTuples(4, ts)),
         NEW held, held = UNION {Values(ids) : ids \in Values(buf)}
  PROVE  held \subseteq DOMAIN ts /\ \A ids \in Values(buf) : ids \in [1..4 -> held]
<1>1. \A ids \in Values(buf) : ids \in [1..4 -> DOMAIN ts]
  BY DEF Values, IdTuples
<1>2. ASSUME NEW ids \in Values(buf)
      PROVE  Values(ids) \subseteq DOMAIN ts /\ \A i \in 1..4 : ids[i] \in Values(ids)
  <2>1. ids \in [1..4 -> DOMAIN ts]
    BY <1>1
  <2> QED BY <2>1 DEF Values
<1>3. held \subseteq DOMAIN ts
  BY <1>2, Zenon
<1>4. ASSUME NEW ids \in Values(buf)
      PROVE  ids \in [1..4 -> held]
  <2>1. ids \in [1..4 -> DOMAIN ts]
    BY <1>1
  <2>2. \A i \in 1..4 : ids[i] \in held
    BY <1>2, Zenon
  <2> QED BY <2>1, <2>2
<1> QED BY <1>3, <1>4

(* Sorting by rank among the buffer's terms sorts by term.                 *)
LEMMA RankRunFacts ==
  ASSUME NEW ts \in Seq(Nat), Distinct(ts), NEW buf \in Seq(IdTuples(4, ts)),
         NEW held \in SUBSET DOMAIN ts, \A ids \in Values(buf) : ids \in [1..4 -> held],
         NEW N \in Nat, NEW byTerm \in [1..N -> held],
         \A r, s \in 1..N : r < s => ts[byTerm[r]] < ts[byTerm[s]],
         NEW ranks, DOMAIN ranks = DOMAIN ts,
         \A id \in held : ranks[id] \in 1..N /\ byTerm[ranks[id]] = id
  PROVE  RunOf(RankRun(buf, ranks, byTerm), Values(buf), ts)
<1>1. held \subseteq DOMAIN ts /\ \A ids \in Values(buf) : ids \in [1..4 -> held]
  OBVIOUS
<1>2. \A id \in held : ranks[id] \in 1..N /\ byTerm[ranks[id]] = id
  OBVIOUS
<1>3. \A x, y \in held : (ranks[x] < ranks[y]) <=> (ts[x] < ts[y])
  <2> TAKE x \in held, y \in held
  <2>1. /\ ranks[x] \in 1..N /\ ranks[y] \in 1..N
        /\ byTerm[ranks[x]] = x /\ byTerm[ranks[y]] = y
        /\ ts[x] \in Nat /\ ts[y] \in Nat
    BY <1>1, <1>2, SMTT(30)
  <2>2. CASE ranks[x] < ranks[y]
    BY <2>1, <2>2
  <2>3. CASE ranks[y] < ranks[x]
    <3>1. ts[y] < ts[x]
      BY <2>1, <2>3
    <3> QED BY <3>1, <2>1, <2>3
  <2>4. CASE ranks[x] = ranks[y]
    BY <2>1, <2>4
  <2> QED BY <2>1, <2>2, <2>3, <2>4
<1> DEFINE S == {Through(ranks, ids) : ids \in Values(buf)}
           run == Sorted(S)
           C == Cardinality(S)
           back == RankRun(buf, ranks, byTerm)
<1>4. ASSUME NEW ids \in Values(buf)
      PROVE  /\ Through(ranks, ids) \in [1..4 -> 1..N]
             /\ Through(byTerm, Through(ranks, ids)) = ids
  <2>1. ids \in [1..4 -> held]
    BY <1>1
  <2>2. \A i \in 1..4 : ids[i] \in held /\ ids[i] \in DOMAIN ranks
    BY <2>1, <1>1
  <2>3. Through(ranks, ids) = [i \in 1..4 |-> ranks[ids[i]]]
    BY <2>1, <2>2 DEF Through
  <2>4. Through(ranks, ids) \in [1..4 -> 1..N]
    BY <2>3, <2>2, <1>2
  <2>5. Through(byTerm, Through(ranks, ids)) = [i \in 1..4 |-> byTerm[ranks[ids[i]]]]
    BY <2>2, <2>3, <1>2 DEF Through
  <2>6. \A i \in 1..4 : byTerm[ranks[ids[i]]] = ids[i]
    BY <2>2, <1>2
  <2> QED BY <2>1, <2>4, <2>5, <2>6
<1>5. S \in SUBSET Tuples(4) /\ IsFiniteSet(S)
  <2>1. S \in SUBSET Tuples(4)
    <3>1. ASSUME NEW ids \in Values(buf)
          PROVE  Through(ranks, ids) \in Tuples(4)
      <4>1. Through(ranks, ids) \in [1..4 -> 1..N]
        BY <1>4
      <4> QED BY <4>1, RanksAreTuples
    <3> QED BY <3>1
  <2> DEFINE g == [i \in 1..Len(buf) |-> Through(ranks, buf[i])]
  <2>2. Values(g) = S
    BY DEF Values
  <2>3. IsFiniteSet(Values(g))
    BY ValuesFinite
  <2> QED BY <2>1, <2>2, <2>3
<1>6. /\ C \in Nat /\ run \in [1..C -> S] /\ Values(run) = S
      /\ \A i, j \in 1..C : i < j => Less(run[i], run[j])
  <2> HIDE DEF S
  <2> QED BY <1>5, SortedTuples
<1>7. back = [i \in 1..C |-> Through(byTerm, run[i])]
  <2>1. back = [i \in DOMAIN run |-> Through(byTerm, run[i])]
    BY DEF RankRun
  <2>2. DOMAIN run = 1..C
    BY <1>6
  <2> HIDE DEF back, run, C
  <2> QED BY <2>1, <2>2
<1>8. \A x \in S : \E ids \in Values(buf) : x = Through(ranks, ids)
  OBVIOUS
<1>9. \A ids \in Values(buf) : Through(ranks, ids) \in S
  OBVIOUS
<1> HIDE DEF S, run, C, back
<1>10. \A i \in 1..C : back[i] \in Values(buf) /\ Through(ranks, back[i]) = run[i]
  <2> TAKE i \in 1..C
  <2>1. PICK ids \in Values(buf) : run[i] = Through(ranks, ids)
    BY <1>6, <1>8
  <2>2. back[i] = ids
    BY <2>1, <1>4, <1>7
  <2> QED BY <2>1, <2>2
<1>11. back \in Seq(Values(buf)) /\ DOMAIN back = 1..C
  <2>1. back \in [1..C -> Values(buf)]
    BY <1>7, <1>10
  <2> QED BY <2>1, <1>6
<1>12. Values(back) = Values(buf)
  <2>1. ASSUME NEW ids \in Values(buf)
        PROVE  ids \in Values(back)
    <3>1. PICK i \in 1..C : run[i] = Through(ranks, ids)
      BY <1>6, <1>9 DEF Values
    <3>2. back[i] = ids
      BY <3>1, <1>4, <1>7
    <3> QED BY <3>2, <1>11 DEF Values
  <2>2. Values(back) \subseteq Values(buf)
    BY <1>10, <1>11 DEF Values
  <2> QED BY <2>1, <2>2
<1>13. ASSUME NEW i \in 1..C, NEW j \in 1..C, i < j
       PROVE  Less(Through(ts, back[i]), Through(ts, back[j]))
  <2>1. Less(Through(ranks, back[i]), Through(ranks, back[j]))
    BY <1>6, <1>10, <1>13
  <2>2. back[i] \in [1..4 -> held] /\ back[j] \in [1..4 -> held]
    BY <1>1, <1>10
  <2>3. \A x \in held : ranks[x] \in Nat /\ ts[x] \in Nat
    BY <1>1, <1>2, SMTT(30)
  <2>4. held \subseteq DOMAIN ranks /\ held \subseteq DOMAIN ts
    BY <1>1
  <2> QED BY <2>1, <2>2, <2>3, <2>4, <1>3, LessThrough
<1>14. TermAscends(back, ts)
  BY <1>11, <1>13 DEF TermAscends
<1> QED BY <1>11, <1>12, <1>14 DEF RunOf, back

(* The distinct terms of a buffer in their order.                          *)
Singles(held) == {<<id>> : id \in held}
ByTerm(S, ts) == [r \in DOMAIN TermOrder(S, ts) |-> TermOrder(S, ts)[r][1]]

(* A buffer's ids listed in their terms' order: each once.                 *)
LEMMA TermsInOrder ==
  ASSUME NEW ts \in Seq(Nat), Distinct(ts), NEW held \in SUBSET DOMAIN ts
  PROVE  LET N == Cardinality(Singles(held))
             byTerm == ByTerm(Singles(held), ts)
         IN /\ N \in Nat /\ byTerm \in [1..N -> held]
            /\ \A id \in held : \E r \in 1..N : byTerm[r] = id
            /\ \A r, s \in 1..N : r < s => ts[byTerm[r]] < ts[byTerm[s]]
<1> DEFINE S == Singles(held)
           N == Cardinality(S)
           byTerm == ByTerm(S, ts)
<1>0. S = {<<id>> : id \in held}
  BY DEF Singles
<1>1. S \in SUBSET IdTuples(1, ts)
  BY <1>0 DEF IdTuples
<1>2. IsFiniteSet(S)
  <2>1. IsFiniteSet(1..Len(ts)) /\ held \in SUBSET (1..Len(ts))
    BY FS_Interval
  <2>2. IsFiniteSet(held)
    BY <2>1, FS_Subset
  <2> DEFINE g == [id \in held |-> <<id>>]
  <2>3. g \in Surjection(held, S)
    BY <1>0 DEF Surjection
  <2> HIDE DEF g
  <2> QED BY <2>2, <2>3, FS_Surjection
<1> DEFINE sq == TermOrder(S, ts)
<1>3. /\ N \in Nat /\ sq \in [1..N -> S] /\ Values(sq) = S
      /\ \A i, j \in 1..N : i < j => Less(Through(ts, sq[i]), Through(ts, sq[j]))
  <2> HIDE DEF S
  <2> QED BY <1>1, <1>2, SortedThrough
<1>4. byTerm = [r \in DOMAIN sq |-> sq[r][1]]
  BY DEF ByTerm
<1> HIDE DEF sq, byTerm, N, S
<1>5. \A r \in 1..N : sq[r] \in S /\ byTerm[r] = sq[r][1]
  BY <1>3, <1>4
<1>6. ASSUME NEW r \in 1..N
      PROVE  byTerm[r] \in held /\ sq[r] = <<byTerm[r]>>
  <2>1. PICK id \in held : sq[r] = <<id>>
    BY <1>0, <1>5
  <2>2. byTerm[r] = <<id>>[1]
    BY <2>1, <1>5
  <2>3. byTerm[r] = id
    BY <2>2
  <2> QED BY <2>1, <2>3
<1>7. byTerm \in [1..N -> held]
  BY <1>3, <1>4, <1>6
<1>8. ASSUME NEW id \in held
      PROVE  \E r \in 1..N : byTerm[r] = id
  <2>1. <<id>> \in Values(sq)
    BY <1>0, <1>3
  <2>2. PICK r \in 1..N : sq[r] = <<id>>
    BY <2>1, <1>3 DEF Values
  <2>3. byTerm[r] = <<id>>[1]
    BY <2>2, <1>5
  <2>4. byTerm[r] = id
    BY <2>3
  <2> QED BY <2>4
<1>9. ASSUME NEW r \in 1..N, NEW s \in 1..N, r < s
      PROVE  ts[byTerm[r]] < ts[byTerm[s]]
  <2> DEFINE a == byTerm[r]
             b == byTerm[s]
  <2>1. Less(Through(ts, <<a>>), Through(ts, <<b>>))
    BY <1>3, <1>6, <1>9
  <2>2. a \in DOMAIN ts /\ b \in DOMAIN ts
    BY <1>6
  <2> HIDE DEF a, b
  <2>3. Through(ts, <<a>>) = <<ts[a]>> /\ Through(ts, <<b>>) = <<ts[b]>>
    BY <2>2 DEF Through
  <2>4. Less(<<ts[a]>>, <<ts[b]>>)
    BY <2>1, <2>3
  <2>5. ts[a] < ts[b]
    BY <2>4 DEF Less
  <2> QED BY <2>5 DEF a, b
<1> QED BY <1>3, <1>7, <1>8, <1>9 DEF S, N, byTerm

(* flush_run: the buffer becomes one more run, whichever way it is sorted, *)
(* and the marks stay those of sorts gone by.                              *)
LEMMA FlushedFacts ==
  ASSUME NEW ts \in Seq(Nat), Distinct(ts), NEW sp, Marked(sp), sp.buf \in Seq(IdTuples(4, ts))
  PROVE  /\ Flushed(sp, ts).buf = <<>>
         /\ \E run : RunOf(run, Values(sp.buf), ts) /\ Flushed(sp, ts).runs = Append(sp.runs, run)
         /\ Marked(Flushed(sp, ts))
<1> DEFINE stamped  == Stamped(sp, ts)
           held     == UNION {Values(ids) : ids \in Values(sp.buf)}
           distinct == {id \in held : stamped.seen[id] # stamped.sorts}
           tuples   == SortedBy({<<id>> : id \in distinct}, LAMBDA x : Through(ts, x))
           byTerm   == [r \in DOMAIN tuples |-> tuples[r][1]]
           kept     == [id \in DOMAIN ts |-> IF id \in DOMAIN sp.ranks THEN sp.ranks[id] ELSE 1]
           ranks    == [id \in DOMAIN ts |->
                          IF id \in distinct THEN CHOOSE r \in DOMAIN byTerm : byTerm[r] = id
                                             ELSE kept[id]]
           termwise == 2 * Cardinality(distinct) > Len(sp.buf)
           run      == IF termwise THEN TermRun(sp.buf, ts) ELSE RankRun(sp.buf, ranks, byTerm)
<1>1. /\ Flushed(sp, ts).buf = <<>>
      /\ Flushed(sp, ts).runs = Append(sp.runs, run)
      /\ Flushed(sp, ts).seen = [id \in DOMAIN ts |-> IF id \in held THEN stamped.sorts ELSE stamped.seen[id]]
      /\ Flushed(sp, ts).sorts = stamped.sorts
  BY DEF Flushed, SortedBy
<1>2. /\ stamped.sorts \in 1..(STAMPS - 1) /\ DOMAIN stamped.seen = DOMAIN ts
      /\ \A id \in DOMAIN ts : stamped.seen[id] \in 0..(stamped.sorts - 1)
  BY StampIsNew
<1>3. held \subseteq DOMAIN ts /\ \A ids \in Values(sp.buf) : ids \in [1..4 -> held]
  BY HeldFacts
<1>4. distinct = held
  <2> HIDE DEF held, stamped
  <2>1. \A id \in held : stamped.seen[id] # stamped.sorts
    BY <1>2, <1>3
  <2> QED BY <2>1
<1> DEFINE N == Cardinality(Singles(distinct))
<1>5. tuples = TermOrder(Singles(distinct), ts)
  BY DEF SortedBy, TermOrder, Singles
<1>6. byTerm = ByTerm(Singles(distinct), ts)
  <2> HIDE DEF tuples
  <2> QED BY <1>5 DEF ByTerm
<1> HIDE DEF tuples, byTerm, held, stamped, distinct
<1>7. /\ N \in Nat /\ byTerm \in [1..N -> distinct]
      /\ \A id \in distinct : \E r \in 1..N : byTerm[r] = id
      /\ \A r, s \in 1..N : r < s => ts[byTerm[r]] < ts[byTerm[s]]
  <2>1. distinct \in SUBSET DOMAIN ts
    BY <1>3, <1>4
  <2> QED BY <2>1, <1>6, TermsInOrder
<1> HIDE DEF N
<1>8. DOMAIN ranks = DOMAIN ts
  OBVIOUS
<1>9. ASSUME NEW id \in distinct
      PROVE  ranks[id] \in 1..N /\ byTerm[ranks[id]] = id
  <2>1. ranks[id] = CHOOSE r \in DOMAIN byTerm : byTerm[r] = id
    BY <1>3, <1>4
  <2>2. DOMAIN byTerm = 1..N
    BY <1>7
  <2> HIDE DEF ranks
  <2> QED BY <2>1, <2>2, <1>7
<1> HIDE DEF ranks
<1>10. RunOf(RankRun(sp.buf, ranks, byTerm), Values(sp.buf), ts)
  <2> DEFINE buf == sp.buf
  <2>1. buf \in Seq(IdTuples(4, ts)) /\ \A ids \in Values(buf) : ids \in [1..4 -> distinct]
    BY <1>3, <1>4
  <2> HIDE DEF buf
  <2>2. distinct \in SUBSET DOMAIN ts
    BY <1>3, <1>4
  <2>3. RunOf(RankRun(buf, ranks, byTerm), Values(buf), ts)
    BY <2>1, <2>2, <1>7, <1>8, <1>9, RankRunFacts
  <2> QED BY <2>3 DEF buf
<1>11. RunOf(run, Values(sp.buf), ts)
  BY <1>10, TermRunFacts
<1>12. Marked(Flushed(sp, ts))
  <2> DEFINE fl == Flushed(sp, ts)
  <2>1. /\ fl.seen = [id \in DOMAIN ts |-> IF id \in held THEN stamped.sorts ELSE stamped.seen[id]]
        /\ fl.sorts = stamped.sorts
    BY <1>1
  <2> HIDE DEF fl
  <2>2. fl.sorts \in 0..(STAMPS - 1)
    BY <2>1, <1>2, SizesAssumption
  <2>3. \A id \in DOMAIN fl.seen : fl.seen[id] \in 0..fl.sorts
    BY <2>1, <1>2, SizesAssumption
  <2>4. Marked(fl)
    BY <2>2, <2>3 DEF Marked
  <2> QED BY <2>4 DEF fl
<1> HIDE DEF run
<1> QED BY <1>1, <1>11, <1>12

(* TermInterner: interning adds a term to the end, unless it is there.     *)
Grows(ts, ts2) == DOMAIN ts \subseteq DOMAIN ts2 /\ \A i \in DOMAIN ts : ts2[i] = ts[i]

TermTable(ts) == ts \in Seq(Nat) /\ Distinct(ts)

(* Interning keeps every id and adds at most the one term.                 *)
LEMMA InternFacts ==
  ASSUME NEW ts, TermTable(ts), NEW t \in Nat
  PROVE  /\ TermTable(Intern(ts, t)) /\ Grows(ts, Intern(ts, t))
         /\ t \in Values(Intern(ts, t)) /\ Values(ts) \subseteq Values(Intern(ts, t))
<1>1. CASE t \in Values(ts)
  BY <1>1 DEF Intern, Grows
<1>2. CASE t \notin Values(ts)
  <2> DEFINE ts2 == Append(ts, t)
  <2>1. ts \in Seq(Nat) /\ Distinct(ts)
    BY DEF TermTable
  <2>2. /\ ts2 \in Seq(Nat) /\ Len(ts2) = Len(ts) + 1 /\ ts2[Len(ts) + 1] = t
        /\ \A i \in 1..Len(ts) : ts2[i] = ts[i]
        /\ DOMAIN ts = 1..Len(ts) /\ DOMAIN ts2 = 1..(Len(ts) + 1)
    BY <2>1
  <2>3. Intern(ts, t) = ts2
    BY <1>2 DEF Intern
  <2>4. \A i \in 1..Len(ts) : ts[i] # t
    BY <2>2, <1>2 DEF Values
  <2> DEFINE n == Len(ts)
  <2>5. n \in Nat
    BY <2>1
  <2> HIDE DEF ts2, n
  <2>6. Distinct(ts2)
    <3> SUFFICES ASSUME NEW i \in 1..(n + 1), NEW j \in 1..(n + 1), ts2[i] = ts2[j] PROVE i = j
      BY <2>2 DEF Distinct, n
    <3>1. CASE i \in 1..n /\ j \in 1..n
      BY <3>1, <2>1, <2>2 DEF Distinct, n
    <3>2. \A m \in 1..n : ts2[m] # ts2[n + 1]
      BY <2>2, <2>4 DEF n
    <3>3. i = n + 1 \/ i \in 1..n
      BY <2>5
    <3>4. j = n + 1 \/ j \in 1..n
      BY <2>5
    <3> QED BY <3>1, <3>2, <3>3, <3>4
  <2>7. Grows(ts, ts2)
    BY <2>2, <2>5 DEF Grows, n
  <2>8. t \in Values(ts2) /\ Values(ts) \subseteq Values(ts2)
    BY <2>2, <2>5 DEF Values, n
  <2> QED BY <2>2, <2>3, <2>6, <2>7, <2>8 DEF TermTable
<1> QED BY <1>1, <1>2

(* Interning a quad gives each of its four terms an id.                    *)
LEMMA InternQuadFacts ==
  ASSUME NEW ts, TermTable(ts), NEW q \in Tuples(4)
  PROVE  /\ TermTable(InternQuad(ts, q)) /\ Grows(ts, InternQuad(ts, q))
         /\ \A i \in 1..4 : q[i] \in Values(InternQuad(ts, q))
<1> DEFINE t1 == Intern(ts, q[1])
           t2 == Intern(t1, q[2])
           t3 == Intern(t2, q[3])
           t4 == Intern(t3, q[4])
<1>1. q[1] \in Nat /\ q[2] \in Nat /\ q[3] \in Nat /\ q[4] \in Nat
  BY DEF Tuples
<1>2. InternQuad(ts, q) = t4
  BY DEF InternQuad
<1>3. TermTable(t1) /\ Grows(ts, t1) /\ q[1] \in Values(t1)
  BY <1>1, InternFacts
<1> HIDE DEF t1
<1>4. TermTable(t2) /\ Grows(t1, t2) /\ q[2] \in Values(t2) /\ Values(t1) \subseteq Values(t2)
  BY <1>1, <1>3, InternFacts
<1> HIDE DEF t2
<1>5. TermTable(t3) /\ Grows(t2, t3) /\ q[3] \in Values(t3) /\ Values(t2) \subseteq Values(t3)
  BY <1>1, <1>4, InternFacts
<1> HIDE DEF t3
<1>6. TermTable(t4) /\ Grows(t3, t4) /\ q[4] \in Values(t4) /\ Values(t3) \subseteq Values(t4)
  BY <1>1, <1>5, InternFacts
<1> HIDE DEF t4
<1>7. Grows(ts, t4)
  BY <1>3, <1>4, <1>5, <1>6 DEF Grows
<1>8. q[1] \in Values(t4) /\ q[2] \in Values(t4) /\ q[3] \in Values(t4) /\ q[4] \in Values(t4)
  BY <1>3, <1>4, <1>5, <1>6
<1>9. \A i \in 1..4 : i = 1 \/ i = 2 \/ i = 3 \/ i = 4
  OBVIOUS
<1> QED BY <1>2, <1>6, <1>7, <1>8, <1>9

(* The ids of a quad's terms spell it.                                     *)
LEMMA IdsSpell ==
  ASSUME NEW ts, TermTable(ts), NEW q \in Tuples(4), \A i \in 1..4 : q[i] \in Values(ts)
  PROVE  LET ids == [i \in 1..4 |-> IdOf(ts, q[i])]
         IN ids \in IdTuples(4, ts) /\ Through(ts, ids) = q
<1> DEFINE ids == [i \in 1..4 |-> IdOf(ts, q[i])]
<1>1. \A i \in 1..4 : IdOf(ts, q[i]) \in DOMAIN ts /\ ts[IdOf(ts, q[i])] = q[i]
  BY DEF IdOf, Values
<1>2. ids \in IdTuples(4, ts)
  BY <1>1 DEF IdTuples
<1>3. Through(ts, ids) = [i \in 1..4 |-> ts[IdOf(ts, q[i])]]
  BY <1>1 DEF Through
<1>4. Through(ts, ids) = q
  BY <1>1, <1>3 DEF Tuples
<1> QED BY <1>2, <1>4

(* Ids stay good as terms are added.                                       *)
LEMMA IdsStay ==
  ASSUME NEW ts, NEW ts2, Grows(ts, ts2), NEW k \in Nat, NEW ids \in IdTuples(k, ts)
  PROVE  ids \in IdTuples(k, ts2) /\ Through(ts2, ids) = Through(ts, ids)
<1>1. \A i \in 1..k : ids[i] \in DOMAIN ts /\ ids[i] \in DOMAIN ts2 /\ ts2[ids[i]] = ts[ids[i]]
  BY DEF IdTuples, Grows
<1>2. ids \in IdTuples(k, ts2)
  BY <1>1 DEF IdTuples
<1>3. DOMAIN ids = 1..k
  BY DEF IdTuples
<1> QED BY <1>1, <1>2, <1>3 DEF Through

(* What a spiller holds: quads of known ids in the buffer, ascending runs, *)
(* and between them the quads Q.                                           *)
AllIds(sp) == (UNION {Values(sp.runs[i]) : i \in DOMAIN sp.runs}) \cup Values(sp.buf)

IsSpill(sp) == sp = [buf |-> sp.buf, runs |-> sp.runs, ranks |-> sp.ranks, seen |-> sp.seen, sorts |-> sp.sorts]

SpillHolds(sp, ts, Q) ==
  /\ IsSpill(sp) /\ Marked(sp)
  /\ sp.buf \in Seq(IdTuples(4, ts)) /\ sp.runs \in Seq(Seq(IdTuples(4, ts)))
  /\ \A i \in DOMAIN sp.runs : TermAscends(sp.runs[i], ts)
  /\ {Through(ts, ids) : ids \in AllIds(sp)} = Q

(* A quad a spiller holds is in one of its runs or in its buffer.          *)
LEMMA AllIdsMembers ==
  ASSUME NEW sp, NEW x
  PROVE  x \in AllIds(sp) <=> x \in Values(sp.buf) \/ \E i \in DOMAIN sp.runs : x \in Values(sp.runs[i])
BY DEF AllIds

(* Appending adds one value.                                               *)
LEMMA ValuesAppend ==
  ASSUME NEW S, NEW sq \in Seq(S), NEW x \in S
  PROVE  Values(Append(sq, x)) = Values(sq) \cup {x}
<1> DEFINE ap == Append(sq, x)
           n == Len(sq)
<1>1. /\ n \in Nat /\ DOMAIN sq = 1..n /\ DOMAIN ap = 1..(n + 1)
      /\ ap[n + 1] = x /\ \A i \in 1..n : ap[i] = sq[i]
  OBVIOUS
<1> HIDE DEF ap, n
<1>2. \A i \in 1..(n + 1) : i \in 1..n \/ i = n + 1
  BY <1>1
<1>3. 1..n \subseteq 1..(n + 1) /\ n + 1 \in 1..(n + 1)
  BY <1>1
<1>4. Values(ap) = Values(sq) \cup {x}
  BY <1>1, <1>2, <1>3 DEF Values
<1> QED BY <1>4 DEF ap

(* What a spiller holds are id tuples.                                     *)
LEMMA AllIdsTyped ==
  ASSUME NEW sp, NEW ts, sp.buf \in Seq(IdTuples(4, ts)), sp.runs \in Seq(Seq(IdTuples(4, ts)))
  PROVE  AllIds(sp) \subseteq IdTuples(4, ts)
<1>1. Values(sp.buf) \subseteq IdTuples(4, ts)
  BY DEF Values
<1>2. ASSUME NEW i \in DOMAIN sp.runs
      PROVE  Values(sp.runs[i]) \subseteq IdTuples(4, ts)
  <2>1. sp.runs[i] \in Seq(IdTuples(4, ts))
    OBVIOUS
  <2> QED BY <2>1 DEF Values
<1>3. ASSUME NEW x \in AllIds(sp)
      PROVE  x \in IdTuples(4, ts)
  BY <1>1, <1>2, AllIdsMembers
<1> QED BY <1>3

(* Runs stay good as terms are added.                                      *)
LEMMA SpillGrows ==
  ASSUME NEW sp, NEW ts, NEW ts2, NEW Q, SpillHolds(sp, ts, Q), Grows(ts, ts2)
  PROVE  SpillHolds(sp, ts2, Q)
<1>1. \A ids \in IdTuples(4, ts) : ids \in IdTuples(4, ts2) /\ Through(ts2, ids) = Through(ts, ids)
  BY IdsStay
<1>2. sp.buf \in Seq(IdTuples(4, ts)) /\ sp.runs \in Seq(Seq(IdTuples(4, ts)))
  BY DEF SpillHolds
<1>3. sp.buf \in Seq(IdTuples(4, ts2))
  BY <1>1, <1>2
<1>4. ASSUME NEW i \in DOMAIN sp.runs
      PROVE  sp.runs[i] \in Seq(IdTuples(4, ts2)) /\ TermAscends(sp.runs[i], ts2)
  <2>1. sp.runs[i] \in Seq(IdTuples(4, ts))
    BY <1>2
  <2>2. \A j \in DOMAIN sp.runs[i] : sp.runs[i][j] \in IdTuples(4, ts)
    BY <2>1
  <2>3. sp.runs[i] \in Seq(IdTuples(4, ts2))
    BY <2>1, <2>2, <1>1
  <2>4. TermAscends(sp.runs[i], ts)
    BY DEF SpillHolds
  <2>5. TermAscends(sp.runs[i], ts2)
    BY <2>2, <2>4, <1>1 DEF TermAscends
  <2> QED BY <2>3, <2>5
<1>5. sp.runs \in Seq(Seq(IdTuples(4, ts2)))
  BY <1>2, <1>4
<1>6. {Through(ts2, ids) : ids \in AllIds(sp)} = Q
  <2>1. AllIds(sp) \subseteq IdTuples(4, ts)
    BY <1>2, AllIdsTyped
  <2>2. \A ids \in AllIds(sp) : Through(ts2, ids) = Through(ts, ids)
    BY <2>1, <1>1
  <2>3. {Through(ts, ids) : ids \in AllIds(sp)} = Q
    BY DEF SpillHolds
  <2> QED BY <2>2, <2>3
<1> QED BY <1>3, <1>4, <1>5, <1>6 DEF SpillHolds

(* Flushing moves the buffer into a run, pushing adds a quad: neither      *)
(* loses one.                                                              *)
LEMMA SpillFlushes ==
  ASSUME NEW sp, NEW ts, NEW Q, TermTable(ts), SpillHolds(sp, ts, Q)
  PROVE  SpillHolds(Flushed(sp, ts), ts, Q) /\ Flushed(sp, ts).buf = <<>> /\ Flushed(sp, ts).runs # <<>>
<1> DEFINE fl == Flushed(sp, ts)
<1>1. sp.buf \in Seq(IdTuples(4, ts)) /\ sp.runs \in Seq(Seq(IdTuples(4, ts))) /\ Marked(sp)
  BY DEF SpillHolds
<1>2. IsSpill(fl)
  BY DEF Flushed, IsSpill
<1>3. ts \in Seq(Nat) /\ Distinct(ts)
  BY DEF TermTable
<1>4. PICK run : fl.buf = <<>> /\ RunOf(run, Values(sp.buf), ts) /\ fl.runs = Append(sp.runs, run) /\ Marked(fl)
  BY <1>1, <1>3, FlushedFacts
<1> HIDE DEF fl
<1>5. run \in Seq(IdTuples(4, ts))
  <2>1. run \in Seq(Values(sp.buf))
    BY <1>4 DEF RunOf
  <2>2. Values(sp.buf) \subseteq IdTuples(4, ts)
    BY <1>1 DEF Values
  <2> QED BY <2>1, <2>2
<1>6. fl.runs \in Seq(Seq(IdTuples(4, ts))) /\ fl.buf \in Seq(IdTuples(4, ts)) /\ fl.runs # <<>>
  <2> DEFINE T == Seq(IdTuples(4, ts))
  <2>1. run \in T /\ sp.runs \in Seq(T)
    BY <1>1, <1>5
  <2> HIDE DEF T
  <2>2. fl.runs \in Seq(T) /\ Len(fl.runs) = Len(sp.runs) + 1 /\ Len(sp.runs) \in Nat
    BY <2>1, <1>4
  <2>3. fl.runs # <<>>
    BY <2>2
  <2>4. fl.buf \in Seq(IdTuples(4, ts))
    BY <1>4
  <2> QED BY <2>2, <2>3, <2>4 DEF T
<1>7. ASSUME NEW i \in DOMAIN fl.runs
      PROVE  TermAscends(fl.runs[i], ts)
  <2>1. (i \in DOMAIN sp.runs /\ fl.runs[i] = sp.runs[i]) \/ fl.runs[i] = run
    BY <1>1, <1>4
  <2> QED BY <2>1, <1>4 DEF RunOf, SpillHolds
<1>8. AllIds(fl) = AllIds(sp)
  <2>1. Values(run) = Values(sp.buf) /\ Values(fl.buf) = {}
    BY <1>4 DEF RunOf, Values
  <2>2. \A i \in DOMAIN fl.runs : (i \in DOMAIN sp.runs /\ fl.runs[i] = sp.runs[i]) \/ fl.runs[i] = run
    BY <1>1, <1>4
  <2>3. /\ \A i \in DOMAIN sp.runs : i \in DOMAIN fl.runs /\ fl.runs[i] = sp.runs[i]
        /\ \E i \in DOMAIN fl.runs : fl.runs[i] = run
    <3>1. Len(sp.runs) + 1 \in DOMAIN fl.runs /\ fl.runs[Len(sp.runs) + 1] = run
      BY <1>1, <1>4
    <3> QED BY <1>1, <1>4, <3>1
  <2>4. ASSUME NEW x
        PROVE  x \in AllIds(fl) <=> x \in AllIds(sp)
    <3>1. x \in AllIds(fl) <=> x \in Values(fl.buf) \/ \E i \in DOMAIN fl.runs : x \in Values(fl.runs[i])
      BY AllIdsMembers
    <3>2. x \in AllIds(sp) <=> x \in Values(sp.buf) \/ \E i \in DOMAIN sp.runs : x \in Values(sp.runs[i])
      BY AllIdsMembers
    <3>3. CASE x \in Values(run)
      BY <3>1, <3>2, <3>3, <2>1, <2>3
    <3>4. CASE x \notin Values(run)
      BY <3>1, <3>2, <3>4, <2>1, <2>2, <2>3
    <3> QED BY <3>3, <3>4
  <2> QED BY <2>4
<1>9. {Through(ts, ids) : ids \in AllIds(fl)} = Q
  BY <1>8 DEF SpillHolds
<1> QED BY <1>2, <1>4, <1>6, <1>7, <1>9 DEF SpillHolds, fl

(* push: the spiller holds one quad more, flushed or not.                  *)
LEMMA SpillPushes ==
  ASSUME NEW sp, NEW ts, NEW Q, TermTable(ts), SpillHolds(sp, ts, Q), NEW ids \in IdTuples(4, ts)
  PROVE  SpillHolds(Pushed(sp, ids, ts), ts, Q \cup {Through(ts, ids)})
<1> DEFINE room == IF Len(sp.buf) = RunRows THEN Flushed(sp, ts) ELSE sp
           sp2 == Pushed(sp, ids, ts)
<1>1. SpillHolds(room, ts, Q)
  BY SpillFlushes
<1>2. sp2 = [room EXCEPT !.buf = Append(@, ids)]
  BY DEF Pushed
<1> HIDE DEF room, sp2
<1>3. IsSpill(room) /\ Marked(room) /\ room.buf \in Seq(IdTuples(4, ts)) /\ room.runs \in Seq(Seq(IdTuples(4, ts)))
  BY <1>1 DEF SpillHolds
<1>4. /\ sp2 = [buf |-> Append(room.buf, ids), runs |-> room.runs, ranks |-> room.ranks,
                seen |-> room.seen, sorts |-> room.sorts]
      /\ IsSpill(sp2)
  BY <1>2, <1>3 DEF IsSpill
<1>5. /\ sp2.buf = Append(room.buf, ids) /\ sp2.runs = room.runs /\ sp2.seen = room.seen /\ sp2.sorts = room.sorts
  BY <1>4
<1>6. Marked(sp2) /\ sp2.buf \in Seq(IdTuples(4, ts)) /\ sp2.runs \in Seq(Seq(IdTuples(4, ts)))
  BY <1>3, <1>5 DEF Marked
<1>7. \A i \in DOMAIN sp2.runs : TermAscends(sp2.runs[i], ts)
  BY <1>1, <1>5 DEF SpillHolds
<1>8. AllIds(sp2) = AllIds(room) \cup {ids}
  <2>1. Values(sp2.buf) = Values(room.buf) \cup {ids}
    BY <1>3, <1>5, ValuesAppend
  <2> QED BY <2>1, <1>5 DEF AllIds
<1>9. {Through(ts, x) : x \in AllIds(sp2)} = Q \cup {Through(ts, ids)}
  <2>1. {Through(ts, x) : x \in AllIds(room)} = Q
    BY <1>1 DEF SpillHolds
  <2> QED BY <2>1, <1>8
<1> QED BY <1>4, <1>6, <1>7, <1>9 DEF SpillHolds, sp2

-----------------------------------------------------------------------------
(* RunMerger                                                               *)

(* The items of runs, and those that a merge has read.                     *)
AllOf(runs) == UNION {Values(runs[i]) : i \in DOMAIN runs}
Yielded(m)  == UNION {{m.runs[i][j] : j \in 1..(m.at[i] - 1)} : i \in DOMAIN m.runs}

(* An item of some run.                                                    *)
LEMMA AllOfMembers ==
  ASSUME NEW runs, NEW x
  PROVE  x \in AllOf(runs) <=> \E i \in DOMAIN runs : \E j \in DOMAIN runs[i] : x = runs[i][j]
BY DEF AllOf, Values

(* An item a merge has read is one before the place it has reached in some *)
(* run.                                                                    *)
LEMMA YieldedMembers ==
  ASSUME NEW m, NEW x
  PROVE  x \in Yielded(m) <=> \E i \in DOMAIN m.runs : \E j \in 1..(m.at[i] - 1) : x = m.runs[i][j]
BY DEF Yielded

(* Runs of tuples, each ascending, and a place in each.                    *)
RunsAscend(runs, k) ==
  /\ runs \in Seq(Seq(Tuples(k)))
  /\ \A i \in DOMAIN runs : Ascends(runs[i])

MergerTyped(m, k) ==
  /\ m = [runs |-> m.runs, at |-> m.at, last |-> m.last]
  /\ RunsAscend(m.runs, k)
  /\ m.at \in [DOMAIN m.runs -> Nat]
  /\ \A i \in DOMAIN m.runs : m.at[i] \in 1..(Len(m.runs[i]) + 1)

(* The last item yielded parts what was read from what is to come.         *)
LastParts(m) ==
  /\ m.last \in Yielded(m)
  /\ \A x \in Yielded(m) : x = m.last \/ Less(x, m.last)
  /\ \A i \in DOMAIN m.runs : \A j \in m.at[i]..Len(m.runs[i]) :
       m.runs[i][j] = m.last \/ Less(m.last, m.runs[i][j])

MergeInv(m, k) == MergerTyped(m, k) /\ ((m.last = <<>> /\ Yielded(m) = {}) \/ LastParts(m))

(* A merge that has drained its runs has read all of them.                 *)
LEMMA YieldedIsRead ==
  ASSUME NEW m, NEW k, MergerTyped(m, k)
  PROVE  /\ Yielded(m) \subseteq AllOf(m.runs) /\ AllOf(m.runs) \subseteq Tuples(k)
         /\ Undrained(m) = {} => Yielded(m) = AllOf(m.runs)
<1>1. \A i \in DOMAIN m.runs : /\ m.runs[i] \in Seq(Tuples(k)) /\ Len(m.runs[i]) \in Nat
                               /\ m.at[i] \in 1..(Len(m.runs[i]) + 1) /\ DOMAIN m.runs[i] = 1..Len(m.runs[i])
  BY DEF MergerTyped, RunsAscend
<1>2. ASSUME NEW x \in Yielded(m)
      PROVE  x \in AllOf(m.runs)
  <2>1. PICK i \in DOMAIN m.runs : \E j \in 1..(m.at[i] - 1) : x = m.runs[i][j]
    BY YieldedMembers
  <2>2. PICK j \in 1..(m.at[i] - 1) : x = m.runs[i][j]
    BY <2>1
  <2>3. j \in DOMAIN m.runs[i]
    BY <1>1
  <2> QED BY <2>2, <2>3, AllOfMembers
<1>3. ASSUME NEW x \in AllOf(m.runs)
      PROVE  x \in Tuples(k)
  <2>1. PICK i \in DOMAIN m.runs : \E j \in DOMAIN m.runs[i] : x = m.runs[i][j]
    BY AllOfMembers
  <2> QED BY <2>1, <1>1
<1>4. ASSUME Undrained(m) = {}, NEW x \in AllOf(m.runs)
      PROVE  x \in Yielded(m)
  <2>1. PICK i \in DOMAIN m.runs : \E j \in DOMAIN m.runs[i] : x = m.runs[i][j]
    BY AllOfMembers
  <2>2. PICK j \in DOMAIN m.runs[i] : x = m.runs[i][j]
    BY <2>1
  <2>3. ~(m.at[i] <= Len(m.runs[i]))
    BY <1>4 DEF Undrained
  <2>4. j \in 1..(m.at[i] - 1)
    BY <2>3, <1>1
  <2> QED BY <2>2, <2>4, YieldedMembers
<1> QED BY <1>2, <1>3, <1>4

(* The items of runs are finitely many.                                    *)
LEMMA AllOfFinite ==
  ASSUME NEW runs, NEW k, RunsAscend(runs, k)
  PROVE  IsFiniteSet(AllOf(runs))
<1> DEFINE g == [i \in DOMAIN runs |-> Values(runs[i])]
           S == {Values(runs[i]) : i \in DOMAIN runs}
<1>1. DOMAIN runs = 1..Len(runs) /\ Len(runs) \in Nat
  BY DEF RunsAscend
<1>2. IsFiniteSet(DOMAIN runs)
  BY <1>1, FS_Interval
<1>3. g \in Surjection(DOMAIN runs, S)
  BY DEF Surjection
<1>4. IsFiniteSet(S)
  <2> HIDE DEF g, S
  <2> QED BY <1>2, <1>3, FS_Surjection
<1>5. \A T \in S : IsFiniteSet(T)
  <2> SUFFICES ASSUME NEW i \in DOMAIN runs PROVE IsFiniteSet(Values(runs[i]))
    OBVIOUS
  <2>1. runs[i] \in Seq(Tuples(k))
    BY DEF RunsAscend
  <2>2. Len(runs[i]) \in Nat /\ DOMAIN runs[i] = 1..Len(runs[i])
    BY <2>1
  <2> QED BY <2>2, ValuesFinite
<1>6. AllOf(runs) = UNION S
  BY DEF AllOf
<1> HIDE DEF S
<1> QED BY <1>4, <1>5, <1>6, FS_UNION

(* A new merge has read nothing.                                           *)
LEMMA NewMergeInv ==
  ASSUME NEW runs, NEW k, RunsAscend(runs, k)
  PROVE  MergeInv(NewMerger(runs), k) /\ Yielded(NewMerger(runs)) = {} /\ NewMerger(runs).runs = runs
<1> DEFINE m == NewMerger(runs)
<1>1. m = [runs |-> runs, at |-> [i \in DOMAIN runs |-> 1], last |-> <<>>]
  BY DEF NewMerger
<1>2. m.runs = runs /\ m.at = [i \in DOMAIN runs |-> 1] /\ m.last = <<>>
  BY <1>1
<1> HIDE DEF m
<1>3. \A i \in DOMAIN runs : Len(runs[i]) \in Nat
  BY DEF RunsAscend
<1>4. MergerTyped(m, k)
  BY <1>1, <1>2, <1>3 DEF MergerTyped
<1>5. Yielded(m) = {}
  <2> SUFFICES ASSUME NEW x \in Yielded(m) PROVE FALSE
    OBVIOUS
  <2>1. PICK i \in DOMAIN m.runs : \E j \in 1..(m.at[i] - 1) : x = m.runs[i][j]
    BY YieldedMembers
  <2>2. m.at[i] = 1
    BY <1>2
  <2> QED BY <2>1, <2>2
<1> QED BY <1>2, <1>4, <1>5 DEF MergeInv, m

(* What is popped is a head, and nothing that is still to come is before   *)
(* it.                                                                     *)
LEMMA PoppedFacts ==
  ASSUME NEW m, NEW k \in Nat, MergerTyped(m, k), Undrained(m) # {}
  PROVE  /\ Popped(m) \in Undrained(m) /\ Item(m) \in Tuples(k) /\ Item(m) = m.runs[Popped(m)][m.at[Popped(m)]]
         /\ \A i \in DOMAIN m.runs : \A j \in m.at[i]..Len(m.runs[i]) :
              m.runs[i][j] = Item(m) \/ Less(Item(m), m.runs[i][j])
<1> DEFINE U == Undrained(m)
           hd == [i \in U |-> HeadOf(m, i)]
           S == Values(hd)
<1>1. \A i \in DOMAIN m.runs : /\ m.runs[i] \in Seq(Tuples(k)) /\ Len(m.runs[i]) \in Nat /\ Ascends(m.runs[i])
                               /\ m.at[i] \in 1..(Len(m.runs[i]) + 1) /\ DOMAIN m.runs[i] = 1..Len(m.runs[i])
  BY DEF MergerTyped, RunsAscend
<1>2. DOMAIN m.runs = 1..Len(m.runs) /\ Len(m.runs) \in Nat
  BY DEF MergerTyped, RunsAscend
<1>3. U \in SUBSET (DOMAIN m.runs) /\ \A i \in U : m.at[i] \in 1..Len(m.runs[i])
  BY <1>1 DEF Undrained
<1>4. \A i \in U : HeadOf(m, i) \in Tuples(k) /\ HeadOf(m, i) = m.runs[i][m.at[i]]
  BY <1>1, <1>3 DEF HeadOf
<1>5. U # {}
  OBVIOUS
<1> HIDE DEF U
<1>6. S \in SUBSET Tuples(k) /\ S # {}
  BY <1>4, <1>5 DEF Values
<1>7. IsFiniteSet(S)
  <2>1. IsFiniteSet(1..Len(m.runs))
    BY <1>2, FS_Interval
  <2>2. IsFiniteSet(U)
    BY <2>1, <1>2, <1>3, FS_Subset
  <2>3. hd \in Surjection(U, S)
    BY DEF Surjection, Values
  <2> HIDE DEF hd, S
  <2> QED BY <2>2, <2>3, FS_Surjection
<1>8. PICK h \in S : \A y \in S : h = y \/ Less(h, y)
  <2> HIDE DEF S
  <2> QED BY <1>6, <1>7, LeastTuple
<1> DEFINE T == {i \in U : HeadOf(m, i) = h}
<1>9. T # {} /\ T \in SUBSET Nat
  BY <1>2, <1>3 DEF Values
<1>10. PICK p \in T : \A y \in T : p <= y
  <2> HIDE DEF T
  <2> QED BY <1>9, LeastNumber
<1>11. p \in U /\ HeadOf(m, p) = h
  OBVIOUS
<1>12. ASSUME NEW j \in U
       PROVE  Less(HeadOf(m, p), HeadOf(m, j)) \/ (HeadOf(m, p) = HeadOf(m, j) /\ p <= j)
  <2>1. HeadOf(m, j) \in S
    BY DEF Values
  <2>2. CASE HeadOf(m, j) = h
    BY <2>2, <1>10, <1>11
  <2>3. CASE HeadOf(m, j) # h
    BY <2>1, <2>3, <1>8, <1>11
  <2> QED BY <2>2, <2>3
<1> HIDE DEF T, S, hd
<1>13. /\ Popped(m) \in U
       /\ \A j \in U : Less(Item(m), HeadOf(m, j)) \/ (Item(m) = HeadOf(m, j) /\ Popped(m) <= j)
  <2> DEFINE Best(i) == \A j \in U : Less(HeadOf(m, i), HeadOf(m, j)) \/ (HeadOf(m, i) = HeadOf(m, j) /\ i <= j)
  <2>1. Best(p)
    BY <1>12
  <2>2. Popped(m) = CHOOSE i \in U : Best(i)
    BY DEF Popped, U
  <2> HIDE DEF Best
  <2>3. Popped(m) \in U /\ Best(Popped(m))
    BY <2>1, <2>2, <1>11
  <2> QED BY <2>3 DEF Best, Item
<1>14. Item(m) \in Tuples(k) /\ Item(m) = m.runs[Popped(m)][m.at[Popped(m)]]
  BY <1>4, <1>13 DEF Item
<1>15. ASSUME NEW i \in DOMAIN m.runs, NEW j \in m.at[i]..Len(m.runs[i])
       PROVE  m.runs[i][j] = Item(m) \/ Less(Item(m), m.runs[i][j])
  <2>1. i \in U /\ m.at[i] \in DOMAIN m.runs[i] /\ j \in DOMAIN m.runs[i]
    BY <1>1 DEF U, Undrained
  <2> DEFINE a == m.runs[i][m.at[i]]
             b == m.runs[i][j]
             c == Item(m)
  <2>2. a \in Tuples(k) /\ b \in Tuples(k) /\ c \in Tuples(k)
    BY <2>1, <1>1, <1>14
  <2>3. a = b \/ Less(a, b)
    <3>1. m.at[i] = j \/ m.at[i] < j
      BY <1>1
    <3> QED BY <3>1, <2>1, <1>1 DEF Ascends
  <2>4. c = a \/ Less(c, a)
    BY <2>1, <1>4, <1>13
  <2> HIDE DEF a, b, c
  <2>5. b = c \/ Less(c, b)
    BY <2>2, <2>3, <2>4, LessStrict
  <2> QED BY <2>5 DEF b, c
<1> QED BY <1>13, <1>14, <1>15 DEF U

(* One turn of a merge's loop: the item is new exactly when the last one   *)
(* was another, and then everything before it has been yielded.            *)
LEMMA RefilledFacts ==
  ASSUME NEW m, NEW k \in Nat \ {0}, MergeInv(m, k), Undrained(m) # {}
  PROVE  /\ MergeInv(Refilled(m), k) /\ Refilled(m).runs = m.runs
         /\ Yielded(Refilled(m)) = Yielded(m) \cup {Item(m)}
         /\ Item(m) \in Tuples(k) /\ Item(m) \in AllOf(m.runs)
         /\ Repeats(m) => Item(m) \in Yielded(m)
         /\ ~Repeats(m) => \A x \in Yielded(m) : Less(x, Item(m))
         /\ ~Repeats(m) => Yielded(m) = {x \in AllOf(m.runs) : Less(x, Item(m))}
<1> DEFINE p == Popped(m)
           it == Item(m)
           m2 == Refilled(m)
<1>1. MergerTyped(m, k)
  BY DEF MergeInv
<1>2. /\ p \in Undrained(m) /\ it \in Tuples(k) /\ it = m.runs[p][m.at[p]]
      /\ \A i \in DOMAIN m.runs : \A j \in m.at[i]..Len(m.runs[i]) : m.runs[i][j] = it \/ Less(it, m.runs[i][j])
  BY <1>1, PoppedFacts
<1>3. m2 = [m EXCEPT !.at[p] = @ + 1, !.last = it]
  BY DEF Refilled
<1>4. Repeats(m) <=> m.last = it
  BY DEF Repeats
<1> HIDE DEF p, it, m2
<1>5. \A i \in DOMAIN m.runs : /\ m.runs[i] \in Seq(Tuples(k)) /\ Len(m.runs[i]) \in Nat /\ Ascends(m.runs[i])
                               /\ m.at[i] \in 1..(Len(m.runs[i]) + 1) /\ DOMAIN m.runs[i] = 1..Len(m.runs[i])
  BY <1>1 DEF MergerTyped, RunsAscend
<1>6. p \in DOMAIN m.runs /\ m.at[p] \in 1..Len(m.runs[p]) /\ m.at[p] \in DOMAIN m.runs[p]
  BY <1>2, <1>5 DEF Undrained
<1>7. /\ m2.runs = m.runs /\ m2.at = [m.at EXCEPT ![p] = @ + 1] /\ m2.last = it
      /\ m2 = [runs |-> m2.runs, at |-> m2.at, last |-> m2.last]
  <2>1. m = [runs |-> m.runs, at |-> m.at, last |-> m.last]
    BY <1>1 DEF MergerTyped
  <2>2. m2 = [runs |-> m.runs, at |-> [m.at EXCEPT ![p] = @ + 1], last |-> it]
    BY <2>1, <1>3
  <2> QED BY <2>2
<1>8. m.at \in [DOMAIN m.runs -> Nat] /\ RunsAscend(m.runs, k)
  BY <1>1 DEF MergerTyped
<1>9. /\ m2.at[p] = m.at[p] + 1
      /\ \A i \in DOMAIN m.runs : i # p => m2.at[i] = m.at[i]
  BY <1>6, <1>7, <1>8
<1>10. MergerTyped(m2, k)
  <2>1. m2.at \in [DOMAIN m2.runs -> Nat]
    BY <1>6, <1>7, <1>8
  <2>2. \A i \in DOMAIN m2.runs : m2.at[i] \in 1..(Len(m2.runs[i]) + 1)
    <3> TAKE i \in DOMAIN m2.runs
    <3>1. CASE i = p
      BY <3>1, <1>5, <1>6, <1>7, <1>9
    <3>2. CASE i # p
      BY <3>2, <1>5, <1>7, <1>9
    <3> QED BY <3>1, <3>2
  <2> QED BY <2>1, <2>2, <1>7, <1>8 DEF MergerTyped
<1>11. Yielded(m2) = Yielded(m) \cup {it}
  <2>1. ASSUME NEW x \in Yielded(m2)
        PROVE  x \in Yielded(m) \cup {it}
    <3>0. \E i \in DOMAIN m2.runs : \E j \in 1..(m2.at[i] - 1) : x = m2.runs[i][j]
      BY YieldedMembers
    <3>1. PICK i \in DOMAIN m.runs : \E j \in 1..(m2.at[i] - 1) : x = m.runs[i][j]
      BY <3>0, <1>7
    <3>2. PICK j \in 1..(m2.at[i] - 1) : x = m.runs[i][j]
      BY <3>1
    <3>3. CASE j \in 1..(m.at[i] - 1)
      BY <3>2, <3>3, YieldedMembers
    <3>4. CASE j \notin 1..(m.at[i] - 1)
      <4>1. i = p /\ j = m.at[p]
        BY <3>4, <1>5, <1>6, <1>9, SMTT(30)
      <4> QED BY <4>1, <3>2, <1>2
    <3> QED BY <3>3, <3>4
  <2>2. ASSUME NEW x \in Yielded(m)
        PROVE  x \in Yielded(m2)
    <3>1. PICK i \in DOMAIN m.runs : \E j \in 1..(m.at[i] - 1) : x = m.runs[i][j]
      BY YieldedMembers
    <3>2. PICK j \in 1..(m.at[i] - 1) : x = m.runs[i][j]
      BY <3>1
    <3>3. j \in 1..(m2.at[i] - 1)
      BY <1>5, <1>6, <1>9, SMTT(30)
    <3> QED BY <3>2, <3>3, <1>7, YieldedMembers
  <2>3. it \in Yielded(m2)
    <3>1. m.at[p] \in 1..(m2.at[p] - 1)
      BY <1>5, <1>6, <1>9
    <3> QED BY <3>1, <1>2, <1>6, <1>7, YieldedMembers
  <2> QED BY <2>1, <2>2, <2>3
<1>12. it \in AllOf(m.runs)
  BY <1>2, <1>6, AllOfMembers
<1>13. Yielded(m) \subseteq Tuples(k)
  BY <1>1, YieldedIsRead
<1>14. <<>> \notin Tuples(k)
  <2>1. ASSUME NEW t \in Tuples(k)
        PROVE  t # <<>>
    <3>1. DOMAIN t = 1..k /\ 1 \in 1..k
      BY DEF Tuples
    <3>2. DOMAIN <<>> = {}
      OBVIOUS
    <3> QED BY <3>1, <3>2
  <2> QED BY <2>1
<1>15. \A x \in Yielded(m) : x = it \/ Less(x, it)
  <2> SUFFICES ASSUME NEW x \in Yielded(m), LastParts(m) PROVE x = it \/ Less(x, it)
    BY DEF MergeInv
  <2>1. m.last \in Tuples(k) /\ x \in Tuples(k)
    BY <1>13 DEF LastParts
  <2>2. x = m.last \/ Less(x, m.last)
    BY DEF LastParts
  <2>3. it = m.last \/ Less(m.last, it)
    <3>1. m.at[p] \in m.at[p]..Len(m.runs[p])
      BY <1>5, <1>6
    <3> QED BY <3>1, <1>2, <1>6 DEF LastParts
  <2> QED BY <2>1, <2>2, <2>3, <1>2, LessStrict
<1>16. LastParts(m2)
  <2>1. \A x \in Yielded(m2) : x = it \/ Less(x, it)
    BY <1>11, <1>15
  <2>2. ASSUME NEW i \in DOMAIN m.runs, NEW j \in m2.at[i]..Len(m.runs[i])
        PROVE  m.runs[i][j] = it \/ Less(it, m.runs[i][j])
    <3>1. j \in m.at[i]..Len(m.runs[i])
      BY <1>5, <1>6, <1>9
    <3> QED BY <3>1, <1>2
  <2> QED BY <2>1, <2>2, <1>7, <1>11 DEF LastParts
<1>17. ASSUME m.last = it
       PROVE  it \in Yielded(m)
  BY <1>2, <1>14, <1>17 DEF MergeInv, LastParts
<1>18. ASSUME m.last # it, NEW x \in Yielded(m)
       PROVE  Less(x, it)
  <2>1. LastParts(m)
    BY DEF MergeInv
  <2>2. m.last \in Tuples(k) /\ x \in Tuples(k)
    BY <2>1, <1>13 DEF LastParts
  <2>3. x = m.last \/ Less(x, m.last)
    BY <2>1 DEF LastParts
  <2>4. Less(m.last, it)
    BY <2>1, <1>15, <1>18 DEF LastParts
  <2> QED BY <2>2, <2>3, <2>4, <1>2, LessStrict
<1>19. ASSUME m.last # it
       PROVE  Yielded(m) = {x \in AllOf(m.runs) : Less(x, it)}
  <2>1. ASSUME NEW x \in AllOf(m.runs), Less(x, it)
        PROVE  x \in Yielded(m)
    <3>1. PICK i \in DOMAIN m.runs : \E j \in DOMAIN m.runs[i] : x = m.runs[i][j]
      BY AllOfMembers
    <3>2. PICK j \in DOMAIN m.runs[i] : x = m.runs[i][j]
      BY <3>1
    <3>3. x \in Tuples(k)
      BY <1>1, YieldedIsRead
    <3>4. j \notin m.at[i]..Len(m.runs[i])
      <4> SUFFICES ASSUME j \in m.at[i]..Len(m.runs[i]) PROVE FALSE
        OBVIOUS
      <4>1. x = it \/ Less(it, x)
        BY <3>2, <1>2
      <4> QED BY <4>1, <2>1, <3>3, <1>2, LessStrict
    <3>5. j \in 1..(m.at[i] - 1)
      BY <3>2, <3>4, <1>5
    <3> QED BY <3>2, <3>5, YieldedMembers
  <2>2. Yielded(m) \subseteq AllOf(m.runs)
    BY <1>1, YieldedIsRead
  <2> QED BY <2>1, <2>2, <1>18, <1>19
<1> QED BY <1>2, <1>4, <1>7, <1>10, <1>11, <1>12, <1>16, <1>17, <1>18, <1>19 DEF MergeInv, p, it, m2

(* A stream: what it has yielded, in order, is what its merge has read.    *)
StreamInv(m, k, o) == MergeInv(m, k) /\ o \in Seq(Tuples(k)) /\ Ascends(o) /\ Values(o) = Yielded(m)

(* A turn of a merge's loop keeps its stream what the merge has read,      *)
(* ascending.                                                              *)
LEMMA StreamTurns ==
  ASSUME NEW m, NEW k \in Nat \ {0}, NEW o, StreamInv(m, k, o), Undrained(m) # {}
  PROVE  StreamInv(Refilled(m), k, IF Repeats(m) THEN o ELSE Append(o, Item(m)))
<1> DEFINE it == Item(m)
           m2 == Refilled(m)
<1>1. MergeInv(m, k) /\ o \in Seq(Tuples(k)) /\ Ascends(o) /\ Values(o) = Yielded(m)
  BY DEF StreamInv
<1>2. /\ MergeInv(m2, k) /\ Yielded(m2) = Yielded(m) \cup {it} /\ it \in Tuples(k)
      /\ Repeats(m) => it \in Yielded(m)
      /\ ~Repeats(m) => \A x \in Yielded(m) : Less(x, it)
  BY <1>1, RefilledFacts
<1> HIDE DEF it, m2
<1>3. CASE Repeats(m)
  <2>1. Yielded(m2) = Yielded(m)
    BY <1>2, <1>3
  <2>2. StreamInv(m2, k, o)
    BY <2>1, <1>1, <1>2 DEF StreamInv
  <2> QED BY <2>2, <1>3 DEF m2
<1>4. CASE ~Repeats(m)
  <2> DEFINE o2 == Append(o, it)
             n == Len(o)
  <2>1. o2 \in Seq(Tuples(k)) /\ Values(o2) = Values(o) \cup {it}
    BY <1>1, <1>2, ValuesAppend
  <2>2. /\ n \in Nat /\ DOMAIN o = 1..n /\ DOMAIN o2 = 1..(n + 1)
        /\ o2[n + 1] = it /\ \A i \in 1..n : o2[i] = o[i]
    BY <1>1, <1>2
  <2>3. \A i \in 1..n : Less(o[i], it)
    <3>1. \A i \in 1..n : o[i] \in Values(o)
      BY <2>2 DEF Values
    <3> QED BY <3>1, <1>1, <1>2, <1>4
  <2> HIDE DEF o2, n
  <2>4. ASSUME NEW i \in 1..(n + 1), NEW j \in 1..(n + 1), i < j
        PROVE  Less(o2[i], o2[j])
    <3>1. i \in 1..n /\ (j \in 1..n \/ j = n + 1)
      BY <2>2, <2>4
    <3>2. CASE j \in 1..n
      BY <3>1, <3>2, <2>2, <2>4, <1>1 DEF Ascends
    <3>3. CASE j = n + 1
      BY <3>1, <3>3, <2>2, <2>3
    <3> QED BY <3>1, <3>2, <3>3
  <2>5. Ascends(o2)
    BY <2>2, <2>4 DEF Ascends
  <2>6. StreamInv(m2, k, o2)
    BY <2>1, <2>5, <1>1, <1>2 DEF StreamInv
  <2> QED BY <2>6, <1>4 DEF m2, o2, it
<1> QED BY <1>3, <1>4

(* A stream whose merge is drained holds every item of the runs.           *)
LEMMA StreamEnds ==
  ASSUME NEW m, NEW k \in Nat, NEW o, StreamInv(m, k, o), Undrained(m) = {}
  PROVE  Values(o) = AllOf(m.runs)
BY YieldedIsRead DEF StreamInv, MergeInv

-----------------------------------------------------------------------------
(* Ranks                                                                   *)

(* The terms of a table in order: what a rank spells.                      *)
SpellOf(ts, r) == Sorted(Singles(Values(ts)))[r][1]

(* Ranks are in the terms' order.                                          *)
LEMMA RankFacts ==
  ASSUME NEW ts, TermTable(ts)
  PROVE  /\ DOMAIN RankOf(ts) = DOMAIN ts
         /\ \A i \in DOMAIN ts : RankOf(ts)[i] \in 1..Len(ts)
         /\ \A i, j \in DOMAIN ts : (RankOf(ts)[i] < RankOf(ts)[j]) <=> (ts[i] < ts[j])
<1> DEFINE S == DOMAIN ts
           kf == [i \in S |-> <<ts[i]>>]
           c == [i \in S |-> Cardinality(Before(S, kf, i))]
<1>1. ts \in Seq(Nat) /\ Distinct(ts) /\ S = 1..Len(ts) /\ Len(ts) \in Nat
  BY DEF TermTable
<1>2. IsFiniteSet(S) /\ Cardinality(S) = Len(ts)
  BY <1>1, CountingTo
<1>3. \A i \in S : ts[i] \in Nat
  BY <1>1
<1>4. Keyed(S, 1, kf)
  <2>1. \A i \in S : <<ts[i]>> \in Tuples(1)
    BY <1>3 DEF Tuples
  <2>2. \A i, j \in S : <<ts[i]>> = <<ts[j]>> => i = j
    <3> SUFFICES ASSUME NEW i \in S, NEW j \in S, <<ts[i]>> = <<ts[j]>> PROVE i = j
      OBVIOUS
    <3>1. ts[i] = ts[j]
      OBVIOUS
    <3> QED BY <3>1, <1>1 DEF Distinct
  <2> QED BY <2>1, <2>2 DEF Keyed
<1>5. \A i, j \in S : Less(kf[i], kf[j]) <=> ts[i] < ts[j]
  <2> TAKE i \in S, j \in S
  <2>1. kf[i] = <<ts[i]>> /\ kf[j] = <<ts[j]>>
    OBVIOUS
  <2>2. Less(<<ts[i]>>, <<ts[j]>>) <=> ts[i] < ts[j]
    BY DEF Less
  <2> QED BY <2>1, <2>2
<1>6. \A i \in S : Before(S, kf, i) = {j \in S : ts[j] < ts[i]}
  <2> HIDE DEF kf
  <2> QED BY <1>5 DEF Before
<1> HIDE DEF kf
<1>7. RankOf(ts) = [i \in S |-> c[i] + 1]
  BY <1>6 DEF RankOf
<1>8. /\ \A i \in S : c[i] \in 0..(Len(ts) - 1)
      /\ \A i, j \in S : Less(kf[i], kf[j]) => c[i] < c[j]
      /\ \A i, j \in S : c[i] = c[j] => i = j
  BY <1>2, <1>4, PositionsAscend
<1> HIDE DEF c
<1>9. \A i \in S : RankOf(ts)[i] = c[i] + 1 /\ RankOf(ts)[i] \in 1..Len(ts)
  BY <1>1, <1>7, <1>8
<1>10. ASSUME NEW i \in S, NEW j \in S
       PROVE  (RankOf(ts)[i] < RankOf(ts)[j]) <=> (ts[i] < ts[j])
  <2>1. c[i] \in Nat /\ c[j] \in Nat /\ ts[i] \in Nat /\ ts[j] \in Nat
    BY <1>1, <1>3, <1>8
  <2>2. ts[i] < ts[j] => c[i] < c[j]
    BY <1>5, <1>8
  <2>3. ts[j] < ts[i] => c[j] < c[i]
    BY <1>5, <1>8
  <2>4. ts[i] = ts[j] => c[i] = c[j]
    BY <1>1 DEF Distinct
  <2>5. (c[i] < c[j]) <=> (ts[i] < ts[j])
    BY <2>1, <2>2, <2>3, <2>4
  <2> QED BY <2>1, <2>5, <1>9
<1> QED BY <1>7, <1>9, <1>10

(* A term's rank spells the term, and higher ranks higher terms.           *)
LEMMA SpellFacts ==
  ASSUME NEW ts, TermTable(ts)
  PROVE  /\ \A i \in DOMAIN ts : SpellOf(ts, RankOf(ts)[i]) = ts[i]
         /\ \A r \in 1..Len(ts) : \E i \in DOMAIN ts : r = RankOf(ts)[i]
         /\ \A r \in 1..Len(ts) : SpellOf(ts, r) \in Nat
         /\ \A r, s \in 1..Len(ts) : r < s => SpellOf(ts, r) < SpellOf(ts, s)
<1> DEFINE S == Singles(Values(ts))
           D == DOMAIN ts
           one == [i \in D |-> <<ts[i]>>]
           sq == Sorted(S)
<1>1. ts \in Seq(Nat) /\ Distinct(ts) /\ D = 1..Len(ts) /\ Len(ts) \in Nat
  BY DEF TermTable
<1>2. \A i \in D : ts[i] \in Nat
  BY <1>1
<1>3. one \in Bijection(D, S)
  <2>1. one \in [D -> S] /\ \A y \in S : \E i \in D : one[i] = y
    BY DEF Singles, Values
  <2>2. ASSUME NEW i \in D, NEW j \in D, one[i] = one[j]
        PROVE  i = j
    <3>1. <<ts[i]>> = <<ts[j]>>
      BY <2>2
    <3>2. ts[i] = ts[j]
      BY <3>1
    <3> QED BY <3>2, <1>1 DEF Distinct
  <2> HIDE DEF one
  <2> QED BY <2>1, <2>2 DEF Bijection, Injection, IsInjective, Surjection
<1>4. IsFiniteSet(D) /\ Cardinality(D) = Len(ts)
  BY <1>1, CountingTo
<1>5. IsFiniteSet(S) /\ Cardinality(S) = Len(ts)
  <2> HIDE DEF one, S
  <2> QED BY <1>3, <1>4, FS_Bijection DEF ExistsBijection
<1>6. S \in SUBSET Tuples(1)
  BY <1>2 DEF Singles, Values, Tuples
<1>7. /\ sq \in [1..Len(ts) -> S] /\ Values(sq) = S
      /\ \A i \in 1..Len(ts) : Cardinality({y \in S : Less(y, sq[i])}) = i - 1
      /\ \A i, j \in 1..Len(ts) : i < j => Less(sq[i], sq[j])
  <2> HIDE DEF S
  <2> QED BY <1>5, <1>6, SortedTuples
<1>8. \A i \in D : one[i] = <<ts[i]>>
  OBVIOUS
<1> HIDE DEF sq, one
<1>9. ASSUME NEW i \in D
      PROVE  sq[RankOf(ts)[i]] = <<ts[i]>> /\ RankOf(ts)[i] \in 1..Len(ts)
  <2> DEFINE B == {j \in D : ts[j] < ts[i]}
             Y == {y \in S : Less(y, one[i])}
             g == [j \in B |-> one[j]]
  <2>1. \A j \in D : Less(one[j], one[i]) <=> ts[j] < ts[i]
    <3> TAKE j \in D
    <3>1. Less(<<ts[j]>>, <<ts[i]>>) <=> ts[j] < ts[i]
      BY DEF Less
    <3> QED BY <3>1, <1>8
  <2>2. g \in Bijection(B, Y)
    <3> HIDE DEF S
    <3> QED BY <1>3, <2>1 DEF Bijection, Injection, IsInjective, Surjection
  <2>3. IsFiniteSet(B)
    BY <1>4, FS_Subset
  <2>4. Cardinality(Y) = Cardinality(B) /\ Cardinality(B) \in Nat
    <3> HIDE DEF g, B, Y
    <3> QED BY <2>2, <2>3, FS_Bijection, FS_CardinalityType DEF ExistsBijection
  <2>5. RankOf(ts)[i] = Cardinality(B) + 1
    BY DEF RankOf
  <2>6. one[i] \in S
    <3> HIDE DEF S
    <3> QED BY <1>3 DEF Bijection, Injection, Surjection
  <2>7. PICK r \in 1..Len(ts) : sq[r] = one[i]
    <3> HIDE DEF S
    <3> QED BY <2>6, <1>7 DEF Values
  <2>8. Cardinality(Y) = r - 1
    BY <2>7, <1>7
  <2> HIDE DEF B, Y
  <2>9. r = RankOf(ts)[i]
    BY <2>4, <2>5, <2>8
  <2> QED BY <2>7, <2>9, <1>8
<1>10. \A i \in D : SpellOf(ts, RankOf(ts)[i]) = ts[i]
  BY <1>9 DEF SpellOf, sq
<1>11. ASSUME NEW r \in 1..Len(ts)
       PROVE  \E i \in D : sq[r] = <<ts[i]>> /\ SpellOf(ts, r) = ts[i] /\ r = RankOf(ts)[i]
  <2>1. sq[r] \in S
    BY <1>7
  <2>2. PICK i \in D : sq[r] = one[i]
    <3> HIDE DEF S
    <3> QED BY <2>1, <1>3 DEF Bijection, Surjection
  <2>3. sq[r] = <<ts[i]>> /\ SpellOf(ts, r) = ts[i]
    BY <2>2, <1>8 DEF SpellOf, sq
  <2> DEFINE s == RankOf(ts)[i]
  <2>4. s \in 1..Len(ts) /\ sq[s] = sq[r]
    BY <2>3, <1>9
  <2> HIDE DEF s
  <2>5. ~(s < r) /\ ~(r < s)
    <3>1. sq[r] \in Tuples(1) /\ ~Less(sq[r], sq[r])
      BY <1>6, <2>1, LessStrict
    <3> QED BY <3>1, <2>4, <1>7
  <2>6. s = r
    BY <2>4, <2>5
  <2> QED BY <2>3, <2>6 DEF s
<1>12. ASSUME NEW r \in 1..Len(ts), NEW s \in 1..Len(ts), r < s
       PROVE  SpellOf(ts, r) < SpellOf(ts, s)
  <2>1. PICK i \in D : sq[r] = <<ts[i]>> /\ SpellOf(ts, r) = ts[i]
    BY <1>11
  <2>2. PICK j \in D : sq[s] = <<ts[j]>> /\ SpellOf(ts, s) = ts[j]
    BY <1>11
  <2>3. Less(<<ts[i]>>, <<ts[j]>>)
    BY <2>1, <2>2, <1>7, <1>12
  <2>4. ts[i] < ts[j]
    BY <2>3 DEF Less
  <2> QED BY <2>1, <2>2, <2>4
<1>13. \A r \in 1..Len(ts) : SpellOf(ts, r) \in Nat
  BY <1>2, <1>11
<1> QED BY <1>10, <1>11, <1>12, <1>13

SpellTuple(ts, x) == [i \in DOMAIN x |-> SpellOf(ts, x[i])]

(* Spelling keeps tuples of ranks in order.                                *)
LEMMA SpellAscends ==
  ASSUME NEW ts, TermTable(ts), NEW k \in Nat,
         NEW x \in [1..k -> 1..Len(ts)], NEW y \in [1..k -> 1..Len(ts)], Less(x, y)
  PROVE  Less(SpellTuple(ts, x), SpellTuple(ts, y))
<1>1. PICK i \in 1..k : x[i] < y[i] /\ \A j \in 1..(i - 1) : x[j] = y[j]
  BY DEF Less
<1>2. x[i] \in 1..Len(ts) /\ y[i] \in 1..Len(ts)
  OBVIOUS
<1>3. SpellOf(ts, x[i]) < SpellOf(ts, y[i])
  BY <1>1, <1>2, SpellFacts
<1>4. /\ DOMAIN SpellTuple(ts, x) = 1..k
      /\ \A j \in 1..k : SpellTuple(ts, x)[j] = SpellOf(ts, x[j]) /\ SpellTuple(ts, y)[j] = SpellOf(ts, y[j])
  BY DEF SpellTuple
<1>5. \A j \in 1..(i - 1) : j \in 1..k
  OBVIOUS
<1> QED BY <1>1, <1>3, <1>4, <1>5 DEF Less

(* Spelled tuples are tuples of terms.                                     *)
LEMMA SpellTyped ==
  ASSUME NEW ts, TermTable(ts), NEW k \in Nat, NEW x \in [1..k -> 1..Len(ts)]
  PROVE  SpellTuple(ts, x) \in Tuples(k)
<1>1. \A i \in 1..k : SpellOf(ts, x[i]) \in Nat
  BY SpellFacts
<1> QED BY <1>1 DEF SpellTuple, Tuples

(* An id tuple ranked and spelled is the id tuple read through the table.  *)
LEMMA RankedTuple ==
  ASSUME NEW ts, TermTable(ts), NEW ids \in IdTuples(4, ts)
  PROVE  /\ Through(RankOf(ts), ids) \in [1..4 -> 1..Len(ts)]
         /\ SpellTuple(ts, Through(RankOf(ts), ids)) = Through(ts, ids)
<1> DEFINE x == Through(RankOf(ts), ids)
<1>1. \A i \in 1..4 : ids[i] \in DOMAIN ts
  BY DEF IdTuples
<1>2. DOMAIN ids = 1..4 /\ DOMAIN RankOf(ts) = DOMAIN ts
  BY RankFacts DEF IdTuples
<1>3. x = [i \in 1..4 |-> RankOf(ts)[ids[i]]] /\ Through(ts, ids) = [i \in 1..4 |-> ts[ids[i]]]
  BY <1>1, <1>2 DEF Through
<1> HIDE DEF x
<1>4. x \in [1..4 -> 1..Len(ts)]
  <2>1. \A i \in 1..4 : RankOf(ts)[ids[i]] \in 1..Len(ts)
    BY <1>1, RankFacts
  <2> QED BY <2>1, <1>3
<1>5. \A i \in 1..4 : SpellOf(ts, x[i]) = ts[ids[i]]
  BY <1>1, <1>3, SpellFacts
<1>6. SpellTuple(ts, x) = Through(ts, ids)
  BY <1>3, <1>4, <1>5 DEF SpellTuple
<1> QED BY <1>4, <1>6 DEF x

(* A run's ids replaced by their ranks: still ascending.                   *)
RankedRun(ts, run) == [i \in DOMAIN run |-> Through(RankOf(ts), run[i])]

(* A ranked run has the run's quads, and its order.                        *)
LEMMA RankedRunFacts ==
  ASSUME NEW ts, TermTable(ts), NEW run \in Seq(IdTuples(4, ts))
  PROVE  /\ RankedRun(ts, run) \in Seq(Tuples(4))
         /\ TermAscends(run, ts) => Ascends(RankedRun(ts, run))
         /\ Values(RankedRun(ts, run)) = {Through(RankOf(ts), ids) : ids \in Values(run)}
<1> DEFINE rr == RankedRun(ts, run)
           n == Len(run)
<1>1. n \in Nat /\ DOMAIN run = 1..n /\ \A i \in 1..n : run[i] \in IdTuples(4, ts)
  OBVIOUS
<1> HIDE DEF n
<1>2. rr = [i \in 1..n |-> Through(RankOf(ts), run[i])]
  BY <1>1 DEF RankedRun
<1> HIDE DEF rr
<1>3. \A i \in 1..n : rr[i] \in Tuples(4)
  <2> TAKE i \in 1..n
  <2>1. Through(RankOf(ts), run[i]) \in [1..4 -> 1..Len(ts)] /\ Len(ts) \in Nat
    BY <1>1, RankedTuple DEF TermTable
  <2> QED BY <2>1, <1>2, RanksAreTuples
<1>4. rr \in Seq(Tuples(4)) /\ DOMAIN rr = 1..n
  <2>1. rr \in [1..n -> Tuples(4)]
    BY <1>2, <1>3
  <2> QED BY <2>1, <1>1
<1>5. ASSUME TermAscends(run, ts), NEW i \in 1..n, NEW j \in 1..n, i < j
      PROVE  Less(rr[i], rr[j])
  <2>1. Less(Through(ts, run[i]), Through(ts, run[j]))
    BY <1>1, <1>5 DEF TermAscends
  <2>2. run[i] \in [1..4 -> DOMAIN ts] /\ run[j] \in [1..4 -> DOMAIN ts]
    BY <1>1 DEF IdTuples
  <2>3. /\ DOMAIN RankOf(ts) = DOMAIN ts
        /\ \A x \in DOMAIN ts : ts[x] \in Nat /\ RankOf(ts)[x] \in Nat
        /\ \A x, y \in DOMAIN ts : (ts[x] < ts[y]) <=> (RankOf(ts)[x] < RankOf(ts)[y])
    BY RankFacts, SMTT(30) DEF TermTable
  <2>4. Less(Through(RankOf(ts), run[i]), Through(RankOf(ts), run[j]))
    BY <2>1, <2>2, <2>3, LessThrough
  <2> QED BY <2>4, <1>2
<1>6. TermAscends(run, ts) => Ascends(rr)
  BY <1>4, <1>5 DEF Ascends
<1>7. Values(rr) = {Through(RankOf(ts), ids) : ids \in Values(run)}
  BY <1>1, <1>2 DEF Values
<1> QED BY <1>4, <1>6, <1>7 DEF rr

(* The ranked runs are ascending, and spell the quads the spiller held.    *)
LEMMA RankedRunsFacts ==
  ASSUME NEW sp, NEW ts, NEW Q, TermTable(ts), SpillHolds(sp, ts, Q)
  PROVE  LET runs == RankedRuns(sp, ts)
         IN /\ RunsAscend(runs, 4)
            /\ AllOf(runs) \subseteq [1..4 -> 1..Len(ts)]
            /\ {SpellTuple(ts, x) : x \in AllOf(runs)} = Q
<1> DEFINE runs == RankedRuns(sp, ts)
           last == IF sp.buf = <<>> THEN sp ELSE Flushed(sp, ts)
           R(ids) == Through(RankOf(ts), ids)
<1>1. sp.buf \in Seq(IdTuples(4, ts)) /\ sp.runs \in Seq(Seq(IdTuples(4, ts)))
  BY DEF SpillHolds
<1>2. \E I \in SUBSET IdTuples(4, ts) :
        /\ RunsAscend(runs, 4)
        /\ {Through(ts, ids) : ids \in I} = Q
        /\ AllOf(runs) = {R(ids) : ids \in I}
  <2>1. CASE sp.runs = <<>>
    <3> DEFINE V == Values(RankedRun(ts, sp.buf))
    <3>1. runs = <<Sorted(V)>>
      BY <2>1 DEF RankedRuns, RankedRun
    <3>2. RankedRun(ts, sp.buf) \in Seq(Tuples(4)) /\ V = {R(ids) : ids \in Values(sp.buf)}
      BY <1>1, RankedRunFacts
    <3>3. V \in SUBSET Tuples(4) /\ IsFiniteSet(V)
      <4> DEFINE rr == RankedRun(ts, sp.buf)
      <4>1. rr \in Seq(Tuples(4))
        BY <3>2
      <4>2. Len(rr) \in Nat /\ DOMAIN rr = 1..Len(rr)
        BY <4>1
      <4> HIDE DEF rr
      <4>3. Values(rr) \in SUBSET Tuples(4) /\ IsFiniteSet(Values(rr))
        BY <4>1, <4>2, ValuesFinite DEF Values
      <4> QED BY <4>3 DEF rr
    <3> DEFINE sq == Sorted(V)
    <3>4. /\ Cardinality(V) \in Nat /\ sq \in [1..Cardinality(V) -> V] /\ Values(sq) = V
          /\ \A i, j \in 1..Cardinality(V) : i < j => Less(sq[i], sq[j])
      <4> HIDE DEF V
      <4> QED BY <3>3, SortedTuples
    <3> HIDE DEF sq, V
    <3>5. sq \in Seq(Tuples(4)) /\ Ascends(sq)
      BY <3>3, <3>4 DEF Ascends
    <3>6. runs = <<sq>>
      BY <3>1 DEF sq
    <3> HIDE DEF runs
    <3>7. DOMAIN runs = {1} /\ runs[1] = sq /\ runs \in Seq(Seq(Tuples(4)))
      <4> DEFINE T == Seq(Tuples(4))
      <4>1. sq \in T
        BY <3>5
      <4> HIDE DEF T
      <4>2. DOMAIN runs = {1} /\ runs[1] = sq /\ runs \in Seq(T)
        BY <4>1, <3>6
      <4> QED BY <4>2 DEF T
    <3>8. RunsAscend(runs, 4)
      BY <3>5, <3>7 DEF RunsAscend
    <3>9. AllOf(runs) = V
      BY <3>4, <3>7 DEF AllOf
    <3>10. AllIds(sp) = Values(sp.buf)
      <4>1. DOMAIN sp.runs = {}
        BY <2>1
      <4>2. ASSUME NEW x PROVE x \in AllIds(sp) <=> x \in Values(sp.buf)
        BY <4>1, AllIdsMembers
      <4> QED BY <4>2
    <3>11. {Through(ts, ids) : ids \in Values(sp.buf)} = Q /\ Values(sp.buf) \in SUBSET IdTuples(4, ts)
      BY <3>10, <1>1, AllIdsTyped DEF SpillHolds
    <3> QED BY <3>2, <3>8, <3>9, <3>11
  <2>2. CASE sp.runs # <<>>
    <3>1. SpillHolds(last, ts, Q) /\ last.buf = <<>>
      BY SpillFlushes
    <3>2. runs = [i \in DOMAIN last.runs |-> RankedRun(ts, last.runs[i])]
      BY <2>2 DEF RankedRuns, RankedRun
    <3> HIDE DEF last, runs
    <3>3. last.buf \in Seq(IdTuples(4, ts)) /\ last.runs \in Seq(Seq(IdTuples(4, ts)))
      BY <3>1 DEF SpillHolds
    <3>4. ASSUME NEW i \in DOMAIN last.runs
          PROVE  /\ runs[i] \in Seq(Tuples(4)) /\ Ascends(runs[i])
                 /\ Values(runs[i]) = {R(ids) : ids \in Values(last.runs[i])}
      <4>1. last.runs[i] \in Seq(IdTuples(4, ts)) /\ TermAscends(last.runs[i], ts)
        BY <3>1, <3>3 DEF SpillHolds
      <4>2. runs[i] = RankedRun(ts, last.runs[i])
        BY <3>2
      <4> QED BY <4>1, <4>2, RankedRunFacts
    <3>5. DOMAIN runs = 1..Len(last.runs) /\ Len(last.runs) \in Nat /\ DOMAIN last.runs = 1..Len(last.runs)
      BY <3>2, <3>3
    <3>6. runs \in Seq(Seq(Tuples(4)))
      <4>1. runs \in [1..Len(last.runs) -> Seq(Tuples(4))]
        BY <3>2, <3>4, <3>5
      <4> QED BY <4>1, <3>5
    <3>7. RunsAscend(runs, 4)
      BY <3>4, <3>5, <3>6 DEF RunsAscend
    <3>8. AllOf(runs) = {R(ids) : ids \in AllIds(last)}
      <4>1. Values(last.buf) = {}
        BY <3>1 DEF Values
      <4>2. ASSUME NEW x \in AllOf(runs)
            PROVE  \E ids \in AllIds(last) : x = R(ids)
        <5>1. PICK i \in DOMAIN runs : x \in Values(runs[i])
          BY DEF AllOf
        <5>2. PICK ids \in Values(last.runs[i]) : x = R(ids)
          BY <5>1, <3>4, <3>5
        <5>3. ids \in AllIds(last)
          BY <5>2, <3>5, AllIdsMembers
        <5> QED BY <5>2, <5>3
      <4>3. ASSUME NEW ids \in AllIds(last)
            PROVE  R(ids) \in AllOf(runs)
        <5>1. PICK i \in DOMAIN last.runs : ids \in Values(last.runs[i])
          BY <4>1, AllIdsMembers
        <5>2. R(ids) \in Values(runs[i])
          BY <5>1, <3>4
        <5> QED BY <5>1, <5>2, <3>5 DEF AllOf
      <4> HIDE DEF R
      <4> QED BY <4>2, <4>3
    <3>9. {Through(ts, ids) : ids \in AllIds(last)} = Q /\ AllIds(last) \in SUBSET IdTuples(4, ts)
      BY <3>1, <3>3, AllIdsTyped DEF SpillHolds
    <3> QED BY <3>7, <3>8, <3>9
  <2> QED BY <2>1, <2>2
<1>3. PICK I \in SUBSET IdTuples(4, ts) : /\ RunsAscend(runs, 4)
                                          /\ {Through(ts, ids) : ids \in I} = Q
                                          /\ AllOf(runs) = {R(ids) : ids \in I}
  BY <1>2
<1>4. \A ids \in I : R(ids) \in [1..4 -> 1..Len(ts)] /\ SpellTuple(ts, R(ids)) = Through(ts, ids)
  BY RankedTuple
<1> HIDE DEF R, runs
<1>5. AllOf(runs) \subseteq [1..4 -> 1..Len(ts)]
  BY <1>3, <1>4
<1>6. {SpellTuple(ts, x) : x \in AllOf(runs)} = {Through(ts, ids) : ids \in I}
  BY <1>3, <1>4
<1> QED BY <1>3, <1>5, <1>6 DEF runs

-----------------------------------------------------------------------------
(* The inductive invariant                                                 *)

(* The quads that the runs of the merge hold, as ranks.                    *)
All == AllOf(merger.runs)

Types ==
  /\ build \in Builds /\ phase \in {"ingest", "index", "streams", "failed"}
  /\ input \in Seq(Input) /\ TermTable(terms)
  /\ ended \subseteq Streams /\ live \subseteq Streams \ ended
  /\ phase # "streams" => ended = {}
  /\ out = [x \in Streams |-> out[x]]
  /\ phase \in {"ingest", "index"} => out = [x \in Streams |-> <<>>]

(* The guard is the build's, then the streams'.                            *)
GuardInv ==
  /\ phase \in {"ingest", "index"} => live = {} /\ holders = {"build"} /\ dir
  /\ phase = "streams" => holders = live /\ (dir <=> live # {})
  /\ phase = "failed" => live = {} /\ ~dir

SpillInv == phase = "ingest" => SpillHolds(spill, terms, Values(input))

(* The runs under a merge spell the input, and the quads yielded are those *)
(* the merge has read, in order.                                           *)
QuadsInv ==
  /\ phase \in {"index", "streams"} =>
       /\ MergeInv(merger, 4)
       /\ All \subseteq [1..4 -> 1..Len(terms)]
       /\ {SpellTuple(terms, x) : x \in All} = Values(input)
  /\ phase = "streams" => StreamInv(merger, 4, out["quads"])
  /\ "quads" \in ended => Undrained(merger) = {}

BuildInv == Types /\ GuardInv /\ SpillInv /\ QuadsInv

-----------------------------------------------------------------------------
(* Constants                                                               *)

(* What is assumed of the build asked for.                                 *)
LEMMA BuildFacts ==
  ASSUME build \in Builds
  PROVE  /\ Input \subseteq Tuples(4) /\ MaxInput \in Nat /\ RunRows \in Nat \ {0} /\ OffsetMax \in Nat /\ RunRows <= OffsetMax
         /\ Families \subseteq {"o", "p", "posg", "ospg"}
         /\ "quads" \notin Families /\ "quads" \in Streams
BY BuildsAssumption DEF Input, MaxInput, RunRows, OffsetMax, Families, Streams, Tuples

(* The table a build starts with.                                          *)
LEMMA EmptyTable ==
  TermTable(<<>>)
<1>1. <<>> \in Seq(Nat) /\ DOMAIN <<>> = {}
  OBVIOUS
<1> QED BY <1>1 DEF TermTable, Distinct

(* The spiller a build starts with holds nothing.                          *)
LEMMA EmptySpill ==
  SpillHolds(NewSpill, <<>>, {})
<1> DEFINE sp == NewSpill
<1>1. sp.buf = <<>> /\ sp.runs = <<>> /\ sp.seen = <<>> /\ sp.sorts = 0 /\ IsSpill(sp)
  BY DEF NewSpill, IsSpill
<1> HIDE DEF sp
<1>2. DOMAIN <<>> = {} /\ <<>> \in Seq(IdTuples(4, <<>>)) /\ <<>> \in Seq(Seq(IdTuples(4, <<>>)))
  OBVIOUS
<1>3. Marked(sp)
  BY <1>1, <1>2, SizesAssumption DEF Marked
<1>4. AllIds(sp) = {}
  <2>1. ASSUME NEW x PROVE x \notin AllIds(sp)
    <3>1. Values(<<>>) = {}
      BY <1>2 DEF Values
    <3> QED BY <3>1, <1>1, <1>2, AllIdsMembers
  <2> QED BY <2>1
<1>5. {Through(<<>>, ids) : ids \in AllIds(sp)} = {}
  BY <1>4
<1> QED BY <1>1, <1>2, <1>3, <1>5 DEF SpillHolds, sp

-----------------------------------------------------------------------------
(* Every step keeps it                                                     *)

(* A build just begun.                                                     *)
LEMMA InitBuild ==
  ASSUME Init
  PROVE  BuildInv
<1>1. Types
  <2>1. <<>> \in Seq(Input)
    OBVIOUS
  <2> QED BY <2>1, EmptyTable DEF Init, Types
<1>2. GuardInv
  BY DEF Init, GuardInv
<1>3. SpillInv
  <2>1. Values(<<>>) = {}
    BY DEF Values
  <2> QED BY <2>1, EmptySpill DEF Init, SpillInv
<1>4. QuadsInv
  BY DEF Init, QuadsInv
<1> QED BY <1>1, <1>2, <1>3, <1>4 DEF BuildInv

(* An error drops the guard, and with it the directory.                    *)
LEMMA FailKeeps ==
  ASSUME BuildInv, phase \in {"ingest", "index"}, NEW why, Fail(why)
  PROVE  BuildInv'
<1>1. /\ phase' = "failed" /\ holders' = {} /\ ~dir'
      /\ build' = build /\ input' = input /\ terms' = terms /\ out' = out /\ ended' = ended /\ live' = live
  BY DEF Fail, Hold
<1>2. Types' /\ GuardInv' /\ SpillInv'
  BY <1>1 DEF BuildInv, Types, GuardInv, SpillInv, Input, Streams, Families
<1>3. QuadsInv'
  BY <1>1 DEF BuildInv, Types, QuadsInv
<1> QED BY <1>2, <1>3 DEF BuildInv

(* A quad interned and pushed: the runs and the buffer hold it too.        *)
LEMMA IngestKeeps ==
  ASSUME BuildInv, NEW q \in Input, Ingest(q)
  PROVE  BuildInv'
<1> DEFINE ts == InternQuad(terms, q)
           ids == [i \in 1..4 |-> IdOf(ts, q[i])]
<1>1. phase = "ingest" /\ build \in Builds /\ input \in Seq(Input) /\ TermTable(terms)
  BY DEF Ingest, BuildInv, Types
<1>2. CASE Len(ts) > TERM_CAP
  BY <1>1, <1>2, FailKeeps DEF Ingest
<1>3. CASE ~(Len(ts) > TERM_CAP)
  <2>1. /\ input' = Append(input, q) /\ terms' = ts /\ spill' = Pushed(spill, ids, ts)
        /\ UNCHANGED <<build, phase, merger, rows, entries, mergers, out, ended, live, holders, dir, error>>
    BY <1>3 DEF Ingest
  <2>2. q \in Tuples(4)
    BY <1>1, BuildFacts
  <2>3. TermTable(ts) /\ Grows(terms, ts) /\ \A i \in 1..4 : q[i] \in Values(ts)
    BY <2>2, <1>1, InternQuadFacts
  <2>4. ids \in IdTuples(4, ts) /\ Through(ts, ids) = q
    BY <2>2, <2>3, IdsSpell
  <2> HIDE DEF ts, ids
  <2>5. SpillHolds(spill, terms, Values(input))
    BY <1>1 DEF BuildInv, SpillInv
  <2>6. SpillHolds(spill, ts, Values(input))
    BY <2>3, <2>5, SpillGrows
  <2>7. SpillHolds(Pushed(spill, ids, ts), ts, Values(input) \cup {Through(ts, ids)})
    BY <2>3, <2>4, <2>6, SpillPushes
  <2>8. Values(input') = Values(input) \cup {q}
    BY <2>1, <1>1, ValuesAppend
  <2>9. SpillInv'
    BY <2>1, <2>4, <2>7, <2>8 DEF SpillInv
  <2>10. input' \in Seq(Input)
    BY <2>1, <1>1
  <2>11. Types'
    BY <2>1, <2>3, <2>10 DEF BuildInv, Types, Input, Streams, Families
  <2>12. GuardInv' /\ QuadsInv'
    BY <2>1, <1>1 DEF BuildInv, Types, GuardInv, QuadsInv
  <2> QED BY <2>9, <2>11, <2>12 DEF BuildInv
<1> QED BY <1>2, <1>3

(* Runs that spell the input, as a merge starts.                           *)
GoodRuns(runs) ==
  /\ RunsAscend(runs, 4)
  /\ AllOf(runs) \subseteq [1..4 -> 1..Len(terms)]
  /\ {SpellTuple(terms, x) : x \in AllOf(runs)} = Values(input)

(* The streams start over runs that spell the input, each holding the      *)
(* guard.                                                                  *)
LEMMA StartKeeps ==
  ASSUME BuildInv, phase \in {"ingest", "index"}, NEW runs, GoodRuns(runs), StartStreams(runs)
  PROVE  BuildInv'
<1>1. /\ phase' = "streams" /\ merger' = NewMerger(runs) /\ live' = Streams /\ holders' = Streams
      /\ dir' = (dir /\ Streams # {})
      /\ UNCHANGED <<build, input, terms, rows, out, ended, error>>
  BY DEF StartStreams, Hold
<1>2. "quads" \in Streams /\ ended = {} /\ dir /\ out = [x \in Streams |-> <<>>] /\ build \in Builds
  BY BuildFacts DEF BuildInv, Types, GuardInv
<1>3. Types' /\ SpillInv'
  BY <1>1, <1>2 DEF BuildInv, Types, SpillInv, Input, Streams, Families
<1>4. GuardInv'
  BY <1>1, <1>2 DEF GuardInv
<1>5. MergeInv(merger', 4) /\ Yielded(merger') = {} /\ merger'.runs = runs
  BY <1>1, NewMergeInv DEF GoodRuns
<1>6. StreamInv(merger', 4, out'["quads"])
  <2>1. out'["quads"] = <<>>
    BY <1>1, <1>2
  <2>2. <<>> \in Seq(Tuples(4)) /\ Ascends(<<>>) /\ Values(<<>>) = {}
    BY DEF Ascends, Values
  <2> QED BY <2>1, <2>2, <1>5 DEF StreamInv
<1>7. All' = AllOf(runs)
  BY <1>5 DEF All
<1>8. QuadsInv'
  BY <1>1, <1>2, <1>5, <1>6, <1>7 DEF QuadsInv, GoodRuns
<1> QED BY <1>3, <1>4, <1>8 DEF BuildInv

(* The input's end: the last flush, and ranks for ids.                     *)
LEMMA FreezeKeeps ==
  ASSUME BuildInv, Freeze
  PROVE  BuildInv'
<1> DEFINE runs == RankedRuns(spill, terms)
<1>1. phase = "ingest" /\ TermTable(terms) /\ SpillHolds(spill, terms, Values(input))
  BY DEF Freeze, BuildInv, Types, SpillInv
<1>2. GoodRuns(runs)
  BY <1>1, RankedRunsFacts DEF GoodRuns
<1>3. CASE Families = {}
  <2>1. StartStreams(runs)
    BY <1>3 DEF Freeze
  <2> HIDE DEF runs
  <2> QED BY <2>1, <1>1, <1>2, StartKeeps
<1>4. CASE Families # {}
  <2>1. /\ phase' = "index" /\ merger' = NewMerger(runs)
        /\ UNCHANGED <<build, input, terms, rows, entries, mergers, out, ended, live, holders, dir, error>>
    BY <1>4 DEF Freeze
  <2> HIDE DEF runs
  <2>2. MergeInv(merger', 4) /\ merger'.runs = runs
    BY <2>1, <1>2, NewMergeInv DEF GoodRuns
  <2>3. All' = AllOf(runs)
    BY <2>2 DEF All
  <2>4. Types' /\ GuardInv' /\ SpillInv'
    BY <2>1, <1>1 DEF BuildInv, Types, GuardInv, SpillInv, Input, Streams, Families
  <2>5. QuadsInv'
    BY <2>1, <2>2, <2>3, <1>1, <1>2 DEF BuildInv, Types, QuadsInv, GoodRuns
  <2> QED BY <2>4, <2>5 DEF BuildInv
<1> QED BY <1>3, <1>4

(* A turn of the first merge.                                              *)
LEMMA IndexRowKeeps ==
  ASSUME BuildInv, IndexRow
  PROVE  BuildInv'
<1>1. phase = "index" /\ Undrained(merger) # {}
  BY DEF IndexRow
<1>2. CASE phase' = "failed"
  <2>1. Fail("rows") \/ Fail("offset")
    BY <1>1, <1>2 DEF IndexRow
  <2> QED BY <2>1, <1>1, FailKeeps
<1>3. CASE phase' # "failed"
  <2>1. /\ merger' = Refilled(merger)
        /\ UNCHANGED <<build, phase, live, holders, dir, error, out, ended, mergers, input, terms, spill>>
    BY <1>3 DEF IndexRow, Fail
  <2>2. MergeInv(merger, 4)
    BY <1>1 DEF BuildInv, QuadsInv
  <2>3. MergeInv(merger', 4) /\ merger'.runs = merger.runs
    BY <2>1, <2>2, <1>1, RefilledFacts
  <2>4. All' = All
    BY <2>3 DEF All
  <2>5. Types' /\ GuardInv' /\ SpillInv'
    BY <2>1, <1>1 DEF BuildInv, Types, GuardInv, SpillInv, Input, Streams, Families
  <2>6. QuadsInv'
    BY <2>1, <2>3, <2>4, <1>1 DEF BuildInv, Types, QuadsInv
  <2> QED BY <2>5, <2>6 DEF BuildInv
<1> QED BY <1>2, <1>3

(* The first merge's end: the second starts over the same runs.            *)
LEMMA IndexEndKeeps ==
  ASSUME BuildInv, IndexEnd
  PROVE  BuildInv'
<1>1. phase = "index" /\ (Fail("offset") \/ StartStreams(merger.runs))
  BY DEF IndexEnd
<1>2. GoodRuns(merger.runs)
  BY <1>1 DEF BuildInv, QuadsInv, MergeInv, MergerTyped, GoodRuns, All
<1> QED BY <1>1, <1>2, FailKeeps, StartKeeps

(* A turn of the quads' stream.                                            *)
LEMMA PollQuadsKeeps ==
  ASSUME BuildInv, PollQuads
  PROVE  BuildInv'
<1>1. /\ phase = "streams" /\ "quads" \in live /\ Undrained(merger) # {}
      /\ merger' = Refilled(merger)
      /\ out' = IF Repeats(merger) THEN out ELSE [out EXCEPT !["quads"] = Append(@, Item(merger))]
      /\ UNCHANGED <<build, phase, input, terms, spill, rows, entries, mergers, ended, live, holders, dir, error>>
  BY DEF PollQuads, Turn
<1>2. /\ out = [x \in Streams |-> out[x]] /\ "quads" \in Streams /\ live \subseteq Streams \ ended
      /\ build \in Builds
  BY BuildFacts DEF BuildInv, Types
<1>3. /\ out'["quads"] = IF Repeats(merger) THEN out["quads"] ELSE Append(out["quads"], Item(merger))
      /\ out' = [x \in Streams |-> out'[x]]
  BY <1>1, <1>2
<1>4. MergeInv(merger, 4) /\ StreamInv(merger, 4, out["quads"])
  BY <1>1 DEF BuildInv, QuadsInv
<1>5. StreamInv(merger', 4, out'["quads"])
  <2>1. StreamInv(Refilled(merger), 4, IF Repeats(merger) THEN out["quads"] ELSE Append(out["quads"], Item(merger)))
    BY <1>1, <1>4, StreamTurns
  <2> QED BY <2>1, <1>1, <1>3
<1>6. MergeInv(merger', 4) /\ merger'.runs = merger.runs
  BY <1>1, <1>4, RefilledFacts
<1>7. All' = All
  BY <1>6 DEF All
<1>8. Types' /\ GuardInv' /\ SpillInv'
  BY <1>1, <1>3 DEF BuildInv, Types, GuardInv, SpillInv, Input, Streams, Families
<1>9. QuadsInv'
  BY <1>1, <1>2, <1>5, <1>6, <1>7 DEF BuildInv, QuadsInv
<1> QED BY <1>8, <1>9 DEF BuildInv

(* A turn of a family's stream.                                            *)
LEMMA PollFamilyKeeps ==
  ASSUME BuildInv, NEW f \in Families, PollFamily(f)
  PROVE  BuildInv'
<1>1. /\ phase = "streams" /\ f \in live
      /\ out' = IF Repeats(mergers[f]) THEN out ELSE [out EXCEPT ![f] = Append(@, Item(mergers[f]))]
      /\ UNCHANGED <<build, phase, input, terms, spill, rows, merger, entries, ended, live, holders, dir, error>>
  BY DEF PollFamily, Turn
<1>2. out = [x \in Streams |-> out[x]] /\ "quads" \in Streams /\ f # "quads" /\ build \in Builds
  BY BuildFacts DEF BuildInv, Types
<1>3. out'["quads"] = out["quads"] /\ out' = [x \in Streams |-> out'[x]]
  BY <1>1, <1>2
<1>4. Types' /\ GuardInv' /\ SpillInv'
  BY <1>1, <1>3 DEF BuildInv, Types, GuardInv, SpillInv, Input, Streams, Families
<1>5. QuadsInv'
  BY <1>1, <1>3 DEF BuildInv, QuadsInv, All
<1> QED BY <1>4, <1>5 DEF BuildInv

(* A stream that ends, or is dropped, gives up its share of the guard.     *)
LEMMA LeaveKeeps ==
  ASSUME BuildInv, NEW x \in Streams, EndStream(x) \/ DropStream(x)
  PROVE  BuildInv'
<1>1. /\ phase = "streams" /\ x \in live
      /\ live' = live \ {x} /\ holders' = holders \ {x} /\ dir' = (dir /\ holders' # {})
      /\ UNCHANGED <<build, phase, input, terms, spill, merger, rows, entries, mergers, out, error>>
      /\ \/ ended' = ended \cup {x} /\ (x = "quads" => Undrained(merger) = {})
         \/ ended' = ended
  BY DEF EndStream, DropStream, Hold
<1>2. ended' \subseteq Streams /\ live' \subseteq Streams \ ended'
  BY <1>1 DEF BuildInv, Types
<1>3. Types' /\ SpillInv'
  BY <1>1, <1>2 DEF BuildInv, Types, SpillInv, Input, Streams, Families
<1>4. GuardInv'
  BY <1>1 DEF BuildInv, GuardInv
<1>5. QuadsInv'
  BY <1>1 DEF BuildInv, QuadsInv, All
<1> QED BY <1>3, <1>4, <1>5 DEF BuildInv

(* Every step keeps the build's invariant.                                 *)
LEMMA NextBuild ==
  ASSUME BuildInv, [Next]_vars
  PROVE  BuildInv'
<1>1. CASE \E q \in Input : Ingest(q)
  BY <1>1, IngestKeeps
<1>2. CASE Freeze
  BY <1>2, FreezeKeeps
<1>3. CASE IndexRow
  BY <1>3, IndexRowKeeps
<1>4. CASE IndexEnd
  BY <1>4, IndexEndKeeps
<1>5. CASE PollQuads
  BY <1>5, PollQuadsKeeps
<1>6. CASE Abort
  BY <1>6, FailKeeps DEF Abort
<1>7. CASE \E f \in Families : PollFamily(f)
  BY <1>7, PollFamilyKeeps
<1>8. CASE \E x \in Streams : EndStream(x) \/ DropStream(x)
  BY <1>8, LeaveKeeps
<1>9. CASE UNCHANGED vars
  BY <1>9 DEF vars, BuildInv, Types, GuardInv, SpillInv, QuadsInv, All, Input, Streams, Families
<1> QED BY <1>1, <1>2, <1>3, <1>4, <1>5, <1>6, <1>7, <1>8, <1>9 DEF Next

(* Every reachable state of a build satisfies the invariant.               *)
LEMMA AlwaysBuildInv ==
  Spec => []BuildInv
<1>1. Init => BuildInv
  BY InitBuild
<1>2. BuildInv /\ [Next]_vars => BuildInv'
  BY NextBuild
<1> QED BY <1>1, <1>2, PTL DEF Spec

-----------------------------------------------------------------------------
(* What it gives                                                           *)

(* The run directory is there as long as a stream may read it, and goes    *)
(* with the last one or with a build that fails.                           *)
THEOREM RunsGoWithReaders ==
  Spec => []RunsFollowReaders
<1>1. BuildInv => RunsFollowReaders
  BY DEF BuildInv, Types, GuardInv, RunsFollowReaders
<1> QED BY <1>1, AlwaysBuildInv, PTL

(* Through every flush, and every reuse and wrap of the sort's scratch,    *)
(* runs and buffer hold the quads ingested, each run strictly ascending.   *)
THEOREM RunsKeepInput ==
  Spec => []RunsHoldInput
<1>1. ASSUME BuildInv, phase = "ingest"
      PROVE  RunsHoldInput
  <2> DEFINE all == AllIds(spill)
  <2>1. SpillHolds(spill, terms, Values(input))
    BY <1>1 DEF BuildInv, SpillInv
  <2>2. /\ spill.buf \in Seq(IdTuples(4, terms)) /\ spill.runs \in Seq(Seq(IdTuples(4, terms)))
        /\ {Through(terms, ids) : ids \in all} = Values(input)
    BY <2>1 DEF SpillHolds
  <2>3. all \subseteq IdTuples(4, terms)
    BY <2>2, AllIdsTyped
  <2>4. \A ids \in all : \A k \in 1..4 : ids[k] \in DOMAIN terms
    BY <2>3 DEF IdTuples
  <2>5. ASSUME NEW i \in DOMAIN spill.runs, NEW j \in 2..Len(spill.runs[i])
        PROVE  Less(Through(terms, spill.runs[i][j - 1]), Through(terms, spill.runs[i][j]))
    <3>1. spill.runs[i] \in Seq(IdTuples(4, terms)) /\ TermAscends(spill.runs[i], terms)
      BY <2>1, <2>2 DEF SpillHolds
    <3>2. j - 1 \in DOMAIN spill.runs[i] /\ j \in DOMAIN spill.runs[i] /\ j - 1 < j
      BY <3>1
    <3> QED BY <3>1, <3>2 DEF TermAscends
  <2> QED BY <2>2, <2>4, <2>5 DEF RunsHoldInput, AllIds
<1>2. BuildInv => RunsHoldInput
  BY <1>1 DEF RunsHoldInput
<1> QED BY <1>2, AlwaysBuildInv, PTL

(* Rows, spelled: the ranks of a table's terms.                            *)
LEMMA SpelledIs ==
  ASSUME NEW r
  PROVE  Spelled(r) = SpellOf(terms, r)
BY DEF Spelled, SortedTerms, SpellOf, Sorted, SortedBy, Singles

(* What a merge of good runs has yielded when it ends, spelled, is the     *)
(* in-memory build's order of the input.                                   *)
LEMMA SpelledRows ==
  ASSUME BuildInv, phase \in {"index", "streams"}, NEW m \in Nat, NEW sq \in [1..m -> All],
         Values(sq) = All, Ascends(sq)
  PROVE  [i \in 1..m |-> SpellTuple(terms, sq[i])] = InMemoryRows
<1> DEFINE sp == [i \in 1..m |-> SpellTuple(terms, sq[i])]
           S == Values(input)
<1>1. TermTable(terms) /\ All \subseteq [1..4 -> 1..Len(terms)] /\ {SpellTuple(terms, x) : x \in All} = S
  BY DEF BuildInv, Types, QuadsInv
<1>2. \A x \in All : SpellTuple(terms, x) \in Tuples(4)
  BY <1>1, SpellTyped
<1>3. \A i \in 1..m : sq[i] \in All
  OBVIOUS
<1>4. S \in SUBSET Tuples(4)
  BY <1>1, <1>2
<1>5. sp \in [1..m -> S]
  <2>1. \A i \in 1..m : SpellTuple(terms, sq[i]) \in S
    BY <1>1, <1>3
  <2> HIDE DEF S
  <2> QED BY <2>1
<1>6. Values(sp) = S
  <2>1. ASSUME NEW y \in S PROVE y \in Values(sp)
    <3>1. PICK x \in All : y = SpellTuple(terms, x)
      BY <1>1
    <3>2. PICK i \in 1..m : x = sq[i]
      BY DEF Values
    <3> QED BY <3>1, <3>2 DEF Values
  <2>2. Values(sp) \subseteq S
    <3> HIDE DEF S
    <3>1. \A i \in 1..m : sp[i] \in S
      BY <1>5
    <3> QED BY <3>1 DEF Values
  <2> QED BY <2>1, <2>2
<1>7. Ascends(sp)
  <2> SUFFICES ASSUME NEW i \in 1..m, NEW j \in 1..m, i < j
               PROVE  Less(SpellTuple(terms, sq[i]), SpellTuple(terms, sq[j]))
    BY DEF Ascends
  <2>1. Less(sq[i], sq[j])
    BY DEF Ascends
  <2>2. sq[i] \in [1..4 -> 1..Len(terms)] /\ sq[j] \in [1..4 -> 1..Len(terms)]
    BY <1>1, <1>3
  <2> QED BY <2>1, <2>2, <1>1, SpellAscends
<1> HIDE DEF sp, S
<1>8. sp = Sorted(S)
  BY <1>4, <1>5, <1>6, <1>7, AscendingTuples
<1> QED BY <1>8 DEF InMemoryRows, sp, S

(* The out-of-core build yields the in-memory build's rows: every distinct *)
(* quad of the input once, in order, whatever runs the input falls into.   *)
THEOREM QuadsAgree ==
  Spec => []BuildersAgree
<1>1. ASSUME BuildInv, "quads" \in ended
      PROVE  BuildersAgree
  <2> DEFINE o == out["quads"]
             m == Len(o)
  <2>1. phase = "streams" /\ Undrained(merger) = {}
    BY <1>1 DEF BuildInv, Types, QuadsInv
  <2>2. StreamInv(merger, 4, o)
    BY <2>1, <1>1 DEF BuildInv, QuadsInv
  <2>3. o \in Seq(Tuples(4)) /\ Ascends(o) /\ Values(o) = All
    BY <2>1, <2>2, StreamEnds DEF StreamInv, All
  <2> HIDE DEF o
  <2>4. m \in Nat /\ DOMAIN o = 1..m /\ o \in [1..m -> All]
    <3>1. m \in Nat /\ DOMAIN o = 1..m /\ o = [i \in 1..m |-> o[i]]
      BY <2>3
    <3>2. \A i \in 1..m : o[i] \in All
      BY <3>1, <2>3 DEF Values
    <3> QED BY <3>1, <3>2
  <2> HIDE DEF m
  <2>5. [i \in 1..m |-> SpellTuple(terms, o[i])] = InMemoryRows
    BY <2>1, <2>3, <2>4, <1>1, SpelledRows
  <2>6. \A i \in 1..m : [k \in 1..4 |-> Spelled(o[i][k])] = SpellTuple(terms, o[i])
    <3> TAKE i \in 1..m
    <3>1. DOMAIN o[i] = 1..4
      BY <2>3, <2>4 DEF Tuples
    <3>2. \A k \in 1..4 : Spelled(o[i][k]) = SpellOf(terms, o[i][k])
      BY SpelledIs
    <3> QED BY <3>1, <3>2 DEF SpellTuple
  <2>7. [i \in DOMAIN o |-> [k \in 1..4 |-> Spelled(o[i][k])]] = InMemoryRows
    BY <2>4, <2>5, <2>6
  <2> QED BY <2>7 DEF BuildersAgree, o
<1>2. BuildInv => BuildersAgree
  BY <1>1 DEF BuildersAgree
<1> QED BY <1>2, AlwaysBuildInv, PTL

-----------------------------------------------------------------------------
(* EntrySpiller                                                            *)

AllFamilies == {"o", "p", "posg", "ospg"}
Width(f) == IF f \in {"o", "p"} THEN 3 ELSE 5

(* A family's entry is a tuple of the family's width that carries its row  *)
(* id.                                                                     *)
LEMMA EntryFacts ==
  ASSUME NEW f \in AllFamilies, NEW x \in Tuples(4), NEW rid \in Nat
  PROVE  /\ Entry(f, x, rid) \in Tuples(Width(f)) /\ Entry(f, x, rid)[RidAt(f)] = rid
         /\ RidAt(f) \in 1..Width(f) /\ Width(f) \in Nat \ {0}
<1>1. x[1] \in Nat /\ x[2] \in Nat /\ x[3] \in Nat /\ x[4] \in Nat
  BY DEF Tuples
<1>2. CASE f = "o"
  BY <1>1, <1>2 DEF Entry, RidAt, Width, Tuples
<1>3. CASE f = "p"
  BY <1>1, <1>3 DEF Entry, RidAt, Width, Tuples
<1>4. CASE f = "posg"
  BY <1>1, <1>4 DEF Entry, RidAt, Width, Tuples
<1>5. CASE f = "ospg"
  BY <1>1, <1>5 DEF Entry, RidAt, Width, Tuples
<1> QED BY <1>2, <1>3, <1>4, <1>5 DEF AllFamilies

(* Where the row id stands.                                                *)
LEMMA RidFacts ==
  ASSUME NEW f
  PROVE  RidAt(f) \in 1..Width(f) /\ Width(f) \in Nat \ {0}
BY DEF RidAt, Width

(* Entries whose rows are numbered one after the other from base on.       *)
Numbered(f, buf, base) ==
  /\ buf \in Seq(Tuples(Width(f)))
  /\ \A i \in 1..Len(buf) : buf[i][RidAt(f)] = base + (i - 1)

(* The first row of consecutive ones is the least, and the rest are as     *)
(* near as the buffer is long.                                             *)
LEMMA FirstRowFacts ==
  ASSUME NEW f, NEW base \in Nat, NEW buf, Numbered(f, buf, base)
  PROVE  /\ buf # <<>> => FirstRow(f, buf) = base
         /\ \A e \in Values(buf) : /\ e \in Tuples(Width(f)) /\ e[RidAt(f)] \in Nat
                                   /\ base <= e[RidAt(f)] /\ e[RidAt(f)] <= base + Len(buf)
<1> DEFINE p == RidAt(f)
<1>1. Len(buf) \in Nat /\ DOMAIN buf = 1..Len(buf) /\ buf \in Seq(Tuples(Width(f)))
  BY DEF Numbered
<1>2. ASSUME NEW i \in 1..Len(buf)
      PROVE  buf[i] \in Tuples(Width(f)) /\ buf[i][p] \in Nat /\ base <= buf[i][p] /\ buf[i][p] <= base + Len(buf)
  <2>1. buf[i] \in Tuples(Width(f)) /\ buf[i][p] = base + (i - 1)
    BY <1>1 DEF Numbered
  <2> DEFINE r == buf[i][p]
             n == Len(buf)
  <2>2. r = base + (i - 1) /\ n \in Nat /\ i \in 1..n
    BY <2>1, <1>1
  <2> HIDE DEF r, n
  <2>3. r \in Nat /\ base <= r /\ r <= base + n
    BY <2>2
  <2> QED BY <2>1, <2>3 DEF r, n
<1>3. \A e \in Values(buf) : e \in Tuples(Width(f)) /\ e[p] \in Nat /\ base <= e[p] /\ e[p] <= base + Len(buf)
  BY <1>1, <1>2 DEF Values
<1>4. ASSUME buf # <<>>
      PROVE  FirstRow(f, buf) = base
  <2>1. 1 \in 1..Len(buf)
    BY <1>1, <1>4
  <2>2. buf[1] \in Values(buf) /\ buf[1][p] = base
    BY <2>1, <1>1 DEF Values, Numbered
  <2> DEFINE R == {e[p] : e \in Values(buf)}
             Least(r) == \A e \in Values(buf) : r <= e[p]
  <2>3. base \in R /\ Least(base)
    BY <2>2, <1>3
  <2>4. \A r \in R : Least(r) => r = base
    <3> TAKE r \in R
    <3>1. r \in Nat /\ base <= r
      BY <1>3
    <3>2. Least(r) => r <= base
      BY <2>2
    <3> QED BY <3>1, <3>2
  <2>5. FirstRow(f, buf) = CHOOSE r \in R : Least(r)
    BY DEF FirstRow
  <2> HIDE DEF R, Least
  <2> QED BY <2>3, <2>4, <2>5
<1> QED BY <1>3, <1>4

(* A run read back is the buffer sorted.                                   *)
LEMMA RunReadsBack ==
  ASSUME NEW f, NEW base \in Nat, NEW buf, Numbered(f, buf, base), buf # <<>>
  PROVE  /\ EntryRun(f, buf) \in [first : Nat, recs : Seq(Tuples(Width(f)))]
         /\ ReadBack(f, EntryRun(f, buf)) = Sorted(Values(buf))
<1> DEFINE p == RidAt(f)
           w == Width(f)
           V == Values(buf)
           sq == Sorted(V)
           n == Cardinality(V)
           recs == [i \in DOMAIN sq |-> [sq[i] EXCEPT ![p] = @ - base]]
<1>1. \A e \in V : e \in Tuples(w) /\ e[p] \in Nat /\ base <= e[p]
  BY FirstRowFacts
<1>2. V \in SUBSET Tuples(w) /\ IsFiniteSet(V) /\ w \in Nat /\ p \in 1..w
  <2>1. Len(buf) \in Nat /\ DOMAIN buf = 1..Len(buf)
    BY DEF Numbered
  <2> QED BY <2>1, <1>1, ValuesFinite, RidFacts
<1> HIDE DEF V, w, p
<1>3. n \in Nat /\ sq \in [1..n -> V]
  BY <1>2, SortedTuples
<1>4. EntryRun(f, buf) = [first |-> base, recs |-> recs]
  BY FirstRowFacts DEF EntryRun, V, p
<1> HIDE DEF sq, n
<1>5. DOMAIN sq = 1..n /\ \A i \in 1..n : sq[i] \in V
  BY <1>3
<1>6. ASSUME NEW e \in V
      PROVE  /\ [e EXCEPT ![p] = @ - base] \in Tuples(w)
             /\ [[e EXCEPT ![p] = @ - base] EXCEPT ![p] = @ + base] = e
  <2> DEFINE r == e[p]
  <2>1. r \in Nat /\ base <= r /\ e \in [1..w -> Nat]
    BY <1>1 DEF Tuples
  <2>2. r - base \in Nat /\ (r - base) + base = r
    <3> HIDE DEF r
    <3> QED BY <2>1
  <2> DEFINE e1 == [e EXCEPT ![p] = r - base]
  <2>3. e1 \in [1..w -> Nat] /\ e1[p] = r - base /\ \A k \in 1..w : k # p => e1[k] = e[k]
    BY <2>1, <2>2, <1>2
  <2> DEFINE e2 == [e1 EXCEPT ![p] = e1[p] + base]
  <2>4. \A k \in 1..w : e2[k] = e[k]
    BY <2>2, <2>3, <1>2
  <2>5. e2 = [k \in 1..w |-> e2[k]] /\ e = [k \in 1..w |-> e[k]]
    BY <2>1, <2>3
  <2>6. e2 = e
    <3> HIDE DEF e2
    <3> QED BY <2>4, <2>5
  <2> QED BY <2>3, <2>6 DEF Tuples
<1>7. recs \in [1..n -> Tuples(w)]
  BY <1>5, <1>6
<1>8. recs \in Seq(Tuples(w))
  BY <1>3, <1>7
<1>9. ReadBack(f, [first |-> base, recs |-> recs]) = [i \in 1..n |-> [recs[i] EXCEPT ![p] = @ + base]]
  BY <1>5 DEF ReadBack, p
<1>10. \A i \in 1..n : [recs[i] EXCEPT ![p] = @ + base] = sq[i]
  BY <1>5, <1>6
<1>11. ReadBack(f, [first |-> base, recs |-> recs]) = sq
  <2> HIDE DEF recs
  <2> QED BY <1>3, <1>9, <1>10
<1> HIDE DEF recs
<1> QED BY <1>4, <1>8, <1>11 DEF sq, V, w

(* What a family's spiller holds after n rows: a buffer of at most cap of  *)
(* the latest rows in turn, runs that read back ascending, and between     *)
(* them the entries E.                                                     *)
EntriesIn(f, sp) == (UNION {Values(ReadBack(f, sp.runs[i])) : i \in DOMAIN sp.runs}) \cup Values(sp.buf)

EntryHolds(f, sp, E, n, cap) ==
  /\ sp = [buf |-> sp.buf, runs |-> sp.runs]
  /\ Len(sp.buf) <= cap /\ Len(sp.buf) <= n
  /\ Numbered(f, sp.buf, n - Len(sp.buf))
  /\ sp.runs \in Seq([first : Nat, recs : Seq(Tuples(Width(f)))])
  /\ \A i \in DOMAIN sp.runs : ReadBack(f, sp.runs[i]) \in Seq(Tuples(Width(f))) /\ Ascends(ReadBack(f, sp.runs[i]))
  /\ EntriesIn(f, sp) = E

(* An entry a spiller holds is in one of its runs, read back, or in its    *)
(* buffer.                                                                 *)
LEMMA EntriesInMembers ==
  ASSUME NEW f, NEW sp, NEW x
  PROVE  x \in EntriesIn(f, sp) <=>
           x \in Values(sp.buf) \/ \E i \in DOMAIN sp.runs : x \in Values(ReadBack(f, sp.runs[i]))
BY DEF EntriesIn

(* The buffer of an entry spiller.                                         *)
LEMMA BufferFacts ==
  ASSUME build \in Builds, NEW f, NEW sp, NEW E, NEW n \in Nat, EntryHolds(f, sp, E, n, RunRows)
  PROVE  /\ sp.buf \in Seq(Tuples(Width(f))) /\ Len(sp.buf) \in Nat /\ DOMAIN sp.buf = 1..Len(sp.buf)
         /\ n - Len(sp.buf) \in Nat
BY DEF EntryHolds, Numbered

(* Offsets in a run never pass the buffer's size, so they always fit.      *)
LEMMA OffsetsAlwaysFit ==
  ASSUME build \in Builds, NEW f, NEW sp, NEW E, NEW n \in Nat, EntryHolds(f, sp, E, n, RunRows)
  PROVE  OffsetsFit(f, sp.buf)
<1> DEFINE b == n - Len(sp.buf)
           l == Len(sp.buf)
<1>1. b \in Nat /\ Numbered(f, sp.buf, b) /\ l <= RunRows /\ l \in Nat
  BY BufferFacts DEF EntryHolds
<1>2. RunRows \in Nat /\ RunRows <= OffsetMax
  BY BuildFacts
<1> HIDE DEF b
<1>3. ASSUME NEW e \in Values(sp.buf)
      PROVE  FirstRow(f, sp.buf) <= e[RidAt(f)] /\ e[RidAt(f)] <= FirstRow(f, sp.buf) + OffsetMax
  <2>1. sp.buf # <<>>
    BY DEF Values
  <2>2. FirstRow(f, sp.buf) = b
    BY <2>1, <1>1, FirstRowFacts
  <2>3. e[RidAt(f)] \in Nat /\ b <= e[RidAt(f)] /\ e[RidAt(f)] <= b + l
    BY <1>1, FirstRowFacts
  <2> DEFINE r == e[RidAt(f)]
             o == OffsetMax
             q == RunRows
  <2> HIDE DEF r, l, o, q
  <2>4. o \in Nat
    BY BuildFacts DEF o
  <2> QED BY <2>2, <2>3, <2>4, <1>1, <1>2 DEF r, o, q
<1> QED BY <1>3 DEF OffsetsFit

(* A buffer sorted is an ascending run of its entries.                     *)
LEMMA SortedBuffer ==
  ASSUME NEW w \in Nat, NEW buf \in Seq(Tuples(w))
  PROVE  LET sq == Sorted(Values(buf))
         IN sq \in Seq(Tuples(w)) /\ Ascends(sq) /\ Values(sq) = Values(buf)
<1> DEFINE V == Values(buf)
           sq == Sorted(V)
           c == Cardinality(V)
<1>1. V \in SUBSET Tuples(w) /\ IsFiniteSet(V)
  <2>1. Len(buf) \in Nat /\ DOMAIN buf = 1..Len(buf)
    OBVIOUS
  <2> QED BY <2>1, ValuesFinite DEF Values
<1> HIDE DEF V
<1>2. /\ c \in Nat /\ sq \in [1..c -> V] /\ Values(sq) = V
      /\ \A i, j \in 1..c : i < j => Less(sq[i], sq[j])
  BY <1>1, SortedTuples
<1> HIDE DEF sq, c
<1>3. sq \in Seq(Tuples(w)) /\ Ascends(sq)
  BY <1>1, <1>2 DEF Ascends
<1> QED BY <1>2, <1>3 DEF V, sq

(* Runs that read back ascending, and hold the entries E.                  *)
EntryRuns(f, runs, E) ==
  /\ runs \in Seq([first : Nat, recs : Seq(Tuples(Width(f)))])
  /\ \A i \in DOMAIN runs : ReadBack(f, runs[i]) \in Seq(Tuples(Width(f))) /\ Ascends(ReadBack(f, runs[i]))
  /\ \A x : x \in E <=> \E i \in DOMAIN runs : x \in Values(ReadBack(f, runs[i]))

(* The runs with the buffer's added hold everything.                       *)
LEMMA RunsWithBuffer ==
  ASSUME build \in Builds, NEW f, NEW sp, NEW E, NEW n \in Nat, EntryHolds(f, sp, E, n, RunRows), sp.buf # <<>>
  PROVE  EntryRuns(f, Append(sp.runs, EntryRun(f, sp.buf)), E)
<1> DEFINE w == Width(f)
           T == [first : Nat, recs : Seq(Tuples(w))]
           er == EntryRun(f, sp.buf)
           runs == Append(sp.runs, er)
           l == Len(sp.runs)
<1>1. n - Len(sp.buf) \in Nat /\ Numbered(f, sp.buf, n - Len(sp.buf)) /\ sp.buf \in Seq(Tuples(w)) /\ w \in Nat
  BY BufferFacts, RidFacts DEF EntryHolds
<1>2. er \in T /\ ReadBack(f, er) = Sorted(Values(sp.buf))
  BY <1>1, RunReadsBack
<1>3. ReadBack(f, er) \in Seq(Tuples(w)) /\ Ascends(ReadBack(f, er)) /\ Values(ReadBack(f, er)) = Values(sp.buf)
  BY <1>1, <1>2, SortedBuffer
<1>4. /\ sp.runs \in Seq(T) /\ EntriesIn(f, sp) = E
      /\ \A i \in DOMAIN sp.runs : ReadBack(f, sp.runs[i]) \in Seq(Tuples(w)) /\ Ascends(ReadBack(f, sp.runs[i]))
  BY DEF EntryHolds
<1> HIDE DEF er, T, w
<1>5. /\ runs \in Seq(T) /\ l \in Nat /\ DOMAIN sp.runs = 1..l /\ DOMAIN runs = 1..(l + 1)
      /\ runs[l + 1] = er /\ \A i \in 1..l : runs[i] = sp.runs[i]
  BY <1>2, <1>4
<1> HIDE DEF l, runs
<1>6. (\A i \in 1..(l + 1) : i \in 1..l \/ i = l + 1) /\ (\A i \in 1..l : i \in 1..(l + 1)) /\ l + 1 \in 1..(l + 1)
  BY <1>5
<1>7. \A i \in DOMAIN runs : ReadBack(f, runs[i]) \in Seq(Tuples(w)) /\ Ascends(ReadBack(f, runs[i]))
  BY <1>3, <1>4, <1>5, <1>6
<1>8. ASSUME NEW x
      PROVE  x \in E <=> \E i \in DOMAIN runs : x \in Values(ReadBack(f, runs[i]))
  <2>1. x \in E <=> x \in Values(sp.buf) \/ \E i \in DOMAIN sp.runs : x \in Values(ReadBack(f, sp.runs[i]))
    BY <1>4, EntriesInMembers
  <2> QED BY <2>1, <1>3, <1>5, <1>6
<1>9. EntryRuns(f, runs, E)
  BY <1>5, <1>7, <1>8 DEF EntryRuns, T, w
<1> QED BY <1>9 DEF runs, er

(* EntrySpiller::push: the entries held grow by one, flushed or not.       *)
LEMMA EntryPushes ==
  ASSUME build \in Builds, NEW f, NEW sp, NEW E, NEW n \in Nat, EntryHolds(f, sp, E, n, RunRows),
         NEW e \in Tuples(Width(f)), e[RidAt(f)] = n
  PROVE  EntryHolds(f, EntryPushed(f, sp, e), E \cup {e}, n + 1, RunRows)
<1> DEFINE w == Width(f)
           sp2 == EntryPushed(f, sp, e)
           l == Len(sp.buf)
<1>1. /\ sp.buf \in Seq(Tuples(w)) /\ l \in Nat /\ DOMAIN sp.buf = 1..l /\ n - l \in Nat
      /\ sp = [buf |-> sp.buf, runs |-> sp.runs] /\ l <= RunRows /\ l <= n
  BY BufferFacts DEF EntryHolds
<1>2. RunRows \in Nat /\ RunRows >= 1
  BY BuildFacts
<1>3. CASE NeedsFlush(sp)
  <2> DEFINE runs == Append(sp.runs, EntryRun(f, sp.buf))
  <2>1. sp2 = [buf |-> <<e>>, runs |-> runs]
    BY <1>3 DEF EntryPushed
  <2>2. sp.buf # <<>>
    BY <1>1, <1>2, <1>3 DEF NeedsFlush
  <2>3. /\ runs \in Seq([first : Nat, recs : Seq(Tuples(w))])
        /\ \A i \in DOMAIN runs : ReadBack(f, runs[i]) \in Seq(Tuples(w)) /\ Ascends(ReadBack(f, runs[i]))
        /\ \A x : x \in E <=> \E i \in DOMAIN runs : x \in Values(ReadBack(f, runs[i]))
    <3>1. EntryRuns(f, runs, E)
      BY <2>2, RunsWithBuffer
    <3> HIDE DEF runs
    <3> QED BY <3>1 DEF EntryRuns
  <2> HIDE DEF runs, sp2
  <2>4. sp2.buf = <<e>> /\ sp2.runs = runs /\ sp2 = [buf |-> sp2.buf, runs |-> sp2.runs]
    BY <2>1
  <2>5. Len(sp2.buf) = 1 /\ sp2.buf \in Seq(Tuples(w)) /\ sp2.buf[1] = e /\ Values(sp2.buf) = {e}
    BY <2>4 DEF Values
  <2>6. (n + 1) - Len(sp2.buf) = n
    BY <2>5
  <2>7. Numbered(f, sp2.buf, n)
    BY <2>5 DEF Numbered
  <2>8. EntriesIn(f, sp2) = E \cup {e}
    <3>1. ASSUME NEW x PROVE x \in EntriesIn(f, sp2) <=> x \in E \cup {e}
      BY <2>3, <2>4, <2>5, EntriesInMembers
    <3> QED BY <3>1
  <2>9. Len(sp2.buf) <= RunRows /\ Len(sp2.buf) <= n + 1
    BY <2>5, <1>2
  <2>10. EntryHolds(f, sp2, E \cup {e}, n + 1, RunRows)
    BY <2>3, <2>4, <2>6, <2>7, <2>8, <2>9 DEF EntryHolds
  <2> QED BY <2>10 DEF sp2
<1>4. CASE ~NeedsFlush(sp)
  <2>1. sp2 = [sp EXCEPT !.buf = Append(@, e)]
    BY <1>4 DEF EntryPushed
  <2> HIDE DEF sp2
  <2>2. sp2.buf = Append(sp.buf, e) /\ sp2.runs = sp.runs /\ sp2 = [buf |-> sp2.buf, runs |-> sp2.runs]
    BY <2>1, <1>1
  <2>3. /\ sp2.buf \in Seq(Tuples(w)) /\ Len(sp2.buf) = l + 1 /\ sp2.buf[l + 1] = e
        /\ \A i \in 1..l : sp2.buf[i] = sp.buf[i]
    BY <2>2, <1>1
  <2>4. Values(sp2.buf) = Values(sp.buf) \cup {e}
    BY <2>2, <1>1, ValuesAppend
  <2>5. l < RunRows
    BY <1>1, <1>2, <1>4 DEF NeedsFlush
  <2>6. Numbered(f, sp.buf, n - l)
    BY DEF EntryHolds
  <2> HIDE DEF l
  <2>7. (n + 1) - Len(sp2.buf) = n - l /\ Len(sp2.buf) <= RunRows /\ Len(sp2.buf) <= n + 1
    BY <2>3, <2>5, <1>1, <1>2
  <2>8. Numbered(f, sp2.buf, n - l)
    <3> SUFFICES ASSUME NEW i \in 1..(l + 1) PROVE sp2.buf[i][RidAt(f)] = (n - l) + (i - 1)
      BY <2>3 DEF Numbered
    <3>1. CASE i \in 1..l
      BY <3>1, <2>3, <2>6, <1>1 DEF Numbered, l
    <3>2. CASE i = l + 1
      <4>1. sp2.buf[i][RidAt(f)] = n
        BY <3>2, <2>3
      <4>2. (n - l) + (i - 1) = n
        BY <3>2, <1>1
      <4> QED BY <4>1, <4>2
    <3> QED BY <3>1, <3>2, <1>1
  <2>9. EntriesIn(f, sp2) = E \cup {e}
    <3>1. EntriesIn(f, sp) = E
      BY DEF EntryHolds
    <3>2. ASSUME NEW x PROVE x \in EntriesIn(f, sp2) <=> x \in EntriesIn(f, sp) \cup {e}
      BY <2>2, <2>4, EntriesInMembers
    <3> QED BY <3>1, <3>2
  <2>10. EntryHolds(f, sp2, E \cup {e}, n + 1, RunRows)
    BY <2>2, <2>7, <2>8, <2>9 DEF EntryHolds
  <2> QED BY <2>10 DEF sp2
<1> QED BY <1>3, <1>4

(* into_merger: the runs of a new merge ascend and hold every entry.       *)
LEMMA EntryMerges ==
  ASSUME build \in Builds, NEW f, NEW sp, NEW E, NEW n \in Nat, EntryHolds(f, sp, E, n, RunRows)
  PROVE  \E runs : EntryMerger(f, sp) = NewMerger(runs) /\ RunsAscend(runs, Width(f)) /\ AllOf(runs) = E
<1> DEFINE w == Width(f)
<1>1. w \in Nat /\ sp.buf \in Seq(Tuples(w)) /\ EntriesIn(f, sp) = E
  BY BufferFacts, RidFacts DEF EntryHolds
<1>2. CASE sp.runs = <<>>
  <2> DEFINE sq == Sorted(Values(sp.buf))
             runs == <<sq>>
  <2>1. EntryMerger(f, sp) = NewMerger(runs)
    BY <1>2 DEF EntryMerger
  <2>2. sq \in Seq(Tuples(w)) /\ Ascends(sq) /\ Values(sq) = Values(sp.buf)
    BY <1>1, SortedBuffer
  <2>3. RunsAscend(runs, w) /\ AllOf(runs) = Values(sq)
    <3> DEFINE T == Seq(Tuples(w))
    <3>1. sq \in T
      BY <2>2
    <3> HIDE DEF T, sq
    <3>2. runs \in Seq(T) /\ DOMAIN runs = {1} /\ runs[1] = sq
      BY <3>1
    <3> HIDE DEF runs
    <3>3. RunsAscend(runs, w)
      BY <3>2, <2>2 DEF RunsAscend, T
    <3>4. AllOf(runs) = Values(sq)
      BY <3>2 DEF AllOf
    <3> QED BY <3>3, <3>4
  <2>4. E = Values(sp.buf)
    <3>1. DOMAIN sp.runs = {}
      BY <1>2
    <3>2. ASSUME NEW x PROVE x \in EntriesIn(f, sp) <=> x \in Values(sp.buf)
      BY <3>1, EntriesInMembers
    <3> QED BY <3>2, <1>1
  <2> HIDE DEF runs
  <2> QED BY <2>1, <2>2, <2>3, <2>4 DEF w
<1>3. CASE sp.runs # <<>>
  <2> DEFINE all == IF sp.buf = <<>> THEN sp.runs ELSE Append(sp.runs, EntryRun(f, sp.buf))
             runs == [i \in DOMAIN all |-> ReadBack(f, all[i])]
  <2>1. EntryMerger(f, sp) = NewMerger(runs)
    BY <1>3 DEF EntryMerger
  <2>2. /\ all \in Seq([first : Nat, recs : Seq(Tuples(w))])
        /\ \A i \in DOMAIN all : ReadBack(f, all[i]) \in Seq(Tuples(w)) /\ Ascends(ReadBack(f, all[i]))
        /\ \A x : x \in E <=> \E i \in DOMAIN all : x \in Values(ReadBack(f, all[i]))
    <3>1. CASE sp.buf # <<>>
      <4>1. EntryRuns(f, all, E)
        BY <3>1, RunsWithBuffer
      <4> HIDE DEF all
      <4> QED BY <4>1 DEF EntryRuns
    <3>2. CASE sp.buf = <<>>
      <4>1. all = sp.runs /\ Values(sp.buf) = {}
        BY <3>2 DEF Values
      <4>2. ASSUME NEW x PROVE x \in E <=> \E i \in DOMAIN sp.runs : x \in Values(ReadBack(f, sp.runs[i]))
        BY <4>1, <1>1, EntriesInMembers
      <4> HIDE DEF all
      <4> QED BY <4>1, <4>2 DEF EntryHolds
    <3> QED BY <3>1, <3>2
  <2> HIDE DEF all
  <2>3. DOMAIN all = 1..Len(all) /\ Len(all) \in Nat
    BY <2>2
  <2>4. runs \in [1..Len(all) -> Seq(Tuples(w))] /\ \A i \in DOMAIN runs : Ascends(runs[i])
    BY <2>2, <2>3
  <2>5. runs \in Seq(Seq(Tuples(w)))
    <3> HIDE DEF runs
    <3> QED BY <2>3, <2>4
  <2>6. RunsAscend(runs, w)
    BY <2>4, <2>5 DEF RunsAscend
  <2>7. ASSUME NEW x PROVE x \in AllOf(runs) <=> x \in E
    BY <2>2 DEF AllOf
  <2> HIDE DEF runs
  <2>8. AllOf(runs) = E
    BY <2>7
  <2> QED BY <2>1, <2>6, <2>8 DEF w
<1> QED BY <1>2, <1>3

-----------------------------------------------------------------------------
(* The families                                                            *)

(* The row a quad has among A, and the entries of a family for quads Y.    *)
RowIn(A, x) == Cardinality({y \in A : Less(y, x)})
EntriesFor(f, A, Y) == {Entry(f, x, RowIn(A, x)) : x \in Y}

(* The first merge numbers a quad by those before it and gives each family *)
(* its entry; a family's stream yields those entries in order.             *)
FamiliesInv ==
  /\ phase = "ingest" => rows = 0 /\ entries = [f \in Families |-> [buf |-> <<>>, runs |-> <<>>]]
  /\ phase = "index" =>
       /\ rows = Cardinality(Yielded(merger)) /\ entries = [f \in Families |-> entries[f]]
       /\ \A f \in Families : EntryHolds(f, entries[f], EntriesFor(f, All, Yielded(merger)), rows, RunRows)
  /\ phase = "streams" =>
       \A f \in Families : /\ StreamInv(mergers[f], Width(f), out[f])
                           /\ AllOf(mergers[f].runs) = EntriesFor(f, All, All)
                           /\ f \in ended => Undrained(mergers[f]) = {}
  /\ mergers = [f \in Families |-> mergers[f]]
  /\ error # "offset"

(* A build just begun has numbered no row.                                 *)
LEMMA InitFamilies ==
  ASSUME Init
  PROVE  FamiliesInv
BY DEF Init, FamiliesInv

(* The entry spiller a build starts with holds nothing.                    *)
LEMMA EmptyEntries ==
  ASSUME build \in Builds, NEW f
  PROVE  EntryHolds(f, [buf |-> <<>>, runs |-> <<>>], {}, 0, RunRows)
<1> DEFINE sp == [buf |-> <<>>, runs |-> <<>>]
<1>1. sp.buf = <<>> /\ sp.runs = <<>> /\ sp = [buf |-> sp.buf, runs |-> sp.runs]
  OBVIOUS
<1> HIDE DEF sp
<1>2. RunRows \in Nat
  BY BuildFacts
<1>3. Len(<<>>) = 0 /\ DOMAIN <<>> = {} /\ Values(<<>>) = {}
  BY DEF Values
<1>4. Numbered(f, sp.buf, 0 - Len(sp.buf))
  BY <1>1, <1>3 DEF Numbered
<1>5. EntriesIn(f, sp) = {}
  <2>1. ASSUME NEW x PROVE x \notin EntriesIn(f, sp)
    BY <1>1, <1>3, EntriesInMembers
  <2> QED BY <2>1
<1>6. sp.runs \in Seq([first : Nat, recs : Seq(Tuples(Width(f)))])
  BY <1>1
<1> QED BY <1>1, <1>2, <1>3, <1>4, <1>5, <1>6 DEF EntryHolds, sp

(* An error leaves the families as they are, and is no offset's.           *)
LEMMA FailKeepsFamilies ==
  ASSUME FamiliesInv, NEW why, why # "offset", Fail(why)
  PROVE  FamiliesInv'
BY DEF Fail, FamiliesInv, Families

(* The input's end: the first merge starts with no row numbered.           *)
LEMMA FreezeKeepsFamilies ==
  ASSUME BuildInv, FamiliesInv, Freeze
  PROVE  FamiliesInv'
<1> DEFINE runs == RankedRuns(spill, terms)
<1>1. phase = "ingest" /\ TermTable(terms) /\ SpillHolds(spill, terms, Values(input)) /\ build \in Builds
  BY DEF Freeze, BuildInv, Types, SpillInv
<1>2. rows = 0 /\ entries = [f \in Families |-> [buf |-> <<>>, runs |-> <<>>]] /\ error # "offset"
  BY <1>1 DEF FamiliesInv
<1>3. CASE Families = {}
  <2>1. phase' = "streams" /\ UNCHANGED <<build, mergers, error>>
    BY <1>3 DEF Freeze, StartStreams
  <2>2. Families' = {}
    BY <2>1, <1>3 DEF Families
  <2>3. mergers' = [f \in Families' |-> mergers'[f]]
    BY <2>1 DEF FamiliesInv, Families
  <2> QED BY <2>1, <2>2, <2>3, <1>2 DEF FamiliesInv
<1>4. CASE Families # {}
  <2>1. /\ phase' = "index" /\ merger' = NewMerger(runs)
        /\ UNCHANGED <<build, input, terms, rows, entries, mergers, out, ended, live, holders, dir, error>>
    BY <1>4 DEF Freeze
  <2>2. RunsAscend(runs, 4)
    BY <1>1, RankedRunsFacts
  <2> HIDE DEF runs
  <2>3. Yielded(merger') = {}
    BY <2>1, <2>2, NewMergeInv
  <2>4. Cardinality({}) = 0
    BY FS_EmptySet
  <2>5. RunRows' = RunRows /\ Families' = Families
    BY <2>1 DEF RunRows, Families
  <2>6. ASSUME NEW f \in Families
        PROVE  EntryHolds(f, entries'[f], EntriesFor(f, All', Yielded(merger')), rows', RunRows')
    <3>1. EntriesFor(f, All', Yielded(merger')) = {}
      BY <2>3 DEF EntriesFor
    <3>2. entries'[f] = [buf |-> <<>>, runs |-> <<>>] /\ rows' = 0
      BY <2>1, <1>2
    <3> QED BY <3>1, <3>2, <2>5, <1>1, EmptyEntries
  <2>7. entries' = [f \in Families' |-> entries'[f]]
    BY <2>1, <2>5, <1>2
  <2>8. mergers' = [f \in Families' |-> mergers'[f]]
    BY <2>1, <2>5 DEF FamiliesInv
  <2> QED BY <2>1, <2>3, <2>4, <2>5, <2>6, <2>7, <2>8, <1>2 DEF FamiliesInv
<1> QED BY <1>3, <1>4

(* A turn of the first merge numbers the next row and gives every family   *)
(* its entry.                                                              *)
LEMMA IndexRowKeepsFamilies ==
  ASSUME BuildInv, FamiliesInv, IndexRow
  PROVE  FamiliesInv'
<1> DEFINE it == Item(merger)
           Y == Yielded(merger)
<1>1. phase = "index" /\ Undrained(merger) # {} /\ MergeInv(merger, 4) /\ build \in Builds
  BY DEF IndexRow, BuildInv, Types, QuadsInv
<1>2. /\ rows = Cardinality(Y) /\ entries = [f \in Families |-> entries[f]] /\ error # "offset"
      /\ \A f \in Families : EntryHolds(f, entries[f], EntriesFor(f, All, Y), rows, RunRows)
      /\ mergers = [f \in Families |-> mergers[f]]
  BY <1>1 DEF FamiliesInv
<1>3. /\ MergeInv(Refilled(merger), 4) /\ Refilled(merger).runs = merger.runs
      /\ Yielded(Refilled(merger)) = Y \cup {it}
      /\ it \in Tuples(4) /\ it \in AllOf(merger.runs)
      /\ Repeats(merger) => it \in Y
      /\ ~Repeats(merger) => \A x \in Y : Less(x, it)
      /\ ~Repeats(merger) => Y = {x \in AllOf(merger.runs) : Less(x, it)}
  BY <1>1, RefilledFacts
<1>4. IsFiniteSet(Y) /\ rows \in Nat
  <2>1. RunsAscend(merger.runs, 4) /\ MergerTyped(merger, 4)
    BY <1>1 DEF MergeInv, MergerTyped
  <2>2. IsFiniteSet(AllOf(merger.runs)) /\ Y \in SUBSET AllOf(merger.runs)
    BY <2>1, AllOfFinite, YieldedIsRead
  <2> HIDE DEF Y
  <2> QED BY <2>2, <1>2, FS_Subset, FS_CardinalityType
<1>5. \A f \in Families : OffsetsFit(f, entries[f].buf)
  BY <1>1, <1>2, <1>4, OffsetsAlwaysFit
<1> HIDE DEF it, Y
<1>6. CASE Repeats(merger)
  <2>1. merger' = Refilled(merger) /\ UNCHANGED <<build, phase, rows, entries, error, mergers>>
    BY <1>1, <1>6 DEF IndexRow
  <2>2. Yielded(merger') = Y /\ All' = All
    <3>1. Y \cup {it} = Y
      BY <1>3, <1>6
    <3> QED BY <2>1, <3>1, <1>3 DEF All
  <2>3. RunRows' = RunRows /\ Families' = Families
    BY <2>1 DEF RunRows, Families
  <2> QED BY <2>1, <2>2, <2>3, <1>1, <1>2 DEF FamiliesInv
<1>7. CASE ~Repeats(merger) /\ rows >= ROW_LIMIT
  <2>1. Fail("rows")
    BY <1>7 DEF IndexRow
  <2> QED BY <2>1, FailKeepsFamilies
<1>8. CASE ~Repeats(merger) /\ ~(rows >= ROW_LIMIT)
  <2>1. /\ merger' = Refilled(merger) /\ rows' = rows + 1
        /\ entries' = [f \in Families |-> EntryPushed(f, entries[f], Entry(f, it, rows))]
        /\ UNCHANGED <<build, phase, error, mergers>>
    BY <1>5, <1>8 DEF IndexRow, it
  <2>2. All' = All /\ Yielded(merger') = Y \cup {it}
    BY <2>1, <1>3 DEF All
  <2>3. RunRows' = RunRows /\ Families' = Families
    BY <2>1 DEF RunRows, Families
  <2>4. rows = RowIn(All, it)
    BY <1>2, <1>3, <1>8 DEF RowIn, All
  <2>5. Cardinality(Y \cup {it}) = rows + 1
    <3>1. it \notin Y
      BY <1>3, <1>8, LessStrict
    <3> QED BY <3>1, <1>2, <1>4, FS_AddElement
  <2>6. ASSUME NEW f \in Families
        PROVE  EntryHolds(f, entries'[f], EntriesFor(f, All', Yielded(merger')), rows', RunRows')
    <3> DEFINE e == Entry(f, it, rows)
               E == EntriesFor(f, All, Y)
    <3>1. f \in AllFamilies
      BY <1>1, BuildFacts DEF AllFamilies
    <3>2. e \in Tuples(Width(f)) /\ e[RidAt(f)] = rows
      BY <3>1, <1>3, <1>4, EntryFacts
    <3>3. EntryHolds(f, entries[f], E, rows, RunRows)
      BY <1>2
    <3> HIDE DEF e, E
    <3>4. EntryHolds(f, EntryPushed(f, entries[f], e), E \cup {e}, rows + 1, RunRows)
      BY <3>2, <3>3, <1>1, <1>4, EntryPushes
    <3>5. EntriesFor(f, All, Y \cup {it}) = E \cup {e}
      BY <2>4 DEF EntriesFor, E, e
    <3>6. entries'[f] = EntryPushed(f, entries[f], e)
      BY <2>1 DEF e
    <3> QED BY <3>4, <3>5, <3>6, <2>1, <2>2, <2>3
  <2>7. entries' = [f \in Families' |-> entries'[f]]
    BY <2>1, <2>3
  <2>8. rows' = Cardinality(Yielded(merger'))
    BY <2>1, <2>2, <2>5
  <2>9. mergers' = [f \in Families' |-> mergers'[f]]
    BY <2>1, <2>3, <1>2
  <2> QED BY <2>1, <2>3, <2>6, <2>7, <2>8, <2>9, <1>1, <1>2 DEF FamiliesInv
<1> QED BY <1>6, <1>7, <1>8

(* The first merge's end: the families' runs hold an entry of every row.   *)
LEMMA IndexEndKeepsFamilies ==
  ASSUME BuildInv, FamiliesInv, IndexEnd
  PROVE  FamiliesInv'
<1> DEFINE Y == Yielded(merger)
<1>1. /\ phase = "index" /\ Undrained(merger) = {} /\ MergeInv(merger, 4) /\ build \in Builds
      /\ ended = {} /\ out = [x \in Streams |-> <<>>]
  BY DEF IndexEnd, BuildInv, Types, QuadsInv
<1>2. /\ rows = Cardinality(Y) /\ error # "offset"
      /\ \A f \in Families : EntryHolds(f, entries[f], EntriesFor(f, All, Y), rows, RunRows)
  BY <1>1 DEF FamiliesInv
<1>3. RunsAscend(merger.runs, 4) /\ MergerTyped(merger, 4)
  BY <1>1 DEF MergeInv, MergerTyped
<1>4. Y = All
  BY <1>1, <1>3, YieldedIsRead DEF All
<1>5. rows \in Nat
  BY <1>2, <1>3, <1>4, AllOfFinite, FS_CardinalityType DEF All
<1>6. \A f \in Families : OffsetsFit(f, entries[f].buf)
  BY <1>1, <1>2, <1>5, OffsetsAlwaysFit
<1>7. /\ mergers' = [f \in Families |-> EntryMerger(f, entries[f])]
      /\ phase' = "streams" /\ merger' = NewMerger(merger.runs)
      /\ UNCHANGED <<build, out, ended, error>>
  BY <1>6 DEF IndexEnd, StartStreams
<1> HIDE DEF Y
<1>8. Families' = Families
  BY <1>7 DEF Families
<1>9. All' = All
  BY <1>3, <1>7, NewMergeInv DEF All
<1>10. ASSUME NEW f \in Families
       PROVE  /\ StreamInv(mergers'[f], Width(f), out'[f])
              /\ AllOf(mergers'[f].runs) = EntriesFor(f, All', All')
              /\ f \in ended' => Undrained(mergers'[f]) = {}
  <2> DEFINE w == Width(f)
  <2>1. EntryHolds(f, entries[f], EntriesFor(f, All, All), rows, RunRows)
    BY <1>2, <1>4
  <2>2. PICK runs : EntryMerger(f, entries[f]) = NewMerger(runs) /\ RunsAscend(runs, w)
                    /\ AllOf(runs) = EntriesFor(f, All, All)
    BY <2>1, <1>1, <1>5, EntryMerges
  <2>3. mergers'[f] = NewMerger(runs)
    BY <2>2, <1>7
  <2>4. MergeInv(mergers'[f], w) /\ Yielded(mergers'[f]) = {} /\ mergers'[f].runs = runs
    BY <2>2, <2>3, NewMergeInv
  <2>5. out'[f] = <<>>
    BY <1>1, <1>7 DEF Streams
  <2>6. <<>> \in Seq(Tuples(w)) /\ Ascends(<<>>) /\ Values(<<>>) = {}
    BY DEF Ascends, Values
  <2>7. StreamInv(mergers'[f], w, out'[f])
    BY <2>4, <2>5, <2>6 DEF StreamInv
  <2> QED BY <2>2, <2>4, <2>7, <1>1, <1>7, <1>9
<1>11. mergers' = [f \in Families' |-> mergers'[f]]
  BY <1>7, <1>8
<1> QED BY <1>2, <1>7, <1>8, <1>10, <1>11 DEF FamiliesInv

(* A turn of one family's stream.                                          *)
LEMMA PollFamilyKeepsFamilies ==
  ASSUME BuildInv, FamiliesInv, NEW g \in Families, PollFamily(g)
  PROVE  FamiliesInv'
<1>1. /\ phase = "streams" /\ g \in live /\ Undrained(mergers[g]) # {}
      /\ mergers' = [mergers EXCEPT ![g] = Refilled(@)]
      /\ out' = IF Repeats(mergers[g]) THEN out ELSE [out EXCEPT ![g] = Append(@, Item(mergers[g]))]
      /\ UNCHANGED <<build, phase, rows, merger, entries, ended, error>>
  BY DEF PollFamily, Turn
<1>2. out = [x \in Streams |-> out[x]] /\ live \subseteq Streams \ ended
  BY DEF BuildInv, Types
<1>3. /\ mergers = [f \in Families |-> mergers[f]]
      /\ \A f \in Families : /\ StreamInv(mergers[f], Width(f), out[f])
                             /\ AllOf(mergers[f].runs) = EntriesFor(f, All, All)
                             /\ f \in ended => Undrained(mergers[f]) = {}
  BY <1>1 DEF FamiliesInv
<1>4. /\ \A f \in Families : f # g => mergers'[f] = mergers[f] /\ out'[f] = out[f]
      /\ mergers'[g] = Refilled(mergers[g])
      /\ out'[g] = IF Repeats(mergers[g]) THEN out[g] ELSE Append(out[g], Item(mergers[g]))
      /\ mergers' = [f \in Families |-> mergers'[f]]
  BY <1>1, <1>2, <1>3 DEF Streams
<1>5. Width(g) \in Nat \ {0} /\ StreamInv(mergers[g], Width(g), out[g]) /\ MergeInv(mergers[g], Width(g))
  BY <1>3, RidFacts DEF StreamInv
<1>6. StreamInv(mergers'[g], Width(g), out'[g])
  <2>1. StreamInv(Refilled(mergers[g]), Width(g), IF Repeats(mergers[g]) THEN out[g] ELSE Append(out[g], Item(mergers[g])))
    BY <1>1, <1>5, StreamTurns
  <2> QED BY <2>1, <1>4
<1>7. mergers'[g].runs = mergers[g].runs
  BY <1>1, <1>4, <1>5, RefilledFacts
<1>8. All' = All /\ Families' = Families
  BY <1>1 DEF All, Families
<1>9. ASSUME NEW f \in Families
      PROVE  /\ StreamInv(mergers'[f], Width(f), out'[f])
             /\ AllOf(mergers'[f].runs) = EntriesFor(f, All', All')
             /\ f \in ended' => Undrained(mergers'[f]) = {}
  <2>1. CASE f = g
    BY <2>1, <1>1, <1>2, <1>3, <1>6, <1>7, <1>8
  <2>2. CASE f # g
    BY <2>2, <1>1, <1>3, <1>4, <1>8
  <2> QED BY <2>1, <2>2
<1> QED BY <1>1, <1>4, <1>8, <1>9 DEF FamiliesInv

(* A turn of the quads' stream, and a stream's end, leave the families'    *)
(* streams alone.                                                          *)
LEMMA StreamKeepsFamilies ==
  ASSUME BuildInv, FamiliesInv, PollQuads \/ \E x \in Streams : EndStream(x) \/ DropStream(x)
  PROVE  FamiliesInv'
<1>1. /\ phase = "streams" /\ UNCHANGED <<build, phase, rows, entries, mergers, error>>
      /\ \A f \in ended' \ ended : f = "quads" \/ Undrained(mergers[f]) = {}
  BY DEF PollQuads, EndStream, DropStream
<1>2. "quads" \notin Families /\ "quads" \in Streams /\ out = [x \in Streams |-> out[x]] /\ MergeInv(merger, 4)
  BY <1>1, BuildFacts DEF BuildInv, Types, QuadsInv
<1>3. (\A f \in Families : out'[f] = out[f]) /\ merger'.runs = merger.runs
  <2>1. CASE PollQuads
    <3>1. /\ Undrained(merger) # {} /\ merger' = Refilled(merger)
          /\ out' = IF Repeats(merger) THEN out ELSE [out EXCEPT !["quads"] = Append(@, Item(merger))]
      BY <2>1 DEF PollQuads, Turn
    <3>2. \A f \in Families : f # "quads" /\ f \in Streams
      BY <1>2 DEF Streams
    <3>3. \A f \in Families : out'[f] = out[f]
      BY <3>1, <3>2, <1>2
    <3>4. merger'.runs = merger.runs
      BY <3>1, <1>2, RefilledFacts, SMTT(30)
    <3> QED BY <3>3, <3>4
  <2>2. CASE \E x \in Streams : EndStream(x) \/ DropStream(x)
    BY <2>2 DEF EndStream, DropStream
  <2> QED BY <2>1, <2>2
<1>4. All' = All /\ Families' = Families
  BY <1>1, <1>3 DEF All, Families
<1>5. ASSUME NEW f \in Families
      PROVE  /\ StreamInv(mergers'[f], Width(f), out'[f])
             /\ AllOf(mergers'[f].runs) = EntriesFor(f, All', All')
             /\ f \in ended' => Undrained(mergers'[f]) = {}
  BY <1>1, <1>2, <1>3, <1>4 DEF FamiliesInv
<1> QED BY <1>1, <1>4, <1>5 DEF FamiliesInv

(* Every step keeps the families' invariant.                               *)
LEMMA NextFamilies ==
  ASSUME BuildInv, FamiliesInv, [Next]_vars
  PROVE  FamiliesInv'
<1>1. CASE \E q \in Input : Ingest(q)
  <2>1. PICK q \in Input : Ingest(q)
    BY <1>1
  <2>2. Fail("terms") \/ (phase = "ingest" /\ UNCHANGED <<build, phase, rows, entries, mergers, error>>)
    BY <2>1 DEF Ingest
  <2>3. CASE Fail("terms")
    BY <2>3, FailKeepsFamilies
  <2>4. CASE phase = "ingest" /\ UNCHANGED <<build, phase, rows, entries, mergers, error>>
    BY <2>4 DEF FamiliesInv, Families
  <2> QED BY <2>2, <2>3, <2>4
<1>2. CASE Freeze
  BY <1>2, FreezeKeepsFamilies
<1>3. CASE IndexRow
  BY <1>3, IndexRowKeepsFamilies
<1>4. CASE IndexEnd
  BY <1>4, IndexEndKeepsFamilies
<1>5. CASE PollQuads \/ \E x \in Streams : EndStream(x) \/ DropStream(x)
  BY <1>5, StreamKeepsFamilies
<1>6. CASE Abort
  BY <1>6, FailKeepsFamilies DEF Abort
<1>7. CASE \E f \in Families : PollFamily(f)
  BY <1>7, PollFamilyKeepsFamilies
<1>8. CASE UNCHANGED vars
  BY <1>8 DEF vars, FamiliesInv, All, Families, RunRows
<1> QED BY <1>1, <1>2, <1>3, <1>4, <1>5, <1>6, <1>7, <1>8 DEF Next

(* Every reachable state of a build satisfies both invariants.             *)
LEMMA AlwaysFamiliesInv ==
  Spec => [](BuildInv /\ FamiliesInv)
<1>1. Init => BuildInv /\ FamiliesInv
  BY InitBuild, InitFamilies
<1>2. (BuildInv /\ FamiliesInv) /\ [Next]_vars => (BuildInv /\ FamiliesInv)'
  BY NextBuild, NextFamilies
<1> QED BY <1>1, <1>2, PTL DEF Spec

-----------------------------------------------------------------------------
(* The families against the in-memory build's                              *)

(* An entry, spelled; entries of ranks up to N; the entry the in-memory    *)
(* build makes of a spelled row.                                           *)
SpellEntry(f, ts, e) == [k \in DOMAIN e |-> IF k = RidAt(f) THEN e[k] ELSE SpellOf(ts, e[k])]

RankEntries(f, N) == {e \in Tuples(Width(f)) : \A k \in 1..Width(f) : k # RidAt(f) => e[k] \in 1..N}

MemoryEntry(f, row, rid) ==
  [k \in DOMAIN KeyColumns(f) |-> IF KeyColumns(f)[k] = 0 THEN rid ELSE row[KeyColumns(f)[k]]]

(* Spelling an entry of a known family is spelling it in the table.        *)
LEMMA SpelledEntryIs ==
  ASSUME NEW f, NEW e
  PROVE  SpelledEntry(f, e) = SpellEntry(f, terms, e)
<1>1. \A k \in DOMAIN e : Spelled(e[k]) = SpellOf(terms, e[k])
  BY SpelledIs
<1> QED BY <1>1 DEF SpelledEntry, SpellEntry

(* Spelling keeps entries in order: ranks are in the terms' order and row  *)
(* ids stay.                                                               *)
LEMMA SpellEntryFacts ==
  ASSUME NEW f, NEW ts, TermTable(ts), NEW x \in RankEntries(f, Len(ts)), NEW y \in RankEntries(f, Len(ts))
  PROVE  /\ SpellEntry(f, ts, x) \in Tuples(Width(f))
         /\ Less(x, y) => Less(SpellEntry(f, ts, x), SpellEntry(f, ts, y))
<1> DEFINE w == Width(f)
           r == RidAt(f)
           X == SpellEntry(f, ts, x)
           Y == SpellEntry(f, ts, y)
<1>1. w \in Nat /\ x \in [1..w -> Nat] /\ y \in [1..w -> Nat]
  BY RidFacts DEF RankEntries, Tuples
<1>2. \A k \in 1..w : k # r => x[k] \in 1..Len(ts) /\ y[k] \in 1..Len(ts)
  BY DEF RankEntries
<1>3. /\ X = [k \in 1..w |-> IF k = r THEN x[k] ELSE SpellOf(ts, x[k])]
      /\ Y = [k \in 1..w |-> IF k = r THEN y[k] ELSE SpellOf(ts, y[k])]
  BY <1>1 DEF SpellEntry
<1>4. \A k \in 1..w : X[k] \in Nat
  <2> TAKE k \in 1..w
  <2>1. CASE k = r
    BY <2>1, <1>1, <1>3
  <2>2. CASE k # r
    BY <2>2, <1>2, <1>3, SpellFacts
  <2> QED BY <2>1, <2>2
<1> HIDE DEF w, r, X, Y
<1>5. X \in Tuples(w)
  BY <1>3, <1>4 DEF Tuples
<1>6. ASSUME Less(x, y) PROVE Less(X, Y)
  <2>1. PICK i \in 1..w : x[i] < y[i] /\ \A j \in 1..(i - 1) : x[j] = y[j]
    BY <1>1, <1>6 DEF Less
  <2>2. X[i] < Y[i]
    <3>1. CASE i = r
      BY <3>1, <2>1, <1>3
    <3>2. CASE i # r
      <4>1. SpellOf(ts, x[i]) < SpellOf(ts, y[i])
        BY <3>2, <2>1, <1>2, SpellFacts
      <4> QED BY <4>1, <3>2, <1>3
    <3> QED BY <3>1, <3>2
  <2>3. \A j \in 1..(i - 1) : j \in 1..w
    BY <1>1
  <2>4. \A j \in 1..(i - 1) : X[j] = Y[j]
    BY <2>1, <2>3, <1>3
  <2>5. DOMAIN X = 1..w
    BY <1>3
  <2> QED BY <2>2, <2>4, <2>5 DEF Less
<1> QED BY <1>5, <1>6 DEF X, Y, w

(* The entry of a ranked quad, spelled, is the in-memory build's entry of  *)
(* the spelled quad, in each of the four families.                         *)
LEMMA EntrySpells ==
  ASSUME NEW f \in AllFamilies, NEW ts, TermTable(ts), NEW x \in [1..4 -> 1..Len(ts)], NEW rid \in Nat
  PROVE  /\ Entry(f, x, rid) \in RankEntries(f, Len(ts))
         /\ SpellEntry(f, ts, Entry(f, x, rid)) = MemoryEntry(f, SpellTuple(ts, x), rid)
<1> DEFINE N == Len(ts)
           S == SpellTuple(ts, x)
<1>1. N \in Nat
  BY DEF TermTable
<1>2. x[1] \in 1..N /\ x[2] \in 1..N /\ x[3] \in 1..N /\ x[4] \in 1..N
  OBVIOUS
<1>3. /\ S[1] = SpellOf(ts, x[1]) /\ S[2] = SpellOf(ts, x[2])
      /\ S[3] = SpellOf(ts, x[3]) /\ S[4] = SpellOf(ts, x[4])
  BY DEF SpellTuple
<1>4. Entry(f, x, rid) \in Tuples(Width(f))
  BY RanksAreTuples, EntryFacts, <1>1
<1> HIDE DEF N, S
<1>5. CASE f = "o"
  <2>1. Width(f) = 3 /\ RidAt(f) = 2 /\ Entry(f, x, rid) = <<x[3], rid, x[4]>> /\ KeyColumns(f) = <<3, 0, 4>>
    BY <1>5 DEF Entry, RidAt, Width, KeyColumns
  <2>2. Entry(f, x, rid) \in RankEntries(f, N)
    BY <2>1, <1>2, <1>4 DEF RankEntries
  <2>3. SpellEntry(f, ts, Entry(f, x, rid)) = <<SpellOf(ts, x[3]), rid, SpellOf(ts, x[4])>>
    BY <2>1 DEF SpellEntry
  <2>4. MemoryEntry(f, S, rid) = <<S[3], rid, S[4]>>
    BY <2>1 DEF MemoryEntry
  <2> QED BY <2>2, <2>3, <2>4, <1>3 DEF N, S
<1>6. CASE f = "p"
  <2>1. Width(f) = 3 /\ RidAt(f) = 2 /\ Entry(f, x, rid) = <<x[2], rid, x[4]>> /\ KeyColumns(f) = <<2, 0, 4>>
    BY <1>6 DEF Entry, RidAt, Width, KeyColumns
  <2>2. Entry(f, x, rid) \in RankEntries(f, N)
    BY <2>1, <1>2, <1>4 DEF RankEntries
  <2>3. SpellEntry(f, ts, Entry(f, x, rid)) = <<SpellOf(ts, x[2]), rid, SpellOf(ts, x[4])>>
    BY <2>1 DEF SpellEntry
  <2>4. MemoryEntry(f, S, rid) = <<S[2], rid, S[4]>>
    BY <2>1 DEF MemoryEntry
  <2> QED BY <2>2, <2>3, <2>4, <1>3 DEF N, S
<1>7. CASE f = "posg"
  <2>1. /\ Width(f) = 5 /\ RidAt(f) = 5 /\ Entry(f, x, rid) = <<x[2], x[3], x[1], x[4], rid>>
        /\ KeyColumns(f) = <<2, 3, 1, 4, 0>>
    BY <1>7 DEF Entry, RidAt, Width, KeyColumns
  <2>2. Entry(f, x, rid) \in RankEntries(f, N)
    BY <2>1, <1>2, <1>4 DEF RankEntries
  <2>3. SpellEntry(f, ts, Entry(f, x, rid)) = <<SpellOf(ts, x[2]), SpellOf(ts, x[3]), SpellOf(ts, x[1]), SpellOf(ts, x[4]), rid>>
    BY <2>1 DEF SpellEntry
  <2>4. MemoryEntry(f, S, rid) = <<S[2], S[3], S[1], S[4], rid>>
    BY <2>1 DEF MemoryEntry
  <2> QED BY <2>2, <2>3, <2>4, <1>3 DEF N, S
<1>8. CASE f = "ospg"
  <2>1. /\ Width(f) = 5 /\ RidAt(f) = 5 /\ Entry(f, x, rid) = <<x[3], x[1], x[2], x[4], rid>>
        /\ KeyColumns(f) = <<3, 1, 2, 4, 0>>
    BY <1>8 DEF Entry, RidAt, Width, KeyColumns
  <2>2. Entry(f, x, rid) \in RankEntries(f, N)
    BY <2>1, <1>2, <1>4 DEF RankEntries
  <2>3. SpellEntry(f, ts, Entry(f, x, rid)) = <<SpellOf(ts, x[3]), SpellOf(ts, x[1]), SpellOf(ts, x[2]), SpellOf(ts, x[4]), rid>>
    BY <2>1 DEF SpellEntry
  <2>4. MemoryEntry(f, S, rid) = <<S[3], S[1], S[2], S[4], rid>>
    BY <2>1 DEF MemoryEntry
  <2> QED BY <2>2, <2>3, <2>4, <1>3 DEF N, S
<1> QED BY <1>5, <1>6, <1>7, <1>8 DEF AllFamilies

(* The in-memory build's family, row by row.                               *)
LEMMA MemoryFamily ==
  ASSUME NEW f
  PROVE  InMemoryFamily(f) = Sorted({MemoryEntry(f, InMemoryRows[i], i - 1) : i \in DOMAIN InMemoryRows})
BY DEF InMemoryFamily, MemoryEntry

(* A family's stream, ended, spelled: the in-memory build's family.        *)
LEMMA FamilySpells ==
  ASSUME BuildInv, FamiliesInv, NEW f \in ended, f # "quads"
  PROVE  [i \in DOMAIN out[f] |-> SpelledEntry(f, out[f][i])] = InMemoryFamily(f)
<1> DEFINE w == Width(f)
           N == Len(terms)
           o == out[f]
           m == Len(o)
           n == Cardinality(All)
           sq == Sorted(All)
           G == {MemoryEntry(f, InMemoryRows[i], i - 1) : i \in DOMAIN InMemoryRows}
           sp == [i \in 1..m |-> SpellEntry(f, terms, o[i])]
<1>1. phase = "streams" /\ f \in Families /\ f \in AllFamilies
  BY BuildFacts DEF BuildInv, Types, Streams, AllFamilies
<1>2. StreamInv(mergers[f], w, o) /\ AllOf(mergers[f].runs) = EntriesFor(f, All, All) /\ Undrained(mergers[f]) = {}
  BY <1>1 DEF FamiliesInv
<1>3. o \in Seq(Tuples(w)) /\ Ascends(o) /\ Values(o) = EntriesFor(f, All, All)
  BY <1>2, RidFacts, StreamEnds DEF StreamInv
<1>4. TermTable(terms) /\ All \subseteq [1..4 -> 1..N] /\ MergeInv(merger, 4)
  BY <1>1 DEF BuildInv, Types, QuadsInv
<1>5. N \in Nat
  BY <1>4 DEF TermTable
<1>6. All \in SUBSET Tuples(4) /\ IsFiniteSet(All)
  <2>1. IsFiniteSet(All)
    BY <1>4, AllOfFinite DEF MergeInv, MergerTyped, All
  <2> QED BY <2>1, <1>4, <1>5, RanksAreTuples
<1>7. /\ n \in Nat /\ sq \in [1..n -> All] /\ Values(sq) = All /\ Ascends(sq)
      /\ \A i \in 1..n : RowIn(All, sq[i]) = i - 1
  BY <1>6, SortedTuples DEF Ascends, RowIn
<1> HIDE DEF w, N, o, n, sq
<1>8. InMemoryRows = [i \in 1..n |-> SpellTuple(terms, sq[i])]
  BY <1>1, <1>7, SpelledRows
<1>9. m \in Nat /\ DOMAIN o = 1..m /\ \A i \in 1..m : o[i] \in EntriesFor(f, All, All)
  BY <1>3 DEF Values
<1> HIDE DEF m
<1>10. \A i \in 1..n : /\ Entry(f, sq[i], i - 1) \in RankEntries(f, N)
                       /\ SpellEntry(f, terms, Entry(f, sq[i], i - 1)) = MemoryEntry(f, InMemoryRows[i], i - 1)
  <2> TAKE i \in 1..n
  <2>1. i - 1 \in Nat /\ sq[i] \in [1..4 -> 1..Len(terms)] /\ InMemoryRows[i] = SpellTuple(terms, sq[i])
    BY <1>4, <1>7, <1>8 DEF N
  <2> QED BY <2>1, <1>1, <1>4, EntrySpells DEF N
<1>11. EntriesFor(f, All, All) = {Entry(f, sq[i], i - 1) : i \in 1..n}
  <2>1. ASSUME NEW e \in EntriesFor(f, All, All)
        PROVE  \E i \in 1..n : e = Entry(f, sq[i], i - 1)
    <3>1. PICK x \in All : e = Entry(f, x, RowIn(All, x))
      BY DEF EntriesFor
    <3>2. PICK i \in 1..n : x = sq[i]
      BY <1>7 DEF Values
    <3> QED BY <3>1, <3>2, <1>7
  <2>2. ASSUME NEW i \in 1..n
        PROVE  Entry(f, sq[i], i - 1) \in EntriesFor(f, All, All)
    <3>1. sq[i] \in All /\ RowIn(All, sq[i]) = i - 1
      BY <1>7
    <3> QED BY <3>1 DEF EntriesFor
  <2> QED BY <2>1, <2>2
<1>12. DOMAIN InMemoryRows = 1..n
  BY <1>8
<1>13. \A j \in 1..m : \E i \in 1..n : o[j] = Entry(f, sq[i], i - 1)
  BY <1>9, <1>11
<1>14. \A j \in 1..m : o[j] \in RankEntries(f, N)
  BY <1>10, <1>13
<1>15. sp \in [1..m -> G]
  <2>1. ASSUME NEW j \in 1..m PROVE SpellEntry(f, terms, o[j]) \in G
    <3>1. PICK i \in 1..n : o[j] = Entry(f, sq[i], i - 1)
      BY <1>13
    <3>2. SpellEntry(f, terms, o[j]) = MemoryEntry(f, InMemoryRows[i], i - 1)
      BY <3>1, <1>10
    <3> QED BY <3>2, <1>12
  <2> HIDE DEF G
  <2> QED BY <2>1
<1>16. Values(sp) = G
  <2>1. ASSUME NEW g \in G PROVE \E j \in 1..m : g = sp[j]
    <3>1. PICK i \in 1..n : g = MemoryEntry(f, InMemoryRows[i], i - 1)
      BY <1>12
    <3>2. Entry(f, sq[i], i - 1) \in Values(o)
      BY <1>3, <1>11
    <3>3. PICK j \in 1..m : o[j] = Entry(f, sq[i], i - 1)
      BY <3>2, <1>9 DEF Values
    <3> QED BY <3>1, <3>3, <1>10
  <2> HIDE DEF G
  <2>2. \A j \in 1..m : sp[j] \in G
    BY <1>15
  <2>3. DOMAIN sp = 1..m
    OBVIOUS
  <2> HIDE DEF sp
  <2> QED BY <2>1, <2>2, <2>3 DEF Values
<1>17. Ascends(sp)
  <2> SUFFICES ASSUME NEW i \in 1..m, NEW j \in 1..m, i < j
               PROVE  Less(SpellEntry(f, terms, o[i]), SpellEntry(f, terms, o[j]))
    BY DEF Ascends
  <2>1. Less(o[i], o[j])
    BY <1>3, <1>9 DEF Ascends
  <2> QED BY <2>1, <1>4, <1>14, SpellEntryFacts DEF N
<1>18. G \in SUBSET Tuples(w)
  <2>1. ASSUME NEW g \in G PROVE g \in Tuples(w)
    <3>1. PICK i \in 1..n : g = MemoryEntry(f, InMemoryRows[i], i - 1)
      BY <1>12
    <3>2. g = SpellEntry(f, terms, Entry(f, sq[i], i - 1)) /\ Entry(f, sq[i], i - 1) \in RankEntries(f, N)
      BY <3>1, <1>10
    <3> QED BY <3>2, <1>4, SpellEntryFacts DEF N, w
  <2> QED BY <2>1
<1>19. sp = Sorted(G)
  <2> HIDE DEF sp, G
  <2>1. w \in Nat
    BY RidFacts DEF w
  <2> QED BY <2>1, <1>9, <1>15, <1>16, <1>17, <1>18, AscendingTuples
<1>20. [i \in DOMAIN o |-> SpelledEntry(f, o[i])] = sp
  BY <1>9, SpelledEntryIs
<1> QED BY <1>19, <1>20, MemoryFamily DEF o

(* The families of the out-of-core build are the in-memory build's: each   *)
(* entry carries the number the second merge gives its row, in the         *)
(* family's order; and no row offset overflows its record.                 *)
THEOREM FamiliesAddressRows ==
  Spec => []FamiliesAgree
<1>1. BuildInv /\ FamiliesInv => FamiliesAgree
  <2>1. FamiliesInv => error # "offset"
    BY DEF FamiliesInv
  <2> QED BY <2>1, FamilySpells DEF FamiliesAgree
<1> QED BY <1>1, AlwaysFamiliesInv, PTL

===========================================================================
