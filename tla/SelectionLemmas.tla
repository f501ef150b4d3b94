-------------------------- MODULE SelectionLemmas --------------------------
(***************************************************************************)
(* What the operators of Selections compute: that a sequence lists a set   *)
(* of rows, slices, filters, intersections and concatenations of lists,    *)
(* and the loops that make them.                                           *)
(***************************************************************************)
EXTENDS Selections, Integers, TLAPS, NaturalsInduction, WellFoundedInduction,
        FiniteSetTheorems, SequenceTheorems

-----------------------------------------------------------------------------
(* Numbers                                                                 *)

(* A set of numbers that is not empty has a least one.                     *)
LEMMA LeastNumber ==
  ASSUME NEW T \in SUBSET Nat, T # {}
  PROVE  \E x \in T : \A y \in T : x <= y
<1> DEFINE R == OpToRel(<, Nat)
<1>1. \A x, y \in Nat : <<y, x>> \in R <=> y < x
  BY DEF OpToRel
<1>2. IsWellFoundedOn(R, Nat)
  BY NatLessThanWellFounded
<1> HIDE DEF R
<1>3. PICK x \in T : \A y \in T : ~(<<y, x>> \in R)
  BY <1>2, WFMin
<1>4. \A y \in T : x <= y
  <2> TAKE y \in T
  <2>1. x \in Nat /\ y \in Nat
    OBVIOUS
  <2>2. ~(y < x)
    BY <1>1, <1>3, <2>1, Zenon
  <2> QED BY <2>1, <2>2
<1> QED BY <1>4

(* Induction up to n, the claim given as the set of numbers it holds of.   *)
LEMMA Upward ==
  ASSUME NEW n \in Nat, NEW T, 0 \in T, \A k \in 1..n : k - 1 \in T => k \in T
  PROVE  \A k \in 0..n : k \in T
<1> DEFINE F == {k \in 0..n : k \notin T}
<1>1. CASE F = {}
  BY <1>1
<1>2. CASE F # {}
  <2>1. PICK k \in F : \A j \in F : k <= j
    <3>1. F \in SUBSET Nat
      OBVIOUS
    <3> HIDE DEF F
    <3> QED BY <1>2, <3>1, LeastNumber
  <2>2. k \in 0..n /\ k \notin T /\ k # 0
    BY <2>1
  <2>3. k \in 1..n /\ k - 1 \in 0..n /\ ~(k <= k - 1)
    BY <2>2
  <2>4. k - 1 \in T
    BY <2>1, <2>3
  <2> QED BY <2>2, <2>3, <2>4
<1> QED BY <1>1, <1>2

(* A machine that steps from s0 by next has a run of n steps.              *)
IsRun(f, n, S, s0, next) ==
  /\ f \in [0..n -> S] /\ f[0] = s0
  /\ \A k \in 1..n : f[k] = next[<<k, f[k - 1]>>]

LEMMA RunExists ==
  ASSUME NEW n \in Nat, NEW S, NEW s0 \in S, NEW next \in [(1..n) \X S -> S]
  PROVE  \E f : IsRun(f, n, S, s0, next)
<1> DEFINE T == {m \in 0..n : \E f : IsRun(f, m, S, s0, next)}
<1>1. 0 \in T
  <2>1. IsRun([k \in 0..0 |-> s0], 0, S, s0, next)
    BY DEF IsRun
  <2> QED BY <2>1
<1>2. ASSUME NEW m \in 1..n, m - 1 \in T PROVE m \in T
  <2>1. PICK f : IsRun(f, m - 1, S, s0, next)
    BY <1>2
  <2> DEFINE x == next[<<m, f[m - 1]>>]
             g == [k \in 0..m |-> IF k = m THEN x ELSE f[k]]
  <2>2. f[m - 1] \in S /\ x \in S
    <3>1. f[m - 1] \in S
      BY <2>1 DEF IsRun
    <3>2. <<m, f[m - 1]>> \in (1..n) \X S
      BY <3>1
    <3> QED BY <3>1, <3>2
  <2>3. ASSUME NEW k \in 0..m, k # m PROVE k \in 0..(m - 1) /\ f[k] \in S
    <3>1. k \in 0..(m - 1)
      BY <2>3
    <3> QED BY <2>1, <3>1 DEF IsRun
  <2>4. g \in [0..m -> S] /\ g[m] = x /\ \A k \in 0..(m - 1) : g[k] = f[k]
    <3> HIDE DEF x
    <3> QED BY <2>2, <2>3
  <2>5. g[0] = s0
    BY <2>1, <2>4 DEF IsRun
  <2> HIDE DEF g
  <2>6. ASSUME NEW k \in 1..m PROVE g[k] = next[<<k, g[k - 1]>>]
    <3>1. CASE k = m
      <4>1. g[k - 1] = f[m - 1]
        BY <2>4, <3>1
      <4> QED BY <2>4, <3>1, <4>1
    <3>2. CASE k # m
      <4>1. k \in 1..(m - 1) /\ k - 1 \in 0..(m - 1) /\ k \in 0..(m - 1)
        BY <3>2
      <4>2. g[k] = f[k] /\ g[k - 1] = f[k - 1]
        BY <2>4, <4>1
      <4>3. f[k] = next[<<k, f[k - 1]>>]
        BY <2>1, <4>1 DEF IsRun
      <4> QED BY <4>2, <4>3
    <3> QED BY <3>1, <3>2
  <2>7. IsRun(g, m, S, s0, next)
    BY <2>4, <2>5, <2>6 DEF IsRun
  <2> QED BY <2>7
<1>3. n \in T
  <2> HIDE DEF T
  <2>1. \A k \in 0..n : k \in T
    BY <1>1, <1>2, Upward
  <2> QED BY <2>1
<1> QED BY <1>3

-----------------------------------------------------------------------------
(* Ascending lists                                                         *)

(* seq lists the rows of R in order, each once.                            *)
Lists(seq, R) == seq \in Seq(Nat) /\ IsAscending(seq) /\ Members(seq) = R

(* The entries of an ascending list are as far apart as their positions.   *)
LEMMA Apart ==
  ASSUME NEW seq \in Seq(Nat), IsAscending(seq)
  PROVE  \A i, j \in 1..Len(seq) : i <= j => seq[i] + (j - i) <= seq[j]
<1> DEFINE n == Len(seq)
<1>1. n \in Nat /\ \A i \in 1..n : seq[i] \in Nat
  OBVIOUS
<1>2. \A i \in 2..n : seq[i - 1] < seq[i]
  BY DEF IsAscending
<1> HIDE DEF n
<1>3. ASSUME NEW i \in 1..n PROVE \A d \in 0..(n - i) : seq[i] + d <= seq[i + d]
  <2> DEFINE T == {d \in 0..(n - i) : seq[i] + d <= seq[i + d]}
  <2>1. 0 \in T
    <3>1. i + 0 = i /\ 0 \in 0..(n - i) /\ seq[i] \in Nat
      BY <1>1
    <3> QED BY <3>1
  <2>2. ASSUME NEW d \in 1..(n - i), d - 1 \in T PROVE d \in T
    <3>1. i + d \in 2..n /\ i + d \in 1..n /\ i + (d - 1) = (i + d) - 1 /\ (i + d) - 1 \in 1..n
      BY <1>1
    <3>2. seq[i] + (d - 1) <= seq[(i + d) - 1]
      BY <2>2, <3>1
    <3>3. seq[(i + d) - 1] < seq[i + d]
      BY <1>2, <3>1
    <3>4. seq[i] \in Nat /\ seq[i + d] \in Nat /\ seq[(i + d) - 1] \in Nat
      BY <1>1, <3>1
    <3>5. seq[i] + d <= seq[i + d]
      <4>1. \A a, b, c \in Nat : a + (d - 1) <= b /\ b < c => a + d <= c
        OBVIOUS
      <4> QED BY <3>2, <3>3, <3>4, <4>1, Zenon
    <3>6. d \in 0..(n - i)
      OBVIOUS
    <3> QED BY <3>5, <3>6
  <2>3. \A d \in 0..(n - i) : d \in T
    <3>1. n - i \in Nat
      BY <1>1
    <3> HIDE DEF T
    <3> QED BY <2>1, <2>2, <3>1, Upward
  <2> QED BY <2>3
<1>4. ASSUME NEW i \in 1..n, NEW j \in 1..n, i <= j PROVE seq[i] + (j - i) <= seq[j]
  <2>1. j - i \in 0..(n - i) /\ i + (j - i) = j
    BY <1>1, <1>4
  <2> QED BY <1>3, <2>1
<1> QED BY <1>4 DEF n

(* What a list's entries are, and that they are told apart by order.       *)
LEMMA ListFacts ==
  ASSUME NEW seq, NEW R, Lists(seq, R)
  PROVE  /\ Len(seq) \in Nat /\ DOMAIN seq = 1..Len(seq) /\ R \subseteq Nat
         /\ \A i \in 1..Len(seq) : seq[i] \in R /\ seq[i] \in Nat
         /\ \A x \in R : \E i \in 1..Len(seq) : x = seq[i]
         /\ \A i, j \in 1..Len(seq) : seq[i] < seq[j] <=> i < j
         /\ \A i, j \in 1..Len(seq) : seq[i] = seq[j] => i = j
<1>1. /\ seq \in Seq(Nat) /\ IsAscending(seq) /\ R = {seq[i] : i \in DOMAIN seq}
      /\ Len(seq) \in Nat /\ DOMAIN seq = 1..Len(seq) /\ \A i \in 1..Len(seq) : seq[i] \in Nat
  BY DEF Lists, Members
<1>2. \A i, j \in 1..Len(seq) : i <= j => seq[i] + (j - i) <= seq[j]
  BY <1>1, Apart
<1>3. ASSUME NEW i \in 1..Len(seq), NEW j \in 1..Len(seq), i < j PROVE seq[i] < seq[j]
  <2>1. seq[i] \in Nat /\ seq[j] \in Nat /\ i \in Int /\ j \in Int
    BY <1>1
  <2>2. seq[i] + (j - i) <= seq[j]
    BY <1>2, <1>3, <2>1
  <2>3. \A a, b \in Nat : a + (j - i) <= b => a < b
    BY <1>3, <2>1
  <2> QED BY <2>1, <2>2, <2>3, Zenon
<1>4. \A i, j \in 1..Len(seq) : seq[i] < seq[j] <=> i < j
  <2> TAKE i, j \in 1..Len(seq)
  <2>1. seq[i] \in Nat /\ seq[j] \in Nat /\ i \in Int /\ j \in Int
    BY <1>1
  <2> QED BY <1>3, <2>1
<1>5. \A i, j \in 1..Len(seq) : seq[i] = seq[j] => i = j
  <2> TAKE i, j \in 1..Len(seq)
  <2>1. seq[i] \in Nat /\ seq[j] \in Nat /\ i \in Int /\ j \in Int
    BY <1>1
  <2> QED BY <1>3, <2>1
<1> QED BY <1>1, <1>4, <1>5

(* How to show a list.                                                     *)
LEMMA MakeList ==
  ASSUME NEW seq \in Seq(Nat), NEW R,
         \A i \in 1..Len(seq) : seq[i] \in R,
         \A x \in R : \E i \in 1..Len(seq) : x = seq[i],
         \A i \in 2..Len(seq) : seq[i - 1] < seq[i]
  PROVE  Lists(seq, R)
<1>1. DOMAIN seq = 1..Len(seq)
  OBVIOUS
<1> QED BY <1>1 DEF Lists, Members, IsAscending

(* A list is as long as its set is large.                                  *)
LEMMA ListSize ==
  ASSUME NEW seq, NEW R, Lists(seq, R)
  PROVE  IsFiniteSet(R) /\ Cardinality(R) = Len(seq)
<1>1. /\ seq \in [1..Len(seq) -> R] /\ Len(seq) \in Nat
      /\ \A x \in R : \E i \in 1..Len(seq) : seq[i] = x
      /\ \A i, j \in 1..Len(seq) : seq[i] = seq[j] => i = j
  <2>1. seq \in Seq(Nat)
    BY DEF Lists
  <2> QED BY <2>1, ListFacts
<1>2. seq \in Bijection(1..Len(seq), R)
  BY <1>1 DEF Bijection, Injection, Surjection, IsInjective
<1>3. ExistsBijection(1..Len(seq), R)
  BY <1>2 DEF ExistsBijection
<1> QED BY <1>1, <1>3, FS_CountingElements, FS_NatBijection

(* There is one list of a set.                                             *)
LEMMA OneList ==
  ASSUME NEW s, NEW t, NEW R, Lists(s, R), Lists(t, R)
  PROVE  s = t
<1> DEFINE n == Len(s)
<1>1. n = Len(t) /\ n \in Nat
  BY ListSize, ListFacts
<1>2. /\ \A i \in 1..n : s[i] \in R /\ s[i] \in Nat /\ t[i] \in R /\ t[i] \in Nat
      /\ \A x \in R : \E i \in 1..n : x = s[i]
      /\ \A x \in R : \E i \in 1..n : x = t[i]
      /\ \A i, j \in 1..n : s[i] < s[j] <=> i < j
      /\ \A i, j \in 1..n : t[i] < t[j] <=> i < j
  BY <1>1, ListFacts
<1>3. s = [i \in 1..n |-> s[i]] /\ t = [i \in 1..n |-> t[i]]
  <2>1. s \in Seq(Nat) /\ t \in Seq(Nat)
    BY DEF Lists
  <2> QED BY <1>1, <2>1
<1> HIDE DEF n
<1> DEFINE F == {i \in 1..n : s[i] # t[i]}
<1>4. CASE F = {}
  BY <1>3, <1>4
<1>5. CASE F # {}
  <2>1. PICK i \in F : \A j \in F : i <= j
    <3>1. F \in SUBSET Nat
      OBVIOUS
    <3> HIDE DEF F
    <3> QED BY <1>5, <3>1, LeastNumber
  <2>2. i \in 1..n /\ s[i] # t[i]
    BY <2>1
  <2>3. ASSUME NEW j \in 1..n, j < i PROVE s[j] = t[j]
    BY <1>1, <2>1, <2>2, <2>3
  <2>4. CASE s[i] < t[i]
    <3>1. PICK j \in 1..n : s[i] = t[j]
      BY <1>2, <2>2
    <3>2. j < i
      BY <1>2, <2>2, <2>4, <3>1
    <3>3. s[j] = s[i] /\ s[j] < s[i]
      BY <1>2, <2>2, <2>3, <3>1, <3>2
    <3> QED BY <1>2, <2>2, <3>3
  <2>5. CASE t[i] < s[i]
    <3>1. PICK j \in 1..n : t[i] = s[j]
      BY <1>2, <2>2
    <3>2. j < i
      BY <1>2, <2>2, <2>5, <3>1
    <3>3. t[j] = t[i] /\ t[j] < t[i]
      BY <1>2, <2>2, <2>3, <3>1, <3>2
    <3> QED BY <1>2, <2>2, <3>3
  <2> QED BY <1>2, <2>2, <2>4, <2>5
<1> QED BY <1>4, <1>5

(* The list of no rows, of an interval, and of one row more at the end.    *)
LEMMA EmptyLists == Lists(<<>>, {})
BY DEF Lists, Members, IsAscending

LEMMA RunLists ==
  ASSUME NEW a \in Nat, NEW b \in Nat
  PROVE  /\ Lists(Run(a, b), Interval(a, b)) /\ Len(Run(a, b)) = Minus(b, a)
         /\ \A i \in 1..Minus(b, a) : Run(a, b)[i] = a + i - 1
<1> DEFINE n == Minus(b, a)
           s == Run(a, b)
<1>1. n \in Nat /\ (a < b => n = b - a) /\ (~(a < b) => n = 0)
  BY DEF Minus
<1>2. s = [i \in 1..n |-> a + i - 1]
  BY DEF Run
<1> HIDE DEF n, s
<1>3. \A i \in 1..n : a + i - 1 \in Nat
  BY <1>1
<1>4. s \in Seq(Nat) /\ Len(s) = n /\ \A i \in 1..n : s[i] = a + i - 1
  BY <1>1, <1>2, <1>3
<1>5. \A i \in 1..n : s[i] \in Interval(a, b)
  BY <1>1, <1>4 DEF Interval
<1>6. ASSUME NEW x \in Interval(a, b) PROVE \E i \in 1..n : x = s[i]
  <2>1. x - a + 1 \in 1..n /\ a + (x - a + 1) - 1 = x
    BY <1>1 DEF Interval
  <2> QED BY <1>4, <2>1
<1>7. \A i \in 2..n : s[i - 1] < s[i]
  <2> TAKE i \in 2..n
  <2>1. i \in 1..n /\ i - 1 \in 1..n
    BY <1>1
  <2> QED BY <1>4, <2>1
<1> QED BY <1>4, <1>5, <1>6, <1>7, MakeList DEF s, n

LEMMA AppendLists ==
  ASSUME NEW seq, NEW R, Lists(seq, R), NEW x \in Nat, \A y \in R : y < x
  PROVE  Lists(Append(seq, x), R \cup {x})
<1> DEFINE n == Len(seq)
           s == Append(seq, x)
<1>1. seq \in Seq(Nat)
  BY DEF Lists
<1>2. /\ n \in Nat /\ (\A i \in 1..n : seq[i] \in R)
      /\ (\A y \in R : \E i \in 1..n : y = seq[i])
      /\ \A i \in 2..n : seq[i - 1] < seq[i]
  BY ListFacts DEF Lists, IsAscending
<1>3. /\ s \in Seq(Nat) /\ Len(s) = n + 1 /\ s[n + 1] = x
      /\ \A i \in 1..n : s[i] = seq[i]
  BY <1>1, AppendProperties
<1> HIDE DEF n, s
<1>4. \A i \in 1..(n + 1) : s[i] \in R \cup {x}
  <2> TAKE i \in 1..(n + 1)
  <2>1. i \in 1..n \/ i = n + 1
    BY <1>2
  <2> QED BY <1>2, <1>3, <2>1
<1>5. ASSUME NEW y \in R \cup {x} PROVE \E i \in 1..(n + 1) : y = s[i]
  <2>1. CASE y = x
    BY <1>2, <1>3, <2>1
  <2>2. CASE y \in R
    <3>1. PICK i \in 1..n : y = seq[i]
      BY <1>2, <2>2
    <3>2. i \in 1..(n + 1)
      BY <1>2
    <3> QED BY <1>3, <3>1, <3>2
  <2> QED BY <2>1, <2>2
<1>6. ASSUME NEW i \in 2..(n + 1) PROVE s[i - 1] < s[i]
  <2>1. i - 1 \in 1..n
    BY <1>2
  <2>2. s[i - 1] = seq[i - 1] /\ seq[i - 1] \in R
    BY <1>2, <1>3, <2>1
  <2>3. CASE i = n + 1
    BY <1>3, <2>2, <2>3
  <2>4. CASE i # n + 1
    <3>1. i \in 1..n /\ i \in 2..n
      BY <1>2, <2>4
    <3> QED BY <1>2, <1>3, <2>2, <3>1
  <2> QED BY <2>3, <2>4
<1>7. Lists(s, R \cup {x})
  <2> DEFINE U == R \cup {x}
  <2>1. (\A i \in 1..Len(s) : s[i] \in U) /\ \A y \in U : \E i \in 1..Len(s) : y = s[i]
    BY <1>3, <1>4, <1>5
  <2>2. \A i \in 2..Len(s) : s[i - 1] < s[i]
    BY <1>3, <1>6
  <2> HIDE DEF U
  <2>3. Lists(s, U)
    BY <1>3, <2>1, <2>2, MakeList
  <2> QED BY <2>3 DEF U
<1> QED BY <1>7 DEF s

(* A slice of a list.                                                      *)
LEMMA SliceFacts ==
  ASSUME NEW seq, NEW R, Lists(seq, R), NEW a \in 0..Len(seq), NEW b \in a..Len(seq)
  PROVE  /\ Lists(Sublist(seq, a, b), {seq[i] : i \in (a + 1)..b})
         /\ Len(Sublist(seq, a, b)) = b - a
         /\ \A i \in 1..(b - a) : Sublist(seq, a, b)[i] = seq[a + i]
<1> DEFINE s == Sublist(seq, a, b)
           n == Len(seq)
<1>1. seq \in Seq(Nat)
  BY DEF Lists
<1>2. /\ n \in Nat /\ (\A i \in 1..n : seq[i] \in Nat)
      /\ \A i \in 2..n : seq[i - 1] < seq[i]
  BY ListFacts DEF Lists, IsAscending
<1>3. s \in Seq(Nat) /\ Len(s) = b - a /\ \A i \in 1..(b - a) : s[i] = seq[a + i]
  BY <1>1, <1>2 DEF Sublist
<1>4. a \in 0..n /\ b \in a..n
  OBVIOUS
<1> HIDE DEF s, n
<1>5. ASSUME NEW i \in 1..(b - a) PROVE s[i] \in {seq[j] : j \in (a + 1)..b}
  <2>1. a + i \in (a + 1)..b
    BY <1>2, <1>4
  <2> QED BY <1>3, <2>1
<1>6. ASSUME NEW x \in {seq[j] : j \in (a + 1)..b} PROVE \E i \in 1..(b - a) : x = s[i]
  <2>1. PICK j \in (a + 1)..b : x = seq[j]
    OBVIOUS
  <2>2. j - a \in 1..(b - a) /\ a + (j - a) = j
    BY <1>2, <1>4
  <2> QED BY <1>3, <2>1, <2>2
<1>7. ASSUME NEW i \in 2..(b - a) PROVE s[i - 1] < s[i]
  <2>1. i \in 1..(b - a) /\ i - 1 \in 1..(b - a) /\ a + (i - 1) = (a + i) - 1 /\ a + i \in 2..n
    BY <1>2, <1>4
  <2> QED BY <1>2, <1>3, <2>1
<1>8. Lists(s, {seq[i] : i \in (a + 1)..b})
  <2> DEFINE U == {seq[i] : i \in (a + 1)..b}
  <2>1. (\A i \in 1..Len(s) : s[i] \in U) /\ \A x \in U : \E i \in 1..Len(s) : x = s[i]
    BY <1>3, <1>5, <1>6
  <2> HIDE DEF U
  <2>2. Lists(s, U)
    BY <1>3, <1>7, <2>1, MakeList
  <2> QED BY <2>2 DEF U
<1> QED BY <1>3, <1>8 DEF s

(* Below splits a list at x.                                               *)
LEMMA BelowCuts ==
  ASSUME NEW seq, NEW R, Lists(seq, R), NEW x \in Nat
  PROVE  /\ Below(seq, x) \in 0..Len(seq)
         /\ \A i \in 1..Len(seq) : seq[i] < x <=> i <= Below(seq, x)
<1> DEFINE n == Len(seq)
           T == {m \in 0..n : m = n \/ ~(seq[m + 1] < x)}
           B == {i \in DOMAIN seq : seq[i] < x}
<1>1. /\ n \in Nat /\ DOMAIN seq = 1..n /\ (\A i \in 1..n : seq[i] \in Nat)
      /\ \A i, j \in 1..n : seq[i] < seq[j] <=> i < j
  BY ListFacts
<1> HIDE DEF n
<1>2. PICK m \in T : \A k \in T : m <= k
  <2>1. T \in SUBSET Nat /\ n \in T
    BY <1>1
  <2> HIDE DEF T
  <2> QED BY <2>1, LeastNumber
<1>3. m \in 0..n /\ (m = n \/ ~(seq[m + 1] < x))
  BY <1>2
<1>4. ASSUME NEW i \in 1..n PROVE seq[i] < x <=> i <= m
  <2>1. CASE i <= m
    <3>1. i - 1 \in 0..n /\ ~(m <= i - 1) /\ (i - 1) + 1 = i
      BY <1>1, <1>3, <2>1
    <3>2. i - 1 \notin T
      BY <1>2, <3>1
    <3> QED BY <2>1, <3>1, <3>2
  <2>2. CASE ~(i <= m)
    <3>1. m + 1 \in 1..n /\ m # n /\ (m + 1 = i \/ m + 1 < i)
      BY <1>1, <1>3, <2>2
    <3>2. seq[m + 1] <= seq[i]
      BY <1>1, <3>1
    <3>3. seq[m + 1] \in Nat /\ seq[i] \in Nat /\ ~(seq[m + 1] < x)
      BY <1>1, <1>3, <3>1
    <3> QED BY <2>2, <3>2, <3>3
  <2> QED BY <2>1, <2>2
<1>5. B = 1..m
  BY <1>1, <1>3, <1>4
<1>6. Cardinality(B) = m
  <2>1. m \in Int /\ (IF 1 > m THEN 0 ELSE m - 1 + 1) = m
    BY <1>1, <1>3
  <2>2. Cardinality(1..m) = m
    BY <2>1, FS_Interval
  <2> QED BY <1>5, <2>2
<1>7. Below(seq, x) = m
  BY <1>6 DEF Below
<1> QED BY <1>3, <1>4, <1>7 DEF n

(* A row's place in its set is its position in the list.                   *)
LEMMA PlaceIs ==
  ASSUME NEW seq, NEW R, Lists(seq, R), NEW i \in 1..Len(seq)
  PROVE  Place(R, seq[i]) = i - 1
<1> DEFINE n == Len(seq)
           B == {other \in R : other < seq[i]}
           f == [j \in 1..(i - 1) |-> seq[j]]
<1>1. /\ n \in Nat /\ (\A j \in 1..n : seq[j] \in R /\ seq[j] \in Nat)
      /\ (\A x \in R : \E j \in 1..n : x = seq[j])
      /\ (\A j, k \in 1..n : seq[j] < seq[k] <=> j < k)
      /\ (\A j, k \in 1..n : seq[j] = seq[k] => j = k)
  BY ListFacts
<1>2. i \in 1..n
  OBVIOUS
<1> HIDE DEF n
<1>3. \A j \in 1..(i - 1) : j \in 1..n /\ seq[j] \in B
  BY <1>1, <1>2
<1>4. ASSUME NEW x \in B PROVE \E j \in 1..(i - 1) : f[j] = x
  <2>1. PICK j \in 1..n : x = seq[j]
    BY <1>1
  <2>2. j < i
    BY <1>1, <1>2, <2>1
  <2>3. j \in 1..(i - 1)
    BY <1>1, <1>2, <2>2
  <2> QED BY <2>1, <2>3
<1> HIDE DEF B
<1>5. f \in Bijection(1..(i - 1), B)
  BY <1>1, <1>3, <1>4 DEF Bijection, Injection, Surjection, IsInjective
<1>6. Cardinality(B) = i - 1
  <2>1. i - 1 \in Nat /\ ExistsBijection(1..(i - 1), B)
    BY <1>1, <1>2, <1>5 DEF ExistsBijection
  <2> QED BY <2>1, FS_CountingElements
<1> QED BY <1>6 DEF Place, B

(* A slice is the rows by their place.                                     *)
LEMMA SliceByPlace ==
  ASSUME NEW seq, NEW R, Lists(seq, R), NEW a \in 0..Len(seq), NEW b \in a..Len(seq)
  PROVE  {seq[i] : i \in (a + 1)..b} = {row \in R : a <= Place(R, row) /\ Place(R, row) < b}
<1> DEFINE n == Len(seq)
<1>1. /\ n \in Nat /\ (\A j \in 1..n : seq[j] \in R)
      /\ (\A x \in R : \E j \in 1..n : x = seq[j])
  BY ListFacts
<1>2. \A j \in 1..n : Place(R, seq[j]) = j - 1
  BY PlaceIs
<1>3. a \in 0..n /\ b \in a..n
  OBVIOUS
<1> HIDE DEF n
<1>4. ASSUME NEW i \in (a + 1)..b
      PROVE  seq[i] \in R /\ a <= Place(R, seq[i]) /\ Place(R, seq[i]) < b
  <2>1. i \in 1..n
    BY <1>1, <1>3
  <2> QED BY <1>1, <1>2, <1>3, <2>1
<1>5. ASSUME NEW x \in R, a <= Place(R, x), Place(R, x) < b
      PROVE  \E i \in (a + 1)..b : x = seq[i]
  <2>1. PICK j \in 1..n : x = seq[j]
    BY <1>1
  <2>2. Place(R, x) = j - 1
    BY <1>2, <2>1
  <2>3. j \in (a + 1)..b
    BY <1>1, <1>3, <1>5, <2>2
  <2> QED BY <2>1, <2>3
<1> QED BY <1>4, <1>5

(* What steps by next from s0, whatever it does elsewhere, is a run.       *)
LEMMA StepsRun ==
  ASSUME NEW n \in Nat, NEW S, NEW s0 \in S, NEW next \in [(1..n) \X S -> S],
         NEW g, g = [k \in 0..n |-> g[k]], g[0] = s0,
         \A k \in 1..n : g[k - 1] \in S => g[k] = next[<<k, g[k - 1]>>]
  PROVE  IsRun(g, n, S, s0, next)
<1> DEFINE T == {k \in 0..n : g[k] \in S}
<1>1. 0 \in T
  OBVIOUS
<1>2. ASSUME NEW k \in 1..n, k - 1 \in T PROVE k \in T
  <2>1. g[k - 1] \in S
    BY <1>2
  <2>2. <<k, g[k - 1]>> \in (1..n) \X S
    BY <2>1
  <2>3. g[k] \in S
    BY <2>1, <2>2
  <2> QED BY <2>3
<1>3. \A k \in 0..n : k \in T
  <2> HIDE DEF T
  <2> QED BY <1>1, <1>2, Upward
<1>4. \A k \in 0..n : g[k] \in S
  BY <1>3
<1>5. g \in [0..n -> S]
  BY <1>4
<1>6. ASSUME NEW k \in 1..n PROVE g[k] = next[<<k, g[k - 1]>>]
  <2>1. k - 1 \in 0..n
    OBVIOUS
  <2> QED BY <1>4, <2>1
<1> QED BY <1>5, <1>6 DEF IsRun

-----------------------------------------------------------------------------
(* Filters                                                                 *)

(* What is kept of the first k entries.                                    *)
IsFilter(f, seq, S) ==
  /\ f \in [0..Len(seq) -> Seq(Members(seq))] /\ f[0] = <<>>
  /\ \A k \in 1..Len(seq) :
       f[k] = IF seq[k] \in S THEN Append(f[k - 1], seq[k]) ELSE f[k - 1]

LEMMA FilterRuns ==
  ASSUME NEW X, NEW seq \in Seq(X), NEW S
  PROVE  \E f : IsFilter(f, seq, S) /\ Filtered(seq, S) = f[Len(seq)]
<1> DEFINE n == Len(seq)
           Y == Members(seq)
           Z == Seq(Y)
           next == [p \in (1..n) \X Z |->
                      IF seq[p[1]] \in S THEN Append(p[2], seq[p[1]]) ELSE p[2]]
           Is(g) == g = [k \in 0..n |-> IF k = 0 THEN <<>>
                           ELSE IF seq[k] \in S THEN Append(g[k - 1], seq[k]) ELSE g[k - 1]]
           f == CHOOSE g : Is(g)
<1>1. n \in Nat /\ \A k \in 1..n : seq[k] \in Y
  BY DEF Members
<1>2. Filtered(seq, S) = f[n]
  BY DEF Filtered
<1> HIDE DEF n, Y
<1>3. <<>> \in Z /\ \A k \in 1..n, s \in Z : Append(s, seq[k]) \in Z
  BY <1>1
<1>4. next \in [(1..n) \X Z -> Z]
  <2> HIDE DEF Z
  <2> QED BY <1>3
<1>5. \A k \in 1..n, s \in Z : next[<<k, s>>] = IF seq[k] \in S THEN Append(s, seq[k]) ELSE s
  <2> HIDE DEF Z
  <2> QED OBVIOUS
<1> HIDE DEF Z, next
<1>6. \E g : Is(g)
  <2>1. PICK g : IsRun(g, n, Z, <<>>, next)
    BY <1>1, <1>3, <1>4, RunExists
  <2>2. g = [k \in 0..n |-> g[k]] /\ g[0] = <<>>
    BY <2>1 DEF IsRun
  <2>3. ASSUME NEW k \in 1..n
        PROVE  g[k] = IF seq[k] \in S THEN Append(g[k - 1], seq[k]) ELSE g[k - 1]
    <3>1. g[k] = next[<<k, g[k - 1]>>] /\ k - 1 \in 0..n
      BY <1>1, <2>1 DEF IsRun
    <3>2. g[k - 1] \in Z
      BY <2>1, <3>1 DEF IsRun
    <3> QED BY <1>5, <3>1, <3>2
  <2>4. \A k \in 0..n : k = 0 \/ k \in 1..n
    BY <1>1
  <2>5. Is(g)
    BY <2>2, <2>3, <2>4
  <2> QED BY <2>5
<1>7. Is(f)
  <2> HIDE DEF Is
  <2> QED BY <1>6
<1> HIDE DEF f
<1>8. f = [k \in 0..n |-> f[k]] /\ f[0] = <<>>
  BY <1>1, <1>7
<1>9. ASSUME NEW k \in 1..n
      PROVE  f[k] = IF seq[k] \in S THEN Append(f[k - 1], seq[k]) ELSE f[k - 1]
  <2>1. k \in 0..n /\ k # 0
    BY <1>1
  <2> QED BY <1>7, <2>1
<1>10. IsRun(f, n, Z, <<>>, next)
  <2>1. \A k \in 1..n : f[k - 1] \in Z => f[k] = next[<<k, f[k - 1]>>]
    BY <1>5, <1>9
  <2> HIDE DEF Is
  <2> QED BY <1>1, <1>3, <1>4, <1>8, <2>1, StepsRun
<1>11. IsFilter(f, seq, S)
  <2>1. f \in [0..n -> Seq(Members(seq))]
    BY <1>10 DEF IsRun, Z, Y
  <2> QED BY <1>8, <1>9, <2>1 DEF IsFilter, n
<1> QED BY <1>2, <1>11 DEF n

(* A filter of a list lists the rows it keeps.                             *)
LEMMA FilteredLists ==
  ASSUME NEW seq, NEW R, Lists(seq, R), NEW S
  PROVE  Lists(Filtered(seq, S), R \cap S)
<1> DEFINE n == Len(seq)
<1>1. seq \in Seq(Nat)
  BY DEF Lists
<1>2. PICK f : IsFilter(f, seq, S) /\ Filtered(seq, S) = f[n]
  BY <1>1, FilterRuns
<1>3. /\ n \in Nat /\ (\A i \in 1..n : seq[i] \in R /\ seq[i] \in Nat)
      /\ (\A x \in R : \E i \in 1..n : x = seq[i])
      /\ (\A i, j \in 1..n : seq[i] < seq[j] <=> i < j)
  BY ListFacts
<1>4. f[0] = <<>> /\ \A k \in 1..n : f[k] = IF seq[k] \in S THEN Append(f[k - 1], seq[k]) ELSE f[k - 1]
  BY <1>2 DEF IsFilter
<1> HIDE DEF n
<1> DEFINE U(k) == {x \in S : \E i \in 1..k : x = seq[i]}
           T == {k \in 0..n : Lists(f[k], U(k))}
<1>5. 0 \in T
  <2>1. U(0) = {}
    OBVIOUS
  <2> QED BY <1>3, <1>4, <2>1, EmptyLists
<1>6. ASSUME NEW k \in 1..n, k - 1 \in T PROVE k \in T
  <2>1. Lists(f[k - 1], U(k - 1))
    BY <1>6
  <2>2. seq[k] \in Nat /\ \A x \in U(k - 1) : x < seq[k]
    BY <1>3
  <2>3. \A x : (\E i \in 1..k : x = seq[i]) <=> ((\E i \in 1..(k - 1) : x = seq[i]) \/ x = seq[k])
    <3>1. \A i \in 1..k : i \in 1..(k - 1) \/ i = k
      OBVIOUS
    <3>2. (\A i \in 1..(k - 1) : i \in 1..k) /\ k \in 1..k
      OBVIOUS
    <3> QED BY <3>1, <3>2
  <2>4. CASE seq[k] \in S
    <3>1. U(k) = U(k - 1) \cup {seq[k]}
      BY <2>3, <2>4
    <3> HIDE DEF U
    <3>2. Lists(f[k], U(k))
      BY <1>4, <2>1, <2>2, <2>4, <3>1, AppendLists
    <3> QED BY <3>2
  <2>5. CASE seq[k] \notin S
    <3>1. U(k) = U(k - 1)
      BY <2>3, <2>5
    <3> HIDE DEF U
    <3>2. Lists(f[k], U(k))
      BY <1>4, <2>1, <2>5, <3>1
    <3> QED BY <3>2
  <2> QED BY <2>4, <2>5
<1>7. Lists(f[n], U(n))
  <2>1. \A k \in 0..n : k \in T
    <3> HIDE DEF T
    <3> QED BY <1>3, <1>5, <1>6, Upward
  <2>2. n \in 0..n
    BY <1>3
  <2> HIDE DEF U
  <2> QED BY <2>1, <2>2
<1>8. U(n) = R \cap S
  BY <1>3
<1> HIDE DEF U
<1> QED BY <1>2, <1>7, <1>8

-----------------------------------------------------------------------------
(* Intersections                                                           *)

(* The states of a run, one by one.                                        *)
LEMMA RunStates ==
  ASSUME NEW n \in Nat, NEW S, NEW s0, NEW next, NEW g, IsRun(g, n, S, s0, next)
  PROVE  /\ g = [k \in 0..n |-> g[k]] /\ g[0] = s0
         /\ \A k \in 0..n : g[k] \in S
         /\ \A k \in 1..n : g[k - 1] \in S /\ g[k] = next[<<k, g[k - 1]>>]
<1>1. \A k \in 1..n : k - 1 \in 0..n
  OBVIOUS
<1> QED BY <1>1 DEF IsRun

(* The merge of MergedIds, a step at a time.                               *)
MergeStep(l, r, m) ==
  IF m.i > Len(l) \/ m.j > Len(r) THEN m
  ELSE IF l[m.i] < r[m.j] THEN [m EXCEPT !.i = @ + 1]
  ELSE IF l[m.i] > r[m.j] THEN [m EXCEPT !.j = @ + 1]
  ELSE [i |-> m.i + 1, j |-> m.j + 1, out |-> Append(m.out, l[m.i])]

MergeStates(l, r) == [i : 1..(Len(l) + 1), j : 1..(Len(r) + 1), out : Seq(Nat)]

LEMMA MergeStepTyped ==
  ASSUME NEW l \in Seq(Nat), NEW r \in Seq(Nat), NEW m \in MergeStates(l, r)
  PROVE  MergeStep(l, r, m) \in MergeStates(l, r)
<1> DEFINE n == Len(l)
           o == Len(r)
           S == [i : 1..(n + 1), j : 1..(o + 1), out : Seq(Nat)]
<1>1. n \in Nat /\ o \in Nat /\ m \in S
  BY DEF MergeStates
<1>2. \A i \in 1..n : l[i] \in Nat
  OBVIOUS
<1> HIDE DEF n, o
<1>3. m.i \in 1..(n + 1) /\ m.j \in 1..(o + 1) /\ m.out \in Seq(Nat)
  BY <1>1
<1>4. CASE m.i > n \/ m.j > o
  <2>1. MergeStep(l, r, m) = m
    BY <1>4 DEF MergeStep, n, o
  <2> QED BY <2>1
<1>5. CASE ~(m.i > n \/ m.j > o)
  <2>1. m.i + 1 \in 1..(n + 1) /\ m.j + 1 \in 1..(o + 1) /\ m.i \in 1..n
    BY <1>1, <1>3, <1>5
  <2>2. Append(m.out, l[m.i]) \in Seq(Nat)
    BY <1>2, <1>3, <2>1
  <2>3. [m EXCEPT !.i = @ + 1] \in S /\ [m EXCEPT !.j = @ + 1] \in S
    BY <1>1, <2>1
  <2>4. [i |-> m.i + 1, j |-> m.j + 1, out |-> Append(m.out, l[m.i])] \in S
    BY <2>1, <2>2
  <2>5. MergeStep(l, r, m) \in {[m EXCEPT !.i = @ + 1], [m EXCEPT !.j = @ + 1],
                                [i |-> m.i + 1, j |-> m.j + 1, out |-> Append(m.out, l[m.i])]}
    BY <1>5 DEF MergeStep, n, o
  <2>6. MergeStep(l, r, m) \in S
    <3> HIDE DEF S
    <3> QED BY <2>3, <2>4, <2>5
  <2> QED BY <2>6 DEF MergeStates, n, o
<1> QED BY <1>4, <1>5

(* The merge's run.                                                        *)
IsMerge(f, l, r) ==
  /\ f[0] = [i |-> 1, j |-> 1, out |-> <<>>]
  /\ \A k \in 0..(Len(l) + Len(r)) : f[k] \in MergeStates(l, r)
  /\ \A k \in 1..(Len(l) + Len(r)) : f[k] = MergeStep(l, r, f[k - 1])

LEMMA MergeRuns ==
  ASSUME NEW l \in Seq(Nat), NEW r \in Seq(Nat)
  PROVE  \E f : IsMerge(f, l, r) /\ MergedIds(l, r) = f[Len(l) + Len(r)].out
<1> DEFINE n == Len(l) + Len(r)
           S == MergeStates(l, r)
           s0 == [i |-> 1, j |-> 1, out |-> <<>>]
           next == [p \in (1..n) \X S |-> MergeStep(l, r, p[2])]
           Is(g) == g = [k \in 0..n |-> IF k = 0 THEN s0 ELSE MergeStep(l, r, g[k - 1])]
           f == CHOOSE g : Is(g)
<1>1. n \in Nat /\ s0 \in S
  BY DEF MergeStates
<1>2. MergedIds(l, r) = f[n].out
  BY DEF MergedIds, MergeStep
<1>3. \A m \in S : MergeStep(l, r, m) \in S
  BY MergeStepTyped
<1> HIDE DEF n, S, s0
<1>4. next \in [(1..n) \X S -> S]
  BY <1>3
<1>5. \A k \in 1..n, m \in S : next[<<k, m>>] = MergeStep(l, r, m)
  OBVIOUS
<1> HIDE DEF next
<1>6. \E g : Is(g)
  <2>1. PICK g : IsRun(g, n, S, s0, next)
    BY <1>1, <1>4, RunExists
  <2>2. g = [k \in 0..n |-> g[k]] /\ g[0] = s0 /\ \A k \in 1..n : g[k - 1] \in S /\ g[k] = next[<<k, g[k - 1]>>]
    BY <1>1, <2>1, RunStates
  <2>3. \A k \in 1..n : g[k] = MergeStep(l, r, g[k - 1])
    BY <1>5, <2>2
  <2>4. \A k \in 0..n : k = 0 \/ k \in 1..n
    BY <1>1
  <2>5. Is(g)
    BY <2>2, <2>3, <2>4
  <2> QED BY <2>5
<1>7. Is(f)
  <2> HIDE DEF Is
  <2> QED BY <1>6
<1> HIDE DEF f
<1>8. f = [k \in 0..n |-> f[k]] /\ f[0] = s0
  BY <1>1, <1>7
<1>9. ASSUME NEW k \in 1..n PROVE f[k] = MergeStep(l, r, f[k - 1])
  <2>1. k \in 0..n /\ k # 0
    BY <1>1
  <2> QED BY <1>7, <2>1
<1>10. IsRun(f, n, S, s0, next)
  <2>1. \A k \in 1..n : f[k - 1] \in S => f[k] = next[<<k, f[k - 1]>>]
    BY <1>5, <1>9
  <2> HIDE DEF Is
  <2> QED BY <1>1, <1>4, <1>8, <2>1, StepsRun
<1>11. IsMerge(f, l, r)
  <2>1. \A k \in 0..n : f[k] \in S
    BY <1>1, <1>10, RunStates
  <2> QED BY <1>8, <1>9, <2>1 DEF IsMerge, n, S, s0
<1> QED BY <1>2, <1>11 DEF n

(* After a step of the merge: out lists the common rows of l before i, the *)
(* common rows of r before j are among them, and k entries are behind or   *)
(* one of the lists has ended.                                             *)
MergeInv(m, k, l, r, C) ==
  /\ Lists(m.out, {x \in C : \E a \in 1..(m.i - 1) : x = l[a]})
  /\ \A b \in 1..(m.j - 1) : r[b] \in C => \E a \in 1..(m.i - 1) : r[b] = l[a]
  /\ m.i > Len(l) \/ m.j > Len(r) \/ m.i + m.j >= k + 2

LEMMA MergeKeeps ==
  ASSUME NEW l, NEW L, Lists(l, L), NEW r, NEW R, Lists(r, R),
         NEW m \in MergeStates(l, r), NEW k \in Nat, MergeInv(m, k, l, r, L \cap R)
  PROVE  MergeInv(MergeStep(l, r, m), k + 1, l, r, L \cap R)
<1> DEFINE n == Len(l)
           o == Len(r)
           i == m.i
           j == m.j
           C == L \cap R
           U(e) == {x \in C : \E a \in 1..(e - 1) : x = l[a]}
<1>1. /\ n \in Nat /\ (\A a \in 1..n : l[a] \in L /\ l[a] \in Nat)
      /\ (\A x \in L : \E a \in 1..n : x = l[a])
      /\ (\A a, b \in 1..n : l[a] < l[b] <=> a < b)
      /\ (\A a, b \in 1..n : l[a] = l[b] => a = b)
  BY ListFacts
<1>2. /\ o \in Nat /\ (\A a \in 1..o : r[a] \in R /\ r[a] \in Nat)
      /\ (\A x \in R : \E a \in 1..o : x = r[a])
      /\ (\A a, b \in 1..o : r[a] < r[b] <=> a < b)
  BY ListFacts
<1>3. i \in 1..(n + 1) /\ j \in 1..(o + 1)
  BY DEF MergeStates
<1>4. /\ Lists(m.out, U(i))
      /\ \A b \in 1..(j - 1) : r[b] \in C => \E a \in 1..(i - 1) : r[b] = l[a]
      /\ i > n \/ j > o \/ i + j >= k + 2
  BY DEF MergeInv
<1>5. CASE i > n \/ j > o
  <2>1. MergeStep(l, r, m) = m
    BY <1>5 DEF MergeStep
  <2> QED BY <1>4, <1>5, <2>1 DEF MergeInv
<1>6. CASE ~(i > n \/ j > o)
  <2>1. i \in 1..n /\ j \in 1..o /\ i + j >= k + 2
    BY <1>1, <1>2, <1>3, <1>4, <1>6
  <2>2. l[i] \in Nat /\ r[j] \in Nat /\ l[i] \in L /\ r[j] \in R
    BY <1>1, <1>2, <2>1
  <2>3. (i + 1) - 1 = i /\ (j + 1) - 1 = j
    BY <2>1
  <2>4. CASE l[i] < r[j]
    <3>1. MergeStep(l, r, m) = [m EXCEPT !.i = @ + 1]
      BY <1>6, <2>4 DEF MergeStep
    <3>2. MergeStep(l, r, m).i = i + 1 /\ MergeStep(l, r, m).j = j /\ MergeStep(l, r, m).out = m.out
      BY <3>1 DEF MergeStates
    <3>3. l[i] \notin C
      <4> SUFFICES ASSUME l[i] \in C PROVE FALSE
        OBVIOUS
      <4>1. PICK b \in 1..o : l[i] = r[b]
        BY <1>2
      <4>2. b < j
        BY <1>2, <2>1, <2>4, <4>1
      <4>3. b \in 1..(j - 1)
        BY <2>1, <4>2
      <4>4. PICK a \in 1..(i - 1) : r[b] = l[a]
        BY <1>4, <4>1, <4>3
      <4>5. a \in 1..n /\ a # i
        BY <1>1, <2>1
      <4> QED BY <1>1, <2>1, <4>1, <4>4, <4>5
    <3>4. \A a \in 1..i : a \in 1..(i - 1) \/ a = i
      BY <2>1
    <3>5. \A a \in 1..(i - 1) : a \in 1..i
      BY <2>1
    <3>6. U(i + 1) = U(i)
      BY <2>3, <3>3, <3>4, <3>5
    <3>7. \A b \in 1..(j - 1) : r[b] \in C => \E a \in 1..i : r[b] = l[a]
      BY <1>4, <3>5
    <3>8. (i + 1) + j >= (k + 1) + 2
      BY <2>1
    <3>9. Lists(MergeStep(l, r, m).out, U(MergeStep(l, r, m).i))
      <4> HIDE DEF U
      <4> QED BY <1>4, <3>2, <3>6
    <3> QED BY <2>3, <3>2, <3>7, <3>8, <3>9 DEF MergeInv
  <2>5. CASE l[i] > r[j]
    <3>1. MergeStep(l, r, m) = [m EXCEPT !.j = @ + 1]
      BY <1>6, <2>2, <2>5 DEF MergeStep
    <3>2. MergeStep(l, r, m).i = i /\ MergeStep(l, r, m).j = j + 1 /\ MergeStep(l, r, m).out = m.out
      BY <3>1 DEF MergeStates
    <3>3. ASSUME NEW b \in 1..j, r[b] \in C PROVE \E a \in 1..(i - 1) : r[b] = l[a]
      <4>1. CASE b = j
        <5>1. PICK a \in 1..n : r[b] = l[a]
          BY <1>1, <3>3
        <5>2. a < i
          BY <1>1, <2>1, <2>5, <4>1, <5>1
        <5>3. a \in 1..(i - 1)
          BY <2>1, <5>2
        <5> QED BY <5>1, <5>3
      <4>2. CASE b # j
        <5>1. b \in 1..(j - 1)
          BY <2>1, <4>2
        <5> QED BY <1>4, <3>3, <5>1
      <4> QED BY <4>1, <4>2
    <3>4. i + (j + 1) >= (k + 1) + 2
      BY <2>1
    <3>5. Lists(MergeStep(l, r, m).out, U(MergeStep(l, r, m).i))
      <4> HIDE DEF U
      <4> QED BY <1>4, <3>2
    <3> QED BY <2>3, <3>2, <3>3, <3>4, <3>5 DEF MergeInv
  <2>6. CASE l[i] = r[j]
    <3>1. MergeStep(l, r, m) = [i |-> i + 1, j |-> j + 1, out |-> Append(m.out, l[i])]
      BY <1>6, <2>2, <2>6 DEF MergeStep
    <3>2. MergeStep(l, r, m).i = i + 1 /\ MergeStep(l, r, m).j = j + 1 /\ MergeStep(l, r, m).out = Append(m.out, l[i])
      BY <3>1
    <3>3. \A a \in 1..i : a \in 1..(i - 1) \/ a = i
      BY <2>1
    <3>4. (\A a \in 1..(i - 1) : a \in 1..i) /\ i \in 1..i
      BY <2>1
    <3>5. U(i + 1) = U(i) \cup {l[i]}
      BY <2>2, <2>3, <2>6, <3>3, <3>4
    <3>6. \A y \in U(i) : y < l[i]
      <4> TAKE y \in U(i)
      <4>1. PICK a \in 1..(i - 1) : y = l[a]
        OBVIOUS
      <4>2. a \in 1..n /\ a < i
        BY <1>1, <2>1
      <4> QED BY <1>1, <2>1, <4>1, <4>2
    <3>7. ASSUME NEW b \in 1..j, r[b] \in C PROVE \E a \in 1..i : r[b] = l[a]
      <4>1. CASE b = j
        BY <2>6, <3>4, <4>1
      <4>2. CASE b # j
        <5>1. b \in 1..(j - 1)
          BY <2>1, <4>2
        <5> QED BY <1>4, <3>4, <3>7, <5>1
      <4> QED BY <4>1, <4>2
    <3>8. (i + 1) + (j + 1) >= (k + 1) + 2
      BY <2>1
    <3>9. Lists(MergeStep(l, r, m).out, U(MergeStep(l, r, m).i))
      <4> HIDE DEF U, i, j
      <4> QED BY <1>4, <2>2, <3>2, <3>5, <3>6, AppendLists
    <3> QED BY <2>3, <3>2, <3>7, <3>8, <3>9 DEF MergeInv
  <2> QED BY <2>2, <2>4, <2>5, <2>6
<1> QED BY <1>5, <1>6

(* Merging two lists lists what they have in common.                       *)
LEMMA MergedLists ==
  ASSUME NEW l, NEW L, Lists(l, L), NEW r, NEW R, Lists(r, R)
  PROVE  Lists(MergedIds(l, r), L \cap R)
<1> DEFINE n == Len(l)
           o == Len(r)
           e == n + o
           C == L \cap R
<1>1. l \in Seq(Nat) /\ r \in Seq(Nat)
  BY DEF Lists
<1>2. PICK f : IsMerge(f, l, r) /\ MergedIds(l, r) = f[e].out
  BY <1>1, MergeRuns
<1>3. /\ f[0] = [i |-> 1, j |-> 1, out |-> <<>>]
      /\ \A k \in 0..e : f[k] \in MergeStates(l, r)
      /\ \A k \in 1..e : f[k] = MergeStep(l, r, f[k - 1])
  BY <1>2 DEF IsMerge
<1>4. n \in Nat /\ o \in Nat /\ e \in Nat
  BY <1>1
<1> DEFINE T == {k \in 0..e : MergeInv(f[k], k, l, r, C)}
<1>5. 0 \in T
  <2>1. {x \in C : \E a \in 1..(1 - 1) : x = l[a]} = {}
    OBVIOUS
  <2>2. f[0].i = 1 /\ f[0].j = 1 /\ f[0].out = <<>>
    BY <1>3
  <2>3. Lists(f[0].out, {x \in C : \E a \in 1..(f[0].i - 1) : x = l[a]})
    BY <2>1, <2>2, EmptyLists
  <2>4. \A b \in 1..(f[0].j - 1) : r[b] \in C => \E a \in 1..(f[0].i - 1) : r[b] = l[a]
    BY <2>2
  <2>5. f[0].i + f[0].j >= 0 + 2
    BY <2>2
  <2>6. MergeInv(f[0], 0, l, r, C)
    BY <2>3, <2>4, <2>5 DEF MergeInv
  <2> QED BY <1>4, <2>6
<1>6. ASSUME NEW k \in 1..e, k - 1 \in T PROVE k \in T
  <2>1. k - 1 \in 0..e /\ k - 1 \in Nat /\ (k - 1) + 1 = k /\ k \in 0..e
    BY <1>4
  <2>2. MergeInv(f[k - 1], k - 1, l, r, C) /\ f[k - 1] \in MergeStates(l, r)
    BY <1>3, <1>6, <2>1
  <2>3. MergeInv(MergeStep(l, r, f[k - 1]), (k - 1) + 1, l, r, C)
    BY <2>1, <2>2, MergeKeeps
  <2> QED BY <1>3, <2>1, <2>3
<1>7. MergeInv(f[e], e, l, r, C)
  <2>1. \A k \in 0..e : k \in T
    <3> HIDE DEF T, e
    <3> QED BY <1>4, <1>5, <1>6, Upward
  <2>2. e \in 0..e
    BY <1>4
  <2> QED BY <2>1, <2>2
<1> DEFINE m == f[e]
           U == {x \in C : \E a \in 1..(m.i - 1) : x = l[a]}
<1>8. m.i \in 1..(n + 1) /\ m.j \in 1..(o + 1)
  <2>1. e \in 0..e
    BY <1>4
  <2> QED BY <1>3, <2>1 DEF MergeStates
<1>9. /\ Lists(m.out, U)
      /\ \A b \in 1..(m.j - 1) : r[b] \in C => \E a \in 1..(m.i - 1) : r[b] = l[a]
      /\ m.i > n \/ m.j > o \/ m.i + m.j >= (n + o) + 2
  BY <1>7 DEF MergeInv
<1>10. m.i - 1 = n \/ m.j - 1 = o
  <2> HIDE DEF m, n, o
  <2> QED BY <1>4, <1>8, <1>9
<1>11. ASSUME NEW x \in C PROVE \E a \in 1..(m.i - 1) : x = l[a]
  <2>1. CASE m.i - 1 = n
    BY <2>1, ListFacts
  <2>2. CASE m.j - 1 = o
    <3>1. PICK b \in 1..o : x = r[b]
      BY ListFacts
    <3> QED BY <1>9, <2>2, <3>1
  <2> QED BY <1>10, <2>1, <2>2
<1>12. U = C
  BY <1>11
<1> QED BY <1>2, <1>9, <1>12

(* A search in what is left of a list splits what is left.                 *)
SearchFrom(seq, from, x) == from + Below(Sublist(seq, from, Len(seq)), x)

LEMMA SearchOn ==
  ASSUME NEW seq, NEW R, Lists(seq, R), NEW from \in 0..Len(seq), NEW x \in Nat
  PROVE  /\ SearchFrom(seq, from, x) \in from..Len(seq)
         /\ \A i \in (from + 1)..Len(seq) : seq[i] < x <=> i <= SearchFrom(seq, from, x)
<1> DEFINE n == Len(seq)
           at == SearchFrom(seq, from, x)
           s == Sublist(seq, from, n)
           b == Below(s, x)
<1>1. n \in Nat /\ from \in 0..n /\ n \in from..n
  BY ListFacts
<1>2. /\ Lists(s, {seq[i] : i \in (from + 1)..n}) /\ Len(s) = n - from
      /\ \A i \in 1..(n - from) : s[i] = seq[from + i]
  BY <1>1, SliceFacts
<1>3. b \in 0..(n - from) /\ \A i \in 1..(n - from) : s[i] < x <=> i <= b
  <2> HIDE DEF s
  <2> QED BY <1>2, BelowCuts
<1>4. at = from + b
  BY DEF SearchFrom
<1> HIDE DEF s, b, n, at
<1>5. at \in from..n
  BY <1>1, <1>3, <1>4
<1>6. ASSUME NEW i \in (from + 1)..n PROVE seq[i] < x <=> i <= at
  <2>1. i - from \in 1..(n - from) /\ from + (i - from) = i
    BY <1>1
  <2>2. s[i - from] = seq[i]
    BY <1>2, <2>1
  <2>3. seq[i] < x <=> i - from <= b
    BY <1>3, <2>1, <2>2
  <2>4. i - from <= b <=> i <= at
    BY <1>1, <1>3, <1>4
  <2> QED BY <2>3, <2>4
<1> QED BY <1>5, <1>6 DEF n, at

(* The search of GallopedIds, an id of the shorter at a time.              *)
GallopStep(short, long, k, m) ==
  LET at == m.at + Below(Sublist(long, m.at, Len(long)), short[k])
  IN [at  |-> at,
      out |-> IF at < Len(long) /\ long[at + 1] = short[k]
              THEN Append(m.out, short[k]) ELSE m.out]

GallopStates(long) == [at : 0..Len(long), out : Seq(Nat)]

LEMMA GallopStepTyped ==
  ASSUME NEW short, NEW S, Lists(short, S), NEW long, NEW L, Lists(long, L),
         NEW k \in 1..Len(short), NEW m \in GallopStates(long)
  PROVE  GallopStep(short, long, k, m) \in GallopStates(long)
<1> DEFINE at == m.at + Below(Sublist(long, m.at, Len(long)), short[k])
           out == IF at < Len(long) /\ long[at + 1] = short[k] THEN Append(m.out, short[k]) ELSE m.out
<1>1. m.at \in 0..Len(long) /\ m.out \in Seq(Nat)
  BY DEF GallopStates
<1>2. short[k] \in Nat /\ Len(long) \in Nat
  BY ListFacts
<1>3. at \in (m.at)..Len(long)
  <2> DEFINE w == m.at
             x == short[k]
  <2>1. at = SearchFrom(long, w, x) /\ w \in 0..Len(long) /\ x \in Nat
    BY <1>1, <1>2 DEF SearchFrom
  <2> HIDE DEF at, w, x
  <2>2. at \in w..Len(long)
    BY <2>1, SearchOn
  <2> QED BY <2>2 DEF w
<1>4. GallopStep(short, long, k, m) = [at |-> at, out |-> out]
  BY DEF GallopStep
<1> HIDE DEF at
<1>5. at \in 0..Len(long)
  BY <1>1, <1>2, <1>3
<1>6. out \in Seq(Nat)
  BY <1>1, <1>2
<1> HIDE DEF out
<1> QED BY <1>4, <1>5, <1>6 DEF GallopStates

(* The search's run.                                                       *)
IsGallop(f, short, long) ==
  /\ f[0] = [at |-> 0, out |-> <<>>]
  /\ \A k \in 0..Len(short) : f[k] \in GallopStates(long)
  /\ \A k \in 1..Len(short) : f[k] = GallopStep(short, long, k, f[k - 1])

LEMMA GallopRuns ==
  ASSUME NEW short, NEW Short, Lists(short, Short), NEW long, NEW Long, Lists(long, Long)
  PROVE  \E f : IsGallop(f, short, long) /\ GallopedIds(short, long) = f[Len(short)].out
<1> DEFINE n == Len(short)
           S == GallopStates(long)
           s0 == [at |-> 0, out |-> <<>>]
           next == [p \in (1..n) \X S |-> GallopStep(short, long, p[1], p[2])]
           Is(g) == g = [k \in 0..n |-> IF k = 0 THEN s0 ELSE GallopStep(short, long, k, g[k - 1])]
           f == CHOOSE g : Is(g)
<1>1. n \in Nat /\ s0 \in S
  <2>1. n \in Nat /\ Len(long) \in Nat
    BY ListFacts
  <2>2. 0 \in 0..Len(long)
    BY <2>1
  <2> QED BY <2>1, <2>2 DEF GallopStates
<1>2. GallopedIds(short, long) = f[n].out
  BY DEF GallopedIds, GallopStep
<1>3. \A k \in 1..n, m \in S : GallopStep(short, long, k, m) \in S
  BY GallopStepTyped
<1> HIDE DEF n, S, s0
<1>4. next \in [(1..n) \X S -> S]
  BY <1>3
<1>5. \A k \in 1..n, m \in S : next[<<k, m>>] = GallopStep(short, long, k, m)
  OBVIOUS
<1> HIDE DEF next
<1>6. \E g : Is(g)
  <2>1. PICK g : IsRun(g, n, S, s0, next)
    BY <1>1, <1>4, RunExists
  <2>2. g = [k \in 0..n |-> g[k]] /\ g[0] = s0 /\ \A k \in 1..n : g[k - 1] \in S /\ g[k] = next[<<k, g[k - 1]>>]
    BY <1>1, <2>1, RunStates
  <2>3. \A k \in 1..n : g[k] = GallopStep(short, long, k, g[k - 1])
    BY <1>5, <2>2
  <2>4. \A k \in 0..n : k = 0 \/ k \in 1..n
    BY <1>1
  <2>5. Is(g)
    BY <2>2, <2>3, <2>4
  <2> QED BY <2>5
<1>7. Is(f)
  <2> HIDE DEF Is
  <2> QED BY <1>6
<1> HIDE DEF f
<1>8. f = [k \in 0..n |-> f[k]] /\ f[0] = s0
  BY <1>1, <1>7
<1>9. ASSUME NEW k \in 1..n PROVE f[k] = GallopStep(short, long, k, f[k - 1])
  <2>1. k \in 0..n /\ k # 0
    BY <1>1
  <2> QED BY <1>7, <2>1
<1>10. IsRun(f, n, S, s0, next)
  <2>1. \A k \in 1..n : f[k - 1] \in S => f[k] = next[<<k, f[k - 1]>>]
    BY <1>5, <1>9
  <2> HIDE DEF Is
  <2> QED BY <1>1, <1>4, <1>8, <2>1, StepsRun
<1>11. IsGallop(f, short, long)
  <2>1. \A k \in 0..n : f[k] \in S
    BY <1>1, <1>10, RunStates
  <2> QED BY <1>8, <1>9, <2>1 DEF IsGallop, n, S, s0
<1> QED BY <1>2, <1>11 DEF n

(* Galloping through a longer list lists what the two have in common.      *)
LEMMA GallopedLists ==
  ASSUME NEW short, NEW S, Lists(short, S), NEW long, NEW L, Lists(long, L)
  PROVE  Lists(GallopedIds(short, long), S \cap L)
<1> DEFINE n == Len(short)
           o == Len(long)
           C == S \cap L
           U(k) == {x \in C : \E a \in 1..k : x = short[a]}
<1>1. PICK f : IsGallop(f, short, long) /\ GallopedIds(short, long) = f[n].out
  BY GallopRuns
<1>2. /\ f[0] = [at |-> 0, out |-> <<>>]
      /\ \A k \in 0..n : f[k] \in GallopStates(long)
      /\ \A k \in 1..n : f[k] = GallopStep(short, long, k, f[k - 1])
  BY <1>1 DEF IsGallop
<1>3. /\ n \in Nat /\ (\A a \in 1..n : short[a] \in S /\ short[a] \in Nat)
      /\ (\A x \in S : \E a \in 1..n : x = short[a])
      /\ (\A a, b \in 1..n : short[a] < short[b] <=> a < b)
  BY ListFacts
<1>4. /\ o \in Nat /\ (\A a \in 1..o : long[a] \in L /\ long[a] \in Nat)
      /\ (\A x \in L : \E a \in 1..o : x = long[a])
      /\ (\A a, b \in 1..o : long[a] < long[b] <=> a < b)
  BY ListFacts
<1>5. \A k \in 0..n : f[k].at \in 0..o
  BY <1>2 DEF GallopStates
<1> DEFINE Inv(k) == /\ Lists(f[k].out, U(k))
                     /\ \A i \in 1..(f[k].at) : k > 0 /\ long[i] < short[k]
           T == {k \in 0..n : Inv(k)}
<1>6. 0 \in T
  <2>1. f[0].at = 0 /\ f[0].out = <<>>
    BY <1>2
  <2>2. U(0) = {}
    OBVIOUS
  <2>3. Lists(f[0].out, U(0))
    <3> HIDE DEF U
    <3> QED BY <2>1, <2>2, EmptyLists
  <2>4. \A i \in 1..(f[0].at) : 0 > 0 /\ long[i] < short[0]
    BY <2>1
  <2>5. 0 \in 0..n
    BY <1>3
  <2> HIDE DEF U
  <2> QED BY <2>3, <2>4, <2>5
<1>7. ASSUME NEW k \in 1..n, k - 1 \in T PROVE k \in T
  <2> DEFINE m == f[k - 1]
             x == short[k]
             at == m.at + Below(Sublist(long, m.at, o), x)
  <2>1. k - 1 \in 0..n /\ k \in 0..n /\ k > 0 /\ x \in Nat /\ x \in S
    BY <1>3
  <2>2. Lists(m.out, U(k - 1)) /\ \A i \in 1..(m.at) : k - 1 > 0 /\ long[i] < short[k - 1]
    BY <1>7
  <2>3. m.at \in 0..o
    BY <1>5, <2>1
  <2>4. at \in (m.at)..o /\ \A i \in (m.at + 1)..o : long[i] < x <=> i <= at
    <3> DEFINE w == m.at
    <3>1. at = SearchFrom(long, w, x) /\ w \in 0..Len(long) /\ x \in Nat
      BY <2>1, <2>3 DEF SearchFrom
    <3> HIDE DEF at, w, x
    <3>2. at \in w..Len(long) /\ \A i \in (w + 1)..Len(long) : long[i] < x <=> i <= at
      BY <3>1, SearchOn
    <3> QED BY <3>2 DEF w
  <2>5. f[k].at = at /\ f[k].out = IF at < o /\ long[at + 1] = x THEN Append(m.out, x) ELSE m.out
    <3>1. f[k] = GallopStep(short, long, k, m)
      BY <1>2
    <3> HIDE DEF m
    <3>2. GallopStep(short, long, k, m) =
            [at |-> at, out |-> IF at < o /\ long[at + 1] = x THEN Append(m.out, x) ELSE m.out]
      BY DEF GallopStep
    <3> HIDE DEF at, x, o
    <3> QED BY <3>1, <3>2
  <2>6. ASSUME NEW i \in 1..(m.at) PROVE long[i] < x
    <3>1. k - 1 > 0 /\ long[i] < short[k - 1] /\ i \in 1..o
      BY <1>4, <2>2, <2>3
    <3>2. k - 1 \in 1..n /\ k - 1 < k
      BY <1>3, <3>1
    <3>3. short[k - 1] < x /\ short[k - 1] \in Nat
      BY <1>3, <3>2
    <3> QED BY <1>4, <2>1, <3>1, <3>3
  <2> HIDE DEF at
  <2>7. ASSUME NEW i \in 1..o PROVE long[i] < x <=> i <= at
    <3>1. CASE i <= m.at
      <4>1. i \in 1..(m.at) /\ i <= at
        BY <1>4, <2>3, <2>4, <3>1
      <4> QED BY <2>6, <4>1
    <3>2. CASE ~(i <= m.at)
      <4>1. i \in (m.at + 1)..o
        BY <1>4, <2>3, <3>2
      <4> QED BY <2>4, <4>1
    <3> QED BY <3>1, <3>2
  <2>8. at \in 0..o
    BY <1>4, <2>3, <2>4
  <2>9. x \in L <=> at < o /\ long[at + 1] = x
    <3>1. ASSUME x \in L PROVE at < o /\ long[at + 1] = x
      <4>1. PICK i \in 1..o : x = long[i]
        BY <1>4, <3>1
      <4>2. ~(i <= at)
        BY <2>1, <2>7, <4>1
      <4>3. at + 1 \in 1..o /\ at < o /\ (at + 1 = i \/ at + 1 < i)
        BY <1>4, <2>8, <4>2
      <4>4. ~(long[at + 1] < x)
        <5>1. ~(at + 1 <= at)
          BY <2>8
        <5> QED BY <2>7, <4>3, <5>1
      <4>5. at + 1 < i => long[at + 1] < long[i]
        BY <1>4, <4>3
      <4> QED BY <4>1, <4>3, <4>4, <4>5
    <3>2. ASSUME at < o, long[at + 1] = x PROVE x \in L
      <4>1. at + 1 \in 1..o
        BY <1>4, <2>8, <3>2
      <4> QED BY <1>4, <3>2, <4>1
    <3> QED BY <3>1, <3>2
  <2>10. \A i \in 1..(f[k].at) : k > 0 /\ long[i] < short[k]
    <3> TAKE i \in 1..(f[k].at)
    <3>1. i \in 1..o /\ i <= at
      BY <1>4, <2>5, <2>8
    <3> QED BY <2>1, <2>7, <3>1
  <2>11. (\A a \in 1..k : a \in 1..(k - 1) \/ a = k) /\ (\A a \in 1..(k - 1) : a \in 1..k) /\ k \in 1..k
    OBVIOUS
  <2>12. Lists(f[k].out, U(k))
    <3>1. CASE x \in L
      <4>1. f[k].out = Append(m.out, x)
        BY <2>5, <2>9, <3>1
      <4>2. U(k) = U(k - 1) \cup {x}
        BY <2>1, <2>11, <3>1
      <4>3. \A y \in U(k - 1) : y < x
        <5> TAKE y \in U(k - 1)
        <5>1. PICK a \in 1..(k - 1) : y = short[a]
          OBVIOUS
        <5>2. a \in 1..n /\ a < k
          BY <1>3
        <5> QED BY <1>3, <5>1, <5>2
      <4> HIDE DEF U, x, m
      <4> QED BY <2>1, <2>2, <4>1, <4>2, <4>3, AppendLists
    <3>2. CASE x \notin L
      <4>1. f[k].out = m.out
        BY <2>5, <2>9, <3>2
      <4>2. U(k) = U(k - 1)
        BY <2>11, <3>2
      <4> HIDE DEF U
      <4> QED BY <2>2, <4>1, <4>2
    <3> QED BY <3>1, <3>2
  <2> QED BY <2>1, <2>10, <2>12
<1>8. n \in T
  <2>1. \A k \in 0..n : k \in T
    <3>1. n \in Nat
      BY <1>3
    <3> HIDE DEF T, n
    <3> QED BY <1>6, <1>7, <3>1, Upward
  <2>2. n \in 0..n
    BY <1>3
  <2> HIDE DEF T, n
  <2> QED BY <2>1, <2>2
<1>9. U(n) = C
  BY <1>3
<1>10. Lists(f[n].out, U(n))
  BY <1>8
<1> HIDE DEF U
<1> QED BY <1>1, <1>9, <1>10

LEMMA IntersectLists ==
  ASSUME NEW l, NEW L, Lists(l, L), NEW r, NEW R, Lists(r, R)
  PROVE  Lists(IntersectSortedIds(l, r), L \cap R)
<1>1. Lists(MergedIds(l, r), L \cap R)
  BY MergedLists
<1>2. Lists(GallopedIds(l, r), L \cap R)
  BY GallopedLists
<1>3. Lists(GallopedIds(r, l), L \cap R)
  <2>1. Lists(GallopedIds(r, l), R \cap L) /\ R \cap L = L \cap R
    BY GallopedLists
  <2> QED BY <2>1
<1> QED BY <1>1, <1>2, <1>3 DEF IntersectSortedIds

-----------------------------------------------------------------------------
(* More of lists                                                           *)

(* The ids between two bounds.                                             *)
LEMMA RestrictLists ==
  ASSUME NEW ids, NEW R, Lists(ids, R), NEW a \in Nat, NEW b \in Nat, a <= b
  PROVE  Lists(RestrictIds(ids, a, b), R \cap Interval(a, b))
<1> DEFINE n == Len(ids)
           lo == Below(ids, a)
           hi == Below(ids, b)
<1>1. /\ n \in Nat /\ (\A i \in 1..n : ids[i] \in R /\ ids[i] \in Nat)
      /\ (\A x \in R : \E i \in 1..n : x = ids[i])
  BY ListFacts
<1>2. lo \in 0..n /\ \A i \in 1..n : ids[i] < a <=> i <= lo
  BY BelowCuts
<1>3. hi \in 0..n /\ \A i \in 1..n : ids[i] < b <=> i <= hi
  BY BelowCuts
<1>4. RestrictIds(ids, a, b) = Sublist(ids, lo, hi)
  BY DEF RestrictIds
<1> HIDE DEF lo, hi
<1>5. hi \in lo..n
  <2> SUFFICES ASSUME ~(lo <= hi) PROVE FALSE
    BY <1>1, <1>2, <1>3
  <2>1. lo \in 1..n /\ lo <= lo
    BY <1>1, <1>2, <1>3
  <2>2. ids[lo] < a /\ ids[lo] \in Nat
    BY <1>1, <1>2, <2>1
  <2>3. ids[lo] < b
    BY <2>2
  <2> QED BY <1>3, <2>1, <2>3
<1>6. Lists(Sublist(ids, lo, hi), {ids[i] : i \in (lo + 1)..hi})
  BY <1>2, <1>5, SliceFacts
<1> HIDE DEF n
<1>7. ASSUME NEW i \in (lo + 1)..hi PROVE ids[i] \in R \cap Interval(a, b)
  <2>1. i \in 1..n /\ ~(i <= lo) /\ i <= hi
    BY <1>1, <1>2, <1>3
  <2>2. ids[i] \in R /\ ids[i] \in Nat /\ ~(ids[i] < a) /\ ids[i] < b
    BY <1>1, <1>2, <1>3, <2>1
  <2> QED BY <2>2 DEF Interval
<1>8. ASSUME NEW x \in R \cap Interval(a, b) PROVE \E i \in (lo + 1)..hi : x = ids[i]
  <2>1. PICK i \in 1..n : x = ids[i]
    BY <1>1
  <2>2. ~(x < a) /\ x < b
    BY DEF Interval
  <2>3. ~(i <= lo) /\ i <= hi
    BY <1>2, <1>3, <2>1, <2>2
  <2>4. i \in (lo + 1)..hi
    BY <1>1, <1>2, <1>3, <2>3
  <2> QED BY <2>1, <2>4
<1>9. {ids[i] : i \in (lo + 1)..hi} = R \cap Interval(a, b)
  BY <1>7, <1>8
<1> QED BY <1>4, <1>6, <1>9

(* Two lists one after the other.                                          *)
LEMMA ConcatLists ==
  ASSUME NEW s, NEW A, Lists(s, A), NEW t, NEW B, Lists(t, B), \A x \in A, y \in B : x < y
  PROVE  Lists(s \o t, A \cup B)
<1> DEFINE n == Len(s)
           m == Len(t)
           w == s \o t
           U == A \cup B
<1>1. s \in Seq(Nat) /\ t \in Seq(Nat)
  BY DEF Lists
<1>2. /\ n \in Nat /\ (\A i \in 1..n : s[i] \in A) /\ (\A x \in A : \E i \in 1..n : x = s[i])
      /\ (\A i \in 2..n : s[i - 1] < s[i])
  BY ListFacts DEF Lists, IsAscending
<1>3. /\ m \in Nat /\ (\A i \in 1..m : t[i] \in B) /\ (\A x \in B : \E i \in 1..m : x = t[i])
      /\ (\A i \in 2..m : t[i - 1] < t[i])
  BY ListFacts DEF Lists, IsAscending
<1>4. w \in Seq(Nat) /\ Len(w) = n + m
  BY <1>1, ConcatProperties
<1>5. \A i \in 1..(n + m) : w[i] = IF i <= n THEN s[i] ELSE t[i - n]
  BY <1>1, ConcatProperties
<1> HIDE DEF n, m, w
<1>6. \A i \in 1..n : i \in 1..(n + m) /\ w[i] = s[i]
  BY <1>2, <1>3, <1>5
<1>7. \A i \in 1..m : n + i \in 1..(n + m) /\ w[n + i] = t[i]
  <2> TAKE i \in 1..m
  <2>1. n + i \in 1..(n + m) /\ ~(n + i <= n) /\ (n + i) - n = i
    BY <1>2, <1>3
  <2> QED BY <1>5, <2>1
<1>8. \A i \in 1..(n + m) : i \in 1..n \/ (i - n \in 1..m /\ n + (i - n) = i)
  BY <1>2, <1>3
<1>9. \A i \in 1..(n + m) : w[i] \in U
  <2> TAKE i \in 1..(n + m)
  <2>1. CASE i \in 1..n
    BY <1>2, <1>6, <2>1
  <2>2. CASE i - n \in 1..m /\ n + (i - n) = i
    <3>1. w[n + (i - n)] = t[i - n] /\ t[i - n] \in B
      BY <1>3, <1>7, <2>2
    <3> QED BY <2>2, <3>1
  <2> QED BY <1>8, <2>1, <2>2
<1>10. \A x \in U : \E i \in 1..(n + m) : x = w[i]
  <2> TAKE x \in U
  <2>1. CASE x \in A
    <3>1. PICK i \in 1..n : x = s[i]
      BY <1>2, <2>1
    <3> QED BY <1>6, <3>1
  <2>2. CASE x \in B
    <3>1. PICK i \in 1..m : x = t[i]
      BY <1>3, <2>2
    <3> QED BY <1>7, <3>1
  <2> QED BY <2>1, <2>2
<1>11. ASSUME NEW i \in 2..(n + m) PROVE w[i - 1] < w[i]
  <2>1. CASE i <= n
    <3>1. i \in 2..n /\ i \in 1..n /\ i - 1 \in 1..n
      BY <1>2, <2>1
    <3> QED BY <1>2, <1>6, <3>1
  <2>2. CASE i = n + 1
    <3>1. i - 1 \in 1..n /\ 1 \in 1..m
      BY <1>2, <1>3, <2>2
    <3>2. w[i - 1] \in A /\ w[i] \in B
      <4>1. w[n + 1] = t[1] /\ t[1] \in B
        BY <1>3, <1>7, <3>1
      <4> QED BY <1>2, <1>6, <2>2, <3>1, <4>1
    <3> QED BY <3>2
  <2>3. CASE i > n + 1
    <3> DEFINE j == i - n
    <3>1. j \in 2..m /\ j \in 1..m /\ j - 1 \in 1..m /\ n + j = i /\ n + (j - 1) = i - 1
      BY <1>2, <1>3, <2>3
    <3> HIDE DEF j
    <3>2. w[n + j] = t[j] /\ w[n + (j - 1)] = t[j - 1] /\ t[j - 1] < t[j]
      BY <1>3, <1>7, <3>1
    <3> QED BY <3>1, <3>2
  <2> QED BY <1>2, <2>1, <2>2, <2>3
<1> HIDE DEF U
<1>12. Lists(w, U)
  BY <1>4, <1>9, <1>10, <1>11, MakeList
<1> QED BY <1>12 DEF w, U

(* The rows of R whose place is in a window, and the entries of a slice.   *)
Placed(R, from, to)  == {row \in R : from <= Place(R, row) /\ Place(R, row) < to}
Entries(seq, a, b)   == {seq[i] : i \in (a + 1)..b}

(* A cut of a list: the rows whose place is in the window.                 *)
LEMMA CutByPlace ==
  ASSUME NEW seq, NEW R, Lists(seq, R), NEW offset \in Nat, NEW to \in Nat, offset <= to
  PROVE  /\ Least(offset, Len(seq)) \in 0..Len(seq)
         /\ Least(to, Len(seq)) \in Least(offset, Len(seq))..Len(seq)
         /\ Entries(seq, Least(offset, Len(seq)), Least(to, Len(seq))) = Placed(R, offset, to)
<1> DEFINE n == Len(seq)
           a == Least(offset, n)
           b == Least(to, n)
<1>1. n \in Nat /\ (\A x \in R : \E j \in 1..n : x = seq[j])
  BY ListFacts
<1>2. \A j \in 1..n : Place(R, seq[j]) = j - 1
  BY PlaceIs
<1>3. a \in 0..n /\ b \in a..n
  <2> HIDE DEF n
  <2> QED BY <1>1 DEF Least
<1>4. {seq[i] : i \in (a + 1)..b} = {row \in R : a <= Place(R, row) /\ Place(R, row) < b}
  <2> HIDE DEF a, b
  <2> QED BY <1>3, SliceByPlace
<1>5. ASSUME NEW row \in R
      PROVE  (a <= Place(R, row) /\ Place(R, row) < b) <=> (offset <= Place(R, row) /\ Place(R, row) < to)
  <2>1. PICK j \in 1..n : Place(R, row) = j - 1
    BY <1>1, <1>2
  <2> HIDE DEF n
  <2> QED BY <1>1, <2>1 DEF Least
<1> HIDE DEF a, b
<1>6. {seq[i] : i \in (a + 1)..b} = {row \in R : offset <= Place(R, row) /\ Place(R, row) < to}
  BY <1>4, <1>5
<1> QED BY <1>3, <1>6 DEF a, b, n, Entries, Placed

LEMMA CutLists ==
  ASSUME NEW seq, NEW R, Lists(seq, R), NEW offset \in Nat, NEW to \in Nat, offset <= to
  PROVE  Lists(Sublist(seq, Least(offset, Len(seq)), Least(to, Len(seq))), Placed(R, offset, to))
<1> DEFINE a == Least(offset, Len(seq))
           b == Least(to, Len(seq))
<1>1. a \in 0..Len(seq) /\ b \in a..Len(seq) /\ Entries(seq, a, b) = Placed(R, offset, to)
  BY CutByPlace
<1> HIDE DEF a, b
<1>2. Lists(Sublist(seq, a, b), Entries(seq, a, b))
  BY <1>1, SliceFacts DEF Entries
<1> QED BY <1>1, <1>2 DEF a, b

(* Two neighbouring slices join.                                           *)
LEMMA SlicesJoin ==
  ASSUME NEW seq, NEW R, Lists(seq, R), NEW a \in 0..Len(seq), NEW b \in a..Len(seq)
  PROVE  Sublist(seq, 0, a) \o Sublist(seq, a, b) = Sublist(seq, 0, b)
<1> DEFINE n == Len(seq)
<1>1. n \in Nat /\ \A i, j \in 1..n : seq[i] < seq[j] <=> i < j
  BY ListFacts
<1>2. /\ 0 \in 0..n /\ a \in 0..n /\ a \in 0..n /\ b \in a..n /\ b \in 0..n
  BY <1>1
<1>3. /\ Lists(Sublist(seq, 0, a), Entries(seq, 0, a))
      /\ Lists(Sublist(seq, a, b), Entries(seq, a, b))
      /\ Lists(Sublist(seq, 0, b), Entries(seq, 0, b))
  BY <1>2, SliceFacts DEF Entries
<1> HIDE DEF n
<1>4. \A x \in Entries(seq, 0, a), y \in Entries(seq, a, b) : x < y
  <2> TAKE x \in Entries(seq, 0, a), y \in Entries(seq, a, b)
  <2>1. PICK i \in (0 + 1)..a : x = seq[i]
    BY DEF Entries
  <2>2. PICK j \in (a + 1)..b : y = seq[j]
    BY DEF Entries
  <2>3. i \in 1..n /\ j \in 1..n /\ i < j
    BY <1>1, <1>2
  <2> QED BY <1>1, <2>1, <2>2, <2>3
<1>5. Entries(seq, 0, a) \cup Entries(seq, a, b) = Entries(seq, 0, b)
  <2>1. \A i \in (0 + 1)..b : i \in (0 + 1)..a \/ i \in (a + 1)..b
    BY <1>1, <1>2
  <2>2. (\A i \in (0 + 1)..a : i \in (0 + 1)..b) /\ \A i \in (a + 1)..b : i \in (0 + 1)..b
    BY <1>1, <1>2
  <2> QED BY <2>1, <2>2 DEF Entries
<1>6. Lists(Sublist(seq, 0, a) \o Sublist(seq, a, b), Entries(seq, 0, a) \cup Entries(seq, a, b))
  BY <1>3, <1>4, ConcatLists
<1> QED BY <1>3, <1>5, <1>6, OneList

(* Products and quotients.                                                 *)
LEMMA Quotient ==
  ASSUME NEW a \in Nat, NEW b \in Nat \ {0}
  PROVE  a \div b \in Nat /\ (a \div b) * b <= a /\ a < (a \div b) * b + b
OBVIOUS

LEMMA TimesGrows ==
  ASSUME NEW a \in Nat, NEW b \in Nat, NEW c \in Nat, a <= b
  PROVE  a * c <= b * c
OBVIOUS

LEMMA TimesLess ==
  ASSUME NEW a \in Nat, NEW b \in Nat, NEW c \in Nat, a * c < b * c
  PROVE  a < b
OBVIOUS

LEMMA TimesNext ==
  ASSUME NEW a \in Nat, NEW c \in Nat
  PROVE  (a + 1) * c = a * c + c /\ a * c \in Nat
OBVIOUS

LEMMA TimesSwap ==
  ASSUME NEW a \in Nat, NEW c \in Nat
  PROVE  a * c = c * a
OBVIOUS
=============================================================================
