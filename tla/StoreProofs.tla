---------------------------- MODULE StoreProofs ----------------------------
(***************************************************************************)
(* Proofs about Store, for every set of quads, batch, pattern, hash and    *)
(* threshold.  The lemmas say what the row operators compute; the          *)
(* invariants follow one action at a time; and Store implements            *)
(* QuadDataset: whatever route a match took, whatever a window cut,        *)
(* whatever was folded, renumbered or rebuilt, the quads a read of a       *)
(* handle yields are the set its operation promises.                       *)
(***************************************************************************)
EXTENDS Store, FiniteSetTheorems, FunctionTheorems, SequenceTheorems, TLAPS

-----------------------------------------------------------------------------
(* Rows in ascending order                                                 *)

Rank(S, x) == Cardinality({y \in S : y < x})

(* A member's rank counts the members below it: ranks are below the size,  *)
(* and of two members the larger has the larger rank.                      *)
LEMMA RankOrder ==
  ASSUME NEW S \in SUBSET Nat, IsFiniteSet(S)
  PROVE  /\ \A x \in S : Rank(S, x) \in 0..(Cardinality(S) - 1)
         /\ \A x, z \in S : x < z => Rank(S, x) < Rank(S, z)
<1>1. Cardinality(S) \in Nat
  BY FS_CardinalityType
<1>2. ASSUME NEW x \in S, NEW T \in SUBSET S, {y \in S : y < x} \subseteq T, x \in T
      PROVE  Rank(S, x) \in Nat /\ Rank(S, x) < Cardinality(T) /\ Cardinality(T) \in Nat
  <2> DEFINE B == {y \in S : y < x}
  <2>1. IsFiniteSet(T)
    BY FS_Subset
  <2>2. B \in SUBSET T /\ B # T
    BY <1>2
  <2>3. Cardinality(B) <= Cardinality(T) /\ Cardinality(B) # Cardinality(T) /\ IsFiniteSet(B)
    <3> HIDE DEF B
    <3> QED BY <2>1, <2>2, FS_Subset
  <2>4. Cardinality(B) \in Nat /\ Cardinality(T) \in Nat
    <3> HIDE DEF B
    <3> QED BY <2>1, <2>3, FS_CardinalityType
  <2>5. Rank(S, x) = Cardinality(B)
    BY DEF Rank
  <2> QED
    BY <2>3, <2>4, <2>5
<1>3. \A x \in S : Rank(S, x) \in 0..(Cardinality(S) - 1)
  <2> TAKE x \in S
  <2>1. Rank(S, x) \in Nat /\ Rank(S, x) < Cardinality(S)
    BY <1>2
  <2> QED
    BY <1>1, <2>1
<1>4. \A x, z \in S : x < z => Rank(S, x) < Rank(S, z)
  <2> TAKE x, z \in S
  <2> HAVE x < z
  <2> DEFINE T == {y \in S : y < z}
  <2>0. \A y \in S : y < x => y < z
    OBVIOUS
  <2>1. T \in SUBSET S /\ {y \in S : y < x} \subseteq T /\ x \in T
    BY <2>0
  <2>2. Rank(S, x) < Cardinality(T)
    <3> HIDE DEF T
    <3> QED BY <2>1, <1>2
  <2> QED
    BY <2>2 DEF Rank
<1> QED
  BY <1>3, <1>4

(* Every position holds a member: the ranks of a finite set of numbers are *)
(* all the numbers below its size.                                         *)
LEMMA RankOnto ==
  ASSUME NEW S \in SUBSET Nat, IsFiniteSet(S), NEW i \in 1..Cardinality(S)
  PROVE  \E x \in S : Rank(S, x) = i - 1
<1> DEFINE n == Cardinality(S)
           T == 0..(n - 1)
           f == [x \in S |-> Rank(S, x)]
<1>1. n \in Nat
  BY FS_CardinalityType
<1>2. IsFiniteSet(T) /\ Cardinality(T) = n
  <2>1. 0 \in Int /\ n - 1 \in Int
    BY <1>1
  <2>2. IsFiniteSet(T) /\ Cardinality(T) = IF 0 > n - 1 THEN 0 ELSE (n - 1) - 0 + 1
    BY <2>1, FS_Interval
  <2> HIDE DEF n
  <2> QED
    BY <1>1, <2>2
<1>3. f \in [S -> T]
  BY RankOrder
<1>4. ASSUME NEW a \in S, NEW b \in S, f[a] = f[b]
      PROVE  a = b
  <2>1. Rank(S, a) = Rank(S, b)
    BY <1>4
  <2>2. a < b => Rank(S, a) < Rank(S, b)
    BY RankOrder
  <2>3. b < a => Rank(S, b) < Rank(S, a)
    BY RankOrder
  <2>4. Rank(S, a) \in Nat /\ Rank(S, b) \in Nat
    BY RankOrder, <1>1
  <2> QED
    BY <2>1, <2>2, <2>3, <2>4
<1>5. f \in Injection(S, T)
  <2> HIDE DEF f, T
  <2> QED BY <1>3, <1>4, Fun_IsInj
<1>6. f \in Surjection(S, T)
  <2> HIDE DEF f, T
  <2> QED BY <1>2, <1>5, FS_Injection
<1>7. i - 1 \in T
  BY <1>1
<1>8. \E x \in S : f[x] = i - 1
  <2> HIDE DEF f, T
  <2> QED BY <1>6, <1>7, Fun_SurjectionProperties
<1> QED
  BY <1>8

(* Ascending lists each member once: it is a sequence of the set's size,   *)
(* one to one and onto the set.                                            *)
LEMMA AscendingLists ==
  ASSUME NEW S \in SUBSET Nat, IsFiniteSet(S)
  PROVE  /\ Cardinality(S) \in Nat
         /\ Ascending(S) \in [1..Cardinality(S) -> S]
         /\ \A i, j \in 1..Cardinality(S) : Ascending(S)[i] = Ascending(S)[j] => i = j
         /\ \A x \in S : \E i \in 1..Cardinality(S) : Ascending(S)[i] = x
         /\ \A i \in 1..Cardinality(S) : Rank(S, Ascending(S)[i]) = i - 1
<1> DEFINE n == Cardinality(S)
<1>1. n \in Nat
  BY FS_CardinalityType
<1>2. ASSUME NEW i \in 1..n
      PROVE  Ascending(S)[i] \in S /\ Rank(S, Ascending(S)[i]) = i - 1
  <2>1. \E x \in S : Rank(S, x) = i - 1
    BY RankOnto
  <2>2. Ascending(S)[i] = CHOOSE x \in S : Rank(S, x) = i - 1
    BY DEF Ascending, Rank
  <2> QED
    BY <2>1, <2>2
<1>3. Ascending(S) \in [1..n -> S]
  BY <1>2 DEF Ascending
<1>4. ASSUME NEW i \in 1..n, NEW j \in 1..n, Ascending(S)[i] = Ascending(S)[j]
      PROVE  i = j
  BY <1>1, <1>2, <1>4
<1>5. ASSUME NEW x \in S
      PROVE  \E i \in 1..n : Ascending(S)[i] = x
  <2> DEFINE i == Rank(S, x) + 1
  <2>1. Rank(S, x) \in 0..(n - 1)
    BY RankOrder
  <2>2. i \in 1..n /\ i - 1 = Rank(S, x)
    BY <1>1, <2>1
  <2>3. Ascending(S)[i] \in S /\ Rank(S, Ascending(S)[i]) = Rank(S, x)
    BY <1>2, <2>2
  <2>4. Ascending(S)[i] = x
    <3> DEFINE a == Ascending(S)[i]
    <3> HIDE DEF a
    <3>1. a \in S /\ Rank(S, a) = Rank(S, x)
      BY <2>3 DEF a
    <3>2. (a < x => Rank(S, a) < Rank(S, x)) /\ (x < a => Rank(S, x) < Rank(S, a))
      BY <3>1, RankOrder
    <3>3. a = x
      BY <1>1, <2>1, <3>1, <3>2
    <3> QED BY <3>3 DEF a
  <2> QED
    BY <2>2, <2>4
<1> QED
  BY <1>1, <1>2, <1>3, <1>4, <1>5

(* A set of a sequence's positions is a finite set of numbers.             *)
LEMMA Positions ==
  ASSUME NEW seq \in Seq(Quads), NEW R \in SUBSET DOMAIN seq
  PROVE  R \in SUBSET Nat /\ IsFiniteSet(R)
<1>1. Len(seq) \in Nat /\ DOMAIN seq = 1..Len(seq)
  BY LenProperties
<1>2. IsFiniteSet(1..Len(seq))
  BY <1>1, FS_Interval
<1>3. R \in SUBSET (1..Len(seq))
  BY <1>1
<1> QED
  BY <1>1, <1>2, <1>3, FS_Subset

(* Gather keeps what the positions hold, in a new numbering: the same      *)
(* values, and no repetition where there was none.                         *)
LEMMA GatherRows ==
  ASSUME NEW seq \in Seq(Quads), NEW R \in SUBSET DOMAIN seq
  PROVE  /\ Gather(seq, R) \in Seq(Quads)
         /\ Values(Gather(seq, R), DOMAIN Gather(seq, R)) = Values(seq, R)
         /\ Injective(seq, R) => Injective(Gather(seq, R), DOMAIN Gather(seq, R))
<1> DEFINE n == Cardinality(R)
           a == Ascending(R)
           g == Gather(seq, R)
<1>1. /\ n \in Nat
      /\ a \in [1..n -> R]
      /\ \A i, j \in 1..n : a[i] = a[j] => i = j
      /\ \A x \in R : \E i \in 1..n : a[i] = x
  BY Positions, AscendingLists
<1>2. Len(seq) \in Nat /\ seq \in [1..Len(seq) -> Quads] /\ DOMAIN seq = 1..Len(seq)
  BY LenProperties
<1>3. g = [i \in 1..n |-> seq[a[i]]]
  BY DEF Gather
<1> HIDE DEF n, a, g
<1>4. \A i \in 1..n : g[i] = seq[a[i]] /\ g[i] \in Quads
  BY <1>1, <1>2, <1>3
<1>5. g \in [1..n -> Quads] /\ DOMAIN g = 1..n
  BY <1>3, <1>4
<1>6. g \in Seq(Quads)
  BY <1>1, <1>5
<1>7. Values(g, DOMAIN g) = Values(seq, R)
  <2>1. ASSUME NEW i \in 1..n
        PROVE  g[i] \in Values(seq, R)
    BY <1>1, <1>4 DEF Values
  <2>2. ASSUME NEW r \in R
        PROVE  \E i \in 1..n : g[i] = seq[r]
    BY <1>1, <1>4
  <2> QED
    BY <1>5, <2>1, <2>2 DEF Values
<1>8. Injective(seq, R) => Injective(g, DOMAIN g)
  BY <1>1, <1>4, <1>5 DEF Injective
<1> QED
  BY <1>6, <1>7, <1>8 DEF g

(* Gathering every position leaves the sequence as it is.                  *)
LEMMA GatherAll ==
  ASSUME NEW seq \in Seq(Quads)
  PROVE  Gather(seq, DOMAIN seq) = seq
<1> DEFINE n == Len(seq)
           S == 1..n
           a == Ascending(S)
<1>1. n \in Nat /\ DOMAIN seq = S /\ seq \in [S -> Quads]
  BY LenProperties
<1>2. IsFiniteSet(S) /\ Cardinality(S) = n /\ S \in SUBSET Nat
  <2>1. IsFiniteSet(S) /\ Cardinality(S) = IF 1 > n THEN 0 ELSE n - 1 + 1
    BY <1>1, FS_Interval, SMTT(30)
  <2> HIDE DEF n
  <2> QED BY <1>1, <2>1
<1>3. ASSUME NEW x \in S
      PROVE  Rank(S, x) = x - 1
  <2> HIDE DEF n
  <2>1. {y \in S : y < x} = 1..(x - 1)
    BY <1>1
  <2>2. x - 1 \in Int /\ x >= 1 /\ x \in Nat
    BY <1>1
  <2>3. Cardinality(1..(x - 1)) = IF 1 > x - 1 THEN 0 ELSE (x - 1) - 1 + 1
    BY <2>2, FS_Interval
  <2>4. Cardinality(1..(x - 1)) = x - 1
    BY <2>2, <2>3
  <2> QED BY <2>1, <2>4 DEF Rank
<1> HIDE DEF n
<1>4. a \in [S -> S] /\ \A i \in S : Rank(S, a[i]) = i - 1
  <2> HIDE DEF S
  <2>1. a \in [1..Cardinality(S) -> S] /\ \A i \in 1..Cardinality(S) : Rank(S, a[i]) = i - 1
    BY <1>2, AscendingLists
  <2>2. 1..Cardinality(S) = S
    BY <1>2 DEF S
  <2> QED BY <2>1, <2>2
<1> HIDE DEF a
<1>5. \A i \in S : a[i] = i
  <2> TAKE i \in S
  <2>1. a[i] \in S /\ a[i] - 1 = i - 1
    BY <1>3, <1>4
  <2> QED BY <1>1, <2>1
<1>6. Gather(seq, S) = [i \in S |-> seq[a[i]]]
  BY <1>2 DEF Gather, a
<1>7. [i \in S |-> seq[a[i]]] = [i \in S |-> seq[i]]
  BY <1>5
<1> QED
  BY <1>1, <1>6, <1>7

(* A set of quads in ascending order: a sequence with each quad once.      *)
LEMMA SortedRows ==
  ASSUME NEW S \in SUBSET Quads
  PROVE  /\ Ascending(S) \in Seq(Quads)
         /\ Injective(Ascending(S), DOMAIN Ascending(S))
         /\ Values(Ascending(S), DOMAIN Ascending(S)) = S
<1>1. S \in SUBSET Nat /\ IsFiniteSet(S)
  BY QuadsAssumption, FS_Subset
<1> DEFINE n == Cardinality(S)
           a == Ascending(S)
<1>2. /\ n \in Nat
      /\ a \in [1..n -> S]
      /\ \A i, j \in 1..n : a[i] = a[j] => i = j
      /\ \A x \in S : \E i \in 1..n : a[i] = x
  BY <1>1, AscendingLists
<1> HIDE DEF n, a
<1>3. a \in [1..n -> Quads] /\ DOMAIN a = 1..n
  BY <1>2
<1>4. a \in Seq(Quads)
  BY <1>2, <1>3
<1>5. Injective(a, DOMAIN a)
  BY <1>2, <1>3 DEF Injective
<1>6. Values(a, DOMAIN a) = S
  BY <1>2, <1>3 DEF Values
<1> QED
  BY <1>4, <1>5, <1>6 DEF a

-----------------------------------------------------------------------------
(* The tail                                                                *)

(* The keys of appended rows are the keys of the two parts, the second     *)
(* numbered on from the first.                                             *)
LEMMA KeysOfConcat ==
  ASSUME NEW a \in Seq(Quads), NEW b \in Seq(Quads)
  PROVE  RowKeys(a \o b, 0) = RowKeys(a, 0) \cup RowKeys(b, Len(a))
<1> DEFINE c == a \o b
<1>1. Len(a) \in Nat /\ DOMAIN a = 1..Len(a) /\ Len(b) \in Nat /\ DOMAIN b = 1..Len(b)
  BY LenProperties
<1>2. c \in Seq(Quads) /\ Len(c) = Len(a) + Len(b)
  BY ConcatProperties
<1>3. DOMAIN c = 1..(Len(a) + Len(b))
  BY <1>2, LenProperties
<1>4. \A i \in 1..(Len(a) + Len(b)) : c[i] = IF i <= Len(a) THEN a[i] ELSE b[i - Len(a)]
  BY ConcatProperties
<1> HIDE DEF c
<1>5. ASSUME NEW i \in DOMAIN c
      PROVE  <<Hash(c[i]), 0 + i>> \in RowKeys(a, 0) \cup RowKeys(b, Len(a))
  <2>1. CASE i <= Len(a)
    BY <1>1, <1>3, <1>4, <2>1 DEF RowKeys
  <2>2. CASE ~(i <= Len(a))
    <3> DEFINE j == i - Len(a)
    <3>1. j \in DOMAIN b /\ c[i] = b[j] /\ Len(a) + j = 0 + i
      BY <1>1, <1>3, <1>4, <2>2
    <3> HIDE DEF j
    <3> QED BY <3>1 DEF RowKeys
  <2> QED BY <2>1, <2>2
<1>6. ASSUME NEW i \in DOMAIN a
      PROVE  <<Hash(a[i]), 0 + i>> \in RowKeys(c, 0)
  BY <1>1, <1>3, <1>4 DEF RowKeys
<1>7. ASSUME NEW j \in DOMAIN b
      PROVE  <<Hash(b[j]), Len(a) + j>> \in RowKeys(c, 0)
  <2> DEFINE i == Len(a) + j
  <2>1. i \in DOMAIN c /\ c[i] = b[j] /\ 0 + i = i
    BY <1>1, <1>3, <1>4
  <2> QED BY <2>1 DEF RowKeys
<1>8. RowKeys(c, 0) \subseteq RowKeys(a, 0) \cup RowKeys(b, Len(a))
  BY <1>5 DEF RowKeys
<1>9. RowKeys(a, 0) \subseteq RowKeys(c, 0) /\ RowKeys(b, Len(a)) \subseteq RowKeys(c, 0)
  BY <1>6, <1>7 DEF RowKeys
<1> QED
  BY <1>8, <1>9 DEF c

(* A tail built over any rows is well formed and keyed (Tail::new).        *)
LEMMA NewTailOK ==
  ASSUME NEW rows \in Seq(Quads)
  PROVE  TailTypeOK(NewTail(rows)) /\ KeysName(NewTail(rows))
BY DEF NewTail, TailTypeOK, KeysName, Selections, Masks, All, Undeleted

(* So is the tail of a store that has none.                                *)
LEMMA NoTailOK == TailTypeOK(NoTail) /\ KeysName(NoTail)
<1>1. <<>> \in Seq(Quads)
  OBVIOUS
<1> QED
  BY <1>1, NewTailOK DEF NoTail

(* An append leaves a well-formed tail whose rows are the live ones and    *)
(* then the fresh ones, none masked, under keys that name them.            *)
LEMMA TailAppendRows ==
  ASSUME NEW t, TailTypeOK(t), KeysName(t), NEW fresh \in Seq(Quads)
  PROVE  LET u == TailAppend(t, fresh) IN
         /\ TailTypeOK(u)
         /\ KeysName(u)
         /\ u.sel.all /\ u.deleted.rows = {}
         /\ \E live \in Seq(Quads) :
              /\ u.rows = live \o fresh
              /\ Values(live, DOMAIN live) = Values(t.rows, TailLive(t))
              /\ Injective(t.rows, TailLive(t)) => Injective(live, DOMAIN live)
<1> DEFINE u == TailAppend(t, fresh)
<1>1. t.rows \in Seq(Quads) /\ t.sel \in Selections(t.rows) /\ t.deleted \in Masks(t.rows)
  BY DEF TailTypeOK
<1>2. CASE ~t.deleted.some /\ t.sel.all
  <2> DEFINE rows == t.rows \o fresh
  <2>1. rows \in Seq(Quads)
    BY <1>1, ConcatProperties
  <2>2. u = [NewTail(rows) EXCEPT !.keys = t.keys \cup RowKeys(fresh, Len(t.rows))]
    BY <1>2 DEF TailAppend
  <2>3. TailLive(t) = DOMAIN t.rows
    BY <1>1, <1>2 DEF TailLive, Selections, Masks
  <2>4. t.keys \cup RowKeys(fresh, Len(t.rows)) = RowKeys(rows, 0)
    BY <1>1, KeysOfConcat DEF KeysName
  <2> HIDE DEF rows
  <2>5. u = NewTail(rows)
    BY <2>2, <2>4 DEF NewTail
  <2>6. TailTypeOK(u) /\ KeysName(u)
    BY <2>1, <2>5, NewTailOK
  <2>7. u.sel.all /\ u.deleted.rows = {} /\ u.rows = t.rows \o fresh
    BY <2>5 DEF NewTail, All, Undeleted, rows
  <2> QED
    BY <1>1, <2>3, <2>6, <2>7
<1>3. CASE ~(~t.deleted.some /\ t.sel.all)
  <2> DEFINE live == Gather(t.rows, TailLive(t))
             rows == live \o fresh
  <2>1. TailLive(t) \in SUBSET DOMAIN t.rows
    BY <1>1 DEF TailLive, Selections
  <2>2. /\ live \in Seq(Quads)
        /\ Values(live, DOMAIN live) = Values(t.rows, TailLive(t))
        /\ Injective(t.rows, TailLive(t)) => Injective(live, DOMAIN live)
    BY <1>1, <2>1, GatherRows
  <2>3. u = NewTail(rows)
    BY <1>3 DEF TailAppend
  <2> HIDE DEF live
  <2>4. rows \in Seq(Quads)
    BY <2>2, ConcatProperties
  <2>5. TailTypeOK(u) /\ KeysName(u)
    BY <2>3, <2>4, NewTailOK
  <2>6. u.sel.all /\ u.deleted.rows = {} /\ u.rows = rows
    BY <2>3 DEF NewTail, All, Undeleted
  <2> QED
    BY <2>2, <2>5, <2>6
<1> QED
  BY <1>2, <1>3

-----------------------------------------------------------------------------
(* Views                                                                   *)

SameTail(u, t) == u.rows = t.rows /\ u.deleted = t.deleted /\ u.keys = t.keys

(* What a view has in common with the store it is a view of.               *)
SameData(v, s) ==
  /\ v.base = s.base /\ v.file = s.file /\ v.deleted = s.deleted
  /\ v.over = s.over /\ v.generation = s.generation
  /\ v.indexes \subseteq s.indexes
  /\ SameTail(v.tail, s.tail)

(* What a pattern may be: unbound, partly bound or fully bound.            *)
LEMMA PatternFacts ==
  ASSUME NEW pat \in Patterns
  PROVE  /\ pat.admits \subseteq Quads
         /\ pat.kind \in {"any", "part", "full"}
BY PatternsAssumption DEF Patterns

(* match_tail narrows a tail's selection and changes nothing else of it.   *)
LEMMA MatchTailType ==
  ASSUME NEW t, TailTypeOK(t), NEW pat \in Patterns
  PROVE  TailTypeOK(MatchTail(t, pat)) /\ SameTail(MatchTail(t, pat), t)
<1> DEFINE Holding(R) == {r \in R : t.rows[r] \in pat.admits}
           named == {r \in t.sel.rows : \E q \in pat.admits : <<Hash(q), r>> \in t.keys}
           sel   == CASE pat.kind = "any"  -> t.sel
                      [] pat.kind = "full" -> Ids(Holding(named))
                      [] pat.kind = "part" -> IF Holding(t.sel.rows) = t.sel.rows
                                              THEN t.sel ELSE Ids(Holding(t.sel.rows))
<1>1. t.sel \in Selections(t.rows)
  BY DEF TailTypeOK
<1>2. \A R \in SUBSET DOMAIN t.rows : Ids(R) \in Selections(t.rows)
  BY DEF Ids, Selections
<1>3. t.sel.rows \in SUBSET DOMAIN t.rows
  BY <1>1 DEF Selections
<1>4. sel \in Selections(t.rows)
  <2>1. Holding(named) \in SUBSET DOMAIN t.rows /\ Holding(t.sel.rows) \in SUBSET DOMAIN t.rows
    BY <1>3
  <2>2. CASE pat.kind = "any"
    BY <1>1, <2>2
  <2>3. CASE pat.kind = "full"
    <3>1. sel = Ids(Holding(named))
      BY <2>3
    <3> QED BY <1>2, <2>1, <3>1
  <2>4. CASE pat.kind = "part"
    <3>1. sel \in {t.sel, Ids(Holding(t.sel.rows))}
      BY <2>4
    <3> QED BY <1>1, <1>2, <2>1, <3>1
  <2> QED
    BY <2>2, <2>3, <2>4, PatternFacts
<1>5. MatchTail(t, pat) \in {t, [t EXCEPT !.sel = sel]}
  BY DEF MatchTail
<1> HIDE DEF sel
<1>6. TailTypeOK([t EXCEPT !.sel = sel]) /\ SameTail([t EXCEPT !.sel = sel], t)
  BY <1>4 DEF TailTypeOK, SameTail
<1>7. SameTail(t, t)
  BY DEF SameTail
<1> QED
  BY <1>5, <1>6, <1>7

(* What a well-formed store's selection, filter and tail are, and which    *)
(* selections are well formed over its base.                               *)
LEMMA SelectionFacts ==
  ASSUME NEW s, StoreTypeOK(s)
  PROVE  /\ s.sel \in Selections(s.base) /\ s.sel.rows \in SUBSET DOMAIN s.base
         /\ s.filter \in Filters /\ s.filter.admits \in SUBSET Quads
         /\ \A R \in SUBSET DOMAIN s.base : Ids(R) \in Selections(s.base)
         /\ NoFilter \in Filters
         /\ TailTypeOK(s.tail) /\ SameTail(s.tail, s.tail)
BY DEF StoreTypeOK, Selections, Filters, Ids, NoFilter, SameTail

(* An empty view has the store's data.                                     *)
LEMMA EmptyViewShares ==
  ASSUME NEW s, StoreTypeOK(s)
  PROVE  StoreTypeOK(EmptyView(s)) /\ SameData(EmptyView(s), s)
<1>1. Ids({}) \in Selections(s.base)
  BY SelectionFacts
<1> QED
  BY <1>1, SelectionFacts DEF EmptyView, StoreTypeOK, SameData

(* The rows a match locates are rows of the base.                          *)
LEMMA LocatedRows ==
  ASSUME NEW s, StoreTypeOK(s), NEW pat \in Patterns
  PROVE  Located(s, pat) \in SUBSET DOMAIN s.base /\ Wanted(s, pat) \in SUBSET DOMAIN s.base
BY SelectionFacts DEF Located, Wanted

(* Zone-map pruning leaves a selection of the base's rows.                 *)
LEMMA PrunedSelections ==
  ASSUME NEW s, StoreTypeOK(s), NEW pat \in Patterns, NEW sel \in Pruned(s, pat)
  PROVE  sel \in Selections(s.base)
<1>1. CASE sel = s.sel
  BY <1>1, SelectionFacts
<1>2. CASE sel # s.sel
  <2>1. PICK a, b \in DOMAIN s.base : sel = Ids(s.sel.rows \cap a..b)
    BY <1>2 DEF Pruned
  <2>2. s.sel.rows \cap a..b \in SUBSET DOMAIN s.base
    BY SelectionFacts
  <2> QED
    BY <2>1, <2>2, SelectionFacts
<1> QED
  BY <1>1, <1>2

(* Every route of match_base_in_memory leaves a well-formed view with the  *)
(* store's data.                                                           *)
LEMMA MemoryViewsShare ==
  ASSUME NEW s, StoreTypeOK(s), NEW pat \in Patterns, NEW v \in MemoryViews(s, pat)
  PROVE  StoreTypeOK(v) /\ SameData(v, s)
<1>1. v \in {s, EmptyView(s), [s EXCEPT !.sel = Ids(Located(s, pat))]}
  BY DEF MemoryViews
<1>2. Ids(Located(s, pat)) \in Selections(s.base)
  BY LocatedRows, SelectionFacts
<1>3. CASE v = s
  BY <1>3, SelectionFacts DEF SameData
<1>4. CASE v = EmptyView(s)
  BY <1>4, EmptyViewShares
<1>5. CASE v = [s EXCEPT !.sel = Ids(Located(s, pat))]
  BY <1>2, <1>5, SelectionFacts DEF StoreTypeOK, SameData
<1> QED
  BY <1>1, <1>3, <1>4, <1>5

(* So does every route of match_base_file.                                 *)
LEMMA FileRoutesShare ==
  ASSUME NEW s, StoreTypeOK(s), NEW pat \in Patterns, NEW v \in FileRoutes(s, pat)
  PROVE  StoreTypeOK(v) /\ SameData(v, s)
<1>1. CASE v \in {[s EXCEPT !.sel = sel, !.filter = Pushed(s, pat)] : sel \in Pruned(s, pat)}
  <2>1. PICK sel \in Pruned(s, pat) : v = [s EXCEPT !.sel = sel, !.filter = Pushed(s, pat)]
    BY <1>1
  <2>2. sel \in Selections(s.base)
    BY PrunedSelections
  <2>3. Pushed(s, pat) \in Filters
    BY SelectionFacts DEF Pushed, Filters
  <2> QED
    BY <2>1, <2>2, <2>3, SelectionFacts DEF StoreTypeOK, SameData
<1>2. CASE v = [s EXCEPT !.sel = Ids(Located(s, pat))]
  <2>1. Ids(Located(s, pat)) \in Selections(s.base)
    BY LocatedRows, SelectionFacts
  <2> QED
    BY <1>2, <2>1, SelectionFacts DEF StoreTypeOK, SameData
<1>3. CASE v = [s EXCEPT !.sel = Ids(Wanted(s, pat)), !.filter = NoFilter]
  <2>1. Ids(Wanted(s, pat)) \in Selections(s.base) /\ NoFilter \in Filters
    BY LocatedRows, SelectionFacts
  <2> QED
    BY <1>3, <2>1, SelectionFacts DEF StoreTypeOK, SameData
<1> QED
  BY <1>1, <1>2, <1>3 DEF FileRoutes

(* And its empty views.                                                    *)
LEMMA FileViewsShare ==
  ASSUME NEW s, StoreTypeOK(s), NEW pat \in Patterns, NEW v \in FileViews(s, pat)
  PROVE  StoreTypeOK(v) /\ SameData(v, s)
<1>1. PICK w \in {s} \cup FileRoutes(s, pat) : v = IF w.sel.rows = {} THEN EmptyView(s) ELSE w
  BY DEF FileViews
<1>2. SameData(s, s)
  BY SelectionFacts DEF SameData
<1>3. StoreTypeOK(w) /\ SameData(w, s)
  BY <1>2, FileRoutesShare
<1> QED
  BY <1>1, <1>3, EmptyViewShares

(* Every view a match leaves is well formed and has the store's data, its  *)
(* generation included.                                                    *)
LEMMA MatchesShare ==
  ASSUME NEW s, StoreTypeOK(s), NEW pat \in Patterns, NEW v \in Matches(s, pat)
  PROVE  StoreTypeOK(v) /\ SameData(v, s)
<1> DEFINE t == MatchTail(s.tail, pat)
<1>1. PICK w \in MemoryViews(s, pat) \cup FileViews(s, pat) : v = [w EXCEPT !.tail = t]
  BY DEF Matches
<1>2. StoreTypeOK(w) /\ SameData(w, s)
  BY MemoryViewsShare, FileViewsShare
<1>3. TailTypeOK(t) /\ SameTail(t, s.tail)
  BY SelectionFacts, MatchTailType
<1> HIDE DEF t
<1> QED
  BY <1>1, <1>2, <1>3 DEF StoreTypeOK, SameData

(* A window is a well-formed view with the store's data.                   *)
LEMMA WindowsShare ==
  ASSUME NEW s, StoreTypeOK(s), NEW offset \in Nat, NEW limit \in Nat,
         NEW v \in Windows(s, offset, limit)
  PROVE  StoreTypeOK(v) /\ SameData(v, s)
<1> DEFINE live  == BaseLive(s)
           taken == Cut(live, offset, limit)
           TailRows(seen) ==
             Cut(TailLive(s.tail), Monus(offset, seen), Monus(limit, Cardinality(taken)))
           TailCut(seen) == IF s.tail = NoTail THEN s.tail
                            ELSE [s.tail EXCEPT !.sel = Ids(TailRows(seen))]
<1>1. taken \in SUBSET DOMAIN s.base
  BY SelectionFacts DEF Cut, BaseLive
<1>2. ASSUME NEW seen
      PROVE  TailTypeOK(TailCut(seen)) /\ SameTail(TailCut(seen), s.tail)
  <2>1. TailRows(seen) \in SUBSET DOMAIN s.tail.rows
    <3>1. TailLive(s.tail) \in SUBSET DOMAIN s.tail.rows
      BY SelectionFacts DEF TailTypeOK, TailLive, Selections
    <3> QED BY <3>1 DEF Cut
  <2>2. Ids(TailRows(seen)) \in Selections(s.tail.rows)
    BY <2>1 DEF Ids, Selections
  <2> QED
    BY <2>2, SelectionFacts DEF TailTypeOK, SameTail
<1>3. \/ v = s
      \/ \E seen : v = [s EXCEPT !.tail = TailCut(seen)]
      \/ \E seen : v = [s EXCEPT !.sel = Ids(taken), !.filter = NoFilter, !.tail = TailCut(seen)]
  BY DEF Windows
<1> HIDE DEF live, taken, TailCut
<1>4. CASE v = s
  BY <1>4, SelectionFacts DEF SameData
<1>5. ASSUME NEW seen, v = [s EXCEPT !.tail = TailCut(seen)]
      PROVE  StoreTypeOK(v) /\ SameData(v, s)
  BY <1>2, <1>5 DEF StoreTypeOK, SameData
<1>6. ASSUME NEW seen,
             v = [s EXCEPT !.sel = Ids(taken), !.filter = NoFilter, !.tail = TailCut(seen)]
      PROVE  StoreTypeOK(v) /\ SameData(v, s)
  <2>1. Ids(taken) \in Selections(s.base) /\ NoFilter \in Filters
    BY <1>1, SelectionFacts
  <2> QED
    BY <1>2, <1>6, <2>1 DEF StoreTypeOK, SameData
<1> QED
  BY <1>3, <1>4, <1>5, <1>6

-----------------------------------------------------------------------------
(* What every operation preserves of one store                             *)

Sound(s) ==
  /\ StoreTypeOK(s)
  /\ KeysName(s.tail)
  /\ EachQuadOnce(s)
  /\ IndexesAddress(s)

(* A well-formed view of a sound store is sound.                           *)
LEMMA ViewSound ==
  ASSUME NEW s, Sound(s), NEW v, StoreTypeOK(v), SameData(v, s)
  PROVE  Sound(v)
BY DEF Sound, SameData, SameTail, KeysName, EachQuadOnce, UndeletedBase, UndeletedTail,
       IndexesAddress

(* A store whose base is all it has is sound when no quad is in it twice   *)
(* (from_quads, from_file, compaction).                                    *)
LEMMA FreshSound ==
  ASSUME NEW rows \in Seq(Quads), Injective(rows, DOMAIN rows),
         NEW idx \in SUBSET Indexes, NEW id \in 0..MaxFiles, NEW gen
  PROVE  Sound(Fresh(rows, idx, id, gen)) /\ Fresh(rows, idx, id, gen).generation = gen
<1> DEFINE f == Fresh(rows, idx, id, gen)
<1>1. /\ f.base = rows /\ f.file = id /\ f.sel = All(rows) /\ f.filter = NoFilter
      /\ f.deleted = Undeleted /\ f.tail = NoTail /\ f.indexes = idx /\ f.over = rows
      /\ f.generation = gen
      /\ DOMAIN f = {"base", "file", "sel", "filter", "deleted", "tail", "indexes",
                     "over", "generation"}
  BY DEF Fresh
<1> HIDE DEF f
<1>2. /\ All(rows) \in Selections(rows) /\ Undeleted \in Masks(rows) /\ NoFilter \in Filters
  BY DEF All, Selections, Undeleted, Masks, NoFilter, Filters
<1>3. StoreTypeOK(f)
  BY <1>1, <1>2, NoTailOK DEF StoreTypeOK
<1>4. NoTail.rows = <<>> /\ DOMAIN NoTail.rows = {}
  BY DEF NoTail, NewTail
<1>5. EachQuadOnce(f)
  BY <1>1, <1>4 DEF EachQuadOnce, Injective, UndeletedTail, Values
<1> QED
  BY <1>1, <1>3, <1>5, NoTailOK DEF Sound, IndexesAddress, f

(* A store's live rows are rows of its base and tail.                      *)
LEMMA LiveQuadsType ==
  ASSUME NEW s, StoreTypeOK(s)
  PROVE  /\ LiveQuads(s) \in SUBSET Quads
         /\ BaseLive(s) \in SUBSET DOMAIN s.base
<1>1. \A seq \in Seq(Quads) : \A r \in DOMAIN seq : seq[r] \in Quads
  BY LenProperties, ElementOfSeq
<1>2. BaseLive(s) \in SUBSET DOMAIN s.base
  BY SelectionFacts DEF BaseLive
<1>3. TailLive(s.tail) \in SUBSET DOMAIN s.tail.rows
  BY SelectionFacts DEF TailTypeOK, TailLive, Selections
<1>4. s.base \in Seq(Quads) /\ s.tail.rows \in Seq(Quads)
  BY DEF StoreTypeOK, TailTypeOK
<1> QED
  BY <1>1, <1>2, <1>3, <1>4 DEF LiveQuads, Values

(* A compaction's rows.                                                    *)
LEMMA SortedLiveRows ==
  ASSUME NEW s, StoreTypeOK(s)
  PROVE  SortedLive(s) \in Seq(Quads) /\ Injective(SortedLive(s), DOMAIN SortedLive(s))
BY LiveQuadsType, SortedRows DEF SortedLive

(* delete_matching: wider masks over the same rows.                        *)
LEMMA DeletedSound ==
  ASSUME NEW s, Sound(s), NEW R \in SUBSET DOMAIN s.base,
         NEW Q \in SUBSET DOMAIN s.tail.rows, NEW gen
  PROVE  Sound(Tombstoned(s, R, Q, gen)) /\ Tombstoned(s, R, Q, gen).generation = gen
<1> DEFINE t == TailTombstoned(s.tail, Q)
           d == Tombstoned(s, R, Q, gen)
<1>0. StoreTypeOK(s) /\ KeysName(s.tail) /\ EachQuadOnce(s) /\ IndexesAddress(s)
  BY DEF Sound
<1>1. UnionDeleted(s.deleted, R) \in Masks(s.base) /\ s.deleted.rows \subseteq UnionDeleted(s.deleted, R).rows
  BY <1>0 DEF UnionDeleted, Masks, StoreTypeOK
<1>2. /\ TailTypeOK(t) /\ t.rows = s.tail.rows /\ t.keys = s.tail.keys
      /\ s.tail.deleted.rows \subseteq t.deleted.rows
  <2>1. CASE s.tail = NoTail
    BY <1>0, <2>1 DEF TailTombstoned, StoreTypeOK
  <2>2. CASE s.tail # NoTail
    <3>1. TailTypeOK(s.tail)
      BY <1>0 DEF StoreTypeOK
    <3>2. t = [s.tail EXCEPT !.deleted = UnionDeleted(s.tail.deleted, Q)]
      BY <2>2 DEF TailTombstoned
    <3>3. /\ UnionDeleted(s.tail.deleted, Q) \in Masks(s.tail.rows)
          /\ s.tail.deleted.rows \subseteq UnionDeleted(s.tail.deleted, Q).rows
      BY <3>1 DEF UnionDeleted, Masks, TailTypeOK
    <3> QED
      BY <3>1, <3>2, <3>3 DEF TailTypeOK
  <2> QED BY <2>1, <2>2
<1> HIDE DEF t
<1>3. /\ d.base = s.base /\ d.file = s.file /\ d.sel = s.sel /\ d.filter = s.filter
      /\ d.deleted = UnionDeleted(s.deleted, R) /\ d.tail = t /\ d.indexes = s.indexes
      /\ d.over = s.over /\ d.generation = gen /\ DOMAIN d = DOMAIN s
  BY <1>0 DEF StoreTypeOK, Tombstoned, t
<1> HIDE DEF d
<1>4. StoreTypeOK(d)
  BY <1>0, <1>1, <1>2, <1>3 DEF StoreTypeOK
<1>5. UndeletedBase(d) \subseteq UndeletedBase(s) /\ UndeletedTail(d) \subseteq UndeletedTail(s)
  BY <1>1, <1>2, <1>3 DEF UndeletedBase, UndeletedTail
<1>6. EachQuadOnce(d)
  BY <1>0, <1>2, <1>3, <1>5 DEF EachQuadOnce, Injective, Values
<1>7. Sound(d)
  BY <1>0, <1>2, <1>3, <1>4, <1>6 DEF Sound, KeysName, IndexesAddress
<1> QED
  BY <1>3, <1>7 DEF d

(* contains misses nothing an owner holds: the base rows through either    *)
(* backend, the tail rows through their keys.                              *)
LEMMA ContainsComplete ==
  ASSUME NEW s, Sound(s), IsOwner(s), NEW q \in Quads,
         \/ q \in Values(s.base, UndeletedBase(s))
         \/ q \in Values(s.tail.rows, UndeletedTail(s))
  PROVE  Contains(s, q)
<1> DEFINE pat == [kind |-> "full", admits |-> {q}]
           w   == [s EXCEPT !.sel = Ids(Located(s, pat))]
           t   == MatchTail(s.tail, pat)
           views == IF s.file = InMemory THEN MemoryViews(s, pat) ELSE FileViews(s, pat)
<1>1. pat \in Patterns /\ pat.kind = "full" /\ pat.admits = {q}
  BY DEF Patterns
<1> HIDE DEF pat
<1>2. StoreTypeOK(s) /\ KeysName(s.tail)
  BY DEF Sound
<1>3. /\ s.sel.rows = DOMAIN s.base /\ s.tail.sel.rows = DOMAIN s.tail.rows
      /\ s.filter = NoFilter
  BY <1>2 DEF IsOwner, StoreTypeOK, TailTypeOK, Selections, Filters
<1>4. \A v \in views : [v EXCEPT !.tail = t] \in Matches(s, pat)
  BY DEF Matches
<1>5. SUFFICES \E v \in views : LiveQuads([v EXCEPT !.tail = t]) # {}
  BY <1>4 DEF Contains, pat
<1>6. \A v \in views : StoreTypeOK(v) /\ SameData(v, s)
  BY <1>1, <1>2, MemoryViewsShare, FileViewsShare
<1>7. w \in MemoryViews(s, pat)
  BY <1>1 DEF MemoryViews
<1>8. \E v \in FileViews(s, pat) : w.sel.rows # {} => v = w
  <2>1. w \in FileRoutes(s, pat)
    BY DEF FileRoutes
  <2> HIDE DEF w
  <2>2. (IF w.sel.rows = {} THEN EmptyView(s) ELSE w) \in FileViews(s, pat)
    BY <1>1, <2>1 DEF FileViews
  <2> QED BY <2>2
<1>9. \E v \in views : w.sel.rows # {} => v = w
  BY <1>7, <1>8
<1>10. CASE q \in Values(s.base, UndeletedBase(s))
  <2>1. PICK r \in UndeletedBase(s) : s.base[r] = q
    BY <1>10 DEF Values
  <2>2. r \in DOMAIN s.base /\ r \notin s.deleted.rows
    BY DEF UndeletedBase
  <2>3. r \in Located(s, pat)
    BY <1>1, <1>3, <2>1, <2>2 DEF Located
  <2>4. w.sel.rows = Located(s, pat)
    BY <1>2 DEF StoreTypeOK, Ids
  <2>5. w \in views
    BY <1>9, <2>3, <2>4
  <2> DEFINE v == [w EXCEPT !.tail = t]
  <2>6. v.sel.rows = Located(s, pat) /\ v.base = s.base /\ v.deleted = s.deleted /\ v.filter = s.filter
    BY <1>2 DEF StoreTypeOK, Ids
  <2> HIDE DEF v
  <2>7. r \in BaseLive(v)
    BY <1>3, <2>1, <2>2, <2>3, <2>6 DEF BaseLive, NoFilter
  <2>8. LiveQuads(v) # {}
    BY <2>7 DEF LiveQuads, Values
  <2> QED
    BY <2>5, <2>8 DEF v
<1>11. CASE q \in Values(s.tail.rows, UndeletedTail(s))
  <2>1. PICK r \in UndeletedTail(s) : s.tail.rows[r] = q
    BY <1>11 DEF Values
  <2>2. r \in DOMAIN s.tail.rows /\ r \notin s.tail.deleted.rows /\ r \in s.tail.sel.rows
    BY <1>3 DEF UndeletedTail
  <2>3. 0 + r = r
    BY <1>2, <2>2, LenProperties DEF StoreTypeOK, TailTypeOK
  <2>4. <<Hash(q), r>> \in s.tail.keys
    BY <1>2, <2>1, <2>2, <2>3 DEF KeysName, RowKeys
  <2>5. r \in t.sel.rows
    BY <1>1, <1>2, <2>1, <2>2, <2>4 DEF MatchTail, Ids, StoreTypeOK, TailTypeOK
  <2>6. t.deleted = s.tail.deleted
    BY <1>1, <1>2, MatchTailType DEF SameTail, StoreTypeOK
  <2>7. r \in TailLive(t)
    BY <2>2, <2>5, <2>6 DEF TailLive
  <2> HIDE DEF t
  <2>8. PICK v \in views : StoreTypeOK(v)
    BY <1>6, <1>9
  <2>9. [v EXCEPT !.tail = t].tail = t
    BY <2>8 DEF StoreTypeOK
  <2>10. LiveQuads([v EXCEPT !.tail = t]) # {}
    BY <2>7, <2>9 DEF LiveQuads, Values
  <2> QED
    BY <2>8, <2>10
<1> QED
  BY <1>10, <1>11

(* What add_quads appends: each quad once, none the store holds.           *)
LEMMA FreshQuadsRows ==
  ASSUME NEW s, Sound(s), IsOwner(s), NEW batch \in Batches
  PROVE  LET f == FreshQuads(s, batch) IN
         /\ f \in Seq(Quads)
         /\ Injective(f, DOMAIN f)
         /\ Values(f, DOMAIN f) \cap Values(s.base, UndeletedBase(s)) = {}
         /\ Values(f, DOMAIN f) \cap Values(s.tail.rows, UndeletedTail(s)) = {}
<1> DEFINE R == {i \in DOMAIN batch : /\ \A j \in 1..(i - 1) : batch[j] # batch[i]
                                     /\ ~Contains(s, batch[i])}
           f == Gather(batch, R)
<1>1. batch \in Seq(Quads)
  BY BatchesAssumption
<1>2. DOMAIN batch = 1..Len(batch) /\ Len(batch) \in Nat /\ \A i \in DOMAIN batch : batch[i] \in Quads
  BY <1>1, LenProperties
<1>3. R \in SUBSET DOMAIN batch
  OBVIOUS
<1>4. Injective(batch, R)
  <2>1. SUFFICES ASSUME NEW i \in R, NEW j \in R, batch[i] = batch[j]
                 PROVE  i = j
    BY DEF Injective
  <2>2. i \in Nat /\ j \in Nat /\ i >= 1 /\ j >= 1
    BY <1>2
  <2>3. ~(j < i)
    <3>1. SUFFICES ASSUME j < i PROVE FALSE
      OBVIOUS
    <3>2. j \in 1..(i - 1)
      BY <2>2, <3>1
    <3> QED BY <2>1, <3>2
  <2>4. ~(i < j)
    <3>1. SUFFICES ASSUME i < j PROVE FALSE
      OBVIOUS
    <3>2. i \in 1..(j - 1)
      BY <2>2, <3>1
    <3> QED BY <2>1, <3>2
  <2> QED BY <2>2, <2>3, <2>4
<1>5. \A q \in Values(batch, R) : q \in Quads /\ ~Contains(s, q)
  BY <1>2 DEF Values
<1>6. FreshQuads(s, batch) = f
  BY DEF FreshQuads
<1> HIDE DEF R
<1>7. f \in Seq(Quads) /\ Values(f, DOMAIN f) = Values(batch, R) /\ Injective(f, DOMAIN f)
  BY <1>1, <1>3, <1>4, GatherRows
<1> HIDE DEF f
<1>8. \A q \in Values(f, DOMAIN f) : /\ q \notin Values(s.base, UndeletedBase(s))
                                    /\ q \notin Values(s.tail.rows, UndeletedTail(s))
  BY <1>5, <1>7, ContainsComplete
<1> QED
  BY <1>6, <1>7, <1>8

(* Two sequences with each quad once and none in common make one.          *)
LEMMA ConcatOnce ==
  ASSUME NEW a \in Seq(Quads), NEW b \in Seq(Quads),
         Injective(a, DOMAIN a), Injective(b, DOMAIN b),
         Values(a, DOMAIN a) \cap Values(b, DOMAIN b) = {}
  PROVE  /\ Injective(a \o b, DOMAIN (a \o b))
         /\ Values(a \o b, DOMAIN (a \o b)) = Values(a, DOMAIN a) \cup Values(b, DOMAIN b)
<1> DEFINE c == a \o b
           m == Len(a)
           n == Len(b)
<1>1. m \in Nat /\ DOMAIN a = 1..m /\ n \in Nat /\ DOMAIN b = 1..n
  BY LenProperties
<1>2. c \in Seq(Quads) /\ Len(c) = m + n
  BY ConcatProperties
<1>3. DOMAIN c = 1..(m + n)
  BY <1>2, LenProperties
<1>4. \A i \in 1..(m + n) : c[i] = IF i <= m THEN a[i] ELSE b[i - m]
  BY ConcatProperties
<1> HIDE DEF c, m, n
<1>5. \A i \in DOMAIN c :
        \/ i \in DOMAIN a /\ c[i] = a[i] /\ i <= m
        \/ i - m \in DOMAIN b /\ c[i] = b[i - m] /\ i > m
  BY <1>1, <1>3, <1>4
<1>6. \A i \in DOMAIN a : i \in DOMAIN c /\ c[i] = a[i]
  BY <1>1, <1>3, <1>4
<1>7. ASSUME NEW j \in DOMAIN b
      PROVE  m + j \in DOMAIN c /\ c[m + j] = b[j]
  BY <1>1, <1>3, <1>4
<1>8. ASSUME NEW i \in DOMAIN c, NEW j \in DOMAIN c, c[i] = c[j]
      PROVE  i = j
  <2>1. CASE i <= m /\ j <= m
    BY <1>1, <1>3, <1>5, <1>8, <2>1 DEF Injective
  <2>2. CASE i > m /\ j > m
    <3>1. i - m = j - m
      BY <1>1, <1>3, <1>5, <1>8, <2>2 DEF Injective
    <3> QED BY <1>1, <1>3, <3>1
  <2>3. CASE i <= m /\ j > m
    <3>1. i \in DOMAIN a /\ c[i] = a[i] /\ j - m \in DOMAIN b /\ c[j] = b[j - m]
      BY <1>1, <1>3, <1>5, <2>3
    <3>2. c[i] \in Values(a, DOMAIN a) /\ c[j] \in Values(b, DOMAIN b)
      BY <3>1 DEF Values
    <3> QED BY <1>8, <3>2
  <2>4. CASE i > m /\ j <= m
    <3>1. j \in DOMAIN a /\ c[j] = a[j] /\ i - m \in DOMAIN b /\ c[i] = b[i - m]
      BY <1>1, <1>3, <1>5, <2>4
    <3>2. c[j] \in Values(a, DOMAIN a) /\ c[i] \in Values(b, DOMAIN b)
      BY <3>1 DEF Values
    <3> QED BY <1>8, <3>2
  <2> QED
    BY <1>1, <1>3, <2>1, <2>2, <2>3, <2>4
<1>9. Values(c, DOMAIN c) \subseteq Values(a, DOMAIN a) \cup Values(b, DOMAIN b)
  BY <1>5 DEF Values
<1>10. Values(a, DOMAIN a) \subseteq Values(c, DOMAIN c)
  BY <1>6 DEF Values
<1>11. Values(b, DOMAIN b) \subseteq Values(c, DOMAIN c)
  BY <1>7 DEF Values
<1> QED
  BY <1>8, <1>9, <1>10, <1>11 DEF Injective, c

(* add_quads, before any compaction.                                       *)
LEMMA AppendedSound ==
  ASSUME NEW s, Sound(s), IsOwner(s), NEW batch \in Batches, NEW gen
  PROVE  LET a == Appended(s, FreshQuads(s, batch), gen)
         IN /\ Sound(a) /\ a.generation = gen
            /\ a.file = s.file /\ a.indexes = s.indexes
<1> DEFINE f == FreshQuads(s, batch)
           t == TailAppend(s.tail, f)
           a == [s EXCEPT !.tail = t, !.generation = gen]
<1>1. /\ f \in Seq(Quads)
      /\ Injective(f, DOMAIN f)
      /\ Values(f, DOMAIN f) \cap Values(s.base, UndeletedBase(s)) = {}
      /\ Values(f, DOMAIN f) \cap Values(s.tail.rows, UndeletedTail(s)) = {}
  BY FreshQuadsRows
<1> HIDE DEF f
<1>2. StoreTypeOK(s) /\ KeysName(s.tail) /\ EachQuadOnce(s) /\ IndexesAddress(s) /\ TailTypeOK(s.tail)
  BY DEF Sound, StoreTypeOK
<1>3. TailLive(s.tail) = UndeletedTail(s)
  BY <1>2 DEF IsOwner, TailLive, UndeletedTail, TailTypeOK, Selections
<1>4. TailTypeOK(t) /\ KeysName(t) /\ t.deleted.rows = {}
  BY <1>1, <1>2, TailAppendRows
<1>5. PICK live \in Seq(Quads) :
        /\ t.rows = live \o f
        /\ Values(live, DOMAIN live) = Values(s.tail.rows, UndeletedTail(s))
        /\ Injective(live, DOMAIN live)
  <2>1. Injective(s.tail.rows, TailLive(s.tail))
    BY <1>2, <1>3 DEF EachQuadOnce
  <2>2. \E live \in Seq(Quads) :
          /\ t.rows = live \o f
          /\ Values(live, DOMAIN live) = Values(s.tail.rows, TailLive(s.tail))
          /\ Injective(s.tail.rows, TailLive(s.tail)) => Injective(live, DOMAIN live)
    BY <1>1, <1>2, TailAppendRows, Zenon
  <2> HIDE DEF t
  <2> QED BY <1>3, <2>1, <2>2
<1>6. /\ Injective(t.rows, DOMAIN t.rows)
      /\ Values(t.rows, DOMAIN t.rows) = Values(s.tail.rows, UndeletedTail(s)) \cup Values(f, DOMAIN f)
  BY <1>1, <1>5, ConcatOnce
<1> HIDE DEF t
<1>7. /\ a.base = s.base /\ a.file = s.file /\ a.sel = s.sel /\ a.filter = s.filter
      /\ a.deleted = s.deleted /\ a.tail = t /\ a.indexes = s.indexes
      /\ a.over = s.over /\ a.generation = gen /\ DOMAIN a = DOMAIN s
  BY <1>2 DEF StoreTypeOK
<1>8. Appended(s, f, gen) = a
  BY DEF Appended, t
<1> HIDE DEF a
<1>9. StoreTypeOK(a)
  BY <1>2, <1>4, <1>7 DEF StoreTypeOK
<1>10. UndeletedBase(a) = UndeletedBase(s) /\ UndeletedTail(a) = DOMAIN t.rows
  BY <1>4, <1>7 DEF UndeletedBase, UndeletedTail
<1>11. EachQuadOnce(a)
  <2>1. Values(s.base, UndeletedBase(s)) \cap Values(t.rows, DOMAIN t.rows) = {}
    BY <1>1, <1>2, <1>6 DEF EachQuadOnce
  <2> QED
    BY <1>2, <1>6, <1>7, <1>10, <2>1 DEF EachQuadOnce
<1>12. Sound(a)
  BY <1>2, <1>4, <1>7, <1>9, <1>11 DEF Sound, IndexesAddress
<1> QED
  BY <1>7, <1>8, <1>12 DEF f

(* A serialization round trip.                                             *)
LEMMA SerializedSound ==
  ASSUME NEW s, Sound(s), NEW gen
  PROVE  Sound(Serialized(s, gen)) /\ Serialized(s, gen).generation = gen
<1> DEFINE owner_shaped == ~s.filter.pending /\ s.sel.all
           tombstoned   == s.deleted.some
           rebuild      == s.tail # NoTail \/ (owner_shaped /\ tombstoned /\ s.indexes # {})
           rows         == Gather(s.base, BaseLive(s))
           kept         == owner_shaped /\ ~tombstoned
           f            == Fresh(rows, {}, InMemory, gen)
           g == [f EXCEPT !.indexes = IF kept THEN s.indexes ELSE {},
                          !.over = IF kept THEN s.over ELSE rows]
<1>1. StoreTypeOK(s) /\ EachQuadOnce(s) /\ IndexesAddress(s) /\ s.indexes \in SUBSET Indexes
  BY DEF Sound, StoreTypeOK
<1>2. InMemory \in 0..MaxFiles
  BY BoundsAssumption DEF InMemory
<1>3. CASE rebuild
  <2>1. Serialized(s, gen) = Fresh(SortedLive(s), s.indexes, InMemory, gen)
    BY <1>3 DEF Serialized
  <2> QED
    BY <1>1, <1>2, <2>1, SortedLiveRows, FreshSound
<1>4. CASE ~rebuild
  <2>1. Serialized(s, gen) = g
    BY <1>4 DEF Serialized
  <2>2. rows \in Seq(Quads) /\ Injective(rows, DOMAIN rows)
    <3>1. s.base \in Seq(Quads) /\ BaseLive(s) \in SUBSET DOMAIN s.base
      BY <1>1, LiveQuadsType DEF StoreTypeOK
    <3>2. Injective(s.base, BaseLive(s))
      BY <1>1, <3>1 DEF EachQuadOnce, Injective
    <3> QED BY <3>1, <3>2, GatherRows
  <2>3. Sound(f) /\ f.generation = gen /\ f.base = rows /\ f.over = rows
    <3>1. Sound(f) /\ f.generation = gen
      BY <1>2, <2>2, FreshSound
    <3> QED BY <3>1 DEF Fresh
  <2>4. CASE ~kept
    <3>1. g = [f EXCEPT !.indexes = {}, !.over = rows]
      BY <2>4
    <3> HIDE DEF f, rows, kept
    <3> QED
      BY <2>1, <2>2, <2>3, <3>1 DEF Sound, StoreTypeOK, EachQuadOnce, UndeletedBase, UndeletedTail,
         IndexesAddress
  <2>5. CASE kept
    <3>1. g = [f EXCEPT !.indexes = s.indexes, !.over = s.over]
      BY <2>5
    <3>2. s.indexes # {} => s.over = rows
      <4>1. BaseLive(s) = DOMAIN s.base
        <5>1. s.sel.rows = DOMAIN s.base /\ s.deleted.rows = {} /\ s.filter = NoFilter
          BY <1>1, <2>5 DEF StoreTypeOK, Selections, Masks, Filters
        <5>2. \A r \in DOMAIN s.base : s.base[r] \in Quads
          BY <1>1, LenProperties DEF StoreTypeOK
        <5> QED BY <5>1, <5>2 DEF BaseLive, NoFilter
      <4>2. rows = s.base
        BY <1>1, <4>1, GatherAll DEF StoreTypeOK
      <4> QED BY <1>1, <4>2 DEF IndexesAddress
    <3>3. s.over \in Seq(Quads)
      BY <1>1 DEF StoreTypeOK
    <3> HIDE DEF f, rows, kept
    <3> QED
      BY <1>1, <2>1, <2>2, <2>3, <3>1, <3>2, <3>3 DEF Sound, StoreTypeOK, EachQuadOnce, UndeletedBase,
         UndeletedTail, IndexesAddress
  <2> QED BY <2>4, <2>5
<1> QED
  BY <1>3, <1>4
-----------------------------------------------------------------------------
(* The inductive invariant                                                 *)

(* Besides the properties themselves: every file a store is opened from    *)
(* holds each quad once, since it was built or compacted, both sorted and  *)
(* deduplicated.                                                           *)
IInv ==
  /\ TypeOK
  /\ SetSemantics
  /\ KeysAddressTail
  /\ IndexesAddressBase
  /\ GenerationIdentifiesData
  /\ Injective(disk.rows, DOMAIN disk.rows)

(* The invariant says of each store that it is sound.                      *)
LEMMA IInvSound ==
  ASSUME IInv, NEW h \in DOMAIN store
  PROVE  /\ Sound(store[h])
         /\ store[h].generation \in 1..generation
         /\ h \in Handles
BY DEF IInv, TypeOK, SetSemantics, KeysAddressTail, IndexesAddressBase, Sound

(* What the operations that leave the file alone leave.                    *)
SameDisk == disk' = disk /\ writable' = writable

CallOK == call'.on \in Handles /\ call'.to \in Handles /\ call'.quads \subseteq Quads

(* Binding a sound store preserves the invariant, provided its generation  *)
(* is new or it has the data of a store that has that generation.          *)
LEMMA BindPreserves ==
  ASSUME IInv, NEW k \in Handles, NEW v, Bind(k, v), Sound(v), CallOK,
         generation' \in generation..MaxGeneration,
         v.generation \in 1..generation',
         v.generation > generation \/ \E h \in DOMAIN store : SameData(v, store[h]),
         disk' \in [id : 1..MaxFiles, rows : Seq(Quads), indexes : SUBSET Indexes],
         Injective(disk'.rows, DOMAIN disk'.rows),
         writable' \in BOOLEAN
  PROVE  IInv'
<1>1. generation \in Nat /\ generation' \in Nat /\ MaxGeneration \in Nat
  BY BoundsAssumption DEF IInv, TypeOK
<1>2. DOMAIN store' = DOMAIN store \cup {k}
  BY DEF Bind
<1>3. ASSUME NEW h \in DOMAIN store'
      PROVE  store'[h] = v \/ (h \in DOMAIN store /\ store'[h] = store[h])
  BY <1>3 DEF Bind
<1>4. ASSUME NEW h \in DOMAIN store'
      PROVE  Sound(store'[h]) /\ store'[h].generation \in 1..generation'
  <2>1. CASE store'[h] = v
    BY <2>1
  <2>2. CASE h \in DOMAIN store /\ store'[h] = store[h]
    BY <1>1, <2>2, IInvSound
  <2> QED BY <1>3, <2>1, <2>2
<1>5. TypeOK'
  <2>1. DOMAIN store' \subseteq Handles
    BY <1>2 DEF IInv, TypeOK
  <2>2. \A h \in DOMAIN store' : StoreTypeOK(store'[h]) /\ store'[h].generation \in 1..generation'
    BY <1>4 DEF Sound
  <2>3. generation' \in 0..MaxGeneration
    BY <1>1
  <2> QED
    BY <2>1, <2>2, <2>3 DEF TypeOK, CallOK
<1>6. SetSemantics' /\ KeysAddressTail' /\ IndexesAddressBase'
  BY <1>4 DEF Sound, SetSemantics, KeysAddressTail, IndexesAddressBase
<1>7. GenerationIdentifiesData'
  <2> DEFINE Same(a, b) == /\ a.base = b.base /\ a.file = b.file /\ a.deleted = b.deleted
                           /\ a.tail.rows = b.tail.rows /\ a.tail.deleted = b.tail.deleted
  <2>1. ASSUME NEW x \in DOMAIN store, v.generation = store[x].generation
        PROVE  Same(v, store[x])
    <3>1. store[x].generation \in 1..generation
      BY IInvSound
    <3>2. ~(v.generation > generation)
      BY <1>1, <2>1, <3>1
    <3>3. PICK y \in DOMAIN store : SameData(v, store[y])
      BY <3>2
    <3>4. Same(v, store[y]) /\ v.generation = store[y].generation
      BY <3>3 DEF SameData, SameTail
    <3>5. Same(store[y], store[x])
      <4>1. \A a, b \in DOMAIN store :
              store[a].generation = store[b].generation => Same(store[a], store[b])
        BY DEF IInv, GenerationIdentifiesData
      <4> HIDE DEF Same
      <4> QED BY <2>1, <3>4, <4>1
    <3> QED BY <3>4, <3>5
  <2>2. ASSUME NEW x \in DOMAIN store', NEW y \in DOMAIN store',
               store'[x].generation = store'[y].generation
        PROVE  Same(store'[x], store'[y])
    <3>1. CASE store'[x] = v /\ store'[y] = v
      BY <3>1
    <3>2. CASE store'[x] = v /\ y \in DOMAIN store /\ store'[y] = store[y]
      BY <2>1, <2>2, <3>2
    <3>3. CASE store'[y] = v /\ x \in DOMAIN store /\ store'[x] = store[x]
      BY <2>1, <2>2, <3>3
    <3>4. CASE /\ x \in DOMAIN store /\ store'[x] = store[x]
               /\ y \in DOMAIN store /\ store'[y] = store[y]
      BY <2>2, <3>4 DEF IInv, GenerationIdentifiesData
    <3> QED BY <1>3, <3>1, <3>2, <3>3, <3>4
  <2> QED
    BY <2>2 DEF GenerationIdentifiesData
<1> QED
  BY <1>5, <1>6, <1>7 DEF IInv

(* The same for the operations that leave the file alone.                  *)
LEMMA BindKeepsDisk ==
  ASSUME IInv, NEW k \in Handles, NEW v, Bind(k, v), Sound(v), CallOK, SameDisk,
         generation' \in generation..MaxGeneration,
         v.generation \in 1..generation',
         v.generation > generation \/ \E h \in DOMAIN store : SameData(v, store[h])
  PROVE  IInv'
<1>1. /\ disk' \in [id : 1..MaxFiles, rows : Seq(Quads), indexes : SUBSET Indexes]
      /\ Injective(disk'.rows, DOMAIN disk'.rows)
      /\ writable' \in BOOLEAN
  BY DEF IInv, TypeOK, SameDisk
<1> QED
  BY <1>1, BindPreserves

(* A store that takes the data of h, and its generation.                   *)
LEMMA ViewPreserves ==
  ASSUME IInv, NEW h \in DOMAIN store, NEW k \in Handles, NEW v, Bind(k, v),
         StoreTypeOK(v), SameData(v, store[h]), CallOK, SameDisk, generation' = generation
  PROVE  IInv'
<1>1. Sound(store[h]) /\ store[h].generation \in 1..generation
  BY IInvSound
<1>2. Sound(v) /\ v.generation = store[h].generation
  BY <1>1, ViewSound DEF SameData
<1>3. generation' \in generation..MaxGeneration
  BY BoundsAssumption DEF IInv, TypeOK
<1> QED
  BY <1>1, <1>2, <1>3, BindKeepsDisk

(* A store of a new generation.                                            *)
LEMMA NewPreserves ==
  ASSUME IInv, NEW k \in Handles, NEW v, Bind(k, v), Sound(v), CallOK, SameDisk,
         Take(1), v.generation = generation'
  PROVE  IInv'
<1>1. /\ generation' \in generation..MaxGeneration
      /\ v.generation \in 1..generation'
      /\ v.generation > generation
  BY BoundsAssumption DEF IInv, TypeOK, Take
<1> QED
  BY <1>1, BindKeepsDisk

(* A compaction, in memory or over the file, of a store that need not be   *)
(* bound to a handle.                                                      *)
LEMMA CompactedPreserves ==
  ASSUME IInv, NEW k \in Handles, NEW s, Sound(s), NEW idx \in SUBSET Indexes,
         NEW gen \in Nat, gen >= generation, gen + 1 <= MaxGeneration,
         Compacted(k, s, idx, gen), generation' = gen + 1, CallOK, writable' = writable
  PROVE  IInv'
<1> DEFINE rows == SortedLive(s)
<1>1. rows \in Seq(Quads) /\ Injective(rows, DOMAIN rows)
  BY SortedLiveRows DEF Sound
<1>2. /\ generation \in Nat /\ disk.id \in 1..MaxFiles /\ writable' \in BOOLEAN
      /\ MaxFiles \in Nat /\ MaxGeneration \in Nat
  BY BoundsAssumption DEF IInv, TypeOK
<1>3. ASSUME NEW id \in 0..MaxFiles
      PROVE  Sound(Fresh(rows, idx, id, gen + 1)) /\ Fresh(rows, idx, id, gen + 1).generation = gen + 1
  <2> HIDE DEF rows
  <2> QED BY <1>1, FreshSound
<1>4. /\ generation' \in generation..MaxGeneration
      /\ gen + 1 \in 1..generation' /\ gen + 1 > generation
  BY <1>2
<1> HIDE DEF rows
<1>5. CASE RewritesFile(s)
  <2>1. /\ disk' = [id |-> disk.id + 1, rows |-> rows, indexes |-> idx]
        /\ disk.id < MaxFiles
        /\ Bind(k, Fresh(disk'.rows, disk'.indexes, disk'.id, gen + 1))
    BY <1>5 DEF Compacted, rows
  <2>2. disk.id + 1 \in 1..MaxFiles /\ disk.id + 1 \in 0..MaxFiles
    BY <1>2, <2>1
  <2>3. disk' \in [id : 1..MaxFiles, rows : Seq(Quads), indexes : SUBSET Indexes]
    BY <1>1, <2>1, <2>2
  <2>4. Injective(disk'.rows, DOMAIN disk'.rows)
    BY <1>1, <2>1
  <2>5. Bind(k, Fresh(rows, idx, disk.id + 1, gen + 1))
    BY <2>1
  <2> QED
    BY <1>2, <1>3, <1>4, <2>2, <2>3, <2>4, <2>5, BindPreserves
<1>6. CASE ~RewritesFile(s)
  <2>1. Bind(k, Fresh(rows, idx, InMemory, gen + 1)) /\ disk' = disk
    BY <1>6 DEF Compacted, rows
  <2>2. InMemory \in 0..MaxFiles
    BY <1>2 DEF InMemory
  <2> QED
    BY <1>3, <1>4, <2>1, <2>2, BindKeepsDisk DEF SameDisk
<1> QED
  BY <1>5, <1>6

(* compact_with_indexes keeps the invariant.                               *)
LEMMA CompactPreserves ==
  ASSUME IInv, NEW h \in DOMAIN store, NEW k \in Handles, NEW idx \in SUBSET Indexes,
         CompactWithIndexes(h, k, idx)
  PROVE  IInv'
<1>1. generation \in Nat
  BY DEF IInv, TypeOK
<1>2. /\ Compacted(k, store[h], idx, generation) /\ generation' = generation + 1
      /\ generation + 1 <= MaxGeneration /\ writable' = writable
  BY DEF CompactWithIndexes, Take
<1>3. Sound(store[h]) /\ CallOK
  BY IInvSound DEF CompactWithIndexes, Called, CallOK
<1> QED
  BY <1>1, <1>2, <1>3, CompactedPreserves

(* add_quads keeps the invariant, whichever way the call ends.             *)
LEMMA AddPreserves ==
  ASSUME IInv, NEW h \in DOMAIN store, NEW k \in Handles, NEW batch \in Batches,
         AddQuads(h, k, batch)
  PROVE  IInv'
<1> DEFINE s == store[h]
           fresh == FreshQuads(s, batch)
           a == Appended(s, fresh, generation + 1)
<1>1. Sound(s) /\ IsOwner(s) /\ s.generation \in 1..generation
  BY IInvSound DEF AddQuads
<1>2. Sound(a) /\ a.generation = generation + 1 /\ a.indexes = s.indexes
  BY <1>1, AppendedSound
<1>3. CallOK
  <2>1. batch \in Seq(Quads)
    BY BatchesAssumption
  <2>2. \A i \in DOMAIN batch : batch[i] \in Quads
    BY <2>1, LenProperties, ElementOfSeq
  <2>3. Values(batch, DOMAIN batch) \subseteq Quads
    BY <2>2 DEF Values
  <2> QED
    BY <2>3, IInvSound DEF AddQuads, Called, CallOK
<1>4. generation \in Nat /\ MaxGeneration \in Nat /\ writable' = writable
  BY BoundsAssumption DEF IInv, TypeOK, AddQuads
<1>5. \/ Bind(k, s) /\ SameDisk /\ generation' = generation
      \/ Bind(k, a) /\ SameDisk /\ Take(1)
      \/ Take(2) /\ Compacted(k, a, a.indexes, generation + 1)
  BY DEF AddQuads, SameDisk
<1> HIDE DEF s, a
<1>6. CASE Bind(k, s) /\ SameDisk /\ generation' = generation
  <2>1. StoreTypeOK(s) /\ SameData(s, s)
    BY <1>1 DEF Sound, SameData, SameTail
  <2> QED
    BY <1>3, <1>6, <2>1, ViewPreserves DEF s
<1>7. CASE Bind(k, a) /\ SameDisk /\ Take(1)
  BY <1>2, <1>3, <1>7, NewPreserves DEF Take
<1>8. CASE Take(2) /\ Compacted(k, a, a.indexes, generation + 1)
  <2>1. a.indexes \in SUBSET Indexes
    BY <1>2 DEF Sound, StoreTypeOK
  <2>2. /\ generation + 1 \in Nat /\ generation + 1 >= generation
        /\ (generation + 1) + 1 <= MaxGeneration /\ generation' = (generation + 1) + 1
    BY <1>4, <1>8 DEF Take
  <2> QED
    BY <1>2, <1>3, <1>4, <1>8, <2>1, <2>2, CompactedPreserves
<1> QED
  BY <1>5, <1>6, <1>7, <1>8

(* delete_matching keeps the invariant.                                    *)
LEMMA DeletePreserves ==
  ASSUME IInv, NEW h \in DOMAIN store, NEW k \in Handles, NEW pat \in Patterns,
         DeleteMatching(h, k, pat)
  PROVE  IInv'
<1> DEFINE s == store[h]
<1>1. Sound(s) /\ StoreTypeOK(s)
  BY IInvSound DEF Sound
<1>2. PICK v \in Matches(s, pat) : Bind(k, Tombstoned(s, DoomedRows(v), v.tail.sel.rows, generation'))
  BY DEF DeleteMatching
<1> DEFINE d == Tombstoned(s, DoomedRows(v), v.tail.sel.rows, generation')
<1>3. StoreTypeOK(v) /\ SameData(v, s)
  BY <1>1, MatchesShare
<1>4. DoomedRows(v) \in SUBSET DOMAIN s.base
  BY <1>3, SelectionFacts DEF DoomedRows, SameData
<1>5. v.tail.sel.rows \in SUBSET DOMAIN s.tail.rows
  BY <1>3 DEF StoreTypeOK, TailTypeOK, Selections, SameData, SameTail
<1>6. Sound(d) /\ d.generation = generation'
  <2> DEFINE R == DoomedRows(v)
             Q == v.tail.sel.rows
  <2>1. R \in SUBSET DOMAIN s.base /\ Q \in SUBSET DOMAIN s.tail.rows
    BY <1>4, <1>5
  <2> HIDE DEF s, R, Q
  <2>2. Sound(Tombstoned(s, R, Q, generation')) /\ Tombstoned(s, R, Q, generation').generation = generation'
    BY <1>1, <2>1, DeletedSound
  <2> QED
    BY <2>2 DEF R, Q
<1>7. CallOK /\ SameDisk /\ Take(1)
  BY PatternFacts, IInvSound DEF DeleteMatching, Called, CallOK, SameDisk
<1> QED
  BY <1>2, <1>6, <1>7, NewPreserves

-----------------------------------------------------------------------------
(* A process that holds no store satisfies the invariant.                  *)
LEMMA InitInv == Init => IInv
<1> SUFFICES ASSUME Init PROVE IInv
  OBVIOUS
<1>1. /\ DOMAIN store = {} /\ writable \in BOOLEAN /\ generation = 0
      /\ disk = [id |-> 1, rows |-> <<>>, indexes |-> {}]
      /\ call.on \in Handles /\ call.to \in Handles /\ call.quads = {}
  BY DEF Init
<1>2. <<>> \in Seq(Quads) /\ DOMAIN <<>> = {} /\ 1 \in 1..MaxFiles /\ 0 \in 0..MaxGeneration
  BY BoundsAssumption
<1>3. disk \in [id : 1..MaxFiles, rows : Seq(Quads), indexes : SUBSET Indexes]
  BY <1>1, <1>2
<1>4. TypeOK
  BY <1>1, <1>2, <1>3 DEF TypeOK
<1>5. Injective(disk.rows, DOMAIN disk.rows)
  BY <1>1, <1>2 DEF Injective
<1> QED
  BY <1>1, <1>4, <1>5 DEF IInv, SetSemantics, KeysAddressTail, IndexesAddressBase,
     GenerationIdentifiesData

(* Every step keeps the invariant, one action at a time.                   *)
LEMMA NextInv == IInv /\ [Next]_vars => IInv'
<1> SUFFICES ASSUME IInv, [Next]_vars PROVE IInv'
  OBVIOUS
<1>0. generation \in Nat /\ MaxGeneration \in Nat /\ MaxFiles \in Nat
  BY BoundsAssumption DEF IInv, TypeOK
<1>1. CASE SetWritable
  BY <1>1 DEF SetWritable, IInv, TypeOK, SetSemantics, KeysAddressTail, IndexesAddressBase,
     GenerationIdentifiesData
<1>2. ASSUME NEW S \in SUBSET Quads, NEW idx \in SUBSET Indexes, BuildFile(S, idx)
      PROVE  IInv'
  <2>1. /\ disk' = [id |-> disk.id + 1, rows |-> Ascending(S), indexes |-> idx]
        /\ disk.id \in 1..MaxFiles /\ disk.id < MaxFiles
        /\ store' = store /\ writable' = writable /\ generation' = generation /\ call' = call
    BY <1>2 DEF BuildFile, IInv, TypeOK
  <2>2. Ascending(S) \in Seq(Quads) /\ Injective(Ascending(S), DOMAIN Ascending(S))
    BY SortedRows
  <2>3. disk' \in [id : 1..MaxFiles, rows : Seq(Quads), indexes : SUBSET Indexes]
    BY <1>0, <2>1, <2>2
  <2>4. Injective(disk'.rows, DOMAIN disk'.rows)
    BY <2>1, <2>2
  <2> QED
    BY <2>1, <2>3, <2>4 DEF IInv, TypeOK, SetSemantics, KeysAddressTail, IndexesAddressBase,
       GenerationIdentifiesData
<1>3. ASSUME NEW S \in SUBSET Quads, NEW idx \in SUBSET Indexes, NEW k \in Handles, Build(k, S, idx)
      PROVE  IInv'
  <2> DEFINE rows == Ascending(S)
             f == Fresh(rows, idx, InMemory, generation')
  <2>1. rows \in Seq(Quads) /\ Injective(rows, DOMAIN rows) /\ InMemory \in 0..MaxFiles
    BY <1>0, SortedRows DEF InMemory
  <2> HIDE DEF rows
  <2>2. Sound(f) /\ f.generation = generation'
    BY <2>1, FreshSound
  <2>3. Bind(k, f) /\ CallOK /\ SameDisk /\ Take(1)
    BY <1>3 DEF Build, Called, CallOK, SameDisk, rows
  <2> HIDE DEF f
  <2> QED
    BY <2>2, <2>3, NewPreserves
<1>4. ASSUME NEW k \in Handles, FromFile(k)
      PROVE  IInv'
  <2> DEFINE f == Fresh(disk.rows, disk.indexes, disk.id, generation')
  <2>1. /\ disk.rows \in Seq(Quads) /\ Injective(disk.rows, DOMAIN disk.rows)
        /\ disk.indexes \in SUBSET Indexes /\ disk.id \in 0..MaxFiles
    BY <1>0 DEF IInv, TypeOK
  <2>2. Sound(f) /\ f.generation = generation'
    BY <2>1, FreshSound
  <2>3. Bind(k, f) /\ CallOK /\ SameDisk /\ Take(1)
    BY <1>4 DEF FromFile, Called, CallOK, SameDisk
  <2> HIDE DEF f
  <2> QED
    BY <2>2, <2>3, NewPreserves
<1>5. ASSUME NEW h \in DOMAIN store, Drop(h)
      PROVE  IInv'
  <2>1. /\ DOMAIN store' \subseteq DOMAIN store
        /\ \A x \in DOMAIN store' : store'[x] = store[x]
        /\ disk' = disk /\ writable' = writable /\ generation' = generation
    BY <1>5 DEF Drop
  <2>2. CallOK
    BY <1>5, IInvSound DEF Drop, Called, CallOK
  <2>3. TypeOK'
    BY <2>1, <2>2 DEF IInv, TypeOK, CallOK
  <2> QED
    BY <2>1, <2>3 DEF IInv, SetSemantics, KeysAddressTail, IndexesAddressBase,
       GenerationIdentifiesData
<1>6. ASSUME NEW h \in DOMAIN store, NEW k \in Handles, Owned(h, k)
      PROVE  IInv'
  <2>1. StoreTypeOK(store[h]) /\ SameData(store[h], store[h]) /\ store[h].indexes \in SUBSET Indexes
    BY IInvSound DEF Sound, StoreTypeOK, SameData, SameTail
  <2>2. CASE IsOwner(store[h])
    <3>1. Bind(k, store[h]) /\ SameDisk /\ generation' = generation /\ CallOK
      BY <1>6, <2>2, IInvSound DEF Owned, Called, CallOK, SameDisk
    <3> QED
      BY <2>1, <3>1, ViewPreserves
  <2>3. CASE ~IsOwner(store[h])
    BY <1>6, <2>1, <2>3, CompactPreserves DEF Owned
  <2> QED BY <2>2, <2>3
<1>7. ASSUME NEW h \in DOMAIN store, NEW k \in Handles, NEW pat \in Patterns, MatchPattern(h, k, pat)
      PROVE  IInv'
  <2>1. PICK v \in Matches(store[h], pat) : Bind(k, v)
    BY <1>7 DEF MatchPattern
  <2>2. StoreTypeOK(v) /\ SameData(v, store[h])
    BY IInvSound, MatchesShare DEF Sound
  <2>3. CallOK /\ SameDisk /\ generation' = generation
    BY <1>7, PatternFacts, IInvSound DEF MatchPattern, Called, CallOK, SameDisk
  <2> QED
    BY <2>1, <2>2, <2>3, ViewPreserves
<1>8. ASSUME NEW h \in DOMAIN store, NEW k \in Handles,
             NEW offset \in 0..MaxWindow, NEW limit \in 0..MaxWindow, Window(h, k, offset, limit)
      PROVE  IInv'
  <2>1. PICK v \in Windows(store[h], offset, limit) : Bind(k, v)
    BY <1>8 DEF Window
  <2>2. offset \in Nat /\ limit \in Nat
    BY BoundsAssumption
  <2>3. StoreTypeOK(v) /\ SameData(v, store[h])
    BY <2>2, IInvSound, WindowsShare DEF Sound
  <2>4. CallOK /\ SameDisk /\ generation' = generation
    BY <1>8, IInvSound DEF Window, Called, CallOK, SameDisk
  <2> QED
    BY <2>1, <2>3, <2>4, ViewPreserves
<1>9. ASSUME NEW h \in DOMAIN store, NEW k \in Handles, RoundTrip(h, k)
      PROVE  IInv'
  <2> DEFINE v == Serialized(store[h], generation')
  <2>1. Sound(v) /\ v.generation = generation'
    BY IInvSound, SerializedSound
  <2>2. Bind(k, v) /\ CallOK /\ SameDisk /\ Take(1)
    BY <1>9, IInvSound DEF RoundTrip, Called, CallOK, SameDisk
  <2> HIDE DEF v
  <2> QED
    BY <2>1, <2>2, NewPreserves
<1>10. CASE UNCHANGED vars
  BY <1>10 DEF vars, IInv, TypeOK, SetSemantics, KeysAddressTail, IndexesAddressBase,
     GenerationIdentifiesData
<1> QED
  BY <1>1, <1>2, <1>3, <1>4, <1>5, <1>6, <1>7, <1>8, <1>9, <1>10,
     CompactPreserves, AddPreserves, DeletePreserves DEF Next

(* The invariant holds of every behaviour.                                 *)
LEMMA Inductive == Spec => []IInv
BY InitInv, NextInv, PTL DEF Spec

(* Every handle names a well-formed store, whatever the program calls.     *)
THEOREM TypeCorrect == Spec => []TypeOK
<1>1. IInv => TypeOK
  BY DEF IInv
<1> QED BY <1>1, Inductive, PTL

(* Set semantics hold under any sequence of adds, deletes, re-adds, views, *)
(* compactions and round trips, for every hash of the rows.                *)
THEOREM SetSemanticsHold == Spec => []SetSemantics
<1>1. IInv => SetSemantics
  BY DEF IInv
<1> QED BY <1>1, Inductive, PTL

(* Tail::append never leaves a key of an earlier numbering behind.         *)
THEOREM KeysStayExact == Spec => []KeysAddressTail
<1>1. IInv => KeysAddressTail
  BY DEF IInv
<1> QED BY <1>1, Inductive, PTL

(* No path through matching, mutation or serialization routes an index     *)
(* over rows it was not built from.                                        *)
THEOREM IndexesStayValid == Spec => []IndexesAddressBase
<1>1. IInv => IndexesAddressBase
  BY DEF IInv
<1> QED BY <1>1, Inductive, PTL

(* generation() is a sound cache key.                                      *)
THEOREM GenerationsSound == Spec => []GenerationIdentifiesData
<1>1. IInv => GenerationIdentifiesData
  BY DEF IInv
<1> QED BY <1>1, Inductive, PTL

-----------------------------------------------------------------------------
(* The refinement of QuadDataset                                           *)

-----------------------------------------------------------------------------
(* Matches                                                                 *)

(* The rows of R whose quads are admitted.                                 *)
Admitted(seq, R, A) == {r \in R : seq[r] \in A}

(* A row of the tail that a pattern admits is named by its key.            *)
LEMMA MatchTailSelects ==
  ASSUME NEW t, TailTypeOK(t), KeysName(t), NEW pat \in Patterns
  PROVE  MatchTail(t, pat).sel.rows = Admitted(t.rows, t.sel.rows, pat.admits)
<1> DEFINE Holding(R) == {r \in R : t.rows[r] \in pat.admits}
           named == {r \in t.sel.rows : \E q \in pat.admits : <<Hash(q), r>> \in t.keys}
           sel == CASE pat.kind = "any"  -> t.sel
                    [] pat.kind = "full" -> Ids(Holding(named))
                    [] pat.kind = "part" -> IF Holding(t.sel.rows) = t.sel.rows
                                            THEN t.sel ELSE Ids(Holding(t.sel.rows))
<1>1. t.rows \in Seq(Quads) /\ t.sel.rows \subseteq DOMAIN t.rows
  BY DEF TailTypeOK, Selections
<1>2. \A r \in DOMAIN t.rows : t.rows[r] \in Quads /\ r = 0 + r
  BY <1>1
<1>3. MatchTail(t, pat) = IF t.sel.rows = {} THEN t ELSE [t EXCEPT !.sel = sel]
  BY DEF MatchTail
<1>4. CASE t.sel.rows = {}
  BY <1>3, <1>4 DEF Admitted
<1>5. CASE t.sel.rows # {}
  <2>1. MatchTail(t, pat).sel = sel
    <3> HIDE DEF sel
    <3> QED BY <1>3, <1>5 DEF TailTypeOK
  <2>2. CASE pat.kind = "any"
    <3>1. pat.admits = Quads
      BY <2>2 DEF Patterns
    <3>2. sel = t.sel
      BY <2>2
    <3> QED BY <2>1, <3>1, <3>2, <1>1, <1>2 DEF Admitted
  <2>3. CASE pat.kind = "full"
    <3>1. sel = Ids(Holding(named))
      BY <2>3
    <3>2. ASSUME NEW r \in t.sel.rows, t.rows[r] \in pat.admits PROVE r \in named
      <4>1. <<Hash(t.rows[r]), 0 + r>> \in RowKeys(t.rows, 0)
        BY <1>1 DEF RowKeys
      <4> QED BY <3>2, <4>1, <1>1, <1>2 DEF KeysName
    <3>3. Holding(named) = Admitted(t.rows, t.sel.rows, pat.admits)
      BY <3>2 DEF Admitted
    <3> HIDE DEF Holding, named, sel
    <3> QED BY <2>1, <3>1, <3>3 DEF Ids
  <2>4. CASE pat.kind = "part"
    <3>1. sel = IF Holding(t.sel.rows) = t.sel.rows THEN t.sel ELSE Ids(Holding(t.sel.rows))
      BY <2>4
    <3>2. Holding(t.sel.rows) = Admitted(t.rows, t.sel.rows, pat.admits)
      BY DEF Admitted
    <3> HIDE DEF Holding, sel
    <3> QED BY <2>1, <3>1, <3>2 DEF Ids
  <2> QED BY <2>2, <2>3, <2>4, PatternFacts
<1> QED BY <1>4, <1>5

(* Whichever route a match takes, the live base rows left are the live     *)
(* rows that the pattern admits.                                           *)
LEMMA MatchBaseRows ==
  ASSUME NEW s, StoreTypeOK(s), NEW pat \in Patterns,
         NEW v \in MemoryViews(s, pat) \cup FileViews(s, pat)
  PROVE  /\ v.base = s.base /\ v.file = s.file
         /\ BaseLive(v) = Admitted(s.base, BaseLive(s), pat.admits)
<1> DEFINE A == pat.admits
<1>1. /\ s.base \in Seq(Quads) /\ s.sel.rows \subseteq DOMAIN s.base
      /\ s.filter.admits \subseteq Quads /\ (~s.filter.pending => s.filter = NoFilter)
  BY DEF StoreTypeOK, Selections, Filters
<1>2. \A r \in s.sel.rows : s.base[r] \in Quads
  BY <1>1
<1>3. pat.kind = "any" => A = Quads
  BY DEF Patterns
<1>4. DOMAIN s = {"base", "file", "sel", "filter", "deleted", "tail", "indexes", "over", "generation"}
  BY DEF StoreTypeOK
<1> DEFINE Good(w) == /\ w.base = s.base /\ w.file = s.file
                      /\ BaseLive(w) = Admitted(s.base, BaseLive(s), A)
<1>5. Located(s, pat) = s.sel.rows \/ pat.kind = "any" => Good(s)
  BY <1>2, <1>3 DEF Located, BaseLive, Admitted
<1>6. Good([s EXCEPT !.sel = Ids(Located(s, pat))])
  BY <1>4 DEF Located, BaseLive, Admitted, Ids
<1>7. Wanted(s, pat) = {} => Good(EmptyView(s))
  BY <1>4 DEF Wanted, Located, BaseLive, Admitted, Ids, EmptyView
<1>8. Located(s, pat) = {} \/ s.sel.rows = {} => Wanted(s, pat) = {}
  BY DEF Wanted, Located
<1>9. CASE v \in MemoryViews(s, pat)
  BY <1>5, <1>6, <1>7, <1>8, <1>9 DEF MemoryViews
<1>10. CASE v \in FileViews(s, pat)
  <2>1. PICK w : /\ w \in IF pat.kind = "any" /\ ~s.filter.pending THEN {s} ELSE FileRoutes(s, pat)
                 /\ v = IF w.sel.rows = {} THEN EmptyView(s) ELSE w
    BY <1>10 DEF FileViews
  <2>2. Good(w) /\ (w.sel.rows = {} => Wanted(s, pat) = {})
    <3>1. CASE pat.kind = "any" /\ ~s.filter.pending
      BY <2>1, <3>1, <1>5, <1>8
    <3>2. CASE w \in FileRoutes(s, pat)
      <4>1. CASE w = [s EXCEPT !.sel = Ids(Located(s, pat))]
        BY <4>1, <1>4, <1>6, <1>8 DEF Ids
      <4>2. CASE w = [s EXCEPT !.sel = Ids(Wanted(s, pat)), !.filter = NoFilter]
        <5>1. /\ w.base = s.base /\ w.file = s.file /\ w.deleted = s.deleted
              /\ w.sel.rows = Wanted(s, pat) /\ w.filter.admits = Quads
          BY <4>2, <1>4 DEF Ids, NoFilter
        <5> QED BY <5>1, <1>2 DEF Wanted, Located, BaseLive, Admitted
      <4>3. CASE \E sel \in Pruned(s, pat) : w = [s EXCEPT !.sel = sel, !.filter = Pushed(s, pat)]
        <5>1. PICK sel \in Pruned(s, pat) : w = [s EXCEPT !.sel = sel, !.filter = Pushed(s, pat)]
          BY <4>3
        <5>2. sel.rows \subseteq s.sel.rows /\ Wanted(s, pat) \subseteq sel.rows
          BY DEF Pruned, Ids, Wanted, Located
        <5>3. /\ w.base = s.base /\ w.file = s.file /\ w.deleted = s.deleted
              /\ w.sel = sel /\ w.filter.admits = s.filter.admits \cap A
          BY <5>1, <1>4 DEF Pushed
        <5> QED BY <5>2, <5>3 DEF Wanted, Located, BaseLive, Admitted
      <4> QED BY <3>2, <4>1, <4>2, <4>3 DEF FileRoutes
    <3> QED BY <2>1, <3>1, <3>2
  <2> QED BY <2>1, <2>2, <1>7
<1> QED BY <1>9, <1>10

(* A match yields the receiver's quads that its pattern admits.            *)
LEMMA MatchLive ==
  ASSUME NEW s, Sound(s), NEW pat \in Patterns, NEW v \in Matches(s, pat)
  PROVE  LiveQuads(v) = LiveQuads(s) \cap pat.admits
<1> DEFINE A == pat.admits
<1>1. PICK w \in MemoryViews(s, pat) \cup FileViews(s, pat) : v = [w EXCEPT !.tail = MatchTail(s.tail, pat)]
  BY DEF Matches
<1>2. StoreTypeOK(s) /\ TailTypeOK(s.tail) /\ KeysName(s.tail)
  BY DEF Sound, StoreTypeOK
<1>3. StoreTypeOK(w)
  BY <1>2, MemoryViewsShare, FileViewsShare
<1>4. /\ v.base = w.base /\ v.sel = w.sel /\ v.filter = w.filter /\ v.deleted = w.deleted
      /\ v.tail = MatchTail(s.tail, pat)
  BY <1>1, <1>3 DEF StoreTypeOK
<1>5. BaseLive(v) = BaseLive(w) /\ w.base = s.base /\ BaseLive(w) = Admitted(s.base, BaseLive(s), A)
  BY <1>2, <1>4, MatchBaseRows DEF BaseLive
<1>6. TailLive(v.tail) = Admitted(s.tail.rows, TailLive(s.tail), A) /\ v.tail.rows = s.tail.rows
  BY <1>2, <1>4, MatchTailSelects, MatchTailType DEF SameTail, TailLive, Admitted
<1> HIDE DEF A
<1>7. Values(v.base, BaseLive(v)) = Values(s.base, BaseLive(s)) \cap A
  <2>1. Values(s.base, Admitted(s.base, BaseLive(s), A)) = Values(s.base, BaseLive(s)) \cap A
    BY DEF Values, Admitted
  <2> QED BY <2>1, <1>4, <1>5
<1>8. Values(v.tail.rows, TailLive(v.tail)) = Values(s.tail.rows, TailLive(s.tail)) \cap A
  <2>1. Values(s.tail.rows, Admitted(s.tail.rows, TailLive(s.tail), A)) = Values(s.tail.rows, TailLive(s.tail)) \cap A
    BY DEF Values, Admitted
  <2> QED BY <2>1, <1>6
<1> QED BY <1>7, <1>8 DEF LiveQuads, A

-----------------------------------------------------------------------------
(* Builds, copies and deletes                                              *)

(* A store whose base is all it has yields the base's quads.               *)
LEMMA FreshLive ==
  ASSUME NEW rows \in Seq(Quads), NEW idx, NEW id, NEW gen
  PROVE  LiveQuads(Fresh(rows, idx, id, gen)) = Values(rows, DOMAIN rows)
<1> DEFINE s == Fresh(rows, idx, id, gen)
<1>1. /\ s.base = rows /\ s.sel.rows = DOMAIN rows /\ s.deleted.rows = {}
      /\ s.filter.admits = Quads /\ s.tail = NoTail
  BY DEF Fresh, All, Undeleted, NoFilter
<1>2. \A r \in DOMAIN rows : rows[r] \in Quads
  OBVIOUS
<1>3. BaseLive(s) = DOMAIN rows
  BY <1>1, <1>2 DEF BaseLive
<1>4. TailLive(NoTail) = {}
  BY DEF TailLive, NoTail, NewTail, All, Undeleted
<1> QED BY <1>1, <1>3, <1>4 DEF LiveQuads, Values

(* A rebuild yields what was live.                                         *)
LEMMA RebuiltLive ==
  ASSUME NEW s, Sound(s), NEW idx, NEW id, NEW gen
  PROVE  /\ LiveQuads(Fresh(SortedLive(s), idx, id, gen)) = LiveQuads(s)
         /\ Values(SortedLive(s), DOMAIN SortedLive(s)) = LiveQuads(s)
<1>1. LiveQuads(s) \in SUBSET Quads
  BY LiveQuadsType DEF Sound
<1>2. SortedLive(s) \in Seq(Quads) /\ Values(SortedLive(s), DOMAIN SortedLive(s)) = LiveQuads(s)
  BY <1>1, SortedRows DEF SortedLive
<1> QED BY <1>2, FreshLive

(* A round trip keeps the quads, rebuilt or written as they are.           *)
LEMMA SerializedLive ==
  ASSUME NEW s, Sound(s), NEW gen
  PROVE  LiveQuads(Serialized(s, gen)) = LiveQuads(s)
<1> DEFINE owner_shaped == ~s.filter.pending /\ s.sel.all
           rebuild == s.tail # NoTail \/ (owner_shaped /\ s.deleted.some /\ s.indexes # {})
           rows == Gather(s.base, BaseLive(s))
           f == Fresh(rows, {}, InMemory, gen)
           v == Serialized(s, gen)
<1>1. CASE rebuild
  BY <1>1, RebuiltLive DEF Serialized
<1>2. CASE ~rebuild
  <2>1. PICK i, o : v = [f EXCEPT !.indexes = i, !.over = o]
    BY <1>2 DEF Serialized
  <2>2. /\ v.base = f.base /\ v.sel = f.sel /\ v.filter = f.filter /\ v.deleted = f.deleted
        /\ v.tail = f.tail
    BY <2>1 DEF Fresh
  <2>3. LiveQuads(v) = LiveQuads(f)
    BY <2>2 DEF LiveQuads, BaseLive
  <2>4. s.base \in Seq(Quads) /\ BaseLive(s) \in SUBSET DOMAIN s.base
    BY LiveQuadsType DEF Sound, StoreTypeOK
  <2>5. rows \in Seq(Quads) /\ Values(rows, DOMAIN rows) = Values(s.base, BaseLive(s))
    BY <2>4, GatherRows
  <2>6. Values(s.tail.rows, TailLive(s.tail)) = {}
    BY <1>2 DEF NoTail, NewTail, TailLive, All, Undeleted, Values
  <2>7. LiveQuads(f) = Values(rows, DOMAIN rows)
    BY <2>5, FreshLive
  <2> QED BY <2>3, <2>5, <2>6, <2>7 DEF LiveQuads
<1> QED BY <1>1, <1>2

(* The rows a delete dooms in an owner's base: those the pattern admits.   *)
LEMMA DoomedAdmitted ==
  ASSUME NEW s, Sound(s), IsOwner(s), NEW pat \in Patterns, NEW v \in Matches(s, pat)
  PROVE  /\ DoomedRows(v) \ s.deleted.rows = Admitted(s.base, BaseLive(s), pat.admits)
         /\ v.tail.sel.rows = Admitted(s.tail.rows, s.tail.sel.rows, pat.admits)
<1> DEFINE A == pat.admits
<1>1. PICK w : /\ w \in IF s.file = InMemory THEN MemoryViews(s, pat) ELSE FileViews(s, pat)
               /\ v = [w EXCEPT !.tail = MatchTail(s.tail, pat)]
  BY DEF Matches
<1>2. StoreTypeOK(s) /\ TailTypeOK(s.tail) /\ KeysName(s.tail)
  BY DEF Sound, StoreTypeOK
<1>3. w \in MemoryViews(s, pat) \cup FileViews(s, pat) /\ StoreTypeOK(w) /\ SameData(w, s)
  BY <1>1, <1>2, MemoryViewsShare, FileViewsShare
<1>4. /\ v.base = w.base /\ v.file = w.file /\ v.sel = w.sel /\ v.filter = w.filter
      /\ v.tail = MatchTail(s.tail, pat)
  BY <1>1, <1>3 DEF StoreTypeOK
<1>5. BaseLive(w) = Admitted(s.base, BaseLive(s), A) /\ w.base = s.base /\ w.file = s.file
  BY <1>2, <1>3, MatchBaseRows
<1>6. s.filter = NoFilter /\ s.sel.rows \subseteq DOMAIN s.base /\ s.base \in Seq(Quads)
  BY <1>2 DEF IsOwner, StoreTypeOK, Filters, Selections
<1>7. CASE s.file = InMemory
  <2>1. w.filter = s.filter
    BY <1>1, <1>2, <1>7 DEF MemoryViews, EmptyView, StoreTypeOK
  <2>2. w.sel.rows \subseteq DOMAIN s.base
    BY <1>3 DEF SameData, StoreTypeOK, Selections
  <2>3. \A r \in w.sel.rows : w.base[r] \in w.filter.admits
    BY <2>1, <2>2, <1>5, <1>6 DEF NoFilter
  <2>4. DoomedRows(v) = w.sel.rows /\ w.deleted = s.deleted
    BY <1>3, <1>4, <1>5, <1>7 DEF DoomedRows, SameData
  <2> QED BY <2>3, <2>4, <1>2, <1>4, <1>5, MatchTailSelects DEF BaseLive
<1>8. CASE s.file # InMemory
  <2>1. DoomedRows(v) = {r \in w.sel.rows : w.base[r] \in w.filter.admits} /\ w.deleted = s.deleted
    BY <1>3, <1>4, <1>5, <1>8 DEF DoomedRows, SameData
  <2> QED BY <2>1, <1>2, <1>4, <1>5, MatchTailSelects DEF BaseLive
<1> QED BY <1>7, <1>8

(* A delete leaves the receiver's quads that its pattern does not admit.   *)
LEMMA DeleteLive ==
  ASSUME NEW s, Sound(s), IsOwner(s), NEW pat \in Patterns, NEW v \in Matches(s, pat), NEW gen
  PROVE  LiveQuads(Tombstoned(s, DoomedRows(v), v.tail.sel.rows, gen)) = LiveQuads(s) \ pat.admits
<1> DEFINE A == pat.admits
           t == s.tail
           x == Tombstoned(s, DoomedRows(v), v.tail.sel.rows, gen)
<1>1. /\ DoomedRows(v) \ s.deleted.rows = Admitted(s.base, BaseLive(s), A)
      /\ v.tail.sel.rows = Admitted(t.rows, t.sel.rows, A)
  BY DoomedAdmitted
<1>2. /\ x.base = s.base /\ x.sel = s.sel /\ x.filter = s.filter
      /\ x.deleted.rows = s.deleted.rows \cup DoomedRows(v)
      /\ x.tail = TailTombstoned(t, v.tail.sel.rows)
  BY DEF Tombstoned, UnionDeleted, Sound, StoreTypeOK
<1>3. BaseLive(x) = BaseLive(s) \ Admitted(s.base, BaseLive(s), A)
  BY <1>1, <1>2 DEF BaseLive, Admitted
<1>4. x.tail.rows = t.rows /\ TailLive(x.tail) = TailLive(t) \ Admitted(t.rows, TailLive(t), A)
  <2>1. CASE t = NoTail
    <3>1. TailLive(t) = {}
      BY <2>1 DEF TailLive, NoTail, NewTail, All, Undeleted
    <3> QED BY <2>1, <3>1, <1>2 DEF TailTombstoned
  <2>2. CASE t # NoTail
    <3>1. x.tail.rows = t.rows /\ x.tail.sel = t.sel /\ x.tail.deleted.rows = t.deleted.rows \cup v.tail.sel.rows
      BY <2>2, <1>2 DEF TailTombstoned, UnionDeleted, Sound, StoreTypeOK, TailTypeOK
    <3> QED BY <3>1, <1>1 DEF TailLive, Admitted
  <2> QED BY <2>1, <2>2
<1>5. Values(x.base, BaseLive(x)) = Values(s.base, BaseLive(s)) \ A
  <2>1. Values(s.base, BaseLive(s) \ Admitted(s.base, BaseLive(s), A)) = Values(s.base, BaseLive(s)) \ A
    BY DEF Values, Admitted
  <2> QED BY <2>1, <1>2, <1>3
<1>6. Values(x.tail.rows, TailLive(x.tail)) = Values(t.rows, TailLive(t)) \ A
  <2>1. Values(t.rows, TailLive(t) \ Admitted(t.rows, TailLive(t), A)) = Values(t.rows, TailLive(t)) \ A
    BY DEF Values, Admitted
  <2> QED BY <2>1, <1>4
<1> HIDE DEF x
<1> QED BY <1>5, <1>6 DEF LiveQuads, x

-----------------------------------------------------------------------------
(* Appends                                                                 *)

(* contains answers no for a quad the store does not yield.                *)
LEMMA ContainsSound ==
  ASSUME NEW s, Sound(s), NEW q \in Quads, Contains(s, q)
  PROVE  q \in LiveQuads(s)
<1> DEFINE pat == [kind |-> "full", admits |-> {q}]
<1>1. pat \in Patterns /\ pat.admits = {q}
  BY DEF Patterns
<1>2. PICK v \in Matches(s, pat) : LiveQuads(v) # {}
  BY DEF Contains
<1> HIDE DEF pat
<1>3. LiveQuads(v) = LiveQuads(s) \cap {q}
  BY <1>1, <1>2, MatchLive
<1> QED BY <1>2, <1>3

(* A batch's first row of a quad.                                          *)
LEMMA FirstOf ==
  ASSUME NEW seq \in Seq(Quads), NEW r \in DOMAIN seq
  PROVE  \E i \in DOMAIN seq : seq[i] = seq[r] /\ \A j \in 1..(i - 1) : seq[j] # seq[i]
<1> DEFINE S == {i \in DOMAIN seq : seq[i] = seq[r]}
<1>1. S \in SUBSET Nat /\ IsFiniteSet(S)
  BY Positions
<1>2. Cardinality(S) \in Nat /\ Cardinality(S) # 0
  BY <1>1, FS_CardinalityType, FS_EmptySet
<1>3. PICK i \in S : Rank(S, i) = 0
  <2>1. 1 \in 1..Cardinality(S) /\ 1 - 1 = 0
    BY <1>2
  <2> HIDE DEF S
  <2> QED BY <2>1, <1>1, RankOnto
<1>4. {y \in S : y < i} = {}
  <2>1. IsFiniteSet({y \in S : y < i})
    BY <1>1, FS_Subset
  <2> QED BY <2>1, <1>3, FS_EmptySet DEF Rank
<1>5. \A j \in 1..(i - 1) : j \in DOMAIN seq /\ j < i
  OBVIOUS
<1> QED BY <1>4, <1>5

(* What add_quads appends, with what the store yields already, is the      *)
(* batch with it.                                                          *)
LEMMA FreshCompletes ==
  ASSUME NEW s, Sound(s), IsOwner(s), NEW batch \in Batches
  PROVE  LET f == FreshQuads(s, batch)
         IN LiveQuads(s) \cup Values(f, DOMAIN f) = LiveQuads(s) \cup Values(batch, DOMAIN batch)
<1> DEFINE R == {i \in DOMAIN batch : (\A j \in 1..(i - 1) : batch[j] # batch[i]) /\ ~Contains(s, batch[i])}
           f == FreshQuads(s, batch)
<1>1. batch \in Seq(Quads)
  BY BatchesAssumption
<1>2. f = Gather(batch, R)
  BY DEF FreshQuads
<1>3. Values(f, DOMAIN f) = Values(batch, R)
  <2>1. R \in SUBSET DOMAIN batch
    OBVIOUS
  <2> HIDE DEF R, f
  <2> QED BY <2>1, <1>1, <1>2, GatherRows
<1>4. ASSUME NEW q \in Values(batch, DOMAIN batch), q \notin LiveQuads(s)
      PROVE  q \in Values(batch, R)
  <2>1. PICK r \in DOMAIN batch : q = batch[r]
    BY DEF Values
  <2>2. PICK i \in DOMAIN batch : batch[i] = batch[r] /\ \A j \in 1..(i - 1) : batch[j] # batch[i]
    BY <1>1, FirstOf
  <2>3. ~Contains(s, batch[i])
    BY <2>1, <2>2, <1>1, <1>4, ContainsSound
  <2> QED BY <2>1, <2>2, <2>3 DEF Values
<1>5. Values(batch, R) \subseteq Values(batch, DOMAIN batch)
  BY DEF Values
<1> HIDE DEF R, f
<1> QED BY <1>3, <1>4, <1>5 DEF f

(* Two sequences' values.                                                  *)
LEMMA ConcatValues ==
  ASSUME NEW a \in Seq(Quads), NEW b \in Seq(Quads)
  PROVE  Values(a \o b, DOMAIN (a \o b)) = Values(a, DOMAIN a) \cup Values(b, DOMAIN b)
<1> DEFINE c == a \o b
           m == Len(a)
           n == Len(b)
<1>1. /\ m \in Nat /\ n \in Nat /\ DOMAIN a = 1..m /\ DOMAIN b = 1..n /\ DOMAIN c = 1..(m + n)
      /\ \A i \in 1..m : c[i] = a[i]
      /\ \A i \in 1..n : c[m + i] = b[i]
  OBVIOUS
<1> HIDE DEF c, m, n
<1>2. ASSUME NEW i \in 1..(m + n) PROVE c[i] \in Values(a, DOMAIN a) \cup Values(b, DOMAIN b)
  <2>1. CASE i <= m
    BY <2>1, <1>1 DEF Values
  <2>2. CASE i > m
    <3>1. i - m \in 1..n /\ m + (i - m) = i
      BY <2>2, <1>1
    <3> QED BY <3>1, <1>1 DEF Values
  <2> QED BY <2>1, <2>2, <1>1
<1>3. ASSUME NEW i \in 1..m PROVE a[i] \in Values(c, DOMAIN c)
  <2>1. i \in 1..(m + n) /\ c[i] = a[i]
    BY <1>1
  <2> QED BY <2>1, <1>1 DEF Values
<1>4. ASSUME NEW i \in 1..n PROVE b[i] \in Values(c, DOMAIN c)
  <2>1. m + i \in 1..(m + n) /\ c[m + i] = b[i]
    BY <1>1
  <2> QED BY <2>1, <1>1 DEF Values
<1>5. Values(c, DOMAIN c) \subseteq Values(a, DOMAIN a) \cup Values(b, DOMAIN b)
  <2>1. \A q \in Values(c, DOMAIN c) : \E i \in 1..(m + n) : q = c[i]
    BY <1>1 DEF Values
  <2> QED BY <1>2, <2>1
<1>6. Values(a, DOMAIN a) \subseteq Values(c, DOMAIN c)
  <2>1. \A q \in Values(a, DOMAIN a) : \E i \in 1..m : q = a[i]
    BY <1>1 DEF Values
  <2> QED BY <1>3, <2>1
<1>7. Values(b, DOMAIN b) \subseteq Values(c, DOMAIN c)
  <2>1. \A q \in Values(b, DOMAIN b) : \E i \in 1..n : q = b[i]
    BY <1>1 DEF Values
  <2> QED BY <1>4, <2>1
<1> QED BY <1>5, <1>6, <1>7 DEF c

(* An append yields the receiver's quads and the batch.                    *)
LEMMA AppendLive ==
  ASSUME NEW s, Sound(s), IsOwner(s), NEW batch \in Batches, NEW gen
  PROVE  LiveQuads(Appended(s, FreshQuads(s, batch), gen)) = LiveQuads(s) \cup Values(batch, DOMAIN batch)
<1> DEFINE f == FreshQuads(s, batch)
           t == s.tail
           u == TailAppend(t, f)
           x == Appended(s, f, gen)
<1>1. TailTypeOK(t) /\ KeysName(t) /\ f \in Seq(Quads)
  BY FreshQuadsRows DEF Sound, StoreTypeOK
<1>2. LiveQuads(s) \cup Values(f, DOMAIN f) = LiveQuads(s) \cup Values(batch, DOMAIN batch)
  BY FreshCompletes
<1> HIDE DEF f
<1>3. x.tail = u /\ BaseLive(x) = BaseLive(s) /\ x.base = s.base
  BY DEF Appended, BaseLive, Sound, StoreTypeOK
<1>4. TailTypeOK(u) /\ u.sel.all /\ u.deleted.rows = {}
  BY <1>1, TailAppendRows
<1>5. PICK live \in Seq(Quads) : /\ u.rows = live \o f
                                 /\ Values(live, DOMAIN live) = Values(t.rows, TailLive(t))
                                 /\ Injective(t.rows, TailLive(t)) => Injective(live, DOMAIN live)
  <2> HIDE DEF t
  <2> QED BY ONLY <1>1, TailAppendRows, Zenon
<1> HIDE DEF u, x
<1>6. TailLive(u) = DOMAIN u.rows
  BY <1>4 DEF TailTypeOK, Selections, TailLive
<1>7. Values(u.rows, TailLive(u)) = Values(t.rows, TailLive(t)) \cup Values(f, DOMAIN f)
  BY <1>1, <1>5, <1>6, ConcatValues
<1>8. LiveQuads(x) = LiveQuads(s) \cup Values(f, DOMAIN f)
  BY <1>3, <1>7 DEF LiveQuads
<1> QED BY <1>2, <1>8 DEF x, f

-----------------------------------------------------------------------------
(* Windows                                                                 *)

(* How many of n rows a window takes.                                      *)
Span(n, offset, limit) == IF n <= offset THEN 0 ELSE IF n - offset <= limit THEN n - offset ELSE limit

(* A cut takes that many: the rows whose ranks it spans.                   *)
LEMMA CutSize ==
  ASSUME NEW R \in SUBSET Nat, IsFiniteSet(R), NEW offset \in Nat, NEW limit \in Nat
  PROVE  /\ Cut(R, offset, limit) \subseteq R /\ Cardinality(R) \in Nat
         /\ Cardinality(Cut(R, offset, limit)) = Span(Cardinality(R), offset, limit)
<1> DEFINE n == Cardinality(R)
           last == IF n <= offset + limit THEN n ELSE offset + limit
           I == (offset + 1)..last
           C == Cut(R, offset, limit)
           g == [i \in I |-> Ascending(R)[i]]
<1>1. n \in Nat
  BY FS_CardinalityType
<1>2. C = {r \in R : offset <= Rank(R, r) /\ Rank(R, r) < offset + limit}
  BY DEF Cut, Rank
<1>3. I \subseteq 1..n /\ offset + 1 \in Int /\ last \in Int
  BY <1>1
<1>4. \A i \in 1..n : Ascending(R)[i] \in R /\ Rank(R, Ascending(R)[i]) = i - 1
  BY AscendingLists
<1>5. \A i, j \in 1..n : Ascending(R)[i] = Ascending(R)[j] => i = j
  BY AscendingLists
<1>6. \A r \in R : \E i \in 1..n : Ascending(R)[i] = r
  BY AscendingLists
<1>7. \A i \in 1..n : i \in I <=> (offset <= i - 1 /\ i - 1 < offset + limit)
  BY <1>1
<1> HIDE DEF n, last, I, C
<1>8. g \in Bijection(I, C)
  <2>1. \A i \in I : Ascending(R)[i] \in C
    BY <1>2, <1>3, <1>4, <1>7
  <2>2. \A r \in C : \E i \in I : Ascending(R)[i] = r
    <3> TAKE r \in C
    <3>1. PICK i \in 1..n : Ascending(R)[i] = r
      BY <1>2, <1>6
    <3>2. offset <= i - 1 /\ i - 1 < offset + limit
      BY <3>1, <1>2, <1>4
    <3> QED BY <3>1, <3>2, <1>7
  <2>3. \A i, j \in I : Ascending(R)[i] = Ascending(R)[j] => i = j
    BY <1>3, <1>5
  <2> QED BY <2>1, <2>2, <2>3 DEF Bijection, Injection, IsInjective, Surjection
<1>9. IsFiniteSet(I) /\ Cardinality(I) = IF offset + 1 > last THEN 0 ELSE last - (offset + 1) + 1
  BY <1>3, FS_Interval DEF I
<1>10. Cardinality(C) = Cardinality(I)
  BY <1>8, <1>9, FS_Bijection DEF ExistsBijection
<1>11. (IF offset + 1 > last THEN 0 ELSE last - (offset + 1) + 1) = Span(n, offset, limit)
  BY <1>1 DEF Span, last
<1> QED BY <1>1, <1>2, <1>9, <1>10, <1>11 DEF C, n

(* Rows that hold each quad once are as many as their quads.               *)
LEMMA ValuesSize ==
  ASSUME NEW seq, NEW R, IsFiniteSet(R), Injective(seq, R)
  PROVE  /\ IsFiniteSet(Values(seq, R)) /\ Cardinality(R) \in Nat
         /\ Cardinality(Values(seq, R)) = Cardinality(R)
<1> DEFINE g == [r \in R |-> seq[r]]
<1>1. g \in Bijection(R, Values(seq, R))
  BY DEF Injective, Values, Bijection, Injection, IsInjective, Surjection
<1> QED BY <1>1, FS_Bijection, FS_CardinalityType DEF ExistsBijection

(* A sound store yields a quad for each of its live rows.                  *)
LEMMA LiveSize ==
  ASSUME NEW s, Sound(s)
  PROVE  /\ BaseLive(s) \in SUBSET Nat /\ IsFiniteSet(BaseLive(s))
         /\ TailLive(s.tail) \in SUBSET Nat /\ IsFiniteSet(TailLive(s.tail))
         /\ Cardinality(BaseLive(s)) \in Nat /\ Cardinality(TailLive(s.tail)) \in Nat
         /\ Cardinality(LiveQuads(s)) = Cardinality(BaseLive(s)) + Cardinality(TailLive(s.tail))
<1> DEFINE B == BaseLive(s)
           T == TailLive(s.tail)
           VB == Values(s.base, B)
           VT == Values(s.tail.rows, T)
<1>1. s.base \in Seq(Quads) /\ s.tail.rows \in Seq(Quads)
  BY DEF Sound, StoreTypeOK, TailTypeOK
<1>2. B \subseteq UndeletedBase(s) /\ T \subseteq UndeletedTail(s)
  BY DEF Sound, StoreTypeOK, TailTypeOK, Selections, BaseLive, TailLive, UndeletedBase, UndeletedTail
<1>3. B \in SUBSET DOMAIN s.base /\ T \in SUBSET DOMAIN s.tail.rows
  BY <1>2 DEF UndeletedBase, UndeletedTail
<1>4. B \in SUBSET Nat /\ IsFiniteSet(B) /\ T \in SUBSET Nat /\ IsFiniteSet(T)
  BY <1>1, <1>3, Positions
<1>5. Injective(s.base, B) /\ Injective(s.tail.rows, T)
  BY <1>2, <1>3 DEF Sound, EachQuadOnce, Injective
<1>6. VB \cap VT = {}
  BY <1>2 DEF Sound, EachQuadOnce, Values
<1>7. /\ IsFiniteSet(VB) /\ Cardinality(VB) = Cardinality(B) /\ Cardinality(B) \in Nat
      /\ IsFiniteSet(VT) /\ Cardinality(VT) = Cardinality(T) /\ Cardinality(T) \in Nat
  BY <1>4, <1>5, ValuesSize
<1> HIDE DEF VB, VT, B, T
<1>8. Cardinality(VB \cup VT) = Cardinality(VB) + Cardinality(VT)
  BY <1>6, <1>7, FS_Union, FS_EmptySet
<1> QED BY <1>4, <1>7, <1>8 DEF LiveQuads, VB, VT, B, T

(* A tail cut to a window.                                                 *)
TailWindow(t, offset, limit) ==
  IF t = NoTail THEN t ELSE [t EXCEPT !.sel = Ids(Cut(TailLive(t), offset, limit))]

(* It leaves the cut of the tail's live rows.                              *)
LEMMA TailWindowLive ==
  ASSUME NEW t, TailTypeOK(t), NEW offset, NEW limit
  PROVE  /\ TailLive(TailWindow(t, offset, limit)) = Cut(TailLive(t), offset, limit)
         /\ TailWindow(t, offset, limit).rows = t.rows
<1>1. Cut(TailLive(t), offset, limit) \subseteq TailLive(t)
  BY DEF Cut
<1>2. CASE t = NoTail
  <2>1. TailLive(t) = {}
    BY <1>2 DEF TailLive, NoTail, NewTail, All, Undeleted
  <2> QED BY <2>1, <1>1, <1>2 DEF TailWindow
<1>3. CASE t # NoTail
  <2> DEFINE u == TailWindow(t, offset, limit)
             C == Cut(TailLive(t), offset, limit)
  <2>1. u.sel.rows = C /\ u.deleted = t.deleted /\ u.rows = t.rows
    BY <1>3 DEF TailWindow, Ids, TailTypeOK
  <2>2. C \cap t.deleted.rows = {}
    BY <1>1 DEF TailLive
  <2> HIDE DEF u, C
  <2>3. TailLive(u) = C
    BY <2>1, <2>2 DEF TailLive
  <2> QED BY <2>1, <2>3 DEF u, C
<1> QED BY <1>2, <1>3

(* The views a window can leave, by their live rows.                       *)
LEMMA WindowRows ==
  ASSUME NEW s, Sound(s), NEW offset \in Nat, NEW limit \in Nat, NEW v \in Windows(s, offset, limit)
  PROVE  LET n == Cardinality(BaseLive(s))
             t == Cardinality(TailLive(s.tail))
             taken == Cut(BaseLive(s), offset, limit)
         IN /\ v.base = s.base /\ v.tail.rows = s.tail.rows
            /\ \/ offset = 0 /\ n + t <= limit /\ BaseLive(v) = BaseLive(s) /\ TailLive(v.tail) = TailLive(s.tail)
               \/ /\ offset = 0 /\ n < limit /\ BaseLive(v) = BaseLive(s)
                  /\ TailLive(v.tail) = Cut(TailLive(s.tail), Monus(offset, n), Monus(limit, Cardinality(taken)))
               \/ \E c \in {n, offset + limit} :
                    /\ c <= n /\ BaseLive(v) = taken
                    /\ TailLive(v.tail) = Cut(TailLive(s.tail), Monus(offset, c), Monus(limit, Cardinality(taken)))
<1> DEFINE n == Cardinality(BaseLive(s))
           t == Cardinality(TailLive(s.tail))
           taken == Cut(BaseLive(s), offset, limit)
           TailCut(seen) == TailWindow(s.tail, Monus(offset, seen), Monus(limit, Cardinality(taken)))
<1>1. /\ DOMAIN s = {"base", "file", "sel", "filter", "deleted", "tail", "indexes", "over", "generation"}
      /\ TailTypeOK(s.tail) /\ s.base \in Seq(Quads) /\ n \in Nat
  BY LiveSize DEF Sound, StoreTypeOK
<1>2. \/ v = s /\ offset = 0 /\ n + t <= limit
      \/ v = [s EXCEPT !.tail = TailCut(n)] /\ offset = 0 /\ n < limit
      \/ \E c \in {n} \cup {x \in {offset + limit} : x <= n} :
           v = [s EXCEPT !.sel = Ids(taken), !.filter = NoFilter, !.tail = TailCut(c)]
  BY DEF Windows, TailWindow
<1>3. \A c : /\ TailLive(TailCut(c)) = Cut(TailLive(s.tail), Monus(offset, c), Monus(limit, Cardinality(taken)))
             /\ TailCut(c).rows = s.tail.rows
  BY <1>1, TailWindowLive
<1>4. CASE v = s /\ offset = 0 /\ n + t <= limit
  BY <1>4
<1>5. CASE v = [s EXCEPT !.tail = TailCut(n)] /\ offset = 0 /\ n < limit
  <2> HIDE DEF TailCut
  <2>1. /\ v.tail = TailCut(n) /\ v.base = s.base /\ v.sel = s.sel /\ v.filter = s.filter
        /\ v.deleted = s.deleted
    BY <1>1, <1>5
  <2>2. BaseLive(v) = BaseLive(s)
    BY <2>1 DEF BaseLive
  <2> QED BY <2>1, <2>2, <1>3, <1>5
<1>6. CASE \E c \in {n} \cup {x \in {offset + limit} : x <= n} :
             v = [s EXCEPT !.sel = Ids(taken), !.filter = NoFilter, !.tail = TailCut(c)]
  <2>1. PICK c \in {n, offset + limit} :
          c <= n /\ v = [s EXCEPT !.sel = Ids(taken), !.filter = NoFilter, !.tail = TailCut(c)]
    <3> HIDE DEF TailCut, taken
    <3>1. PICK c \in {n} \cup {x \in {offset + limit} : x <= n} :
            v = [s EXCEPT !.sel = Ids(taken), !.filter = NoFilter, !.tail = TailCut(c)]
      BY <1>6
    <3> HIDE DEF n
    <3>2. c \in {n, offset + limit} /\ c <= n
      BY <1>1
    <3> QED BY <3>1, <3>2
  <2>2. taken \subseteq BaseLive(s)
    BY DEF Cut
  <2> HIDE DEF TailCut, taken
  <2>3. /\ v.tail = TailCut(c) /\ v.base = s.base /\ v.sel.rows = taken /\ v.filter.admits = Quads
        /\ v.deleted = s.deleted
    BY <1>1, <2>1 DEF Ids, NoFilter
  <2>4. BaseLive(s) \subseteq DOMAIN s.base /\ BaseLive(s) \cap s.deleted.rows = {}
    BY LiveQuadsType DEF Sound, BaseLive
  <2>5. \A r \in taken : s.base[r] \in Quads /\ r \notin s.deleted.rows
    BY <2>2, <2>4, <1>1
  <2>6. BaseLive(v) = taken
    BY <2>3, <2>5 DEF BaseLive
  <2>7. /\ v.tail.rows = s.tail.rows
        /\ TailLive(v.tail) = Cut(TailLive(s.tail), Monus(offset, c), Monus(limit, Cardinality(taken)))
    BY <2>3, <1>3
  <2> QED BY <2>1, <2>3, <2>6, <2>7 DEF taken
<1> QED BY <1>2, <1>4, <1>5, <1>6

(* A window yields some of the receiver's quads, and as many as it has     *)
(* room for past its offset.                                               *)
LEMMA WindowLive ==
  ASSUME NEW s, Sound(s), NEW offset \in Nat, NEW limit \in Nat, NEW v \in Windows(s, offset, limit)
  PROVE  /\ LiveQuads(v) \subseteq LiveQuads(s)
         /\ Cardinality(LiveQuads(v)) = Span(Cardinality(LiveQuads(s)), offset, limit)
<1> DEFINE B == BaseLive(s)
           T == TailLive(s.tail)
           n == Cardinality(B)
           t == Cardinality(T)
           taken == Cut(B, offset, limit)
           k == Cardinality(taken)
<1>1. Sound(v)
  BY WindowsShare, ViewSound DEF Sound
<1>2. /\ B \in SUBSET Nat /\ IsFiniteSet(B) /\ T \in SUBSET Nat /\ IsFiniteSet(T)
      /\ n \in Nat /\ t \in Nat /\ Cardinality(LiveQuads(s)) = n + t
      /\ Cardinality(LiveQuads(v)) = Cardinality(BaseLive(v)) + Cardinality(TailLive(v.tail))
  BY <1>1, LiveSize
<1>3. k = Span(n, offset, limit) /\ taken \subseteq B
  BY <1>2, CutSize
<1>4. \A o, l \in Nat : Cut(T, o, l) \subseteq T /\ Cardinality(Cut(T, o, l)) = Span(t, o, l)
  BY <1>2, CutSize
<1>5. v.base = s.base /\ v.tail.rows = s.tail.rows
  BY WindowRows
<1>6. \/ offset = 0 /\ n + t <= limit /\ BaseLive(v) = B /\ TailLive(v.tail) = T
      \/ /\ offset = 0 /\ n < limit /\ BaseLive(v) = B
         /\ TailLive(v.tail) = Cut(T, Monus(offset, n), Monus(limit, k))
      \/ \E c \in {n, offset + limit} :
           c <= n /\ BaseLive(v) = taken /\ TailLive(v.tail) = Cut(T, Monus(offset, c), Monus(limit, k))
  BY WindowRows
<1>7. \A c \in {n, offset + limit} : c <= n =>
        /\ Monus(offset, c) \in Nat /\ Monus(limit, k) \in Nat
        /\ k + Span(t, Monus(offset, c), Monus(limit, k)) = Span(n + t, offset, limit)
  <2> HIDE DEF n, t, k
  <2> SUFFICES ASSUME NEW c \in {n, offset + limit}, c <= n
               PROVE  /\ Monus(offset, c) \in Nat /\ Monus(limit, k) \in Nat
                      /\ k + Span(t, Monus(offset, c), Monus(limit, k)) = Span(n + t, offset, limit)
    OBVIOUS
  <2>0. n \in Nat /\ t \in Nat /\ c \in Nat /\ (c = n \/ c = offset + limit)
    BY <1>2
  <2>1. /\ Monus(offset, c) \in Nat /\ Monus(limit, Span(n, offset, limit)) \in Nat
        /\ Span(n, offset, limit) + Span(t, Monus(offset, c), Monus(limit, Span(n, offset, limit))) = Span(n + t, offset, limit)
    <3>1. CASE n <= offset
      BY <2>0, <3>1 DEF Span, Monus
    <3>2. CASE n > offset /\ n - offset <= limit
      BY <2>0, <3>2 DEF Span, Monus
    <3>3. CASE n > offset /\ n - offset > limit
      BY <2>0, <3>3 DEF Span, Monus
    <3> QED BY <2>0, <3>1, <3>2, <3>3
  <2> QED BY <2>1, <1>3
<1> DEFINE bv == Cardinality(BaseLive(v))
           tv == Cardinality(TailLive(v.tail))
<1> HIDE DEF B, T, n, t, taken, k, bv, tv
<1>8. BaseLive(v) \subseteq B /\ TailLive(v.tail) \subseteq T /\ bv + tv = Span(n + t, offset, limit)
  <2>1. CASE offset = 0 /\ n + t <= limit /\ BaseLive(v) = B /\ TailLive(v.tail) = T
    <3>1. bv = n /\ tv = t
      BY <2>1 DEF bv, tv, n, t
    <3>2. n + t = Span(n + t, offset, limit)
      BY <2>1, <1>2 DEF Span
    <3> QED BY <2>1, <3>1, <3>2
  <2>2. CASE /\ offset = 0 /\ n < limit /\ BaseLive(v) = B
             /\ TailLive(v.tail) = Cut(T, Monus(offset, n), Monus(limit, k))
    <3>1. k = n
      BY <2>2, <1>2, <1>3 DEF Span
    <3>2. /\ Monus(offset, n) \in Nat /\ Monus(limit, k) \in Nat
          /\ k + Span(t, Monus(offset, n), Monus(limit, k)) = Span(n + t, offset, limit)
      BY <1>2, <1>7
    <3>3. bv = k /\ tv = Span(t, Monus(offset, n), Monus(limit, k)) /\ TailLive(v.tail) \subseteq T
      BY <2>2, <3>1, <3>2, <1>4 DEF bv, tv, n
    <3> QED BY <2>2, <3>2, <3>3
  <2>3. CASE \E c \in {n, offset + limit} :
               c <= n /\ BaseLive(v) = taken /\ TailLive(v.tail) = Cut(T, Monus(offset, c), Monus(limit, k))
    <3>1. PICK c \in {n, offset + limit} :
            c <= n /\ BaseLive(v) = taken /\ TailLive(v.tail) = Cut(T, Monus(offset, c), Monus(limit, k))
      BY <2>3
    <3>2. /\ Monus(offset, c) \in Nat /\ Monus(limit, k) \in Nat
          /\ k + Span(t, Monus(offset, c), Monus(limit, k)) = Span(n + t, offset, limit)
      BY <3>1, <1>7
    <3>3. bv = k /\ tv = Span(t, Monus(offset, c), Monus(limit, k)) /\ TailLive(v.tail) \subseteq T
      BY <3>1, <3>2, <1>4 DEF bv, tv, k
    <3> QED BY <3>1, <3>2, <3>3, <1>3
  <2> QED BY <1>6, <2>1, <2>2, <2>3
<1>9. LiveQuads(v) \subseteq LiveQuads(s)
  BY <1>5, <1>8 DEF LiveQuads, Values, B, T
<1> QED BY <1>2, <1>8, <1>9 DEF bv, tv

-----------------------------------------------------------------------------
(* The steps                                                               *)

(* The abstract state a state of the store stands for.                     *)
Data == [h \in DOMAIN store |-> LiveQuads(store[h])]
File == Values(disk.rows, DOMAIN disk.rows)

(* A store bound to a handle is its quads bound to it.                     *)
LEMMA BindMaps ==
  ASSUME NEW k, NEW v, NEW S, Bind(k, v), LiveQuads(v) = S
  PROVE  Dataset!Bind(k, S)
<1>1. store' = [h \in DOMAIN store \cup {k} |-> IF h = k THEN v ELSE store[h]]
  BY DEF Bind
<1>2. DOMAIN store' = DOMAIN store \cup {k}
  BY <1>1
<1>3. \A h \in DOMAIN store \cup {k} : LiveQuads(store'[h]) = IF h = k THEN S ELSE LiveQuads(store[h])
  BY <1>1
<1>4. [h \in DOMAIN store' |-> LiveQuads(store'[h])]
      = [h \in DOMAIN store \cup {k} |-> IF h = k THEN S ELSE Data[h]]
  BY <1>2, <1>3 DEF Data
<1> QED BY <1>4 DEF Dataset!Bind, Data

(* A compaction binds what was live, and leaves the file as it is or       *)
(* holding it.                                                             *)
LEMMA CompactedMaps ==
  ASSUME NEW k, NEW s, Sound(s), NEW idx, NEW gen, Compacted(k, s, idx, gen)
  PROVE  Dataset!Bind(k, LiveQuads(s)) /\ File' \in {File, LiveQuads(s)}
<1>1. CASE RewritesFile(s)
  <2>1. /\ disk' = [id |-> disk.id + 1, rows |-> SortedLive(s), indexes |-> idx]
        /\ Bind(k, Fresh(disk'.rows, disk'.indexes, disk'.id, gen + 1))
    BY <1>1 DEF Compacted
  <2>2. disk'.rows = SortedLive(s)
    BY <2>1
  <2>3. Bind(k, Fresh(SortedLive(s), disk'.indexes, disk'.id, gen + 1))
    BY <2>1, <2>2
  <2>4. Dataset!Bind(k, LiveQuads(s))
    BY <2>3, RebuiltLive, BindMaps
  <2>5. File' = LiveQuads(s)
    BY <2>2, RebuiltLive DEF File
  <2> QED BY <2>4, <2>5
<1>2. CASE ~RewritesFile(s)
  <2>1. Bind(k, Fresh(SortedLive(s), idx, InMemory, gen + 1)) /\ disk' = disk
    BY <1>2 DEF Compacted
  <2>2. Dataset!Bind(k, LiveQuads(s))
    BY <2>1, RebuiltLive, BindMaps
  <2>3. File' = File
    BY <2>1 DEF File
  <2> QED BY <2>2, <2>3
<1> QED BY <1>1, <1>2

(* A build, in memory or over the path, and an open.                       *)
LEMMA BuildMaps ==
  ASSUME IInv, NEW S \in SUBSET Quads, NEW idx \in SUBSET Indexes, NEW k \in Handles
  PROVE  /\ Build(k, S, idx) => Dataset!Build(k, S)
         /\ BuildFile(S, idx) => Dataset!BuildFile(S)
         /\ FromFile(k) => Dataset!Open(k)
<1>1. ASSUME Build(k, S, idx) PROVE Dataset!Build(k, S)
  <2>1. LiveQuads(Fresh(Ascending(S), idx, InMemory, generation')) = S
    BY SortedRows, FreshLive
  <2>2. Dataset!Bind(k, S)
    BY <1>1, <2>1, BindMaps DEF Build
  <2> QED BY <1>1, <2>2 DEF Build, Called, Nothing, Dataset!Build, Dataset!Call, Dataset!Nothing
<1>2. ASSUME BuildFile(S, idx) PROVE Dataset!BuildFile(S)
  <2>1. disk'.rows = Ascending(S) /\ UNCHANGED <<store, call>>
    BY <1>2 DEF BuildFile
  <2>2. Values(disk'.rows, DOMAIN disk'.rows) = S
    BY <2>1, SortedRows
  <2> QED BY <2>1, <2>2 DEF Dataset!BuildFile
<1>3. ASSUME FromFile(k) PROVE Dataset!Open(k)
  <2>1. disk.rows \in Seq(Quads)
    BY DEF IInv, TypeOK
  <2>2. LiveQuads(Fresh(disk.rows, disk.indexes, disk.id, generation')) = File
    BY <2>1, FreshLive DEF File
  <2>3. Dataset!Bind(k, File)
    BY <1>3, <2>2, BindMaps DEF FromFile
  <2> QED BY <1>3, <2>3 DEF File, FromFile, Called, Nothing, Dataset!Open, Dataset!Call, Dataset!Nothing
<1> QED BY <1>1, <1>2, <1>3

(* A handle dropped.                                                       *)
LEMMA DropMaps ==
  ASSUME NEW h, Drop(h)
  PROVE  Dataset!Drop(h)
<1>1. /\ store' = [x \in DOMAIN store \ {h} |-> store[x]] /\ disk' = disk
      /\ Called("drop", h, h, {}, Nothing)
  BY DEF Drop
<1>2. DOMAIN store' = DOMAIN store \ {h} /\ \A x \in DOMAIN store \ {h} : store'[x] = store[x]
  BY <1>1
<1>3. [x \in DOMAIN store' |-> LiveQuads(store'[x])] = [x \in DOMAIN store \ {h} |-> Data[x]]
  BY <1>2 DEF Data
<1> QED BY <1>1, <1>3 DEF Called, Nothing, Data, Dataset!Drop, Dataset!Call, Dataset!Nothing

(* compact, owned and a round trip copy.                                   *)
LEMMA CopyMaps ==
  ASSUME IInv, NEW h \in DOMAIN store, NEW k \in Handles,
         \/ \E idx \in SUBSET Indexes : CompactWithIndexes(h, k, idx)
         \/ Owned(h, k) \/ RoundTrip(h, k)
  PROVE  Dataset!Copy(h, k)
<1> DEFINE s == store[h]
<1>1. Sound(s) /\ Data[h] = LiveQuads(s)
  BY IInvSound DEF Data
<1> SUFFICES /\ Called("copy", h, k, {}, Nothing) /\ Dataset!Bind(k, LiveQuads(s))
             /\ File' \in {File, LiveQuads(s)}
  BY <1>1 DEF Called, Nothing, Data, File, Dataset!Copy, Dataset!Call, Dataset!Nothing
<1>2. ASSUME NEW idx, CompactWithIndexes(h, k, idx)
      PROVE  /\ Called("copy", h, k, {}, Nothing) /\ Dataset!Bind(k, LiveQuads(s))
             /\ File' \in {File, LiveQuads(s)}
  BY <1>1, <1>2, CompactedMaps DEF CompactWithIndexes
<1>3. CASE Owned(h, k) /\ IsOwner(s)
  <2>1. Called("copy", h, k, {}, Nothing) /\ Bind(k, s) /\ disk' = disk
    BY <1>3 DEF Owned
  <2>2. File' = File
    BY <2>1 DEF File
  <2> QED BY <2>1, <2>2, BindMaps
<1>4. CASE Owned(h, k) /\ ~IsOwner(s)
  BY <1>2, <1>4 DEF Owned
<1>5. CASE RoundTrip(h, k)
  <2>1. Called("copy", h, k, {}, Nothing) /\ Bind(k, Serialized(s, generation')) /\ disk' = disk
    BY <1>5 DEF RoundTrip
  <2>2. LiveQuads(Serialized(s, generation')) = LiveQuads(s)
    BY <1>1, SerializedLive
  <2>3. File' = File
    BY <2>1 DEF File
  <2> QED BY <2>1, <2>2, <2>3, BindMaps
<1> QED BY <1>2, <1>3, <1>4, <1>5

(* add_quads is a union, whether it appends, folds the batch into the file *)
(* or finds nothing new.                                                   *)
LEMMA AddMaps ==
  ASSUME IInv, NEW h \in DOMAIN store, NEW k \in Handles, NEW batch \in Batches, AddQuads(h, k, batch)
  PROVE  Dataset!Add(h, k, Values(batch, DOMAIN batch))
<1> DEFINE s == store[h]
           S == Values(batch, DOMAIN batch)
           fresh == FreshQuads(s, batch)
           appended == Appended(s, fresh, generation + 1)
           Both == LiveQuads(s) \cup S
<1>1. Sound(s) /\ Data[h] = LiveQuads(s) /\ IsOwner(s) /\ Called("add", h, k, S, Nothing)
  BY IInvSound DEF Data, AddQuads
<1>2. Sound(appended) /\ LiveQuads(appended) = Both
  BY <1>1, AppendedSound, AppendLive
<1>3. /\ \/ fresh = <<>> /\ Bind(k, s) /\ disk' = disk
         \/ Bind(k, appended) /\ disk' = disk
         \/ Compacted(k, appended, appended.indexes, generation + 1)
  BY DEF AddQuads
<1> HIDE DEF S, appended, s
<1> SUFFICES Dataset!Bind(k, Both) /\ File' \in {File, Both}
  BY <1>1 DEF Called, Nothing, Data, File, Dataset!Add, Dataset!Call, Dataset!Nothing, S, s
<1>4. CASE fresh = <<>> /\ Bind(k, s) /\ disk' = disk
  <2>1. LiveQuads(s) \cup Values(fresh, DOMAIN fresh) = Both
    BY <1>1, FreshCompletes DEF S
  <2>2. Values(fresh, DOMAIN fresh) = {}
    BY <1>4 DEF Values
  <2>3. LiveQuads(s) = Both
    BY <2>1, <2>2
  <2>4. File' = File
    BY <1>4 DEF File
  <2> QED BY <2>3, <2>4, <1>4, BindMaps
<1>5. CASE Bind(k, appended) /\ disk' = disk
  <2>1. File' = File
    BY <1>5 DEF File
  <2> QED BY <2>1, <1>2, <1>5, BindMaps
<1>6. CASE Compacted(k, appended, appended.indexes, generation + 1)
  BY <1>2, <1>6, CompactedMaps
<1> QED BY <1>3, <1>4, <1>5, <1>6

(* The dataset counts as the store does.                                   *)
LEMMA SameCount ==
  ASSUME NEW S
  PROVE  Dataset!Cardinality(S) = Cardinality(S)
BY DEF Cardinality, Dataset!Cardinality

(* A match, a delete and a window.                                         *)
LEMMA ViewMaps ==
  ASSUME IInv, NEW h \in DOMAIN store, NEW k \in Handles
  PROVE  /\ \A pat \in Patterns : DeleteMatching(h, k, pat) => Dataset!Delete(h, k, pat.admits)
         /\ \A pat \in Patterns : MatchPattern(h, k, pat) => Dataset!Match(h, k, pat.admits)
         /\ \A offset, limit \in Nat : Window(h, k, offset, limit) => Dataset!Window(h, k, offset, limit)
<1> DEFINE s == store[h]
<1>1. Sound(s) /\ Data[h] = LiveQuads(s)
  BY IInvSound DEF Data
<1>2. ASSUME NEW pat \in Patterns, DeleteMatching(h, k, pat)
      PROVE  Dataset!Delete(h, k, pat.admits)
  <2>1. IsOwner(s) /\ Called("delete", h, k, pat.admits, Nothing) /\ disk' = disk
    BY <1>2 DEF DeleteMatching
  <2>2. PICK v \in Matches(s, pat) : Bind(k, Tombstoned(s, DoomedRows(v), v.tail.sel.rows, generation'))
    BY <1>2 DEF DeleteMatching
  <2>3. LiveQuads(Tombstoned(s, DoomedRows(v), v.tail.sel.rows, generation')) = LiveQuads(s) \ pat.admits
    BY <1>1, <2>1, DeleteLive
  <2>4. Dataset!Bind(k, LiveQuads(s) \ pat.admits)
    BY <2>2, <2>3, BindMaps
  <2> QED BY <1>1, <2>1, <2>4 DEF Called, Nothing, Data, Dataset!Delete, Dataset!Call, Dataset!Nothing
<1>3. ASSUME NEW pat \in Patterns, MatchPattern(h, k, pat)
      PROVE  Dataset!Match(h, k, pat.admits)
  <2>1. Called("match", h, k, pat.admits, Nothing) /\ disk' = disk
    BY <1>3 DEF MatchPattern
  <2>2. PICK v \in Matches(s, pat) : Bind(k, v)
    BY <1>3 DEF MatchPattern
  <2>3. LiveQuads(v) = LiveQuads(s) \cap pat.admits
    BY <1>1, MatchLive
  <2>4. Dataset!Bind(k, LiveQuads(s) \cap pat.admits)
    BY <2>2, <2>3, BindMaps
  <2> QED BY <1>1, <2>1, <2>4 DEF Called, Nothing, Data, Dataset!Match, Dataset!Call, Dataset!Nothing
<1>4. ASSUME NEW offset \in Nat, NEW limit \in Nat, Window(h, k, offset, limit)
      PROVE  Dataset!Window(h, k, offset, limit)
  <2>1. Called("window", h, k, {}, <<offset, limit>>) /\ disk' = disk
    BY <1>4 DEF Window
  <2>2. PICK v \in Windows(s, offset, limit) : Bind(k, v)
    BY <1>4 DEF Window
  <2>3. LiveQuads(v) \in SUBSET Data[h] /\ Cardinality(LiveQuads(v)) = Span(Cardinality(Data[h]), offset, limit)
    BY <1>1, WindowLive
  <2>4. Dataset!Bind(k, LiveQuads(v))
    BY <2>2, BindMaps
  <2>5. call' = Dataset!Call("window", h, k, {}, <<offset, limit>>) /\ File' = File
    BY <2>1 DEF Called, Dataset!Call, File
  <2> DEFINE n == Dataset!Cardinality(Data[h])
             Fits(S) == Dataset!Cardinality(S) = IF n <= offset THEN 0
                                                 ELSE IF n - offset <= limit THEN n - offset ELSE limit
  <2>6. Fits(LiveQuads(v))
    <3>1. n = Cardinality(Data[h]) /\ Dataset!Cardinality(LiveQuads(v)) = Cardinality(LiveQuads(v))
      BY SameCount
    <3> QED BY <3>1, <2>3 DEF Span
  <2> HIDE DEF Fits
  <2>7. \E S \in SUBSET Data[h] : Dataset!Bind(k, S) /\ Fits(S)
    BY <2>3, <2>4, <2>6
  <2> QED BY <2>5, <2>7, Zenon DEF Fits, Data, File, Dataset!Window
<1> QED BY <1>2, <1>3, <1>4

(* A step that changes nothing the dataset sees.                           *)
LEMMA StutterMaps ==
  ASSUME UNCHANGED <<store, disk, call>>
  PROVE  UNCHANGED Dataset!dvars
BY DEF Dataset!dvars

(* Every step of the store is a step of the dataset, or none.              *)
LEMMA NextMaps ==
  ASSUME IInv, [Next]_vars
  PROVE  [Dataset!Next]_(Dataset!dvars)
<1>1. DOMAIN Data = DOMAIN store /\ DOMAIN store \subseteq Handles
  BY DEF Data, IInv, TypeOK
<1>2. CASE SetWritable \/ UNCHANGED vars
  BY <1>2, StutterMaps DEF SetWritable, vars
<1>3. CASE \E S \in SUBSET Quads, idx \in SUBSET Indexes :
             BuildFile(S, idx) \/ \E k \in Handles : Build(k, S, idx)
  <2>1. PICK S \in SUBSET Quads, idx \in SUBSET Indexes :
          BuildFile(S, idx) \/ \E k \in Handles : Build(k, S, idx)
    BY <1>3
  <2>2. CASE BuildFile(S, idx)
    <3>1. PICK k \in Handles : TRUE
      BY DEF IInv, TypeOK
    <3>2. Dataset!BuildFile(S)
      BY <2>2, <3>1, BuildMaps
    <3> QED BY <3>2 DEF Dataset!Next
  <2>3. CASE \E k \in Handles : Build(k, S, idx)
    <3>1. \E k \in Handles : Dataset!Build(k, S)
      BY <2>3, BuildMaps
    <3> QED BY <3>1 DEF Dataset!Next
  <2> QED BY <2>1, <2>2, <2>3
<1>4. CASE \E k \in Handles : FromFile(k)
  <2>1. \E k \in Handles : Dataset!Open(k)
    BY <1>4, BuildMaps
  <2> QED BY <2>1 DEF Dataset!Next
<1>5. ASSUME NEW h \in DOMAIN store, Drop(h)
      PROVE  Dataset!Next
  <2>1. Dataset!Drop(h)
    BY <1>5, DropMaps
  <2> QED BY <2>1, <1>1 DEF Dataset!Next, Data
<1>6. ASSUME NEW h \in DOMAIN store, NEW k \in Handles,
             \/ \E idx \in SUBSET Indexes : CompactWithIndexes(h, k, idx)
             \/ Owned(h, k) \/ RoundTrip(h, k)
      PROVE  Dataset!Next
  <2>1. Dataset!Copy(h, k)
    BY <1>6, CopyMaps
  <2> QED BY <2>1, <1>1 DEF Dataset!Next, Data
<1>7. ASSUME NEW h \in DOMAIN store, NEW k \in Handles, NEW batch \in Batches, AddQuads(h, k, batch)
      PROVE  Dataset!Next
  <2>1. Dataset!Add(h, k, Values(batch, DOMAIN batch))
    BY <1>7, AddMaps
  <2>2. Values(batch, DOMAIN batch) \in SUBSET Quads
    <3>1. batch \in Seq(Quads)
      BY BatchesAssumption
    <3> QED BY <3>1 DEF Values
  <2> QED BY <2>1, <2>2, <1>1 DEF Dataset!Next, Data
<1>8. ASSUME NEW h \in DOMAIN store, NEW k \in Handles, NEW pat \in Patterns,
             DeleteMatching(h, k, pat) \/ MatchPattern(h, k, pat)
      PROVE  Dataset!Next
  <2>1. Dataset!Delete(h, k, pat.admits) \/ Dataset!Match(h, k, pat.admits)
    BY <1>8, ViewMaps
  <2>2. pat.admits \in SUBSET Quads
    BY PatternFacts
  <2> QED BY <2>1, <2>2, <1>1 DEF Dataset!Next, Data
<1>9. ASSUME NEW h \in DOMAIN store, NEW k \in Handles, NEW offset \in 0..MaxWindow, NEW limit \in 0..MaxWindow,
             Window(h, k, offset, limit)
      PROVE  Dataset!Next
  <2>1. offset \in Nat /\ limit \in Nat
    BY BoundsAssumption
  <2>2. Dataset!Window(h, k, offset, limit)
    BY <2>1, <1>9, ViewMaps
  <2> QED BY <2>2, <1>1 DEF Dataset!Next, Data
<1> QED BY <1>2, <1>3, <1>4, <1>5, <1>6, <1>7, <1>8, <1>9 DEF Next

(* Before the first call there is no handle, and the file is empty.        *)
LEMMA InitMaps ==
  ASSUME Init
  PROVE  Dataset!Init
<1>1. Data = <<>>
  BY DEF Init, Data
<1>2. File = {}
  BY DEF Init, File, Values
<1>3. \E k \in Handles : call = Dataset!Call("none", k, k, {}, Dataset!Nothing)
  BY DEF Init, Nothing, Dataset!Call, Dataset!Nothing
<1> QED BY <1>1, <1>2, <1>3 DEF Data, File, Dataset!Init

(* The store implements the dataset: for every set of quads, every hash,   *)
(* batch, pattern, threshold and index set, each call on base, tail, masks *)
(* and selections is, to a reader, the set operation it promises, and      *)
(* leaves every other handle's quads as they were.                         *)
THEOREM StoreImplementsDataset ==
  Spec => ImplementsDataset
<1>1. Init => Dataset!Init
  BY InitMaps
<1>2. IInv /\ [Next]_vars => [Dataset!Next]_(Dataset!dvars)
  BY NextMaps
<1> QED BY <1>1, <1>2, Inductive, PTL DEF Spec, ImplementsDataset, Dataset!Spec

===========================================================================
