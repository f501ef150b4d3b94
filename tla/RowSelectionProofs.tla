------------------------- MODULE RowSelectionProofs -------------------------
(***************************************************************************)
(* Proofs about RowSelection, for every length of the table: whatever a    *)
(* chain of operations does to a selection, its shape selects exactly the  *)
(* rows the chain keeps, and a split of it loses and repeats none.         *)
(***************************************************************************)
EXTENDS RowSelection, SelectionLemmas

-----------------------------------------------------------------------------
(* The inductive invariant                                                 *)

(* s selects the rows of R: all of them, a range of them that is one of    *)
(* the table, or their list.                                               *)
Selects(s, R) ==
  /\ R \subseteq Rows
  /\ \/ s = All /\ R = Rows
     \/ /\ s.kind = "range" /\ s = RangeOf(s.start, s.end)
        /\ s.start \in Nat /\ s.end \in Nat /\ s.start <= s.end /\ s.end <= N
        /\ R = Interval(s.start, s.end)
     \/ s.kind = "ids" /\ s = Ids(s.ids) /\ Lists(s.ids, R)

(* Tombstones of rows of the table; without a mask there are none.         *)
Tombstones(d) ==
  /\ d = [some |-> d.some, rows |-> d.rows] /\ d.some \in BOOLEAN
  /\ d.rows \subseteq Rows /\ (~d.some => d.rows = {})

IInv == Selects(sel, rows) /\ Tombstones(deleted)

(* How to show a selection.                                                *)
LEMMA SelectsRange ==
  ASSUME NEW a \in Nat, NEW b \in Nat, a <= b, b <= N
  PROVE  Selects(RangeOf(a, b), Interval(a, b))
<1>1. RangeOf(a, b).kind = "range" /\ RangeOf(a, b).start = a /\ RangeOf(a, b).end = b
  BY DEF RangeOf
<1>2. Interval(a, b) \subseteq Rows
  BY LengthAssumption DEF Interval, Rows
<1> QED BY <1>1, <1>2 DEF Selects

LEMMA SelectsIds ==
  ASSUME NEW ids, NEW R, Lists(ids, R), R \subseteq Rows
  PROVE  Selects(Ids(ids), R)
<1>1. Ids(ids).kind = "ids" /\ Ids(ids).ids = ids
  BY DEF Ids
<1> QED BY <1>1 DEF Selects

LEMMA SelectsEmpty ==
  Selects(Empty, {})
<1>1. Interval(0, 0) = {}
  BY DEF Interval
<1>2. 0 \in Nat /\ 0 <= 0 /\ 0 <= N
  BY LengthAssumption
<1>3. Selects(RangeOf(0, 0), Interval(0, 0))
  BY <1>2, SelectsRange
<1> QED BY <1>1, <1>3 DEF Empty

LEMMA SelectsFromIds ==
  ASSUME NEW ids, NEW R, Lists(ids, R), R \subseteq Rows
  PROVE  Selects(FromIds(ids), R)
<1>1. CASE ids = <<>>
  <2>1. R = {}
    BY <1>1 DEF Lists, Members
  <2> QED BY <1>1, <2>1, SelectsEmpty DEF FromIds
<1>2. CASE ids # <<>>
  BY <1>2, SelectsIds DEF FromIds
<1> QED BY <1>1, <1>2

(* The shapes a selection has.                                             *)
LEMMA Shapes ==
  ASSUME NEW s, NEW R, Selects(s, R)
  PROVE  /\ R \subseteq Rows /\ R \subseteq Nat
         /\ \/ s.kind = "all" /\ s = All /\ R = Rows
            \/ /\ s.kind = "range" /\ s = RangeOf(s.start, s.end)
               /\ s.start \in Nat /\ s.end \in Nat /\ s.start <= s.end /\ s.end <= N
               /\ R = Interval(s.start, s.end)
            \/ s.kind = "ids" /\ s = Ids(s.ids) /\ Lists(s.ids, R)
<1>1. Rows \subseteq Nat
  BY LengthAssumption DEF Rows, Interval
<1>2. All.kind = "all"
  BY DEF All
<1> QED BY <1>1, <1>2 DEF Selects

(* A range of the table is not clamped.                                    *)
LEMMA RangeFits ==
  ASSUME NEW s, s.kind = "range", s.start \in Nat, s.end \in Nat, s.start <= s.end, s.end <= N
  PROVE  Clamped(s, N) = RangeOf(s.start, s.end)
<1> DEFINE a == s.start
           b == s.end
<1>1. a \in Nat /\ b \in Nat /\ a <= b /\ b <= N /\ N \in Nat
  BY LengthAssumption
<1> HIDE DEF a, b
<1>2. Least(a, N) = a /\ Least(b, N) = b /\ Greatest(a, b) = b
  BY <1>1 DEF Least, Greatest
<1> QED BY <1>2 DEF Clamped, a, b

LEMMA ClampedEnds ==
  ASSUME NEW s, s.kind = "range", s.start \in Nat, s.end \in Nat, s.start <= s.end, s.end <= N
  PROVE  Clamped(s, N).start = s.start /\ Clamped(s, N).end = s.end
BY RangeFits DEF RangeOf

(* A selection's own answers.                                              *)
LEMMA SelectionAnswers ==
  ASSUME NEW s, NEW R, Selects(s, R)
  PROVE  /\ Lists(AsRows(s, N), R)
         /\ SelLen(s, N) = Len(AsRows(s, N))
         /\ \A row \in Rows : Contains(s, row) <=> row \in R
         /\ ToMask(s, N) = R
<1>1. R \subseteq Rows /\ R \subseteq Nat /\ N \in Nat
  BY Shapes, LengthAssumption
<1>2. CASE s.kind = "all" /\ s = All /\ R = Rows
  <2>1. AsRows(s, N) = Run(0, N) /\ SelLen(s, N) = N /\ ToMask(s, N) = Rows
    BY <1>2 DEF AsRows, SelLen, ToMask, Rows
  <2>2. \A row \in Rows : Contains(s, row)
    BY <1>2 DEF Contains
  <2>3. Lists(Run(0, N), Rows) /\ Len(Run(0, N)) = Minus(N, 0)
    BY <1>1, RunLists DEF Rows
  <2>4. Minus(N, 0) = N
    BY <1>1 DEF Minus
  <2> QED BY <1>2, <2>1, <2>2, <2>3, <2>4
<1>3. CASE /\ s.kind = "range" /\ s = RangeOf(s.start, s.end)
           /\ s.start \in Nat /\ s.end \in Nat /\ s.start <= s.end /\ s.end <= N
           /\ R = Interval(s.start, s.end)
  <2>1. Clamped(s, N).start = s.start /\ Clamped(s, N).end = s.end
    BY <1>3, ClampedEnds
  <2>2. /\ AsRows(s, N) = Run(s.start, s.end) /\ SelLen(s, N) = Minus(s.end, s.start)
        /\ ToMask(s, N) = Interval(s.start, s.end)
    BY <1>3, <2>1 DEF AsRows, SelLen, ToMask
  <2>3. ASSUME NEW row \in Rows PROVE Contains(s, row) <=> row \in Interval(s.start, s.end)
    <3>1. Contains(s, row) <=> s.start <= row /\ row < s.end
      BY <1>3 DEF Contains
    <3>2. row \in Nat
      BY <1>1 DEF Rows, Interval
    <3> QED BY <1>3, <3>1, <3>2 DEF Interval
  <2>4. Lists(Run(s.start, s.end), R) /\ Len(Run(s.start, s.end)) = Minus(s.end, s.start)
    BY <1>3, RunLists
  <2> QED BY <1>3, <2>2, <2>3, <2>4
<1>4. CASE s.kind = "ids" /\ s = Ids(s.ids) /\ Lists(s.ids, R)
  <2>1. AsRows(s, N) = s.ids /\ SelLen(s, N) = Len(s.ids) /\ ToMask(s, N) = Members(s.ids)
    BY <1>4 DEF AsRows, SelLen, ToMask
  <2>2. Members(s.ids) = R
    BY <1>4 DEF Lists
  <2>3. \A row \in Rows : Contains(s, row) <=> row \in R
    BY <1>4, <2>2 DEF Contains
  <2> QED BY <1>4, <2>1, <2>2, <2>3
<1> QED BY <1>2, <1>3, <1>4, Shapes

(* The reference list of a set of rows is its list.                        *)
LEMMA ListedLists ==
  ASSUME NEW R, R \subseteq Rows
  PROVE  Lists(Listed(R), R)
<1>1. Lists(Run(0, N), Rows)
  BY LengthAssumption, RunLists DEF Rows
<1>2. Lists(Filtered(Run(0, N), R), Rows \cap R) /\ Rows \cap R = R
  BY <1>1, FilteredLists
<1> QED BY <1>2 DEF Listed

-----------------------------------------------------------------------------
(* Narrowing                                                               *)

(* What intersect_range leaves.                                            *)
LEMMA IntersectRangeSelects ==
  ASSUME NEW s, NEW R, Selects(s, R), NEW a \in Nat, NEW b \in Nat, a <= b, b <= N
  PROVE  Selects(IntersectRange(s, a, b), R \cap Interval(a, b))
<1>1. R \subseteq Rows /\ N \in Nat
  BY Shapes, LengthAssumption
<1>2. CASE s.kind = "all" /\ s = All /\ R = Rows
  <2>1. IntersectRange(s, a, b) = RangeOf(a, b)
    BY <1>2 DEF IntersectRange
  <2>2. Rows \cap Interval(a, b) = Interval(a, b)
    BY <1>1 DEF Rows, Interval
  <2> QED BY <1>2, <2>1, <2>2, SelectsRange
<1>3. CASE /\ s.kind = "range" /\ s = RangeOf(s.start, s.end)
           /\ s.start \in Nat /\ s.end \in Nat /\ s.start <= s.end /\ s.end <= N
           /\ R = Interval(s.start, s.end)
  <2> DEFINE c == s.start
             d == s.end
             u == Greatest(c, a)
             v == Greatest(u, Least(d, b))
  <2>1. IntersectRange(s, a, b) = RangeOf(u, v)
    BY <1>3 DEF IntersectRange
  <2>2. c \in Nat /\ d \in Nat /\ c <= d /\ d <= N /\ R = Interval(c, d)
    BY <1>3
  <2> HIDE DEF c, d
  <2>3. u \in Nat /\ v \in Nat /\ u <= v /\ v <= N
    BY <1>1, <2>2 DEF Greatest, Least
  <2>4. Interval(c, d) \cap Interval(a, b) = Interval(u, v)
    BY <2>2 DEF Greatest, Least, Interval
  <2>5. Selects(RangeOf(u, v), Interval(u, v))
    BY <2>3, SelectsRange
  <2> QED BY <2>1, <2>2, <2>4, <2>5
<1>4. CASE s.kind = "ids" /\ s = Ids(s.ids) /\ Lists(s.ids, R)
  <2>1. IntersectRange(s, a, b) = Ids(RestrictIds(s.ids, a, b))
    BY <1>4 DEF IntersectRange
  <2>2. Lists(RestrictIds(s.ids, a, b), R \cap Interval(a, b))
    BY <1>4, RestrictLists
  <2>3. R \cap Interval(a, b) \subseteq Rows
    BY <1>1
  <2> QED BY <2>1, <2>2, <2>3, SelectsIds
<1> QED BY <1>2, <1>3, <1>4, Shapes

(* What intersect_ids leaves.                                              *)
LEMMA IntersectIdsSelects ==
  ASSUME NEW s, NEW R, Selects(s, R), NEW ids, NEW K, Lists(ids, K), K \subseteq Rows
  PROVE  Selects(IntersectIds(s, ids), R \cap K)
<1>1. R \subseteq Rows /\ R \cap K \subseteq Rows
  BY Shapes
<1>2. CASE s.kind = "all" /\ s = All /\ R = Rows
  <2>1. IntersectIds(s, ids) = Ids(ids)
    BY <1>2 DEF IntersectIds
  <2>2. R \cap K = K
    BY <1>2
  <2> QED BY <2>1, <2>2, SelectsIds
<1>3. CASE /\ s.kind = "range" /\ s = RangeOf(s.start, s.end)
           /\ s.start \in Nat /\ s.end \in Nat /\ s.start <= s.end /\ s.end <= N
           /\ R = Interval(s.start, s.end)
  <2>1. IntersectIds(s, ids) = Ids(RestrictIds(ids, s.start, s.end))
    BY <1>3 DEF IntersectIds
  <2>2. Lists(RestrictIds(ids, s.start, s.end), K \cap Interval(s.start, s.end))
    BY <1>3, RestrictLists
  <2>3. K \cap Interval(s.start, s.end) = R \cap K
    BY <1>3
  <2> QED BY <1>1, <2>1, <2>2, <2>3, SelectsIds
<1>4. CASE s.kind = "ids" /\ s = Ids(s.ids) /\ Lists(s.ids, R)
  <2>1. IntersectIds(s, ids) = Ids(IntersectSortedIds(s.ids, ids))
    BY <1>4 DEF IntersectIds
  <2>2. Lists(IntersectSortedIds(s.ids, ids), R \cap K)
    BY <1>4, IntersectLists
  <2> QED BY <1>1, <2>1, <2>2, SelectsIds
<1> QED BY <1>2, <1>3, <1>4, Shapes

(* The rows of a list at listed positions, counted from 0.                 *)
LEMMA MappedLists ==
  ASSUME NEW seq, NEW R, Lists(seq, R), NEW local, NEW K, Lists(local, K),
         K \subseteq Interval(0, Len(seq)),
         NEW out, out = [i \in 1..Len(local) |-> seq[local[i] + 1]]
  PROVE  Lists(out, {seq[k + 1] : k \in K})
<1> DEFINE n == Len(seq)
           o == Len(local)
           U == {seq[k + 1] : k \in K}
<1>1. /\ n \in Nat /\ (\A i \in 1..n : seq[i] \in Nat)
      /\ (\A i, j \in 1..n : seq[i] < seq[j] <=> i < j)
  BY ListFacts
<1>2. /\ o \in Nat /\ (\A i \in 1..o : local[i] \in K /\ local[i] \in Nat)
      /\ (\A x \in K : \E i \in 1..o : x = local[i])
      /\ (\A i, j \in 1..o : local[i] < local[j] <=> i < j)
  BY ListFacts
<1>3. K \subseteq Interval(0, n) /\ out = [i \in 1..o |-> seq[local[i] + 1]]
  OBVIOUS
<1> HIDE DEF n, o
<1>4. \A k \in K : k \in Nat /\ k + 1 \in 1..n
  BY <1>1, <1>3 DEF Interval
<1>5. \A i \in 1..o : out[i] = seq[local[i] + 1] /\ out[i] \in Nat
  BY <1>1, <1>2, <1>3, <1>4
<1>6. out \in Seq(Nat) /\ Len(out) = o
  <2>1. out = [i \in 1..o |-> out[i]] /\ \A i \in 1..o : out[i] \in Nat
    BY <1>3, <1>5
  <2>2. out \in [1..o -> Nat]
    BY <2>1
  <2> QED BY <1>2, <2>2
<1>7. \A i \in 1..o : out[i] \in U
  BY <1>2, <1>5
<1>8. \A x \in U : \E i \in 1..o : x = out[i]
  <2> TAKE x \in U
  <2>1. PICK k \in K : x = seq[k + 1]
    OBVIOUS
  <2>2. PICK i \in 1..o : k = local[i]
    BY <1>2
  <2> QED BY <1>5, <2>1, <2>2
<1>9. ASSUME NEW i \in 2..o PROVE out[i - 1] < out[i]
  <2>1. i \in 1..o /\ i - 1 \in 1..o /\ i - 1 < i
    BY <1>2
  <2>2. local[i - 1] < local[i] /\ local[i] \in K /\ local[i - 1] \in K
    BY <1>2, <2>1
  <2>3. local[i] + 1 \in 1..n /\ local[i - 1] + 1 \in 1..n /\ local[i - 1] + 1 < local[i] + 1
    BY <1>4, <2>2
  <2> QED BY <1>1, <1>5, <2>1, <2>3
<1> HIDE DEF U
<1>10. Lists(out, U)
  <2> DEFINE w == out
  <2>1. /\ w \in Seq(Nat) /\ Len(w) = o /\ (\A i \in 1..o : w[i] \in U)
        /\ (\A x \in U : \E i \in 1..o : x = w[i])
    BY <1>6, <1>7, <1>8
  <2>2. \A i \in 2..o : w[i - 1] < w[i]
    BY <1>9
  <2> HIDE DEF w
  <2>3. Lists(w, U)
    BY <2>1, <2>2, MakeList
  <2> QED BY <2>3 DEF w
<1> QED BY <1>10 DEF U

(* What refine leaves of a comparison that keeps the rows of K.            *)
LEMMA RefineSelects ==
  ASSUME NEW s, NEW R, Selects(s, R), NEW K
  PROVE  Selects(Refine(s, {i \in Interval(0, SelLen(s, N)) : AsRows(s, N)[i + 1] \in K}, SelLen(s, N)),
                 R \cap K)
<1> DEFINE seq == AsRows(s, N)
           len == Len(seq)
           keep == {i \in Interval(0, len) : seq[i + 1] \in K}
           local == Filtered(Run(0, len), keep)
           out == [i \in 1..Len(local) |-> seq[local[i] + 1]]
<1>1. R \subseteq Rows /\ R \cap K \subseteq Rows /\ R \subseteq Nat
  BY Shapes
<1>2. Lists(seq, R) /\ SelLen(s, N) = len
  BY SelectionAnswers
<1>3. /\ len \in Nat /\ (\A i \in 1..len : seq[i] \in R)
      /\ (\A x \in R : \E i \in 1..len : x = seq[i])
  BY <1>2, ListFacts
<1>4. Lists(local, keep)
  <2>1. Lists(Run(0, len), Interval(0, len))
    BY <1>3, RunLists
  <2>2. Interval(0, len) \cap keep = keep
    OBVIOUS
  <2> HIDE DEF keep, len
  <2>3. Lists(local, Interval(0, len) \cap keep)
    BY <2>1, FilteredLists
  <2> QED BY <2>2, <2>3
<1>5. Lists(out, {seq[k + 1] : k \in keep})
  <2>1. keep \subseteq Interval(0, Len(seq))
    OBVIOUS
  <2> HIDE DEF keep, local, seq, len
  <2>2. Lists(out, {seq[k + 1] : k \in keep})
    BY <1>2, <1>4, <2>1, MappedLists
  <2> QED BY <2>2
<1>6. \A i \in 1..len : i - 1 \in Interval(0, len) /\ (i - 1) + 1 = i
  <2> HIDE DEF len
  <2> QED BY <1>3 DEF Interval
<1>7. \A i \in Interval(0, len) : i + 1 \in 1..len /\ i \in Nat
  <2> HIDE DEF len
  <2> QED BY <1>3 DEF Interval
<1>8. {seq[k + 1] : k \in keep} = R \cap K
  <2>1. \A k \in keep : seq[k + 1] \in R \cap K
    <3> HIDE DEF len, seq
    <3> QED BY <1>3, <1>7
  <2>2. ASSUME NEW x \in R \cap K PROVE \E k \in keep : x = seq[k + 1]
    <3> HIDE DEF len, seq
    <3>1. PICK i \in 1..len : x = seq[i]
      BY <1>3
    <3>2. i - 1 \in keep /\ seq[(i - 1) + 1] = x
      BY <1>6, <3>1
    <3> QED BY <3>2
  <2> HIDE DEF keep, seq
  <2> QED BY <2>1, <2>2
<1>9. Lists(out, R \cap K)
  <2> HIDE DEF out, keep, seq
  <2> QED BY <1>5, <1>8
<1> SUFFICES Selects(Refine(s, keep, len), R \cap K)
  BY <1>2
<1>10. CASE keep = 0..(len - 1)
  <2>1. Refine(s, keep, len) = s
    BY <1>10 DEF Refine
  <2>2. ASSUME NEW x \in R PROVE x \in K
    <3>1. PICK i \in 1..len : x = seq[i]
      BY <1>3
    <3>2. i - 1 \in 0..(len - 1)
      BY <1>3
    <3>3. i - 1 \in keep
      BY <1>10, <3>2
    <3> HIDE DEF seq, len
    <3>4. seq[(i - 1) + 1] \in K
      BY <3>3
    <3> QED BY <1>6, <3>1, <3>4
  <2>3. R \cap K = R
    BY <2>2
  <2> HIDE DEF keep, len
  <2> QED BY <2>1, <2>3
<1>11. CASE keep # 0..(len - 1) /\ keep = {}
  <2>1. Refine(s, keep, len) = Empty
    BY <1>11 DEF Refine
  <2>2. R \cap K = {}
    <3> HIDE DEF keep
    <3> QED BY <1>8, <1>11
  <2> HIDE DEF keep, len
  <2> QED BY <2>1, <2>2, SelectsEmpty
<1>12. CASE keep # 0..(len - 1) /\ keep # {}
  <2> DEFINE At(i) == CASE s.kind = "all"   -> local[i]
                        [] s.kind = "range" -> s.start + local[i]
                        [] s.kind = "ids"   -> s.ids[local[i] + 1]
             got == [i \in DOMAIN local |-> At(i)]
  <2>1. Refine(s, keep, len) = Ids(got)
    <3> HIDE DEF keep, len
    <3> QED BY <1>12 DEF Refine
  <2>2. /\ DOMAIN local = 1..Len(local) /\ Len(local) \in Nat
        /\ \A i \in 1..Len(local) : local[i] \in keep /\ local[i] \in Nat
    <3> HIDE DEF local, keep
    <3> QED BY <1>4, ListFacts
  <2>3. ASSUME NEW i \in 1..Len(local) PROVE At(i) = seq[local[i] + 1]
    <3> DEFINE k == local[i]
    <3>1. k \in Nat /\ k + 1 \in 1..len
      <4>1. k \in keep
        BY <2>2
      <4>2. k \in Interval(0, len)
        <5> HIDE DEF k
        <5> QED BY <4>1
      <4> HIDE DEF k, len
      <4> QED BY <1>7, <4>2
    <3> HIDE DEF k
    <3>2. CASE s.kind = "all" /\ s = All /\ R = Rows
      <4>1. seq = Run(0, N) /\ At(i) = k
        BY <3>2 DEF AsRows, k
      <4>2. len = Minus(N, 0) /\ \A j \in 1..Minus(N, 0) : Run(0, N)[j] = 0 + j - 1
        BY <4>1, LengthAssumption, RunLists
      <4>3. seq[k + 1] = 0 + (k + 1) - 1
        <5> HIDE DEF seq, len
        <5> QED BY <3>1, <4>1, <4>2
      <4>4. 0 + (k + 1) - 1 = k
        BY <3>1
      <4> HIDE DEF seq, At
      <4> QED BY <4>1, <4>3, <4>4 DEF k
    <3>3. CASE /\ s.kind = "range" /\ s = RangeOf(s.start, s.end)
               /\ s.start \in Nat /\ s.end \in Nat /\ s.start <= s.end /\ s.end <= N
               /\ R = Interval(s.start, s.end)
      <4> DEFINE c == s.start
                 d == s.end
      <4>1. Clamped(s, N).start = c /\ Clamped(s, N).end = d /\ c \in Nat /\ d \in Nat
        BY <3>3, ClampedEnds
      <4>2. seq = Run(c, d) /\ At(i) = c + k
        BY <3>3, <4>1 DEF AsRows, k
      <4> HIDE DEF c, d, At
      <4>3. len = Minus(d, c) /\ \A j \in 1..Minus(d, c) : Run(c, d)[j] = c + j - 1
        <5>1. Len(Run(c, d)) = Minus(d, c) /\ \A j \in 1..Minus(d, c) : Run(c, d)[j] = c + j - 1
          BY <4>1, RunLists
        <5> QED BY <4>2, <5>1
      <4>4. seq[k + 1] = c + (k + 1) - 1
        <5> HIDE DEF seq, len
        <5> QED BY <3>1, <4>2, <4>3
      <4>5. c + (k + 1) - 1 = c + k
        BY <3>1, <4>1
      <4> HIDE DEF seq
      <4> QED BY <4>2, <4>4, <4>5 DEF k
    <3>4. CASE s.kind = "ids" /\ s = Ids(s.ids) /\ Lists(s.ids, R)
      BY <3>4 DEF AsRows
    <3> HIDE DEF At, seq
    <3> QED BY <3>2, <3>3, <3>4, Shapes
  <2>4. got = out
    <3> HIDE DEF At, local, seq
    <3> QED BY <2>2, <2>3
  <2>5. Selects(Ids(out), R \cap K)
    <3> HIDE DEF out
    <3> QED BY <1>1, <1>9, SelectsIds
  <2> HIDE DEF got, out, keep, len
  <2> QED BY <2>1, <2>4, <2>5
<1> HIDE DEF keep, len
<1> QED BY <1>10, <1>11, <1>12

(* A list as long as the distance of its ends is a run.                    *)
LEMMA ContiguousRun ==
  ASSUME NEW ids, NEW R, Lists(ids, R), ids # <<>>, ids[Len(ids)] - ids[1] + 1 = Len(ids)
  PROVE  R = Interval(ids[1], ids[Len(ids)] + 1)
<1> DEFINE n == Len(ids)
           a == ids[1]
           z == ids[n]
<1>1. ids \in Seq(Nat) /\ IsAscending(ids)
  BY DEF Lists
<1>2. /\ n \in Nat /\ (\A i \in 1..n : ids[i] \in R /\ ids[i] \in Nat)
      /\ (\A x \in R : \E i \in 1..n : x = ids[i])
  BY ListFacts
<1>3. \A i, j \in 1..n : i <= j => ids[i] + (j - i) <= ids[j]
  BY <1>1, Apart
<1>4. n >= 1 /\ z - a + 1 = n
  BY <1>1
<1> HIDE DEF n
<1>5. 1 \in 1..n /\ n \in 1..n
  BY <1>2, <1>4
<1>6. a \in Nat /\ z \in Nat
  BY <1>2, <1>5
<1> HIDE DEF a, z
<1>7. ASSUME NEW i \in 1..n PROVE ids[i] = a + i - 1
  <2>1. a + (i - 1) <= ids[i] /\ ids[i] + (n - i) <= z /\ ids[i] \in Nat
    BY <1>2, <1>3, <1>5 DEF a, z
  <2>2. \A x \in Nat : a + (i - 1) <= x /\ x + (n - i) <= z => x = a + i - 1
    BY <1>2, <1>4, <1>6
  <2> QED BY <2>1, <2>2, Zenon
<1>8. ASSUME NEW x \in R PROVE x \in Interval(a, z + 1)
  <2>1. PICK i \in 1..n : x = a + i - 1
    BY <1>2, <1>7
  <2> QED BY <1>2, <1>4, <1>6, <2>1 DEF Interval
<1>9. ASSUME NEW x \in Interval(a, z + 1) PROVE x \in R
  <2>1. x - a + 1 \in 1..n /\ a + (x - a + 1) - 1 = x
    BY <1>2, <1>4, <1>6 DEF Interval
  <2>2. ids[x - a + 1] = x
    BY <1>7, <2>1
  <2> QED BY <1>2, <2>1, <2>2
<1>10. R = Interval(a, z + 1)
  BY <1>8, <1>9
<1> QED BY <1>10 DEF a, z, n

(* What narrow_to_ids leaves of the rows found in K.                       *)
LEMMA NarrowToIdsSelects ==
  ASSUME NEW s, NEW R, Selects(s, R), NEW K
  PROVE  Selects(NarrowToIds(s, FilterRows(s, N, K), SelLen(s, N)), R \cap K)
<1> DEFINE ids == FilterRows(s, N, K)
           seq == AsRows(s, N)
           n == Len(ids)
           C == R \cap K
<1>1. C \subseteq Rows
  BY Shapes
<1>2. Lists(seq, R) /\ SelLen(s, N) = Len(seq)
  BY SelectionAnswers
<1>3. Lists(ids, C)
  <2>1. ids = Filtered(seq, K)
    BY DEF FilterRows
  <2> HIDE DEF ids, seq
  <2> QED BY <1>2, <2>1, FilteredLists
<1> HIDE DEF ids, seq, C
<1> SUFFICES Selects(NarrowToIds(s, ids, Len(seq)), C)
  BY <1>2 DEF C, ids
<1>4. CASE ids = <<>>
  <2>1. NarrowToIds(s, ids, Len(seq)) = Empty
    BY <1>4 DEF NarrowToIds
  <2>2. C = {}
    BY <1>3, <1>4 DEF Lists, Members
  <2> QED BY <2>1, <2>2, SelectsEmpty
<1>5. CASE ids # <<>> /\ n = Len(seq)
  <2>1. NarrowToIds(s, ids, Len(seq)) = s
    BY <1>5 DEF NarrowToIds
  <2>2. IsFiniteSet(R) /\ Cardinality(R) = Len(seq) /\ Cardinality(C) = n
    BY <1>2, <1>3, ListSize
  <2>3. C \subseteq R
    BY DEF C
  <2>4. C = R
    BY <1>5, <2>2, <2>3, FS_Subset
  <2> QED BY <2>1, <2>4
<1>6. CASE ids # <<>> /\ n # Len(seq)
  <2> DEFINE first == ids[1]
             last == ids[n]
  <2>1. CASE s.kind # "ids" /\ last - first + 1 = n
    <3>1. NarrowToIds(s, ids, Len(seq)) = RangeOf(first, last + 1)
      BY <1>6, <2>1 DEF NarrowToIds
    <3>2. C = Interval(first, last + 1)
      BY <1>3, <1>6, <2>1, ContiguousRun
    <3>3. ids \in Seq(Nat)
      BY <1>3 DEF Lists
    <3>4. n \in Nat /\ 1 \in 1..n /\ n \in 1..n
      BY <1>6, <3>3
    <3>5. first \in Nat /\ last \in Nat /\ last \in Rows /\ (1 < n => first < last)
      BY <1>1, <1>3, <3>4, ListFacts
    <3> HIDE DEF n
    <3>6. first <= last + 1 /\ last + 1 <= N
      <4> HIDE DEF first, last
      <4> QED BY <2>1, <3>4, <3>5, LengthAssumption DEF Rows, Interval
    <3> HIDE DEF first, last
    <3> QED BY <3>1, <3>2, <3>5, <3>6, SelectsRange
  <2>2. CASE ~(s.kind # "ids" /\ last - first + 1 = n)
    <3>1. NarrowToIds(s, ids, Len(seq)) = Ids(ids)
      BY <1>6, <2>2 DEF NarrowToIds
    <3> QED BY <1>1, <1>3, <3>1, SelectsIds
  <2> QED BY <2>1, <2>2
<1> QED BY <1>4, <1>5, <1>6

(* One window of WindowsOf.                                                *)
WindowStep(ids, run, m) ==
  LET lo == m.from + Below(Sublist(ids, m.from, Len(ids)), run[1])
      hi == lo + Below(Sublist(ids, lo, Len(ids)), run[2])
  IN [from |-> hi, out |-> m.out \o Sublist(ids, lo, hi)]

(* The windows under two runs are the second step's after the first's.     *)
LEMMA TwoWindows ==
  ASSUME NEW ids, NEW p, NEW q
  PROVE  WindowsOf(ids, <<p, q>>) =
           WindowStep(ids, q, WindowStep(ids, p, [from |-> 0, out |-> <<>>])).out
<1> DEFINE runs == <<p, q>>
           s0 == [from |-> 0, out |-> <<>>]
           s1 == WindowStep(ids, p, s0)
           s2 == WindowStep(ids, q, s1)
           Is(g) == g = [k \in 0..Len(runs) |->
                           IF k = 0 THEN s0 ELSE WindowStep(ids, runs[k], g[k - 1])]
           f == CHOOSE g : Is(g)
           w == [k \in 0..2 |-> IF k = 0 THEN s0 ELSE IF k = 1 THEN s1 ELSE s2]
<1>1. WindowsOf(ids, runs) = f[Len(runs)].out
  BY DEF WindowsOf, WindowStep
<1>2. Len(runs) = 2 /\ runs[1] = p /\ runs[2] = q
  OBVIOUS
<1> HIDE DEF runs, s0
<1>3. \A k \in 0..2 : k = 0 \/ k = 1 \/ k = 2
  OBVIOUS
<1>4. Is(w)
  <2>1. w[0] = s0 /\ w[1] = s1 /\ w[2] = s2
    OBVIOUS
  <2>2. w = [k \in 0..2 |-> w[k]]
    OBVIOUS
  <2> HIDE DEF w, s1, s2
  <2>3. \A k \in 0..2 : w[k] = IF k = 0 THEN s0 ELSE WindowStep(ids, runs[k], w[k - 1])
    <3> TAKE k \in 0..2
    <3>1. 1 - 1 = 0 /\ 2 - 1 = 1 /\ 0 # 1 /\ 0 # 2
      OBVIOUS
    <3> QED BY <1>2, <1>3, <2>1, <3>1 DEF s1, s2
  <2> QED BY <1>2, <2>2, <2>3
<1>5. Is(f)
  <2> HIDE DEF Is, w
  <2> QED BY <1>4
<1> HIDE DEF f
<1>6. f[0] = s0 /\ f[1] = WindowStep(ids, runs[1], f[1 - 1]) /\ f[2] = WindowStep(ids, runs[2], f[2 - 1])
  BY <1>2, <1>5
<1>7. f[1] = s1 /\ f[2] = s2
  <2>1. 1 - 1 = 0 /\ 2 - 1 = 1
    OBVIOUS
  <2> QED BY <1>2, <1>6, <2>1
<1> HIDE DEF s2
<1>8. WindowsOf(ids, runs) = s2.out
  BY <1>1, <1>2, <1>7
<1> QED BY <1>8 DEF runs, s2, s1, s0

(* The rows of two runs are the second's after the first's.                *)
LEMMA TwoFlat ==
  ASSUME NEW p, NEW q
  PROVE  Flat(<<p, q>>) = (<<>> \o Run(p[1], p[2])) \o Run(q[1], q[2])
<1> DEFINE runs == <<p, q>>
           s1 == <<>> \o Run(p[1], p[2])
           s2 == s1 \o Run(q[1], q[2])
           Is(g) == g = [k \in 0..Len(runs) |->
                           IF k = 0 THEN <<>> ELSE g[k - 1] \o Run(runs[k][1], runs[k][2])]
           f == CHOOSE g : Is(g)
           w == [k \in 0..2 |-> IF k = 0 THEN <<>> ELSE IF k = 1 THEN s1 ELSE s2]
<1>1. Flat(runs) = f[Len(runs)]
  BY DEF Flat
<1>2. Len(runs) = 2 /\ runs[1] = p /\ runs[2] = q
  OBVIOUS
<1> HIDE DEF runs
<1>3. \A k \in 0..2 : k = 0 \/ k = 1 \/ k = 2
  OBVIOUS
<1>4. Is(w)
  <2> HIDE DEF s1, s2
  <2>1. w[0] = <<>> /\ w[1] = s1 /\ w[2] = s2
    OBVIOUS
  <2>2. w = [k \in 0..2 |-> w[k]]
    OBVIOUS
  <2> HIDE DEF w
  <2>3. w[1] = w[0] \o Run(runs[1][1], runs[1][2]) /\ w[2] = w[1] \o Run(runs[2][1], runs[2][2])
    BY <1>2, <2>1, Zenon DEF s1, s2
  <2>4. \A k \in 0..2 : w[k] = IF k = 0 THEN <<>> ELSE w[k - 1] \o Run(runs[k][1], runs[k][2])
    <3> TAKE k \in 0..2
    <3>1. 1 - 1 = 0 /\ 2 - 1 = 1 /\ 0 # 1 /\ 0 # 2
      OBVIOUS
    <3>2. CASE k = 0
      BY <2>1, <3>2, Zenon
    <3>3. CASE k = 1
      BY <2>3, <3>1, <3>3, Zenon
    <3>4. CASE k = 2
      BY <2>3, <3>1, <3>4, Zenon
    <3> QED BY <1>3, <3>2, <3>3, <3>4
  <2> QED BY <1>2, <2>2, <2>4, Zenon
<1>5. Is(f)
  <2> HIDE DEF Is, w
  <2> QED BY <1>4
<1> HIDE DEF f
<1>6. ASSUME NEW k \in 0..2 PROVE f[k] = IF k = 0 THEN <<>> ELSE f[k - 1] \o Run(runs[k][1], runs[k][2])
  BY <1>2, <1>5, Zenon
<1>7. f[0] = <<>> /\ f[1] = f[0] \o Run(runs[1][1], runs[1][2]) /\ f[2] = f[1] \o Run(runs[2][1], runs[2][2])
  <2>1. 1 - 1 = 0 /\ 2 - 1 = 1 /\ 1 # 0 /\ 2 # 0 /\ 0 \in 0..2 /\ 1 \in 0..2 /\ 2 \in 0..2
    OBVIOUS
  <2> QED BY <1>6, <2>1, Zenon
<1>8. Flat(runs) = s2
  BY <1>1, <1>2, <1>7, Zenon
<1> QED BY <1>8 DEF runs

(* A window of a list: the ids of a run, all past from.                    *)
LEMMA WindowStepLists ==
  ASSUME NEW ids, NEW R, Lists(ids, R), NEW a \in Nat, NEW b \in Nat, a <= b,
         NEW m, m.from \in 0..Len(ids), \A i \in 1..(m.from) : ids[i] < a,
         NEW D, Lists(m.out, D), \A x \in D : x < a,
         NEW o, o = WindowStep(ids, <<a, b>>, m)
  PROVE  /\ o.from \in 0..Len(ids) /\ (\A i \in 1..(o.from) : ids[i] < b)
         /\ Lists(o.out, D \cup (R \cap Interval(a, b)))
<1> DEFINE n == Len(ids)
           from == m.from
           lo == from + Below(Sublist(ids, from, n), a)
           hi == lo + Below(Sublist(ids, lo, n), b)
           E == R \cap Interval(a, b)
<1>1. /\ n \in Nat /\ (\A i \in 1..n : ids[i] \in R /\ ids[i] \in Nat)
      /\ (\A x \in R : \E i \in 1..n : x = ids[i])
  BY ListFacts
<1>2. o.from = hi /\ o.out = m.out \o Sublist(ids, lo, hi)
  BY DEF WindowStep
<1>3. from \in 0..n /\ \A i \in 1..from : ids[i] < a
  OBVIOUS
<1> HIDE DEF from
<1>4. lo \in from..n /\ \A i \in (from + 1)..n : ids[i] < a <=> i <= lo
  <2>1. lo = SearchFrom(ids, from, a)
    BY DEF SearchFrom
  <2> HIDE DEF lo
  <2> QED BY <1>3, <2>1, SearchOn
<1>5. lo \in 0..n
  <2> HIDE DEF lo, n
  <2> QED BY <1>1, <1>3, <1>4
<1> HIDE DEF lo
<1>6. hi \in lo..n /\ \A i \in (lo + 1)..n : ids[i] < b <=> i <= hi
  <2>1. hi = SearchFrom(ids, lo, b)
    BY DEF SearchFrom
  <2> HIDE DEF hi
  <2> QED BY <1>5, <2>1, SearchOn
<1> HIDE DEF hi, n
<1>7. \A i \in 1..n : ids[i] < a <=> i <= lo
  <2> TAKE i \in 1..n
  <2>1. CASE i <= from
    <3>1. i \in 1..from /\ i <= lo
      BY <1>1, <1>3, <1>4, <2>1
    <3> QED BY <1>3, <3>1
  <2>2. CASE ~(i <= from)
    <3>1. i \in (from + 1)..n
      BY <1>1, <1>3, <2>2
    <3> QED BY <1>4, <3>1
  <2> QED BY <2>1, <2>2
<1>8. \A i \in 1..n : ids[i] < b <=> i <= hi
  <2> TAKE i \in 1..n
  <2>1. CASE i <= lo
    <3>1. ids[i] < a /\ i <= hi /\ ids[i] \in Nat
      BY <1>1, <1>5, <1>6, <1>7, <2>1
    <3>2. ids[i] < b
      BY <3>1
    <3> QED BY <3>1, <3>2
  <2>2. CASE ~(i <= lo)
    <3>1. i \in (lo + 1)..n
      BY <1>1, <1>5, <2>2
    <3> QED BY <1>6, <3>1
  <2> QED BY <2>1, <2>2
<1>9. hi \in 0..n /\ \A i \in 1..hi : i \in 1..n /\ i <= hi
  BY <1>1, <1>5, <1>6
<1>10. Lists(Sublist(ids, lo, hi), {ids[i] : i \in (lo + 1)..hi})
  BY <1>5, <1>6, SliceFacts DEF n
<1>11. {ids[i] : i \in (lo + 1)..hi} = E
  <2>1. ASSUME NEW i \in (lo + 1)..hi PROVE ids[i] \in E
    <3>1. i \in 1..n /\ ~(i <= lo) /\ i <= hi
      BY <1>1, <1>5, <1>9
    <3>2. ids[i] \in R /\ ids[i] \in Nat /\ ~(ids[i] < a) /\ ids[i] < b
      BY <1>1, <1>7, <1>8, <3>1
    <3> QED BY <3>2 DEF Interval
  <2>2. ASSUME NEW x \in E PROVE \E i \in (lo + 1)..hi : x = ids[i]
    <3>1. PICK i \in 1..n : x = ids[i]
      BY <1>1
    <3>2. ~(x < a) /\ x < b
      BY DEF Interval
    <3>3. ~(i <= lo) /\ i <= hi
      BY <1>7, <1>8, <3>1, <3>2
    <3>4. i \in (lo + 1)..hi
      BY <1>1, <1>5, <1>9, <3>3
    <3> QED BY <3>1, <3>4
  <2> QED BY <2>1, <2>2
<1>12. \A x \in D, y \in E : x < y
  <2> TAKE x \in D, y \in E
  <2>1. x \in Nat
    BY ListFacts
  <2>2. x < a /\ y \in Nat /\ a <= y
    BY DEF Interval
  <2> QED BY <2>1, <2>2
<1> HIDE DEF E
<1>13. Lists(Sublist(ids, lo, hi), E)
  BY <1>10, <1>11
<1>14. Lists(m.out \o Sublist(ids, lo, hi), D \cup E)
  BY <1>12, <1>13, ConcatLists
<1>15. \A i \in 1..hi : ids[i] < b
  BY <1>8, <1>9
<1> QED BY <1>2, <1>9, <1>14, <1>15 DEF n, E

(* The windows of a list under two runs list the rows of both.             *)
LEMMA WindowsList ==
  ASSUME NEW ids, NEW R, Lists(ids, R), NEW a \in Nat, NEW b \in Nat, NEW c \in Nat, NEW d \in Nat,
         a <= b, b <= c, c <= d
  PROVE  Lists(WindowsOf(ids, <<<<a, b>>, <<c, d>>>>), R \cap (Interval(a, b) \cup Interval(c, d)))
<1> DEFINE s0 == [from |-> 0, out |-> <<>>]
           s1 == WindowStep(ids, <<a, b>>, s0)
           s2 == WindowStep(ids, <<c, d>>, s1)
           D == {} \cup (R \cap Interval(a, b))
<1>1. s0.from = 0 /\ s0.out = <<>> /\ Len(ids) \in Nat
  BY ListFacts
<1>2. s0.from \in 0..Len(ids) /\ (\A i \in 1..(s0.from) : ids[i] < a) /\ Lists(s0.out, {})
  BY <1>1, EmptyLists
<1> HIDE DEF s0
<1>3. /\ s1.from \in 0..Len(ids) /\ (\A i \in 1..(s1.from) : ids[i] < b)
      /\ Lists(s1.out, D)
  <2> HIDE DEF s1
  <2> QED BY <1>2, WindowStepLists DEF s1
<1> HIDE DEF s1
<1>4. \A i \in 1..(s1.from) : ids[i] < c
  <2> TAKE i \in 1..(s1.from)
  <2>1. ids[i] < b /\ i \in 1..Len(ids)
    BY <1>1, <1>3
  <2>2. ids[i] \in Nat
    BY <2>1, ListFacts
  <2> QED BY <2>1, <2>2
<1>5. \A x \in D : x < c
  BY DEF Interval
<1> HIDE DEF D
<1>6. Lists(s2.out, D \cup (R \cap Interval(c, d)))
  <2> HIDE DEF s2
  <2> QED BY <1>3, <1>4, <1>5, WindowStepLists DEF s2
<1>7. WindowsOf(ids, <<<<a, b>>, <<c, d>>>>) = s2.out
  BY TwoWindows DEF s0, s1
<1>8. D \cup (R \cap Interval(c, d)) = R \cap (Interval(a, b) \cup Interval(c, d))
  BY DEF D
<1> QED BY <1>6, <1>7, <1>8

(* A filter of two.                                                        *)
LEMMA TwoFiltered ==
  ASSUME NEW x, NEW y, NEW S
  PROVE  Filtered(<<x, y>>, S) = IF x \in S THEN (IF y \in S THEN <<x, y>> ELSE <<x>>)
                                 ELSE (IF y \in S THEN <<y>> ELSE <<>>)
<1> DEFINE seq == <<x, y>>
<1>1. seq \in Seq({x, y}) /\ Len(seq) = 2 /\ seq[1] = x /\ seq[2] = y
  OBVIOUS
<1> HIDE DEF seq
<1>2. PICK f : IsFilter(f, seq, S) /\ Filtered(seq, S) = f[Len(seq)]
  BY <1>1, FilterRuns
<1>3. /\ f[0] = <<>>
      /\ \A k \in 1..2 : f[k] = IF seq[k] \in S THEN Append(f[k - 1], seq[k]) ELSE f[k - 1]
  BY <1>1, <1>2 DEF IsFilter
<1>4. 1 \in 1..2 /\ 2 \in 1..2 /\ 1 - 1 = 0 /\ 2 - 1 = 1
  OBVIOUS
<1>5. /\ f[1] = IF x \in S THEN Append(<<>>, x) ELSE <<>>
      /\ f[2] = IF y \in S THEN Append(f[1], y) ELSE f[1]
  BY <1>1, <1>3, <1>4, Zenon
<1>6. /\ Append(<<>>, x) = <<x>> /\ Append(<<>>, y) = <<y>> /\ Append(<<x>>, y) = <<x, y>>
  <2>1. Append(<<>>, x) = <<x>>
    OBVIOUS
  <2>2. Append(<<>>, y) = <<y>>
    OBVIOUS
  <2>3. Append(<<x>>, y) = <<x, y>>
    <3> DEFINE o == <<x>>
               w == Append(o, y)
               t == <<x, y>>
    <3>1. o \in Seq({x, y}) /\ Len(o) = 1 /\ o[1] = x
      OBVIOUS
    <3>2. t = [i \in 1..2 |-> t[i]] /\ t[1] = x /\ t[2] = y
      OBVIOUS
    <3> HIDE DEF o, t
    <3>3. w \in Seq({x, y}) /\ Len(w) = 2 /\ w[1] = x /\ w[2] = y
      <4> DEFINE X == {x, y}
      <4>1. o \in Seq(X) /\ y \in X
        BY <3>1
      <4> HIDE DEF X
      <4>2. /\ w \in Seq(X) /\ Len(w) = Len(o) + 1
            /\ (\A i \in 1..Len(o) : w[i] = o[i]) /\ w[Len(o) + 1] = y
        BY <4>1, AppendProperties
      <4>3. 1 + 1 = 2 /\ 1 \in 1..1
        OBVIOUS
      <4> HIDE DEF w
      <4> QED BY <3>1, <4>2, <4>3 DEF X
    <3> HIDE DEF w
    <3>4. w = [i \in 1..2 |-> w[i]] /\ w[1] = x /\ w[2] = y
      BY <3>1, <3>3
    <3>5. \A i \in 1..2 : w[i] = t[i]
      BY <3>2, <3>4
    <3>6. w = t
      BY <3>2, <3>4, <3>5
    <3> QED BY <3>6 DEF w, t, o
  <2> QED BY <2>1, <2>2, <2>3
<1>7. Filtered(seq, S) = f[2]
  BY <1>1, <1>2
<1>8. f[2] = IF x \in S THEN (IF y \in S THEN <<x, y>> ELSE <<x>>)
             ELSE (IF y \in S THEN <<y>> ELSE <<>>)
  BY <1>5, <1>6, Zenon
<1> QED BY <1>7, <1>8 DEF seq

(* The runs that are not empty.                                            *)
Kept(p, q) == Filtered(<<p, q>>, {run \in {p, q} : run[1] < run[2]})

(* What the runs left by a clip select.                                    *)
FromRuns(clipped) ==
  CASE Len(clipped) = 0 -> Empty
    [] Len(clipped) = 1 -> RangeOf(clipped[1][1], clipped[1][2])
    [] OTHER            -> Ids(Flat(clipped))

LEMMA KeptSelects ==
  ASSUME NEW a \in Nat, NEW b \in Nat, NEW c \in Nat, NEW d \in Nat,
         b <= N, d <= N, a < b /\ c < d => b <= c
  PROVE  Selects(FromRuns(Kept(<<a, b>>, <<c, d>>)), Interval(a, b) \cup Interval(c, d))
<1> DEFINE p == <<a, b>>
           q == <<c, d>>
           K == Kept(p, q)
           A == Interval(a, b)
           B == Interval(c, d)
           S == {run \in {p, q} : run[1] < run[2]}
<1>1. (p \in S <=> a < b) /\ (q \in S <=> c < d)
  OBVIOUS
<1>2. (~(a < b) => A = {}) /\ (~(c < d) => B = {})
  BY DEF Interval
<1>3. K = IF p \in S THEN (IF q \in S THEN <<p, q>> ELSE <<p>>) ELSE (IF q \in S THEN <<q>> ELSE <<>>)
  <2> HIDE DEF p, q
  <2> QED BY TwoFiltered DEF Kept
<1> HIDE DEF S, K
<1>4. CASE ~(a < b) /\ ~(c < d)
  <2>1. K = <<>>
    BY <1>1, <1>3, <1>4, Zenon
  <2>2. FromRuns(K) = Empty
    BY <2>1 DEF FromRuns
  <2>3. A \cup B = {}
    BY <1>2, <1>4
  <2> QED BY <2>2, <2>3, SelectsEmpty DEF K
<1>5. CASE a < b /\ ~(c < d)
  <2>1. K = <<p>>
    BY <1>1, <1>3, <1>5, Zenon
  <2>2. FromRuns(K) = RangeOf(a, b)
    BY <2>1 DEF FromRuns
  <2>3. A \cup B = A
    BY <1>2, <1>5
  <2>4. Selects(RangeOf(a, b), Interval(a, b))
    BY <1>5, SelectsRange
  <2> QED BY <2>2, <2>3, <2>4 DEF K
<1>6. CASE ~(a < b) /\ c < d
  <2>1. K = <<q>>
    BY <1>1, <1>3, <1>6, Zenon
  <2>2. FromRuns(K) = RangeOf(c, d)
    BY <2>1 DEF FromRuns
  <2>3. A \cup B = B
    BY <1>2, <1>6
  <2>4. Selects(RangeOf(c, d), Interval(c, d))
    BY <1>6, SelectsRange
  <2> QED BY <2>2, <2>3, <2>4 DEF K
<1>7. CASE a < b /\ c < d
  <2>1. K = <<p, q>>
    BY <1>1, <1>3, <1>7, Zenon
  <2>2. FromRuns(K) = Ids(Flat(K))
    BY <2>1 DEF FromRuns
  <2>3. Flat(K) = (<<>> \o Run(a, b)) \o Run(c, d)
    <3>1. Flat(<<p, q>>) = (<<>> \o Run(p[1], p[2])) \o Run(q[1], q[2])
      <4> HIDE DEF p, q
      <4> QED BY TwoFlat
    <3> QED BY <2>1, <3>1
  <2>4. Lists(Run(a, b), A) /\ Lists(Run(c, d), B)
    BY RunLists
  <2>5. \A x \in A, y \in B : x < y
    BY <1>7 DEF Interval
  <2>6. Lists(<<>> \o Run(a, b), {} \cup A)
    <3>1. \A x \in {}, y \in A : x < y
      OBVIOUS
    <3> HIDE DEF A
    <3> QED BY <2>4, <3>1, EmptyLists, ConcatLists
  <2>7. {} \cup A = A
    OBVIOUS
  <2>8. Lists((<<>> \o Run(a, b)) \o Run(c, d), A \cup B)
    <3> HIDE DEF A, B
    <3> QED BY <2>4, <2>5, <2>6, <2>7, ConcatLists
  <2>9. A \cup B \subseteq Rows
    BY LengthAssumption DEF Interval, Rows
  <2> HIDE DEF A, B
  <2>10. Selects(Ids(Flat(K)), A \cup B)
    BY <2>3, <2>8, <2>9, SelectsIds
  <2> QED BY <2>2, <2>10 DEF K, A, B
<1> QED BY <1>4, <1>5, <1>6, <1>7

(* What intersect_runs leaves of two runs.                                 *)
LEMMA IntersectRunsSelects ==
  ASSUME NEW s, NEW R, Selects(s, R), NEW a \in Nat, NEW b \in Nat, NEW c \in Nat, NEW d \in Nat,
         a <= b, b <= c, c <= d, d <= N
  PROVE  Selects(IntersectRuns(s, <<<<a, b>>, <<c, d>>>>), R \cap (Interval(a, b) \cup Interval(c, d)))
<1> DEFINE p == <<a, b>>
           q == <<c, d>>
           runs == <<p, q>>
           U == Interval(a, b) \cup Interval(c, d)
           Clip(run) == IF s.kind = "all" THEN run
                        ELSE <<Greatest(run[1], s.start), Least(run[2], s.end)>>
           clipped == [i \in DOMAIN runs |-> Clip(runs[i])]
<1>1. R \subseteq Rows /\ N \in Nat /\ R \cap U \subseteq Rows /\ b <= N
  BY Shapes, LengthAssumption
<1>2. CASE s.kind = "ids" /\ s = Ids(s.ids) /\ Lists(s.ids, R)
  <2>1. IntersectRuns(s, runs) = FromIds(WindowsOf(s.ids, runs))
    BY <1>2 DEF IntersectRuns
  <2>2. Lists(WindowsOf(s.ids, runs), R \cap U)
    BY <1>2, WindowsList
  <2> HIDE DEF U, runs
  <2>3. Selects(IntersectRuns(s, runs), R \cap U)
    BY <1>1, <2>1, <2>2, SelectsFromIds
  <2> QED BY <2>3 DEF U, runs
<1>3. ASSUME s.kind # "ids"
      PROVE  IntersectRuns(s, runs) = FromRuns(Kept(Clip(p), Clip(q)))
  <2> DEFINE x == Clip(p)
             y == Clip(q)
  <2>1. clipped = <<x, y>>
    <3>1. DOMAIN runs = 1..2 /\ runs[1] = p /\ runs[2] = q
      OBVIOUS
    <3> HIDE DEF runs, Clip, p, q
    <3> QED BY <3>1
  <2>2. ClipRuns(s, runs) = Filtered(clipped, {run \in Members(clipped) : run[1] < run[2]})
    <3> HIDE DEF runs
    <3> QED BY DEF ClipRuns
  <2> HIDE DEF clipped, x, y
  <2>3. Members(<<x, y>>) = {x, y}
    BY DEF Members
  <2>4. ClipRuns(s, runs) = Kept(x, y)
    BY <2>1, <2>2, <2>3 DEF Kept
  <2> HIDE DEF runs
  <2>5. IntersectRuns(s, runs) = FromRuns(ClipRuns(s, runs))
    BY <1>3 DEF IntersectRuns, FromRuns
  <2> QED BY <2>4, <2>5 DEF x, y
<1>4. CASE s.kind = "all" /\ s = All /\ R = Rows
  <2>1. Clip(p) = p /\ Clip(q) = q
    BY <1>4
  <2>2. IntersectRuns(s, runs) = FromRuns(Kept(p, q))
    <3> HIDE DEF Clip, p, q, runs
    <3> QED BY <1>3, <1>4, <2>1
  <2>3. R \cap U = U
    BY <1>1, <1>4 DEF Rows, Interval
  <2>4. Selects(FromRuns(Kept(p, q)), U)
    BY <1>1, KeptSelects
  <2> QED BY <2>2, <2>3, <2>4
<1>5. CASE /\ s.kind = "range" /\ s = RangeOf(s.start, s.end)
           /\ s.start \in Nat /\ s.end \in Nat /\ s.start <= s.end /\ s.end <= N
           /\ R = Interval(s.start, s.end)
  <2> DEFINE u == s.start
             v == s.end
             a1 == Greatest(a, u)
             b1 == Least(b, v)
             c1 == Greatest(c, u)
             d1 == Least(d, v)
  <2>1. u \in Nat /\ v \in Nat /\ u <= v /\ v <= N /\ R = Interval(u, v)
    BY <1>5
  <2>2. Clip(p) = <<a1, b1>> /\ Clip(q) = <<c1, d1>>
    BY <1>5
  <2> HIDE DEF u, v
  <2>3. IntersectRuns(s, runs) = FromRuns(Kept(<<a1, b1>>, <<c1, d1>>))
    <3> HIDE DEF Clip, runs, a1, b1, c1, d1
    <3> QED BY <1>3, <1>5, <2>2
  <2>4. a1 \in Nat /\ b1 \in Nat /\ c1 \in Nat /\ d1 \in Nat /\ b1 <= N /\ d1 <= N
    BY <1>1, <2>1 DEF Greatest, Least
  <2>5. b1 <= c1
    BY <1>1, <2>1 DEF Greatest, Least
  <2>6. Interval(u, v) \cap U = Interval(a1, b1) \cup Interval(c1, d1)
    <3>1. \A x \in Nat : x \in Interval(u, v) \cap U <=> x \in Interval(a1, b1) \cup Interval(c1, d1)
      BY <2>1, <2>4 DEF Greatest, Least, Interval
    <3>2. Interval(u, v) \subseteq Nat /\ Interval(a1, b1) \subseteq Nat /\ Interval(c1, d1) \subseteq Nat
      <4> HIDE DEF a1, b1, c1, d1
      <4> QED BY <2>1, <2>4 DEF Interval
    <3> HIDE DEF U, a1, b1, c1, d1
    <3> QED BY <3>1, <3>2
  <2> HIDE DEF a1, b1, c1, d1
  <2>7. Selects(FromRuns(Kept(<<a1, b1>>, <<c1, d1>>)), Interval(a1, b1) \cup Interval(c1, d1))
    BY <2>4, <2>5, KeptSelects
  <2> HIDE DEF U, runs
  <2>8. Selects(IntersectRuns(s, runs), R \cap U)
    BY <2>1, <2>3, <2>6, <2>7
  <2> QED BY <2>8 DEF U, runs
<1> QED BY <1>2, <1>4, <1>5, Shapes

-----------------------------------------------------------------------------
(* Windows and splits                                                      *)

(* The first row of a selection that is not a list.                        *)
First(s) == IF s.kind = "all" THEN 0 ELSE Clamped(s, N).start

LEMMA RunOfShape ==
  ASSUME NEW s, NEW R, Selects(s, R), s.kind # "ids"
  PROVE  /\ First(s) \in Nat /\ First(s) + Len(AsRows(s, N)) <= N
         /\ \A i \in 1..Len(AsRows(s, N)) : AsRows(s, N)[i] = First(s) + i - 1
<1>1. N \in Nat
  BY LengthAssumption
<1>2. CASE s.kind = "all" /\ s = All /\ R = Rows
  <2>1. AsRows(s, N) = Run(0, N) /\ First(s) = 0
    BY <1>2 DEF AsRows, First
  <2>2. Len(Run(0, N)) = Minus(N, 0) /\ \A i \in 1..Minus(N, 0) : Run(0, N)[i] = 0 + i - 1
    BY <1>1, RunLists
  <2>3. Minus(N, 0) = N
    BY <1>1 DEF Minus
  <2>4. 0 \in Nat /\ 0 + N <= N
    BY <1>1
  <2> QED BY <2>1, <2>2, <2>3, <2>4
<1>3. CASE /\ s.kind = "range" /\ s = RangeOf(s.start, s.end)
           /\ s.start \in Nat /\ s.end \in Nat /\ s.start <= s.end /\ s.end <= N
           /\ R = Interval(s.start, s.end)
  <2> DEFINE u == s.start
             v == s.end
  <2>1. Clamped(s, N).start = u /\ Clamped(s, N).end = v
    BY <1>3, ClampedEnds
  <2>2. AsRows(s, N) = Run(u, v) /\ First(s) = u
    BY <1>3, <2>1 DEF AsRows, First
  <2>3. u \in Nat /\ v \in Nat /\ u <= v /\ v <= N
    BY <1>3
  <2> HIDE DEF u, v
  <2>4. Len(Run(u, v)) = Minus(v, u) /\ \A i \in 1..Minus(v, u) : Run(u, v)[i] = u + i - 1
    BY <2>3, RunLists
  <2>5. Minus(v, u) = v - u /\ u + (v - u) <= N
    BY <1>1, <2>3 DEF Minus
  <2> QED BY <2>2, <2>3, <2>4, <2>5
<1> QED BY <1>2, <1>3, Shapes

(* A slice of a run is a range.                                            *)
LEMMA SliceOfRun ==
  ASSUME NEW s, NEW R, Selects(s, R), s.kind # "ids",
         NEW a \in 0..Len(AsRows(s, N)), NEW b \in a..Len(AsRows(s, N))
  PROVE  /\ {AsRows(s, N)[i] : i \in (a + 1)..b} = Interval(First(s) + a, First(s) + b)
         /\ Selects(RangeOf(First(s) + a, First(s) + b), Interval(First(s) + a, First(s) + b))
<1> DEFINE seq == AsRows(s, N)
           n == Len(seq)
           e == First(s)
<1>1. Lists(seq, R)
  BY SelectionAnswers
<1>2. e \in Nat /\ e + n <= N /\ \A i \in 1..n : seq[i] = e + i - 1
  BY RunOfShape
<1>3. n \in Nat /\ N \in Nat /\ a \in 0..n /\ b \in a..n
  <2> HIDE DEF seq
  <2> QED BY <1>1, ListFacts, LengthAssumption DEF seq
<1> HIDE DEF seq, n, e
<1>4. \A i \in (a + 1)..b : i \in 1..n /\ seq[i] = e + i - 1
  BY <1>2, <1>3
<1>5. \A i \in (a + 1)..b : seq[i] \in Interval(e + a, e + b)
  BY <1>2, <1>3, <1>4 DEF Interval
<1>6. ASSUME NEW x \in Interval(e + a, e + b) PROVE \E i \in (a + 1)..b : x = seq[i]
  <2>1. x - e + 1 \in (a + 1)..b /\ e + (x - e + 1) - 1 = x
    BY <1>2, <1>3 DEF Interval
  <2> QED BY <1>4, <2>1
<1>7. {seq[i] : i \in (a + 1)..b} = Interval(e + a, e + b)
  BY <1>5, <1>6
<1>8. e + a \in Nat /\ e + b \in Nat /\ e + a <= e + b /\ e + b <= N
  BY <1>2, <1>3
<1>9. Selects(RangeOf(e + a, e + b), Interval(e + a, e + b))
  BY <1>8, SelectsRange
<1> QED BY <1>7, <1>9 DEF seq, e

(* The live rows of a selection.                                           *)
LEMMA LiveLists ==
  ASSUME NEW s, NEW R, Selects(s, R), NEW d
  PROVE  Lists(LiveRows(s, N, d), R \ d.rows)
<1>1. R \subseteq Rows
  BY Shapes
<1>2. Lists(AsRows(s, N), R)
  BY SelectionAnswers
<1>3. LiveRows(s, N, d) = Filtered(AsRows(s, N), Rows \ d.rows)
  BY DEF LiveRows, FilterRows, Rows
<1>4. R \cap (Rows \ d.rows) = R \ d.rows
  BY <1>1
<1>5. Lists(Filtered(AsRows(s, N), Rows \ d.rows), R \cap (Rows \ d.rows))
  BY <1>2, FilteredLists
<1> QED BY <1>3, <1>4, <1>5

(* What window leaves: the live rows whose place is in the window.         *)
LEMMA WindowSelects ==
  ASSUME NEW s, NEW R, Selects(s, R), NEW d, Tombstones(d), NEW offset \in Nat, NEW limit \in Nat
  PROVE  Selects(Window(s, offset, limit, d, N), Placed(R \ d.rows, offset, offset + limit))
<1> DEFINE seq == AsRows(s, N)
           live == LiveRows(s, N, d)
           to == offset + limit
           V == R \ d.rows
           U == Placed(V, offset, to)
           Cut1(w) == Sublist(w, Least(offset, Len(w)), Least(to, Len(w)))
           e == First(s)
           a == Least(offset, Len(seq))
           b == Least(to, Len(seq))
<1>1. Window(s, offset, limit, d, N) =
        IF d.some THEN FromIds(Cut1(live))
        ELSE IF s.kind = "ids" THEN FromIds(Cut1(seq))
        ELSE RangeOrEmpty(e + a, e + b)
  BY DEF Window, First
<1>2. R \subseteq Rows /\ U \subseteq Rows
  BY Shapes DEF Placed
<1>3. Lists(seq, R) /\ Lists(live, V)
  BY SelectionAnswers, LiveLists
<1>4. to \in Nat /\ offset <= to
  OBVIOUS
<1> HIDE DEF to, seq, live, V
<1>5. CASE d.some
  <2>1. Lists(Cut1(live), U)
    BY <1>3, <1>4, CutLists
  <2>2. Window(s, offset, limit, d, N) = FromIds(Cut1(live))
    BY <1>1, <1>5
  <2> HIDE DEF U, Cut1
  <2>3. Selects(Window(s, offset, limit, d, N), U)
    BY <1>2, <2>1, <2>2, SelectsFromIds
  <2> QED BY <2>3 DEF U, V, to
<1>6. CASE ~d.some
  <2>1. V = R
    BY <1>6 DEF Tombstones, V
  <2>2. CASE s.kind = "ids"
    <3>1. Lists(Cut1(seq), U)
      BY <1>3, <1>4, <2>1, CutLists
    <3>2. Window(s, offset, limit, d, N) = FromIds(Cut1(seq))
      BY <1>1, <1>6, <2>2
    <3> HIDE DEF U, Cut1
    <3>3. Selects(Window(s, offset, limit, d, N), U)
      BY <1>2, <3>1, <3>2, SelectsFromIds
    <3> QED BY <3>3 DEF U, V, to
  <2>3. CASE s.kind # "ids"
    <3>1. a \in 0..Len(seq) /\ b \in a..Len(seq) /\ Entries(seq, a, b) = U
      BY <1>3, <1>4, <2>1, CutByPlace
    <3> HIDE DEF a, b, U, e
    <3>2. /\ Entries(seq, a, b) = Interval(e + a, e + b)
          /\ Selects(RangeOf(e + a, e + b), Interval(e + a, e + b))
      BY <2>3, <3>1, SliceOfRun DEF seq, e, Entries
    <3>3. Window(s, offset, limit, d, N) = RangeOrEmpty(e + a, e + b)
      BY <1>1, <1>6, <2>3
    <3>4. Selects(RangeOrEmpty(e + a, e + b), Interval(e + a, e + b))
      <4>1. CASE e + b <= e + a
        <5>1. Len(seq) \in Nat
          BY <1>3, ListFacts
        <5>2. e \in Nat /\ a \in Nat /\ b \in Nat
          BY <2>3, <3>1, <5>1, RunOfShape DEF e
        <5>3. Interval(e + a, e + b) = {}
          BY <4>1, <5>2 DEF Interval
        <5>4. RangeOrEmpty(e + a, e + b) = Empty
          BY <4>1 DEF RangeOrEmpty
        <5> QED BY <5>3, <5>4, SelectsEmpty
      <4>2. CASE ~(e + b <= e + a)
        <5>1. RangeOrEmpty(e + a, e + b) = RangeOf(e + a, e + b)
          BY <4>2 DEF RangeOrEmpty
        <5> QED BY <3>2, <5>1
      <4> QED BY <4>1, <4>2
    <3>5. Selects(Window(s, offset, limit, d, N), U)
      BY <3>1, <3>2, <3>3, <3>4
    <3> QED BY <3>5 DEF U, V, to
  <2> QED BY <2>2, <2>3
<1> QED BY <1>5, <1>6 DEF Tombstones

(* The pieces of a split: at most k, each from before the end, and the     *)
(* last up to it.                                                          *)
LEMMA SplitNumbers ==
  ASSUME NEW len \in Nat \ {0}, NEW k \in Nat \ {0}, NEW per, per = Per(len, k),
         NEW cnt, cnt = (len + per - 1) \div per
  PROVE  /\ per \in Nat \ {0} /\ cnt \in Nat /\ cnt <= k
         /\ cnt * per \in Nat /\ len <= cnt * per
         /\ \A i \in 1..cnt : /\ (i - 1) * per \in Nat /\ (i - 1) * per < len
                              /\ i * per = (i - 1) * per + per
<1> DEFINE x == len + k - 1
           y == len + per - 1
<1>1. x \in Nat /\ per = x \div k
  BY DEF Per
<1>2. per \in Nat /\ per * k <= x /\ x < per * k + k
  BY <1>1, Quotient
<1>3. per * k \in Nat
  BY <1>2, TimesNext
<1>4. len <= per * k
  BY <1>2, <1>3
<1>5. per # 0
  <2> SUFFICES ASSUME per = 0 PROVE FALSE
    OBVIOUS
  <2>1. per * k = 0
    OBVIOUS
  <2> QED BY <1>4, <2>1
<1>6. y \in Nat /\ cnt = y \div per /\ per \in Nat \ {0}
  BY <1>2, <1>5
<1>7. cnt \in Nat /\ cnt * per <= y /\ y < cnt * per + per
  BY <1>6, Quotient
<1>8. cnt * per \in Nat
  BY <1>2, <1>7, TimesNext
<1>9. len <= cnt * per
  BY <1>2, <1>7, <1>8
<1>10. cnt <= k
  <2>1. per * k = k * per /\ (k + 1) * per = k * per + per /\ k * per \in Nat
    BY <1>2, TimesSwap, TimesNext
  <2>2. cnt * per < (k + 1) * per
    BY <1>2, <1>4, <1>7, <1>8, <2>1
  <2>3. cnt < k + 1
    BY <1>2, <1>7, <2>2, TimesLess
  <2> QED BY <1>7, <2>3
<1>11. ASSUME NEW i \in 1..cnt
       PROVE  /\ (i - 1) * per \in Nat /\ (i - 1) * per < len
              /\ i * per = (i - 1) * per + per
  <2> DEFINE j == i - 1
  <2>1. j \in Nat /\ j + 1 = i /\ i \in Nat /\ i <= cnt
    BY <1>7
  <2> HIDE DEF j
  <2>2. (j + 1) * per = j * per + per /\ j * per \in Nat
    BY <1>2, <2>1, TimesNext
  <2>3. i * per <= cnt * per
    BY <1>2, <1>7, <2>1, TimesGrows
  <2>4. i * per = j * per + per
    BY <2>1, <2>2
  <2>5. j * per < len
    BY <1>2, <1>7, <1>8, <2>2, <2>3, <2>4
  <2> QED BY <2>2, <2>4, <2>5 DEF j
<1> QED BY <1>6, <1>7, <1>8, <1>9, <1>10, <1>11

(* What the pieces of a split are.                                         *)
LEMMA SplitIs ==
  ASSUME NEW s, NEW R, Selects(s, R), NEW k \in Nat \ {0},
         NEW len, len = Len(AsRows(s, N)), NEW per, per = Per(len, k)
  PROVE  /\ len = 0 => Split(s, k, N) = <<>>
         /\ len # 0 => Split(s, k, N) =
              [i \in 1..((len + per - 1) \div per) |->
                 IF s.kind = "ids"
                 THEN Ids(Sublist(s.ids, (i - 1) * per, Least((i - 1) * per + per, len)))
                 ELSE RangeOf(First(s) + (i - 1) * per, First(s) + Least((i - 1) * per + per, len))]
<1>1. Greatest(k, 1) = k
  BY DEF Greatest
<1> QED BY <1>1 DEF Split, First

LEMMA PieceBounds ==
  ASSUME NEW x \in Nat, NEW per \in Nat, per # 0, NEW len \in Nat, x < len
  PROVE  /\ x \in 0..len /\ Least(x + per, len) \in x..len /\ Least(x, len) = x
         /\ x <= x + per /\ x + per \in Nat /\ x < Least(x + per, len)
BY DEF Least

LEMMA PieceSelects ==
  ASSUME NEW s, NEW R, Selects(s, R), NEW k \in Nat \ {0}, NEW i \in DOMAIN Split(s, k, N)
  PROVE  LET len == Len(AsRows(s, N))
             per == Per(len, k)
             at  == (i - 1) * per
         IN /\ i \in Nat /\ per \in Nat /\ at \in Nat /\ at < len /\ i * per = at + per
            /\ Selects(Split(s, k, N)[i], Placed(R, at, at + per))
            /\ AsRows(Split(s, k, N)[i], N) = Sublist(AsRows(s, N), at, Least(at + per, len))
            /\ SelLen(Split(s, k, N)[i], N) = Least(at + per, len) - at
<1> DEFINE seq == AsRows(s, N)
           len == Len(seq)
           per == Per(len, k)
           at == (i - 1) * per
           cnt == (len + per - 1) \div per
           b == Least(at + per, len)
           piece == Split(s, k, N)[i]
<1>1. Lists(seq, R) /\ R \subseteq Rows /\ len \in Nat
  BY SelectionAnswers, Shapes, ListFacts
<1>2. len # 0
  <2> SUFFICES ASSUME len = 0 PROVE FALSE
    OBVIOUS
  <2>1. Split(s, k, N) = <<>>
    BY SplitIs
  <2>2. i \in DOMAIN <<>>
    BY <2>1
  <2> QED BY <2>2
<1>3. /\ DOMAIN Split(s, k, N) = 1..cnt
      /\ piece = IF s.kind = "ids"
                 THEN Ids(Sublist(s.ids, (i - 1) * per, Least((i - 1) * per + per, len)))
                 ELSE RangeOf(First(s) + (i - 1) * per, First(s) + Least((i - 1) * per + per, len))
  <2> DEFINE Piece(j) == IF s.kind = "ids"
                 THEN Ids(Sublist(s.ids, (j - 1) * per, Least((j - 1) * per + per, len)))
                 ELSE RangeOf(First(s) + (j - 1) * per, First(s) + Least((j - 1) * per + per, len))
  <2>1. Split(s, k, N) = [j \in 1..cnt |-> Piece(j)]
    BY <1>2, SplitIs
  <2> HIDE DEF Piece, cnt
  <2>2. DOMAIN Split(s, k, N) = 1..cnt /\ piece = Piece(i)
    BY <2>1
  <2> QED BY <2>2 DEF Piece
<1>4. piece = IF s.kind = "ids" THEN Ids(Sublist(s.ids, at, b)) ELSE RangeOf(First(s) + at, First(s) + b)
  BY <1>3
<1>5. i \in 1..cnt
  BY <1>3
<1>6. /\ per \in Nat \ {0} /\ cnt \in Nat /\ \A j \in 1..cnt : /\ (j - 1) * per \in Nat /\ (j - 1) * per < len
                              /\ j * per = (j - 1) * per + per
  <2>1. cnt = (len + per - 1) \div per /\ len \in Nat \ {0}
    BY <1>1, <1>2
  <2> HIDE DEF cnt
  <2>2. per = Per(len, k)
    OBVIOUS
  <2> HIDE DEF cnt, per, len
  <2> QED BY <2>1, <2>2, SplitNumbers
<1>7. i \in Nat /\ per \in Nat /\ per # 0 /\ at \in Nat /\ at < len /\ i * per = at + per
  <2>1. at = (i - 1) * per
    OBVIOUS
  <2> HIDE DEF cnt, per, len, at
  <2>2. per \in Nat /\ per # 0 /\ i \in Nat
    BY <1>5, <1>6
  <2>3. (i - 1) * per \in Nat /\ (i - 1) * per < len /\ i * per = (i - 1) * per + per
    BY <1>5, <1>6, Zenon
  <2> QED BY <2>1, <2>2, <2>3, Zenon
<1> HIDE DEF piece, len, per, at
<1>8. at \in 0..len /\ b \in at..len /\ Least(at, len) = at /\ at <= at + per /\ at + per \in Nat /\ at < b
  BY <1>1, <1>7, PieceBounds
<1> HIDE DEF b
<1>9. Entries(seq, at, b) = Placed(R, at, at + per)
  <2>1. Entries(seq, Least(at, Len(seq)), Least(at + per, Len(seq))) = Placed(R, at, at + per)
    <3> HIDE DEF seq
    <3> QED BY <1>1, <1>7, <1>8, CutByPlace
  <2> QED BY <1>8, <2>1 DEF b, len
<1>10. Lists(Sublist(seq, at, b), Placed(R, at, at + per)) /\ Len(Sublist(seq, at, b)) = b - at
  <2>1. at \in 0..Len(seq) /\ b \in at..Len(seq)
    BY <1>8 DEF len
  <2> HIDE DEF seq
  <2>2. Lists(Sublist(seq, at, b), Entries(seq, at, b)) /\ Len(Sublist(seq, at, b)) = b - at
    BY <1>1, <2>1, SliceFacts DEF Entries
  <2> QED BY <1>9, <2>2
<1>11. Selects(piece, Placed(R, at, at + per))
  <2>1. Placed(R, at, at + per) \subseteq Rows
    BY <1>1 DEF Placed
  <2>2. CASE s.kind = "ids"
    <3>1. seq = s.ids
      BY <2>2 DEF AsRows
    <3>2. piece = Ids(Sublist(seq, at, b))
      BY <1>4, <2>2, <3>1
    <3> HIDE DEF seq
    <3> QED BY <1>10, <2>1, <3>2, SelectsIds
  <2>3. CASE s.kind # "ids"
    <3>1. piece = RangeOf(First(s) + at, First(s) + b)
      BY <1>4, <2>3
    <3>2. at \in 0..Len(AsRows(s, N)) /\ b \in at..Len(AsRows(s, N))
      BY <1>8 DEF len
    <3>3. /\ Entries(seq, at, b) = Interval(First(s) + at, First(s) + b)
          /\ Selects(RangeOf(First(s) + at, First(s) + b), Interval(First(s) + at, First(s) + b))
      BY <2>3, <3>2, SliceOfRun DEF Entries
    <3> QED BY <1>9, <3>1, <3>3
  <2> QED BY <2>2, <2>3
<1>12. AsRows(piece, N) = Sublist(seq, at, b)
  <2>1. Lists(AsRows(piece, N), Placed(R, at, at + per))
    BY <1>11, SelectionAnswers
  <2> QED BY <1>10, <2>1, OneList
<1>13. SelLen(piece, N) = b - at
  <2>1. SelLen(piece, N) = Len(AsRows(piece, N))
    BY <1>11, SelectionAnswers
  <2> QED BY <1>10, <1>12, <2>1
<1> QED BY <1>7, <1>11, <1>12, <1>13 DEF piece, b, at, per, len

(* A split's pieces are the selection.                                     *)
LEMMA SplitCovers ==
  ASSUME NEW s, NEW R, Selects(s, R), NEW k \in Nat \ {0}
  PROVE  LET pieces == Split(s, k, N)
             Upto[i \in 0..Len(pieces)] == IF i = 0 THEN <<>> ELSE Upto[i - 1] \o AsRows(pieces[i], N)
         IN /\ Len(pieces) <= k
            /\ \A i \in DOMAIN pieces : SelLen(pieces[i], N) > 0
            /\ Upto[Len(pieces)] = AsRows(s, N)
<1> DEFINE pieces == Split(s, k, N)
           m == Len(pieces)
           seq == AsRows(s, N)
           len == Len(seq)
           per == Per(len, k)
           cnt == (len + per - 1) \div per
           Is(g) == g = [i \in 0..m |-> IF i = 0 THEN <<>> ELSE g[i - 1] \o AsRows(pieces[i], N)]
           f == CHOOSE g : Is(g)
           w == [i \in 0..m |-> Sublist(seq, 0, Least(i * per, len))]
<1>1. Lists(seq, R) /\ len \in Nat
  <2>1. Lists(seq, R)
    BY SelectionAnswers
  <2> HIDE DEF seq
  <2> QED BY <2>1, ListFacts
<1>2. /\ m \in Nat /\ m <= k /\ DOMAIN pieces = 1..m /\ per \in Nat
      /\ m * per \in Nat /\ len <= m * per
  <2>1. CASE len = 0
    <3>1. pieces = <<>>
      BY <2>1, SplitIs
    <3>2. m = 0 /\ DOMAIN pieces = 1..0
      BY <3>1
    <3> DEFINE x == len + k - 1
    <3>3. x \in Nat /\ per = x \div k
      BY <1>1 DEF Per
    <3> HIDE DEF len, pieces, per, x
    <3>4. per \in Nat
      BY <3>3, Quotient
    <3>5. 0 * per \in Nat
      BY <3>4, TimesNext
    <3> QED BY <2>1, <3>2, <3>4, <3>5
  <2>2. CASE len # 0
    <3>1. \E X : pieces \in [1..cnt -> X]
      <4>1. pieces = [i \in 1..cnt |->
                 IF s.kind = "ids"
                 THEN Ids(Sublist(s.ids, (i - 1) * per, Least((i - 1) * per + per, len)))
                 ELSE RangeOf(First(s) + (i - 1) * per, First(s) + Least((i - 1) * per + per, len))]
        BY <2>2, SplitIs
      <4>2. DOMAIN pieces = 1..cnt /\ pieces = [i \in 1..cnt |-> pieces[i]]
        <5> HIDE DEF pieces, cnt
        <5> QED BY <4>1
      <4> HIDE DEF pieces, cnt
      <4>3. pieces \in [1..cnt -> {pieces[i] : i \in 1..cnt}]
        BY <4>2
      <4> QED BY <4>3
    <3>2. /\ cnt \in Nat /\ cnt <= k /\ per \in Nat
          /\ cnt * per \in Nat /\ len <= cnt * per
      <4>1. cnt = (len + per - 1) \div per /\ per = Per(len, k) /\ len \in Nat \ {0}
        BY <1>1, <2>2
      <4> HIDE DEF cnt, per, len
      <4> QED BY <4>1, SplitNumbers
    <3> HIDE DEF cnt, per, len, pieces
    <3>3. m = cnt /\ DOMAIN pieces = 1..m
      BY <3>1, <3>2
    <3> QED BY <3>2, <3>3
  <2> QED BY <2>1, <2>2
<1>3. ASSUME NEW i \in 1..m
      PROVE  /\ (i - 1) * per \in Nat /\ (i - 1) * per < len /\ i * per = (i - 1) * per + per
             /\ AsRows(pieces[i], N) = Sublist(seq, (i - 1) * per, Least((i - 1) * per + per, len))
             /\ SelLen(pieces[i], N) = Least((i - 1) * per + per, len) - (i - 1) * per
  <2>1. i \in DOMAIN Split(s, k, N)
    BY <1>2
  <2> QED BY <2>1, PieceSelects
<1> HIDE DEF per, len, m
<1>4. ASSUME NEW i \in 1..m, NEW x \in Nat, x = (i - 1) * per
      PROVE  /\ x \in 0..len /\ Least(x + per, len) \in x..len /\ Least(x, len) = x
             /\ x < Least(x + per, len)
  <2>1. x < len
    BY <1>3, <1>4
  <2>2. per # 0
    <3> SUFFICES ASSUME per = 0 PROVE FALSE
      OBVIOUS
    <3>1. m * per = 0
      BY <1>2
    <3> QED BY <1>1, <1>2, <2>1, <3>1
  <2>3. \A y \in Nat : y < len => /\ y \in 0..len /\ Least(y + per, len) \in y..len /\ Least(y, len) = y
                                  /\ y < Least(y + per, len)
    BY <1>1, <1>2, <2>2, PieceBounds
  <2> QED BY <2>1, <2>3, Zenon
<1>5. ASSUME NEW i \in DOMAIN pieces PROVE SelLen(pieces[i], N) > 0
  <2> DEFINE x == (i - 1) * per
  <2>1. i \in 1..m
    BY <1>2
  <2>2. x \in Nat /\ SelLen(pieces[i], N) = Least(x + per, len) - x
    BY <1>3, <2>1
  <2>3. Least(x + per, len) \in x..len /\ x < Least(x + per, len)
    BY <1>4, <2>1, <2>2
  <2> HIDE DEF x, pieces
  <2> QED BY <1>1, <2>2, <2>3
<1>6. Sublist(seq, 0, Least(0 * per, len)) = <<>>
  <2>1. 0 * per = 0 /\ Least(0, len) = 0 /\ 0 \in 0..len
    BY <1>1, <1>2 DEF Least
  <2>2. 0 \in 0..Len(seq) /\ 0 \in 0..0
    BY <2>1 DEF len
  <2> HIDE DEF seq
  <2>3. Lists(Sublist(seq, 0, 0), Entries(seq, 0, 0))
    <3>1. 0 \in 0..Len(seq) /\ 0 \in 0..Len(seq)
      BY <2>2
    <3> QED BY <1>1, <3>1, SliceFacts DEF Entries
  <2>4. Entries(seq, 0, 0) = {}
    BY DEF Entries
  <2>5. Sublist(seq, 0, 0) = <<>>
    BY <2>3, <2>4, EmptyLists, OneList
  <2> QED BY <2>1, <2>5
<1>7. ASSUME NEW i \in 1..m
      PROVE  Sublist(seq, 0, Least(i * per, len)) =
               Sublist(seq, 0, Least((i - 1) * per, len)) \o AsRows(pieces[i], N)
  <2> DEFINE x == (i - 1) * per
             b == Least(x + per, len)
  <2>1. x \in Nat /\ i * per = x + per /\ AsRows(pieces[i], N) = Sublist(seq, x, b)
    BY <1>3
  <2>2. x \in 0..len /\ b \in x..len /\ Least(x, len) = x
    BY <1>4, <2>1
  <2> HIDE DEF x, b, seq
  <2>3. Sublist(seq, 0, x) \o Sublist(seq, x, b) = Sublist(seq, 0, b)
    BY <1>1, <2>2, SlicesJoin DEF len
  <2>4. Least(i * per, len) = b
    BY <2>1 DEF b
  <2> QED BY <2>1, <2>2, <2>3, <2>4 DEF x
<1>8. w[0] = <<>> /\ \A i \in 1..m : w[i] = w[i - 1] \o AsRows(pieces[i], N)
  <2>1. 0 \in 0..m /\ \A i \in 1..m : i \in 0..m /\ i - 1 \in 0..m
    BY <1>2
  <2>2. \A i \in 0..m : w[i] = Sublist(seq, 0, Least(i * per, len))
    OBVIOUS
  <2> HIDE DEF w
  <2> QED BY <1>6, <1>7, <2>1, <2>2, Zenon
<1>9. w = [i \in 0..m |-> w[i]]
  OBVIOUS
<1>10. \A i \in 0..m : i = 0 \/ (i \in 1..m /\ i # 0)
  BY <1>2
<1>11. w[m] = seq
  <2>1. m \in 0..m
    BY <1>2
  <2>2. Least(m * per, len) = len
    <3>1. \A y \in Nat : len <= y => Least(y, len) = len
      BY <1>1 DEF Least
    <3> QED BY <1>2, <3>1, Zenon
  <2>3. seq \in Seq(Nat)
    BY <1>1 DEF Lists
  <2> HIDE DEF seq
  <2>4. Sublist(seq, 0, len) = seq
    BY <2>3 DEF Sublist, len
  <2> QED BY <2>1, <2>2, <2>4
<1> HIDE DEF w
<1>12. Is(w)
  <2>1. \A i \in 0..m : w[i] = IF i = 0 THEN <<>> ELSE w[i - 1] \o AsRows(pieces[i], N)
    BY <1>8, <1>10, Zenon
  <2> QED BY <1>9, <2>1, Zenon
<1>13. Is(f)
  <2> HIDE DEF Is
  <2> QED BY <1>12
<1>14. LET Upto[i \in 0..m] == IF i = 0 THEN <<>> ELSE Upto[i - 1] \o AsRows(pieces[i], N)
       IN Upto[m] = f[m]
  OBVIOUS
<1> HIDE DEF f
<1>15. f[0] = <<>> /\ \A i \in 1..m : f[i] = f[i - 1] \o AsRows(pieces[i], N)
  <2>1. ASSUME NEW i \in 0..m PROVE f[i] = IF i = 0 THEN <<>> ELSE f[i - 1] \o AsRows(pieces[i], N)
    BY <1>13, Zenon
  <2>2. 0 \in 0..m /\ \A i \in 1..m : i \in 0..m /\ i # 0
    BY <1>2
  <2> QED BY <2>1, <2>2, Zenon
<1>16. f[m] = w[m]
  <2> DEFINE T == {i \in 0..m : f[i] = w[i]}
  <2>1. 0 \in T
    BY <1>2, <1>8, <1>15
  <2>2. ASSUME NEW i \in 1..m, i - 1 \in T PROVE i \in T
    <3>1. f[i - 1] = w[i - 1] /\ i \in 0..m
      BY <1>2, <2>2
    <3>2. f[i] = w[i]
      BY <1>8, <1>15, <3>1, Zenon
    <3> QED BY <3>1, <3>2
  <2>3. m \in T
    <3>1. m \in 0..m
      BY <1>2
    <3> HIDE DEF T
    <3>2. \A i \in 0..m : i \in T
      BY <1>2, <2>1, <2>2, Upward
    <3> QED BY <3>1, <3>2
  <2> QED BY <2>3
<1>17. LET Upto[i \in 0..m] == IF i = 0 THEN <<>> ELSE Upto[i - 1] \o AsRows(pieces[i], N)
       IN Upto[m] = seq
  BY <1>11, <1>14, <1>16
<1> QED BY <1>2, <1>5, <1>17 DEF m

-----------------------------------------------------------------------------
(* What the invariant gives                                                *)

(* live_len counts the live rows.                                          *)
LEMMA LiveLenCounts ==
  ASSUME NEW s, NEW R, Selects(s, R), NEW d, Tombstones(d)
  PROVE  LiveLen(s, d, N) = Len(LiveRows(s, N, d))
<1> DEFINE seq == AsRows(s, N)
           len == Len(seq)
           K == LiveMask(s, d, N)
           V == R \ d.rows
           local == Filtered(Run(0, len), K)
           out == [i \in 1..Len(local) |-> seq[local[i] + 1]]
<1>1. Lists(seq, R) /\ SelLen(s, N) = len
  BY SelectionAnswers
<1>2. Lists(LiveRows(s, N, d), V)
  BY LiveLists
<1>3. K = {i \in Interval(0, len) : seq[i + 1] \notin d.rows}
  BY DEF LiveMask
<1>4. LiveLen(s, d, N) = IF d.some THEN Cardinality(K) ELSE len
  BY <1>1 DEF LiveLen
<1>5. Cardinality(V) = Len(LiveRows(s, N, d)) /\ Cardinality(R) = len
  <2> HIDE DEF seq, V
  <2> QED BY <1>1, <1>2, ListSize
<1> HIDE DEF seq, K
<1>6. /\ len \in Nat /\ (\A i \in 1..len : seq[i] \in R)
      /\ (\A x \in R : \E i \in 1..len : x = seq[i])
  BY <1>1, ListFacts
<1>7. CASE d.some
  <2>1. Lists(local, K)
    <3>1. Lists(Run(0, len), Interval(0, len))
      BY <1>6, RunLists
    <3>2. Interval(0, len) \cap K = K
      BY <1>3
    <3> HIDE DEF len
    <3>3. Lists(local, Interval(0, len) \cap K)
      BY <3>1, FilteredLists
    <3> QED BY <3>2, <3>3
  <2>2. K \subseteq Interval(0, Len(seq))
    BY <1>3
  <2> HIDE DEF local
  <2>3. Lists(out, {seq[k + 1] : k \in K})
    <3> HIDE DEF len
    <3> QED BY <1>1, <2>1, <2>2, MappedLists
  <2> HIDE DEF len
  <2>4. \A i \in 1..len : i - 1 \in Interval(0, len) /\ (i - 1) + 1 = i
    BY <1>6 DEF Interval
  <2>5. \A i \in Interval(0, len) : i + 1 \in 1..len
    BY <1>6 DEF Interval
  <2>6. {seq[k + 1] : k \in K} = V
    <3>1. \A k \in K : seq[k + 1] \in V
      BY <1>3, <1>6, <2>5
    <3>2. ASSUME NEW x \in V PROVE \E k \in K : x = seq[k + 1]
      <4>1. PICK i \in 1..len : x = seq[i]
        BY <1>6
      <4>2. i - 1 \in K /\ seq[(i - 1) + 1] = x
        BY <1>3, <2>4, <4>1
      <4> QED BY <4>2
    <3> QED BY <3>1, <3>2
  <2>7. Len(local) \in Nat /\ Cardinality(K) = Len(local)
    BY <2>1, ListFacts, ListSize
  <2>8. Len(out) = Len(local)
    <3>1. out \in Seq(Nat) /\ DOMAIN out = 1..Len(local)
      BY <2>3 DEF Lists
    <3> HIDE DEF out
    <3> QED BY <2>7, <3>1
  <2> HIDE DEF out, V
  <2>9. Cardinality(V) = Len(out)
    <3>1. Lists(out, V)
      BY <2>3, <2>6
    <3> QED BY <3>1, ListSize
  <2> QED BY <1>4, <1>5, <1>7, <2>7, <2>8, <2>9
<1>8. CASE ~d.some
  <2>1. V = R
    BY <1>8 DEF Tombstones
  <2> QED BY <1>4, <1>5, <1>8, <2>1
<1> QED BY <1>7, <1>8 DEF Tombstones

LEMMA InvariantExact ==
  IInv => SelectsExactly
<1> SUFFICES ASSUME IInv PROVE SelectsExactly
  OBVIOUS
<1>1. Selects(sel, rows) /\ Tombstones(deleted)
  BY DEF IInv
<1>2. /\ Lists(AsRows(sel, N), rows) /\ SelLen(sel, N) = Len(AsRows(sel, N))
      /\ (\A row \in Rows : Contains(sel, row) <=> row \in rows) /\ ToMask(sel, N) = rows
  BY <1>1, SelectionAnswers
<1>3. Lists(Listed(rows), rows)
  BY <1>1, Shapes, ListedLists
<1>4. AsRows(sel, N) = Listed(rows)
  BY <1>2, <1>3, OneList
<1>5. SelLen(sel, N) = Cardinality(rows)
  BY <1>2, ListSize
<1>6. LiveLen(sel, deleted, N) = Len(LiveRows(sel, N, deleted))
  BY <1>1, LiveLenCounts
<1> QED BY <1>2, <1>4, <1>5, <1>6 DEF SelectsExactly

LEMMA InvariantPartitions ==
  IInv => PiecesPartition
<1> SUFFICES ASSUME IInv, NEW k \in 1..(N + 1)
             PROVE  LET pieces == Split(sel, k, N)
                        Upto[i \in 0..Len(pieces)] == IF i = 0 THEN <<>> ELSE Upto[i - 1] \o AsRows(pieces[i], N)
                    IN /\ Len(pieces) <= k
                       /\ \A i \in DOMAIN pieces : SelLen(pieces[i], N) > 0
                       /\ Upto[Len(pieces)] = AsRows(sel, N)
  BY DEF PiecesPartition
<1>1. Selects(sel, rows)
  BY DEF IInv
<1>2. k \in Nat \ {0}
  BY LengthAssumption
<1> QED BY <1>1, <1>2, SplitCovers

LEMMA InvariantTyped ==
  IInv => TypeOK
<1> SUFFICES ASSUME IInv PROVE TypeOK
  OBVIOUS
<1>1. Selects(sel, rows) /\ Tombstones(deleted)
  BY DEF IInv
<1>2. ASSUME sel.kind = "ids", Lists(sel.ids, rows), rows \subseteq Rows PROVE sel.ids \in Seq(Rows)
  <2>1. sel.ids \in Seq(Nat)
    BY <1>2 DEF Lists
  <2> DEFINE ids == sel.ids
             n == Len(ids)
  <2>2. n \in Nat /\ \A i \in 1..n : ids[i] \in Rows
    BY <1>2, ListFacts
  <2>3. ids = [i \in 1..n |-> ids[i]]
    BY <2>1
  <2> HIDE DEF ids, n
  <2>4. ids \in [1..n -> Rows]
    BY <2>2, <2>3
  <2>5. ids \in Seq(Rows)
    BY <2>2, <2>4
  <2> QED BY <2>5 DEF ids
<1>3. /\ sel.kind \in {"all", "range", "ids"} /\ rows \subseteq Rows
      /\ (sel.kind = "range" => sel.start <= sel.end /\ sel.end <= N)
      /\ (sel.kind = "ids" => Lists(sel.ids, rows))
  BY <1>1, Shapes
<1>4. deleted.rows \subseteq Rows
  BY <1>1 DEF Tombstones
<1> QED BY <1>2, <1>3, <1>4 DEF TypeOK

-----------------------------------------------------------------------------
(* The invariant holds                                                     *)

LEMMA InitInvariant ==
  Init => IInv
<1> SUFFICES ASSUME Init PROVE IInv
  OBVIOUS
<1>1. Selects(sel, rows)
  BY DEF Init, Selects
<1>2. NoMask.some = FALSE /\ NoMask.rows = {} /\ NoMask = [some |-> FALSE, rows |-> {}]
  BY DEF NoMask
<1>3. Tombstones(deleted)
  BY <1>2 DEF Init, Tombstones
<1> QED BY <1>1, <1>3 DEF IInv

(* The actions that narrow leave the tombstones alone.                     *)
LEMMA NarrowKeeps ==
  ASSUME IInv, UNCHANGED deleted, Selects(sel', rows')
  PROVE  IInv'
BY DEF IInv

LEMMA NextInvariant ==
  IInv /\ [Next]_vars => IInv'
<1> SUFFICES ASSUME IInv, [Next]_vars PROVE IInv'
  OBVIOUS
<1>1. Selects(sel, rows) /\ Tombstones(deleted) /\ N \in Nat /\ MaxOffset \in Nat
  BY LengthAssumption DEF IInv
<1>2. ASSUME NEW pair \in Bounds, NarrowRange(pair[1], pair[2]) PROVE IInv'
  <2> DEFINE a == pair[1]
             b == pair[2]
  <2>1. a \in Nat /\ b \in Nat /\ a <= b /\ b <= N
    BY <1>1 DEF Bounds
  <2>2. sel' = IntersectRange(sel, a, b) /\ rows' = rows \cap Interval(a, b) /\ UNCHANGED deleted
    BY <1>2 DEF NarrowRange
  <2> HIDE DEF a, b
  <2>3. Selects(sel', rows')
    BY <1>1, <2>1, <2>2, IntersectRangeSelects
  <2> QED BY <2>2, <2>3, NarrowKeeps
<1>3. ASSUME NEW R \in SUBSET Rows, NarrowIds(R) PROVE IInv'
  <2>1. sel' = IntersectIds(sel, Listed(R)) /\ rows' = rows \cap R /\ UNCHANGED deleted
    BY <1>3 DEF NarrowIds
  <2>2. Lists(Listed(R), R)
    BY ListedLists
  <2>3. Selects(sel', rows')
    BY <1>1, <2>1, <2>2, IntersectIdsSelects
  <2> QED BY <2>1, <2>3, NarrowKeeps
<1>4. ASSUME NEW R \in SUBSET Rows, NarrowMask(R) PROVE IInv'
  <2> DEFINE found == Refine(sel, {i \in Interval(0, SelLen(sel, N)) : AsRows(sel, N)[i + 1] \in R}, SelLen(sel, N))
  <2>1. sel' = found /\ rows' = rows \cap R /\ UNCHANGED deleted
    BY <1>4 DEF NarrowMask
  <2>2. Selects(found, rows \cap R)
    BY <1>1, RefineSelects
  <2> HIDE DEF found
  <2> QED BY <2>1, <2>2, NarrowKeeps
<1>5. ASSUME NEW R \in SUBSET Rows, NarrowFound(R) PROVE IInv'
  <2>1. /\ sel' = NarrowToIds(sel, FilterRows(sel, N, R), SelLen(sel, N))
        /\ rows' = rows \cap R /\ UNCHANGED deleted
    BY <1>5 DEF NarrowFound
  <2>2. Selects(sel', rows')
    BY <1>1, <2>1, NarrowToIdsSelects
  <2> QED BY <2>1, <2>2, NarrowKeeps
<1>6. ASSUME NEW R \in SUBSET Rows, Delete(R) PROVE IInv'
  <2>1. deleted' = Mask(deleted.rows \cup R) /\ UNCHANGED <<sel, rows>>
    BY <1>6 DEF Delete
  <2> DEFINE D == deleted.rows \cup R
  <2>2. D \subseteq Rows
    BY <1>1 DEF Tombstones
  <2> HIDE DEF D
  <2>3. Tombstones(Mask(D))
    BY <2>2 DEF Tombstones, Mask
  <2>4. Tombstones(deleted')
    BY <2>1, <2>3 DEF D
  <2> QED BY <1>1, <2>1, <2>4 DEF IInv
<1>7. ASSUME NEW p \in Bounds, NEW q \in Bounds, NarrowRuns(p, q) PROVE IInv'
  <2> DEFINE a == p[1]
             b == p[2]
             c == q[1]
             d == q[2]
  <2>1. /\ a \in Nat /\ b \in Nat /\ c \in Nat /\ d \in Nat /\ a <= b /\ c <= d /\ d <= N
        /\ p = <<a, b>> /\ q = <<c, d>>
    BY <1>1 DEF Bounds
  <2>2. /\ b <= c /\ sel' = IntersectRuns(sel, <<p, q>>)
        /\ rows' = rows \cap (Interval(a, b) \cup Interval(c, d)) /\ UNCHANGED deleted
    BY <1>7 DEF NarrowRuns
  <2> HIDE DEF a, b, c, d
  <2>3. Selects(IntersectRuns(sel, <<<<a, b>>, <<c, d>>>>), rows \cap (Interval(a, b) \cup Interval(c, d)))
    BY <1>1, <2>1, <2>2, IntersectRunsSelects
  <2>4. Selects(sel', rows')
    BY <2>1, <2>2, <2>3
  <2> QED BY <2>2, <2>4, NarrowKeeps
<1>8. ASSUME NEW offset \in 0..MaxOffset, NEW limit \in 0..MaxOffset, Cut(offset, limit) PROVE IInv'
  <2>1. offset \in Nat /\ limit \in Nat
    BY <1>1
  <2>2. /\ sel' = Window(sel, offset, limit, deleted, N)
        /\ rows' = Placed(rows \ deleted.rows, offset, offset + limit) /\ UNCHANGED deleted
    BY <1>8 DEF Cut, Windowed, Placed
  <2>3. Selects(sel', rows')
    BY <1>1, <2>1, <2>2, WindowSelects
  <2> QED BY <2>2, <2>3, NarrowKeeps
<1>9. ASSUME NEW k \in 1..N, NEW i \in 1..k, Partition(k, i) PROVE IInv'
  <2> DEFINE len == Len(AsRows(sel, N))
             per == Per(len, k)
             at == (i - 1) * per
  <2>1. k \in Nat \ {0}
    BY <1>1
  <2>2. /\ i \in DOMAIN Split(sel, k, N) /\ sel' = Split(sel, k, N)[i] /\ UNCHANGED deleted
        /\ rows' = {row \in rows : (i - 1) * Per(Cardinality(rows), k) <= Place(rows, row)
                                   /\ Place(rows, row) < i * Per(Cardinality(rows), k)}
    BY <1>9 DEF Partition
  <2>3. i * per = at + per /\ Selects(Split(sel, k, N)[i], Placed(rows, at, at + per))
    BY <1>1, <2>1, <2>2, PieceSelects
  <2>4. Cardinality(rows) = len
    BY <1>1, SelectionAnswers, ListSize
  <2> HIDE DEF len
  <2>5. rows' = {row \in rows : at <= Place(rows, row) /\ Place(rows, row) < i * per}
    BY <2>2, <2>4
  <2> HIDE DEF per, at
  <2>6. rows' = Placed(rows, at, at + per)
    BY <2>3, <2>5 DEF Placed
  <2>7. Selects(sel', rows')
    BY <2>2, <2>3, <2>6
  <2> QED BY <2>2, <2>7, NarrowKeeps
<1>10. ASSUME Rebuild PROVE IInv'
  <2>1. Init'
    BY <1>10 DEF Rebuild, Init
  <2> QED BY <2>1, InitInvariant, PTL
<1>11. ASSUME UNCHANGED vars PROVE IInv'
  BY <1>11 DEF vars, IInv
<1>12. CASE Next
  BY <1>2, <1>3, <1>4, <1>5, <1>6, <1>7, <1>8, <1>9, <1>10, <1>12 DEF Next
<1> QED BY <1>11, <1>12

-----------------------------------------------------------------------------
(* Theorems                                                                *)

LEMMA InvariantHolds ==
  Spec => []IInv
BY InitInvariant, NextInvariant, PTL DEF Spec

(* However a chain of matches, windows, partitions and rebuilds narrows a  *)
(* RowSelection, a range stays one of the table, ends no earlier than it   *)
(* starts, and a list holds rows of the table only.                        *)
THEOREM TypeCorrect == Spec => []TypeOK
BY InvariantHolds, InvariantTyped, PTL

(* Whatever shape intersect_range, intersect_ids, refine, narrow_to_ids,   *)
(* intersect_runs, window and split leave, in any order, over a table of   *)
(* any length and with any tombstones, as_rows walks exactly the rows the  *)
(* chain keeps, ascending and each once, and len, contains, to_mask and    *)
(* live_len agree with it.                                                 *)
THEOREM SelectionsStayExact == Spec => []SelectsExactly
BY InvariantHolds, InvariantExact, PTL

(* split of any selection a chain reaches gives at most the pieces asked   *)
(* for, none empty, and their rows one after the other are the selection's *)
(* own: a parallel scan reads every row once.                              *)
THEOREM SplitsPartition == Spec => []PiecesPartition
BY InvariantHolds, InvariantPartitions, PTL
=============================================================================
