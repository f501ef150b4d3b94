------------------------- MODULE ResidualScanProofs -------------------------
(***************************************************************************)
(* Proofs about ResidualScan, for every table, pattern, zone and piece     *)
(* size: however the statistics settle the zones, what a match keeps, what *)
(* a count says and what a window shows is what comparing every selected   *)
(* row would give.                                                         *)
(***************************************************************************)
EXTENDS ResidualScan, SelectionLemmas

-----------------------------------------------------------------------------
(* Tables, selections and equalities                                       *)

TableRows == Interval(0, Total)

(* A table as the base may have, with the statistics kept of it.           *)
IsTable ==
  /\ table \in Seq([Columns -> Nat])
  /\ kinds \in [Columns -> {"none", "bounds", "counts"}]

IsEqualities(eqs) == eqs \in Seq([col : Columns, code : Nat])

(* The rows that satisfy the equalities at the positions in bits.          *)
Holders(eqs, bits) == {row \in TableRows : \A i \in bits : Value(row, eqs[i].col) = eqs[i].code}

(* s selects the rows of R.                                                *)
Selects(s, R) ==
  /\ R \subseteq TableRows
  /\ \/ s = All /\ R = TableRows
     \/ /\ s.kind = "range" /\ s = RangeOf(s.start, s.end)
        /\ s.start \in Nat /\ s.end \in Nat /\ s.start <= s.end /\ s.end <= Total
        /\ R = Interval(s.start, s.end)
     \/ s.kind = "ids" /\ s = Ids(s.ids) /\ Lists(s.ids, R)

LEMMA TotalIsNat ==
  ASSUME IsTable
  PROVE  Total \in Nat
BY LenProperties DEF IsTable, Total

LEMMA TableRowsNat ==
  TableRows \subseteq Nat
BY DEF TableRows, Interval

(* A row's code in a column.                                               *)
LEMMA ValueTyped ==
  ASSUME IsTable, NEW row \in TableRows, NEW col \in Columns
  PROVE  Value(row, col) \in Nat
<1>1. Total \in Nat
  BY TotalIsNat
<1>2. row + 1 \in 1..Len(table)
  BY <1>1 DEF TableRows, Interval, Total
<1>3. table[row + 1] \in [Columns -> Nat]
  BY <1>2, ElementOfSeq DEF IsTable
<1> QED BY <1>3 DEF Value

(* How to show a selection.                                                *)
LEMMA SelectsRange ==
  ASSUME IsTable, NEW a \in Nat, NEW b \in Nat, a <= b, b <= Total
  PROVE  Selects(RangeOf(a, b), Interval(a, b))
<1>1. Interval(a, b) \subseteq TableRows
  BY TotalIsNat DEF Interval, TableRows
<1>2. RangeOf(a, b).kind = "range" /\ RangeOf(a, b).start = a /\ RangeOf(a, b).end = b
  BY DEF RangeOf
<1> QED BY <1>1, <1>2 DEF Selects

LEMMA SelectsIds ==
  ASSUME NEW ids1, NEW R, Lists(ids1, R), R \subseteq TableRows
  PROVE  Selects(Ids(ids1), R)
<1>1. Ids(ids1).kind = "ids" /\ Ids(ids1).ids = ids1
  BY DEF Ids
<1> QED BY <1>1 DEF Selects

LEMMA SelectsEmpty ==
  ASSUME IsTable
  PROVE  Selects(Empty, {})
<1>1. Total \in Nat /\ 0 <= Total
  BY TotalIsNat
<1>2. Interval(0, 0) = {}
  BY DEF Interval
<1>3. Selects(RangeOf(0, 0), Interval(0, 0))
  BY <1>1, SelectsRange
<1> QED BY <1>2, <1>3 DEF Empty

LEMMA SelectsFromIds ==
  ASSUME IsTable, NEW ids1, NEW R, Lists(ids1, R), R \subseteq TableRows
  PROVE  Selects(FromIds(ids1), R)
<1>1. CASE ids1 = <<>>
  <2>1. R = {}
    BY <1>1 DEF Lists, Members
  <2> QED BY <1>1, <2>1, SelectsEmpty DEF FromIds
<1>2. CASE ids1 # <<>>
  BY <1>2, SelectsIds DEF FromIds
<1> QED BY <1>1, <1>2

(* The shapes a selection has.                                             *)
LEMMA Shapes ==
  ASSUME NEW s, NEW R, Selects(s, R)
  PROVE  /\ R \subseteq TableRows /\ R \subseteq Nat
         /\ \/ s.kind = "all" /\ s = All /\ R = TableRows
            \/ /\ s.kind = "range" /\ s = RangeOf(s.start, s.end)
               /\ s.start \in Nat /\ s.end \in Nat /\ s.start <= s.end /\ s.end <= Total
               /\ R = Interval(s.start, s.end)
            \/ s.kind = "ids" /\ s = Ids(s.ids) /\ Lists(s.ids, R)
<1>1. All.kind = "all"
  BY DEF All
<1> QED BY <1>1, TableRowsNat DEF Selects

(* A range of the table is not clamped.                                    *)
LEMMA ClampedEnds ==
  ASSUME IsTable, NEW s, s.kind = "range", s.start \in Nat, s.end \in Nat, s.start <= s.end, s.end <= Total
  PROVE  Clamped(s, Total).start = s.start /\ Clamped(s, Total).end = s.end
<1>1. Total \in Nat
  BY TotalIsNat
<1> DEFINE a == s.start
           b == s.end
<1>2. a \in Nat /\ b \in Nat /\ a <= b /\ b <= Total
  OBVIOUS
<1> HIDE DEF a, b
<1>3. Least(a, Total) = a /\ Least(b, Total) = b /\ Greatest(a, b) = b
  BY <1>1, <1>2 DEF Least, Greatest
<1>4. Clamped(s, Total) = RangeOf(a, b)
  BY <1>3 DEF Clamped, a, b
<1> QED BY <1>4 DEF RangeOf, a, b

(* A selection's own answers.                                              *)
LEMMA SelectionAnswers ==
  ASSUME IsTable, NEW s, NEW R, Selects(s, R)
  PROVE  /\ Lists(AsRows(s, Total), R)
         /\ SelLen(s, Total) = Len(AsRows(s, Total))
         /\ SelLen(s, Total) = Cardinality(R) /\ IsFiniteSet(R) /\ Cardinality(R) \in Nat
<1>1. Total \in Nat
  BY TotalIsNat
<1>2. Lists(AsRows(s, Total), R) /\ SelLen(s, Total) = Len(AsRows(s, Total))
  <2>1. CASE s.kind = "all" /\ s = All /\ R = TableRows
    <3>1. AsRows(s, Total) = Run(0, Total) /\ SelLen(s, Total) = Total
      BY <2>1 DEF AsRows, SelLen
    <3>2. Lists(Run(0, Total), Interval(0, Total)) /\ Len(Run(0, Total)) = Minus(Total, 0)
      BY <1>1, RunLists
    <3>3. Minus(Total, 0) = Total
      BY <1>1 DEF Minus
    <3> QED BY <2>1, <3>1, <3>2, <3>3 DEF TableRows
  <2>2. CASE /\ s.kind = "range" /\ s = RangeOf(s.start, s.end)
             /\ s.start \in Nat /\ s.end \in Nat /\ s.start <= s.end /\ s.end <= Total
             /\ R = Interval(s.start, s.end)
    <3>1. Clamped(s, Total).start = s.start /\ Clamped(s, Total).end = s.end
      BY <2>2, ClampedEnds
    <3>2. AsRows(s, Total) = Run(s.start, s.end) /\ SelLen(s, Total) = Minus(s.end, s.start)
      BY <2>2, <3>1 DEF AsRows, SelLen
    <3>3. /\ Lists(Run(s.start, s.end), Interval(s.start, s.end))
          /\ Len(Run(s.start, s.end)) = Minus(s.end, s.start)
      BY <2>2, RunLists
    <3> QED BY <2>2, <3>2, <3>3
  <2>3. CASE s.kind = "ids" /\ s = Ids(s.ids) /\ Lists(s.ids, R)
    BY <2>3 DEF AsRows, SelLen
  <2> QED BY <2>1, <2>2, <2>3, Shapes
<1>3. IsFiniteSet(R) /\ Cardinality(R) = Len(AsRows(s, Total))
  BY <1>2, ListSize
<1>4. Cardinality(R) \in Nat
  BY <1>3, FS_CardinalityType
<1> QED BY <1>2, <1>3, <1>4

(* A selection of the inputs is one of the table.                          *)
LEMMA StartSelects ==
  ASSUME IsTable, NEW s, SelectionOf(s, Total)
  PROVE  Selects(s, Members(AsRows(s, Total)))
<1>1. Total \in Nat
  BY TotalIsNat
<1>2. CASE s = All
  <2>1. Selects(s, TableRows)
    BY <1>2 DEF Selects
  <2>2. Lists(AsRows(s, Total), TableRows)
    BY <2>1, SelectionAnswers
  <2> QED BY <2>1, <2>2 DEF Lists
<1>3. CASE s.kind = "range" /\ \E a \in 0..Total, b \in 0..Total : a <= b /\ s = RangeOf(a, b)
  <2>1. PICK a \in 0..Total, b \in 0..Total : a <= b /\ s = RangeOf(a, b)
    BY <1>3
  <2>2. Selects(s, Interval(a, b))
    BY <1>1, <2>1, SelectsRange
  <2>3. Lists(AsRows(s, Total), Interval(a, b))
    BY <2>2, SelectionAnswers
  <2> QED BY <2>2, <2>3 DEF Lists
<1>4. CASE s.kind = "ids" /\ s = Ids(s.ids) /\ s.ids \in Seq(Interval(0, Total)) /\ IsAscending(s.ids)
  <2>1. AsRows(s, Total) = s.ids
    BY <1>4 DEF AsRows
  <2>2. \A i \in DOMAIN s.ids : s.ids[i] \in Interval(0, Total)
    BY <1>4
  <2>3. Members(s.ids) \subseteq TableRows
    BY <2>2 DEF Members, TableRows
  <2>4. s.ids \in Seq(Nat)
    <3>1. Interval(0, Total) \subseteq Nat
      BY DEF Interval
    <3>2. /\ Len(s.ids) \in Nat /\ DOMAIN s.ids = 1..Len(s.ids)
          /\ s.ids = [i \in 1..Len(s.ids) |-> s.ids[i]]
      BY <1>4, LenProperties
    <3>3. \A i \in 1..Len(s.ids) : s.ids[i] \in Nat
      BY <2>2, <3>1, <3>2
    <3> QED BY <3>2, <3>3, IsASeq
  <2>5. Lists(s.ids, Members(s.ids))
    BY <1>4, <2>4 DEF Lists
  <2>6. Selects(s, Members(s.ids))
    BY <1>4, <2>3, <2>5 DEF Selects
  <2> QED BY <2>1, <2>6
<1> QED BY <1>2, <1>3, <1>4 DEF SelectionOf

-----------------------------------------------------------------------------
(* What the statistics settle                                              *)

(* One of finitely many numbers is the greatest.                           *)
LEMMA GreatestOf ==
  ASSUME NEW n \in Nat, NEW f \in [0..n -> Nat]
  PROVE  \E m \in 0..n : \A j \in 0..n : f[j] <= f[m]
<1> DEFINE T == {k \in 0..n : \E m \in 0..k : \A j \in 0..k : f[j] <= f[m]}
<1>1. 0 \in T
  OBVIOUS
<1>2. ASSUME NEW k \in 1..n, k - 1 \in T PROVE k \in T
  <2>1. PICK m \in 0..(k - 1) : \A j \in 0..(k - 1) : f[j] <= f[m]
    BY <1>2
  <2>2. m \in 0..k /\ k \in 0..k /\ m \in 0..n /\ k \in 0..n /\ f[m] \in Nat /\ f[k] \in Nat
    OBVIOUS
  <2>3. \A j \in 0..k : f[j] \in Nat /\ (j \in 0..(k - 1) \/ j = k)
    OBVIOUS
  <2>4. CASE f[k] <= f[m]
    <3>1. \A j \in 0..k : f[j] <= f[m]
      BY <2>1, <2>3, <2>4
    <3> QED BY <2>2, <3>1
  <2>5. CASE ~(f[k] <= f[m])
    <3>1. \A j \in 0..k : f[j] <= f[k]
      BY <2>1, <2>2, <2>3, <2>5
    <3> QED BY <2>2, <3>1
  <2> QED BY <2>4, <2>5
<1>3. \A k \in 0..n : k \in T
  <2> HIDE DEF T
  <2> QED BY <1>1, <1>2, Upward
<1>4. n \in T
  <2>1. n \in 0..n
    OBVIOUS
  <2> HIDE DEF T
  <2> QED BY <1>3, <2>1
<1> QED BY <1>4

(* The codes of the rows from a to b of a column.                          *)
AreValues(S, a, b, col) == S = {Value(row, col) : row \in Interval(a, b)}

(* The least and the greatest of them.                                     *)
LEMMA Extremes ==
  ASSUME IsTable, NEW a \in Nat, NEW b \in Nat, a < b, b <= Total, NEW col \in Columns,
         NEW S, AreValues(S, a, b, col)
  PROVE  /\ S \subseteq Nat /\ SetMin(S) \in S /\ SetMax(S) \in S
         /\ \A x \in S : SetMin(S) <= x /\ x <= SetMax(S)
<1> USE DEF AreValues
<1>1. Total \in Nat
  BY TotalIsNat
<1>2. \A row \in Interval(a, b) : row \in TableRows /\ Value(row, col) \in Nat
  <2>1. \A row \in Interval(a, b) : row \in TableRows
    BY <1>1 DEF Interval, TableRows
  <2> QED BY <2>1, ValueTyped
<1>3. S \subseteq Nat /\ S # {}
  <2>1. a \in Interval(a, b)
    BY DEF Interval
  <2> QED BY <1>2, <2>1
<1>4. PICK lo \in S : \A y \in S : lo <= y
  BY <1>3, LeastNumber
<1> DEFINE n == b - a - 1
           f == [k \in 0..n |-> Value(a + k, col)]
<1>5. n \in Nat
  OBVIOUS
<1>6. \A k \in 0..n : a + k \in Interval(a, b)
  BY DEF Interval
<1>7. f \in [0..n -> Nat]
  BY <1>2, <1>6
<1>8. PICK m \in 0..n : \A j \in 0..n : f[j] <= f[m]
  <2> HIDE DEF f, n
  <2> QED BY <1>5, <1>7, GreatestOf
<1>9. f[m] \in S
  BY <1>6
<1>10. \A y \in S : y <= f[m]
  <2> TAKE y \in S
  <2>1. PICK row \in Interval(a, b) : y = Value(row, col)
    OBVIOUS
  <2>2. row - a \in 0..n /\ a + (row - a) = row
    BY DEF Interval
  <2>3. f[row - a] = y
    BY <2>1, <2>2
  <2> QED BY <1>8, <2>2, <2>3
<1>11. SetMin(S) \in S /\ \A y \in S : SetMin(S) <= y
  BY <1>4 DEF SetMin
<1>12. SetMax(S) \in S /\ \A y \in S : y <= SetMax(S)
  <2> HIDE DEF f
  <2> QED BY <1>9, <1>10 DEF SetMax
<1> QED BY <1>3, <1>11, <1>12

(* Bounds rule an equality out, or hold it of every row.                   *)
LEMMA BoundsDecide ==
  ASSUME IsTable, NEW a \in Nat, NEW b \in Nat, a < b, b <= Total, NEW col \in Columns,
         NEW code \in Nat, NEW S, S = {Value(row, col) : row \in Interval(a, b)}
  PROVE  /\ EqOnBounds(SetMin(S), SetMax(S), code) = "no" =>
              \A row \in Interval(a, b) : Value(row, col) # code
         /\ EqOnBounds(SetMin(S), SetMax(S), code) = "yes" =>
              \A row \in Interval(a, b) : Value(row, col) = code
<1>1. /\ S \subseteq Nat /\ SetMin(S) \in S /\ SetMax(S) \in S
      /\ \A x \in S : SetMin(S) <= x /\ x <= SetMax(S)
  <2>1. AreValues(S, a, b, col)
    BY DEF AreValues
  <2> QED BY <2>1, Extremes
<1> DEFINE lo == SetMin(S)
           hi == SetMax(S)
<1>2. lo \in Nat /\ hi \in Nat /\ \A row \in Interval(a, b) :
        Value(row, col) \in Nat /\ lo <= Value(row, col) /\ Value(row, col) <= hi
  BY <1>1
<1> HIDE DEF lo, hi
<1>3. EqOnBounds(lo, hi, code) = "no" => code < lo \/ code > hi
  BY DEF EqOnBounds
<1>4. EqOnBounds(lo, hi, code) = "yes" => lo = code /\ hi = code
  BY DEF EqOnBounds
<1>5. ASSUME EqOnBounds(lo, hi, code) = "no", NEW row \in Interval(a, b)
      PROVE  Value(row, col) # code
  BY <1>2, <1>3, <1>5
<1>6. ASSUME EqOnBounds(lo, hi, code) = "yes", NEW row \in Interval(a, b)
      PROVE  Value(row, col) = code
  BY <1>2, <1>4, <1>6
<1> QED BY <1>5, <1>6 DEF lo, hi

(* A zone with rows in it.                                                 *)
IsZone(z) == z \in Nat /\ ZoneStart(z) \in Nat /\ ZoneEnd(z) \in Nat
             /\ ZoneStart(z) < ZoneEnd(z) /\ ZoneEnd(z) <= Total
ZoneRows(z) == Interval(ZoneStart(z), ZoneEnd(z))

LEMMA ZoneOnBounds ==
  ASSUME IsTable, NEW z, IsZone(z), NEW eq \in [col : Columns, code : Nat]
  PROVE  /\ OnBounds(z, eq) = "no" => \A row \in ZoneRows(z) : Value(row, eq.col) # eq.code
         /\ OnBounds(z, eq) = "yes" => \A row \in ZoneRows(z) : Value(row, eq.col) = eq.code
<1> DEFINE S == ZoneValues(z, eq.col)
<1>1. S = {Value(row, eq.col) : row \in Interval(ZoneStart(z), ZoneEnd(z))}
  BY DEF ZoneValues
<1>2. OnBounds(z, eq) = EqOnBounds(SetMin(S), SetMax(S), eq.code)
  BY DEF OnBounds
<1>3. eq.col \in Columns /\ eq.code \in Nat
  OBVIOUS
<1> HIDE DEF S
<1> QED BY <1>1, <1>2, <1>3, BoundsDecide DEF IsZone, ZoneRows

LEMMA ZoneHolds ==
  ASSUME IsTable, NEW z, IsZone(z), NEW eq \in [col : Columns, code : Nat]
  PROVE  /\ EqHolds(z, eq) = "no" => \A row \in ZoneRows(z) : Value(row, eq.col) # eq.code
         /\ EqHolds(z, eq) = "yes" => \A row \in ZoneRows(z) : Value(row, eq.col) = eq.code
<1>1. CASE OnBounds(z, eq) = "open" /\ Recorded(z, eq.col) /\ RecordedCount(z, eq) = 0
  <2> DEFINE C == {row \in Interval(ZoneStart(z), ZoneEnd(z)) : Value(row, eq.col) = eq.code}
  <2>1. EqHolds(z, eq) = "no" /\ Cardinality(C) = 0
    BY <1>1 DEF EqHolds, RecordedCount
  <2>2. IsFiniteSet(Interval(ZoneStart(z), ZoneEnd(z)))
    BY RunLists, ListSize DEF IsZone
  <2>3. IsFiniteSet(C)
    BY <2>2, FS_Subset
  <2>4. C = {}
    <3> HIDE DEF C
    <3> QED BY <2>1, <2>3, FS_EmptySet
  <2> QED BY <2>1, <2>4 DEF ZoneRows
<1>2. CASE ~(OnBounds(z, eq) = "open" /\ Recorded(z, eq.col) /\ RecordedCount(z, eq) = 0)
  <2>1. EqHolds(z, eq) = OnBounds(z, eq)
    BY <1>2 DEF EqHolds
  <2> QED BY <2>1, ZoneOnBounds
<1> QED BY <1>1, <1>2

(* The bounds of a whole column.                                           *)
LEMMA ColumnDecides ==
  ASSUME IsTable, Total > 0, NEW eq \in [col : Columns, code : Nat]
  PROVE  /\ ColumnBounds(eq) = "no" => \A row \in TableRows : Value(row, eq.col) # eq.code
         /\ ColumnBounds(eq) = "yes" => \A row \in TableRows : Value(row, eq.col) = eq.code
<1> DEFINE S == {Value(row, eq.col) : row \in Interval(0, Total)}
<1>1. ColumnBounds(eq) = EqOnBounds(SetMin(S), SetMax(S), eq.code)
  BY DEF ColumnBounds
<1>2. Total \in Nat /\ 0 \in Nat /\ 0 < Total /\ Total <= Total /\ eq.col \in Columns /\ eq.code \in Nat
  BY TotalIsNat
<1>3. S = {Value(row, eq.col) : row \in Interval(0, Total)}
  OBVIOUS
<1> HIDE DEF S
<1> QED BY <1>1, <1>2, <1>3, BoundsDecide DEF TableRows

(* The classes a scan asks its zones for.                                  *)
IsClasses(classes, eqs) == classes = Zoned(eqs) \/ classes = Pieces(eqs)

(* What a zone's class says of its rows.                                   *)
LEMMA ClassSound ==
  ASSUME IsTable, NEW eqs, IsEqualities(eqs), NEW classes, IsClasses(classes, eqs),
         NEW z, IsZone(z), NEW class, class = ClassOf(classes, eqs, z)
  PROVE  /\ class.class \in {"none", "all", "mixed"}
         /\ class.class = "none" => \A row \in ZoneRows(z) : row \notin Holders(eqs, DOMAIN eqs)
         /\ class.class = "all" => \A row \in ZoneRows(z) : row \in Holders(eqs, DOMAIN eqs)
         /\ class.class = "mixed" =>
              /\ class.bits \subseteq DOMAIN eqs /\ class.bits # {}
              /\ \A row \in ZoneRows(z) : row \in Holders(eqs, class.bits) <=> row \in Holders(eqs, DOMAIN eqs)
<1> DEFINE Holds(i) == IF classes.kind = "pieces" THEN OnBounds(z, eqs[i]) ELSE EqHolds(z, eqs[i])
           unsettled == IF classes.kind = "pieces" THEN DOMAIN eqs
                        ELSE {i \in DOMAIN eqs : i \in classes.checks => Holds(i) = "open"}
           none == \E i \in classes.checks : Holds(i) = "no"
<1>1. class = IF none THEN [class |-> "none"]
              ELSE IF unsettled = {} THEN [class |-> "all"] ELSE [class |-> "mixed", bits |-> unsettled]
  BY DEF ClassOf
<1>2. classes.checks \subseteq DOMAIN eqs
  BY DEF IsClasses, Zoned, Pieces, ZoneChecks
<1>3. \A i \in DOMAIN eqs : eqs[i] \in [col : Columns, code : Nat]
  BY LenProperties, ElementOfSeq DEF IsEqualities
<1>4. \A row \in ZoneRows(z) : row \in TableRows
  BY TotalIsNat DEF IsZone, ZoneRows, Interval, TableRows
<1>5. ASSUME NEW i \in DOMAIN eqs
      PROVE  /\ Holds(i) = "no" => \A row \in ZoneRows(z) : Value(row, eqs[i].col) # eqs[i].code
             /\ Holds(i) = "yes" => \A row \in ZoneRows(z) : Value(row, eqs[i].col) = eqs[i].code
             /\ Holds(i) \in {"no", "yes", "open"}
  <2>1. Holds(i) \in {"no", "yes", "open"}
    BY DEF EqHolds, OnBounds, EqOnBounds
  <2> QED BY <1>3, <2>1, ZoneHolds, ZoneOnBounds
<1> HIDE DEF Holds
<1>6. CASE none
  <2>1. class = [class |-> "none"]
    BY <1>1, <1>6
  <2>2. PICK i \in classes.checks : Holds(i) = "no"
    BY <1>6
  <2>3. \A row \in ZoneRows(z) : row \notin Holders(eqs, DOMAIN eqs)
    BY <1>2, <1>5, <2>2 DEF Holders
  <2> QED BY <2>1, <2>3
<1>7. CASE ~none
  <2>1. unsettled \subseteq DOMAIN eqs
    OBVIOUS
  <2>2. \A i \in DOMAIN eqs : i \notin unsettled => Holds(i) = "yes"
    <3> TAKE i \in DOMAIN eqs
    <3> SUFFICES ASSUME i \notin unsettled PROVE Holds(i) = "yes"
      OBVIOUS
    <3>1. i \in classes.checks /\ Holds(i) # "open"
      OBVIOUS
    <3> QED BY <1>5, <1>7, <3>1
  <2>3. ASSUME NEW row \in ZoneRows(z)
        PROVE  row \in Holders(eqs, unsettled) <=> row \in Holders(eqs, DOMAIN eqs)
    <3> HIDE DEF unsettled
    <3>1. \A i \in DOMAIN eqs : i \notin unsettled => Value(row, eqs[i].col) = eqs[i].code
      BY <1>5, <2>2
    <3> QED BY <2>1, <3>1 DEF Holders
  <2>4. CASE unsettled = {}
    <3>1. class = [class |-> "all"]
      BY <1>1, <1>7, <2>4
    <3>2. \A row \in ZoneRows(z) : row \in Holders(eqs, {})
      BY <1>4 DEF Holders
    <3>3. \A row \in ZoneRows(z) : row \in Holders(eqs, DOMAIN eqs)
      BY <2>3, <2>4, <3>2
    <3> QED BY <3>1, <3>3
  <2>5. CASE unsettled # {}
    <3>1. class = [class |-> "mixed", bits |-> unsettled]
      BY <1>1, <1>7, <2>5
    <3> HIDE DEF unsettled
    <3> QED BY <2>1, <2>3, <2>5, <3>1
  <2> QED BY <2>4, <2>5
<1> QED BY <1>6, <1>7

-----------------------------------------------------------------------------
(* A filter of any sequence                                                *)

LEMMA FilteredMembers ==
  ASSUME NEW X, NEW seq \in Seq(X), NEW S
  PROVE  /\ Filtered(seq, S) \in Seq(X)
         /\ \A x : x \in Members(Filtered(seq, S)) <=> x \in Members(seq) /\ x \in S
<1> DEFINE n == Len(seq)
<1>1. PICK f : IsFilter(f, seq, S) /\ Filtered(seq, S) = f[n]
  BY FilterRuns
<1>2. n \in Nat /\ DOMAIN seq = 1..n /\ \A k \in 1..n : seq[k] \in X /\ seq[k] \in Members(seq)
  BY LenProperties, ElementOfSeq DEF Members
<1>3. /\ f \in [0..n -> Seq(Members(seq))] /\ f[0] = <<>>
      /\ \A k \in 1..n : f[k] = IF seq[k] \in S THEN Append(f[k - 1], seq[k]) ELSE f[k - 1]
  BY <1>1 DEF IsFilter
<1> HIDE DEF n
<1> DEFINE T == {k \in 0..n : /\ f[k] \in Seq(X)
                              /\ \A x : x \in Members(f[k]) <=> x \in S /\ \E i \in 1..k : x = seq[i]}
<1>4. 0 \in T
  <2>1. f[0] \in Seq(X)
    BY <1>3
  <2>2. Members(f[0]) = {}
    BY <1>3 DEF Members
  <2>3. \A x : x \in Members(f[0]) <=> x \in S /\ \E i \in 1..0 : x = seq[i]
    BY <2>2
  <2> QED BY <1>2, <2>1, <2>3
<1>5. ASSUME NEW k \in 1..n, k - 1 \in T PROVE k \in T
  <2>1. /\ f[k - 1] \in Seq(X)
        /\ \A x : x \in Members(f[k - 1]) <=> x \in S /\ \E i \in 1..(k - 1) : x = seq[i]
    BY <1>5
  <2>2. k \in 0..n /\ seq[k] \in X
    BY <1>2
  <2>3. \A x : (\E i \in 1..k : x = seq[i]) <=> (\E i \in 1..(k - 1) : x = seq[i]) \/ x = seq[k]
    <3>1. \A i \in 1..k : i \in 1..(k - 1) \/ i = k
      BY <1>2
    <3>2. k \in 1..k /\ \A i \in 1..(k - 1) : i \in 1..k
      BY <1>2
    <3> QED BY <3>1, <3>2
  <2>4. CASE seq[k] \in S
    <3>1. f[k] = Append(f[k - 1], seq[k])
      BY <1>3, <2>4
    <3> DEFINE g == f[k - 1]
    <3>2. g \in Seq(X)
      BY <2>1
    <3> HIDE DEF g
    <3>3. /\ Append(g, seq[k]) \in Seq(X) /\ Len(g) \in Nat /\ Len(Append(g, seq[k])) = Len(g) + 1
          /\ \A i \in 1..Len(g) : Append(g, seq[k])[i] = g[i]
          /\ Append(g, seq[k])[Len(g) + 1] = seq[k]
      BY <2>2, <3>2, AppendProperties, LenProperties
    <3>4. DOMAIN Append(g, seq[k]) = 1..(Len(g) + 1) /\ DOMAIN g = 1..Len(g)
      BY <3>2, <3>3, LenProperties
    <3>5. \A i \in 1..(Len(g) + 1) : i \in 1..Len(g) \/ i = Len(g) + 1
      BY <3>3
    <3>6. (\A i \in 1..Len(g) : i \in 1..(Len(g) + 1)) /\ Len(g) + 1 \in 1..(Len(g) + 1)
      BY <3>3
    <3>7. Members(Append(g, seq[k])) = Members(g) \cup {seq[k]}
      BY <3>3, <3>4, <3>5, <3>6 DEF Members
    <3>8. \A x : x \in Members(f[k]) <=> x \in S /\ \E i \in 1..k : x = seq[i]
      BY <2>1, <2>3, <2>4, <3>1, <3>7 DEF g
    <3>9. f[k] \in Seq(X)
      BY <3>1, <3>3 DEF g
    <3> QED BY <2>2, <3>8, <3>9
  <2>5. CASE seq[k] \notin S
    <3>1. f[k] = f[k - 1]
      BY <1>3, <2>5
    <3>2. \A x : x \in Members(f[k]) <=> x \in S /\ \E i \in 1..k : x = seq[i]
      BY <2>1, <2>3, <2>5, <3>1
    <3> QED BY <2>1, <2>2, <3>1, <3>2
  <2> QED BY <2>4, <2>5
<1>6. \A k \in 0..n : k \in T
  <2> HIDE DEF T
  <2> QED BY <1>2, <1>4, <1>5, Upward
<1>7. n \in T
  <2>1. n \in 0..n
    BY <1>2
  <2> HIDE DEF T
  <2> QED BY <1>6, <2>1
<1>8. \A x : x \in Members(seq) <=> \E i \in 1..n : x = seq[i]
  BY <1>2 DEF Members
<1>9. /\ f[n] \in Seq(X)
      /\ \A x : x \in Members(f[n]) <=> x \in S /\ \E i \in 1..n : x = seq[i]
  BY <1>7
<1> HIDE DEF T
<1> QED BY <1>1, <1>8, <1>9 DEF n

(* What the statistics leave to be compared holds of a row exactly when    *)
(* all equalities asked do.                                                *)
SameHolders(open, eqs) == Holders(open, DOMAIN open) = Holders(eqs, DOMAIN eqs)

LEMMA HoldersByMembers ==
  ASSUME NEW eqs, IsEqualities(eqs), NEW row \in TableRows
  PROVE  row \in Holders(eqs, DOMAIN eqs) <=> \A eq \in Members(eqs) : Value(row, eq.col) = eq.code
BY DEF Holders, Members

LEMMA AskedSettles ==
  ASSUME IsTable, Total > 0, NEW eqs, IsEqualities(eqs), NEW s,
         NEW asked, asked = AskStatistics(s, eqs)
  PROVE  /\ asked.asked \in {"nothing", "everything", "open"}
         /\ asked.asked = "nothing" => \A row \in TableRows : row \notin Holders(eqs, DOMAIN eqs)
         /\ asked.asked = "everything" => \A row \in TableRows : row \in Holders(eqs, DOMAIN eqs)
         /\ asked.asked = "open" =>
              /\ IsEqualities(asked.eqs) /\ SameHolders(asked.eqs, eqs)
              /\ IsClasses(asked.classes, asked.eqs)
<1> DEFINE Settled(eq) == IF HasZones(eq) /\ Total > 0 THEN ColumnBounds(eq) ELSE "open"
           E == {eq \in Members(eqs) : Settled(eq) # "yes"}
           open == Filtered(eqs, E)
           X == [col : Columns, code : Nat]
           no == \E i \in DOMAIN eqs : Settled(eqs[i]) = "no"
           classes == IF ZoneChecks(open) # {} /\ AsRows(s, Total) # <<>> THEN Zoned(open) ELSE Pieces(open)
<1>1. asked = IF no THEN [asked |-> "nothing"] ELSE IF open = <<>> THEN [asked |-> "everything"]
              ELSE [asked |-> "open", eqs |-> open, classes |-> classes]
  BY DEF AskStatistics
<1>2. eqs \in Seq(X) /\ \A eq \in Members(eqs) : eq \in X
  <2>1. eqs \in Seq(X)
    BY DEF IsEqualities
  <2> HIDE DEF X
  <2>2. DOMAIN eqs = 1..Len(eqs) /\ \A i \in 1..Len(eqs) : eqs[i] \in X
    BY <2>1, LenProperties, ElementOfSeq
  <2> QED BY <2>1, <2>2 DEF Members
<1>3. /\ open \in Seq(X)
      /\ \A eq : eq \in Members(open) <=> eq \in Members(eqs) /\ eq \in E
  <2> HIDE DEF E, X
  <2> QED BY <1>2, FilteredMembers
<1>4. ASSUME NEW eq \in Members(eqs)
      PROVE  /\ Settled(eq) = "no" => \A row \in TableRows : Value(row, eq.col) # eq.code
             /\ Settled(eq) = "yes" => \A row \in TableRows : Value(row, eq.col) = eq.code
  BY <1>2, ColumnDecides
<1> HIDE DEF Settled, X
<1>5. \A eq : eq \in Members(open) <=> eq \in Members(eqs) /\ Settled(eq) # "yes"
  BY <1>3
<1> HIDE DEF E, open, classes
<1>6. IsEqualities(open)
  BY <1>3 DEF IsEqualities, X
<1>7. \A row \in TableRows : row \in Holders(open, DOMAIN open) <=> row \in Holders(eqs, DOMAIN eqs)
  <2> TAKE row \in TableRows
  <2>1. \A eq \in Members(eqs) : eq \in Members(open) \/ Value(row, eq.col) = eq.code
    BY <1>4, <1>5
  <2>2. \A eq \in Members(open) : eq \in Members(eqs)
    BY <1>5
  <2> QED BY <1>6, <2>1, <2>2, HoldersByMembers
<1>8. SameHolders(open, eqs)
  BY <1>7 DEF SameHolders, Holders
<1>9. CASE no
  <2>1. asked = [asked |-> "nothing"]
    BY <1>1, <1>9
  <2>2. PICK i \in DOMAIN eqs : Settled(eqs[i]) = "no"
    BY <1>9
  <2>3. eqs[i] \in Members(eqs)
    BY DEF Members
  <2>4. \A row \in TableRows : Value(row, eqs[i].col) # eqs[i].code
    BY <1>4, <2>2, <2>3
  <2>5. \A row \in TableRows : row \notin Holders(eqs, DOMAIN eqs)
    BY <2>4 DEF Holders
  <2> QED BY <2>1, <2>5
<1>10. CASE ~no /\ open = <<>>
  <2>1. asked = [asked |-> "everything"]
    BY <1>1, <1>10
  <2>2. \A row \in TableRows : row \in Holders(open, DOMAIN open)
    BY <1>10 DEF Holders
  <2> QED BY <1>7, <2>1, <2>2
<1>11. CASE ~no /\ open # <<>>
  <2>1. asked = [asked |-> "open", eqs |-> open, classes |-> classes]
    BY <1>1, <1>11
  <2>2. IsClasses(classes, open)
    BY DEF IsClasses, classes
  <2> QED BY <1>6, <1>8, <2>1, <2>2
<1> QED BY <1>9, <1>10, <1>11

-----------------------------------------------------------------------------
(* Zones and parts                                                         *)

PartStates == [zone : Nat, start : Nat, end : Nat]

(* A part of a span, in one zone.                                          *)
IsPart(p, a, b) ==
  /\ IsZone(p.zone) /\ p.start \in Nat /\ p.end \in Nat
  /\ ZoneStart(p.zone) <= p.start /\ p.start < p.end /\ p.end <= ZoneEnd(p.zone)
  /\ a <= p.start /\ p.end <= b

(* The first n parts of a span, from end to end.                           *)
PartsJoin(parts, n, a, b) ==
  /\ n \in Nat /\ n > 0 /\ parts \in Seq(PartStates) /\ DOMAIN parts = 1..n
  /\ \A k \in 1..n : IsPart(parts[k], a, b)
  /\ parts[1].start = a /\ parts[n].end = b
  /\ \A k \in 1..(n - 1) : parts[k].end = parts[k + 1].start

(* What lies in both of two spans that meet, the second within a table.    *)
LEMMA EndsCut ==
  ASSUME NEW x \in Nat, NEW z \in Nat, NEW a \in Nat, NEW b \in Nat, NEW total \in Nat,
         z # 0, a < b, b <= total, x < b, a < x + z
  PROVE  /\ Greatest(x, a) \in Nat /\ Least(x + z, b) \in Nat
         /\ x <= Greatest(x, a) /\ Greatest(x, a) < Least(x + z, b)
         /\ Least(x + z, b) <= Least(x + z, total) /\ a <= Greatest(x, a) /\ Least(x + z, b) <= b
<1>1. Greatest(x, a) \in Nat /\ x <= Greatest(x, a) /\ a <= Greatest(x, a) /\ Greatest(x, a) \in {x, a}
  BY DEF Greatest
<1>2. Least(x + z, b) \in Nat /\ Least(x + z, b) <= b /\ Least(x + z, b) \in {x + z, b}
  BY DEF Least
<1>3. Least(x + z, b) <= Least(x + z, total)
  BY DEF Least
<1>4. x < x + z
  OBVIOUS
<1> QED BY <1>1, <1>2, <1>3, <1>4

(* The parts of a span lie each in a zone, and join from end to end.       *)
LEMMA ZonePartsJoin ==
  ASSUME IsTable, NEW a \in Nat, NEW b \in Nat, a < b, b <= Total,
         NEW parts, parts = ZoneParts(<<a, b>>), NEW count, count = Len(parts)
  PROVE  PartsJoin(parts, count, a, b)
<1> DEFINE Z == ZONE_ROWS
           M == [z \in Nat |-> z * Z]
           first == a \div Z
           last == (b - 1) \div Z
           n == last + 1 - first
<1>1. Z \in Nat /\ Z # 0 /\ Total \in Nat
  BY ScanSizes, TotalIsNat
<1>2. first \in Nat /\ last \in Nat
  <2>1. b - 1 \in Nat
    OBVIOUS
  <2> HIDE DEF Z
  <2> QED BY <1>1, <2>1, Quotient
<1>3. M[first] <= a /\ a < M[first] + Z /\ M[last] <= b - 1 /\ b - 1 < M[last] + Z
  <2>1. b - 1 \in Nat
    OBVIOUS
  <2> HIDE DEF Z
  <2>2. first * Z <= a /\ a < first * Z + Z /\ last * Z <= b - 1 /\ b - 1 < last * Z + Z
    BY <1>1, <2>1, Quotient
  <2> HIDE DEF first, last
  <2> QED BY <1>2, <2>2
<1>4. \A z \in Nat : M[z] \in Nat /\ M[z + 1] = M[z] + Z
  <2> HIDE DEF Z
  <2> TAKE z \in Nat
  <2>1. (z + 1) * Z = z * Z + Z /\ z * Z \in Nat
    BY <1>1, TimesNext
  <2>2. z + 1 \in Nat
    OBVIOUS
  <2> QED BY <2>1, <2>2
<1>5. \A x, y \in Nat : x <= y => M[x] <= M[y]
  <2> HIDE DEF Z
  <2> QED BY <1>1, TimesGrows
<1>6. \A z \in Nat : ZoneStart(z) = M[z] /\ ZoneEnd(z) = Least(M[z + 1], Total)
  BY DEF ZoneStart, ZoneEnd
<1> DEFINE Part(k) == [zone  |-> first + k - 1,
                       start |-> Greatest(ZoneStart(first + k - 1), a),
                       end   |-> Least(ZoneEnd(first + k - 1), b)]
<1>7. parts = [k \in 1..n |-> Part(k)]
  <2>1. Least(b, Total) = b /\ ~(b <= a)
    BY <1>1 DEF Least
  <2>2. <<a, b>>[1] = a /\ <<a, b>>[2] = b
    OBVIOUS
  <2> QED BY <2>1, <2>2 DEF ZoneParts
<1> HIDE DEF Z, M, first, last
<1>8. first <= last
  <2> SUFFICES ASSUME last + 1 <= first PROVE FALSE
    BY <1>2
  <2>1. M[last + 1] <= M[first]
    <3>1. last + 1 \in Nat
      BY <1>2
    <3> QED BY <1>2, <1>5, <3>1
  <2>2. M[last + 1] = M[last] + Z /\ M[last] \in Nat /\ M[first] \in Nat
    BY <1>2, <1>4
  <2> QED BY <1>1, <1>3, <2>1, <2>2
<1>9. n \in Nat /\ n > 0
  BY <1>2, <1>8
<1>10. Len(parts) = n /\ DOMAIN parts = 1..n
  <2> HIDE DEF n, Part
  <2>1. parts \in Seq({Part(k) : k \in 1..n}) /\ Len(parts) = n
    BY <1>7, <1>9, IsASeq
  <2> QED BY <1>7, <2>1
<1>11. ASSUME NEW k \in 1..n
       PROVE  LET z == first + k - 1 IN
              /\ z \in Nat /\ z + 1 \in Nat /\ first <= z /\ z <= last
              /\ M[z] \in Nat /\ M[z + 1] = M[z] + Z /\ M[first] <= M[z] /\ M[z] <= M[last]
              /\ parts[k].zone = z
              /\ parts[k].start = Greatest(M[z], a) /\ parts[k].end = Least(M[z + 1], b)
              /\ ZoneStart(z) = M[z] /\ ZoneEnd(z) = Least(M[z + 1], Total)
  <2> DEFINE z == first + k - 1
  <2>1. z \in Nat /\ z + 1 \in Nat /\ first <= z /\ z <= last
    BY <1>2, <1>8
  <2>2. parts[k] = Part(k)
    BY <1>7
  <2>3. parts[k].zone = z /\ parts[k].start = Greatest(ZoneStart(z), a) /\ parts[k].end = Least(ZoneEnd(z), b)
    BY <2>2
  <2> HIDE DEF z
  <2>4. M[z] \in Nat /\ M[z + 1] = M[z] + Z /\ M[first] <= M[z] /\ M[z] <= M[last]
    BY <1>2, <1>4, <1>5, <2>1
  <2>5. ZoneStart(z) = M[z] /\ ZoneEnd(z) = Least(M[z + 1], Total)
    BY <1>6, <2>1
  <2>6. Least(Least(M[z + 1], Total), b) = Least(M[z + 1], b)
    BY <1>1, <2>4 DEF Least
  <2> QED BY <2>1, <2>3, <2>4, <2>5, <2>6 DEF z
<1>12. ASSUME NEW k \in 1..n
       PROVE  /\ IsZone(parts[k].zone) /\ parts[k].zone \in Nat
              /\ parts[k].start \in Nat /\ parts[k].end \in Nat
              /\ ZoneStart(parts[k].zone) <= parts[k].start /\ parts[k].start < parts[k].end
              /\ parts[k].end <= ZoneEnd(parts[k].zone) /\ a <= parts[k].start /\ parts[k].end <= b
  <2> DEFINE z == first + k - 1
             x == M[z]
  <2>1. /\ z \in Nat /\ x \in Nat /\ M[first] <= x /\ x <= M[last]
        /\ parts[k].zone = z
        /\ parts[k].start = Greatest(x, a) /\ parts[k].end = Least(x + Z, b)
        /\ ZoneStart(z) = x /\ ZoneEnd(z) = Least(x + Z, Total)
    BY <1>11
  <2> HIDE DEF z, x
  <2>2. x \in Nat /\ x < b /\ a < x + Z
    <3>1. M[first] \in Nat /\ M[last] \in Nat
      BY <1>2, <1>4
    <3>2. x \in Nat /\ M[first] <= x /\ x <= M[last]
      BY <2>1
    <3> HIDE DEF M
    <3> QED BY <1>1, <1>3, <3>1, <3>2
  <2>3. x < Total /\ x + Z > x
    BY <1>1, <2>2
  <2>4. IsZone(z)
    <3>1. Least(x + Z, Total) \in Nat /\ x < Least(x + Z, Total) /\ Least(x + Z, Total) <= Total
      BY <1>1, <2>2, <2>3 DEF Least
    <3> QED BY <2>1, <3>1 DEF IsZone
  <2>5. /\ Greatest(x, a) \in Nat /\ Least(x + Z, b) \in Nat
        /\ x <= Greatest(x, a) /\ Greatest(x, a) < Least(x + Z, b)
        /\ Least(x + Z, b) <= Least(x + Z, Total) /\ a <= Greatest(x, a) /\ Least(x + Z, b) <= b
    BY <1>1, <2>2, EndsCut
  <2> QED BY <2>1, <2>4, <2>5
<1>13. parts \in Seq(PartStates)
  <2>1. \A k \in 1..n : parts[k] \in PartStates
    <3> TAKE k \in 1..n
    <3>1. parts[k] = Part(k)
      BY <1>7
    <3>2. parts[k].zone \in Nat /\ parts[k].start \in Nat /\ parts[k].end \in Nat
      BY <1>12
    <3> QED BY <3>1, <3>2 DEF PartStates
  <2>2. parts = [k \in 1..n |-> parts[k]]
    BY <1>7
  <2> HIDE DEF n
  <2> QED BY <1>9, <2>1, <2>2, IsASeq
<1>14. parts[1].start = a
  <2>1. 1 \in 1..n /\ first + 1 - 1 = first
    BY <1>2, <1>9
  <2>2. parts[1].start = Greatest(M[first], a)
    BY <1>11, <2>1
  <2> QED BY <1>2, <1>3, <1>4, <2>2 DEF Greatest
<1>15. parts[n].end = b
  <2>1. n \in 1..n /\ first + n - 1 = last
    BY <1>2, <1>9
  <2>2. parts[n].end = Least(M[last + 1], b)
    BY <1>11, <2>1
  <2>3. M[last + 1] = M[last] + Z /\ M[last] \in Nat
    BY <1>2, <1>4
  <2> QED BY <1>1, <1>3, <2>2, <2>3 DEF Least
<1>16. ASSUME NEW k \in 1..(n - 1) PROVE parts[k].end = parts[k + 1].start
  <2> DEFINE z == first + k - 1
  <2>1. k \in 1..n /\ k + 1 \in 1..n /\ first + (k + 1) - 1 = z + 1 /\ z + 1 <= last /\ z \in Nat /\ first <= z
    BY <1>2, <1>9
  <2>2. parts[k].end = Least(M[z + 1], b)
    BY <1>11, <2>1
  <2>3. parts[k + 1].start = Greatest(M[z + 1], a)
    <3>1. parts[k + 1].start = Greatest(M[first + (k + 1) - 1], a)
      BY <1>11, <2>1
    <3> QED BY <2>1, <3>1
  <2> HIDE DEF z
  <2>4. M[first + 1] <= M[z + 1] /\ M[z + 1] <= M[last] /\ M[z + 1] \in Nat /\ M[last] \in Nat
    <3>1. first + 1 \in Nat /\ z + 1 \in Nat /\ first + 1 <= z + 1
      BY <1>2, <2>1
    <3> QED BY <1>2, <1>4, <1>5, <2>1, <3>1
  <2>5. M[first + 1] = M[first] + Z /\ M[first] \in Nat
    BY <1>2, <1>4
  <2> QED BY <1>1, <1>3, <2>2, <2>3, <2>4, <2>5 DEF Least, Greatest
<1> HIDE DEF n
<1>17. \A k \in 1..n : IsPart(parts[k], a, b)
  BY <1>12 DEF IsPart
<1> QED BY <1>9, <1>10, <1>13, <1>14, <1>15, <1>16, <1>17 DEF PartsJoin

(* s selects the rows of R, which lie from a on and before b.              *)
InSpan(s, R, a, b) ==
  /\ Selects(s, R) /\ a \in R /\ a \in Nat /\ b \in Nat /\ a < b /\ b <= Total
  /\ R \subseteq Interval(a, b) /\ (s.kind # "ids" => R = Interval(a, b))

(* The span of a selection that is not empty.                              *)
LEMMA SpanIs ==
  ASSUME IsTable, NEW s, NEW R, Selects(s, R), R # {}
  PROVE  LET rows == AsRows(s, Total)
         IN SpanOf(s) = <<rows[1], rows[Len(rows)] + 1>> /\ InSpan(s, R, rows[1], rows[Len(rows)] + 1)
<1> DEFINE rows == AsRows(s, Total)
           n == Len(rows)
           a == rows[1]
           b == rows[n] + 1
<1>1. Lists(rows, R)
  BY SelectionAnswers
<1> HIDE DEF rows
<1>2. /\ n \in Nat /\ R \subseteq Nat
      /\ \A i \in 1..n : rows[i] \in R /\ rows[i] \in Nat
      /\ \A x \in R : \E i \in 1..n : x = rows[i]
      /\ \A i, j \in 1..n : rows[i] < rows[j] <=> i < j
  BY <1>1, ListFacts
<1>3. 1 \in 1..n /\ n \in 1..n
  <2>1. PICK i \in 1..n : TRUE
    BY <1>2
  <2> QED BY <1>2, <2>1
<1>4. \A i \in 1..n : ~(rows[i] < a) /\ ~(rows[n] < rows[i])
  BY <1>2, <1>3
<1>5. a \in R /\ a \in Nat /\ b \in Nat /\ a < b
  BY <1>2, <1>3, <1>4
<1>6. rows[n] \in R /\ rows[n] \in Nat
  BY <1>2, <1>3
<1>7. b <= Total
  <2>1. R \subseteq TableRows /\ Total \in Nat
    BY Shapes, TotalIsNat
  <2> QED BY <1>6, <2>1 DEF TableRows, Interval
<1> HIDE DEF n
<1>8. \A x \in R : a <= x /\ x < b /\ x \in Nat
  BY <1>2, <1>4, <1>5, <1>6
<1>9. R \subseteq Interval(a, b)
  BY <1>5, <1>8 DEF Interval
<1>10. ASSUME s.kind # "ids" PROVE R = Interval(a, b)
  <2>1. PICK x \in Nat, y \in Nat : R = Interval(x, y)
    <3>1. Total \in Nat /\ 0 \in Nat
      BY TotalIsNat
    <3> QED BY <1>10, <3>1, Shapes DEF TableRows
  <2> HIDE DEF a
  <2>2. x <= a /\ rows[n] < y
    BY <1>5, <1>6, <2>1 DEF Interval
  <2>3. \A i \in Interval(a, b) : i \in R
    BY <1>5, <1>6, <2>1, <2>2 DEF Interval
  <2> QED BY <1>9, <2>3
<1>11. Selects(s, R)
  OBVIOUS
<1>12. InSpan(s, R, a, b)
  BY <1>5, <1>7, <1>9, <1>10, <1>11 DEF InSpan
<1>13. SpanOf(s) = <<a, b>>
  BY DEF SpanOf, a, b, n, rows
<1> QED BY <1>12, <1>13 DEF a, b, n, rows

(* The part of a selection between two rows of its span.                   *)
LEMMA PartSelects ==
  ASSUME IsTable, NEW s, NEW R, NEW a, NEW b, InSpan(s, R, a, b),
         NEW x \in Nat, NEW y \in Nat, a <= x, x <= y, y <= b
  PROVE  Selects(PartOf(s, x, y), R \cap Interval(x, y))
<1>1. /\ a \in Nat /\ b \in Nat /\ b <= Total /\ Total \in Nat
      /\ (s.kind # "ids" => R = Interval(a, b)) /\ Selects(s, R)
  BY TotalIsNat DEF InSpan
<1>2. CASE s.kind = "ids"
  <2>1. Lists(s.ids, R) /\ R \subseteq TableRows
    BY <1>1, <1>2, Shapes
  <2>2. Lists(RestrictIds(s.ids, x, y), R \cap Interval(x, y))
    BY <2>1, RestrictLists
  <2>3. PartOf(s, x, y) = Ids(RestrictIds(s.ids, x, y))
    BY <1>2 DEF PartOf
  <2> QED BY <2>1, <2>2, <2>3, SelectsIds
<1>3. CASE s.kind # "ids"
  <2>1. R \cap Interval(x, y) = Interval(x, y)
    BY <1>1, <1>3 DEF Interval
  <2>2. Selects(RangeOf(x, y), Interval(x, y))
    BY <1>1, SelectsRange
  <2>3. PartOf(s, x, y) = RangeOf(x, y)
    BY <1>3 DEF PartOf
  <2> QED BY <2>1, <2>2, <2>3
<1> QED BY <1>2, <1>3

-----------------------------------------------------------------------------
(* Comparing and counting                                                  *)

(* A comparison to run: equalities, and the classes of the zones.          *)
IsCompare(c) == IsEqualities(c.eqs) /\ IsClasses(c.classes, c.eqs)

(* The rows that satisfy all its equalities.                               *)
Matches(c) == Holders(c.eqs, DOMAIN c.eqs)

(* What is compared of a selection are its rows that satisfy bits.         *)
LEMMA CompareLists ==
  ASSUME IsTable, NEW c, NEW s, NEW R, Selects(s, R), NEW bits
  PROVE  /\ Selects(Compare(c, s, bits), R \cap Holders(c.eqs, bits))
         /\ Lists(AsRows(Compare(c, s, bits), Total), R \cap Holders(c.eqs, bits))
<1> DEFINE H == Holders(c.eqs, bits)
           seq == AsRows(s, Total)
<1>1. Compare(c, s, bits) = Ids(Filtered(seq, H))
  BY DEF Compare, FilterRows, Holders, TableRows
<1>2. Lists(seq, R) /\ R \subseteq TableRows
  BY SelectionAnswers, Shapes
<1> HIDE DEF H, seq
<1>3. Lists(Filtered(seq, H), R \cap H) /\ R \cap H \subseteq TableRows
  BY <1>2, FilteredLists
<1>4. Selects(Compare(c, s, bits), R \cap H)
  BY <1>1, <1>3, SelectsIds
<1> QED BY <1>4, SelectionAnswers DEF H

(* The live rows of a selection are counted as all less the deleted.       *)
LEMMA LiveCounts ==
  ASSUME IsTable, NEW c, NEW s, NEW R, Selects(s, R)
  PROVE  /\ Tombstoned(s, c.deleted) = Cardinality(R \cap c.deleted.rows)
         /\ IsFiniteSet(R \ c.deleted.rows) /\ Cardinality(R \ c.deleted.rows) \in Nat
         /\ LiveCount(c, s) = Cardinality(R \ c.deleted.rows)
<1> DEFINE D == c.deleted.rows
           K == R \cap D
           L == R \ D
<1>1. IsFiniteSet(R) /\ SelLen(s, Total) = Cardinality(R) /\ Members(AsRows(s, Total)) = R
  BY SelectionAnswers DEF Lists
<1>2. IsFiniteSet(K) /\ IsFiniteSet(L)
  BY <1>1, FS_Subset
<1>3. Tombstoned(s, c.deleted) = Cardinality(K)
  BY <1>1 DEF Tombstoned
<1>4. K \cap L = {} /\ K \cup L = R
  OBVIOUS
<1> HIDE DEF K, L
<1>5. Cardinality(K) \in Nat /\ Cardinality(L) \in Nat
  BY <1>2, FS_CardinalityType
<1>6. Cardinality(R) = Cardinality(K) + Cardinality(L)
  <2>1. Cardinality(K \cup L) = Cardinality(K) + Cardinality(L) - Cardinality(K \cap L)
    BY <1>2, FS_Union
  <2>2. Cardinality(K \cap L) = 0
    BY <1>4, FS_EmptySet
  <2>3. Cardinality(K \cup L) = Cardinality(R)
    BY <1>4
  <2> DEFINE x == Cardinality(K)
             y == Cardinality(L)
             z == Cardinality(K \cap L)
             w == Cardinality(K \cup L)
  <2>4. w = x + y - z /\ z = 0 /\ x \in Nat /\ y \in Nat
    BY <1>5, <2>1, <2>2
  <2> HIDE DEF x, y, z, w
  <2>5. w = x + y
    BY <2>4
  <2> QED BY <2>3, <2>5 DEF x, y, w
<1>7. LiveCount(c, s) = Cardinality(L)
  BY <1>1, <1>3, <1>5, <1>6 DEF LiveCount
<1> QED BY <1>2, <1>3, <1>5, <1>7 DEF K, L

(* One equality's positions.                                               *)
LEMMA OneBit ==
  ASSUME NEW eqs, IsEqualities(eqs), NEW bits, bits \subseteq DOMAIN eqs, Cardinality(bits) = 1
  PROVE  LET i == CHOOSE j \in bits : TRUE
         IN /\ i \in DOMAIN eqs /\ bits = {i}
            /\ Holders(eqs, bits) = {row \in TableRows : Value(row, eqs[i].col) = eqs[i].code}
<1>1. Len(eqs) \in Nat /\ DOMAIN eqs = 1..Len(eqs)
  BY LenProperties DEF IsEqualities
<1>2. IsFiniteSet(1..Len(eqs))
  BY <1>1, FS_Interval
<1>3. IsFiniteSet(bits)
  BY <1>1, <1>2, FS_Subset
<1>4. \E x : bits = {x}
  BY <1>3, FS_Singleton
<1>5. bits = {CHOOSE j \in bits : TRUE}
  BY <1>4
<1> DEFINE i == CHOOSE j \in bits : TRUE
<1>6. bits = {i} /\ i \in DOMAIN eqs
  BY <1>5
<1> HIDE DEF i
<1>7. Holders(eqs, bits) = {row \in TableRows : Value(row, eqs[i].col) = eqs[i].code}
  BY <1>6 DEF Holders
<1> QED BY <1>6, <1>7 DEF i

(* A count known without comparing is that of the live rows.               *)
LEMMA UnreadCounts ==
  ASSUME IsTable, NEW c, IsCompare(c), NEW p, IsZone(p.zone), NEW part, NEW P, Selects(part, P),
         P \subseteq ZoneRows(p.zone), NEW bits, bits \subseteq DOMAIN c.eqs,
         NEW plan, plan = UnreadPlan(c, p, part, bits)
  PROVE  /\ plan.some \in BOOLEAN
         /\ plan.some => /\ plan.count \in Nat
                         /\ plan.count = Cardinality((P \cap Holders(c.eqs, bits)) \ c.deleted.rows)
<1> DEFINE eq == c.eqs[CHOOSE i \in bits : TRUE]
           whole == SelLen(part, Total) = ZoneEnd(p.zone) - ZoneStart(p.zone)
           recorded == whole /\ eq \in {c.eqs[i] : i \in c.classes.checks} /\ Recorded(p.zone, eq.col)
           counted == Cardinality({row \in Members(AsRows(part, Total)) : Value(row, eq.col) = eq.code})
           G == P \cap Holders(c.eqs, bits)
<1>1. plan = IF Cardinality(bits) # 1 \/ Tombstoned(part, c.deleted) > 0 THEN [some |-> FALSE]
             ELSE IF recorded THEN [some |-> TRUE, count |-> RecordedCount(p.zone, eq)]
             ELSE IF part.kind = "ids" THEN [some |-> FALSE]
             ELSE [some |-> TRUE, count |-> counted]
  BY DEF UnreadPlan
<1>2. /\ SelLen(part, Total) = Cardinality(P) /\ IsFiniteSet(P) /\ Members(AsRows(part, Total)) = P
      /\ P \subseteq TableRows
  BY SelectionAnswers, Shapes DEF Lists
<1> HIDE DEF whole, eq
<1>3. CASE Cardinality(bits) # 1 \/ Tombstoned(part, c.deleted) > 0
  BY <1>1, <1>3
<1>4. CASE ~(Cardinality(bits) # 1 \/ Tombstoned(part, c.deleted) > 0)
  <2>1. Holders(c.eqs, bits) = {row \in TableRows : Value(row, eq.col) = eq.code}
    BY <1>4, OneBit DEF IsCompare, eq
  <2>2. P \cap c.deleted.rows = {}
    <3>1. Tombstoned(part, c.deleted) = Cardinality(P \cap c.deleted.rows)
      BY LiveCounts
    <3>2. IsFiniteSet(P \cap c.deleted.rows)
      BY <1>2, FS_Subset
    <3>3. Cardinality(P \cap c.deleted.rows) \in Nat
      BY <3>2, FS_CardinalityType
    <3>4. Cardinality(P \cap c.deleted.rows) = 0
      BY <1>4, <3>1, <3>3
    <3> QED BY <3>2, <3>4, FS_EmptySet
  <2>3. G \ c.deleted.rows = G /\ IsFiniteSet(G)
    <3>1. G \ c.deleted.rows = G
      BY <2>2
    <3> QED BY <1>2, <3>1, FS_Subset
  <2>4. G = {row \in P : Value(row, eq.col) = eq.code}
    BY <1>2, <2>1
  <2>5. Cardinality(G) \in Nat
    BY <2>3, FS_CardinalityType
  <2>6. counted = Cardinality(G)
    BY <1>2, <2>4
  <2>7. ASSUME recorded PROVE RecordedCount(p.zone, eq) = Cardinality(G)
    <3> DEFINE a == ZoneStart(p.zone)
               b == ZoneEnd(p.zone)
               W == Interval(a, b)
    <3>1. a \in Nat /\ b \in Nat /\ a < b
      BY DEF IsZone
    <3>2. P \subseteq W
      BY DEF ZoneRows
    <3>3. Cardinality(P) = b - a
      BY <1>2, <2>7 DEF whole
    <3>4. RecordedCount(p.zone, eq) = Cardinality({row \in W : Value(row, eq.col) = eq.code})
      BY DEF RecordedCount
    <3> HIDE DEF a, b
    <3>5. Lists(Run(a, b), W) /\ Len(Run(a, b)) = Minus(b, a)
      BY <3>1, RunLists
    <3>6. Minus(b, a) = b - a
      BY <3>1 DEF Minus
    <3> HIDE DEF W
    <3>7. IsFiniteSet(W) /\ Cardinality(W) = b - a
      BY <3>5, <3>6, ListSize
    <3>8. P = W
      BY <3>2, <3>3, <3>7, FS_Subset
    <3> QED BY <2>4, <3>4, <3>8
  <2> HIDE DEF counted, recorded
  <2>8. Cardinality((P \cap Holders(c.eqs, bits)) \ c.deleted.rows) = Cardinality(G)
    BY <2>3
  <2> HIDE DEF G
  <2>9. CASE recorded
    <3>1. plan = [some |-> TRUE, count |-> RecordedCount(p.zone, eq)]
      BY <1>1, <1>4, <2>9
    <3>2. plan.some = TRUE /\ plan.count = RecordedCount(p.zone, eq)
      BY <3>1
    <3> QED BY <2>5, <2>7, <2>8, <2>9, <3>2
  <2>10. CASE ~recorded /\ part.kind = "ids"
    BY <1>1, <1>4, <2>10
  <2>11. CASE ~recorded /\ part.kind # "ids"
    <3>1. plan = [some |-> TRUE, count |-> counted]
      BY <1>1, <1>4, <2>11
    <3>2. plan.some = TRUE /\ plan.count = counted
      BY <3>1
    <3> QED BY <2>5, <2>6, <2>8, <3>2
  <2> QED BY <2>9, <2>10, <2>11
<1> QED BY <1>3, <1>4

-----------------------------------------------------------------------------
(* Steps                                                                   *)

StepKinds(eqs) ==
  [step : {"skip", "take"}] \cup [step : {"unread"}, count : Nat]
    \cup [step : {"compare"}, bits : SUBSET DOMAIN eqs]

StepStates(eqs) == [start : Nat, end : Nat, step : StepKinds(eqs)]

(* What a step says of the rows of P.                                      *)
Says(c, step, P, counting) ==
  /\ step \in StepKinds(c.eqs)
  /\ step.step = "skip" => P \cap Matches(c) = {}
  /\ step.step = "take" => P \subseteq Matches(c)
  /\ step.step = "compare" => P \cap Holders(c.eqs, step.bits) = P \cap Matches(c)
  /\ step.step = "unread" => /\ counting
                             /\ step.count = Cardinality((P \cap Matches(c)) \ c.deleted.rows)

LEMMA StepKindFields ==
  ASSUME NEW eqs, NEW step \in StepKinds(eqs)
  PROVE  /\ step.step \in {"skip", "take", "unread", "compare"}
         /\ step.step = "compare" => step.bits \subseteq DOMAIN eqs
         /\ step.step = "unread" => step.count \in Nat
BY DEF StepKinds

(* What is said of two sets of rows is said of both.                       *)
LEMMA SaysBoth ==
  ASSUME NEW c, NEW step, NEW counting, NEW P, NEW Q, Says(c, step, P, counting),
         Q = {} \/ (step.step # "unread" /\ Says(c, step, Q, counting))
  PROVE  Says(c, step, P \cup Q, counting)
<1>1. CASE Q = {}
  <2>1. P \cup Q = P
    BY <1>1
  <2> QED BY <2>1
<1>2. CASE step.step # "unread" /\ Says(c, step, Q, counting)
  <2> DEFINE M == Matches(c)
             H == Holders(c.eqs, step.bits)
  <2>1. /\ step \in StepKinds(c.eqs) /\ step.step # "unread"
        /\ step.step = "skip" => P \cap M = {} /\ Q \cap M = {}
        /\ step.step = "take" => P \subseteq M /\ Q \subseteq M
        /\ step.step = "compare" => P \cap H = P \cap M /\ Q \cap H = Q \cap M
    BY <1>2 DEF Says
  <2> HIDE DEF M, H
  <2>2. /\ step.step = "skip" => (P \cup Q) \cap M = {}
        /\ step.step = "take" => (P \cup Q) \subseteq M
    BY <2>1
  <2>3. step.step = "compare" => (P \cup Q) \cap H = (P \cup Q) \cap M
    <3> SUFFICES ASSUME step.step = "compare" PROVE (P \cup Q) \cap H = (P \cup Q) \cap M
      OBVIOUS
    <3>1. P \cap H = P \cap M /\ Q \cap H = Q \cap M
      BY <2>1
    <3> QED BY <3>1
  <2> QED BY <2>1, <2>2, <2>3 DEF Says, M, H
<1> QED BY <1>1, <1>2

(* A zone's step says what holds of the selected rows it meets.            *)
LEMMA StepSays ==
  ASSUME IsTable, NEW c, IsCompare(c), NEW p, IsZone(p.zone), NEW part, NEW P, Selects(part, P),
         P \subseteq ZoneRows(p.zone), NEW counting,
         NEW class, class = ClassOf(c.classes, c.eqs, p.zone)
  PROVE  Says(c, StepOf(c, p, part, class, counting), P, counting)
<1> DEFINE step == StepOf(c, p, part, class, counting)
<1>1. /\ class.class \in {"none", "all", "mixed"}
      /\ class.class = "none" => \A row \in ZoneRows(p.zone) : row \notin Matches(c)
      /\ class.class = "all" => \A row \in ZoneRows(p.zone) : row \in Matches(c)
      /\ class.class = "mixed" =>
           /\ class.bits \subseteq DOMAIN c.eqs
           /\ \A row \in ZoneRows(p.zone) : row \in Holders(c.eqs, class.bits) <=> row \in Matches(c)
  BY ClassSound DEF IsCompare, Matches
<1>2. CASE class.class = "none"
  <2>1. step = [step |-> "skip"]
    BY <1>2 DEF StepOf
  <2>2. P \cap Matches(c) = {}
    BY <1>1, <1>2
  <2> QED BY <2>1, <2>2 DEF Says, StepKinds
<1>3. CASE class.class = "all"
  <2>1. step = [step |-> "take"]
    BY <1>3 DEF StepOf
  <2>2. P \subseteq Matches(c)
    BY <1>1, <1>3
  <2> QED BY <2>1, <2>2 DEF Says, StepKinds
<1>4. CASE class.class = "mixed"
  <2> DEFINE plan == UnreadPlan(c, p, part, class.bits)
             H == Holders(c.eqs, class.bits)
  <2>1. step = IF counting /\ plan.some THEN [step |-> "unread", count |-> plan.count]
               ELSE [step |-> "compare", bits |-> class.bits]
    BY <1>4 DEF StepOf, MixedStep
  <2>2. P \cap H = P \cap Matches(c) /\ class.bits \subseteq DOMAIN c.eqs
    BY <1>1, <1>4
  <2>3. /\ plan.some \in BOOLEAN
        /\ plan.some => /\ plan.count \in Nat
                        /\ plan.count = Cardinality((P \cap H) \ c.deleted.rows)
    BY <2>2, UnreadCounts
  <2> HIDE DEF plan
  <2>4. CASE counting /\ plan.some
    <3>1. step = [step |-> "unread", count |-> plan.count]
      BY <2>1, <2>4
    <3>2. plan.count \in Nat /\ plan.count = Cardinality((P \cap Matches(c)) \ c.deleted.rows)
      BY <2>2, <2>3, <2>4
    <3> HIDE DEF step, H
    <3>3. step \in StepKinds(c.eqs) /\ step.step = "unread" /\ step.count = plan.count
      BY <3>1, <3>2 DEF StepKinds
    <3>4. Says(c, step, P, counting)
      BY <2>4, <3>2, <3>3 DEF Says
    <3> QED BY <3>4 DEF step
  <2>5. CASE ~(counting /\ plan.some)
    <3>1. step = [step |-> "compare", bits |-> class.bits]
      BY <2>1, <2>5
    <3> HIDE DEF step
    <3>2. step \in StepKinds(c.eqs) /\ step.step = "compare" /\ step.bits = class.bits
      BY <2>2, <3>1 DEF StepKinds
    <3> QED BY <2>2, <3>2 DEF Says, step
  <2> QED BY <2>4, <2>5
<1> QED BY <1>1, <1>2, <1>3, <1>4

(* The steps of a span up to row e: they join, and say what holds.         *)
Stepped(steps, c, R, a, e, counting) ==
  /\ steps \in Seq(StepStates(c.eqs)) /\ Len(steps) > 0
  /\ steps[1].start = a /\ steps[Len(steps)].end = e
  /\ \A j \in 1..Len(steps) :
       /\ a <= steps[j].start /\ steps[j].start <= steps[j].end /\ steps[j].end <= e
       /\ Says(c, steps[j].step, R \cap Interval(steps[j].start, steps[j].end), counting)
  /\ \A j \in 1..(Len(steps) - 1) : steps[j].end = steps[j + 1].start

LEMMA IntervalsJoin ==
  ASSUME NEW x \in Nat, NEW y \in Nat, NEW z \in Nat, x <= y, y <= z
  PROVE  Interval(x, z) = Interval(x, y) \cup Interval(y, z)
BY DEF Interval

LEMMA StretchedSteps ==
  ASSUME NEW steps, NEW c, NEW R, NEW a \in Nat, NEW e \in Nat, NEW counting, Stepped(steps, c, R, a, e, counting),
         NEW p, p.end \in Nat, e <= p.end,
         R \cap Interval(e, p.end) = {} \/
           (/\ steps[Len(steps)].step.step # "unread"
            /\ Says(c, steps[Len(steps)].step, R \cap Interval(e, p.end), counting))
  PROVE  Stepped(Stretched(steps, p), c, R, a, p.end, counting)
<1> DEFINE n == Len(steps)
           S == StepStates(c.eqs)
           out == Stretched(steps, p)
           x == p.end
           last == steps[n]
<1>1. /\ steps \in Seq(S) /\ n > 0 /\ steps[1].start = a /\ last.end = e
      /\ \A j \in 1..n : /\ a <= steps[j].start /\ steps[j].start <= steps[j].end /\ steps[j].end <= e
                         /\ Says(c, steps[j].step, R \cap Interval(steps[j].start, steps[j].end), counting)
      /\ \A j \in 1..(n - 1) : steps[j].end = steps[j + 1].start
  BY DEF Stepped
<1>2. n \in Nat /\ DOMAIN steps = 1..n /\ \A j \in 1..n : steps[j] \in S
  <2> HIDE DEF S
  <2> QED BY <1>1, LenProperties, ElementOfSeq
<1>3. \A j \in 1..n : /\ steps[j].start \in Nat /\ steps[j].end \in Nat
                       /\ a <= steps[j].start /\ steps[j].start <= steps[j].end /\ steps[j].end <= e
  <2>1. \A j \in 1..n : steps[j].start \in Nat /\ steps[j].end \in Nat
    BY <1>2 DEF StepStates
  <2> QED BY <1>1, <2>1
<1>4. out = [k \in 1..n |-> IF k = n THEN [steps[k] EXCEPT !.end = x] ELSE steps[k]]
  BY <1>2 DEF Stretched
<1> HIDE DEF n, out, x
<1>5. n \in 1..n
  BY <1>1, <1>2
<1>6. \A j \in 1..n : j # n => out[j] = steps[j]
  BY <1>4
<1>7. out[n] = [last EXCEPT !.end = x] /\ last \in S
  BY <1>2, <1>4, <1>5
<1>8. /\ out[n] \in S /\ out[n].start = last.start /\ out[n].end = x /\ out[n].step = last.step
      /\ last.start \in Nat /\ last.end \in Nat
  <2> HIDE DEF last
  <2>1. x \in Nat
    BY DEF x
  <2> QED BY <1>7, <2>1 DEF StepStates
<1>9. out \in Seq(S) /\ Len(out) = n
  <2>1. \A j \in 1..n : out[j] \in S
    BY <1>2, <1>6, <1>8
  <2>2. out = [j \in 1..n |-> out[j]]
    BY <1>4
  <2> HIDE DEF S
  <2> QED BY <1>2, <2>1, <2>2, IsASeq
<1>10. Says(c, last.step, R \cap Interval(last.start, x), counting)
  <2> DEFINE P == R \cap Interval(last.start, e)
             Q == R \cap Interval(e, x)
  <2>1. Says(c, last.step, P, counting)
    BY <1>1, <1>5
  <2>2. Q = {} \/ (last.step.step # "unread" /\ Says(c, last.step, Q, counting))
    BY DEF n, x
  <2>3. Interval(last.start, x) = Interval(last.start, e) \cup Interval(e, x)
    <3>1. last.start \in Nat /\ last.start <= e /\ x \in Nat /\ e <= x
      BY <1>1, <1>5, <1>8 DEF x
    <3> HIDE DEF last
    <3> QED BY <3>1, IntervalsJoin
  <2>4. R \cap Interval(last.start, x) = P \cup Q
    BY <2>3
  <2> HIDE DEF P, Q
  <2>5. Says(c, last.step, P \cup Q, counting)
    BY <2>1, <2>2, SaysBoth
  <2> QED BY <2>4, <2>5
<1>11. out[1].start = a
  <2>1. CASE n = 1
    BY <1>1, <1>8, <2>1
  <2>2. CASE n # 1
    <3>1. 1 \in 1..n
      BY <1>1, <1>2
    <3> QED BY <1>1, <1>6, <2>2, <3>1
  <2> QED BY <2>1, <2>2
<1>12. x \in Nat /\ e <= x
  BY DEF x
<1>13. ASSUME NEW j \in 1..n
       PROVE  /\ a <= out[j].start /\ out[j].start <= out[j].end /\ out[j].end <= x
              /\ Says(c, out[j].step, R \cap Interval(out[j].start, out[j].end), counting)
  <2>1. CASE j = n
    <3> DEFINE y == last.start
    <3>1. a <= y /\ y <= last.end /\ last.end = e /\ y \in Nat
      BY <1>1, <1>5, <1>3
    <3>2. out[j].start = y /\ out[j].end = x /\ out[j].step = last.step
      BY <1>8, <2>1
    <3>3. Says(c, last.step, R \cap Interval(y, x), counting)
      BY <1>10
    <3> HIDE DEF y, last
    <3>4. y <= x /\ x <= x
      BY <1>12, <3>1
    <3> QED BY <3>1, <3>2, <3>3, <3>4
  <2>2. CASE j # n
    <3> DEFINE y == steps[j].end
    <3>1. out[j] = steps[j]
      BY <1>6, <2>2
    <3>2. y \in Nat /\ y <= e
      BY <1>3
    <3> HIDE DEF y
    <3>3. y <= x
      BY <1>12, <3>2
    <3> QED BY <1>1, <3>1, <3>3 DEF y
  <2> QED BY <2>1, <2>2
<1>14. ASSUME NEW j \in 1..(n - 1) PROVE out[j].end = out[j + 1].start
  <2>1. j \in 1..n /\ j # n /\ j + 1 \in 1..n
    BY <1>2
  <2>2. out[j + 1].start = steps[j + 1].start
    BY <1>6, <1>8, <2>1
  <2> QED BY <1>1, <1>6, <2>1, <2>2
<1> HIDE DEF last
<1> QED BY <1>1, <1>8, <1>9, <1>11, <1>13, <1>14 DEF Stepped, out, x

LEMMA AppendedSteps ==
  ASSUME NEW c, NEW R, NEW a \in Nat, NEW e \in Nat, NEW counting,
         NEW steps, Stepped(steps, c, R, a, e, counting) \/ (steps = <<>> /\ e = a),
         NEW x \in Nat, e <= x, NEW step, Says(c, step, R \cap Interval(e, x), counting)
  PROVE  Stepped(Append(steps, [start |-> e, end |-> x, step |-> step]), c, R, a, x, counting)
<1> DEFINE n == Len(steps)
           S == StepStates(c.eqs)
           new == [start |-> e, end |-> x, step |-> step]
           out == Append(steps, new)
<1>1. new \in S /\ new.start = e /\ new.end = x /\ new.step = step
  BY DEF Says, StepStates
<1> HIDE DEF new
<1>2. steps \in Seq(S)
  <2> HIDE DEF S
  <2>1. <<>> \in Seq(S)
    OBVIOUS
  <2> QED BY <2>1 DEF Stepped, S
<1>3. n \in Nat /\ \A j \in 1..n : steps[j] \in S
  <2> HIDE DEF S
  <2> QED BY <1>2, LenProperties, ElementOfSeq
<1>4. /\ out \in Seq(S) /\ Len(out) = n + 1 /\ \A j \in 1..n : out[j] = steps[j]
      /\ out[n + 1] = new
  <2> HIDE DEF S
  <2> QED BY <1>1, <1>2, AppendProperties
<1>5. /\ \A j \in 1..n :
           /\ a <= steps[j].start /\ steps[j].start <= steps[j].end /\ steps[j].end <= e
           /\ Says(c, steps[j].step, R \cap Interval(steps[j].start, steps[j].end), counting)
      /\ \A j \in 1..(n - 1) : steps[j].end = steps[j + 1].start
      /\ n = 0 => e = a
      /\ n > 0 => steps[1].start = a /\ steps[n].end = e
      /\ a <= e
  <2>1. CASE Stepped(steps, c, R, a, e, counting)
    <3>1. n > 0 /\ n \in 1..n
      BY <1>3, <2>1 DEF Stepped
    <3>2. \A j \in 1..n : steps[j].start \in Nat /\ steps[j].end \in Nat
      BY <1>3 DEF StepStates
    <3>3. /\ \A j \in 1..n :
               /\ a <= steps[j].start /\ steps[j].start <= steps[j].end /\ steps[j].end <= e
               /\ Says(c, steps[j].step, R \cap Interval(steps[j].start, steps[j].end), counting)
          /\ \A j \in 1..(n - 1) : steps[j].end = steps[j + 1].start
          /\ steps[1].start = a /\ steps[n].end = e
      BY <2>1 DEF Stepped
    <3> HIDE DEF n
    <3>4. a <= e
      <4> DEFINE y == steps[n].start
                 z == steps[n].end
      <4>1. y \in Nat /\ z \in Nat /\ a <= y /\ y <= z /\ z = e
        BY <3>1, <3>2, <3>3
      <4> HIDE DEF y, z
      <4> QED BY <4>1
    <3>5. n # 0
      BY <3>1
    <3> QED BY <3>3, <3>4, <3>5
  <2>2. CASE steps = <<>> /\ e = a
    <3>1. n = 0
      BY <2>2
    <3> HIDE DEF n
    <3> QED BY <2>2, <3>1
  <2> QED BY <2>1, <2>2
<1> HIDE DEF n, out
<1>6. ASSUME NEW j \in 1..(n + 1)
      PROVE  /\ a <= out[j].start /\ out[j].start <= out[j].end /\ out[j].end <= x
             /\ Says(c, out[j].step, R \cap Interval(out[j].start, out[j].end), counting)
  <2>1. CASE j = n + 1
    <3>1. out[j].start = e /\ out[j].end = x /\ out[j].step = step
      BY <1>1, <1>4, <2>1
    <3>2. a <= e /\ e <= x /\ x <= x
      BY <1>5
    <3> QED BY <3>1, <3>2
  <2>2. CASE j # n + 1
    <3> DEFINE y == steps[j].end
    <3>1. j \in 1..n
      BY <1>3, <2>2
    <3>2. out[j] = steps[j]
      BY <1>4, <3>1
    <3>3. y \in Nat
      BY <1>3, <3>1 DEF StepStates
    <3>4. y <= e
      BY <1>5, <3>1
    <3> HIDE DEF y
    <3>5. y <= x
      BY <3>3, <3>4
    <3> QED BY <1>5, <3>1, <3>2, <3>5 DEF y
  <2> QED BY <2>1, <2>2
<1>7. ASSUME NEW j \in 1..n PROVE out[j].end = out[j + 1].start
  <2>1. CASE j = n
    <3>1. n > 0
      BY <1>3, <2>1
    <3> QED BY <1>1, <1>4, <1>5, <2>1, <3>1
  <2>2. CASE j # n
    <3>1. j \in 1..(n - 1) /\ j + 1 \in 1..n
      BY <1>3, <2>2
    <3> QED BY <1>4, <1>5, <3>1
  <2> QED BY <2>1, <2>2
<1>8. out[1].start = a
  <2>1. CASE n = 0
    BY <1>1, <1>4, <1>5, <2>1
  <2>2. CASE n # 0
    <3>1. 1 \in 1..n /\ n > 0
      BY <1>3, <2>2
    <3> QED BY <1>4, <1>5, <3>1
  <2> QED BY <2>1, <2>2
<1>9. Len(out) > 0 /\ (n + 1) - 1 = n
  BY <1>3, <1>4
<1>10. Stepped(out, c, R, a, x, counting)
  BY <1>1, <1>4, <1>6, <1>7, <1>8, <1>9 DEF Stepped
<1> QED BY <1>10 DEF out, new

(* The selected rows of a part.                                            *)
LEMMA PartRows ==
  ASSUME IsTable, NEW s, NEW R, NEW a, NEW b, InSpan(s, R, a, b), NEW p, IsPart(p, a, b)
  PROVE  LET part == PartOf(s, p.start, p.end)
             P    == R \cap Interval(p.start, p.end)
         IN Selects(part, P) /\ P \subseteq ZoneRows(p.zone) /\ (SelLen(part, Total) = 0 <=> P = {})
<1> DEFINE part == PartOf(s, p.start, p.end)
           P    == R \cap Interval(p.start, p.end)
<1>1. Selects(part, P)
  <2> DEFINE x == p.start
             y == p.end
  <2>1. x \in Nat /\ y \in Nat /\ a <= x /\ x <= y /\ y <= b
    BY DEF IsPart
  <2> HIDE DEF x, y
  <2>2. Selects(PartOf(s, x, y), R \cap Interval(x, y))
    BY <2>1, PartSelects
  <2> QED BY <2>2 DEF x, y
<1>2. P \subseteq ZoneRows(p.zone)
  <2> DEFINE x == p.start
             y == p.end
             u == ZoneStart(p.zone)
             v == ZoneEnd(p.zone)
  <2>1. x \in Nat /\ y \in Nat /\ u \in Nat /\ v \in Nat /\ u <= x /\ y <= v
    BY DEF IsPart, IsZone
  <2> HIDE DEF x, y, u, v
  <2>2. Interval(x, y) \subseteq Interval(u, v)
    BY <2>1 DEF Interval
  <2> QED BY <2>2 DEF x, y, u, v, ZoneRows
<1> HIDE DEF part, P
<1>3. SelLen(part, Total) = Cardinality(P) /\ IsFiniteSet(P)
  BY <1>1, SelectionAnswers
<1>4. Cardinality(P) = 0 <=> P = {}
  BY <1>3, FS_EmptySet
<1> QED BY <1>1, <1>2, <1>3, <1>4 DEF part, P

LEMMA ZoneStepKeeps ==
  ASSUME IsTable, NEW c, IsCompare(c), NEW s, NEW R, NEW a, NEW b, InSpan(s, R, a, b),
         NEW p, IsPart(p, a, b), NEW counting,
         NEW steps, Stepped(steps, c, R, a, p.start, counting) \/ (steps = <<>> /\ p.start = a)
  PROVE  Stepped(ZoneStep(c, s, steps, p, counting), c, R, a, p.end, counting)
<1> DEFINE part == PartOf(s, p.start, p.end)
           P    == R \cap Interval(p.start, p.end)
           step == StepOf(c, p, part, ClassOf(c.classes, c.eqs, p.zone), counting)
<1>1. Selects(part, P) /\ P \subseteq ZoneRows(p.zone) /\ (SelLen(part, Total) = 0 <=> P = {})
  BY PartRows
<1>2. /\ a \in Nat /\ a \in R /\ p.start \in Nat /\ p.end \in Nat /\ p.start < p.end
      /\ p.start <= p.end /\ IsZone(p.zone)
  <2>1. p.start \in Nat /\ p.end \in Nat /\ p.start < p.end
    BY DEF IsPart
  <2>2. p.start <= p.end
    <3> DEFINE x == p.start
               y == p.end
    <3>1. x \in Nat /\ y \in Nat /\ x < y
      BY <2>1
    <3> HIDE DEF x, y
    <3>2. x <= y
      BY <3>1
    <3> QED BY <3>2 DEF x, y
  <2> QED BY <2>1, <2>2 DEF IsPart, InSpan
<1>3. ZoneStep(c, s, steps, p, counting) =
        IF SelLen(part, Total) = 0 THEN Stretched(steps, p) ELSE Extended(steps, p, step)
  BY DEF ZoneStep
<1> HIDE DEF part, step
<1>4. CASE SelLen(part, Total) = 0
  <2>1. R \cap Interval(p.start, p.end) = {}
    BY <1>1, <1>4
  <2>2. p.start # a
    <3>1. p.start \in Interval(p.start, p.end)
      BY <1>2 DEF Interval
    <3> QED BY <1>2, <2>1, <3>1
  <2>3. Stepped(steps, c, R, a, p.start, counting)
    BY <2>2
  <2>4. Stepped(Stretched(steps, p), c, R, a, p.end, counting)
    BY <1>2, <2>1, <2>3, StretchedSteps
  <2> QED BY <1>3, <1>4, <2>4
<1>5. CASE SelLen(part, Total) # 0
  <2>1. Says(c, step, R \cap Interval(p.start, p.end), counting)
    <3>1. Says(c, step, P, counting)
      <4> HIDE DEF P
      <4> QED BY <1>1, <1>2, StepSays DEF step
    <3> QED BY <3>1
  <2>2. CASE Len(steps) > 0 /\ steps[Len(steps)].end = p.start /\ Joins(steps[Len(steps)].step, step)
    <3>1. Extended(steps, p, step) = Stretched(steps, p)
      BY <2>2 DEF Extended
    <3>2. steps[Len(steps)].step = step /\ step.step # "unread"
      BY <2>2 DEF Joins
    <3>3. Stepped(steps, c, R, a, p.start, counting)
      <4>1. Len(<<>>) = 0
        OBVIOUS
      <4> QED BY <2>2, <4>1
    <3>4. Stepped(Stretched(steps, p), c, R, a, p.end, counting)
      BY <1>2, <2>1, <3>2, <3>3, StretchedSteps
    <3> QED BY <1>3, <1>5, <3>1, <3>4
  <2>3. CASE ~(Len(steps) > 0 /\ steps[Len(steps)].end = p.start /\ Joins(steps[Len(steps)].step, step))
    <3> DEFINE new == [start |-> p.start, end |-> p.end, step |-> step]
    <3>1. Extended(steps, p, step) = Append(steps, new)
      BY <2>3 DEF Extended
    <3>2. Stepped(Append(steps, new), c, R, a, p.end, counting)
      BY <1>2, <2>1, AppendedSteps
    <3> QED BY <1>3, <1>5, <3>1, <3>2
  <2> QED BY <2>2, <2>3
<1> QED BY <1>4, <1>5

(* The steps after each part, by f.                                        *)
GivesSteps(f, c, s, parts, n, counting) ==
  /\ f[0] = <<>>
  /\ \A k \in 1..n : f[k] = ZoneStep(c, s, f[k - 1], parts[k], counting)
  /\ Steps(c, s, counting) = f[n]

LEMMA StepsLoop ==
  ASSUME NEW c, NEW s, NEW counting, NEW parts, parts = ZoneParts(SpanOf(s)), NEW n \in Nat, n = Len(parts)
  PROVE  \E f : GivesSteps(f, c, s, parts, n, counting)
<1> DEFINE E(x, k) == ZoneStep(c, s, x, parts[k], counting)
           Is(g, m) == g = [k \in 0..m |-> IF k = 0 THEN <<>> ELSE E(g[k - 1], k)]
           f == CHOOSE g : Is(g, n)
           T == {m \in 0..n : \E g : Is(g, m)}
<1>1. Steps(c, s, counting) = f[n]
  BY DEF Steps
<1> HIDE DEF E
<1>2. 0 \in T
  <2> DEFINE g == [k \in 0..0 |-> <<>>]
  <2>1. \A k \in 0..0 : k = 0
    OBVIOUS
  <2>2. Is(g, 0)
    BY <2>1
  <2>3. 0 \in 0..n
    OBVIOUS
  <2> HIDE DEF Is, g
  <2> QED BY <2>2, <2>3
<1>3. ASSUME NEW m \in 1..n, m - 1 \in T PROVE m \in T
  <2>1. PICK g : Is(g, m - 1)
    BY <1>3
  <2> DEFINE h == [k \in 0..m |-> IF k = m THEN E(g[m - 1], m) ELSE g[k]]
  <2>2. \A k \in 0..(m - 1) : g[k] = IF k = 0 THEN <<>> ELSE E(g[k - 1], k)
    BY <2>1
  <2>3. \A k \in 0..(m - 1) : k \in 0..m /\ k # m /\ h[k] = g[k]
    OBVIOUS
  <2>4. h[m] = E(g[m - 1], m) /\ m # 0 /\ m - 1 \in 0..(m - 1)
    OBVIOUS
  <2>5. h = [k \in 0..m |-> h[k]]
    OBVIOUS
  <2> HIDE DEF h
  <2>6. \A k \in 0..m : h[k] = IF k = 0 THEN <<>> ELSE E(h[k - 1], k)
    <3> TAKE k \in 0..m
    <3>1. CASE k = m
      BY <2>3, <2>4, <3>1
    <3>2. CASE k # m /\ k = 0
      BY <2>2, <2>3, <3>2
    <3>3. CASE k # m /\ k # 0
      <4>1. k \in 0..(m - 1) /\ k - 1 \in 0..(m - 1)
        BY <3>3
      <4> QED BY <2>2, <2>3, <3>3, <4>1
    <3> QED BY <3>1, <3>2, <3>3
  <2>7. Is(h, m)
    BY <2>5, <2>6
  <2>8. m \in 0..n
    OBVIOUS
  <2> QED BY <2>7, <2>8
<1>4. \A m \in 0..n : m \in T
  <2> HIDE DEF T
  <2> QED BY <1>2, <1>3, Upward
<1>5. \E g : Is(g, n)
  <2>1. n \in 0..n
    OBVIOUS
  <2> QED BY <1>4, <2>1
<1>6. Is(f, n)
  <2> HIDE DEF Is
  <2> QED BY <1>5
<1> HIDE DEF f
<1>7. f[0] = <<>> /\ \A k \in 1..n : f[k] = E(f[k - 1], k)
  <2>1. \A k \in 1..n : k \in 0..n /\ k # 0
    OBVIOUS
  <2>2. 0 \in 0..n
    OBVIOUS
  <2> QED BY <1>6, <2>1, <2>2
<1> QED BY <1>1, <1>7 DEF E, GivesSteps

(* The steps of a selection cover its span.                                *)
LEMMA StepsSound ==
  ASSUME IsTable, NEW c, IsCompare(c), NEW s, NEW R, Selects(s, R), R # {}, NEW counting
  PROVE  \E a, b : InSpan(s, R, a, b) /\ Stepped(Steps(c, s, counting), c, R, a, b, counting)
<1>1. PICK a, b : SpanOf(s) = <<a, b>> /\ InSpan(s, R, a, b)
  BY SpanIs
<1>2. a \in Nat /\ b \in Nat /\ a < b /\ b <= Total
  BY <1>1 DEF InSpan
<1>3. PICK parts : parts = ZoneParts(<<a, b>>) /\ parts = ZoneParts(SpanOf(s))
  BY <1>1
<1>4. PICK n : n = Len(parts)
  OBVIOUS
<1>5. PartsJoin(parts, n, a, b)
  BY <1>2, <1>3, <1>4, ZonePartsJoin
<1>6. n \in Nat /\ n > 0
  BY <1>5 DEF PartsJoin
<1>7. PICK f : GivesSteps(f, c, s, parts, n, counting)
  BY <1>3, <1>4, <1>6, StepsLoop
<1> DEFINE T == {k \in 0..n : k # 0 => Stepped(f[k], c, R, a, parts[k].end, counting)}
<1>8. 0 \in T
  BY <1>6
<1>9. ASSUME NEW k \in 1..n, k - 1 \in T PROVE k \in T
  <2>1. f[k] = ZoneStep(c, s, f[k - 1], parts[k], counting) /\ IsPart(parts[k], a, b)
    BY <1>5, <1>7 DEF GivesSteps, PartsJoin
  <2>2. Stepped(f[k - 1], c, R, a, parts[k].start, counting) \/ (f[k - 1] = <<>> /\ parts[k].start = a)
    <3>1. CASE k = 1
      BY <1>5, <1>7, <3>1 DEF GivesSteps, PartsJoin
    <3>2. CASE k # 1
      <4>1. k - 1 \in 1..(n - 1) /\ (k - 1) + 1 = k /\ k - 1 # 0
        BY <1>6, <3>2
      <4>2. parts[k - 1].end = parts[k].start
        BY <1>5, <4>1 DEF PartsJoin
      <4> QED BY <1>9, <4>1, <4>2
    <3> QED BY <3>1, <3>2
  <2>3. Stepped(f[k], c, R, a, parts[k].end, counting)
    BY <1>1, <2>1, <2>2, ZoneStepKeeps
  <2>4. k \in 0..n
    BY <1>6
  <2> QED BY <2>3, <2>4
<1>10. \A k \in 0..n : k \in T
  <2> HIDE DEF T
  <2> QED BY <1>6, <1>8, <1>9, Upward
<1>11. Stepped(f[n], c, R, a, b, counting)
  <2>1. n \in 0..n /\ n # 0
    BY <1>6
  <2>2. n \in T
    BY <1>10, <2>1
  <2> QED BY <1>5, <2>1, <2>2 DEF PartsJoin
<1> QED BY <1>1, <1>7, <1>11 DEF GivesSteps

-----------------------------------------------------------------------------
(* What a match keeps                                                      *)

(* The rows the first k steps keep.                                        *)
KeptOf(c, step, part) ==
  CASE step.step = "skip" -> <<>>
    [] step.step = "take" -> AsRows(part, Total)
    [] OTHER -> AsRows(Compare(c, part, step.bits), Total)

GivesKept(f, c, s, steps, n) ==
  /\ f[0] = <<>>
  /\ \A k \in 1..n : f[k] = f[k - 1] \o KeptOf(c, steps[k].step, PartOf(s, steps[k].start, steps[k].end))
  /\ KeptBy(c, s, steps) =
       IF \A k \in DOMAIN steps : steps[k].step.step = "take" THEN s
       ELSE IF ComparesWhole(s, steps, SelLen(s, Total)) THEN Compare(c, s, DOMAIN c.eqs)
       ELSE FromIds(f[n])

LEMMA KeptLoop ==
  ASSUME NEW c, NEW s, NEW steps, NEW n \in Nat, n = Len(steps)
  PROVE  \E f : GivesKept(f, c, s, steps, n)
<1> DEFINE E(x, k) == x \o KeptOf(c, steps[k].step, PartOf(s, steps[k].start, steps[k].end))
           Is(g, m) == g = [k \in 0..m |-> IF k = 0 THEN <<>> ELSE E(g[k - 1], k)]
           f == CHOOSE g : Is(g, n)
           T == {m \in 0..n : \E g : Is(g, m)}
<1>1. KeptBy(c, s, steps) =
        IF \A k \in DOMAIN steps : steps[k].step.step = "take" THEN s
        ELSE IF ComparesWhole(s, steps, SelLen(s, Total)) THEN Compare(c, s, DOMAIN c.eqs)
        ELSE FromIds(f[n])
  BY DEF KeptBy, KeptOf
<1> HIDE DEF E
<1>2. 0 \in T
  <2> DEFINE g == [k \in 0..0 |-> <<>>]
  <2>1. \A k \in 0..0 : k = 0
    OBVIOUS
  <2>2. Is(g, 0)
    BY <2>1
  <2>3. 0 \in 0..n
    OBVIOUS
  <2> HIDE DEF Is, g
  <2> QED BY <2>2, <2>3
<1>3. ASSUME NEW m \in 1..n, m - 1 \in T PROVE m \in T
  <2>1. PICK g : Is(g, m - 1)
    BY <1>3
  <2> DEFINE h == [k \in 0..m |-> IF k = m THEN E(g[m - 1], m) ELSE g[k]]
  <2>2. \A k \in 0..(m - 1) : g[k] = IF k = 0 THEN <<>> ELSE E(g[k - 1], k)
    BY <2>1
  <2>3. \A k \in 0..(m - 1) : k \in 0..m /\ k # m /\ h[k] = g[k]
    OBVIOUS
  <2>4. h[m] = E(g[m - 1], m) /\ m # 0 /\ m - 1 \in 0..(m - 1)
    OBVIOUS
  <2>5. h = [k \in 0..m |-> h[k]]
    OBVIOUS
  <2> HIDE DEF h
  <2>6. \A k \in 0..m : h[k] = IF k = 0 THEN <<>> ELSE E(h[k - 1], k)
    <3> TAKE k \in 0..m
    <3>1. CASE k = m
      BY <2>3, <2>4, <3>1
    <3>2. CASE k # m /\ k = 0
      BY <2>2, <2>3, <3>2
    <3>3. CASE k # m /\ k # 0
      <4>1. k \in 0..(m - 1) /\ k - 1 \in 0..(m - 1)
        BY <3>3
      <4> QED BY <2>2, <2>3, <3>3, <4>1
    <3> QED BY <3>1, <3>2, <3>3
  <2>7. Is(h, m)
    BY <2>5, <2>6
  <2>8. m \in 0..n
    OBVIOUS
  <2> QED BY <2>7, <2>8
<1>4. \A m \in 0..n : m \in T
  <2> HIDE DEF T
  <2> QED BY <1>2, <1>3, Upward
<1>5. \E g : Is(g, n)
  <2>1. n \in 0..n
    OBVIOUS
  <2> QED BY <1>4, <2>1
<1>6. Is(f, n)
  <2> HIDE DEF Is
  <2> QED BY <1>5
<1> HIDE DEF f
<1>7. f[0] = <<>> /\ \A k \in 1..n : f[k] = E(f[k - 1], k)
  <2>1. \A k \in 1..n : k \in 0..n /\ k # 0
    OBVIOUS
  <2>2. 0 \in 0..n
    OBVIOUS
  <2> QED BY <1>6, <2>1, <2>2
<1> QED BY <1>1, <1>7 DEF E, GivesKept
(* What is known of each of n steps.                                       *)
StepsJoin(steps, n, c, R, a, e, counting) ==
  /\ n \in Nat /\ n > 0 /\ DOMAIN steps = 1..n
  /\ steps[1].start = a /\ steps[n].end = e
  /\ \A k \in 1..n :
       /\ steps[k].start \in Nat /\ steps[k].end \in Nat
       /\ a <= steps[k].start /\ steps[k].start <= steps[k].end /\ steps[k].end <= e
       /\ Says(c, steps[k].step, R \cap Interval(steps[k].start, steps[k].end), counting)
  /\ \A k \in 2..n : k - 1 \in 1..n /\ steps[k - 1].end = steps[k].start

LEMMA SteppedFacts ==
  ASSUME NEW steps, NEW c, NEW R, NEW a, NEW e, NEW counting, Stepped(steps, c, R, a, e, counting),
         NEW n, n = Len(steps)
  PROVE  StepsJoin(steps, n, c, R, a, e, counting)
<1>1. steps \in Seq(StepStates(c.eqs)) /\ n \in Nat /\ n > 0 /\ DOMAIN steps = 1..n
  BY DEF Stepped
<1>2. \A k \in 1..n : steps[k].start \in Nat /\ steps[k].end \in Nat
  <2> TAKE k \in 1..n
  <2>1. steps[k] \in StepStates(c.eqs)
    BY <1>1, ElementOfSeq
  <2> QED BY <2>1 DEF StepStates
<1>3. \A k \in 2..n : k - 1 \in 1..n /\ steps[k - 1].end = steps[k].start
  <2> TAKE k \in 2..n
  <2>1. k - 1 \in 1..(n - 1) /\ (k - 1) + 1 = k /\ k - 1 \in 1..n
    BY <1>1
  <2>2. \A j \in 1..(n - 1) : steps[j].end = steps[j + 1].start
    BY DEF Stepped
  <2> QED BY <2>1, <2>2
<1>4. /\ steps[1].start = a /\ steps[n].end = e
      /\ \A k \in 1..n :
           /\ a <= steps[k].start /\ steps[k].start <= steps[k].end /\ steps[k].end <= e
           /\ Says(c, steps[k].step, R \cap Interval(steps[k].start, steps[k].end), counting)
  BY DEF Stepped
<1> QED BY <1>1, <1>2, <1>3, <1>4 DEF StepsJoin

(* What a step keeps of the rows of P.                                     *)
LEMMA KeptOfLists ==
  ASSUME IsTable, NEW c, NEW step, NEW part, NEW P, Selects(part, P), Says(c, step, P, FALSE)
  PROVE  Lists(KeptOf(c, step, part), P \cap Matches(c))
<1>1. step.step \in {"skip", "take", "compare"}
  BY StepKindFields DEF Says
<1>2. CASE step.step = "skip"
  <2>1. KeptOf(c, step, part) = <<>> /\ P \cap Matches(c) = {}
    BY <1>2 DEF KeptOf, Says
  <2> QED BY <2>1, EmptyLists
<1>3. CASE step.step = "take"
  <2>1. KeptOf(c, step, part) = AsRows(part, Total) /\ P \cap Matches(c) = P
    BY <1>3 DEF KeptOf, Says
  <2> QED BY <2>1, SelectionAnswers
<1>4. CASE step.step = "compare"
  <2>1. KeptOf(c, step, part) = AsRows(Compare(c, part, step.bits), Total)
        /\ P \cap Holders(c.eqs, step.bits) = P \cap Matches(c)
    BY <1>4 DEF KeptOf, Says
  <2> QED BY <2>1, CompareLists
<1> QED BY <1>1, <1>2, <1>3, <1>4

(* The rows of a span up to each step's end.                               *)
LEMMA RowsUpto ==
  ASSUME NEW R, NEW M, NEW a \in Nat, NEW x \in Nat, NEW y \in Nat, a <= x, x <= y
  PROVE  /\ (R \cap M \cap Interval(a, x)) \cup ((R \cap Interval(x, y)) \cap M) = R \cap M \cap Interval(a, y)
         /\ \A p \in R \cap M \cap Interval(a, x), q \in (R \cap Interval(x, y)) \cap M : p < q
<1>1. Interval(a, y) = Interval(a, x) \cup Interval(x, y)
  BY IntervalsJoin
<1>2. \A p \in Interval(a, x), q \in Interval(x, y) : p < q
  BY DEF Interval
<1> QED BY <1>1, <1>2

(* What the steps of a span keep are the rows that match.                  *)
LEMMA KeptSound ==
  ASSUME IsTable, NEW c, NEW s, NEW R, NEW a, NEW b, InSpan(s, R, a, b),
         NEW steps, Stepped(steps, c, R, a, b, FALSE)
  PROVE  Selects(KeptBy(c, s, steps), R \cap Matches(c))
<1>1. Selects(s, R) /\ a \in Nat /\ b \in Nat /\ a < b /\ R \subseteq Interval(a, b)
  BY DEF InSpan
<1>2. PICK n : n = Len(steps)
  OBVIOUS
<1>3. /\ n \in Nat /\ n > 0 /\ DOMAIN steps = 1..n
      /\ steps[1].start = a /\ steps[n].end = b
      /\ \A k \in 1..n :
           /\ steps[k].start \in Nat /\ steps[k].end \in Nat
           /\ a <= steps[k].start /\ steps[k].start <= steps[k].end /\ steps[k].end <= b
           /\ Says(c, steps[k].step, R \cap Interval(steps[k].start, steps[k].end), FALSE)
      /\ \A k \in 2..n : k - 1 \in 1..n /\ steps[k - 1].end = steps[k].start
  <2>1. StepsJoin(steps, n, c, R, a, b, FALSE)
    BY <1>2, SteppedFacts
  <2> QED BY <2>1 DEF StepsJoin
<1>4. PICK f : GivesKept(f, c, s, steps, n)
  BY <1>2, <1>3, KeptLoop
<1> DEFINE M == Matches(c)
           T == {k \in 0..n : (k # 0 => Lists(f[k], R \cap M \cap Interval(a, steps[k].end)))}
<1>5. f[0] = <<>>
  BY <1>4 DEF GivesKept
<1>6. 0 \in T
  BY <1>3
<1> HIDE DEF M
<1>7. ASSUME NEW k \in 1..n, k - 1 \in T PROVE k \in T
  <2> DEFINE x == steps[k].start
             y == steps[k].end
             step == steps[k].step
             part == PartOf(s, x, y)
             P == R \cap Interval(x, y)
  <2>1. f[k] = f[k - 1] \o KeptOf(c, step, part)
    BY <1>4 DEF GivesKept
  <2>2. x \in Nat /\ y \in Nat /\ a <= x /\ x <= y /\ y <= b /\ Says(c, step, P, FALSE)
    BY <1>3
  <2> HIDE DEF x, y, step
  <2>3. Selects(part, P)
    BY <2>2, PartSelects
  <2> HIDE DEF part, P
  <2>4. Lists(KeptOf(c, step, part), P \cap M)
    BY <2>2, <2>3, KeptOfLists DEF M
  <2>5. Lists(f[k - 1], R \cap M \cap Interval(a, x))
    <3>1. CASE k = 1
      <4>1. x = a
        BY <1>3, <3>1 DEF x
      <4>2. Interval(a, x) = {}
        BY <4>1, <1>1 DEF Interval
      <4>3. f[k - 1] = <<>> /\ R \cap M \cap Interval(a, x) = {}
        BY <1>5, <3>1, <4>2
      <4> QED BY <4>3, EmptyLists
    <3>2. CASE k # 1
      <4>1. k \in 2..n /\ k - 1 # 0
        BY <1>3, <3>2
      <4>2. steps[k - 1].end = x
        BY <1>3, <4>1 DEF x
      <4> QED BY <1>7, <4>1, <4>2
    <3> QED BY <3>1, <3>2
  <2>6. Lists(f[k], (R \cap M \cap Interval(a, x)) \cup (P \cap M))
    <3>1. \A p \in R \cap M \cap Interval(a, x), q \in P \cap M : p < q
      BY <1>1, <2>2, RowsUpto DEF P
    <3> QED BY <2>1, <2>4, <2>5, <3>1, ConcatLists
  <2>7. (R \cap M \cap Interval(a, x)) \cup (P \cap M) = R \cap M \cap Interval(a, y)
    BY <1>1, <2>2, RowsUpto DEF P
  <2>8. k \in 0..n /\ Lists(f[k], R \cap M \cap Interval(a, steps[k].end))
    BY <2>6, <2>7 DEF y
  <2> QED BY <2>8
<1>8. \A k \in 0..n : k \in T
  <2> HIDE DEF T
  <2> QED BY <1>3, <1>6, <1>7, Upward
<1>9. Lists(f[n], R \cap M)
  <2>1. n \in T /\ n # 0
    BY <1>3, <1>8
  <2>2. R \cap M \cap Interval(a, steps[n].end) = R \cap M
    BY <1>1, <1>3
  <2> QED BY <2>1, <2>2
<1>10. CASE \A k \in DOMAIN steps : steps[k].step.step = "take"
  <2> DEFINE U == {k \in 0..n : (k # 0 => R \cap Interval(a, steps[k].end) \subseteq M)}
  <2>1. 0 \in U
    BY <1>3
  <2>2. ASSUME NEW k \in 1..n, k - 1 \in U PROVE k \in U
    <3> DEFINE x == steps[k].start
               y == steps[k].end
    <3>1. x \in Nat /\ y \in Nat /\ a <= x /\ x <= y /\ R \cap Interval(x, y) \subseteq M
      BY <1>3, <1>10 DEF Says, M
    <3>2. R \cap Interval(a, x) \subseteq M
      <4>1. CASE k = 1
        <5>1. x = a
          BY <1>3, <4>1
        <5>2. Interval(a, x) = {}
          BY <5>1, <1>1 DEF Interval
        <5> QED BY <5>2
      <4>2. CASE k # 1
        <5>1. k \in 2..n /\ k - 1 # 0
          BY <1>3, <4>2
        <5>2. steps[k - 1].end = x
          BY <1>3, <5>1
        <5> QED BY <2>2, <5>1, <5>2
      <4> QED BY <4>1, <4>2
    <3> HIDE DEF x
    <3>3. Interval(a, y) = Interval(a, x) \cup Interval(x, y)
      BY <1>1, <3>1, IntervalsJoin
    <3>4. k \in 0..n /\ R \cap Interval(a, steps[k].end) \subseteq M
      BY <3>1, <3>2, <3>3
    <3> QED BY <3>4
  <2>3. \A k \in 0..n : k \in U
    <3> HIDE DEF U
    <3> QED BY <1>3, <2>1, <2>2, Upward
  <2>4. R \cap M = R
    <3>1. n \in U /\ n # 0
      BY <1>3, <2>3
    <3> QED BY <1>1, <1>3, <3>1
  <2>5. KeptBy(c, s, steps) = s
    BY <1>4, <1>10 DEF GivesKept
  <2> QED BY <1>1, <2>4, <2>5 DEF M
<1>11. CASE ~(\A k \in DOMAIN steps : steps[k].step.step = "take")
  <2>1. CASE ComparesWhole(s, steps, SelLen(s, Total))
    <3>1. KeptBy(c, s, steps) = Compare(c, s, DOMAIN c.eqs)
      BY <1>4, <1>11, <2>1 DEF GivesKept
    <3> QED BY <1>1, <3>1, CompareLists DEF Matches
  <2>2. CASE ~ComparesWhole(s, steps, SelLen(s, Total))
    <3>1. KeptBy(c, s, steps) = FromIds(f[n])
      BY <1>4, <1>11, <2>2 DEF GivesKept
    <3>2. R \cap M \subseteq TableRows
      BY <1>1, Shapes
    <3> QED BY <1>9, <3>1, <3>2, SelectsFromIds DEF M
  <2> QED BY <2>1, <2>2
<1> QED BY <1>10, <1>11

(* What is found among a selection's rows, by zones or in pieces.          *)
LEMMA RowsByMatch ==
  ASSUME IsTable, NEW c, IsCompare(c), NEW s, NEW R, Selects(s, R)
  PROVE  Selects(RowsBy(c, s), R \cap Matches(c))
<1>1. Lists(AsRows(s, Total), R)
  BY SelectionAnswers
<1>2. CASE AsRows(s, Total) = <<>>
  <2>1. R = {}
    BY <1>1, <1>2, ListSize, FS_EmptySet
  <2>2. RowsBy(c, s) = s /\ R \cap Matches(c) = R
    BY <1>2, <2>1 DEF RowsBy
  <2> QED BY <2>2
<1>3. CASE AsRows(s, Total) # <<>>
  <2>1. R # {}
    <3>1. AsRows(s, Total) \in Seq(Nat)
      BY <1>1 DEF Lists
    <3>2. 1 \in 1..Len(AsRows(s, Total))
      BY <1>3, <3>1, EmptySeq
    <3> QED BY <1>1, <3>2, ListFacts
  <2>2. PICK steps : steps = Steps(c, s, FALSE)
    OBVIOUS
  <2>3. RowsBy(c, s) = KeptBy(c, s, steps)
    BY <1>3, <2>2 DEF RowsBy
  <2>4. PICK a, b : InSpan(s, R, a, b) /\ Stepped(steps, c, R, a, b, FALSE)
    BY <2>1, <2>2, StepsSound
  <2>5. Selects(KeptBy(c, s, steps), R \cap Matches(c))
    BY <2>4, KeptSound
  <2> QED BY <2>3, <2>5
<1> QED BY <1>2, <1>3

LEMMA PiecesMatch ==
  ASSUME IsTable, NEW c, IsCompare(c), NEW s, NEW R, Selects(s, R)
  PROVE  Selects(PiecesCompared(c, s), R \cap Matches(c))
<1>1. Selects(RowsBy(c, s), R \cap Matches(c))
  BY RowsByMatch
<1>2. Selects(Compare(c, s, DOMAIN c.eqs), R \cap Matches(c))
  BY CompareLists DEF Matches
<1> QED BY <1>1, <1>2 DEF PiecesCompared

LEMMA MatchedRowsMatch ==
  ASSUME IsTable, NEW c, IsCompare(c), NEW R, Selects(c.sel, R)
  PROVE  Selects(MatchedRows(c), R \cap Matches(c))
BY RowsByMatch, PiecesMatch DEF MatchedRows
-----------------------------------------------------------------------------
(* The invariant                                                           *)

(* The rows asked for: the selected ones that satisfy the pattern.         *)
Asked == Members(AsRows(view.sel, Total)) \cap Holders(view.asked, DOMAIN view.asked)

(* What a match may leave: rows that are those asked for, or a comparison  *)
(* that finds them.                                                        *)
ViewSound ==
  \/ view.kind = "none"
  \/ view.kind = "exact" /\ view.sel \in Starts /\ Lists(AsRows(view.rows, Total), Asked)
  \/ /\ view.kind = "pending" /\ view.sel \in Starts
     /\ view.c = [sel |-> view.sel, eqs |-> view.c.eqs, classes |-> view.c.classes, deleted |-> NoMask]
     /\ IsCompare(view.c) /\ SameHolders(view.c.eqs, view.asked)

(* Ids are kept of a pending match only, and are those asked for.          *)
IdsSound ==
  IF ids.some THEN ids = [some |-> TRUE, list |-> ids.list] /\ view.kind = "pending" /\ Lists(ids.list, Asked)
  ELSE ids = NoIds

(* A call that has returned was made on a pending match.                   *)
CallSound ==
  \/ answer = NoCall
  \/ answer.call \in {"rows", "count", "capped", "window"} /\ view.kind = "pending"

(* The inductive invariant.                                                *)
ScanInv ==
  /\ table \in Tables /\ kinds \in ZoneKinds
  /\ ViewSound /\ IdsSound /\ CallSound

LEMMA InvTable ==
  ASSUME table \in Tables, kinds \in ZoneKinds
  PROVE  IsTable
BY ScanInputs DEF IsTable

(* A selection to start from.                                              *)
LEMMA StartIs ==
  ASSUME table \in Tables, kinds \in ZoneKinds, NEW s \in Starts
  PROVE  Selects(s, Members(AsRows(s, Total)))
<1>1. IsTable
  BY InvTable
<1>2. SelectionOf(s, Total)
  BY ScanInputs DEF Total
<1> QED BY <1>1, <1>2, StartSelects

LEMMA WantedIs ==
  ASSUME table \in Tables, kinds \in ZoneKinds, view.sel \in Starts
  PROVE  Lists(Wanted, Asked)
<1>1. IsTable /\ Selects(view.sel, Members(AsRows(view.sel, Total)))
  BY InvTable, StartIs
<1>2. Lists(AsRows(view.sel, Total), Members(AsRows(view.sel, Total)))
  BY <1>1, SelectionAnswers
<1>3. Wanted = Filtered(AsRows(view.sel, Total), Holders(view.asked, DOMAIN view.asked))
  BY DEF Wanted, FilterRows, Holders, TableRows
<1> QED BY <1>2, <1>3, FilteredLists DEF Asked

(* What a match makes of a pattern, by what the statistics settle.         *)
LEMMA MatchSettles ==
  ASSUME IsTable, NEW s, NEW S, Selects(s, S), SelLen(s, Total) > 0, NEW eqs, IsEqualities(eqs),
         NEW settled, \/ settled = AskStatistics(s, eqs)
                      \/ settled = [asked |-> "open", eqs |-> eqs, classes |-> Pieces(eqs)]
  PROVE  /\ settled.asked \in {"nothing", "everything", "open"}
         /\ settled.asked = "nothing" => Lists(AsRows(Empty, Total), S \cap Holders(eqs, DOMAIN eqs))
         /\ settled.asked = "everything" => Lists(AsRows(s, Total), S \cap Holders(eqs, DOMAIN eqs))
         /\ settled.asked = "open" =>
              LET c == [sel |-> s, eqs |-> settled.eqs, classes |-> settled.classes, deleted |-> NoMask]
              IN /\ IsCompare(c) /\ SameHolders(c.eqs, eqs)
                 /\ Lists(AsRows(MatchedRows(c), Total), S \cap Holders(eqs, DOMAIN eqs))
<1>1. /\ settled.asked \in {"nothing", "everything", "open"}
      /\ settled.asked = "nothing" => \A row \in TableRows : row \notin Holders(eqs, DOMAIN eqs)
      /\ settled.asked = "everything" => \A row \in TableRows : row \in Holders(eqs, DOMAIN eqs)
      /\ settled.asked = "open" =>
           /\ IsEqualities(settled.eqs) /\ SameHolders(settled.eqs, eqs)
           /\ IsClasses(settled.classes, settled.eqs)
  <2>1. CASE settled = AskStatistics(s, eqs)
    <3>1. Total > 0
      <4>1. Lists(AsRows(s, Total), S) /\ SelLen(s, Total) = Cardinality(S) /\ Total \in Nat /\ S \subseteq TableRows
        BY SelectionAnswers, TotalIsNat, Shapes
      <4>2. S # {}
        BY <4>1, FS_EmptySet
      <4>3. PICK x \in S : x \in 0..Total /\ x < Total
        BY <4>1, <4>2 DEF TableRows, Interval
      <4> QED BY <4>1, <4>3
    <3> QED BY <2>1, <3>1, AskedSettles
  <2>2. CASE settled = [asked |-> "open", eqs |-> eqs, classes |-> Pieces(eqs)]
    BY <2>2 DEF SameHolders, IsClasses
  <2> QED BY <2>1, <2>2
<1>2. S \subseteq TableRows /\ Lists(AsRows(s, Total), S)
  BY SelectionAnswers, Shapes
<1>3. ASSUME settled.asked = "nothing" PROVE Lists(AsRows(Empty, Total), S \cap Holders(eqs, DOMAIN eqs))
  <2>1. S \cap Holders(eqs, DOMAIN eqs) = {}
    BY <1>1, <1>2, <1>3
  <2> QED BY <2>1, SelectsEmpty, SelectionAnswers
<1>4. ASSUME settled.asked = "everything" PROVE Lists(AsRows(s, Total), S \cap Holders(eqs, DOMAIN eqs))
  <2>1. S \cap Holders(eqs, DOMAIN eqs) = S
    BY <1>1, <1>2, <1>4
  <2> QED BY <1>2, <2>1
<1>5. ASSUME settled.asked = "open", NEW c,
             c = [sel |-> s, eqs |-> settled.eqs, classes |-> settled.classes, deleted |-> NoMask]
      PROVE  /\ IsCompare(c) /\ SameHolders(c.eqs, eqs)
             /\ Lists(AsRows(MatchedRows(c), Total), S \cap Holders(eqs, DOMAIN eqs))
  <2>1. c.sel = s /\ c.eqs = settled.eqs /\ c.classes = settled.classes
    BY <1>5
  <2>2. IsCompare(c) /\ SameHolders(c.eqs, eqs)
    BY <1>1, <1>5, <2>1 DEF IsCompare
  <2>3. Selects(MatchedRows(c), S \cap Matches(c))
    BY <2>1, <2>2, MatchedRowsMatch
  <2>4. Matches(c) = Holders(eqs, DOMAIN eqs)
    BY <2>2 DEF Matches, SameHolders
  <2> QED BY <2>2, <2>3, <2>4, SelectionAnswers
<1> QED BY <1>1, <1>3, <1>4, <1>5

(* The comparison a pending match has to run, under a mask.                *)
LEMMA PendingIs ==
  ASSUME ScanInv, view.kind = "pending", NEW deleted, NEW c, c = Pending(deleted)
  PROVE  /\ IsTable /\ IsCompare(c) /\ c.sel = view.sel /\ c.deleted = deleted
         /\ view.sel \in Starts /\ Selects(c.sel, Members(AsRows(view.sel, Total)))
         /\ Asked = Members(AsRows(view.sel, Total)) \cap Matches(c)
<1>1. /\ view.sel \in Starts
      /\ view.c = [sel |-> view.sel, eqs |-> view.c.eqs, classes |-> view.c.classes, deleted |-> NoMask]
      /\ IsCompare(view.c) /\ SameHolders(view.c.eqs, view.asked)
  BY DEF ScanInv, ViewSound
<1>2. c.sel = view.sel /\ c.eqs = view.c.eqs /\ c.classes = view.c.classes /\ c.deleted = deleted
  BY <1>1 DEF Pending
<1>3. IsTable /\ Selects(view.sel, Members(AsRows(view.sel, Total)))
  BY <1>1, InvTable, StartIs DEF ScanInv
<1>4. Matches(c) = Holders(view.asked, DOMAIN view.asked)
  BY <1>1, <1>2 DEF Matches, SameHolders
<1> QED BY <1>1, <1>2, <1>3, <1>4 DEF IsCompare, Asked

(* The ids a call finds, or finds kept.                                    *)
LEMMA HeldIs ==
  ASSUME ScanInv, view.kind = "pending"
  PROVE  Held.some = TRUE /\ Held = [some |-> TRUE, list |-> Held.list] /\ Lists(Held.list, Asked)
<1>1. CASE ids.some
  BY <1>1 DEF Held, ScanInv, IdsSound
<1>2. CASE ~ids.some
  <2>1. Held = [some |-> TRUE, list |-> AsRows(MatchedRows(view.c), Total)]
    BY <1>2 DEF Held
  <2>2. /\ view.c = [sel |-> view.sel, eqs |-> view.c.eqs, classes |-> view.c.classes, deleted |-> NoMask]
        /\ IsTable /\ IsCompare(view.c) /\ SameHolders(view.c.eqs, view.asked) /\ view.sel \in Starts
    BY InvTable DEF ScanInv, ViewSound
  <2>3. view.c.sel = view.sel /\ Selects(view.sel, Members(AsRows(view.sel, Total)))
    BY <2>2, StartIs DEF ScanInv
  <2>4. Selects(MatchedRows(view.c), Members(AsRows(view.sel, Total)) \cap Matches(view.c))
    BY <2>2, <2>3, MatchedRowsMatch
  <2>5. Lists(AsRows(MatchedRows(view.c), Total), Asked)
    BY <2>2, <2>4, SelectionAnswers DEF Asked, Matches, SameHolders
  <2> QED BY <2>1, <2>5
<1> QED BY <1>1, <1>2

LEMMA InitScan == Init => ScanInv
BY DEF Init, ScanInv, ViewSound, IdsSound, CallSound, NoView, NoIds

(* What the state says after a step that leaves the table as it was.       *)
LEMMA SameTable ==
  ASSUME table' = table, kinds' = kinds
  PROVE  /\ Total' = Total
         /\ Asked' = Members(AsRows(view'.sel, Total)) \cap Holders(view'.asked, DOMAIN view'.asked)
         /\ IsCompare(view.c)' <=> IsCompare(view'.c)
         /\ SameHolders(view.c.eqs, view.asked)' <=> SameHolders(view'.c.eqs, view'.asked)
<1>1. Total' = Total
  BY DEF Total
<1>2. Asked' = Members(AsRows(view'.sel, Total)) \cap Holders(view'.asked, DOMAIN view'.asked)
  BY <1>1 DEF Asked, Holders, TableRows, Value
<1>3. IsCompare(view.c)' <=> IsCompare(view'.c)
  BY DEF IsCompare, IsClasses, Zoned, Pieces, ZoneChecks, HasZones
<1>4. SameHolders(view.c.eqs, view.asked)' <=> SameHolders(view'.c.eqs, view'.asked)
  BY <1>1 DEF SameHolders, Holders, TableRows, Value
<1> QED BY <1>1, <1>2, <1>3, <1>4

(* A match keeps the invariant.                                            *)
LEMMA MatchKeeps ==
  ASSUME ScanInv, NEW s \in Starts, NEW eqs \in Equalities, NEW on \in BOOLEAN, Match(s, eqs, on)
  PROVE  ScanInv'
<1>1. /\ view.kind = "none" /\ SelLen(s, Total) > 0
      /\ table' = table /\ kinds' = kinds /\ ids' = ids /\ answer' = answer
  BY DEF Match
<1>2. ids = NoIds /\ answer = NoCall
  BY <1>1 DEF ScanInv, IdsSound, CallSound
<1> DEFINE S == Members(AsRows(s, Total))
           H == Holders(eqs, DOMAIN eqs)
<1>3. IsTable /\ Selects(s, S) /\ IsEqualities(eqs)
  BY InvTable, StartIs, ScanInputs DEF ScanInv, IsEqualities
<1>4. PICK settled : settled = IF AsksStatistics(s) /\ on THEN AskStatistics(s, eqs)
                               ELSE [asked |-> "open", eqs |-> eqs, classes |-> Pieces(eqs)]
  OBVIOUS
<1>5. PICK c : c = [sel |-> s, eqs |-> settled.eqs, classes |-> settled.classes, deleted |-> NoMask]
  OBVIOUS
<1> HIDE DEF S, H
<1>6. /\ settled.asked \in {"nothing", "everything", "open"}
      /\ settled.asked = "nothing" => Lists(AsRows(Empty, Total), S \cap H)
      /\ settled.asked = "everything" => Lists(AsRows(s, Total), S \cap H)
      /\ settled.asked = "open" =>
           IsCompare(c) /\ SameHolders(c.eqs, eqs) /\ Lists(AsRows(MatchedRows(c), Total), S \cap H)
  BY <1>1, <1>3, <1>4, <1>5, MatchSettles DEF H
<1>7. \/ \E rows : view' = Exact(s, eqs, rows) /\ Lists(AsRows(rows, Total), S \cap H)
      \/ /\ view' = [kind |-> "pending", sel |-> s, asked |-> eqs, c |-> c]
         /\ IsCompare(c) /\ SameHolders(c.eqs, eqs)
  <2>1. CASE settled.asked = "nothing"
    <3>1. view' = Exact(s, eqs, Empty)
      BY <1>4, <2>1 DEF Match
    <3> QED BY <1>6, <2>1, <3>1
  <2>2. CASE settled.asked = "everything"
    <3>1. view' = Exact(s, eqs, s)
      BY <1>4, <2>2 DEF Match
    <3> QED BY <1>6, <2>2, <3>1
  <2>3. CASE settled.asked = "open"
    <3>1. \/ view' = Exact(s, eqs, MatchedRows(c))
          \/ view' = [kind |-> "pending", sel |-> s, asked |-> eqs, c |-> c]
      BY <1>4, <1>5, <2>3 DEF Match
    <3> QED BY <1>6, <2>3, <3>1
  <2> QED BY <1>6, <2>1, <2>2, <2>3
<1>8. view'.sel = s /\ view'.asked = eqs /\ Asked' = S \cap H /\ Total' = Total
  <2>1. view'.sel = s /\ view'.asked = eqs
    BY <1>7 DEF Exact
  <2> QED BY <1>1, <2>1, SameTable DEF S, H
<1>9. ViewSound'
  <2>1. ASSUME NEW rows, view' = Exact(s, eqs, rows), Lists(AsRows(rows, Total), S \cap H) PROVE ViewSound'
    <3>1. view'.kind = "exact" /\ view'.rows = rows
      BY <2>1 DEF Exact
    <3>2. Lists(AsRows(view.rows, Total), Asked)'
      BY <1>8, <2>1, <3>1
    <3> QED BY <1>8, <3>1, <3>2 DEF ViewSound
  <2>2. ASSUME view' = [kind |-> "pending", sel |-> s, asked |-> eqs, c |-> c], IsCompare(c), SameHolders(c.eqs, eqs)
        PROVE ViewSound'
    <3>1. view'.kind = "pending" /\ view'.c = c /\ view'.sel = s /\ view'.asked = eqs
      BY <2>2
    <3>2. IsCompare(view.c)' /\ SameHolders(view.c.eqs, view.asked)'
      BY <1>1, <2>2, <3>1, SameTable
    <3>3. c = [sel |-> view'.sel, eqs |-> c.eqs, classes |-> c.classes, deleted |-> NoMask]
      BY <1>5, <3>1
    <3> QED BY <3>1, <3>2, <3>3 DEF ViewSound
  <2> QED BY <1>7, <2>1, <2>2
<1>10. IdsSound' /\ CallSound'
  BY <1>1, <1>2 DEF IdsSound, CallSound, NoIds
<1> QED BY <1>1, <1>9, <1>10 DEF ScanInv

(* So does a call on a pending match.                                      *)
LEMMA CallKeeps ==
  ASSUME ScanInv, view.kind = "pending", table' = table, kinds' = kinds, view' = view,
         ids' = ids \/ ids' = Held,
         answer' = NoCall \/ answer'.call \in {"rows", "count", "capped", "window"}
  PROVE  ScanInv'
<1>1. Asked' = Asked /\ Total' = Total
  BY SameTable DEF Asked
<1>2. ViewSound'
  <2>1. IsCompare(view.c)' <=> IsCompare(view.c)
    BY SameTable
  <2>2. SameHolders(view.c.eqs, view.asked)' <=> SameHolders(view.c.eqs, view.asked)
    BY SameTable
  <2> QED BY <1>1, <2>1, <2>2 DEF ScanInv, ViewSound
<1>3. IdsSound'
  <2>1. CASE ids' = ids
    BY <1>1, <2>1 DEF ScanInv, IdsSound
  <2>2. CASE ids' = Held
    <3>1. Held.some = TRUE /\ Held = [some |-> TRUE, list |-> Held.list] /\ Lists(Held.list, Asked)
      BY HeldIs
    <3> QED BY <1>1, <2>2, <3>1 DEF IdsSound
  <2> QED BY <2>1, <2>2
<1>4. CallSound'
  BY DEF CallSound
<1> QED BY <1>2, <1>3, <1>4 DEF ScanInv

LEMMA StepKeeps ==
  ASSUME ScanInv, [Next]_vars
  PROVE  ScanInv'
<1>1. ASSUME NEW s \in Starts, NEW eqs \in Equalities, NEW on \in BOOLEAN, Match(s, eqs, on) PROVE ScanInv'
  BY <1>1, MatchKeeps
<1>2. CASE Materialize
  <2>1. answer'.call = "rows"
    BY <1>2 DEF Materialize
  <2> QED BY <1>2, <2>1, CallKeeps DEF Materialize
<1>3. CASE Return
  <2>1. view.kind = "pending"
    BY <1>3 DEF Return, ScanInv, CallSound
  <2> QED BY <1>3, <2>1, CallKeeps DEF Return
<1>4. ASSUME NEW deleted \in Tombstones, Count(deleted) PROVE ScanInv'
  <2>1. answer'.call = "count" /\ (ids' = ids \/ ids' = Held)
    BY <1>4 DEF Count
  <2> QED BY <1>4, <2>1, CallKeeps DEF Count
<1>5. ASSUME NEW deleted \in Tombstones, NEW limit \in 0..MaxRows, CountCapped(limit, deleted) PROVE ScanInv'
  <2>1. answer'.call = "capped" /\ (ids' = ids \/ ids' = Held)
    BY <1>5 DEF CountCapped
  <2> QED BY <1>5, <2>1, CallKeeps DEF CountCapped
<1>6. ASSUME NEW deleted \in Tombstones, NEW offset \in 0..MaxRows, NEW limit \in 0..MaxRows,
             WindowOf(offset, limit, deleted)
      PROVE  ScanInv'
  <2>1. answer'.call = "window" /\ (ids' = ids \/ ids' = Held)
    BY <1>6 DEF WindowOf
  <2> QED BY <1>6, <2>1, CallKeeps DEF WindowOf
<1>7. CASE UNCHANGED vars
  <2>1. /\ table' = table /\ kinds' = kinds /\ view' = view /\ ids' = ids /\ answer' = answer
    BY <1>7 DEF vars
  <2>2. CASE view.kind = "pending"
    BY <2>1, <2>2, CallKeeps DEF ScanInv, CallSound
  <2>3. CASE view.kind # "pending"
    <3>1. Asked' = Asked /\ Total' = Total
      BY <2>1, SameTable DEF Asked
    <3> QED BY <2>1, <2>3, <3>1 DEF ScanInv, ViewSound, IdsSound, CallSound
  <2> QED BY <2>2, <2>3
<1> QED BY <1>1, <1>2, <1>3, <1>4, <1>5, <1>6, <1>7 DEF Next

(* ScanInv is inductive.                                                   *)
THEOREM ScanInvariant == Spec => []ScanInv
<1>1. Init => ScanInv
  BY InitScan
<1>2. ScanInv /\ [Next]_vars => ScanInv'
  BY StepKeeps
<1> QED BY <1>1, <1>2, PTL DEF Spec

(* However the statistics settle zones, a match keeps exactly the rows     *)
(* that satisfy the pattern, and so does the memo.                         *)
THEOREM MatchExact == Spec => []MatchIsExact
<1>1. ScanInv => MatchIsExact
  <2> SUFFICES ASSUME ScanInv PROVE MatchIsExact
    OBVIOUS
  <2>1. ASSUME view.kind = "exact" PROVE AsRows(view.rows, Total) = Wanted
    <3>1. view.sel \in Starts /\ Lists(AsRows(view.rows, Total), Asked)
      BY <2>1 DEF ScanInv, ViewSound
    <3>2. Lists(Wanted, Asked)
      BY <3>1, WantedIs DEF ScanInv
    <3> QED BY <3>1, <3>2, OneList
  <2>2. ASSUME ids.some PROVE ids.list = Wanted
    <3>1. view.kind = "pending" /\ Lists(ids.list, Asked)
      BY <2>2 DEF ScanInv, IdsSound
    <3>2. view.sel \in Starts
      BY <3>1 DEF ScanInv, ViewSound
    <3>3. Lists(Wanted, Asked)
      BY <3>2, WantedIs DEF ScanInv
    <3> QED BY <3>1, <3>3, OneList
  <2> QED BY <2>1, <2>2 DEF MatchIsExact
<1> QED BY <1>1, ScanInvariant, PTL

-----------------------------------------------------------------------------
(* What a count adds up                                                    *)

(* The rows of R that match and are not deleted.                           *)
LiveMatches(c, R) == (R \cap Matches(c)) \ c.deleted.rows

LEMMA LiveFinite ==
  ASSUME IsTable, NEW c, NEW R, R \subseteq TableRows
  PROVE  IsFiniteSet(LiveMatches(c, R)) /\ Cardinality(LiveMatches(c, R)) \in Nat
<1>1. Total \in Nat
  BY TotalIsNat
<1>2. IsFiniteSet(TableRows)
  BY <1>1, RunLists, ListSize DEF TableRows
<1>3. LiveMatches(c, R) \subseteq TableRows
  BY DEF LiveMatches
<1> QED BY <1>2, <1>3, FS_Subset, FS_CardinalityType

(* Two sets of rows apart are counted one after the other.                 *)
LEMMA CountsAdd ==
  ASSUME IsTable, NEW c, NEW P, NEW Q, P \subseteq TableRows, Q \subseteq TableRows, P \cap Q = {}
  PROVE  /\ LiveMatches(c, P \cup Q) = LiveMatches(c, P) \cup LiveMatches(c, Q)
         /\ Cardinality(LiveMatches(c, P \cup Q)) = Cardinality(LiveMatches(c, P)) + Cardinality(LiveMatches(c, Q))
<1> DEFINE A == LiveMatches(c, P)
           B == LiveMatches(c, Q)
<1>1. LiveMatches(c, P \cup Q) = A \cup B /\ A \cap B = {}
  BY DEF LiveMatches
<1>2. IsFiniteSet(A) /\ IsFiniteSet(B) /\ Cardinality(A) \in Nat /\ Cardinality(B) \in Nat
  BY LiveFinite
<1> HIDE DEF A, B
<1>3. Cardinality(A \cup B) = Cardinality(A) + Cardinality(B) - Cardinality(A \cap B)
  BY <1>2, FS_Union
<1>4. Cardinality(A \cap B) = 0
  <2>1. A \cap B = {}
    BY <1>1
  <2> QED BY <2>1, FS_EmptySet
<1>5. Cardinality(A \cup B) = Cardinality(A) + Cardinality(B)
  BY <1>2, <1>3, <1>4
<1> QED BY <1>1, <1>5 DEF A, B

(* What a step counts of the rows of P.                                    *)
CountedOf(c, step, part) ==
  CASE step.step = "skip"   -> 0
    [] step.step = "take"   -> LiveCount(c, part)
    [] step.step = "unread" -> step.count
    [] OTHER -> LiveCount(c, Compare(c, part, step.bits))

LEMMA CountedOfCounts ==
  ASSUME IsTable, NEW c, NEW step, NEW part, NEW P, Selects(part, P), Says(c, step, P, TRUE)
  PROVE  CountedOf(c, step, part) = Cardinality(LiveMatches(c, P))
<1>1. step.step \in {"skip", "take", "unread", "compare"}
  BY StepKindFields DEF Says
<1>2. CASE step.step = "skip"
  <2>1. CountedOf(c, step, part) = 0 /\ LiveMatches(c, P) = {}
    BY <1>2 DEF CountedOf, Says, LiveMatches
  <2> QED BY <2>1, FS_EmptySet
<1>3. CASE step.step = "take"
  <2>1. CountedOf(c, step, part) = LiveCount(c, part) /\ LiveMatches(c, P) = P \ c.deleted.rows
    BY <1>3 DEF CountedOf, Says, LiveMatches
  <2>2. LiveCount(c, part) = Cardinality(P \ c.deleted.rows)
    BY LiveCounts
  <2> QED BY <2>1, <2>2
<1>4. CASE step.step = "unread"
  BY <1>4 DEF CountedOf, Says, LiveMatches
<1>5. CASE step.step = "compare"
  <2>1. /\ CountedOf(c, step, part) = LiveCount(c, Compare(c, part, step.bits))
        /\ LiveMatches(c, P) = (P \cap Holders(c.eqs, step.bits)) \ c.deleted.rows
    BY <1>5 DEF CountedOf, Says, LiveMatches
  <2>2. Selects(Compare(c, part, step.bits), P \cap Holders(c.eqs, step.bits))
    BY CompareLists
  <2>3. LiveCount(c, Compare(c, part, step.bits)) = Cardinality((P \cap Holders(c.eqs, step.bits)) \ c.deleted.rows)
    BY <2>2, LiveCounts
  <2> QED BY <2>1, <2>3
<1> QED BY <1>1, <1>2, <1>3, <1>4, <1>5

(* The counts up to each step, by f.                                       *)
GivesCounts(f, c, steps, n) ==
  /\ f[0] = 0
  /\ \A k \in 1..n :
       f[k] = f[k - 1] + CountedOf(c, steps[k].step, PartOf(c.sel, steps[k].start, steps[k].end))
  /\ CountedBy(c, steps) =
       IF ComparesWhole(c.sel, steps, SelLen(c.sel, Total))
       THEN LiveCount(c, Compare(c, c.sel, DOMAIN c.eqs)) ELSE f[n]

LEMMA CountsLoop ==
  ASSUME NEW c, NEW steps, NEW n \in Nat, n = Len(steps)
  PROVE  \E f : GivesCounts(f, c, steps, n)
<1> DEFINE E(x, k) == x + CountedOf(c, steps[k].step, PartOf(c.sel, steps[k].start, steps[k].end))
           Is(g, m) == g = [k \in 0..m |-> IF k = 0 THEN 0 ELSE E(g[k - 1], k)]
           f == CHOOSE g : Is(g, n)
           T == {m \in 0..n : \E g : Is(g, m)}
<1>1. CountedBy(c, steps) =
        IF ComparesWhole(c.sel, steps, SelLen(c.sel, Total))
        THEN LiveCount(c, Compare(c, c.sel, DOMAIN c.eqs)) ELSE f[n]
  BY DEF CountedBy, CountedOf
<1> HIDE DEF E
<1>2. 0 \in T
  <2> DEFINE g == [k \in 0..0 |-> 0]
  <2>1. \A k \in 0..0 : k = 0
    OBVIOUS
  <2>2. Is(g, 0)
    BY <2>1
  <2>3. 0 \in 0..n
    OBVIOUS
  <2> HIDE DEF Is, g
  <2> QED BY <2>2, <2>3
<1>3. ASSUME NEW m \in 1..n, m - 1 \in T PROVE m \in T
  <2>1. PICK g : Is(g, m - 1)
    BY <1>3
  <2> DEFINE h == [k \in 0..m |-> IF k = m THEN E(g[m - 1], m) ELSE g[k]]
  <2>2. \A k \in 0..(m - 1) : g[k] = IF k = 0 THEN 0 ELSE E(g[k - 1], k)
    BY <2>1
  <2>3. \A k \in 0..(m - 1) : k \in 0..m /\ k # m /\ h[k] = g[k]
    OBVIOUS
  <2>4. h[m] = E(g[m - 1], m) /\ m # 0 /\ m - 1 \in 0..(m - 1)
    OBVIOUS
  <2>5. h = [k \in 0..m |-> h[k]]
    OBVIOUS
  <2> HIDE DEF h
  <2>6. \A k \in 0..m : h[k] = IF k = 0 THEN 0 ELSE E(h[k - 1], k)
    <3> TAKE k \in 0..m
    <3>1. CASE k = m
      BY <2>3, <2>4, <3>1
    <3>2. CASE k # m /\ k = 0
      BY <2>2, <2>3, <3>2
    <3>3. CASE k # m /\ k # 0
      <4>1. k \in 0..(m - 1) /\ k - 1 \in 0..(m - 1)
        BY <3>3
      <4> QED BY <2>2, <2>3, <3>3, <4>1
    <3> QED BY <3>1, <3>2, <3>3
  <2>7. Is(h, m)
    BY <2>5, <2>6
  <2>8. m \in 0..n
    OBVIOUS
  <2> QED BY <2>7, <2>8
<1>4. \A m \in 0..n : m \in T
  <2> HIDE DEF T
  <2> QED BY <1>2, <1>3, Upward
<1>5. \E g : Is(g, n)
  <2>1. n \in 0..n
    OBVIOUS
  <2> QED BY <1>4, <2>1
<1>6. Is(f, n)
  <2> HIDE DEF Is
  <2> QED BY <1>5
<1> HIDE DEF f
<1>7. f[0] = 0 /\ \A k \in 1..n : f[k] = E(f[k - 1], k)
  <2>1. \A k \in 1..n : k \in 0..n /\ k # 0
    OBVIOUS
  <2>2. 0 \in 0..n
    OBVIOUS
  <2> QED BY <1>6, <2>1, <2>2
<1> QED BY <1>1, <1>7 DEF E, GivesCounts

(* What the steps of a span count are the live rows that match.            *)
LEMMA CountedSound ==
  ASSUME IsTable, NEW c, NEW R, NEW a, NEW b, InSpan(c.sel, R, a, b),
         NEW steps, Stepped(steps, c, R, a, b, TRUE)
  PROVE  CountedBy(c, steps) = Cardinality(LiveMatches(c, R))
<1>1. Selects(c.sel, R) /\ a \in Nat /\ b \in Nat /\ a < b /\ R \subseteq Interval(a, b) /\ R \subseteq TableRows
  BY Shapes DEF InSpan
<1>2. PICK n : n = Len(steps)
  OBVIOUS
<1>3. /\ n \in Nat /\ n > 0 /\ DOMAIN steps = 1..n
      /\ steps[1].start = a /\ steps[n].end = b
      /\ \A k \in 1..n :
           /\ steps[k].start \in Nat /\ steps[k].end \in Nat
           /\ a <= steps[k].start /\ steps[k].start <= steps[k].end /\ steps[k].end <= b
           /\ Says(c, steps[k].step, R \cap Interval(steps[k].start, steps[k].end), TRUE)
      /\ \A k \in 2..n : k - 1 \in 1..n /\ steps[k - 1].end = steps[k].start
  <2>1. StepsJoin(steps, n, c, R, a, b, TRUE)
    BY <1>2, SteppedFacts
  <2> QED BY <2>1 DEF StepsJoin
<1>4. PICK f : GivesCounts(f, c, steps, n)
  BY <1>2, <1>3, CountsLoop
<1> DEFINE Upto(x) == R \cap Interval(a, x)
           T == {k \in 0..n : (k # 0 => f[k] = Cardinality(LiveMatches(c, Upto(steps[k].end))))}
<1>5. f[0] = 0
  BY <1>4 DEF GivesCounts
<1>6. 0 \in T
  BY <1>3
<1>7. ASSUME NEW k \in 1..n, k - 1 \in T PROVE k \in T
  <2> DEFINE x == steps[k].start
             y == steps[k].end
             step == steps[k].step
             part == PartOf(c.sel, x, y)
             P == R \cap Interval(x, y)
  <2>1. f[k] = f[k - 1] + CountedOf(c, step, part)
    BY <1>4 DEF GivesCounts
  <2>2. x \in Nat /\ y \in Nat /\ a <= x /\ x <= y /\ y <= b /\ Says(c, step, P, TRUE)
    BY <1>3
  <2> HIDE DEF x, y, step
  <2>3. Selects(part, P)
    BY <2>2, PartSelects
  <2> HIDE DEF part, P
  <2>4. CountedOf(c, step, part) = Cardinality(LiveMatches(c, P))
    BY <2>2, <2>3, CountedOfCounts
  <2>5. f[k - 1] = Cardinality(LiveMatches(c, Upto(x)))
    <3>1. CASE k = 1
      <4>1. x = a
        BY <1>3, <3>1 DEF x
      <4>2. Upto(x) = {}
        BY <4>1, <1>1 DEF Interval
      <4>3. f[k - 1] = 0 /\ LiveMatches(c, Upto(x)) = {}
        BY <1>5, <3>1, <4>2 DEF LiveMatches
      <4> QED BY <4>3, FS_EmptySet
    <3>2. CASE k # 1
      <4>1. k \in 2..n /\ k - 1 # 0
        BY <1>3, <3>2
      <4>2. steps[k - 1].end = x
        BY <1>3, <4>1 DEF x
      <4> QED BY <1>7, <4>1, <4>2
    <3> QED BY <3>1, <3>2
  <2>6. Upto(y) = Upto(x) \cup P /\ Upto(x) \cap P = {}
    <3>1. Interval(a, y) = Interval(a, x) \cup Interval(x, y)
      BY <1>1, <2>2, IntervalsJoin
    <3>2. Interval(a, x) \cap Interval(x, y) = {}
      BY <1>1, <2>2 DEF Interval
    <3> QED BY <3>1, <3>2 DEF P
  <2>7. Upto(x) \subseteq TableRows /\ P \subseteq TableRows
    BY <1>1 DEF P
  <2> HIDE DEF Upto
  <2>8. f[k] = Cardinality(LiveMatches(c, Upto(y)))
    <3>1. Cardinality(LiveMatches(c, Upto(x) \cup P)) =
            Cardinality(LiveMatches(c, Upto(x))) + Cardinality(LiveMatches(c, P))
      BY <2>6, <2>7, CountsAdd
    <3> QED BY <2>1, <2>4, <2>5, <2>6, <3>1
  <2>9. k \in 0..n /\ f[k] = Cardinality(LiveMatches(c, Upto(steps[k].end)))
    BY <2>8 DEF y
  <2> QED BY <2>9
<1>8. \A k \in 0..n : k \in T
  <2> HIDE DEF T
  <2> QED BY <1>3, <1>6, <1>7, Upward
<1>9. f[n] = Cardinality(LiveMatches(c, R))
  <2>1. n \in T /\ n # 0
    BY <1>3, <1>8
  <2>2. Upto(steps[n].end) = R
    BY <1>1, <1>3
  <2> HIDE DEF Upto
  <2> QED BY <2>1, <2>2
<1>10. CASE ComparesWhole(c.sel, steps, SelLen(c.sel, Total))
  <2>1. CountedBy(c, steps) = LiveCount(c, Compare(c, c.sel, DOMAIN c.eqs))
    BY <1>4, <1>10 DEF GivesCounts
  <2>2. Selects(Compare(c, c.sel, DOMAIN c.eqs), R \cap Matches(c))
    BY <1>1, CompareLists DEF Matches
  <2> QED BY <2>1, <2>2, LiveCounts DEF LiveMatches
<1>11. CASE ~ComparesWhole(c.sel, steps, SelLen(c.sel, Total))
  BY <1>4, <1>9, <1>11 DEF GivesCounts
<1> QED BY <1>10, <1>11

(* A selection has no rows when its list has none.                         *)
LEMMA NoRows ==
  ASSUME IsTable, NEW s, NEW R, Selects(s, R)
  PROVE  AsRows(s, Total) = <<>> <=> R = {}
<1>1. Lists(AsRows(s, Total), R) /\ AsRows(s, Total) \in Seq(Nat)
  BY SelectionAnswers DEF Lists
<1>2. ASSUME AsRows(s, Total) = <<>> PROVE R = {}
  BY <1>1, <1>2, ListSize, FS_EmptySet
<1>3. ASSUME AsRows(s, Total) # <<>> PROVE R # {}
  <2>1. 1 \in 1..Len(AsRows(s, Total))
    BY <1>1, <1>3, EmptySeq
  <2> QED BY <1>1, <2>1, ListFacts
<1> QED BY <1>2, <1>3

(* A full count.                                                           *)
LEMMA CountAllCounts ==
  ASSUME IsTable, NEW c, IsCompare(c), NEW R, Selects(c.sel, R)
  PROVE  CountAll(c) = Cardinality(LiveMatches(c, R))
<1>1. CASE AsRows(c.sel, Total) = <<>>
  <2>1. CountAll(c) = 0 /\ LiveMatches(c, R) = {}
    BY <1>1, NoRows DEF CountAll, LiveMatches
  <2> QED BY <2>1, FS_EmptySet
<1>2. CASE AsRows(c.sel, Total) # <<>> /\ c.classes.kind = "zoned"
  <2>1. R # {}
    BY <1>2, NoRows
  <2>2. PICK steps : steps = Steps(c, c.sel, TRUE)
    OBVIOUS
  <2>3. CountAll(c) = CountedBy(c, steps)
    BY <1>2, <2>2 DEF CountAll, FullCount
  <2>4. PICK a, b : InSpan(c.sel, R, a, b) /\ Stepped(steps, c, R, a, b, TRUE)
    BY <2>1, <2>2, StepsSound
  <2>5. CountedBy(c, steps) = Cardinality(LiveMatches(c, R))
    BY <2>4, CountedSound
  <2> QED BY <2>3, <2>5
<1>3. CASE AsRows(c.sel, Total) # <<>> /\ c.classes.kind # "zoned"
  <2>1. CountAll(c) = LiveCount(c, MatchedRows(c))
    BY <1>3 DEF CountAll
  <2> QED BY <2>1, MatchedRowsMatch, LiveCounts DEF LiveMatches
<1> QED BY <1>1, <1>2, <1>3

-----------------------------------------------------------------------------
(* Walks that may stop early                                               *)

(* A part read finds the matches among the rows of P, and a count taken    *)
(* for granted is that of the live ones.                                   *)
Reads(c, part, P) ==
  /\ Selects(MatchedPart(c, part), P \cap Matches(c))
  /\ UnreadPart(c, part).some =>
       UnreadPart(c, part).count \in Nat /\ UnreadPart(c, part).count = Cardinality(LiveMatches(c, P))

(* The first k parts reach the rows of U[k], each going on after the last. *)
Reaches(U, c, parts, n, R) ==
  /\ U \in [0..n -> SUBSET R] /\ U[0] = {} /\ U[n] = R
  /\ \A k \in 1..n : \E P : /\ U[k] = U[k - 1] \cup P /\ Reads(c, parts[k], P)
                            /\ \A x \in U[k - 1], y \in P : x < y

Walks(c, parts, n, R) == n \in Nat /\ DOMAIN parts = 1..n /\ \E U : Reaches(U, c, parts, n, R)

LEMMA WalkOn ==
  ASSUME NEW c, NEW parts, NEW n, NEW R, Walks(c, parts, n, R),
         NEW P, \A x \in R, y \in P : x < y,
         NEW more, DOMAIN more = 1..(n + 1), \A k \in 1..n : more[k] = parts[k], Reads(c, more[n + 1], P)
  PROVE  Walks(c, more, n + 1, R \cup P)
<1>1. PICK U : Reaches(U, c, parts, n, R)
  BY DEF Walks
<1>2. n \in Nat /\ U \in [0..n -> SUBSET R] /\ U[0] = {} /\ U[n] = R
  BY <1>1 DEF Walks, Reaches
<1> DEFINE V == [k \in 0..(n + 1) |-> IF k = n + 1 THEN R \cup P ELSE U[k]]
<1>3. V \in [0..(n + 1) -> SUBSET (R \cup P)]
  <2>1. \A k \in 0..(n + 1) : (IF k = n + 1 THEN R \cup P ELSE U[k]) \in SUBSET (R \cup P)
    <3> TAKE k \in 0..(n + 1)
    <3>1. CASE k = n + 1
      BY <3>1
    <3>2. CASE k # n + 1
      <4>1. k \in 0..n
        BY <1>2, <3>2
      <4>2. U[k] \in SUBSET R
        BY <1>2, <4>1
      <4> QED BY <3>2, <4>2
    <3> QED BY <3>1, <3>2
  <2> QED BY <2>1
<1>4. V[n + 1] = R \cup P /\ \A k \in 0..n : V[k] = U[k]
  <2>1. n + 1 \in 0..(n + 1) /\ \A k \in 0..n : k \in 0..(n + 1) /\ k # n + 1
    BY <1>2
  <2> QED BY <2>1
<1> HIDE DEF V
<1>5. V[0] = {}
  <2>1. 0 \in 0..n
    BY <1>2
  <2> QED BY <1>2, <1>4, <2>1
<1>6. \A k \in 1..(n + 1) : \E Q : /\ V[k] = V[k - 1] \cup Q /\ Reads(c, more[k], Q)
                                   /\ \A x \in V[k - 1], y \in Q : x < y
  <2> TAKE k \in 1..(n + 1)
  <2>1. CASE k = n + 1
    <3>1. k - 1 = n /\ n \in 0..n
      BY <1>2, <2>1
    <3>2. V[k] = R \cup P /\ V[k - 1] = R
      BY <1>2, <1>4, <2>1, <3>1
    <3> QED BY <2>1, <3>2
  <2>2. CASE k # n + 1
    <3>1. k \in 1..n /\ k \in 0..n /\ k - 1 \in 0..n
      BY <1>2, <2>2
    <3>2. V[k] = U[k] /\ V[k - 1] = U[k - 1] /\ more[k] = parts[k]
      BY <1>4, <3>1
    <3>3. PICK Q : /\ U[k] = U[k - 1] \cup Q /\ Reads(c, parts[k], Q)
                   /\ \A x \in U[k - 1], y \in Q : x < y
      BY <1>1, <3>1 DEF Reaches
    <3> QED BY <3>2, <3>3
  <2> QED BY <2>1, <2>2
<1>7. Reaches(V, c, more, n + 1, R \cup P)
  BY <1>3, <1>4, <1>5, <1>6 DEF Reaches
<1> QED BY <1>2, <1>7 DEF Walks

(* No parts reach no rows.                                                 *)
LEMMA WalkStarts ==
  ASSUME NEW c, NEW parts, DOMAIN parts = 1..0
  PROVE  Walks(c, parts, 0, {})
<1> DEFINE U == [k \in 0..0 |-> {}]
<1>1. Reaches(U, c, parts, 0, {})
  <2>1. U \in [0..0 -> SUBSET {}] /\ U[0] = {}
    OBVIOUS
  <2>2. \A k \in 1..0 : FALSE
    OBVIOUS
  <2> HIDE DEF U
  <2> QED BY <2>1, <2>2 DEF Reaches
<1> QED BY <1>1 DEF Walks

(* A zone's part, read by its class.                                       *)
ZonePart(c, p) ==
  [zone |-> p, sel |-> PartOf(c.sel, p.start, p.end), class |-> ClassOf(c.classes, c.eqs, p.zone)]

LEMMA ZonePartReads ==
  ASSUME IsTable, NEW c, IsCompare(c), NEW R, NEW a, NEW b, InSpan(c.sel, R, a, b), NEW p, IsPart(p, a, b)
  PROVE  Reads(c, ZonePart(c, p), R \cap Interval(p.start, p.end))
<1> DEFINE sel == PartOf(c.sel, p.start, p.end)
           class == ClassOf(c.classes, c.eqs, p.zone)
           part == ZonePart(c, p)
           P == R \cap Interval(p.start, p.end)
<1>1. part.zone = p /\ part.sel = sel /\ part.class = class
  BY DEF ZonePart
<1>2. Selects(sel, P) /\ P \subseteq ZoneRows(p.zone) /\ IsZone(p.zone) /\ P \subseteq TableRows
  <2>1. Selects(sel, P) /\ P \subseteq ZoneRows(p.zone)
    BY PartRows
  <2> QED BY <2>1, Shapes DEF IsPart
<1> HIDE DEF sel, part, P
<1>3. /\ class.class \in {"none", "all", "mixed"}
      /\ class.class = "none" => \A row \in ZoneRows(p.zone) : row \notin Matches(c)
      /\ class.class = "all" => \A row \in ZoneRows(p.zone) : row \in Matches(c)
      /\ class.class = "mixed" =>
           /\ class.bits \subseteq DOMAIN c.eqs /\ class.bits # {}
           /\ \A row \in ZoneRows(p.zone) : row \in Holders(c.eqs, class.bits) <=> row \in Matches(c)
  BY <1>2, ClassSound DEF IsCompare, Matches
<1> HIDE DEF class
<1>4. CASE class.class = "none"
  <2>1. MatchedPart(c, part) = Empty /\ UnreadPart(c, part) = [some |-> TRUE, count |-> 0]
    BY <1>1, <1>4 DEF MatchedPart, UnreadPart
  <2>2. P \cap Matches(c) = {} /\ LiveMatches(c, P) = {}
    BY <1>2, <1>3, <1>4 DEF LiveMatches
  <2>3. Selects(MatchedPart(c, part), P \cap Matches(c))
    BY <2>1, <2>2, SelectsEmpty
  <2>4. Cardinality(LiveMatches(c, P)) = 0
    BY <2>2, FS_EmptySet
  <2> QED BY <2>1, <2>3, <2>4 DEF Reads, P, part
<1>5. CASE class.class = "all"
  <2>1. MatchedPart(c, part) = sel /\ UnreadPart(c, part) = [some |-> TRUE, count |-> LiveCount(c, sel)]
    BY <1>1, <1>5 DEF MatchedPart, UnreadPart
  <2>2. P \cap Matches(c) = P /\ LiveMatches(c, P) = P \ c.deleted.rows
    BY <1>2, <1>3, <1>5 DEF LiveMatches
  <2>3. Selects(MatchedPart(c, part), P \cap Matches(c))
    BY <1>2, <2>1, <2>2
  <2>4. LiveCount(c, sel) = Cardinality(P \ c.deleted.rows)
    BY <1>2, LiveCounts
  <2>5. LiveCount(c, sel) = Cardinality(LiveMatches(c, P)) /\ Cardinality(LiveMatches(c, P)) \in Nat
    BY <1>2, <2>2, <2>4, LiveFinite
  <2> QED BY <2>1, <2>3, <2>5 DEF Reads, P, part
<1>6. CASE class.class = "mixed"
  <2>1. MatchedPart(c, part) = Compare(c, sel, class.bits) /\ UnreadPart(c, part) = UnreadPlan(c, p, sel, class.bits)
    BY <1>1, <1>6 DEF MatchedPart, UnreadPart
  <2>2. P \cap Holders(c.eqs, class.bits) = P \cap Matches(c)
    BY <1>2, <1>3, <1>6
  <2>3. Selects(MatchedPart(c, part), P \cap Matches(c))
    <3>1. Selects(Compare(c, sel, class.bits), P \cap Holders(c.eqs, class.bits))
      BY <1>2, CompareLists
    <3> QED BY <2>1, <2>2, <3>1
  <2>4. PICK plan : plan = UnreadPlan(c, p, sel, class.bits)
    OBVIOUS
  <2>5. plan.some => plan.count \in Nat /\ plan.count = Cardinality((P \cap Holders(c.eqs, class.bits)) \ c.deleted.rows)
    BY <1>2, <1>3, <1>6, <2>4, UnreadCounts
  <2>6. plan.some => plan.count \in Nat /\ plan.count = Cardinality(LiveMatches(c, P))
    BY <2>2, <2>5 DEF LiveMatches
  <2> QED BY <2>1, <2>3, <2>4, <2>6 DEF Reads, P, part
<1> QED BY <1>3, <1>4, <1>5, <1>6

(* The parts of zones zs.                                                  *)
ZonesRead(c, zs) == [k \in DOMAIN zs |-> ZonePart(c, zs[k])]

(* The zones that hold a selected row are walked over all of them.         *)
LEMMA ZonesWalk ==
  ASSUME IsTable, NEW c, IsCompare(c), NEW R, NEW a, NEW b, InSpan(c.sel, R, a, b),
         NEW all, NEW n, n = Len(all), PartsJoin(all, n, a, b),
         NEW S, S = {p \in Members(all) : SelLen(PartOf(c.sel, p.start, p.end), Total) > 0},
         NEW zs, zs = Filtered(all, S)
  PROVE  zs \in Seq(PartStates) /\ Walks(c, ZonesRead(c, zs), Len(zs), R)
<1>1. /\ n \in Nat /\ n > 0 /\ all \in Seq(PartStates) /\ DOMAIN all = 1..n
      /\ \A k \in 1..n : IsPart(all[k], a, b)
      /\ all[1].start = a /\ all[n].end = b
      /\ \A k \in 1..(n - 1) : all[k].end = all[k + 1].start
  BY DEF PartsJoin
<1>2. a \in Nat /\ b \in Nat /\ a < b /\ R \subseteq Interval(a, b)
  BY DEF InSpan
<1>3. PICK f : IsFilter(f, all, S) /\ zs = f[n]
  BY <1>1, FilterRuns
<1>4. f[0] = <<>> /\ \A k \in 1..n : f[k] = IF all[k] \in S THEN Append(f[k - 1], all[k]) ELSE f[k - 1]
  BY <1>3 DEF IsFilter
<1> DEFINE E(k) == IF k = 0 THEN a ELSE all[k].end
           Upto(x) == R \cap Interval(a, x)
           T == {k \in 0..n : f[k] \in Seq(PartStates) /\ Walks(c, ZonesRead(c, f[k]), Len(f[k]), Upto(E(k)))}
<1>5. 0 \in T
  <2>1. f[0] \in Seq(PartStates) /\ Len(f[0]) = 0 /\ DOMAIN f[0] = 1..0
    BY <1>4
  <2>2. DOMAIN ZonesRead(c, f[0]) = 1..0
    BY <2>1 DEF ZonesRead
  <2>3. Upto(E(0)) = {}
    BY <1>2 DEF Interval
  <2>4. Walks(c, ZonesRead(c, f[0]), 0, {})
    BY <2>2, WalkStarts
  <2> HIDE DEF Upto, E
  <2>5. Walks(c, ZonesRead(c, f[0]), Len(f[0]), Upto(E(0)))
    BY <2>1, <2>3, <2>4
  <2>6. 0 \in 0..n
    BY <1>1
  <2> QED BY <2>1, <2>5, <2>6
<1>6. ASSUME NEW k \in 1..n, k - 1 \in T PROVE k \in T
  <2> DEFINE p == all[k]
             P == R \cap Interval(p.start, p.end)
  <2>1. IsPart(p, a, b) /\ p \in PartStates /\ k \in 0..n /\ k # 0
    BY <1>1, ElementOfSeq
  <2>2. p.start \in Nat /\ p.end \in Nat /\ a <= p.start /\ p.start < p.end
    BY <2>1 DEF IsPart
  <2>3. E(k - 1) = p.start /\ E(k) = p.end
    <3>1. CASE k = 1
      BY <1>1, <3>1
    <3>2. CASE k # 1
      <4>1. k - 1 \in 1..(n - 1) /\ (k - 1) + 1 = k /\ k - 1 # 0
        BY <1>1, <3>2
      <4> QED BY <1>1, <2>1, <4>1
    <3> QED BY <3>1, <3>2
  <2>4. f[k - 1] \in Seq(PartStates) /\ Walks(c, ZonesRead(c, f[k - 1]), Len(f[k - 1]), Upto(p.start))
    BY <1>6, <2>3
  <2>5. Upto(p.end) = Upto(p.start) \cup P /\ \A x \in Upto(p.start), y \in P : x < y
    <3>1. Interval(a, p.end) = Interval(a, p.start) \cup Interval(p.start, p.end)
      BY <1>2, <2>2, IntervalsJoin
    <3>2. \A x \in Interval(a, p.start), y \in Interval(p.start, p.end) : x < y
      BY <1>2, <2>2 DEF Interval
    <3> QED BY <3>1, <3>2
  <2>6. p \in S <=> P # {}
    <3>1. Selects(PartOf(c.sel, p.start, p.end), P) /\ (SelLen(PartOf(c.sel, p.start, p.end), Total) = 0 <=> P = {})
      BY <2>1, PartRows
    <3>2. SelLen(PartOf(c.sel, p.start, p.end), Total) \in Nat
      BY <3>1, SelectionAnswers
    <3>3. p \in Members(all)
      BY <1>1 DEF Members
    <3> QED BY <3>1, <3>2, <3>3
  <2>7. Reads(c, ZonePart(c, p), P)
    BY <2>1, ZonePartReads
  <2> HIDE DEF P, Upto, E
  <2>8. f[k] \in Seq(PartStates) /\ Walks(c, ZonesRead(c, f[k]), Len(f[k]), Upto(p.end))
    <3>1. CASE p \notin S
      <4>1. f[k] = f[k - 1] /\ Upto(p.end) = Upto(p.start)
        BY <1>4, <2>5, <2>6, <3>1
      <4> QED BY <2>4, <4>1
    <3>2. CASE p \in S
      <4> DEFINE zs0 == f[k - 1]
                 m == Len(zs0)
      <4>1. f[k] = Append(zs0, p) /\ zs0 \in Seq(PartStates)
        BY <1>4, <2>4, <3>2
      <4>2. /\ f[k] \in Seq(PartStates) /\ m \in Nat /\ Len(f[k]) = m + 1 /\ DOMAIN f[k] = 1..(m + 1)
            /\ DOMAIN zs0 = 1..m /\ f[k][m + 1] = p /\ \A j \in 1..m : f[k][j] = zs0[j]
        BY <2>1, <4>1, AppendProperties
      <4> HIDE DEF zs0, m
      <4>3. /\ DOMAIN ZonesRead(c, f[k]) = 1..(m + 1)
            /\ \A j \in 1..m : ZonesRead(c, f[k])[j] = ZonesRead(c, zs0)[j]
            /\ ZonesRead(c, f[k])[m + 1] = ZonePart(c, p)
        <5>1. \A j \in 1..(m + 1) : ZonesRead(c, f[k])[j] = ZonePart(c, f[k][j])
          BY <4>2 DEF ZonesRead
        <5>2. \A j \in 1..m : j \in 1..(m + 1) /\ ZonesRead(c, zs0)[j] = ZonePart(c, zs0[j])
          BY <4>2 DEF ZonesRead
        <5>3. m + 1 \in 1..(m + 1) /\ DOMAIN ZonesRead(c, f[k]) = 1..(m + 1)
          BY <4>2 DEF ZonesRead
        <5> QED BY <4>2, <5>1, <5>2, <5>3
      <4>4. Walks(c, ZonesRead(c, zs0), m, Upto(p.start))
        BY <2>4 DEF zs0, m
      <4>5. PICK more : more = ZonesRead(c, f[k])
        OBVIOUS
      <4>6. Walks(c, more, m + 1, Upto(p.start) \cup P)
        BY <2>5, <2>7, <4>3, <4>4, <4>5, WalkOn
      <4> QED BY <2>5, <4>2, <4>5, <4>6
    <3> QED BY <3>1, <3>2
  <2> QED BY <2>1, <2>3, <2>8
<1>7. \A k \in 0..n : k \in T
  <2> HIDE DEF T
  <2> QED BY <1>1, <1>5, <1>6, Upward
<1>8. n \in T /\ E(n) = b
  <2>1. n \in 0..n /\ n # 0
    BY <1>1
  <2>2. E(n) = b
    BY <1>1, <2>1
  <2> HIDE DEF T, E
  <2> QED BY <1>7, <2>1, <2>2
<1>9. Upto(b) = R
  BY <1>2
<1> HIDE DEF Upto, E
<1> QED BY <1>3, <1>8, <1>9

(* A row's place tells the rows apart, and all places are below the number *)
(* of rows.                                                                *)
LEMMA Places ==
  ASSUME NEW rows, NEW R, Lists(rows, R)
  PROVE  /\ \A x \in R : Place(R, x) \in Nat /\ Place(R, x) < Len(rows)
         /\ \A x, y \in R : Place(R, x) < Place(R, y) => x < y
<1>1. /\ Len(rows) \in Nat
      /\ \A i \in 1..Len(rows) : rows[i] \in R /\ rows[i] \in Nat
      /\ \A x \in R : \E i \in 1..Len(rows) : x = rows[i]
      /\ \A i, j \in 1..Len(rows) : rows[i] < rows[j] <=> i < j
  BY ListFacts
<1>2. \A i \in 1..Len(rows) : Place(R, rows[i]) = i - 1
  BY PlaceIs
<1> USE <1>1, <1>2
<1>3. ASSUME NEW x \in R PROVE Place(R, x) \in Nat /\ Place(R, x) < Len(rows)
  <2>1. PICK i \in 1..Len(rows) : x = rows[i]
    OBVIOUS
  <2>2. Place(R, x) = i - 1
    BY <2>1
  <2> QED BY <2>2
<1>4. ASSUME NEW x \in R, NEW y \in R, Place(R, x) < Place(R, y) PROVE x < y
  <2>1. PICK i \in 1..Len(rows) : x = rows[i]
    OBVIOUS
  <2>2. PICK j \in 1..Len(rows) : y = rows[j]
    OBVIOUS
  <2>3. Place(R, x) = i - 1 /\ Place(R, y) = j - 1
    BY <2>1, <2>2
  <2>4. i < j
    BY <1>4, <2>3
  <2> QED BY <2>1, <2>2, <2>4
<1> QED BY <1>3, <1>4

(* The selected rows at some positions are those of these places.          *)
LEMMA RowsAtSelects ==
  ASSUME IsTable, NEW s, NEW R, Selects(s, R), R # {}, NEW from \in Nat, NEW to \in Nat,
         from <= to, to <= Cardinality(R)
  PROVE  Selects(RowsAt(s, from, to), Placed(R, from, to))
<1> DEFINE rows == AsRows(s, Total)
<1>1. Lists(rows, R) /\ Len(rows) = Cardinality(R) /\ R \subseteq TableRows /\ Total \in Nat
  BY SelectionAnswers, Shapes, TotalIsNat
<1>2. from \in 0..Len(rows) /\ to \in from..Len(rows) /\ Len(rows) \in Nat
  BY <1>1, ListFacts
<1> HIDE DEF rows
<1>3. {rows[i] : i \in (from + 1)..to} = Placed(R, from, to)
  BY <1>1, <1>2, SliceByPlace DEF Placed
<1>4. CASE s.kind = "ids"
  <2>1. RowsAt(s, from, to) = Ids(Sublist(rows, from, to))
    BY <1>4 DEF RowsAt, rows
  <2>2. Lists(Sublist(rows, from, to), Placed(R, from, to))
    BY <1>1, <1>2, <1>3, SliceFacts
  <2>3. Placed(R, from, to) \subseteq TableRows
    BY <1>1 DEF Placed
  <2> QED BY <2>1, <2>2, <2>3, SelectsIds
<1>5. CASE s.kind # "ids"
  <2>1. PICK x \in Nat, y \in Nat : x <= y /\ y <= Total /\ rows = Run(x, y) /\ R = Interval(x, y)
    <3>1. CASE s.kind = "all"
      <4>1. R = Interval(0, Total) /\ rows = Run(0, Total)
        BY <3>1, Shapes DEF rows, AsRows, TableRows
      <4> QED BY <1>1, <4>1
    <3>2. CASE s.kind = "range"
      <4>1. s.start \in Nat /\ s.end \in Nat /\ s.start <= s.end /\ s.end <= Total /\ R = Interval(s.start, s.end)
        BY <3>2, Shapes
      <4>2. rows = Run(s.start, s.end)
        BY <3>2, <4>1, ClampedEnds DEF rows, AsRows
      <4> QED BY <4>1, <4>2
    <3> QED BY <1>5, <3>1, <3>2, Shapes
  <2>2. x < y
    <3>1. PICK z : z \in Interval(x, y)
      BY <2>1
    <3> QED BY <3>1 DEF Interval
  <2>3. Len(rows) = y - x /\ \A i \in 1..(y - x) : rows[i] = x + i - 1
    <3>1. Minus(y, x) = y - x
      BY <2>2 DEF Minus
    <3> QED BY <2>1, <3>1, RunLists
  <2>4. rows[1] = x
    <3>1. 1 \in 1..(y - x)
      BY <2>2
    <3> QED BY <2>3, <3>1
  <2>5. RowsAt(s, from, to) = RangeOf(x + from, x + to)
    BY <1>5, <2>4 DEF RowsAt, rows
  <2>6. \A i \in (from + 1)..to : i \in 1..(y - x) /\ rows[i] = x + i - 1
    BY <1>2, <2>3
  <2>7. {rows[i] : i \in (from + 1)..to} = Interval(x + from, x + to)
    <3>1. ASSUME NEW i \in (from + 1)..to PROVE rows[i] \in Interval(x + from, x + to)
      <4>1. rows[i] = x + i - 1
        BY <2>6
      <4>2. x + i - 1 \in (x + from)..(x + to) /\ x + i - 1 < x + to
        OBVIOUS
      <4> QED BY <4>1, <4>2 DEF Interval
    <3>2. ASSUME NEW z \in Interval(x + from, x + to) PROVE \E i \in (from + 1)..to : z = rows[i]
      <4>1. z \in (x + from)..(x + to) /\ z < x + to
        BY DEF Interval
      <4>2. z - x + 1 \in (from + 1)..to /\ x + (z - x + 1) - 1 = z
        BY <4>1
      <4> QED BY <2>6, <4>2
    <3> QED BY <3>1, <3>2
  <2>8. x + from \in Nat /\ x + to \in Nat /\ x + from <= x + to /\ x + to <= Total
    BY <1>1, <1>2, <2>1, <2>3
  <2>9. Selects(RangeOf(x + from, x + to), Interval(x + from, x + to))
    BY <2>8, SelectsRange
  <2> QED BY <1>3, <2>5, <2>7, <2>9
<1> QED BY <1>4, <1>5

(* A piece's part.                                                         *)
PiecePart(c, q) == [sel |-> RowsAt(c.sel, q[1], q[2]), class |-> [class |-> "piece"]]
PiecesRead(c, qs) == [k \in DOMAIN qs |-> PiecePart(c, qs[k])]

LEMMA PiecePartReads ==
  ASSUME IsTable, NEW c, IsCompare(c), NEW R, Selects(c.sel, R), R # {}, NEW from \in Nat, NEW to \in Nat,
         from <= to, to <= Cardinality(R)
  PROVE  Reads(c, PiecePart(c, <<from, to>>), Placed(R, from, to))
<1> DEFINE part == PiecePart(c, <<from, to>>)
           sel == RowsAt(c.sel, from, to)
           P == Placed(R, from, to)
<1>1. part.sel = sel /\ part.class = [class |-> "piece"]
  BY DEF PiecePart
<1>2. Selects(sel, P)
  BY RowsAtSelects
<1> HIDE DEF sel, P, part
<1>3. MatchedPart(c, part) = PiecesCompared(c, sel) /\ UnreadPart(c, part) = [some |-> FALSE]
  BY <1>1 DEF MatchedPart, UnreadPart
<1>4. Selects(PiecesCompared(c, sel), P \cap Matches(c))
  BY <1>2, PiecesMatch
<1> QED BY <1>3, <1>4 DEF Reads, part, P

(* The next piece.                                                         *)
GrowStep(total, m) ==
  LET end == Least(m.at + m.size, total)
  IN IF m.at >= total THEN m
     ELSE [at |-> end, size |-> m.size * PIECE_GROWTH, out |-> Append(m.out, <<m.at, end>>)]

GivesPieces(f, total, first) ==
  /\ f[0] = [at |-> 0, size |-> Greatest(first, 1), out |-> <<>>]
  /\ \A k \in 1..total : f[k] = GrowStep(total, f[k - 1])
  /\ GrowingPieces(total, first) = f[total].out

LEMMA PiecesLoop ==
  ASSUME NEW total \in Nat, NEW first
  PROVE  \E f : GivesPieces(f, total, first)
<1> DEFINE E(x) == GrowStep(total, x)
           s0 == [at |-> 0, size |-> Greatest(first, 1), out |-> <<>>]
           Is(g, m) == g = [k \in 0..m |-> IF k = 0 THEN s0 ELSE E(g[k - 1])]
           f == CHOOSE g : Is(g, total)
           T == {m \in 0..total : \E g : Is(g, m)}
<1>1. GrowingPieces(total, first) = f[total].out
  BY DEF GrowingPieces, GrowStep
<1> HIDE DEF E, s0
<1>2. 0 \in T
  <2> DEFINE g == [k \in 0..0 |-> s0]
  <2>1. \A k \in 0..0 : k = 0
    OBVIOUS
  <2>2. Is(g, 0)
    BY <2>1
  <2>3. 0 \in 0..total
    OBVIOUS
  <2> HIDE DEF Is, g
  <2> QED BY <2>2, <2>3
<1>3. ASSUME NEW m \in 1..total, m - 1 \in T PROVE m \in T
  <2>1. PICK g : Is(g, m - 1)
    BY <1>3
  <2> DEFINE h == [k \in 0..m |-> IF k = m THEN E(g[m - 1]) ELSE g[k]]
  <2>2. \A k \in 0..(m - 1) : g[k] = IF k = 0 THEN s0 ELSE E(g[k - 1])
    BY <2>1
  <2>3. \A k \in 0..(m - 1) : k \in 0..m /\ k # m /\ h[k] = g[k]
    OBVIOUS
  <2>4. h[m] = E(g[m - 1]) /\ m # 0 /\ m - 1 \in 0..(m - 1)
    OBVIOUS
  <2>5. h = [k \in 0..m |-> h[k]]
    OBVIOUS
  <2> HIDE DEF h
  <2>6. \A k \in 0..m : h[k] = IF k = 0 THEN s0 ELSE E(h[k - 1])
    <3> TAKE k \in 0..m
    <3>1. CASE k = m
      BY <2>3, <2>4, <3>1
    <3>2. CASE k # m /\ k = 0
      BY <2>2, <2>3, <3>2
    <3>3. CASE k # m /\ k # 0
      <4>1. k \in 0..(m - 1) /\ k - 1 \in 0..(m - 1)
        BY <3>3
      <4> QED BY <2>2, <2>3, <3>3, <4>1
    <3> QED BY <3>1, <3>2, <3>3
  <2>7. Is(h, m)
    BY <2>5, <2>6
  <2>8. m \in 0..total
    OBVIOUS
  <2> QED BY <2>7, <2>8
<1>4. \A m \in 0..total : m \in T
  <2> HIDE DEF T
  <2> QED BY <1>2, <1>3, Upward
<1>5. \E g : Is(g, total)
  <2>1. total \in 0..total
    OBVIOUS
  <2> QED BY <1>4, <2>1
<1>6. Is(f, total)
  <2> HIDE DEF Is
  <2> QED BY <1>5
<1> HIDE DEF f
<1>7. f[0] = s0 /\ \A k \in 1..total : f[k] = E(f[k - 1])
  <2>1. \A k \in 1..total : k \in 0..total /\ k # 0
    OBVIOUS
  <2>2. 0 \in 0..total
    OBVIOUS
  <2> QED BY <1>6, <2>1, <2>2
<1> QED BY <1>1, <1>7 DEF E, s0, GivesPieces

(* The pieces up to k reach the rows placed before where they have come,   *)
(* which is no less than k.                                                *)
Grown(c, R, total, k, m) ==
  /\ m.at \in 0..total /\ k <= m.at /\ m.size \in Nat /\ m.size > 0 /\ m.out \in Seq(Nat \X Nat)
  /\ Walks(c, PiecesRead(c, m.out), Len(m.out), Placed(R, 0, m.at))

LEMMA GrowKeeps ==
  ASSUME IsTable, NEW c, IsCompare(c), NEW R, Selects(c.sel, R), R # {}, NEW total, total = Cardinality(R),
         NEW k \in 1..total, NEW m, Grown(c, R, total, k - 1, m)
  PROVE  Grown(c, R, total, k, GrowStep(total, m))
<1> DEFINE end == Least(m.at + m.size, total)
           qs == m.out
           len == Len(qs)
<1>1. total \in Nat /\ Lists(AsRows(c.sel, Total), R) /\ Len(AsRows(c.sel, Total)) = total
  BY SelectionAnswers
<1>2. /\ m.at \in 0..total /\ k - 1 <= m.at /\ m.size \in Nat /\ m.size > 0 /\ qs \in Seq(Nat \X Nat)
      /\ Walks(c, PiecesRead(c, qs), len, Placed(R, 0, m.at))
  BY DEF Grown
<1>3. CASE m.at >= total
  <2>1. GrowStep(total, m) = m
    BY <1>3 DEF GrowStep
  <2>2. k <= m.at
    BY <1>1, <1>2, <1>3
  <2> QED BY <1>2, <2>1, <2>2 DEF Grown
<1>4. CASE ~(m.at >= total)
  <2>1. m.at < total /\ end \in 0..total /\ m.at < end /\ k <= end /\ end \in Nat /\ m.at \in Nat
    BY <1>1, <1>2, <1>4 DEF Least
  <2>2. PICK next : next = GrowStep(total, m)
    OBVIOUS
  <2>3. next.at = end /\ next.size = m.size * PIECE_GROWTH /\ next.out = Append(qs, <<m.at, end>>)
    BY <1>4, <2>2 DEF GrowStep
  <2> HIDE DEF end
  <2>4. next.size \in Nat /\ next.size > 0
    <3>1. PIECE_GROWTH \in Nat /\ 1 <= PIECE_GROWTH
      BY ScanSizes
    <3>2. 1 * m.size <= PIECE_GROWTH * m.size
      BY <1>2, <3>1, TimesGrows
    <3>3. PIECE_GROWTH * m.size = m.size * PIECE_GROWTH /\ m.size * PIECE_GROWTH \in Nat
      BY <1>2, <3>1, TimesSwap, TimesNext
    <3> QED BY <1>2, <2>3, <3>2, <3>3
  <2> DEFINE q == <<m.at, end>>
  <2>5. /\ next.out \in Seq(Nat \X Nat) /\ len \in Nat /\ Len(next.out) = len + 1 /\ DOMAIN next.out = 1..(len + 1)
        /\ DOMAIN qs = 1..len /\ next.out[len + 1] = q /\ \A j \in 1..len : next.out[j] = qs[j]
    <3>1. q \in Nat \X Nat
      BY <2>1
    <3> HIDE DEF q
    <3> QED BY <1>2, <2>3, <3>1, AppendProperties DEF q
  <2> HIDE DEF q, qs, len
  <2>6. /\ DOMAIN PiecesRead(c, next.out) = 1..(len + 1)
        /\ \A j \in 1..len : PiecesRead(c, next.out)[j] = PiecesRead(c, qs)[j]
        /\ PiecesRead(c, next.out)[len + 1] = PiecePart(c, q)
    <3>1. \A j \in 1..(len + 1) : PiecesRead(c, next.out)[j] = PiecePart(c, next.out[j])
      BY <2>5 DEF PiecesRead
    <3>2. \A j \in 1..len : j \in 1..(len + 1) /\ PiecesRead(c, qs)[j] = PiecePart(c, qs[j])
      BY <2>5 DEF PiecesRead
    <3>3. len + 1 \in 1..(len + 1) /\ DOMAIN PiecesRead(c, next.out) = 1..(len + 1)
      BY <2>5 DEF PiecesRead
    <3> QED BY <2>5, <3>1, <3>2, <3>3
  <2>7. /\ \A x \in R : Place(R, x) \in Nat
        /\ \A x, y \in R : Place(R, x) < Place(R, y) => x < y
    BY <1>1, Places
  <2>8. Placed(R, 0, end) = Placed(R, 0, m.at) \cup Placed(R, m.at, end)
    BY <2>1, <2>7 DEF Placed
  <2>9. \A x \in Placed(R, 0, m.at), y \in Placed(R, m.at, end) : x < y
    BY <2>1, <2>7 DEF Placed
  <2>10. Reads(c, PiecePart(c, q), Placed(R, m.at, end))
    BY <1>1, <2>1, PiecePartReads DEF q
  <2>11. PICK more : more = PiecesRead(c, next.out)
    OBVIOUS
  <2>12. Walks(c, more, len + 1, Placed(R, 0, m.at) \cup Placed(R, m.at, end))
    BY <1>2, <2>6, <2>9, <2>10, <2>11, WalkOn
  <2> QED BY <2>8, <2>11, <2>12, <2>1, <2>2, <2>3, <2>4, <2>5 DEF Grown
<1> QED BY <1>3, <1>4

(* The growing pieces are walked over all selected rows.                   *)
LEMMA PiecesWalk ==
  ASSUME IsTable, NEW c, IsCompare(c), NEW R, Selects(c.sel, R), R # {}, NEW total, total = Cardinality(R),
         NEW first \in Nat, NEW qs, qs = GrowingPieces(total, first)
  PROVE  qs \in Seq(Nat \X Nat) /\ Walks(c, PiecesRead(c, qs), Len(qs), R)
<1>1. total \in Nat /\ Lists(AsRows(c.sel, Total), R) /\ Len(AsRows(c.sel, Total)) = total
  BY SelectionAnswers
<1>2. PICK f : GivesPieces(f, total, first)
  BY <1>1, PiecesLoop
<1>3. /\ f[0] = [at |-> 0, size |-> Greatest(first, 1), out |-> <<>>]
      /\ \A k \in 1..total : f[k] = GrowStep(total, f[k - 1])
      /\ qs = f[total].out
  BY <1>2 DEF GivesPieces
<1> DEFINE T == {k \in 0..total : Grown(c, R, total, k, f[k])}
<1>4. 0 \in T
  <2>1. f[0].at = 0 /\ f[0].size = Greatest(first, 1) /\ f[0].out = <<>>
    BY <1>3
  <2>2. Greatest(first, 1) \in Nat /\ Greatest(first, 1) > 0
    BY DEF Greatest
  <2>3. DOMAIN PiecesRead(c, <<>>) = 1..0
    BY DEF PiecesRead
  <2>4. Placed(R, 0, 0) = {}
    <3>1. \A x \in R : Place(R, x) \in Nat
      BY <1>1, Places
    <3> QED BY <3>1 DEF Placed
  <2>5. Walks(c, PiecesRead(c, <<>>), 0, {})
    BY <2>3, WalkStarts
  <2>6. Len(<<>>) = 0 /\ <<>> \in Seq(Nat \X Nat) /\ 0 \in 0..total
    BY <1>1
  <2>7. Walks(c, PiecesRead(c, f[0].out), Len(f[0].out), Placed(R, 0, f[0].at))
    BY <2>1, <2>4, <2>5, <2>6
  <2>8. /\ f[0].at \in 0..total /\ 0 <= f[0].at /\ f[0].size \in Nat /\ f[0].size > 0
        /\ f[0].out \in Seq(Nat \X Nat)
    BY <2>1, <2>2, <2>6
  <2>9. Grown(c, R, total, 0, f[0])
    BY <2>7, <2>8 DEF Grown
  <2> QED BY <2>6, <2>9
<1>5. ASSUME NEW k \in 1..total, k - 1 \in T PROVE k \in T
  <2>1. Grown(c, R, total, k - 1, f[k - 1])
    BY <1>5
  <2>2. Grown(c, R, total, k, GrowStep(total, f[k - 1]))
    BY <2>1, GrowKeeps
  <2>3. k \in 0..total /\ f[k] = GrowStep(total, f[k - 1])
    BY <1>1, <1>3
  <2> QED BY <2>2, <2>3
<1>6. \A k \in 0..total : k \in T
  <2> HIDE DEF T
  <2> QED BY <1>1, <1>4, <1>5, Upward
<1>7. Grown(c, R, total, total, f[total])
  <2>1. total \in 0..total
    BY <1>1
  <2> QED BY <1>6, <2>1
<1>8. f[total].at = total
  BY <1>1, <1>7 DEF Grown
<1>9. Placed(R, 0, total) = R
  <2>1. \A x \in R : Place(R, x) \in Nat /\ Place(R, x) < total
    BY <1>1, Places
  <2> QED BY <2>1 DEF Placed
<1> QED BY <1>3, <1>7, <1>8, <1>9 DEF Grown

LEMMA ReadLength ==
  ASSUME NEW X, NEW seq \in Seq(X), NEW parts, parts = [k \in DOMAIN seq |-> parts[k]]
  PROVE  Len(parts) = Len(seq)
<1>1. Len(seq) \in Nat /\ DOMAIN seq = 1..Len(seq)
  OBVIOUS
<1>2. PICK m \in Nat : m = Len(seq) /\ DOMAIN seq = 1..m
  BY <1>1
<1>3. parts = [k \in 1..m |-> parts[k]]
  BY <1>2
<1> DEFINE Y == {parts[k] : k \in 1..m}
<1>4. parts \in [1..m -> Y]
  BY <1>3
<1> HIDE DEF Y
<1>5. parts \in Seq(Y)
  BY <1>4, SeqDef
<1>6. Len(parts) \in Nat /\ DOMAIN parts = 1..Len(parts)
  BY <1>5
<1>7. 1..Len(parts) = 1..m
  BY <1>3, <1>6
<1>8. PICK len \in Nat : len = Len(parts)
  BY <1>6
<1>9. len = m
  <2>1. 1..len = 1..m
    BY <1>7, <1>8
  <2>2. ASSUME len < m PROVE FALSE
    <3>1. m \in 1..m /\ m \notin 1..len
      BY <2>2
    <3> QED BY <2>1, <3>1
  <2>3. ASSUME m < len PROVE FALSE
    <3>1. len \in 1..len /\ len \notin 1..m
      BY <2>3
    <3> QED BY <2>1, <3>1
  <2> QED BY <2>2, <2>3
<1> QED BY <1>2, <1>8, <1>9

(* A walk that may stop early reads parts that reach all selected rows.    *)
LEMMA PartsWalk ==
  ASSUME IsTable, NEW c, IsCompare(c), NEW R, Selects(c.sel, R), R # {}, NEW want \in Nat,
         NEW parts, parts = Parts(c, want)
  PROVE  Walks(c, parts, Len(parts), R)
<1>1. CASE c.classes.kind = "zoned"
  <2>1. PICK a, b : SpanOf(c.sel) = <<a, b>> /\ InSpan(c.sel, R, a, b)
    BY SpanIs
  <2>2. a \in Nat /\ b \in Nat /\ a < b /\ b <= Total
    BY <2>1 DEF InSpan
  <2>3. PICK all : all = ZoneParts(<<a, b>>)
    OBVIOUS
  <2>4. PICK n : n = Len(all)
    OBVIOUS
  <2>5. PartsJoin(all, n, a, b)
    BY <2>2, <2>3, <2>4, ZonePartsJoin
  <2>6. PICK S : S = {p \in Members(all) : SelLen(PartOf(c.sel, p.start, p.end), Total) > 0}
    OBVIOUS
  <2>7. PICK zs : zs = Filtered(all, S)
    OBVIOUS
  <2>8. parts = ZonesRead(c, zs)
    BY <1>1, <2>1, <2>3, <2>6, <2>7 DEF Parts, ZonesRead, ZonePart
  <2>9. zs \in Seq(PartStates) /\ Walks(c, ZonesRead(c, zs), Len(zs), R)
    BY <2>1, <2>4, <2>5, <2>6, <2>7, ZonesWalk
  <2>10. parts = [k \in DOMAIN zs |-> parts[k]]
    BY <2>8 DEF ZonesRead
  <2>11. Len(parts) = Len(zs)
    BY <2>9, <2>10, ReadLength
  <2> QED BY <2>8, <2>9, <2>11
<1>2. CASE c.classes.kind # "zoned"
  <2>1. PICK total : total = Cardinality(R)
    OBVIOUS
  <2>2. SelLen(c.sel, Total) = total /\ total \in Nat
    BY <2>1, SelectionAnswers
  <2>3. PICK first \in Nat : first = IF total <= want THEN total ELSE FIRST_PIECE_ROWS
    BY <2>2, ScanSizes DEF FIRST_PIECE_ROWS
  <2>4. PICK qs : qs = GrowingPieces(total, first)
    OBVIOUS
  <2>5. parts = PiecesRead(c, qs)
    BY <1>2, <2>2, <2>3, <2>4 DEF Parts, PiecesRead, PiecePart
  <2>6. qs \in Seq(Nat \X Nat) /\ Walks(c, PiecesRead(c, qs), Len(qs), R)
    BY <2>1, <2>4, PiecesWalk
  <2>7. parts = [k \in DOMAIN qs |-> parts[k]]
    BY <2>5 DEF PiecesRead
  <2>8. Len(parts) = Len(qs)
    BY <2>6, <2>7, ReadLength
  <2> QED BY <2>5, <2>6, <2>8
<1> QED BY <1>1, <1>2

(* A part's count, read or taken for granted.                              *)
PartCount(c, part) ==
  LET unread == UnreadPart(c, part)
  IN IF unread.some THEN unread.count ELSE LiveCount(c, MatchedPart(c, part))

LEMMA PartCounts ==
  ASSUME IsTable, NEW c, NEW part, NEW P, Reads(c, part, P)
  PROVE  PartCount(c, part) = Cardinality(LiveMatches(c, P))
<1>1. CASE UnreadPart(c, part).some
  BY <1>1 DEF PartCount, Reads
<1>2. CASE ~UnreadPart(c, part).some
  <2>1. PartCount(c, part) = LiveCount(c, MatchedPart(c, part))
    BY <1>2 DEF PartCount
  <2>2. Selects(MatchedPart(c, part), P \cap Matches(c))
    BY DEF Reads
  <2>3. LiveCount(c, MatchedPart(c, part)) = Cardinality((P \cap Matches(c)) \ c.deleted.rows)
    BY <2>2, LiveCounts
  <2> QED BY <2>1, <2>3 DEF LiveMatches
<1> QED BY <1>1, <1>2

(* The rows a walk reaches, one part on.                                   *)
NextPart(U, c, parts, k, P) ==
  /\ U[k] = U[k - 1] \cup P /\ Reads(c, parts[k], P)
  /\ U[k - 1] \subseteq TableRows /\ P \subseteq TableRows /\ \A x \in U[k - 1], y \in P : x < y
  /\ LiveMatches(c, U[k]) = LiveMatches(c, U[k - 1]) \cup LiveMatches(c, P)
  /\ Cardinality(LiveMatches(c, U[k])) =
       Cardinality(LiveMatches(c, U[k - 1])) + Cardinality(LiveMatches(c, P))

LEMMA ReachesOn ==
  ASSUME IsTable, NEW c, NEW parts, NEW n, NEW R, R \subseteq TableRows, NEW U, Reaches(U, c, parts, n, R),
         NEW k \in 1..n
  PROVE  \E P : NextPart(U, c, parts, k, P)
<1>1. PICK P : U[k] = U[k - 1] \cup P /\ Reads(c, parts[k], P) /\ \A x \in U[k - 1], y \in P : x < y
  BY DEF Reaches
<1>2. U[k] \subseteq R
  <2>1. k \in 0..n /\ U \in [0..n -> SUBSET R]
    BY DEF Reaches
  <2> QED BY <2>1
<1>3. U[k - 1] \subseteq TableRows /\ P \subseteq TableRows
  BY <1>1, <1>2
<1>4. U[k - 1] \cap P = {}
  <2> SUFFICES ASSUME NEW x \in U[k - 1], x \in P PROVE FALSE
    OBVIOUS
  <2>1. x < x /\ x \in Nat
    BY <1>1, <1>3, TableRowsNat
  <2> QED BY <2>1
<1>5. /\ Cardinality(LiveMatches(c, U[k - 1] \cup P)) =
           Cardinality(LiveMatches(c, U[k - 1])) + Cardinality(LiveMatches(c, P))
      /\ LiveMatches(c, U[k - 1] \cup P) = LiveMatches(c, U[k - 1]) \cup LiveMatches(c, P)
  <2>1. PICK A : A = U[k - 1]
    OBVIOUS
  <2>2. A \subseteq TableRows /\ P \subseteq TableRows /\ A \cap P = {}
    BY <1>3, <1>4, <2>1
  <2>3. Cardinality(LiveMatches(c, A \cup P)) = Cardinality(LiveMatches(c, A)) + Cardinality(LiveMatches(c, P))
    BY <2>2, CountsAdd
  <2>4. LiveMatches(c, A \cup P) = LiveMatches(c, A) \cup LiveMatches(c, P)
    BY DEF LiveMatches
  <2> QED BY <2>1, <2>3, <2>4
<1> QED BY <1>1, <1>3, <1>5 DEF NextPart

(* The counts up to each part, by f.                                       *)
GivesUpto(f, c, cap, parts, n) ==
  /\ f[0] = 0
  /\ \A k \in 1..n : f[k] = IF f[k - 1] >= cap THEN f[k - 1] ELSE f[k - 1] + PartCount(c, parts[k])
  /\ CountUpTo(c, cap) = IF AsRows(c.sel, Total) = <<>> THEN 0 ELSE f[n]

LEMMA UptoLoop ==
  ASSUME NEW c, NEW cap, NEW parts, parts = Parts(c, cap), NEW n \in Nat, n = Len(parts)
  PROVE  \E f : GivesUpto(f, c, cap, parts, n)
<1> DEFINE E(x, k) == IF x >= cap THEN x ELSE x + PartCount(c, parts[k])
           Is(g, m) == g = [k \in 0..m |-> IF k = 0 THEN 0 ELSE E(g[k - 1], k)]
           f == CHOOSE g : Is(g, n)
           T == {m \in 0..n : \E g : Is(g, m)}
<1>1. CountUpTo(c, cap) = IF AsRows(c.sel, Total) = <<>> THEN 0 ELSE f[n]
  BY DEF CountUpTo, PartCount
<1> HIDE DEF E
<1>2. 0 \in T
  <2> DEFINE g == [k \in 0..0 |-> 0]
  <2>1. \A k \in 0..0 : k = 0
    OBVIOUS
  <2>2. Is(g, 0)
    BY <2>1
  <2>3. 0 \in 0..n
    OBVIOUS
  <2> HIDE DEF Is, g
  <2> QED BY <2>2, <2>3
<1>3. ASSUME NEW m \in 1..n, m - 1 \in T PROVE m \in T
  <2>1. PICK g : Is(g, m - 1)
    BY <1>3
  <2> DEFINE h == [k \in 0..m |-> IF k = m THEN E(g[m - 1], m) ELSE g[k]]
  <2>2. \A k \in 0..(m - 1) : g[k] = IF k = 0 THEN 0 ELSE E(g[k - 1], k)
    BY <2>1
  <2>3. \A k \in 0..(m - 1) : k \in 0..m /\ k # m /\ h[k] = g[k]
    OBVIOUS
  <2>4. h[m] = E(g[m - 1], m) /\ m # 0 /\ m - 1 \in 0..(m - 1)
    OBVIOUS
  <2>5. h = [k \in 0..m |-> h[k]]
    OBVIOUS
  <2> HIDE DEF h
  <2>6. \A k \in 0..m : h[k] = IF k = 0 THEN 0 ELSE E(h[k - 1], k)
    <3> TAKE k \in 0..m
    <3>1. CASE k = m
      BY <2>3, <2>4, <3>1
    <3>2. CASE k # m /\ k = 0
      BY <2>2, <2>3, <3>2
    <3>3. CASE k # m /\ k # 0
      <4>1. k \in 0..(m - 1) /\ k - 1 \in 0..(m - 1)
        BY <3>3
      <4> QED BY <2>2, <2>3, <3>3, <4>1
    <3> QED BY <3>1, <3>2, <3>3
  <2>7. Is(h, m)
    BY <2>5, <2>6
  <2>8. m \in 0..n
    OBVIOUS
  <2> QED BY <2>7, <2>8
<1>4. \A m \in 0..n : m \in T
  <2> HIDE DEF T
  <2> QED BY <1>2, <1>3, Upward
<1>5. \E g : Is(g, n)
  <2>1. n \in 0..n
    OBVIOUS
  <2> QED BY <1>4, <2>1
<1>6. Is(f, n)
  <2> HIDE DEF Is
  <2> QED BY <1>5
<1> HIDE DEF f
<1>7. f[0] = 0 /\ \A k \in 1..n : f[k] = E(f[k - 1], k)
  <2>1. \A k \in 1..n : k \in 0..n /\ k # 0
    OBVIOUS
  <2>2. 0 \in 0..n
    OBVIOUS
  <2> QED BY <1>6, <2>1, <2>2
<1> QED BY <1>1, <1>7 DEF E, GivesUpto

(* A capped count is exact, or no less than the cap and no more than what  *)
(* there is.                                                               *)
LEMMA CountUpToCounts ==
  ASSUME IsTable, NEW c, IsCompare(c), NEW R, Selects(c.sel, R), NEW cap \in Nat, NEW live,
         live = Cardinality(LiveMatches(c, R))
  PROVE  Least(cap, CountUpTo(c, cap)) = Least(cap, live)
<1>1. R \subseteq TableRows
  BY Shapes
<1>2. CASE R = {}
  <2>1. CountUpTo(c, cap) = 0
    BY <1>2, NoRows DEF CountUpTo
  <2>2. LiveMatches(c, R) = {}
    BY <1>2 DEF LiveMatches
  <2> QED BY <2>1, <2>2, FS_EmptySet
<1>3. CASE R # {}
  <2>1. PICK parts : parts = Parts(c, cap)
    OBVIOUS
  <2>2. PICK n : n = Len(parts)
    OBVIOUS
  <2>3. Walks(c, parts, n, R)
    BY <1>3, <2>1, <2>2, PartsWalk
  <2>4. n \in Nat
    BY <2>3 DEF Walks
  <2>5. PICK U : Reaches(U, c, parts, n, R)
    BY <2>3 DEF Walks
  <2>6. PICK f : GivesUpto(f, c, cap, parts, n)
    BY <2>1, <2>2, <2>4, UptoLoop
  <2> DEFINE V(k) == Cardinality(LiveMatches(c, U[k]))
             T == {k \in 0..n : V(k) \in Nat /\ f[k] \in Nat /\ (f[k] = V(k) \/ (cap <= f[k] /\ f[k] <= V(k)))}
  <2>7. 0 \in T
    <3>1. f[0] = 0 /\ U[0] = {}
      BY <2>5, <2>6 DEF GivesUpto, Reaches
    <3>2. LiveMatches(c, U[0]) = {}
      BY <3>1 DEF LiveMatches
    <3>3. V(0) = 0 /\ 0 \in 0..n
      BY <2>4, <3>2, FS_EmptySet
    <3> HIDE DEF V
    <3> QED BY <3>1, <3>3
  <2>8. ASSUME NEW k \in 1..n, k - 1 \in T PROVE k \in T
    <3>1. PICK P : NextPart(U, c, parts, k, P)
      BY <1>1, <2>5, ReachesOn
    <3>2. PICK more : more = Cardinality(LiveMatches(c, P))
      OBVIOUS
    <3>3. more \in Nat /\ V(k) = V(k - 1) + more /\ PartCount(c, parts[k]) = more
      BY <3>1, <3>2, LiveFinite, PartCounts DEF NextPart
    <3>4. f[k] = IF f[k - 1] >= cap THEN f[k - 1] ELSE f[k - 1] + more
      BY <2>6, <3>3 DEF GivesUpto
    <3> HIDE DEF V
    <3>5. /\ V(k - 1) \in Nat /\ f[k - 1] \in Nat
          /\ f[k - 1] = V(k - 1) \/ (cap <= f[k - 1] /\ f[k - 1] <= V(k - 1))
      BY <2>8
    <3>6. V(k) \in Nat /\ f[k] \in Nat /\ (f[k] = V(k) \/ (cap <= f[k] /\ f[k] <= V(k)))
      BY <3>3, <3>4, <3>5
    <3>7. k \in 0..n
      BY <2>4
    <3> QED BY <3>6, <3>7
  <2>9. \A k \in 0..n : k \in T
    <3> HIDE DEF T
    <3> QED BY <2>4, <2>7, <2>8, Upward
  <2>10. live \in Nat /\ f[n] \in Nat /\ (f[n] = live \/ (cap <= f[n] /\ f[n] <= live))
    <3>1. U[n] = R /\ n \in 0..n
      BY <2>4, <2>5 DEF Reaches
    <3>2. V(n) = live
      BY <3>1
    <3> HIDE DEF V
    <3> QED BY <2>9, <3>1, <3>2
  <2>11. CountUpTo(c, cap) = f[n]
    BY <1>3, <2>6, NoRows DEF GivesUpto
  <2> QED BY <2>10, <2>11 DEF Least
<1> QED BY <1>2, <1>3

-----------------------------------------------------------------------------
(* What a window shows                                                     *)

(* Any set of the table's rows has a list.                                 *)
LEMMA HasList ==
  ASSUME IsTable, NEW F, F \subseteq TableRows
  PROVE  Lists(Filtered(Run(0, Total), F), F)
<1>1. Lists(Run(0, Total), TableRows)
  BY TotalIsNat, RunLists DEF TableRows
<1>2. Lists(Filtered(Run(0, Total), F), TableRows \cap F)
  BY <1>1, FilteredLists
<1>3. TableRows \cap F = F
  OBVIOUS
<1> QED BY <1>2, <1>3

(* The places of rows when more rows follow.                               *)
LEMMA PlacesJoin ==
  ASSUME IsTable, NEW A, NEW B, A \subseteq TableRows, B \subseteq TableRows, \A x \in A, y \in B : x < y
  PROVE  /\ \A x \in A : Place(A \cup B, x) = Place(A, x)
         /\ \A y \in B : Place(A \cup B, y) = Cardinality(A) + Place(B, y)
<1>1. A \subseteq Nat /\ B \subseteq Nat
  BY TableRowsNat
<1>2. ASSUME NEW x \in A PROVE Place(A \cup B, x) = Place(A, x)
  <2>1. \A other \in B : ~(other < x)
    BY <1>1
  <2>2. {other \in A \cup B : other < x} = {other \in A : other < x}
    BY <2>1
  <2> QED BY <2>2 DEF Place
<1>3. ASSUME NEW y \in B PROVE Place(A \cup B, y) = Cardinality(A) + Place(B, y)
  <2> DEFINE C == {other \in B : other < y}
  <2>1. {other \in A \cup B : other < y} = A \cup C
    OBVIOUS
  <2>2. A \cap C = {}
    <3>1. \A other \in A : other < other => FALSE
      BY <1>1
    <3> QED BY <3>1
  <2>3. IsFiniteSet(A) /\ IsFiniteSet(C)
    <3>1. C \subseteq TableRows
      OBVIOUS
    <3> HIDE DEF C
    <3> QED BY <3>1, HasList, ListSize
  <2>4. Cardinality(A) \in Nat /\ Cardinality(C) \in Nat
    BY <2>3, FS_CardinalityType
  <2>5. Place(A \cup B, y) = Cardinality(A \cup C) /\ Place(B, y) = Cardinality(C)
    BY <2>1 DEF Place
  <2> HIDE DEF C
  <2>6. Cardinality(A \cap C) = 0
    BY <2>2, FS_EmptySet
  <2>7. Cardinality(A \cup C) = Cardinality(A) + Cardinality(C) - Cardinality(A \cap C)
    BY <2>3, FS_Union
  <2> QED BY <2>4, <2>5, <2>6, <2>7
<1> QED BY <1>2, <1>3

(* The rows placed in a window, when more rows follow.                     *)
JoinsPlaces(A, B, from, to) ==
  Placed(A \cup B, from, to) =
    Placed(A, from, to) \cup Placed(B, Minus(from, Cardinality(A)), Minus(to, Cardinality(A)))

LEMMA PlacedJoin ==
  ASSUME IsTable, NEW A, NEW B, A \subseteq TableRows, B \subseteq TableRows, \A x \in A, y \in B : x < y,
         NEW from \in Nat, NEW to \in Nat
  PROVE  JoinsPlaces(A, B, from, to)
<1> DEFINE n == Cardinality(A)
<1>1. Lists(Filtered(Run(0, Total), A), A) /\ Lists(Filtered(Run(0, Total), B), B)
  BY HasList
<1>2. n \in Nat /\ \A y \in B : Place(B, y) \in Nat
  BY <1>1, ListSize, ListFacts, Places
<1> HIDE DEF n
<1>3. /\ \A x \in A : Place(A \cup B, x) = Place(A, x)
      /\ \A y \in B : Place(A \cup B, y) = n + Place(B, y)
  BY PlacesJoin DEF n
<1>4. \A y \in B : (from <= n + Place(B, y) /\ n + Place(B, y) < to) <=>
                   (Minus(from, n) <= Place(B, y) /\ Place(B, y) < Minus(to, n))
  BY <1>2 DEF Minus
<1>5. ASSUME NEW x PROVE x \in Placed(A \cup B, from, to) <=>
                         x \in Placed(A, from, to) \cup Placed(B, Minus(from, n), Minus(to, n))
  <2>1. CASE x \in A /\ x \in B
    <3>1. x < x /\ x \in Nat
      BY <2>1, TableRowsNat
    <3> QED BY <3>1
  <2>2. CASE x \in A /\ x \notin B
    BY <1>3, <2>2 DEF Placed
  <2>3. CASE x \notin A /\ x \in B
    BY <1>3, <1>4, <2>3 DEF Placed
  <2>4. CASE x \notin A /\ x \notin B
    BY <2>4 DEF Placed
  <2> QED BY <2>1, <2>2, <2>3, <2>4
<1> QED BY <1>5 DEF JoinsPlaces, n

(* The number of rows placed in a window.                                  *)
LEMMA CutSize ==
  ASSUME IsTable, NEW F, F \subseteq TableRows, NEW offset \in Nat, NEW limit \in Nat,
         NEW rows, Lists(rows, Placed(F, offset, offset + limit)), NEW n, n = Cardinality(F)
  PROVE  n \in Nat /\ Len(rows) = Least(offset + limit, n) - Least(offset, n)
<1>1. PICK list : Lists(list, F)
  BY HasList
<1>2. Len(list) = n /\ n \in Nat
  BY <1>1, ListSize, ListFacts
<1>3. PICK to \in Nat : to = offset + limit /\ offset <= to
  OBVIOUS
<1>4. PICK x, y : x = Least(offset, n) /\ y = Least(to, n)
  OBVIOUS
<1>5. x \in 0..Len(list) /\ y \in x..Len(list)
  BY <1>1, <1>2, <1>3, <1>4, CutByPlace
<1>6. Lists(Sublist(list, x, y), Placed(F, offset, to))
  BY <1>1, <1>2, <1>3, <1>4, CutLists
<1>7. rows = Sublist(list, x, y)
  BY <1>3, <1>6, OneList
<1>8. Len(Sublist(list, x, y)) = y - x
  BY <1>1, <1>5, SliceFacts
<1> QED BY <1>2, <1>3, <1>4, <1>7, <1>8

(* Where a part's rows are cut to fill up a window.                        *)
LEMMA CutNumbers ==
  ASSUME NEW o \in Nat, NEW l \in Nat, NEW n \in Nat, NEW more \in Nat,
         NEW len, len = Least(o + l, n) - Least(o, n), len < l
  PROVE  LET from == Least(Minus(o, n), more)
         IN Least(from + (l - len), more) = Least(Minus(o + l, n), more)
BY DEF Least, Minus

(* A window's cursor over the live matches F.                              *)
CursorSound(m, F, offset, limit) ==
  /\ m = [offset |-> offset, limit |-> limit, seen |-> m.seen, rows |-> m.rows, ended |-> m.ended]
  /\ m.seen \in Nat /\ m.seen <= Cardinality(F)
  /\ Lists(m.rows, Placed(F, offset, offset + limit))
  /\ IF m.ended THEN m.seen = Cardinality(F) ELSE Len(m.rows) = limit

(* A part read.                                                            *)
ReadPart(c, limit, cursor, part) ==
  LET unread == UnreadPart(c, part) IN
  IF Len(cursor.rows) >= limit THEN [cursor EXCEPT !.ended = FALSE]
  ELSE IF unread.some /\ unread.count = 0 THEN cursor
  ELSE IF unread.some /\ Skips(cursor, unread.count)
  THEN [cursor EXCEPT !.seen = @ + unread.count]
  ELSE TakeRows(cursor, LiveRows(MatchedPart(c, part), Total, c.deleted))

LEMMA LiveRowsList ==
  ASSUME IsTable, NEW c, NEW part, NEW P, Reads(c, part, P), P \subseteq TableRows
  PROVE  Lists(LiveRows(MatchedPart(c, part), Total, c.deleted), LiveMatches(c, P))
<1>1. Selects(MatchedPart(c, part), P \cap Matches(c))
  BY DEF Reads
<1>2. Lists(AsRows(MatchedPart(c, part), Total), P \cap Matches(c))
  BY <1>1, SelectionAnswers
<1>3. Lists(Filtered(AsRows(MatchedPart(c, part), Total), TableRows \ c.deleted.rows),
            (P \cap Matches(c)) \cap (TableRows \ c.deleted.rows))
  BY <1>2, FilteredLists
<1>4. (P \cap Matches(c)) \cap (TableRows \ c.deleted.rows) = LiveMatches(c, P)
  BY DEF LiveMatches
<1> QED BY <1>3, <1>4 DEF LiveRows, FilterRows, TableRows

LEMMA ReadKeeps ==
  ASSUME IsTable, NEW c, NEW offset \in Nat, NEW limit \in Nat, NEW part, NEW P, Reads(c, part, P), P \subseteq TableRows,
         NEW F, NEW G, NEW H, F \subseteq TableRows, G = LiveMatches(c, P), H = F \cup G,
         \A x \in F, y \in G : x < y, Cardinality(H) = Cardinality(F) + Cardinality(G),
         NEW m, CursorSound(m, F, offset, limit)
  PROVE  CursorSound(ReadPart(c, limit, m, part), H, offset, limit)
<1> DEFINE to == offset + limit
<1>1. PICK n : n = Cardinality(F)
  OBVIOUS
<1>2. PICK more : more = Cardinality(G)
  OBVIOUS
<1>3. /\ m = [offset |-> offset, limit |-> limit, seen |-> m.seen, rows |-> m.rows, ended |-> m.ended]
      /\ m.offset = offset /\ m.limit = limit
      /\ m.seen \in Nat /\ m.seen <= n /\ Lists(m.rows, Placed(F, offset, to))
      /\ IF m.ended THEN m.seen = n ELSE Len(m.rows) = limit
  BY <1>1 DEF CursorSound
<1>4. n \in Nat /\ Len(m.rows) = Least(to, n) - Least(offset, n) /\ to \in Nat
  BY <1>1, <1>3, CutSize
<1>5. G \subseteq TableRows /\ more \in Nat /\ IsFiniteSet(G)
  BY <1>2, LiveFinite DEF LiveMatches
<1>6. Placed(H, offset, to) = Placed(F, offset, to) \cup Placed(G, Minus(offset, n), Minus(to, n))
  <2>1. PICK t \in Nat : t = to
    BY <1>4
  <2> HIDE DEF to
  <2>2. JoinsPlaces(F, G, offset, t)
    BY <1>5, PlacedJoin
  <2> QED BY <1>1, <2>1, <2>2 DEF JoinsPlaces
<1>7. Cardinality(H) = n + more
  BY <1>1, <1>2
<1>8. PICK len : len = Len(m.rows)
  OBVIOUS
<1>9. PICK next : next = ReadPart(c, limit, m, part)
  OBVIOUS
<1>10. UnreadPart(c, part).some => UnreadPart(c, part).count = more
  BY <1>2 DEF Reads
<1>11. Lists(Filtered(Run(0, Total), G), G) /\ \A y \in G : Place(G, y) \in Nat /\ Place(G, y) < more
  <2>1. Lists(Filtered(Run(0, Total), G), G)
    BY <1>5, HasList
  <2> QED BY <1>2, <2>1, Places, ListSize
<1> HIDE DEF to
<1>12. to = offset + limit
  BY DEF to
<1>13. CASE len >= limit
  <2>1. next = [m EXCEPT !.ended = FALSE]
    BY <1>8, <1>9, <1>13 DEF ReadPart
  <2>2. /\ next = [offset |-> offset, limit |-> limit, seen |-> m.seen, rows |-> m.rows, ended |-> FALSE]
        /\ next.seen = m.seen /\ next.rows = m.rows /\ ~next.ended
    BY <1>3, <2>1
  <2>3. Minus(to, n) <= Minus(offset, n) /\ Minus(to, n) \in Nat /\ Minus(offset, n) \in Nat /\ len = limit
    BY <1>4, <1>8, <1>12, <1>13 DEF Least, Minus
  <2>4. Placed(G, Minus(offset, n), Minus(to, n)) = {}
    BY <1>11, <2>3 DEF Placed
  <2>5. Lists(next.rows, Placed(H, offset, to))
    BY <1>3, <1>6, <2>2, <2>4
  <2>6. next.seen <= Cardinality(H)
    BY <1>3, <1>4, <1>5, <1>7, <2>2
  <2>7. next = [offset |-> offset, limit |-> limit, seen |-> next.seen, rows |-> next.rows, ended |-> next.ended]
    BY <2>2
  <2>8. next.seen \in Nat /\ Len(next.rows) = limit
    BY <1>3, <1>8, <2>2, <2>3
  <2>9. CursorSound(next, H, offset, limit)
    BY <1>12, <2>2, <2>5, <2>6, <2>7, <2>8 DEF CursorSound
  <2> QED BY <1>9, <2>9
<1>14. CASE ~(len >= limit)
  <2>1. m.ended /\ m.seen = n /\ len < limit
    BY <1>3, <1>4, <1>8, <1>12, <1>14 DEF Least
  <2>2. CASE UnreadPart(c, part).some /\ more = 0
    <3>1. next = m
      BY <1>8, <1>9, <1>10, <1>14, <2>2 DEF ReadPart
    <3>2. G = {}
      BY <1>2, <1>5, <2>2, FS_EmptySet
    <3>3. H = F
      BY <3>2
    <3> QED BY <1>9, <3>1, <3>3
  <2>3. CASE UnreadPart(c, part).some /\ more # 0 /\ Skips(m, more)
    <3>1. next = [m EXCEPT !.seen = @ + more]
      BY <1>8, <1>9, <1>10, <1>14, <2>3 DEF ReadPart
    <3>2. /\ next = [offset |-> offset, limit |-> limit, seen |-> n + more, rows |-> m.rows, ended |-> m.ended]
          /\ next.seen = n + more /\ next.rows = m.rows /\ next.ended = m.ended
      BY <1>3, <2>1, <3>1
    <3>3. n + more <= offset
      BY <1>3, <2>1, <2>3 DEF Skips
    <3>4. more <= Minus(offset, n) /\ Minus(offset, n) \in Nat
      BY <1>4, <1>5, <3>3 DEF Minus
    <3>5. Placed(G, Minus(offset, n), Minus(to, n)) = {}
      BY <1>5, <1>11, <3>4 DEF Placed
    <3>6. Lists(next.rows, Placed(H, offset, to))
      BY <1>3, <1>6, <3>2, <3>5
    <3> QED BY <1>4, <1>5, <1>7, <1>9, <1>12, <2>1, <3>2, <3>6 DEF CursorSound
  <2>4. CASE ~UnreadPart(c, part).some \/ (more # 0 /\ ~Skips(m, more))
    <3>1. PICK list : list = LiveRows(MatchedPart(c, part), Total, c.deleted)
      OBVIOUS
    <3>2. next = TakeRows(m, list)
      BY <1>8, <1>9, <1>10, <1>14, <2>4, <3>1 DEF ReadPart
    <3>3. Lists(list, G)
      BY <3>1, LiveRowsList
    <3>4. Len(list) = more
      BY <1>2, <3>3, ListSize
    <3> DEFINE from == Least(Minus(offset, n), more)
               cut == Sublist(list, from, Least(from + (limit - len), more))
    <3>5. next = [m EXCEPT !.rows = @ \o cut, !.seen = @ + more]
      BY <1>3, <1>8, <2>1, <3>2, <3>4 DEF TakeRows
    <3>6. cut = Sublist(list, Least(Minus(offset, n), Len(list)), Least(Minus(to, n), Len(list)))
      <4>1. Least(from + (limit - len), more) = Least(Minus(to, n), more)
        BY <1>4, <1>5, <1>8, <1>12, <2>1, CutNumbers
      <4> QED BY <3>4, <4>1
    <3> HIDE DEF cut, from
    <3>7. Minus(offset, n) \in Nat /\ Minus(to, n) \in Nat /\ Minus(offset, n) <= Minus(to, n)
      BY <1>4, <1>12 DEF Minus
    <3>8. Lists(cut, Placed(G, Minus(offset, n), Minus(to, n)))
      BY <3>3, <3>6, <3>7, CutLists
    <3>9. /\ next = [offset |-> offset, limit |-> limit, seen |-> n + more, rows |-> m.rows \o cut, ended |-> m.ended]
          /\ next.seen = n + more /\ next.rows = m.rows \o cut /\ next.ended = m.ended
      BY <1>3, <2>1, <3>5
    <3>10. Lists(next.rows, Placed(H, offset, to))
      <4>1. \A x \in Placed(F, offset, to), y \in Placed(G, Minus(offset, n), Minus(to, n)) : x < y
        BY DEF Placed
      <4>2. Lists(m.rows \o cut, Placed(F, offset, to) \cup Placed(G, Minus(offset, n), Minus(to, n)))
        BY <1>3, <3>8, <4>1, ConcatLists
      <4> QED BY <1>6, <3>9, <4>2
    <3> QED BY <1>4, <1>5, <1>7, <1>9, <1>12, <2>1, <3>9, <3>10 DEF CursorSound
  <2> QED BY <2>2, <2>3, <2>4
<1> QED BY <1>4, <1>8, <1>13, <1>14

(* The cursor after each part, by f.                                       *)
GivesCursor(f, c, offset, limit, parts, n) ==
  /\ f[0] = [offset |-> offset, limit |-> limit, seen |-> 0, rows |-> <<>>, ended |-> TRUE]
  /\ \A k \in 1..n : f[k] = ReadPart(c, limit, f[k - 1], parts[k])
  /\ WindowWalk(c, offset, limit) =
       IF AsRows(c.sel, Total) = <<>> THEN [rows |-> <<>>, exact |-> TRUE, live |-> 0]
       ELSE [rows |-> f[n].rows, exact |-> f[n].ended, live |-> f[n].seen]

LEMMA CursorLoop ==
  ASSUME NEW c, NEW offset, NEW limit, NEW parts, parts = Parts(c, offset + limit), NEW n \in Nat, n = Len(parts)
  PROVE  \E f : GivesCursor(f, c, offset, limit, parts, n)
<1> DEFINE E(x, k) == ReadPart(c, limit, x, parts[k])
           s0 == [offset |-> offset, limit |-> limit, seen |-> 0, rows |-> <<>>, ended |-> TRUE]
           Is(g, m) == g = [k \in 0..m |-> IF k = 0 THEN s0 ELSE E(g[k - 1], k)]
           f == CHOOSE g : Is(g, n)
           T == {m \in 0..n : \E g : Is(g, m)}
<1>1. WindowWalk(c, offset, limit) =
        IF AsRows(c.sel, Total) = <<>> THEN [rows |-> <<>>, exact |-> TRUE, live |-> 0]
        ELSE [rows |-> f[n].rows, exact |-> f[n].ended, live |-> f[n].seen]
  BY DEF WindowWalk, ReadPart
<1> HIDE DEF E, s0
<1>2. 0 \in T
  <2> DEFINE g == [k \in 0..0 |-> s0]
  <2>1. \A k \in 0..0 : k = 0
    OBVIOUS
  <2>2. Is(g, 0)
    BY <2>1
  <2>3. 0 \in 0..n
    OBVIOUS
  <2> HIDE DEF Is, g
  <2> QED BY <2>2, <2>3
<1>3. ASSUME NEW m \in 1..n, m - 1 \in T PROVE m \in T
  <2>1. PICK g : Is(g, m - 1)
    BY <1>3
  <2> DEFINE h == [k \in 0..m |-> IF k = m THEN E(g[m - 1], m) ELSE g[k]]
  <2>2. \A k \in 0..(m - 1) : g[k] = IF k = 0 THEN s0 ELSE E(g[k - 1], k)
    BY <2>1
  <2>3. \A k \in 0..(m - 1) : k \in 0..m /\ k # m /\ h[k] = g[k]
    OBVIOUS
  <2>4. h[m] = E(g[m - 1], m) /\ m # 0 /\ m - 1 \in 0..(m - 1)
    OBVIOUS
  <2>5. h = [k \in 0..m |-> h[k]]
    OBVIOUS
  <2> HIDE DEF h
  <2>6. \A k \in 0..m : h[k] = IF k = 0 THEN s0 ELSE E(h[k - 1], k)
    <3> TAKE k \in 0..m
    <3>1. CASE k = m
      BY <2>3, <2>4, <3>1
    <3>2. CASE k # m /\ k = 0
      BY <2>2, <2>3, <3>2
    <3>3. CASE k # m /\ k # 0
      <4>1. k \in 0..(m - 1) /\ k - 1 \in 0..(m - 1)
        BY <3>3
      <4> QED BY <2>2, <2>3, <3>3, <4>1
    <3> QED BY <3>1, <3>2, <3>3
  <2>7. Is(h, m)
    BY <2>5, <2>6
  <2>8. m \in 0..n
    OBVIOUS
  <2> QED BY <2>7, <2>8
<1>4. \A m \in 0..n : m \in T
  <2> HIDE DEF T
  <2> QED BY <1>2, <1>3, Upward
<1>5. \E g : Is(g, n)
  <2>1. n \in 0..n
    OBVIOUS
  <2> QED BY <1>4, <2>1
<1>6. Is(f, n)
  <2> HIDE DEF Is
  <2> QED BY <1>5
<1> HIDE DEF f
<1>7. f[0] = s0 /\ \A k \in 1..n : f[k] = E(f[k - 1], k)
  <2>1. \A k \in 1..n : k \in 0..n /\ k # 0
    OBVIOUS
  <2>2. 0 \in 0..n
    OBVIOUS
  <2> QED BY <1>6, <2>1, <2>2
<1> QED BY <1>1, <1>7 DEF E, s0, GivesCursor

(* A window of the rows listed.                                            *)
WindowSound(got, list, offset, limit) ==
  /\ got.rows = Sublist(list, Least(offset, Len(list)), Least(offset + limit, Len(list)))
  /\ got.exact => got.live = Len(list)
  /\ ~got.exact => got.live <= Len(list) /\ Len(got.rows) = limit

LEMMA WindowWalkShows ==
  ASSUME IsTable, NEW c, IsCompare(c), NEW R, Selects(c.sel, R), NEW offset \in Nat, NEW limit \in Nat,
         NEW list, Lists(list, LiveMatches(c, R))
  PROVE  WindowSound(WindowWalk(c, offset, limit), list, offset, limit)
<1>1. R \subseteq TableRows
  BY Shapes
<1>2. PICK to \in Nat : to = offset + limit /\ offset <= to
  OBVIOUS
<1>3. Len(list) = Cardinality(LiveMatches(c, R)) /\ list \in Seq(Nat) /\ Len(list) \in Nat
  BY ListSize, ListFacts DEF Lists
<1>4. Lists(Sublist(list, Least(offset, Len(list)), Least(to, Len(list))), Placed(LiveMatches(c, R), offset, to))
  BY <1>2, CutLists
<1>5. PICK got : got = WindowWalk(c, offset, limit)
  OBVIOUS
<1>6. CASE R = {}
  <2>1. got = [rows |-> <<>>, exact |-> TRUE, live |-> 0]
    BY <1>5, <1>6, NoRows DEF WindowWalk
  <2>2. LiveMatches(c, R) = {}
    BY <1>6 DEF LiveMatches
  <2>3. Len(list) = 0
    BY <1>3, <2>2, FS_EmptySet
  <2>4. Placed(LiveMatches(c, R), offset, to) = {}
    BY <2>2 DEF Placed
  <2>5. <<>> = Sublist(list, Least(offset, Len(list)), Least(to, Len(list)))
    BY <1>4, <2>4, EmptyLists, OneList
  <2>6. got.rows = <<>> /\ got.exact /\ got.live = 0
    BY <2>1
  <2> QED BY <1>2, <1>5, <2>3, <2>5, <2>6 DEF WindowSound
<1>7. CASE R # {}
  <2>1. PICK parts : parts = Parts(c, to)
    OBVIOUS
  <2>2. PICK n : n = Len(parts)
    OBVIOUS
  <2>3. Walks(c, parts, n, R)
    BY <1>7, <2>1, <2>2, PartsWalk
  <2>4. n \in Nat
    BY <2>3 DEF Walks
  <2>5. PICK U : Reaches(U, c, parts, n, R)
    BY <2>3 DEF Walks
  <2>6. PICK f : GivesCursor(f, c, offset, limit, parts, n)
    BY <1>2, <2>1, <2>2, <2>4, CursorLoop
  <2> DEFINE T == {k \in 0..n : CursorSound(f[k], LiveMatches(c, U[k]), offset, limit)}
  <2>7. 0 \in T
    <3>1. f[0] = [offset |-> offset, limit |-> limit, seen |-> 0, rows |-> <<>>, ended |-> TRUE] /\ U[0] = {}
      BY <2>5, <2>6 DEF GivesCursor, Reaches
    <3>2. LiveMatches(c, U[0]) = {}
      BY <3>1 DEF LiveMatches
    <3>3. Cardinality(LiveMatches(c, U[0])) = 0 /\ 0 \in 0..n
      BY <2>4, <3>2, FS_EmptySet
    <3>4. Placed(LiveMatches(c, U[0]), offset, offset + limit) = {}
      BY <3>2 DEF Placed
    <3>5. PICK m : m = f[0]
      OBVIOUS
    <3>6. m = [offset |-> offset, limit |-> limit, seen |-> 0, rows |-> <<>>, ended |-> TRUE]
      BY <3>1, <3>5
    <3>7. m.seen = 0 /\ m.rows = <<>> /\ m.ended
      BY <3>6
    <3>8. m = [offset |-> offset, limit |-> limit, seen |-> m.seen, rows |-> m.rows, ended |-> m.ended]
      BY <3>6
    <3>9. PICK F : F = LiveMatches(c, U[0])
      OBVIOUS
    <3>10. Lists(m.rows, Placed(F, offset, offset + limit))
      BY <3>4, <3>7, <3>9, EmptyLists
    <3>11. m.seen = Cardinality(F) /\ m.seen \in Nat /\ m.seen <= Cardinality(F)
      BY <3>3, <3>7, <3>9
    <3>12. CursorSound(m, F, offset, limit)
      BY <3>7, <3>8, <3>10, <3>11 DEF CursorSound
    <3> QED BY <3>3, <3>5, <3>9, <3>12
  <2>8. ASSUME NEW k \in 1..n, k - 1 \in T PROVE k \in T
    <3>1. PICK P : NextPart(U, c, parts, k, P)
      BY <1>1, <2>5, ReachesOn
    <3>2. PICK F : F = LiveMatches(c, U[k - 1])
      OBVIOUS
    <3>3. PICK G : G = LiveMatches(c, P)
      OBVIOUS
    <3>4. PICK H : H = LiveMatches(c, U[k])
      OBVIOUS
    <3>5. /\ H = F \cup G /\ Cardinality(H) = Cardinality(F) + Cardinality(G)
          /\ Reads(c, parts[k], P) /\ P \subseteq TableRows
      BY <3>1, <3>2, <3>3, <3>4 DEF NextPart
    <3>6. F \subseteq TableRows /\ \A x \in F, y \in G : x < y
      BY <3>1, <3>2, <3>3 DEF NextPart, LiveMatches
    <3>7. CursorSound(f[k - 1], F, offset, limit)
      BY <2>8, <3>2
    <3>8. CursorSound(ReadPart(c, limit, f[k - 1], parts[k]), H, offset, limit)
      BY <3>3, <3>5, <3>6, <3>7, ReadKeeps
    <3>9. f[k] = ReadPart(c, limit, f[k - 1], parts[k]) /\ k \in 0..n
      BY <2>4, <2>6 DEF GivesCursor
    <3> QED BY <3>4, <3>8, <3>9
  <2>9. \A k \in 0..n : k \in T
    <3> HIDE DEF T
    <3> QED BY <2>4, <2>7, <2>8, Upward
  <2>10. PICK last : last = f[n]
    OBVIOUS
  <2>11. CursorSound(last, LiveMatches(c, R), offset, limit)
    <3>1. U[n] = R /\ n \in 0..n
      BY <2>4, <2>5 DEF Reaches
    <3> QED BY <2>9, <2>10, <3>1
  <2>12. got = [rows |-> last.rows, exact |-> last.ended, live |-> last.seen]
    BY <1>5, <1>7, <2>6, <2>10, NoRows DEF GivesCursor
  <2>13. /\ last.seen \in Nat /\ last.seen <= Len(list) /\ Lists(last.rows, Placed(LiveMatches(c, R), offset, to))
         /\ IF last.ended THEN last.seen = Len(list) ELSE Len(last.rows) = limit
    BY <1>2, <1>3, <2>11 DEF CursorSound
  <2>14. last.rows = Sublist(list, Least(offset, Len(list)), Least(to, Len(list)))
    BY <1>4, <2>13, OneList
  <2>15. got.rows = last.rows /\ got.exact = last.ended /\ got.live = last.seen
    BY <2>12
  <2> QED BY <1>2, <1>5, <2>13, <2>14, <2>15 DEF WindowSound
<1> QED BY <1>6, <1>7

-----------------------------------------------------------------------------
(* The calls on a pending match                                            *)

(* The live rows asked for, as the ids kept give them and as the           *)
(* comparison finds them.                                                  *)
LEMMA LiveIs ==
  ASSUME ScanInv, view.kind = "pending", NEW deleted
  PROVE  /\ HeldLive(deleted) = WantedLive(deleted)
         /\ Lists(WantedLive(deleted), LiveMatches(Pending(deleted), Members(AsRows(view.sel, Total))))
<1>1. PICK c : c = Pending(deleted)
  OBVIOUS
<1>2. PICK S : S = Members(AsRows(view.sel, Total))
  OBVIOUS
<1>3. c.deleted = deleted /\ view.sel \in Starts /\ Asked = S \cap Matches(c) /\ S \subseteq TableRows
  <2>1. /\ c.deleted = deleted /\ view.sel \in Starts /\ Selects(c.sel, Members(AsRows(view.sel, Total)))
        /\ Asked = Members(AsRows(view.sel, Total)) \cap Matches(c)
    BY <1>1, PendingIs
  <2> QED BY <1>2, <2>1, Shapes
<1>4. Lists(Wanted, Asked)
  BY <1>3, WantedIs DEF ScanInv
<1>5. Held.list = Wanted
  <2>1. Lists(Held.list, Asked)
    BY HeldIs
  <2> QED BY <1>4, <2>1, OneList
<1>6. Lists(Filtered(Wanted, TableRows \ deleted.rows), Asked \cap (TableRows \ deleted.rows))
  BY <1>4, FilteredLists
<1>7. Asked \cap (TableRows \ deleted.rows) = LiveMatches(c, S)
  BY <1>3 DEF LiveMatches
<1>8. WantedLive(deleted) = Filtered(Wanted, TableRows \ deleted.rows)
  BY DEF WantedLive, TableRows
<1>9. HeldLive(deleted) = WantedLive(deleted)
  BY <1>5 DEF HeldLive, WantedLive
<1> QED BY <1>1, <1>2, <1>6, <1>7, <1>8, <1>9

LEMMA SameWanted ==
  ASSUME table' = table, view' = view
  PROVE  Wanted' = Wanted /\ Total' = Total
BY DEF Wanted, Total, Value

LEMMA CountIs ==
  ASSUME ScanInv, view.kind = "pending", NEW deleted
  PROVE  CountAll(Pending(deleted)) = Len(WantedLive(deleted))
<1>1. PICK c : c = Pending(deleted)
  OBVIOUS
<1>2. PICK S : S = Members(AsRows(view.sel, Total))
  OBVIOUS
<1>3. IsTable /\ IsCompare(c) /\ Selects(c.sel, S)
  BY <1>1, <1>2, PendingIs
<1>4. Lists(WantedLive(deleted), LiveMatches(c, S))
  BY <1>1, <1>2, LiveIs
<1>5. CountAll(c) = Cardinality(LiveMatches(c, S))
  BY <1>3, CountAllCounts
<1> QED BY <1>1, <1>4, <1>5, ListSize

LEMMA CappedIs ==
  ASSUME ScanInv, view.kind = "pending", NEW deleted, NEW limit \in Nat
  PROVE  Least(limit, CountUpTo(Pending(deleted), limit)) = Least(limit, Len(WantedLive(deleted)))
<1>1. PICK c : c = Pending(deleted)
  OBVIOUS
<1>2. PICK S : S = Members(AsRows(view.sel, Total))
  OBVIOUS
<1>3. IsTable /\ IsCompare(c) /\ Selects(c.sel, S)
  BY <1>1, <1>2, PendingIs
<1>4. Lists(WantedLive(deleted), LiveMatches(c, S))
  BY <1>1, <1>2, LiveIs
<1>5. PICK live : live = Cardinality(LiveMatches(c, S))
  OBVIOUS
<1>6. Least(limit, CountUpTo(c, limit)) = Least(limit, live)
  BY <1>3, <1>5, CountUpToCounts
<1>7. Len(WantedLive(deleted)) = live
  BY <1>4, <1>5, ListSize
<1> QED BY <1>1, <1>6, <1>7

LEMMA WindowIs ==
  ASSUME ScanInv, view.kind = "pending", NEW deleted, NEW offset \in Nat, NEW limit \in Nat
  PROVE  /\ WindowSound(WindowWalk(Pending(deleted), offset, limit), WantedLive(deleted), offset, limit)
         /\ WindowSound(Cut(WantedLive(deleted), offset, limit), WantedLive(deleted), offset, limit)
<1>1. PICK c : c = Pending(deleted)
  OBVIOUS
<1>2. PICK S : S = Members(AsRows(view.sel, Total))
  OBVIOUS
<1>3. IsTable /\ IsCompare(c) /\ Selects(c.sel, S)
  BY <1>1, <1>2, PendingIs
<1>4. PICK list : list = WantedLive(deleted)
  OBVIOUS
<1>5. Lists(list, LiveMatches(c, S))
  BY <1>1, <1>2, <1>4, LiveIs
<1>6. WindowSound(WindowWalk(c, offset, limit), list, offset, limit)
  BY <1>3, <1>5, WindowWalkShows
<1>7. WindowSound(Cut(list, offset, limit), list, offset, limit)
  BY DEF Cut, WindowSound
<1> QED BY <1>1, <1>4, <1>6, <1>7

(* A count of a pending match, recorded, compared or held, is the number   *)
(* of live matching rows, and a capped one the least of that and the cap.  *)
THEOREM CountsExact == Spec => []CountsAreExact
<1>1. Init => CountsAreExact
  BY DEF Init, NoCall, CountsAreExact
<1>2. ScanInv /\ CountsAreExact /\ [Next]_vars => CountsAreExact'
  <2> SUFFICES ASSUME ScanInv, CountsAreExact, [Next]_vars PROVE CountsAreExact'
    OBVIOUS
  <2>1. ASSUME answer' = NoCall \/ answer'.call \in {"rows", "window"} PROVE CountsAreExact'
    BY <2>1 DEF NoCall, CountsAreExact
  <2>2. ASSUME NEW s \in Starts, NEW eqs \in Equalities, NEW on \in BOOLEAN, Match(s, eqs, on) PROVE CountsAreExact'
    BY <2>1, <2>2 DEF Match, ScanInv, CallSound
  <2>3. CASE Materialize
    BY <2>1, <2>3 DEF Materialize
  <2>4. CASE Return
    BY <2>1, <2>4 DEF Return
  <2>5. ASSUME NEW deleted \in Tombstones, Count(deleted) PROVE CountsAreExact'
    <3>1. view.kind = "pending" /\ table' = table /\ view' = view
      BY <2>5 DEF Count
    <3>2. answer'.call = "count" /\ answer'.deleted = deleted /\ answer'.count = Len(WantedLive(deleted))
      BY <2>5, <3>1, LiveIs, CountIs DEF Count
    <3>3. WantedLive(answer.deleted)' = WantedLive(deleted)
      BY <3>1, <3>2, SameWanted DEF WantedLive
    <3> QED BY <3>2, <3>3 DEF CountsAreExact
  <2>6. ASSUME NEW deleted \in Tombstones, NEW limit \in 0..MaxRows, CountCapped(limit, deleted)
        PROVE  CountsAreExact'
    <3>1. view.kind = "pending" /\ table' = table /\ view' = view /\ limit \in Nat
      BY <2>6 DEF CountCapped
    <3>2. /\ answer'.call = "capped" /\ answer'.deleted = deleted /\ answer'.limit = limit
          /\ answer'.count = Least(limit, Len(WantedLive(deleted)))
      BY <2>6, <3>1, LiveIs, CappedIs DEF CountCapped
    <3>3. WantedLive(answer.deleted)' = WantedLive(deleted)
      BY <3>1, <3>2, SameWanted DEF WantedLive
    <3> QED BY <3>2, <3>3 DEF CountsAreExact
  <2>7. ASSUME NEW deleted \in Tombstones, NEW offset \in 0..MaxRows, NEW limit \in 0..MaxRows,
               WindowOf(offset, limit, deleted)
        PROVE  CountsAreExact'
    BY <2>1, <2>7 DEF WindowOf
  <2>8. CASE UNCHANGED vars
    <3>1. table' = table /\ view' = view /\ answer' = answer
      BY <2>8 DEF vars
    <3>2. WantedLive(answer.deleted)' = WantedLive(answer.deleted)
      BY <3>1, SameWanted DEF WantedLive
    <3> QED BY <3>1, <3>2 DEF CountsAreExact
  <2> QED BY <2>2, <2>3, <2>4, <2>5, <2>6, <2>7, <2>8 DEF Next
<1> QED BY <1>1, <1>2, ScanInvariant, PTL DEF Spec

(* A window of a pending match holds the live matching rows offset to      *)
(* offset + limit in order, and says whether it saw them all.              *)
THEOREM WindowsExact == Spec => []WindowsAreExact
<1>1. Init => WindowsAreExact
  BY DEF Init, NoCall, WindowsAreExact
<1>2. ScanInv /\ WindowsAreExact /\ [Next]_vars => WindowsAreExact'
  <2> SUFFICES ASSUME ScanInv, WindowsAreExact, [Next]_vars PROVE WindowsAreExact'
    OBVIOUS
  <2>1. ASSUME answer' = NoCall \/ answer'.call \in {"rows", "count", "capped"} PROVE WindowsAreExact'
    BY <2>1 DEF NoCall, WindowsAreExact
  <2>2. ASSUME NEW s \in Starts, NEW eqs \in Equalities, NEW on \in BOOLEAN, Match(s, eqs, on) PROVE WindowsAreExact'
    BY <2>1, <2>2 DEF Match, ScanInv, CallSound
  <2>3. CASE Materialize
    BY <2>1, <2>3 DEF Materialize
  <2>4. CASE Return
    BY <2>1, <2>4 DEF Return
  <2>5. ASSUME NEW deleted \in Tombstones, Count(deleted) PROVE WindowsAreExact'
    BY <2>1, <2>5 DEF Count
  <2>6. ASSUME NEW deleted \in Tombstones, NEW limit \in 0..MaxRows, CountCapped(limit, deleted)
        PROVE  WindowsAreExact'
    BY <2>1, <2>6 DEF CountCapped
  <2>7. ASSUME NEW deleted \in Tombstones, NEW offset \in 0..MaxRows, NEW limit \in 0..MaxRows,
               WindowOf(offset, limit, deleted)
        PROVE  WindowsAreExact'
    <3>1. view.kind = "pending" /\ table' = table /\ view' = view /\ offset \in Nat /\ limit \in Nat
      BY <2>7 DEF WindowOf
    <3>2. answer'.deleted = deleted /\ answer'.offset = offset /\ answer'.limit = limit
      BY <2>7 DEF WindowOf
    <3>3. WindowSound(answer'.got, WantedLive(deleted), offset, limit)
      BY <2>7, <3>1, LiveIs, WindowIs DEF WindowOf
    <3>4. WantedLive(answer.deleted)' = WantedLive(deleted)
      BY <3>1, <3>2, SameWanted DEF WantedLive
    <3> QED BY <3>2, <3>3, <3>4 DEF WindowsAreExact, WindowSound
  <2>8. CASE UNCHANGED vars
    <3>1. table' = table /\ view' = view /\ answer' = answer
      BY <2>8 DEF vars
    <3>2. WantedLive(answer.deleted)' = WantedLive(answer.deleted)
      BY <3>1, SameWanted DEF WantedLive
    <3> QED BY <3>1, <3>2 DEF WindowsAreExact
  <2> QED BY <2>2, <2>3, <2>4, <2>5, <2>6, <2>7, <2>8 DEF Next
<1> QED BY <1>1, <1>2, ScanInvariant, PTL DEF Spec
=============================================================================
