----------------------------- MODULE Selections -----------------------------
(***************************************************************************)
(* RowSelection: the rows of a table a view covers, as every row, a range  *)
(* or an ascending id list, and the operations that narrow, cut, split and *)
(* test one.  Rows count from 0; n is the table's length.  The tombstones  *)
(* are [some, rows]: a mask may be there and delete nothing.               *)
(***************************************************************************)
EXTENDS Naturals, Sequences, FiniteSets

CONSTANT GALLOP_RATIO   \* when an intersection searches instead of merging

ASSUME SelectionSizes == GALLOP_RATIO \in Nat \ {0}

Least(a, b)    == IF a <= b THEN a ELSE b
Greatest(a, b) == IF a <= b THEN b ELSE a
Minus(a, b)    == IF b <= a THEN a - b ELSE 0    \* saturating_sub

Members(seq)   == {seq[i] : i \in DOMAIN seq}
Interval(a, b) == {i \in a..b : i < b}             \* the rows of a..b
Run(a, b)      == [i \in 1..Minus(b, a) |-> a + i - 1]
Sublist(seq, a, b) == SubSeq(seq, a + 1, b)        \* slice(a..b)

(* The members of seq that are in S, in order.                             *)
Filtered(seq, S) ==
  LET Upto[k \in 0..Len(seq)] ==
        IF k = 0 THEN <<>>
        ELSE IF seq[k] \in S THEN Append(Upto[k - 1], seq[k]) ELSE Upto[k - 1]
  IN Upto[Len(seq)]

IsAscending(seq) == \A i \in 2..Len(seq) : seq[i - 1] < seq[i]

(* partition_point(|id| id < x) on an ascending list.                      *)
Below(seq, x) == Cardinality({i \in DOMAIN seq : seq[i] < x})

(* A row's place among the rows of a set.                                  *)
Place(R, row) == Cardinality({other \in R : other < row})

NoMask  == [some |-> FALSE, rows |-> {}]
Mask(R) == [some |-> TRUE, rows |-> R]

-----------------------------------------------------------------------------
(* The three shapes                                                        *)

All           == [kind |-> "all"]
RangeOf(a, b) == [kind |-> "range", start |-> a, end |-> b]
Ids(ids)      == [kind |-> "ids", ids |-> ids]
Empty         == RangeOf(0, 0)
FromIds(ids)  == IF ids = <<>> THEN Empty ELSE Ids(ids)

Clamped(sel, n) ==
  LET start == Least(sel.start, n)
  IN RangeOf(start, Greatest(start, Least(sel.end, n)))

(* The selected rows in order: as_rows, walked.                            *)
AsRows(sel, n) ==
  CASE sel.kind = "all"   -> Run(0, n)
    [] sel.kind = "range" -> Run(Clamped(sel, n).start, Clamped(sel, n).end)
    [] sel.kind = "ids"   -> sel.ids

SelLen(sel, n) ==
  CASE sel.kind = "all"   -> n
    [] sel.kind = "range" -> Minus(sel.end, sel.start)
    [] sel.kind = "ids"   -> Len(sel.ids)

Contains(sel, row) ==
  CASE sel.kind = "all"   -> TRUE
    [] sel.kind = "range" -> sel.start <= row /\ row < sel.end
    [] sel.kind = "ids"   -> row \in Members(sel.ids)

(* filter_rows: the selected rows that are kept, in order.                 *)
FilterRows(sel, n, kept) == Filtered(AsRows(sel, n), kept)

LiveRows(sel, n, deleted) == FilterRows(sel, n, Interval(0, n) \ deleted.rows)

-----------------------------------------------------------------------------
(* Narrowing                                                               *)

RestrictIds(ids, a, b) == Sublist(ids, Below(ids, a), Below(ids, b))

IntersectRange(sel, a, b) ==
  CASE sel.kind = "all"   -> RangeOf(a, b)
    [] sel.kind = "range" -> LET start == Greatest(sel.start, a)
                             IN RangeOf(start, Greatest(start, Least(sel.end, b)))
    [] sel.kind = "ids"   -> Ids(RestrictIds(sel.ids, a, b))

(* Two ascending lists merged.                                             *)
MergedIds(l, r) ==
  LET Step[k \in 0..(Len(l) + Len(r))] ==
        IF k = 0 THEN [i |-> 1, j |-> 1, out |-> <<>>]
        ELSE LET m == Step[k - 1] IN
             IF m.i > Len(l) \/ m.j > Len(r) THEN m
             ELSE IF l[m.i] < r[m.j] THEN [m EXCEPT !.i = @ + 1]
             ELSE IF l[m.i] > r[m.j] THEN [m EXCEPT !.j = @ + 1]
             ELSE [i |-> m.i + 1, j |-> m.j + 1, out |-> Append(m.out, l[m.i])]
  IN Step[Len(l) + Len(r)].out

(* Each id of the shorter searched in what is left of the longer.          *)
GallopedIds(short, long) ==
  LET Step[k \in 0..Len(short)] ==
        IF k = 0 THEN [at |-> 0, out |-> <<>>]
        ELSE LET m  == Step[k - 1]
                 at == m.at + Below(Sublist(long, m.at, Len(long)), short[k])
             IN [at  |-> at,
                 out |-> IF at < Len(long) /\ long[at + 1] = short[k]
                         THEN Append(m.out, short[k]) ELSE m.out]
  IN Step[Len(short)].out

IntersectSortedIds(l, r) ==
  LET short == IF Len(l) <= Len(r) THEN l ELSE r
      long  == IF Len(l) <= Len(r) THEN r ELSE l
  IN IF Len(long) \div GALLOP_RATIO > Len(short)
     THEN GallopedIds(short, long) ELSE MergedIds(l, r)

IntersectIds(sel, ids) ==
  CASE sel.kind = "all"   -> Ids(ids)
    [] sel.kind = "range" -> Ids(RestrictIds(ids, sel.start, sel.end))
    [] sel.kind = "ids"   -> Ids(IntersectSortedIds(sel.ids, ids))

(* refine: keep is a set of positions among the len selected rows.         *)
Refine(sel, keep, len) ==
  LET local == Filtered(Run(0, len), keep)
  IN IF keep = 0..(len - 1) THEN sel
     ELSE IF keep = {} THEN Empty
     ELSE Ids([i \in DOMAIN local |->
                 CASE sel.kind = "all"   -> local[i]
                   [] sel.kind = "range" -> sel.start + local[i]
                   [] sel.kind = "ids"   -> sel.ids[local[i] + 1]])

(* narrow_to_ids: ids are the selected rows that stay, len their number    *)
(* before.                                                                 *)
NarrowToIds(sel, ids, len) ==
  IF ids = <<>> THEN Empty
  ELSE IF Len(ids) = len THEN sel
  ELSE LET first == ids[1]
           last  == ids[Len(ids)]
       IN IF sel.kind # "ids" /\ last - first + 1 = Len(ids)
          THEN RangeOf(first, last + 1) ELSE Ids(ids)

(* clip_runs: runs are <<start, end>> pairs, ascending and disjoint.       *)
ClipRuns(sel, runs) ==
  LET Clip(run) == IF sel.kind = "all" THEN run
                   ELSE <<Greatest(run[1], sel.start), Least(run[2], sel.end)>>
      clipped == [i \in DOMAIN runs |-> Clip(runs[i])]
  IN Filtered(clipped, {run \in Members(clipped) : run[1] < run[2]})

(* The rows of several runs in order.                                      *)
Flat(runs) ==
  LET Upto[k \in 0..Len(runs)] ==
        IF k = 0 THEN <<>> ELSE Upto[k - 1] \o Run(runs[k][1], runs[k][2])
  IN Upto[Len(runs)]

(* The windows of an id list under runs, each searched past the last.      *)
WindowsOf(ids, runs) ==
  LET Step[k \in 0..Len(runs)] ==
        IF k = 0 THEN [from |-> 0, out |-> <<>>]
        ELSE LET m  == Step[k - 1]
                 lo == m.from + Below(Sublist(ids, m.from, Len(ids)), runs[k][1])
                 hi == lo + Below(Sublist(ids, lo, Len(ids)), runs[k][2])
             IN [from |-> hi, out |-> m.out \o Sublist(ids, lo, hi)]
  IN Step[Len(runs)].out

IntersectRuns(sel, runs) ==
  IF sel.kind = "ids" THEN FromIds(WindowsOf(sel.ids, runs))
  ELSE LET clipped == ClipRuns(sel, runs)
       IN CASE Len(clipped) = 0 -> Empty
            [] Len(clipped) = 1 -> RangeOf(clipped[1][1], clipped[1][2])
            [] OTHER            -> Ids(Flat(clipped))

-----------------------------------------------------------------------------
(* Cutting and splitting                                                   *)

RangeOrEmpty(a, b) == IF b <= a THEN Empty ELSE RangeOf(a, b)

(* Mutant of Window: the offset counts deleted rows too.                   *)
WindowOverDeleted(sel, offset, limit, deleted, n) ==
  LET rows == AsRows(sel, n)
      cut  == Sublist(rows, Least(offset, Len(rows)), Least(offset + limit, Len(rows)))
  IN FromIds(SelectSeq(cut, LAMBDA row : row \notin deleted.rows))

(* window: limit live rows from offset on.                                 *)
Window(sel, offset, limit, deleted, n) ==
  LET rows == AsRows(sel, n)
      live == LiveRows(sel, n, deleted)
      Cut(seq) == Sublist(seq, Least(offset, Len(seq)), Least(offset + limit, Len(seq)))
      first == IF sel.kind = "all" THEN 0 ELSE Clamped(sel, n).start
  IN IF deleted.some THEN FromIds(Cut(live))
     ELSE IF sel.kind = "ids" THEN FromIds(Cut(rows))
     ELSE RangeOrEmpty(first + Least(offset, Len(rows)), first + Least(offset + limit, Len(rows)))

(* Mutant of Per: rounded down.                                            *)
PerFloor(len, k) == Greatest(1, len \div k)

(* The rows of one piece of k: rounded up.                                 *)
Per(len, k) == (len + k - 1) \div k

(* split: into at most k contiguous pieces.                                *)
Split(sel, k, n) ==
  LET rows  == AsRows(sel, n)
      len   == Len(rows)
      parts == Greatest(k, 1)
      per   == Per(len, parts)
      first == IF sel.kind = "all" THEN 0 ELSE Clamped(sel, n).start
      Piece(at) == IF sel.kind = "ids"
                   THEN Ids(Sublist(sel.ids, at, Least(at + per, len)))
                   ELSE RangeOf(first + at, first + Least(at + per, len))
  IN IF len = 0 THEN <<>>
     ELSE [i \in 1..((len + per - 1) \div per) |-> Piece((i - 1) * per)]

-----------------------------------------------------------------------------
(* Masks                                                                   *)

(* to_mask: over the whole table.                                          *)
ToMask(sel, n) ==
  CASE sel.kind = "all"   -> Interval(0, n)
    [] sel.kind = "range" -> Interval(Clamped(sel, n).start, Clamped(sel, n).end)
    [] sel.kind = "ids"   -> Members(sel.ids)

(* live_mask: over the selected rows, by position.                         *)
LiveMask(sel, deleted, n) ==
  {i \in Interval(0, Len(AsRows(sel, n))) : AsRows(sel, n)[i + 1] \notin deleted.rows}

LiveLen(sel, deleted, n) ==
  IF deleted.some THEN Cardinality(LiveMask(sel, deleted, n)) ELSE SelLen(sel, n)
=============================================================================
