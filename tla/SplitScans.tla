----------------------------- MODULE SplitScans -----------------------------
(***************************************************************************)
(* Reads of a file's quads: a filter evaluated split by split into masks,  *)
(* the zone maps that prune it, point reads and takes at listed rows, and  *)
(* the searches of the sorted subject column.  A store st is the record of *)
(* IndexRoutes.  A filter is a set of conjuncts <<column, term>>; masks    *)
(* are a sequence of [start, end, kept], one for each split in order.      *)
(***************************************************************************)
EXTENDS IndexRoutes

CONSTANTS SPLIT_ROWS,          \* rows of one split of the file
          ZONE_ROWS,           \* rows of one zone of its zone maps
          PIECE_GROWTH,        \* how pieces of a walk that may stop grow
          POINT_READ_ROWS,     \* rows per id a filter checked by points needs
          TAKE_ROWS,           \* rows per id a take needs
          POINT_IDS_PER_SPLIT, \* ids per split still read as points
          PIN_POINT_MIN_ROWS,  \* rows from which a point read fills pins
          MASK_BITS            \* mask bits an id's place holds

ASSUME ScanSizes ==
  /\ SPLIT_ROWS \in Nat \ {0} /\ ZONE_ROWS \in Nat \ {0} /\ PIECE_GROWTH \in Nat \ {0}
  /\ {POINT_READ_ROWS, TAKE_ROWS, POINT_IDS_PER_SPLIT, PIN_POINT_MIN_ROWS, MASK_BITS} \subseteq Nat

HoldsOn(q, conjuncts) == \A eq \in conjuncts : q[eq[1]] = eq[2]
ConjunctsOf(p) == {<<c, p[c]>> : c \in DOMAIN p}

(* CodeEqs::code: what a set of conjuncts pins a column to.                *)
Pinned(conjuncts, c) == \E eq \in conjuncts : eq[1] = c
PinOf(conjuncts, c) == (CHOOSE eq \in conjuncts : eq[1] = c)[2]

(* fill_rows, fill_codes: pinned columns are filled, the others read.      *)
FilledRow(q, conjuncts) ==
  [c \in {"s", "p", "o", "g"} |-> IF Pinned(conjuncts, c) THEN PinOf(conjuncts, c) ELSE q[c]]

-----------------------------------------------------------------------------
(* Zone maps                                                               *)

ZoneOf(row) == row \div ZONE_ROWS
ZoneSpan(st, z) == Interval(z * ZONE_ROWS, Least((z + 1) * ZONE_ROWS, Total(st)))
ZoneTerms(st, z, c) == {BaseRow(st, row)[c] : row \in ZoneSpan(st, z)}

(* A zone whose bounds leave the term out holds none of its rows.          *)
ZoneMayHold(st, z, eq) ==
  /\ \E term \in ZoneTerms(st, z, eq[1]) : term <= eq[2]
  /\ \E term \in ZoneTerms(st, z, eq[1]) : term >= eq[2]

PruneMask(st, conjuncts, mask) ==
  {row \in mask : \A eq \in conjuncts : ZoneMayHold(st, ZoneOf(row), eq)}

(* every_row_zones: both bounds of a zone are the term, for every one.     *)
EveryRowZone(st, z, conjuncts) == \A eq \in conjuncts : ZoneTerms(st, z, eq[1]) = {eq[2]}

(* The last row of a set of rows, and its first.                           *)
FirstOf(R) == CHOOSE row \in R : \A other \in R : row <= other
LastOf(R) == CHOOSE row \in R : \A other \in R : row >= other

(* row_range_from_pruning: around every zone that may hold a match.        *)
PruningEnvelope(st, conjuncts) ==
  LET kept == PruneMask(st, conjuncts, Interval(0, Total(st)))
  IN IF kept = {} THEN At(<<0, 0>>)
     ELSE IF FirstOf(kept) = 0 /\ LastOf(kept) + 1 = Total(st) THEN Nowhere
     ELSE At(<<FirstOf(kept), LastOf(kept) + 1>>)

-----------------------------------------------------------------------------
(* Masks split by split                                                    *)

SplitCount(st) == (Total(st) + SPLIT_ROWS - 1) \div SPLIT_ROWS
SplitStart(k) == (k - 1) * SPLIT_ROWS
SplitEnd(st, k) == Least(k * SPLIT_ROWS, Total(st))

(* split_bounds: an id list spans the table, a mask picks its rows.        *)
SplitBounds(st, sel) ==
  IF sel.kind = "range" THEN <<sel.start, sel.end>> ELSE <<0, Total(st)>>

(* selection_split_ranges: what each split shares with the selection.      *)
SplitRanges(st, sel) ==
  LET bounds == SplitBounds(st, sel)
      cut == [k \in 1..SplitCount(st) |->
                [split |-> k, start |-> Greatest(SplitStart(k), bounds[1]),
                 end |-> Least(SplitEnd(st, k), bounds[2])]]
  IN SelectSeq(cut, LAMBDA range : range.start < range.end)

(* growing_pieces: none crosses a split, the growth carries over.          *)
GrowingRanges(ranges, rows) ==
  LET Step[k \in 0..rows] ==
        IF k = 0 THEN [rest |-> ranges, size |-> Greatest(FIRST_PIECE_ROWS, 1), out |-> <<>>]
        ELSE LET before == Step[k - 1] IN
             IF before.rest = <<>> THEN before
             ELSE LET range == before.rest[1]
                      end == Least(range.start + before.size, range.end)
                  IN [rest |-> IF end = range.end THEN Tail(before.rest)
                               ELSE <<[range EXCEPT !.start = end]>> \o Tail(before.rest),
                      size |-> before.size * PIECE_GROWTH,
                      out |-> Append(before.out, [range EXCEPT !.end = end])]
  IN Step[rows].out

(* cut_into_pieces: a walk that wants few rows starts small.               *)
WalkedRanges(st, sel, want) ==
  IF want < FIRST_PIECE_ROWS THEN GrowingRanges(SplitRanges(st, sel), Total(st))
  ELSE SplitRanges(st, sel)

SplitStartMask(st, sel, deleted, range) ==
  {row \in Interval(range.start, range.end) : Contains(sel, row) /\ row \notin deleted.rows}

(* evaluate_filter_split: zones of the filter's rows alone are taken       *)
(* whole, the rest pruned, then tested.                                    *)
EvaluateSplit(st, conjuncts, start) ==
  LET all == {row \in start : st.codes /\ EveryRowZone(st, ZoneOf(row), conjuncts)}
  IN all \cup {row \in PruneMask(st, conjuncts, start \ all) : HoldsOn(BaseRow(st, row), conjuncts)}

(* A mask of a piece joins the one before it of the same split.            *)
JoinedMask(masks, piece) ==
  LET last == Len(masks) IN
  IF last > 0 /\ masks[last].split = piece.split
  THEN [masks EXCEPT ![last] = [@ EXCEPT !.end = piece.end, !.kept = @ \cup piece.kept]]
  ELSE Append(masks, piece)

KeptCount(masks) ==
  Cardinality(UNION {masks[k].kept : k \in DOMAIN masks})

(* split_masks_until: the masks in order until `want' rows are found.      *)
SplitMasksUntil(st, conjuncts, sel, deleted, want) ==
  LET ranges == WalkedRanges(st, sel, want)
      Step[k \in 0..Len(ranges)] ==
        IF k = 0 THEN <<>>
        ELSE LET before == Step[k - 1] IN
             IF KeptCount(before) >= want THEN before
             ELSE JoinedMask(before, [split |-> ranges[k].split, start |-> ranges[k].start, end |-> ranges[k].end,
                                      kept |-> EvaluateSplit(st, conjuncts, SplitStartMask(st, sel, deleted, ranges[k]))])
  IN IF want = 0 THEN <<>> ELSE Step[Len(ranges)]

Everything(st) == Total(st) + 1
SplitMasks(st, conjuncts, sel, deleted) == SplitMasksUntil(st, conjuncts, sel, deleted, Everything(st))

(* first_ids: the first of the rows the masks keep.                        *)
FirstIds(st, masks, want) ==
  LET kept == UNION {masks[k].kept : k \in DOMAIN masks}
      ids == SelectSeq(Run(0, Total(st)), LAMBDA row : row \in kept)
  IN Sublist(ids, 0, Least(want, Len(ids)))

(* smaller_than_ids: counting only the masks that are neither full nor     *)
(* empty.                                                                  *)
SmallerThanIds(masks) ==
  LET partial == {k \in DOMAIN masks : masks[k].kept # {} /\ masks[k].kept # Interval(masks[k].start, masks[k].end)}
      bits == Cardinality(UNION {Interval(masks[k].start, masks[k].end) : k \in partial})
  IN KeptCount(masks) * MASK_BITS >= bits

FirstMatchingRows(st, conjuncts, sel, deleted, want) ==
  FirstIds(st, SplitMasksUntil(st, conjuncts, sel, deleted, want), want)

CountMatchingRows(st, conjuncts, sel, deleted) == KeptCount(SplitMasks(st, conjuncts, sel, deleted))

CountMatchingRowsCapped(st, conjuncts, sel, deleted, cap) ==
  Least(KeptCount(SplitMasksUntil(st, conjuncts, sel, deleted, cap)), cap)

(* matching_file_rows: with tombstoned rows, for a delete to tombstone.    *)
MatchingFileRows(st, conjuncts, sel) ==
  IF conjuncts = {} THEN ToMask(sel, Total(st))
  ELSE UNION {m.kept : m \in Members(SplitMasks(st, conjuncts, sel, NoMask))}

(* kept_file_rows: one pass of a column's test over what the filter keeps, *)
(* tombstoned rows included.                                               *)
KeptFileRows(st, conjuncts, sel, column, terms) ==
  LET start == MatchingFileRows(st, conjuncts, sel)
  IN SelectSeq(Run(0, Total(st)), LAMBDA row : row \in start /\ BaseRow(st, row)[column] \in terms)

-----------------------------------------------------------------------------
(* How an exact selection is read                                          *)

(* Footprint::of: the splits a list of rows touches, and their rows.       *)
Touched(st, R) == {k \in 1..SplitCount(st) : \E row \in R : SplitStart(k) <= row /\ row < SplitEnd(st, k)}
TouchedRows(st, R) ==
  Cardinality(UNION {Interval(SplitStart(k), SplitEnd(st, k)) : k \in Touched(st, R)})

Sparse(st, R, rowsPerId) == Cardinality(R) * rowsPerId <= TouchedRows(st, R)
PointsFit(st, R) ==
  \/ PointSized(Cardinality(R))
  \/ Cardinality(R) <= POINT_IDS_PER_SPLIT * Cardinality(Touched(st, R))

SelPointSized(sel) ==
  CASE sel.kind = "all" -> FALSE
    [] sel.kind = "range" -> PointSized(Minus(sel.end, sel.start))
    [] sel.kind = "ids" -> PointSized(Len(sel.ids))

(* ReadKind::of: only codes are read point by point.                       *)
ReadKind(st, conjuncts, sel) ==
  IF st.codes /\ SelPointSized(sel) THEN "points"
  ELSE IF sel.kind = "ids" /\ st.codes /\ PointsFit(st, Members(sel.ids)) THEN "points"
  ELSE IF sel.kind = "ids" /\ conjuncts = {} /\ Sparse(st, Members(sel.ids), TAKE_ROWS) THEN "take"
  ELSE IF st.codes /\ conjuncts # {} THEN "masks" ELSE "scan"

ReadsMasks(st, conjuncts, sel) ==
  conjuncts # {} /\ ~SelPointSized(sel) /\ ReadKind(st, conjuncts, sel) = "masks"

(* PointRows::read: each equality is checked at the rows left, then its    *)
(* column is filled.                                                       *)
PointRows(st, conjuncts, rows) ==
  LET live == SelectSeq(rows, LAMBDA row : HoldsOn(BaseRow(st, row), conjuncts))
  IN [i \in DOMAIN live |-> FilledRow(BaseRow(st, live[i]), conjuncts)]

(* MaskedRead::of, MaskedRows: rows the masks keep, the pinned columns     *)
(* filled unless few rows are read point by point.                         *)
MaskedRows(st, masks, pins) ==
  LET ids == FirstIds(st, masks, Total(st))
      points == PointsFit(st, Members(ids))
      filled == IF points /\ Len(ids) < PIN_POINT_MIN_ROWS THEN {} ELSE pins
  IN [i \in DOMAIN ids |-> FilledRow(BaseRow(st, ids[i]), filled)]

(* masks_first_split_reads: the masks of one split, then its rows.         *)
MasksFirstRows(st, conjuncts, sel, deleted) ==
  LET masks == SplitMasks(st, conjuncts, sel, deleted)
      Upto[k \in 0..Len(masks)] ==
        IF k = 0 THEN <<>> ELSE Upto[k - 1] \o MaskedRows(st, <<masks[k]>>, conjuncts)
  IN Upto[Len(masks)]

(* An exact selection's rows under a pending filter, in base order.        *)
ExactRows(st, conjuncts, sel, deleted) ==
  LET live == LiveRows(sel, Total(st), deleted)
      kept == SelectSeq(live, LAMBDA row : HoldsOn(BaseRow(st, row), conjuncts))
      kind == ReadKind(st, conjuncts, sel)
  IN IF kind = "points" THEN PointRows(st, conjuncts, live)
     ELSE IF kind = "masks" THEN MasksFirstRows(st, conjuncts, sel, deleted)
     ELSE [i \in DOMAIN kept |-> BaseRow(st, kept[i])]

(* point_filter_ids: declined unless the ids are few for the rows around.  *)
PointFilters(st, ids) == st.codes /\ Sparse(st, Members(ids), POINT_READ_ROWS)

-----------------------------------------------------------------------------
(* The sorted subject column                                               *)

(* bounds_in on a column of the base.                                      *)
BaseBounds(st, column, term, within) ==
  LET stretch == Interval(within[1], within[2])
      Before(S) == within[1] + Cardinality(S)
  IN <<Before({row \in stretch : BaseRow(st, row)[column] < term}),
       Before({row \in stretch : BaseRow(st, row)[column] <= term})>>

(* The roles bound right behind the subject, in order.                     *)
PrefixBehindSubject(p) ==
  IF "p" \notin DOMAIN p THEN <<>>
  ELSE IF "o" \notin DOMAIN p THEN <<"p">>
  ELSE IF "g" \notin DOMAIN p THEN <<"p", "o">> ELSE <<"p", "o", "g">>

(* narrow_subject_run, and the in-memory prefix probe: each role searched  *)
(* in the run before it; an empty run ends the search.                     *)
PrefixRun(st, p, run) ==
  LET prefix == PrefixBehindSubject(p)
      Step[k \in 0..Len(prefix)] ==
        IF k = 0 THEN [run |-> run, answered |-> {}]
        ELSE LET before == Step[k - 1] IN
             IF Width(before.run) = 0 THEN before
             ELSE [run |-> BaseBounds(st, prefix[k], p[prefix[k]], before.run),
                   answered |-> before.answered \cup {prefix[k]}]
  IN Step[Len(prefix)]

SubjectSearchable(st) == st.sorted /\ st.codes

(* locate_subject_run, locate_subject                                      *)
LocateSubject(st, p) ==
  LET run == BaseBounds(st, "s", p["s"], <<0, Total(st)>>)
      narrowed == PrefixRun(st, p, run)
  IN IF "s" \notin DOMAIN p \/ ~SubjectSearchable(st) THEN [some |-> FALSE, left |-> p]
     ELSE [some |-> TRUE, run |-> narrowed.run, left |-> Unbind(p, {"s"} \cup narrowed.answered)]

(* locate_subject_code_range: lower bounds of both ends.                   *)
LocateCodeRange(st, lo, hi) ==
  LET from == BaseBounds(st, "s", lo, <<0, Total(st)>>)[1]
      to == BaseBounds(st, "s", hi, <<0, Total(st)>>)[1]
  IN <<from, Greatest(to, from)>>

(* locate_subject_code_runs: empty runs left out, abutting ones joined.    *)
LocateCodeRuns(st, codes) ==
  LET Step[k \in 0..Len(codes)] ==
        IF k = 0 THEN <<>>
        ELSE LET before == Step[k - 1]
                 run == BaseBounds(st, "s", codes[k], <<0, Total(st)>>)
                 last == Len(before)
             IN IF Width(run) = 0 THEN before
                ELSE IF last > 0 /\ before[last][2] = run[1]
                THEN [before EXCEPT ![last] = <<@[1], run[2]>>]
                ELSE Append(before, run)
  IN Step[Len(codes)]
=============================================================================
