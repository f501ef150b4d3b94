---------------------------- MODULE ResidualScan ----------------------------
(***************************************************************************)
(* A pattern's residual equalities over an in-memory base: the statistics  *)
(* of its columns settle whole zones, the rest is compared zone by zone or *)
(* in growing pieces, a count or a window stops early, and the ids, once   *)
(* found, are kept (PendingResidual) for every store that shares the view. *)
(*                                                                         *)
(* A table is a sequence of rows, a row the codes of its columns.  An      *)
(* equality is [col, code]; a set of equalities (a bit mask) is the set of *)
(* their positions.  Rows count from 0.                                    *)
(***************************************************************************)
EXTENDS Selections

CONSTANTS Columns,           \* the columns, 1..k
          Tables,            \* the tables a base may be
          Starts,       \* the selections a match may start from
          Equalities,        \* the residuals a match may leave
          Tombstones,        \* the masks a sharer of the view may have
          ZoneKinds,         \* which column has zone bounds, and recorded counts
          ZONE_ROWS, MAX_VALUES, PIECE_GROWTH,
          MaxRows            \* the largest offset and limit asked

(* A selection of a table of n rows, as RowSelection keeps it.             *)
SelectionOf(sel, n) ==
  \/ sel = All
  \/ sel.kind = "range" /\ \E a \in 0..n, b \in 0..n : a <= b /\ sel = RangeOf(a, b)
  \/ sel.kind = "ids" /\ sel = Ids(sel.ids) /\ sel.ids \in Seq(Interval(0, n)) /\ IsAscending(sel.ids)

ASSUME ScanSizes ==
  /\ ZONE_ROWS \in Nat \ {0} /\ MAX_VALUES \in Nat
  /\ PIECE_GROWTH \in Nat \ {0} /\ MaxRows \in Nat
ASSUME ScanInputs ==
  /\ ZoneKinds \subseteq [Columns -> {"none", "bounds", "counts"}]
  /\ Tables \subseteq Seq([Columns -> Nat])
  /\ \A eqs \in Equalities : eqs # <<>> /\ eqs \in Seq([col : Columns, code : Nat])
  /\ \A sel \in Starts, rows \in Tables : SelectionOf(sel, Len(rows))

VARIABLES table,   \* MemoryBase: the rows
          kinds,   \* its QuadZones
          view,    \* the match: none yet, exact, or pending
          ids,     \* PendingResidual::ids: [some, list]
          answer   \* the last call, its arguments and what it returned

vars == <<table, kinds, view, ids, answer>>

Total == Len(table)
FIRST_PIECE_ROWS == ZONE_ROWS
Value(row, col) == table[row + 1][col]

-----------------------------------------------------------------------------
(* ColumnZones                                                             *)

ZoneCount == (Total + ZONE_ROWS - 1) \div ZONE_ROWS
ZoneStart(z) == z * ZONE_ROWS
ZoneEnd(z) == Least((z + 1) * ZONE_ROWS, Total)
ZoneValues(z, col) == {Value(row, col) : row \in Interval(ZoneStart(z), ZoneEnd(z))}

SetMin(S) == CHOOSE x \in S : \A y \in S : x <= y
SetMax(S) == CHOOSE x \in S : \A y \in S : y <= x

EqOnBounds(lo, hi, code) ==
  IF code < lo \/ code > hi THEN "no"
  ELSE IF lo = code /\ hi = code THEN "yes" ELSE "open"

OnBounds(z, eq) == EqOnBounds(SetMin(ZoneValues(z, eq.col)), SetMax(ZoneValues(z, eq.col)), eq.code)

ColumnBounds(eq) ==
  LET all == {Value(row, eq.col) : row \in Interval(0, Total)}
  IN EqOnBounds(SetMin(all), SetMax(all), eq.code)

(* A zone of too many values records none.                                 *)
Recorded(z, col) == kinds[col] = "counts" /\ Cardinality(ZoneValues(z, col)) <= MAX_VALUES

RecordedCount(z, eq) ==
  Cardinality({row \in Interval(ZoneStart(z), ZoneEnd(z)) : Value(row, eq.col) = eq.code})

EqHolds(z, eq) ==
  IF OnBounds(z, eq) = "open" /\ Recorded(z, eq.col) /\ RecordedCount(z, eq) = 0
  THEN "no" ELSE OnBounds(z, eq)

-----------------------------------------------------------------------------
(* The statistics asked                                                    *)

HasZones(eq) == kinds[eq.col] # "none"
ZoneChecks(eqs) == {i \in DOMAIN eqs : HasZones(eqs[i])}

(* Classes: zoned, or pieces with the bounds that may rule a zone out.     *)
Zoned(eqs)  == [kind |-> "zoned", checks |-> ZoneChecks(eqs)]
Pieces(eqs) == [kind |-> "pieces", checks |-> ZoneChecks(eqs)]

AsksStatistics(sel) == SelLen(sel, Total) > ZONE_ROWS

(* ask_statistics: what the columns' bounds settle, and what stays open.   *)
AskStatistics(sel, eqs) ==
  LET Settled(eq) == IF HasZones(eq) /\ Total > 0 THEN ColumnBounds(eq) ELSE "open"
      open == Filtered(eqs, {eq \in Members(eqs) : Settled(eq) # "yes"})
  IN IF \E i \in DOMAIN eqs : Settled(eqs[i]) = "no" THEN [asked |-> "nothing"]
     ELSE IF open = <<>> THEN [asked |-> "everything"]
     ELSE [asked |-> "open", eqs |-> open,
           classes |-> IF ZoneChecks(open) # {} /\ AsRows(sel, Total) # <<>>
                       THEN Zoned(open) ELSE Pieces(open)]

(* Mutant of ClassOf: an equality without zones is taken as settled.       *)
ClassOfUnzoned(classes, eqs, z) ==
  IF \E i \in classes.checks : EqHolds(z, eqs[i]) = "no" THEN [class |-> "none"]
  ELSE LET unsettled == {i \in classes.checks : EqHolds(z, eqs[i]) = "open"}
       IN IF unsettled = {} THEN [class |-> "all"] ELSE [class |-> "mixed", bits |-> unsettled]

(* ZoneSet::class: pieces are only ruled out, by bounds alone.             *)
ClassOf(classes, eqs, z) ==
  LET Holds(i) == IF classes.kind = "pieces" THEN OnBounds(z, eqs[i]) ELSE EqHolds(z, eqs[i])
      unsettled == IF classes.kind = "pieces" THEN DOMAIN eqs
                   ELSE {i \in DOMAIN eqs : i \in classes.checks => Holds(i) = "open"}
  IN IF \E i \in classes.checks : Holds(i) = "no" THEN [class |-> "none"]
     ELSE IF unsettled = {} THEN [class |-> "all"]
     ELSE [class |-> "mixed", bits |-> unsettled]

-----------------------------------------------------------------------------
(* ResidualCompare: c is [sel, eqs, classes, deleted]                      *)

Compare(c, sel, bits) ==
  LET Holds(row) == \A i \in bits : Value(row, c.eqs[i].col) = c.eqs[i].code
  IN Ids(FilterRows(sel, Total, {row \in Interval(0, Total) : Holds(row)}))

Tombstoned(sel, deleted) == Cardinality(Members(AsRows(sel, Total)) \cap deleted.rows)
LiveCount(c, sel) == SelLen(sel, Total) - Tombstoned(sel, c.deleted)

(* part_of: the selected rows among a..b.                                  *)
PartOf(sel, a, b) ==
  IF sel.kind = "ids" THEN Ids(RestrictIds(sel.ids, a, b)) ELSE RangeOf(a, b)

(* rows_at: the selected rows at the positions from..to.                   *)
RowsAt(sel, from, to) ==
  LET rows == AsRows(sel, Total)
  IN IF sel.kind = "ids" THEN Ids(Sublist(rows, from, to)) ELSE RangeOf(rows[1] + from, rows[1] + to)

SpanOf(sel) ==
  LET rows == AsRows(sel, Total) IN <<rows[1], rows[Len(rows)] + 1>>

(* ZoneSet::parts: the zones a span meets, each with the rows it meets.    *)
ZoneParts(span) ==
  LET end   == Least(span[2], Total)
      first == span[1] \div ZONE_ROWS
      count == IF end <= span[1] THEN 0 ELSE (end - 1) \div ZONE_ROWS + 1 - first
  IN [k \in 1..count |->
        [zone |-> first + k - 1,
         start |-> Greatest(ZoneStart(first + k - 1), span[1]),
         end |-> Least(ZoneEnd(first + k - 1), end)]]

(* Mutant of UnreadPlan: the tombstones are not looked at.                 *)
UnreadPlanDeleted(c, p, part, bits) ==
  LET eq == c.eqs[CHOOSE i \in bits : TRUE]
      whole == SelLen(part, Total) = ZoneEnd(p.zone) - ZoneStart(p.zone)
  IN IF Cardinality(bits) # 1 THEN [some |-> FALSE]
     ELSE IF whole /\ Recorded(p.zone, eq.col)
     THEN [some |-> TRUE, count |-> RecordedCount(p.zone, eq)]
     ELSE [some |-> FALSE]

(* unread_plan: a count known without comparing, when one equality is open *)
(* and no row is deleted: recorded for the zone, or counted in the column  *)
(* (every column here has a probe).                                        *)
UnreadPlan(c, p, part, bits) ==
  LET eq == c.eqs[CHOOSE i \in bits : TRUE]
      whole == SelLen(part, Total) = ZoneEnd(p.zone) - ZoneStart(p.zone)
  IN IF Cardinality(bits) # 1 \/ Tombstoned(part, c.deleted) > 0 THEN [some |-> FALSE]
     ELSE IF whole /\ eq \in {c.eqs[i] : i \in c.classes.checks} /\ Recorded(p.zone, eq.col)
     THEN [some |-> TRUE, count |-> RecordedCount(p.zone, eq)]
     ELSE IF part.kind = "ids" THEN [some |-> FALSE]
     ELSE [some |-> TRUE, count |-> Cardinality({row \in Members(AsRows(part, Total)) :
                                                   Value(row, eq.col) = eq.code})]

(* Runs of one step; counts known without reading stay apart.              *)
Joins(a, b) == a = b /\ a.step # "unread"

(* A zone's step by its class; a count takes a mixed zone unread where it  *)
(* can.                                                                    *)
MixedStep(bits, plan, counting) ==
  IF counting /\ plan.some THEN [step |-> "unread", count |-> plan.count]
  ELSE [step |-> "compare", bits |-> bits]

StepOf(c, p, part, class, counting) ==
  CASE class.class = "none" -> [step |-> "skip"]
    [] class.class = "all"  -> [step |-> "take"]
    [] OTHER -> MixedStep(class.bits, UnreadPlan(c, p, part, class.bits), counting)

(* A zone without a selected row stretches the run before it.              *)
Stretched(steps, p) ==
  [k \in DOMAIN steps |-> IF k = Len(steps) THEN [steps[k] EXCEPT !.end = p.end] ELSE steps[k]]

Extended(steps, p, step) ==
  LET last == Len(steps) IN
  IF last > 0 /\ steps[last].end = p.start /\ Joins(steps[last].step, step) THEN Stretched(steps, p)
  ELSE Append(steps, [start |-> p.start, end |-> p.end, step |-> step])

(* steps: each zone's step, runs of like steps joined.                     *)
ZoneStep(c, sel, steps, p, counting) ==
  LET part == PartOf(sel, p.start, p.end) IN
  IF SelLen(part, Total) = 0 THEN Stretched(steps, p)
  ELSE Extended(steps, p, StepOf(c, p, part, ClassOf(c.classes, c.eqs, p.zone), counting))

Steps(c, sel, counting) ==
  LET parts == ZoneParts(SpanOf(sel))
      Upto[k \in 0..Len(parts)] ==
        IF k = 0 THEN <<>> ELSE ZoneStep(c, sel, Upto[k - 1], parts[k], counting)
  IN Upto[Len(parts)]

(* compares_whole: most of the selection would be compared anyway.         *)
ComparesWhole(sel, steps, selected) ==
  LET compared == {k \in DOMAIN steps : steps[k].step.step = "compare"}
      Rows(k)  == Members(AsRows(PartOf(sel, steps[k].start, steps[k].end), Total))
  IN Cardinality(compared) > 1 /\ 2 * Cardinality(UNION {Rows(k) : k \in compared}) > selected

(* The rows the steps keep, in order.                                      *)
KeptBy(c, sel, steps) ==
  LET Kept(step, part) ==
        CASE step.step = "skip" -> <<>>
          [] step.step = "take" -> AsRows(part, Total)
          [] OTHER -> AsRows(Compare(c, part, step.bits), Total)
      Upto[k \in 0..Len(steps)] ==
        IF k = 0 THEN <<>>
        ELSE Upto[k - 1] \o Kept(steps[k].step, PartOf(sel, steps[k].start, steps[k].end))
  IN IF \A k \in DOMAIN steps : steps[k].step.step = "take" THEN sel
     ELSE IF ComparesWhole(sel, steps, SelLen(sel, Total)) THEN Compare(c, sel, DOMAIN c.eqs)
     ELSE FromIds(Upto[Len(steps)])

RowsBy(c, sel) == IF AsRows(sel, Total) = <<>> THEN sel ELSE KeptBy(c, sel, Steps(c, sel, FALSE))

PiecesCompared(c, sel) ==
  IF c.classes.checks # {} /\ AsksStatistics(sel) THEN RowsBy(c, sel)
  ELSE Compare(c, sel, DOMAIN c.eqs)

MatchedRows(c) ==
  IF c.classes.kind = "zoned" THEN RowsBy(c, c.sel) ELSE PiecesCompared(c, c.sel)

CountedBy(c, steps) ==
  LET Counted(step, part) ==
        CASE step.step = "skip"   -> 0
          [] step.step = "take"   -> LiveCount(c, part)
          [] step.step = "unread" -> step.count
          [] OTHER -> LiveCount(c, Compare(c, part, step.bits))
      Upto[k \in 0..Len(steps)] ==
        IF k = 0 THEN 0
        ELSE Upto[k - 1] + Counted(steps[k].step, PartOf(c.sel, steps[k].start, steps[k].end))
  IN IF ComparesWhole(c.sel, steps, SelLen(c.sel, Total))
     THEN LiveCount(c, Compare(c, c.sel, DOMAIN c.eqs)) ELSE Upto[Len(steps)]

FullCount(c) == CountedBy(c, Steps(c, c.sel, TRUE))

(* growing_pieces over the positions 0..total.                             *)
GrowingPieces(total, first) ==
  LET Upto[k \in 0..total] ==
        IF k = 0 THEN [at |-> 0, size |-> Greatest(first, 1), out |-> <<>>]
        ELSE LET m == Upto[k - 1]
                 end == Least(m.at + m.size, total)
             IN IF m.at >= total THEN m
                ELSE [at |-> end, size |-> m.size * PIECE_GROWTH, out |-> Append(m.out, <<m.at, end>>)]
  IN Upto[total].out

(* parts: what a walk that may stop early reads, in order.                 *)
Parts(c, want) ==
  LET total  == SelLen(c.sel, Total)
      pieces == GrowingPieces(total, IF total <= want THEN total ELSE FIRST_PIECE_ROWS)
      all    == ZoneParts(SpanOf(c.sel))
      zones  == Filtered(all, {p \in Members(all) : SelLen(PartOf(c.sel, p.start, p.end), Total) > 0})
  IN IF c.classes.kind = "zoned"
     THEN [k \in DOMAIN zones |-> [zone |-> zones[k],
                                   sel |-> PartOf(c.sel, zones[k].start, zones[k].end),
                                   class |-> ClassOf(c.classes, c.eqs, zones[k].zone)]]
     ELSE [k \in DOMAIN pieces |-> [sel |-> RowsAt(c.sel, pieces[k][1], pieces[k][2]),
                                    class |-> [class |-> "piece"]]]

(* unread: a part's matches when nothing need be compared.                 *)
UnreadPart(c, part) ==
  CASE part.class.class = "none"  -> [some |-> TRUE, count |-> 0]
    [] part.class.class = "all"   -> [some |-> TRUE, count |-> LiveCount(c, part.sel)]
    [] part.class.class = "mixed" -> UnreadPlan(c, part.zone, part.sel, part.class.bits)
    [] part.class.class = "piece" -> [some |-> FALSE]

MatchedPart(c, part) ==
  CASE part.class.class = "none"  -> Empty
    [] part.class.class = "all"   -> part.sel
    [] part.class.class = "mixed" -> Compare(c, part.sel, part.class.bits)
    [] part.class.class = "piece" -> PiecesCompared(c, part.sel)

CountUpTo(c, cap) ==
  LET parts == Parts(c, cap)
      Counted(part) == LET unread == UnreadPart(c, part)
                       IN IF unread.some THEN unread.count ELSE LiveCount(c, MatchedPart(c, part))
      Upto[k \in 0..Len(parts)] ==
        IF k = 0 THEN 0
        ELSE IF Upto[k - 1] >= cap THEN Upto[k - 1] ELSE Upto[k - 1] + Counted(parts[k])
  IN IF AsRows(c.sel, Total) = <<>> THEN 0 ELSE Upto[Len(parts)]

CountAll(c) ==
  IF AsRows(c.sel, Total) = <<>> THEN 0
  ELSE IF c.classes.kind = "zoned" THEN FullCount(c)
  ELSE LiveCount(c, MatchedRows(c))

-----------------------------------------------------------------------------
(* WindowCursor                                                            *)

(* Mutant of Skips: a part ending at the offset is read, one past skipped. *)
SkipsTooFar(cursor, count) == cursor.seen + count <= cursor.offset + 1

Skips(cursor, count) == cursor.seen + count <= cursor.offset

TakeRows(cursor, list) ==
  LET from == Least(Minus(cursor.offset, cursor.seen), Len(list))
      room == cursor.limit - Len(cursor.rows)
  IN [cursor EXCEPT !.rows = @ \o Sublist(list, from, Least(from + room, Len(list))),
                    !.seen = @ + Len(list)]

WindowWalk(c, offset, limit) ==
  LET parts == Parts(c, offset + limit)
      start == [offset |-> offset, limit |-> limit, seen |-> 0, rows |-> <<>>, ended |-> TRUE]
      Read(cursor, part) ==
        LET unread == UnreadPart(c, part) IN
        IF Len(cursor.rows) >= limit THEN [cursor EXCEPT !.ended = FALSE]
        ELSE IF unread.some /\ unread.count = 0 THEN cursor
        ELSE IF unread.some /\ Skips(cursor, unread.count)
        THEN [cursor EXCEPT !.seen = @ + unread.count]
        ELSE TakeRows(cursor, LiveRows(MatchedPart(c, part), Total, c.deleted))
      Upto[k \in 0..Len(parts)] == IF k = 0 THEN start ELSE Read(Upto[k - 1], parts[k])
      last == Upto[Len(parts)]
  IN IF AsRows(c.sel, Total) = <<>> THEN [rows |-> <<>>, exact |-> TRUE, live |-> 0]
     ELSE [rows |-> last.rows, exact |-> last.ended, live |-> last.seen]

-----------------------------------------------------------------------------
(* The match, and the calls on what it leaves                              *)

NoView == [kind |-> "none"]
NoIds  == [some |-> FALSE, list |-> <<>>]
NoCall == [call |-> "none"]

Init ==
  /\ table \in Tables
  /\ kinds \in ZoneKinds
  /\ view = NoView /\ ids = NoIds /\ answer = NoCall

Exact(sel, eqs, rows) == [kind |-> "exact", sel |-> sel, asked |-> eqs, rows |-> rows]

(* defers_residual: what the caller needs is short of the rows.            *)
DefersResidual(sel) == SelLen(sel, Total) > FIRST_PIECE_ROWS

(* residual_narrow: settled by the statistics, unless they are switched    *)
(* off, compared now, or pending.                                          *)
Match(sel, eqs, zonesEnabled) ==
  LET settled == IF AsksStatistics(sel) /\ zonesEnabled THEN AskStatistics(sel, eqs)
                 ELSE [asked |-> "open", eqs |-> eqs, classes |-> Pieces(eqs)]
  IN /\ view.kind = "none" /\ SelLen(sel, Total) > 0
     /\ UNCHANGED <<table, kinds, ids, answer>>
     /\ CASE settled.asked = "nothing"    -> view' = Exact(sel, eqs, Empty)
          [] settled.asked = "everything" -> view' = Exact(sel, eqs, sel)
          [] settled.asked = "open" ->
               LET c == [sel |-> sel, eqs |-> settled.eqs, classes |-> settled.classes, deleted |-> NoMask]
               IN \/ view' = Exact(sel, eqs, MatchedRows(c))
                  \/ DefersResidual(sel) /\ view' = [kind |-> "pending", sel |-> sel, asked |-> eqs, c |-> c]

Pending(deleted) == [view.c EXCEPT !.deleted = deleted]

(* PendingResidual::materialized: the first to find the ids keeps them.    *)
Held == IF ids.some THEN ids ELSE [some |-> TRUE, list |-> AsRows(MatchedRows(view.c), Total)]

HeldLive(deleted) == Filtered(Held.list, Interval(0, Total) \ deleted.rows)

ReachesEveryRow(want) == view.c.classes.kind = "pieces" /\ want >= SelLen(view.c.sel, Total)

Materialize ==
  /\ view.kind = "pending" /\ answer = NoCall
  /\ ids' = Held
  /\ answer' = [call |-> "rows", rows |-> Held.list]
  /\ UNCHANGED <<table, kinds, view>>

Count(deleted) ==
  /\ view.kind = "pending" /\ answer = NoCall
  /\ LET unheld == ~ids.some /\ view.c.classes.kind = "zoned" IN
     /\ ids' = IF unheld THEN ids ELSE Held
     /\ answer' = [call |-> "count", deleted |-> deleted,
                   count |-> IF unheld THEN CountAll(Pending(deleted)) ELSE Len(HeldLive(deleted))]
  /\ UNCHANGED <<table, kinds, view>>

CountCapped(limit, deleted) ==
  /\ view.kind = "pending" /\ answer = NoCall
  /\ LET unheld == ~ids.some /\ ~ReachesEveryRow(limit) IN
     /\ ids' = IF unheld THEN ids ELSE Held
     /\ answer' = [call |-> "capped", deleted |-> deleted, limit |-> limit,
                   count |-> Least(limit, IF unheld THEN CountUpTo(Pending(deleted), limit)
                                          ELSE Len(HeldLive(deleted)))]
  /\ UNCHANGED <<table, kinds, view>>

Cut(live, offset, limit) ==
  [rows |-> Sublist(live, Least(offset, Len(live)), Least(offset + limit, Len(live))),
   exact |-> TRUE, live |-> Len(live)]

WindowOf(offset, limit, deleted) ==
  /\ view.kind = "pending" /\ answer = NoCall
  /\ LET unheld == ~ids.some /\ ~ReachesEveryRow(offset + limit) IN
     /\ ids' = IF unheld THEN ids ELSE Held
     /\ answer' = [call |-> "window", deleted |-> deleted, offset |-> offset, limit |-> limit,
                   got |-> IF unheld THEN WindowWalk(Pending(deleted), offset, limit)
                           ELSE Cut(HeldLive(deleted), offset, limit)]
  /\ UNCHANGED <<table, kinds, view>>

(* The caller has its answer.                                              *)
Return == answer # NoCall /\ answer' = NoCall /\ UNCHANGED <<table, kinds, view, ids>>

Next ==
  \/ \E sel \in Starts, eqs \in Equalities, on \in BOOLEAN : Match(sel, eqs, on)
  \/ Materialize \/ Return
  \/ \E deleted \in Tombstones :
       \/ Count(deleted)
       \/ \E limit \in 0..MaxRows : CountCapped(limit, deleted)
       \/ \E offset, limit \in 0..MaxRows : WindowOf(offset, limit, deleted)

Spec == Init /\ [][Next]_vars

-----------------------------------------------------------------------------
(* Properties                                                              *)

(* The match and its memo are of their shapes; the rows a match keeps, and *)
(* the ids the memo holds, ascend: no zone's rows are taken twice.         *)
TypeOK ==
  /\ view.kind \in {"none", "exact", "pending"}
  /\ view.kind = "exact" => IsAscending(AsRows(view.rows, Total))
  /\ ids.some \in BOOLEAN /\ IsAscending(ids.list)
  /\ answer.call \in {"none", "rows", "count", "capped", "window"}

(* The reference: the selected rows that satisfy every equality asked.     *)
Wanted ==
  LET Holds(row) == \A i \in DOMAIN view.asked : Value(row, view.asked[i].col) = view.asked[i].code
  IN FilterRows(view.sel, Total, {row \in Interval(0, Total) : Holds(row)})

WantedLive(deleted) == Filtered(Wanted, Interval(0, Total) \ deleted.rows)

(* However the statistics settle zones, a match keeps exactly the rows     *)
(* that satisfy the pattern, and so does the memo.                         *)
MatchIsExact ==
  /\ view.kind = "exact" => AsRows(view.rows, Total) = Wanted
  /\ ids.some => ids.list = Wanted

(* A count of a pending match, recorded, compared or held, is the number   *)
(* of live matching rows, and a capped one the least of that and the cap.  *)
CountsAreExact ==
  /\ answer.call = "count" => answer.count = Len(WantedLive(answer.deleted))
  /\ answer.call = "capped" => answer.count = Least(answer.limit, Len(WantedLive(answer.deleted)))

(* A window of a pending match holds the live matching rows offset to      *)
(* offset + limit in order; it reports the live rows exactly, or at least  *)
(* so many and then it is full, which is what the tail's share rests on.   *)
WindowsAreExact ==
  answer.call = "window" =>
    LET live == WantedLive(answer.deleted)
        got  == answer.got
    IN /\ got.rows = Sublist(live, Least(answer.offset, Len(live)),
                                   Least(answer.offset + answer.limit, Len(live)))
       /\ got.exact => got.live = Len(live)
       /\ ~got.exact => got.live <= Len(live) /\ Len(got.rows) = answer.limit
=============================================================================
