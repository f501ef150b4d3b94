----------------------------- MODULE ViewRoutes -----------------------------
(***************************************************************************)
(* How a view of a base's rows is narrowed, windowed, counted and read:    *)
(* matches over either backend, the serve plans that read a view off a     *)
(* copy, windows, keeps, partitions and counts.  A store st is the record  *)
(* of IndexRoutes.  A view v is                                            *)
(*   sel       exact rows, pending ids or a pending residual               *)
(*   filter    a file's filter: none, pending, kept with its masks, or     *)
(*             resolved by a cut of the selection                          *)
(*   serve     the plan the view is read through, or NoPlan                *)
(*   indexed   its indexes are probed                                      *)
(***************************************************************************)
EXTENDS SplitScans

CONSTANTS INDEX_ROUTING_MIN_ROWS,    \* rows from which a narrowed run probes
          CHAIN_MIN_ROWS,            \* ids from which a pending match is named
          LOCATED_SET_ROWS_PER_CODE, \* rows per code a located keep needs
          KEEP_DECODE_ROWS_PER_ID,   \* rows a pass reads at a search's cost
          KEEP_PIECE_ROWS            \* rows of one piece of a pass

ASSUME ViewSizes ==
  /\ INDEX_ROUTING_MIN_ROWS \in Nat /\ CHAIN_MIN_ROWS \in Nat
  /\ {LOCATED_SET_ROWS_PER_CODE, KEEP_DECODE_ROWS_PER_ID, KEEP_PIECE_ROWS} \subseteq Nat \ {0}

-----------------------------------------------------------------------------
(* IdsNeed: what a view is matched for.  A reach beyond every row is       *)
(* usize::MAX.                                                             *)

Rows == [kind |-> "rows"]
Reaching(reach) == [kind |-> "window", reach |-> [some |-> TRUE, rows |-> reach]]
ReachingAll == [kind |-> "window", reach |-> [some |-> FALSE]]
CountOnly == [kind |-> "count"]

CountsOrWindows(need) == need.kind # "rows"
Windowed(need) == need.kind = "window" /\ need.reach.some

DefersResidual(need, rows) ==
  /\ \/ need.kind = "count"
     \/ Windowed(need) /\ need.reach.rows < rows
  /\ rows > FIRST_PIECE_ROWS

-----------------------------------------------------------------------------
(* ViewSelection                                                           *)

Exact(sel)   == [kind |-> "exact", sel |-> sel]
Pending(ids) == [kind |-> "pending", ids |-> ids, named |-> [some |-> FALSE]]
ResidualOf(sel, eqs) == [kind |-> "residual", sel |-> sel, eqs |-> eqs]

ResidualRows(st, vsel) == FilterRows(vsel.sel, Total(st), MatchingRows(st, vsel.eqs))

MaterializedSelection(st, vsel) ==
  CASE vsel.kind = "exact"    -> vsel.sel
    [] vsel.kind = "pending"  -> Ids(Materialized(st, vsel.ids))
    [] vsel.kind = "residual" -> Ids(ResidualRows(st, vsel))

SelLenIfKnown(st, vsel, filled) ==
  CASE vsel.kind = "exact"    -> [some |-> TRUE, len |-> SelLen(vsel.sel, Total(st))]
    [] vsel.kind = "pending"  -> LenIfKnown(st, vsel.ids, filled)
    [] vsel.kind = "residual" ->
         IF "sorted" \in filled THEN [some |-> TRUE, len |-> Len(ResidualRows(st, vsel))] ELSE Nowhere

(* Mutant of SelCount: the width of pending ids, tombstones or not.        *)
SelCountByWidth(st, vsel, filled) ==
  CASE vsel.kind = "exact"    -> [some |-> TRUE, len |-> LiveLen(vsel.sel, st.deleted, Total(st))]
    [] vsel.kind = "pending"  -> CountIds(st, vsel.ids, filled)
    [] vsel.kind = "residual" ->
         [some |-> TRUE, len |-> LiveLen(Ids(ResidualRows(st, vsel)), st.deleted, Total(st))]

(* ViewSelection::count: the live rows, as far as no file is read.         *)
SelCount(st, vsel, filled) ==
  CASE vsel.kind = "exact"    -> [some |-> TRUE, len |-> LiveLen(vsel.sel, st.deleted, Total(st))]
    [] vsel.kind = "pending"  ->
         IF st.deleted.some THEN LiveLenWithoutIo(st, vsel.ids, filled) ELSE CountIds(st, vsel.ids, filled)
    [] vsel.kind = "residual" ->
         [some |-> TRUE, len |-> LiveLen(Ids(ResidualRows(st, vsel)), st.deleted, Total(st))]

(* ViewSelection::count_capped, of what stops counting at its limit.       *)
SelCountCapped(st, vsel, limit) ==
  IF vsel.kind = "residual"
  THEN [some |-> TRUE, len |-> Least(Len(LiveRows(Ids(ResidualRows(st, vsel)), Total(st), st.deleted)), limit)]
  ELSE IF vsel.kind = "pending" /\ vsel.ids.kind = "checked" /\ ~st.deleted.some
  THEN [some |-> TRUE, len |-> Least(Len(SourceOrder(st, vsel.ids)), limit)]
  ELSE Nowhere

(* ViewSelection::window: a page of pending ids found before the rest.     *)
SelWindow(st, vsel, offset, limit) ==
  IF vsel.kind = "residual"
  THEN [some |-> TRUE, sel |-> FromIds(Page(LiveRows(Ids(ResidualRows(st, vsel)), Total(st), st.deleted),
                                            offset, limit))]
  ELSE IF vsel.kind = "pending" /\ ~st.deleted.some /\ Cuttable(vsel.ids)
  THEN [some |-> TRUE, sel |-> FromIds(WindowIds(st, vsel.ids, offset, limit))]
  ELSE Nowhere

-----------------------------------------------------------------------------
(* FileFilter                                                              *)

NoFilter == [kind |-> "none"]
PendingFilter(conjuncts) ==
  IF conjuncts = {} THEN NoFilter ELSE [kind |-> "pending", conjuncts |-> conjuncts]

OverSelection(filter) == IF filter.kind \in {"pending", "kept"} THEN filter.conjuncts ELSE {}
HasFilter(v) == OverSelection(v.filter) # {}

(* FileFilter::pins: columns every row is known to hold the code in.       *)
Pins(st, filter) ==
  IF st.codes /\ filter.kind \in {"kept", "resolved"} THEN filter.conjuncts ELSE {}

DerivedFilter(filter) == PendingFilter(OverSelection(filter))
ResolvedFilter(st, filter) ==
  IF OverSelection(filter) # {} /\ st.codes
  THEN [kind |-> "resolved", conjuncts |-> OverSelection(filter)] ELSE NoFilter

-----------------------------------------------------------------------------
(* QuadsSource: views derived from a view                                  *)

EveryRow == [sel |-> Exact(All), filter |-> NoFilter, serve |-> NoPlan, indexed |-> TRUE]

WithSelection(v, vsel) ==
  [v EXCEPT !.sel = vsel, !.filter = DerivedFilter(@), !.serve = NoPlan]
WithFilterResolved(st, v) == [v EXCEPT !.filter = ResolvedFilter(st, @)]
EmptyView(st, v) == [WithSelection(v, Exact(Empty)) EXCEPT !.indexed = @ /\ st.file]
Unrestricted(v) == [v EXCEPT !.sel = Exact(All), !.filter = NoFilter, !.serve = NoPlan]

WithEvaluatedMasks(v, masks) ==
  [v EXCEPT !.filter = [kind |-> "kept", conjuncts |-> OverSelection(v.filter), masks |-> masks]]

IsUnrefined(v) == ~HasFilter(v) /\ v.sel = Exact(All)
PendingWithoutPlan(v) == v.sel.kind # "exact" /\ ~v.serve.some

-----------------------------------------------------------------------------
(* Serve plans                                                             *)

RangeSpan(run) == [kind |-> "range", run |-> run]
KeptSpan(rows) == [kind |-> "kept", rows |-> rows]

(* ServedRows: places of the child and the base rows there.                *)
ServedAt(st, plan, places) ==
  [i \in DOMAIN places |-> [at |-> places[i], rid |-> st.comps[plan.name][places[i] + 1].rid]]
LiveOf(st, rows) == SelectSeq(rows, LAMBDA row : row.rid \notin st.deleted.rows)
RidsIn(rows) == [i \in DOMAIN rows |-> rows[i].rid]

(* read_run_rows: what an unlocated plan's constraints keep of its child.  *)
ConstrainedPlaces(st, plan) ==
  LET child == st.comps[plan.name]
  IN SelectSeq(Run(0, Len(child)), LAMBDA i : SatisfiesOn(child[i + 1].cols, plan.eqs))

IsNarrowed(plan) == plan.narrowed.kind # "none"

(* The span a plan reads without scanning its child for it.                *)
KnownSpan(plan) ==
  IF IsNarrowed(plan) THEN [some |-> TRUE, span |-> plan.narrowed]
  ELSE IF plan.located.some THEN [some |-> TRUE, span |-> RangeSpan(plan.located.run)] ELSE Nowhere

(* located_span: a contiguous run stands for itself, other rows are listed *)
(* as they are live.                                                       *)
LocatedSpan(st, plan) ==
  LET places == ConstrainedPlaces(st, plan)
  IN IF KnownSpan(plan).some THEN KnownSpan(plan).span
     ELSE IF places # <<>> /\ places[Len(places)] - places[1] + 1 = Len(places)
     THEN RangeSpan(<<places[1], places[Len(places)] + 1>>)
     ELSE KeptSpan(LiveOf(st, ServedAt(st, plan, places)))

SpanLen(span) == IF span.kind = "range" THEN Width(span.run) ELSE Len(span.rows)

(* The rows of a span that are live, in the child's order.                 *)
SpanRows(st, plan, span) ==
  IF span.kind = "kept" THEN span.rows
  ELSE LiveOf(st, ServedAt(st, plan, Run(span.run[1], span.run[2])))

(* LiveRows: a run without tombstones needs no list.                       *)
PlanLive(st, plan, span) ==
  IF span.kind = "range" /\ ~st.deleted.some THEN [kind |-> "range", run |-> span.run]
  ELSE [kind |-> IF span.kind = "kept" THEN "kept" ELSE "spanned", rows |-> SpanRows(st, plan, span)]

LiveCount(live) == IF live.kind = "range" THEN Width(live.run) ELSE Len(live.rows)

SliceLive(live, a, b) ==
  IF live.kind = "range" THEN [live EXCEPT !.run = <<@[1] + a, @[1] + b>>]
  ELSE [live EXCEPT !.rows = Sublist(@, a, b)]

(* into_span: what a narrowed plan reads, and the same rows' ids.          *)
IntoSpan(st, plan, live) ==
  CASE live.kind = "range" ->
         [span |-> RangeSpan(live.run),
          ids  |-> IF st.file THEN LocatedIds(plan.name, live.run, FALSE)
                   ELSE UnsortedIds(RidsOf(st.comps[plan.name], live.run))]
    [] live.kind = "spanned" ->
         [span |-> RangeSpan(<<live.rows[1].at, live.rows[Len(live.rows)].at + 1>>),
          ids  |-> UnsortedIds(RidsIn(live.rows))]
    [] live.kind = "kept" -> [span |-> KeptSpan(live.rows), ids |-> UnsortedIds(RidsIn(live.rows))]

(* Served::narrowed                                                        *)
NarrowedTo(st, v, live) ==
  LET into == IntoSpan(st, v.serve, live)
  IN [v EXCEPT !.sel = Pending(into.ids), !.serve = [@ EXCEPT !.narrowed = into.span],
               !.filter = ResolvedFilter(st, @)]

(* rows_where: a plan's live rows a pattern holds of.                      *)
RowsWhere(st, plan, p) ==
  SelectSeq(SpanRows(st, plan, LocatedSpan(st, plan)),
            LAMBDA row : SatisfiesOn(st.comps[plan.name][row.at + 1].cols, p))

(* served_kept                                                             *)
ServedKept(st, v, rows) ==
  IF rows = <<>> THEN EmptyView(st, v) ELSE NarrowedTo(st, v, [kind |-> "kept", rows |-> rows])

(* The rows a plan reads, the tombstoned ones of a run or a scan dropped.  *)
PlannedRows(st, plan, known) ==
  IF known.some THEN SpanRows(st, plan, known.span)
  ELSE LiveOf(st, ServedAt(st, plan, ConstrainedPlaces(st, plan)))

(* A file's few rows are read as points, the constraints filled in.        *)
PlanPins(st, plan, known) ==
  IF st.file /\ st.codes /\ known.some /\ (known.span.kind = "kept" \/ PointSized(SpanLen(known.span)))
  THEN ConjunctsOf(plan.eqs) ELSE {}

(* read: the quads a plan reads, in its child's order.                     *)
PlanRead(st, plan) ==
  LET known == KnownSpan(plan)
      rows == PlannedRows(st, plan, known)
      pins == PlanPins(st, plan, known)
  IN [i \in DOMAIN rows |-> FilledRow(st.comps[plan.name][rows[i].at + 1].cols, pins)]
=============================================================================
