----------------------------- MODULE ViewQueries -----------------------------
(***************************************************************************)
(* The operations on a view of ViewRoutes: matching a pattern, cutting a   *)
(* window, keeping a column's codes, splitting into partitions, counting,  *)
(* and reading the rows.                                                   *)
(***************************************************************************)
EXTENDS ViewRoutes

-----------------------------------------------------------------------------
(* Matching                                                                *)

(* Mutant of FoldRowIds: lazy ids are never waited for.                    *)
FoldRowIdsDeferred(st, sel, rowIds, defer) ==
  IF rowIds.lazy THEN Pending(rowIds.ids) ELSE Exact(IntersectIds(sel, rowIds.ids))

(* fold_row_ids                                                            *)
FoldRowIds(st, sel, rowIds, defer) ==
  IF rowIds.lazy /\ defer THEN Pending(rowIds.ids)
  ELSE Exact(IntersectIds(sel, IF rowIds.lazy THEN Materialized(st, rowIds.ids) ELSE rowIds.ids))

(* prefix_probe: the subject's run of the sorted base, then the roles      *)
(* behind it where they are codes and the selection is that run.           *)
PrefixProbe(st, sel, p) ==
  LET subject == BaseBounds(st, "s", p["s"], <<0, Total(st)>>)
      cut == IntersectRange(sel, subject[1], subject[2])
      behind == PrefixRun(st, Unbind(p, {"s"}), <<cut.start, cut.end>>)
  IN IF "s" \notin DOMAIN p \/ ~st.sorted THEN [sel |-> sel, left |-> p, narrowed |-> FALSE]
     ELSE IF cut.kind = "range" /\ st.codes
     THEN [sel |-> RangeOf(behind.run[1], behind.run[2]), left |-> Unbind(p, {"s"} \cup behind.answered),
           narrowed |-> TRUE]
     ELSE [sel |-> cut, left |-> Unbind(p, {"s"}), narrowed |-> TRUE]

(* Selected rows that passed a test: all of them leave the selection be.   *)
Survivors(st, sel, kept) ==
  IF kept # <<>> /\ Len(kept) = SelLen(sel, Total(st)) THEN sel ELSE FromIds(kept)

(* residual_narrow                                                         *)
ResidualNarrow(st, sel, eqs, need) ==
  IF DefersResidual(need, SelLen(sel, Total(st))) THEN ResidualOf(sel, eqs)
  ELSE Exact(Survivors(st, sel, FilterRows(sel, Total(st), MatchingRows(st, eqs))))

(* Mutant of MemoryNarrowed: the plan is kept beside a residual.           *)
MemoryNarrowedServed(st, v, left, sel, serve, need) ==
  LET compares == sel.kind = "exact" /\ DOMAIN left # {} /\ SelLen(sel.sel, Total(st)) > 0
  IN [v EXCEPT !.sel = IF compares THEN ResidualNarrow(st, sel.sel, left, need) ELSE sel, !.serve = serve]

(* What the index left unanswered is compared; a plan covers the rows of   *)
(* the index alone.                                                        *)
MemoryNarrowed(st, v, left, sel, serve, need) ==
  LET compares == sel.kind = "exact" /\ DOMAIN left # {} /\ SelLen(sel.sel, Total(st)) > 0
  IN [v EXCEPT !.sel = IF compares THEN ResidualNarrow(st, sel.sel, left, need) ELSE sel,
               !.serve = IF compares THEN NoPlan ELSE serve]

(* The resolution of a match's index, folded into the rows before it;      *)
(* `alone' where nothing else narrowed these.                              *)
MemoryAnswered(st, v, probed, alone, answer, need) ==
  LET left == Unbind(probed.left, answer.resolves)
      defer == alone /\ DOMAIN left = {} /\ (answer.serve.some \/ CountsOrWindows(need))
  IN CASE answer.kind = "empty"    -> EmptyView(st, v)
       [] answer.kind = "declined" -> MemoryNarrowed(st, v, probed.left, Exact(probed.sel), NoPlan, need)
       [] answer.kind = "resolved" ->
            MemoryNarrowed(st, v, left, FoldRowIds(st, probed.sel, answer.rowIds, defer),
                           IF alone THEN answer.serve ELSE NoPlan, need)

(* A run the prefix narrowed to few rows is not worth an index.            *)
MemoryProbed(st, v, before, probed, need) ==
  LET rows == SelLen(probed.sel, Total(st))
      worth == IF probed.narrowed THEN rows >= INDEX_ROUTING_MIN_ROWS ELSE TRUE
      asks == rows > 0 /\ DOMAIN probed.left # {} /\ worth /\ v.indexed
  IN MemoryAnswered(st, v, probed, before.kind = "all" /\ ~probed.narrowed,
                    IF asks THEN ResolveIndexes(st, probed.left, Windowed(need)) ELSE Declined, need)

(* match_base_in_memory                                                    *)
MatchInMemory(st, v, p, need) ==
  LET before == MaterializedSelection(st, v.sel)
  IN MemoryProbed(st, v, before, PrefixProbe(st, before, p), need)

(* The index is all that narrows the file.                                 *)
KeepsServe(v, subject) == ~HasFilter(v) /\ v.sel = Exact(All) /\ ~subject.some

(* The rows an index resolved of a file, within the subject's run.         *)
ResolvedSelection(st, v, answer, subject, defer) ==
  LET folded == FoldRowIds(st, MaterializedSelection(st, v.sel), answer.rowIds, defer)
  IN IF folded.kind = "exact" /\ subject.some
     THEN Exact(IntersectRange(folded.sel, subject.run[1], subject.run[2])) ELSE folded

(* What no index resolved: the subject's run, else what the zone maps      *)
(* leave of the filter.                                                    *)
UnresolvedSelection(st, v, subject, filter) ==
  LET run == IF subject.some THEN subject
             ELSE IF filter # {} THEN PruningEnvelope(st, filter) ELSE Nowhere
      before == MaterializedSelection(st, v.sel)
  IN Exact(IF run.some THEN IntersectRange(before, run.run[1], run.run[2]) ELSE before)

(* A filter over few ids is checked at them.                               *)
FileNarrowed(st, v, filter, sel, serve) ==
  LET points == sel.kind = "exact" /\ sel.sel.kind = "ids" /\ filter # {} /\ PointFilters(st, sel.sel.ids)
      held == SelectSeq(sel.sel.ids, LAMBDA row : HoldsOn(BaseRow(st, row), filter))
      none == IF points THEN held = <<>> ELSE sel.kind = "exact" /\ SelLen(sel.sel, Total(st)) = 0
  IN IF none THEN EmptyView(st, v)
     ELSE [v EXCEPT !.sel = IF points THEN Exact(Ids(held)) ELSE sel, !.serve = serve,
                    !.filter = PendingFilter(IF points THEN {} ELSE filter)]

FileAnswered(st, v, subject, answer, need) ==
  LET left == Unbind(subject.left, answer.resolves)
      serve == IF KeepsServe(v, subject) THEN answer.serve ELSE NoPlan
      counted == /\ CountsOrWindows(need) /\ KeepsServe(v, subject) /\ DOMAIN left = {}
                 /\ answer.rowIds.lazy /\ LenIfKnown(st, answer.rowIds.ids, {}).some
      Filter(rest) == OverSelection(v.filter) \cup ConjunctsOf(rest)
  IN CASE answer.kind = "empty"    -> EmptyView(st, v)
       [] answer.kind = "declined" ->
            FileNarrowed(st, v, Filter(subject.left),
                         UnresolvedSelection(st, v, subject, Filter(subject.left)), NoPlan)
       [] answer.kind = "resolved" ->
            FileNarrowed(st, v, Filter(left),
                         ResolvedSelection(st, v, answer, subject, serve.some \/ counted), serve)

(* A located subject with few rows is not worth an index.                  *)
FileLocated(st, v, subject, need) ==
  LET worth == IF subject.some THEN Width(subject.run) >= INDEX_ROUTING_MIN_ROWS ELSE TRUE
  IN FileAnswered(st, v, subject,
                  IF worth /\ v.indexed THEN ResolveIndexes(st, subject.left, FALSE) ELSE Declined, need)

(* match_base_file                                                         *)
MatchFile(st, v, p, need) == FileLocated(st, v, LocateSubject(st, p), need)

(* served_chain: a pattern over a narrowed served view filters its rows in *)
(* the index's order.                                                      *)
ServedChain(st, v, p) ==
  IF DOMAIN p = {} THEN v ELSE ServedKept(st, v, RowsWhere(st, v.serve, p))

(* A match of a view every row of the base is in keeps its pattern beside  *)
(* the ids it left pending, where these are many.                          *)
NamedBy(st, v, m, p, need) ==
  LET known == LenIfKnown(st, m.sel.ids, {})
  IN IF IsUnrefined(v) /\ ~CountsOrWindows(need) /\ m.sel.kind = "pending"
        /\ (known.some => known.len >= CHAIN_MIN_ROWS)
     THEN [m EXCEPT !.sel.named = [some |-> TRUE, pattern |-> p]] ELSE m

(* match_base of a view that is not chained.                               *)
MatchOnce(st, v, p, need) ==
  IF st.codes /\ \E c \in DOMAIN p : p[c] = Absent THEN EmptyView(st, v)
  ELSE IF v.serve.some /\ IsNarrowed(v.serve) THEN ServedChain(st, v, p)
  ELSE NamedBy(st, v, IF st.file THEN MatchFile(st, v, p, need) ELSE MatchInMemory(st, v, p, need), p, need)

(* OwnedQuadPattern::and                                                   *)
Agree(p, q) == \A c \in DOMAIN p \cap DOMAIN q : p[c] = q[c]
Both(p, q) == [c \in DOMAIN p \cup DOMAIN q |-> IF c \in DOMAIN p THEN p[c] ELSE q[c]]

(* A chained match leaves ids in base order where rows are read.           *)
ChainSettled(st, m, need) ==
  IF CountsOrWindows(need) THEN m ELSE WithSelection(m, Exact(MaterializedSelection(st, m.sel)))

(* match_base and match_both: a match over named pending ids is one of     *)
(* both patterns over every row.                                           *)
MatchBase(st, v, p, need) ==
  LET chained == IF v.sel.kind = "pending" /\ v.sel.named.some THEN Agree(v.sel.named.pattern, p) ELSE FALSE
  IN IF chained THEN ChainSettled(st, MatchOnce(st, Unrestricted(v), Both(v.sel.named.pattern, p), need), need)
     ELSE MatchOnce(st, v, p, need)

-----------------------------------------------------------------------------
(* Windows                                                                 *)

(* reads_masks_first                                                       *)
ReadsMasksFirst(st, v) ==
  /\ st.file /\ v.filter.kind = "pending" /\ ~v.serve.some
  /\ v.sel.kind = "exact" /\ ReadsMasks(st, v.filter.conjuncts, v.sel.sel)

(* base_rows and upper_bound: the live rows where they are known, else the *)
(* selected ones; tombstones are counted where the selected rows overflow. *)
RowsUpTo(st, v, limit, filled) ==
  LET known == SelLenIfKnown(st, v.sel, filled)
      selected == IF known.some THEN known.len ELSE Total(st)
      live == IF ~st.deleted.some THEN known
              ELSE IF selected > limit THEN SelCount(st, v.sel, filled) ELSE Nowhere
  IN IF v.filter.kind = "kept" THEN KeptCount(v.filter.masks)
     ELSE IF live.some THEN live.len ELSE selected

(* window_check                                                            *)
CannotCut(st, v, offset, limit, filled) ==
  /\ offset = 0 /\ ~PendingWithoutPlan(v) /\ ~ReadsMasksFirst(st, v)
  /\ RowsUpTo(st, v, limit, filled) <= limit

(* served_window_of                                                        *)
ServedWindow(st, v, offset, limit) ==
  LET live == PlanLive(st, v.serve, LocatedSpan(st, v.serve))
      page == WindowRows(offset, limit, LiveCount(live))
  IN IF page = <<0, 0>> THEN WithSelection(v, Exact(Empty))
     ELSE NarrowedTo(st, v, SliceLive(live, page[1], page[2]))

(* Masks are kept where they hold every match.                             *)
KeepsMasks(st, masks, limit) == KeptCount(masks) < limit /\ SmallerThanIds(masks) /\ st.codes

(* filter_window                                                           *)
FilterWindow(st, v, limit) ==
  LET masks == IF v.filter.kind = "kept" THEN v.filter.masks
               ELSE SplitMasksUntil(st, v.filter.conjuncts, v.sel.sel, st.deleted, limit)
  IN IF KeepsMasks(st, masks, limit) THEN WithEvaluatedMasks(v, masks)
     ELSE WithFilterResolved(st, WithSelection(v, Exact(FromIds(FirstIds(st, masks, limit)))))

(* base_window                                                             *)
BaseWindow(st, v, offset, limit) ==
  LET sel == MaterializedSelection(st, v.sel)
      found == IF v.filter.kind = "kept" THEN FirstIds(st, v.filter.masks, offset + limit)
               ELSE FirstMatchingRows(st, v.filter.conjuncts, sel, st.deleted, offset + limit)
  IN IF HasFilter(v) THEN Window(Ids(found), offset, limit, NoMask, Total(st))
     ELSE Window(sel, offset, limit, st.deleted, Total(st))

(* located_window, else base_window.                                       *)
ExactWindow(st, v, offset, limit) ==
  LET located == IF HasFilter(v) THEN Nowhere ELSE SelWindow(st, v.sel, offset, limit)
  IN WithFilterResolved(st, WithSelection(v, Exact(IF located.some THEN located.sel
                                                   ELSE BaseWindow(st, v, offset, limit))))

(* window                                                                  *)
WindowOf(st, v, offset, limit, filled) ==
  IF CannotCut(st, v, offset, limit, filled) THEN v
  ELSE IF v.serve.some THEN ServedWindow(st, v, offset, limit)
  ELSE IF offset = 0 /\ v.sel.kind = "exact" /\ HasFilter(v) THEN FilterWindow(st, v, limit)
  ELSE ExactWindow(st, v, offset, limit)

-----------------------------------------------------------------------------
(* Keeps                                                                   *)

(* Keep: an ascending set of codes, or the codes of lo..hi.                *)
KeepSet(codes)     == [kind |-> "set", codes |-> codes]
KeepRange(lo, hi)  == [kind |-> "range", lo |-> lo, hi |-> Greatest(lo, hi)]
KeepsNothing(keep) == IF keep.kind = "set" THEN keep.codes = <<>> ELSE keep.hi <= keep.lo
Admits(keep, term) ==
  IF keep.kind = "set" THEN term \in Members(keep.codes) ELSE keep.lo <= term /\ term < keep.hi

(* kept_rows: memory tests the base's column, a file its child's.          *)
KeptRows(st, plan, column, keep) ==
  LET child == st.comps[plan.name]
      Term(row) == IF st.file THEN child[row.at + 1].cols[column] ELSE BaseRow(st, row.rid)[column]
  IN SelectSeq(SpanRows(st, plan, LocatedSpan(st, plan)), LAMBDA row : Admits(keep, Term(row)))

(* served_keep                                                             *)
ServedKeep(st, v, column, keep) == ServedKept(st, v, KeptRows(st, v.serve, column, keep))

Log2(n) == CHOOSE k \in 0..n : 2^k <= n /\ n < 2^(k + 1)

(* The runs of a set's codes, each searched from the end of the last.      *)
CodeRuns(st, column, window, codes) ==
  LET Step[k \in 0..Len(codes)] ==
        IF k = 0 THEN [from |-> window[1], out |-> <<>>]
        ELSE LET before == Step[k - 1]
                 run == BaseBounds(st, column, codes[k], <<before.from, window[2]>>)
             IN IF before.from >= window[2] THEN before
                ELSE [from |-> run[2], out |-> IF Width(run) = 0 THEN before.out ELSE Append(before.out, run)]
  IN Step[Len(codes)].out

(* located_runs: a set is searched only where that beats a pass.           *)
LocatedRuns(st, column, window, keep, selected) ==
  LET start == BaseBounds(st, column, keep.lo, window)[1]
      end == BaseBounds(st, column, keep.hi, <<start, window[2]>>)[1]
      searches == Len(keep.codes) * (Log2(Greatest(Width(window), 1)) + 1)
      pass == IF PointSized(selected) THEN selected ELSE selected \div KEEP_DECODE_ROWS_PER_ID
  IN IF keep.kind = "range" THEN [some |-> TRUE, runs |-> << <<start, end>> >>]
     ELSE IF searches >= pass THEN Nowhere
     ELSE [some |-> TRUE, runs |-> CodeRuns(st, column, window, keep.codes)]

Earlier(column) == CASE column = "s" -> {} [] column = "p" -> {"s"}
                     [] column = "o" -> {"s", "p"} [] column = "g" -> {"s", "p", "o"}

(* A run is sorted by a column where every earlier one is constant in it.  *)
SortedWithin(st, rows, column) ==
  \A c \in Earlier(column) : BaseRow(st, rows[1])[c] = BaseRow(st, rows[Len(rows)])[c]

(* keep_sorted_run                                                         *)
KeepSortedRun(st, sel, column, keep) ==
  LET rows == AsRows(sel, Total(st))
      run == <<rows[1], rows[Len(rows)] + 1>>
      runs == IF ~st.sorted THEN Nowhere
              ELSE IF sel.kind # "ids"
              THEN IF SortedWithin(st, rows, column) THEN LocatedRuns(st, column, run, keep, Width(run)) ELSE Nowhere
              ELSE IF column = "s" THEN LocatedRuns(st, column, <<0, Total(st)>>, keep, Len(rows)) ELSE Nowhere
  IN IF runs.some THEN [some |-> TRUE, sel |-> IntersectRuns(sel, runs.runs)] ELSE Nowhere

(* keep_by_pieces: listed ids are taken piece by piece with a cursor.      *)
KeptByPieces(st, sel, column, keep) ==
  LET n == Total(st)
      rows == AsRows(sel, n)
      listed == sel.kind = "ids"
      last == IF listed THEN n ELSE rows[Len(rows)] + 1
      first == IF listed THEN 0 ELSE rows[1]
      Step[k \in 0..Per(n, KEEP_PIECE_ROWS)] ==
        IF k = 0 THEN [next |-> 0, kept |-> <<>>]
        ELSE LET before == Step[k - 1]
                 start == (k - 1) * KEEP_PIECE_ROWS
                 end == Least(n, start + KEEP_PIECE_ROWS)
                 next == IF listed THEN before.next + Below(Sublist(rows, before.next, Len(rows)), end) ELSE 0
                 piece == IF listed THEN Sublist(rows, before.next, next)
                          ELSE Run(Greatest(first, start), Least(last, end))
             IN IF start >= last \/ (listed /\ before.next = Len(rows)) THEN before
                ELSE [next |-> next,
                      kept |-> before.kept \o SelectSeq(piece, LAMBDA row : Admits(keep, BaseRow(st, row)[column]))]
  IN Step[Per(n, KEEP_PIECE_ROWS)].kept

(* keep_by_pass                                                            *)
KeepByPass(st, sel, column, keep) ==
  Survivors(st, sel,
            IF SelPointSized(sel)
            THEN SelectSeq(AsRows(sel, Total(st)), LAMBDA row : Admits(keep, BaseRow(st, row)[column]))
            ELSE KeptByPieces(st, sel, column, keep))

(* keep_in_memory, of a nonempty selection.                                *)
KeepInMemory(st, v, sel, column, keep) ==
  LET sorted == KeepSortedRun(st, sel, column, keep)
      narrowed == IF sorted.some THEN sorted.sel ELSE KeepByPass(st, sel, column, keep)
  IN IF SelLen(narrowed, Total(st)) = 0 THEN EmptyView(st, v) ELSE WithSelection(v, Exact(narrowed))

(* keep_located, set_is_located                                            *)
KeepLocated(st, sel, column, keep) ==
  LET range == LocateCodeRange(st, keep.lo, keep.hi)
  IN IF column # "s" \/ ~SubjectSearchable(st) THEN Nowhere
     ELSE IF keep.kind = "range" THEN [some |-> TRUE, sel |-> IntersectRange(sel, range[1], range[2])]
     ELSE IF Len(keep.codes) <= Per(SelLen(sel, Total(st)), LOCATED_SET_ROWS_PER_CODE)
     THEN [some |-> TRUE, sel |-> IntersectRuns(sel, LocateCodeRuns(st, keep.codes))]
     ELSE Nowhere

(* keep_file, of a nonempty selection: a pass answers the filter too.      *)
KeepFile(st, v, sel, column, keep) ==
  LET located == KeepLocated(st, sel, column, keep)
      terms == {term \in {BaseRow(st, row)[column] : row \in Interval(0, Total(st))} : Admits(keep, term)}
      kept == KeptFileRows(st, OverSelection(v.filter), sel, column, terms)
      narrowed == IF located.some THEN located.sel ELSE NarrowToIds(sel, kept, SelLen(sel, Total(st)))
  IN IF SelLen(narrowed, Total(st)) = 0 THEN EmptyView(st, v)
     ELSE [v EXCEPT !.sel = Exact(narrowed), !.serve = NoPlan,
                    !.filter = IF located.some THEN DerivedFilter(@) ELSE NoFilter]

(* keep, of a dictionary layout.                                           *)
KeepOf(st, v, column, keep) ==
  LET sel == MaterializedSelection(st, v.sel)
  IN IF KeepsNothing(keep) THEN EmptyView(st, v)
     ELSE IF v.serve.some THEN ServedKeep(st, v, column, keep)
     ELSE IF SelLen(sel, Total(st)) = 0 THEN EmptyView(st, v)
     ELSE IF st.file THEN KeepFile(st, v, sel, column, keep)
     ELSE KeepInMemory(st, v, sel, column, keep)

-----------------------------------------------------------------------------
(* Partitions                                                              *)

(* served_partitions_of                                                    *)
ServedPartitions(st, v, live, n) ==
  LET rows == LiveCount(live)
      size == Per(rows, n)
  IN [i \in 1..Per(rows, size) |->
        NarrowedTo(st, v, SliceLive(live, (i - 1) * size, Least(i * size, rows)))]

(* partitions                                                              *)
PartitionsOf(st, v, n) ==
  LET live == PlanLive(st, v.serve, LocatedSpan(st, v.serve))
      pieces == Split(MaterializedSelection(st, v.sel), n, Total(st))
  IN IF n = 1 THEN <<v>>
     ELSE IF v.serve.some /\ LiveCount(live) > 0 THEN ServedPartitions(st, v, live, n)
     ELSE IF pieces = <<>> THEN <<v>>
     ELSE [i \in DOMAIN pieces |-> WithSelection(v, Exact(pieces[i]))]

-----------------------------------------------------------------------------
(* Counts and reads                                                        *)

(* base_size                                                               *)
SizeOf(st, v, filled) ==
  LET sel == MaterializedSelection(st, v.sel)
      counted == SelCount(st, v.sel, filled)
  IN IF v.filter.kind = "kept" THEN KeptCount(v.filter.masks)
     ELSE IF ~HasFilter(v) /\ counted.some THEN counted.len
     ELSE IF v.filter.kind = "pending" THEN CountMatchingRows(st, v.filter.conjuncts, sel, st.deleted)
     ELSE LiveLen(sel, st.deleted, Total(st))

(* size_capped                                                             *)
SizeCapped(st, v, limit, filled) ==
  LET capped == SelCountCapped(st, v.sel, limit)
  IN IF limit = 0 THEN 0
     ELSE IF v.filter.kind = "kept" THEN Least(KeptCount(v.filter.masks), limit)
     ELSE IF ~HasFilter(v) /\ capped.some THEN capped.len
     ELSE IF v.filter.kind = "pending"
     THEN CountMatchingRowsCapped(st, v.filter.conjuncts, MaterializedSelection(st, v.sel), st.deleted, limit)
     ELSE Least(SizeOf(st, v, filled), limit)

(* read_order: what the view claims of its rows.                           *)
ReadOrder(st, v) == IF v.serve.some THEN v.serve.order ELSE IF st.sorted THEN "spog" ELSE "none"

(* The quads a view reads: through its plan, from kept masks, or its exact *)
(* rows under the filter still pending.                                    *)
ReadRows(st, v) ==
  LET live == LiveRows(v.sel.sel, Total(st), st.deleted)
      pending == IF v.filter.kind = "pending" THEN v.filter.conjuncts ELSE {}
      exact == ExactRows(st, pending, v.sel.sel, st.deleted)
  IN IF v.serve.some THEN PlanRead(st, v.serve)
     ELSE IF ~st.file THEN [i \in DOMAIN live |-> BaseRow(st, live[i])]
     ELSE IF v.filter.kind = "kept" THEN MaskedRows(st, v.filter.masks, Pins(st, v.filter))
     ELSE [i \in DOMAIN exact |-> FilledRow(exact[i], Pins(st, v.filter))]
=============================================================================
