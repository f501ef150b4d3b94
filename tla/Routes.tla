------------------------------- MODULE Routes -------------------------------
(***************************************************************************)
(* One caller's chain of operations on a store's base, on whichever        *)
(* backend, layout and indexes the store has: matches, windows, keeps and  *)
(* partitions, each deriving the next view from the last.  `rows' is what  *)
(* the view should hold, as a list of base rows: it is computed from the   *)
(* quads alone, and only its order is the view's to choose.                *)
(*                                                                         *)
(* A view matched for its rows may be read, matched again, windowed, kept  *)
(* or partitioned; one matched for a window or a count is only windowed or *)
(* counted, or kept where the match reaches every row.                     *)
(***************************************************************************)
EXTENDS ViewQueries

CONSTANTS Stores,      \* the stores a chain may start from
          Patterns,    \* the patterns matched
          Keeps,       \* the keeps applied, of any column
          Pages,       \* the windows cut, as <<offset, limit>>
          MaxRows,     \* the largest reach, and limit of a count
          Parts        \* the numbers of partitions

VARIABLES store,       \* the store, never changed
          view,        \* the view derived last
          need,        \* what it was matched for
          rows         \* the base rows it should hold, in order

vars == <<store, view, need, rows>>

(* What a view may be matched for.                                         *)
Needs == {Rows, ReachingAll, CountOnly} \cup {Reaching(reach) : reach \in 1..MaxRows}

(* Once-cells of pending ids another clone of the view may have filled.    *)
Cells == {{}, {"count"}, {"sorted"}}

-----------------------------------------------------------------------------
(* What a view should hold                                                 *)

QuadsAt(st, rids) == [i \in DOMAIN rids |-> BaseRow(st, rids[i])]

SortColumns(order) == IF order = "posg" THEN KeyOrder["posg"] ELSE Columns

(* A set of rows as a view reads it: in its plan's order, else the base's. *)
InOrder(st, v, R) ==
  IF v.serve.some
  THEN LET columns == SortColumns(v.serve.order)
       IN Seqs!SetToSortSeq(R, LAMBDA a, b : LexLess(Key(columns, BaseRow(st, a)), Key(columns, BaseRow(st, b))))
  ELSE SelectSeq(Run(0, Total(st)), LAMBDA row : row \in R)

-----------------------------------------------------------------------------
Init ==
  /\ store \in Stores
  /\ view = EveryRow
  /\ need = Rows
  /\ rows = SelectSeq(Run(0, Total(store)), LAMBDA row : row \notin store.deleted.rows)

(* match_pattern, and a probe's match for what a window or a count will    *)
(* take of it (match_pattern_for): the rows the pattern holds of.          *)
MatchFor(p, wanted) ==
  /\ need = Rows
  /\ view' = MatchBase(store, view, p, wanted)
  /\ need' = wanted
  /\ rows' = InOrder(store, view', {row \in Members(rows) : SatisfiesOn(BaseRow(store, row), p)})
  /\ UNCHANGED store

(* window: within the reach the view was matched for.                      *)
CutWindow(offset, limit, filled) ==
  /\ need.kind \in {"rows", "window"}
  /\ Windowed(need) => offset + limit <= need.reach.rows
  /\ view' = WindowOf(store, view, offset, limit, filled)
  /\ need' = Rows
  /\ rows' = Page(rows, offset, limit)
  /\ UNCHANGED store

(* keep                                                                    *)
Keep(column, keep) ==
  /\ store.codes
  /\ need \in {Rows, ReachingAll}
  /\ view' = KeepOf(store, view, column, keep)
  /\ rows' = SelectSeq(rows, LAMBDA row : Admits(keep, BaseRow(store, row)[column]))
  /\ UNCHANGED <<store, need>>

(* partitions: one of the pieces, the last one holding all that is left.   *)
Partition(n, i) ==
  LET pieces == PartitionsOf(store, view, n)
      Before[k \in 0..Len(pieces)] ==
        IF k = 0 THEN 0 ELSE Before[k - 1] + SizeOf(store, pieces[k], {})
  IN /\ need = Rows
     /\ i \in DOMAIN pieces
     /\ view' = pieces[i]
     /\ rows' = Sublist(rows, Before[i - 1], IF i = Len(pieces) THEN Len(rows) ELSE Before[i])
     /\ UNCHANGED <<store, need>>

Next ==
  \/ \E p \in Patterns, wanted \in Needs : MatchFor(p, wanted)
  \/ \E page \in Pages, filled \in Cells : CutWindow(page[1], page[2], filled)
  \/ \E column \in {"s", "p", "o", "g"}, keep \in Keeps : Keep(column, keep)
  \/ \E n \in Parts : \E i \in 1..n : Partition(n, i)

Spec == Init /\ [][Next]_vars

-----------------------------------------------------------------------------
(* Properties                                                              *)

(* A view that may be read yields exactly the quads it should, whichever   *)
(* way it is read: off a copy, from kept masks, by points, by a filtered   *)
(* scan or from memory (read_quads over ServePlan, ExactRead and           *)
(* SplitMasks).  They come in the order the view claims (read_order), so a *)
(* caller that merges or searches by it is right to.                       *)
ReadsExact ==
  LET read == ReadRows(store, view)
      claimed == ReadOrder(store, view)
      columns == SortColumns(claimed)
  IN need = Rows =>
       /\ read = QuadsAt(store, rows)
       /\ claimed # "none" =>
            \A i \in 2..Len(read) : LexLess(Key(columns, read[i - 1]), Key(columns, read[i]))

(* Every count of a view is the number of its rows, whatever was left      *)
(* pending and whichever cells a clone has filled: size, size_capped at    *)
(* any limit, and the bound a window check relies on (base_rows).          *)
CountsAgree ==
  \A filled \in Cells :
    /\ SizeOf(store, view, filled) = Len(rows)
    /\ \A limit \in 0..MaxRows :
         /\ SizeCapped(store, view, limit, filled) = Least(Len(rows), limit)
         /\ RowsUpTo(store, view, limit, filled) >= Len(rows)

(* The ids a view resolves to (materialized_selection, which a delete or a *)
(* chained match uses) are the rows its plan reads: a plan that outlives a *)
(* narrowing, or ids that miss one, would make them differ.                *)
IdsAgree ==
  LET selected == Members(AsRows(MaterializedSelection(store, view.sel), Total(store)))
      held == {row \in selected \ store.deleted.rows : HoldsOn(BaseRow(store, row), OverSelection(view.filter))}
  IN held = Members(rows)

(* A view built for its rows is never left pending without a plan to read  *)
(* it through: the debug assertions of match_pattern_for and run_probe.    *)
Readable == need = Rows => ~PendingWithoutPlan(view)
=============================================================================
