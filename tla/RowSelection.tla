---------------------------- MODULE RowSelection ----------------------------
(***************************************************************************)
(* A view's selection through any chain of the operations a query applies: *)
(* matches narrow it by a searched range, an index's ids, a comparison's   *)
(* mask or an encoded set's runs, a window cuts it, a partition takes a    *)
(* piece, a compaction starts over.  `rows' is the reference: the set of   *)
(* rows the chain leaves, in terms of sets alone.                          *)
(***************************************************************************)
EXTENDS Selections

CONSTANTS N,           \* the table's length
          MaxOffset    \* the largest offset and limit of a window

ASSUME LengthAssumption == N \in Nat /\ MaxOffset \in Nat

VARIABLES sel,      \* the RowSelection
          deleted,  \* the view's tombstones
          rows      \* reference: the rows selected

vars == <<sel, deleted, rows>>

Rows == Interval(0, N)

(* A set of rows as an ascending list.                                     *)
Listed(R) == Filtered(Run(0, N), R)

(* The bounds a search of the sorted table may return.                     *)
Bounds == {pair \in (0..N) \X (0..N) : pair[1] <= pair[2]}

Init == sel = All /\ deleted = NoMask /\ rows = Rows

(* A tombstone mask: none yet, or the rows deleted so far and these.       *)
Delete(R) ==
  /\ deleted' = Mask(deleted.rows \cup R)
  /\ UNCHANGED <<sel, rows>>

NarrowRange(a, b) ==
  /\ sel' = IntersectRange(sel, a, b)
  /\ rows' = rows \cap Interval(a, b)
  /\ UNCHANGED deleted

NarrowIds(R) ==
  /\ sel' = IntersectIds(sel, Listed(R))
  /\ rows' = rows \cap R
  /\ UNCHANGED deleted

(* A comparison over the selected rows keeps those in R.                   *)
NarrowMask(R) ==
  /\ sel' = Refine(sel, {i \in Interval(0, SelLen(sel, N)) : AsRows(sel, N)[i + 1] \in R}, SelLen(sel, N))
  /\ rows' = rows \cap R
  /\ UNCHANGED deleted

(* The same, as the file reads do.                                         *)
NarrowFound(R) ==
  /\ sel' = NarrowToIds(sel, FilterRows(sel, N, R), SelLen(sel, N))
  /\ rows' = rows \cap R
  /\ UNCHANGED deleted

(* Runs that may touch one another.                                        *)
NarrowRuns(p, q) ==
  /\ p[2] <= q[1]
  /\ sel' = IntersectRuns(sel, <<p, q>>)
  /\ rows' = rows \cap (Interval(p[1], p[2]) \cup Interval(q[1], q[2]))
  /\ UNCHANGED deleted

(* The reference of a window: the live rows by their place among them.     *)
Windowed(R, offset, limit) ==
  LET live == R \ deleted.rows
  IN {row \in live : offset <= Place(live, row) /\ Place(live, row) < offset + limit}

Cut(offset, limit) ==
  /\ sel' = Window(sel, offset, limit, deleted, N)
  /\ rows' = Windowed(rows, offset, limit)
  /\ UNCHANGED deleted

(* One piece of a split.                                                   *)
Partition(k, i) ==
  LET pieces == Split(sel, k, N) IN
  /\ i \in DOMAIN pieces
  /\ sel' = pieces[i]
  /\ rows' = {row \in rows : (i - 1) * Per(Cardinality(rows), k) <= Place(rows, row)
                             /\ Place(rows, row) < i * Per(Cardinality(rows), k)}
  /\ UNCHANGED deleted

(* A rebuild: every row of a new table.                                    *)
Rebuild == sel' = All /\ deleted' = NoMask /\ rows' = Rows

Next ==
  \/ \E pair \in Bounds : NarrowRange(pair[1], pair[2])
  \/ \E R \in SUBSET Rows : NarrowIds(R) \/ NarrowMask(R) \/ NarrowFound(R) \/ Delete(R)
  \/ \E p, q \in Bounds : NarrowRuns(p, q)
  \/ \E offset, limit \in 0..MaxOffset : Cut(offset, limit)
  \/ \E k \in 1..N : \E i \in 1..k : Partition(k, i)
  \/ Rebuild

Spec == Init /\ [][Next]_vars

-----------------------------------------------------------------------------
(* Properties                                                              *)

(* A range never ends before it starts, nor past the table; ids are rows.  *)
TypeOK ==
  /\ sel.kind \in {"all", "range", "ids"}
  /\ sel.kind = "range" => sel.start <= sel.end /\ sel.end <= N
  /\ sel.kind = "ids" => sel.ids \in Seq(Rows)
  /\ deleted.rows \subseteq Rows /\ rows \subseteq Rows

(* Whatever shape a chain of operations leaves, it selects exactly the     *)
(* rows the chain keeps, ascending, each once, and its own answers say so: *)
(* its length, a row's membership, its masks, its live count.              *)
SelectsExactly ==
  /\ AsRows(sel, N) = Listed(rows)
  /\ SelLen(sel, N) = Cardinality(rows)
  /\ \A row \in Rows : Contains(sel, row) <=> row \in rows
  /\ ToMask(sel, N) = rows
  /\ LiveLen(sel, deleted, N) = Len(LiveRows(sel, N, deleted))

(* A split's pieces are the selection, in order, none empty and none left  *)
(* out, and there are no more of them than asked for.                      *)
PiecesPartition ==
  \A k \in 1..(N + 1) :
    LET pieces == Split(sel, k, N)
        Upto[i \in 0..Len(pieces)] == IF i = 0 THEN <<>> ELSE Upto[i - 1] \o AsRows(pieces[i], N)
    IN /\ Len(pieces) <= k
       /\ \A i \in DOMAIN pieces : SelLen(pieces[i], N) > 0
       /\ Upto[Len(pieces)] = AsRows(sel, N)
=============================================================================
