---------------------------- MODULE ColumnChunks ----------------------------
(* One column of a file, probed through its flat chunk leaves.  Leaves are  *)
(* fetched on first use and kept, tasks share them, and every fetch is an   *)
(* await between whose start and end the other tasks run.  A query is       *)
(* answered from the leaves its search touches, and the answer is compared  *)
(* with the decoded column.                                                 *)
EXTENDS EncodedSearch

CONSTANTS
  Tasks,
  Columns,    \* the layouts a column may have
  Queries,    \* queries of the tasks: the first asks any, the others these
  Rivals,
  MaxFaults   \* segment requests that may fail

VARIABLES
  column,     \* the column's layout, an index of Columns
  encoded,    \* VORTEX_RDF_ENCODED_SEARCH: leaves probed in their encoding
  cells,      \* the leaves fetched so far
  dicts,      \* the dictionaries whose values leaf is fetched
  task,       \* what each task is doing
  faults

vars == <<column, encoded, cells, dicts, task, faults>>

(***************************************************************************)
(* The layout tree and its leaves.                                         *)
(***************************************************************************)

Unsupported == [k |-> "unsupported"]
RECURSIVE Unzoned(_)
Unzoned(l) == IF l.k = "zoned" THEN Unzoned(l.child) ELSE l
RECURSIVE Rows(_)
Rows(l) ==
  CASE l.k = "flat" -> Len(Decode(l.array))
    [] l.k = "zoned" -> Rows(l.child)
    [] l.k = "dict" -> Rows(l.codes)
    [] l.k = "chunked" -> LET rows[c \in 0 .. Len(l.children)] ==
                                IF c = 0 THEN 0 ELSE rows[c - 1] + Rows(l.children[c])
                          IN  rows[Len(l.children)]

(* Leaves of node, whose first row is the column's row offset; dict is the  *)
(* values leaf of the dictionary whose codes node holds, if any.            *)
RECURSIVE CollectLeaves(_, _, _)
CollectLeaves(l, offset, dict) ==
  LET node == Unzoned(l) IN
  CASE node.k = "flat" ->
         IF Rows(node) = 0 THEN <<>>
         ELSE <<[array |-> node.array, from |-> offset, to |-> offset + Rows(node), dict |-> dict]>>
    [] node.k = "chunked" ->
         LET starts[c \in 1 .. Len(node.children) + 1] ==
               IF c = 1 THEN offset ELSE starts[c - 1] + Rows(node.children[c - 1])
         IN  FlattenSeq([c \in DOMAIN node.children |-> CollectLeaves(node.children[c], starts[c], dict)])
    [] node.k = "dict" ->
         IF dict # <<>> \/ Unzoned(node.values).k # "flat" THEN <<Unsupported>>
         ELSE CollectLeaves(node.codes, offset, <<[id |-> node.id, array |-> Unzoned(node.values).array]>>)
FlatLeaves == [c \in DOMAIN Columns |-> CollectLeaves(Columns[c], 0, <<>>)] @@ <<>>

(* A leaf as a fetch leaves it: a codes leaf composed with its dictionary's *)
(* values, decoded first when the encoded search is off, then resolved.     *)
(* (f @@ <<>> is f: the tables are built once.)                             *)
Composed(leaf) ==
  IF leaf.dict = <<>> THEN leaf.array
  ELSE [k |-> "dict", codes |-> leaf.array, values |-> leaf.dict[1].array]
Fetched(leaf, on) ==
  Resolve(IF on THEN Composed(leaf)
          ELSE [k |-> "primitive", w |-> Word, words |-> Decode(Composed(leaf))])
Leaf(leaf, on) ==
  [from |-> leaf.from, to |-> leaf.to, dict |-> leaf.dict, values |-> Decode(Composed(leaf)),
   probe |-> Fetched(leaf, on)]
Column(chunks) == [leaves |-> chunks, held |-> FlattenSeq([i \in DOMAIN chunks |-> chunks[i].values])]
FromLeaves(leaves, on) == Column([i \in DOMAIN leaves |-> Leaf(leaves[i], on)] @@ <<>>)
Tables == [c \in DOMAIN Columns |-> [on \in BOOLEAN |-> FromLeaves(FlatLeaves[c], on)] @@ <<>>] @@ <<>>

ASSUME ColumnsAssumption ==
  \A c \in DOMAIN Columns : \A i \in DOMAIN FlatLeaves[c] : FlatLeaves[c][i] # Unsupported

(* c is the column's table: its leaves and the values they hold.            *)
Here == Tables[column][encoded]
Probed(c, i) == c.leaves[i + 1].probe
RowCount(c) == Len(c.held)
LeafHolding(c, row) ==
  Partition(Len(c.leaves), [i \in 0 .. Len(c.leaves) - 1 |-> c.leaves[i + 1].to <= row])

(***************************************************************************)
(* Tasks.  pc is idle, reach (bisecting the leaves lo..hi for the first     *)
(* whose last value reaches goal), walk (reading rows leaf by leaf) or      *)
(* done; fetch names the await the task is in.                              *)
(***************************************************************************)

None == <<>>
Idle == [pc |-> "idle", q |-> None, lo |-> 0, hi |-> 0, goal |-> 0, first |-> None,
         from |-> 0, to |-> 0, walked |-> 0, got |-> <<>>, fetch |-> "no",
         outcome |-> "open", answer |-> None, touched |-> {}]

Init ==
  /\ column \in DOMAIN Columns /\ encoded \in BOOLEAN
  /\ cells = {} /\ dicts = {} /\ faults = 0
  /\ task = [t \in Tasks |-> Idle]

Window(s, from, to) == SubSeq(s, from + 1, to)
(* What a caller may ask: bounds of a sorted column or window, and rows of  *)
(* the column.  A find is a resident column's eq_offsets: one leaf.         *)
Askable(c, q) ==
  CASE q.op \in {"bounds", "lower"} -> Ascending(c.held)
    [] q.op = "within" -> q.to <= RowCount(c) /\ Ascending(Window(c.held, q.from, q.to))
    [] q.op = "count" -> q.to <= RowCount(c)
    [] q.op = "find" -> q.to <= RowCount(c) /\ Len(c.leaves) = 1
    [] q.op \in {"values", "take"} -> \A i \in DOMAIN q.rows : q.rows[i] < RowCount(c)

WholeReach(c, from, to) == <<0, Len(c.leaves) - 1>>
(* window_leaf: the leaves the rows from..to reach, the last of them        *)
(* standing for itself.                                                     *)
Reach(c, from, to) == <<LeafHolding(c, from), Most(LeafHolding(c, to - 1), LeafHolding(c, from))>>

Answered(k, answer) == [k EXCEPT !.pc = "done", !.outcome = "answered", !.answer = answer]
NoAnswer(k) == [k EXCEPT !.pc = "done", !.outcome = "declined"]

Begun(c, q) ==
  CASE q.op \in {"bounds", "lower"} ->
         [Idle EXCEPT !.pc = "reach", !.q = q, !.hi = Len(c.leaves), !.goal = q.needle, !.to = RowCount(c)]
    [] q.op = "within" ->
         IF q.from = q.to THEN Answered([Idle EXCEPT !.q = q], <<q.from, q.from>>)
         ELSE [Idle EXCEPT !.pc = "reach", !.q = q, !.goal = q.needle, !.from = q.from, !.to = q.to,
                           !.lo = Reach(c, q.from, q.to)[1], !.hi = Reach(c, q.from, q.to)[2]]
    [] OTHER -> [Idle EXCEPT !.pc = "walk", !.q = q]

Ask(t, q) ==
  /\ task[t].pc = "idle"
  /\ \E c \in {Here} :
       /\ Askable(c, q) /\ (t > 1 => Len(c.leaves) > 1)
       /\ task' = [task EXCEPT ![t] = Begun(c, q)]
  /\ UNCHANGED <<column, encoded, cells, dicts, faults>>

(* The rows a walk has still to read, and the leaf its next step needs.     *)
Ahead(k) == IF k.q.op \in {"count", "find"} THEN [i \in 1 .. k.q.to - k.q.from |-> k.q.from + i - 1] ELSE k.q.rows
Over(k) == k.pc = "walk" /\ k.walked = Len(Ahead(k))
MidLeaf(k) == k.lo + (k.hi - k.lo) \div 2
AtEnd(c, k) == k.pc = "reach" /\ k.lo >= k.hi /\ k.lo = Len(c.leaves)
Needs(c, k) ==
  CASE k.pc = "walk" -> LeafHolding(c, Ahead(k)[k.walked + 1])
    [] k.lo < k.hi -> MidLeaf(k)
    [] OTHER -> k.lo
Ready(c, k) ==
  IF Over(k) \/ AtEnd(c, k) THEN TRUE ELSE Needs(c, k) \in cells

(* chunk_leaf: a missing leaf is requested, with its dictionary's values,   *)
(* and kept unless another task kept it first.                              *)
Request(t) ==
  /\ task[t].pc \in {"reach", "walk"} /\ task[t].fetch = "no"
  /\ \E c \in {Here} :
       /\ ~Ready(c, task[t])
       /\ task' = [task EXCEPT ![t].fetch = "leaf", ![t].touched = @ \cup {Needs(c, task[t])}]
  /\ UNCHANGED <<column, encoded, cells, dicts, faults>>

Kept(c, t, leaf) ==
  IF c.leaves[leaf + 1].dict # <<>> /\ c.leaves[leaf + 1].dict[1].id \notin dicts
  THEN task' = [task EXCEPT ![t].fetch = "values"] /\ UNCHANGED cells
  ELSE task' = [task EXCEPT ![t].fetch = "no"] /\ cells' = cells \cup {leaf}
Arrived(t) ==
  /\ task[t].fetch = "leaf"
  /\ \E c \in {Here} : Kept(c, t, Needs(c, task[t]))
  /\ UNCHANGED <<column, encoded, dicts, faults>>

ValuesArrived(t) ==
  /\ task[t].fetch = "values"
  /\ \E c \in {Here} : \E leaf \in {Needs(c, task[t])} :
       dicts' = dicts \cup {c.leaves[leaf + 1].dict[1].id} /\ cells' = cells \cup {leaf}
  /\ task' = [task EXCEPT ![t].fetch = "no"]
  /\ UNCHANGED <<column, encoded, faults>>

(* A failed request ends the query with its error; nothing is kept.         *)
Fault(t) ==
  /\ task[t].fetch # "no" /\ faults < MaxFaults
  /\ faults' = faults + 1
  /\ task' = [task EXCEPT ![t].pc = "done", ![t].fetch = "no", ![t].outcome = "failed"]
  /\ UNCHANGED <<column, encoded, cells, dicts>>

(* first_reaching: one probe of the bisection over the leaves' last values. *)
Reached(c, k) ==
  LET leaf == MidLeaf(k)
      last == Probed(c, leaf).at[Probed(c, leaf).len - 1]
  IN  IF ~Resolved(Probed(c, leaf)) THEN NoAnswer(k)
      ELSE IF last < k.goal THEN [k EXCEPT !.lo = leaf + 1] ELSE [k EXCEPT !.hi = leaf]

(* The search's second half, for the first value past the needle.           *)
Past(c, k, lower, from) ==
  IF k.q.needle = MaxWord THEN Answered(k, <<lower, k.to>>)
  ELSE IF k.q.op = "bounds"
  THEN [k EXCEPT !.lo = 0, !.hi = Len(c.leaves), !.goal = k.q.needle + 1, !.first = <<lower>>]
  ELSE [k EXCEPT !.lo = Reach(c, from, k.to)[1], !.hi = Reach(c, from, k.to)[2], !.from = from,
                 !.goal = k.q.needle + 1, !.first = <<lower>>]

(* bounds and lower_bound, in the leaf lo that reaches the goal.            *)
Global(c, k) ==
  LET leaf == c.leaves[k.lo + 1]
      probe == Probed(c, k.lo)
      found == probe.bounds[k.goal]
      lower == leaf.from + probe.lower[k.goal]
  IN  CASE ~Resolved(probe) -> NoAnswer(k)
        [] k.q.op = "lower" -> Answered(k, lower)
        [] k.first # None -> Answered(k, <<k.first[1], Most(lower, k.first[1])>>)
        [] leaf.from + found[2] < leaf.to -> Answered(k, <<leaf.from + found[1], leaf.from + found[2]>>)
        [] OTHER -> Past(c, k, leaf.from + found[1], 0)

(* LeafRows: the rows from..to of leaf i, and the bounds of x in them.      *)
LeafBounds(c, i, from, to, x) ==
  LET offset == c.leaves[i + 1].from
      found == BoundsIn(Probed(c, i), from - offset, to - offset, x)
  IN  <<offset + found[1], offset + found[2]>>

(* bounds_in, in the part of the window in leaf lo.                         *)
Windowed(c, k) ==
  LET to == Least(k.to, c.leaves[k.lo + 1].to)
      found == LeafBounds(c, k.lo, Most(k.from, c.leaves[k.lo + 1].from), to, k.goal)
  IN  CASE ~Resolved(Probed(c, k.lo)) -> NoAnswer(k)
        [] k.first # None -> Answered(k, <<k.first[1], found[1]>>)
        [] found[2] < to \/ found[2] = k.to -> Answered(k, found)
        [] OTHER -> Past(c, k, found[1], found[2])

(* values_at, take and count_eq read the rows that follow one another in    *)
(* leaf i, given from its first: through its probe, or from its array.      *)
LeafValues(c, i, local) == ReadAt(Probed(c, i), local)
LeafTake(c, i, local) == [j \in DOMAIN local |-> At(c.leaves[i + 1].values, local[j])]
CountDecodedEq(values, needle) == Matching(values, needle)
LeafEq(c, i, from, n, needle) ==
  IF Resolved(Probed(c, i)) THEN Probed(c, i).eq[from, n, needle]
  ELSE CountDecodedEq(Window(c.leaves[i + 1].values, from, from + n), needle)

Walked(c, k) ==
  LET leaf == Needs(c, k)
      chunk == c.leaves[leaf + 1]
      rows == SubSeq(Ahead(k), k.walked + 1, Len(Ahead(k)))
      n == Max({m \in 1 .. Len(rows) : \A j \in 1 .. m : rows[j] \in chunk.from .. chunk.to - 1})
      local == [j \in 1 .. n |-> rows[j] - chunk.from]
      read == CASE k.q.op \in {"count", "find"} -> LeafEq(c, leaf, local[1], n, k.q.needle)
                [] k.q.op = "values" -> LeafValues(c, leaf, local)
                [] OTHER -> LeafTake(c, leaf, local)
  IN  IF ~Resolved(Probed(c, leaf)) /\ k.q.op \in {"values", "find"} THEN NoAnswer(k)
      ELSE [k EXCEPT !.walked = @ + n, !.got = @ \o read]

Stepped(c, k) ==
  CASE Over(k) -> Answered(k, IF k.q.op = "count" THEN Len(k.got) ELSE k.got)
    [] AtEnd(c, k) -> Answered(k, IF k.q.op = "lower" THEN RowCount(c)
                                  ELSE IF k.first # None THEN <<k.first[1], RowCount(c)>>
                                  ELSE <<RowCount(c), RowCount(c)>>)
    [] k.pc = "walk" -> Walked(c, k)
    [] k.lo < k.hi -> Reached(c, k)
    [] k.q.op = "within" -> Windowed(c, k)
    [] OTHER -> Global(c, k)
Step(t) ==
  /\ task[t].pc \in {"reach", "walk"} /\ task[t].fetch = "no"
  /\ \E c \in {Here} : Ready(c, task[t]) /\ task' = [task EXCEPT ![t] = Stepped(c, task[t])]
  /\ UNCHANGED <<column, encoded, cells, dicts, faults>>

AskedBy(t) == IF t = 1 THEN Queries ELSE Rivals
Next ==
  \E t \in Tasks :
    \/ \E q \in AskedBy(t) : Ask(t, q)
    \/ Request(t) \/ Arrived(t) \/ ValuesArrived(t) \/ Step(t) \/ Fault(t)
Spec == Init /\ [][Next]_vars

(***************************************************************************)
(* Properties.                                                             *)
(***************************************************************************)

Below(s, x) == Cardinality({i \in DOMAIN s : s[i] < x})
Expected(c, q) ==
  LET held == c.held
      window == Window(held, q.from, q.to)
  IN  CASE q.op = "bounds" -> <<Below(held, q.needle), Below(held, q.needle + 1)>>
        [] q.op = "lower" -> Below(held, q.needle)
        [] q.op = "within" -> <<q.from + Below(window, q.needle), q.from + Below(window, q.needle + 1)>>
        [] q.op = "count" -> Len(Matching(window, q.needle))
        [] q.op = "find" -> Matching(window, q.needle)
        [] OTHER -> [i \in DOMAIN q.rows |-> At(held, q.rows[i])]

(* Every answer of a search, read or count through the leaves is the one    *)
(* the decoded column gives, whatever the encodings of its leaves, the way  *)
(* the tasks interleave and the requests that failed; a query goes without  *)
(* an answer only where a leaf declines its probe, and a take or a count    *)
(* never does (layout.rs, ColumnChunks).                                    *)
Exact(c) ==
  \A t \in Tasks :
    /\ task[t].outcome = "answered" => task[t].answer = Expected(c, task[t].q)
    /\ task[t].outcome = "declined" =>
         /\ task[t].q.op \notin {"take", "count"}
         /\ \E i \in DOMAIN c.leaves : ~Resolved(Probed(c, i - 1))
AnswersExact == Exact(Here)

(* A search or read of a window of rows requests no leaf outside the        *)
(* window (bounds_in's contract: rows outside the window are never read).   *)
Overlaps(c, i, from, to) == c.leaves[i + 1].from < to /\ from < c.leaves[i + 1].to
Local(c) ==
  \A t \in Tasks : task[t].pc # "idle" =>
    \A i \in task[t].touched :
      CASE task[t].q.op \in {"within", "count", "find"} -> Overlaps(c, i, task[t].q.from, task[t].q.to)
        [] task[t].q.op \in {"values", "take"} ->
             \E r \in DOMAIN task[t].q.rows : Overlaps(c, i, task[t].q.rows[r], task[t].q.rows[r] + 1)
        [] OTHER -> TRUE
WindowLocal == Local(Here)
=============================================================================
