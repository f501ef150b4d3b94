----------------------------- MODULE IndexRoutes -----------------------------
(***************************************************************************)
(* The secondary indexes: how their children are built from a base, which  *)
(* of them a pattern probes, what the probe resolves to on either backend, *)
(* and the lazy row ids it hands over.                                     *)
(*                                                                         *)
(* A quad is a function from the columns "s", "p", "o", "g" to terms, a    *)
(* pattern the same on the columns it binds.  A store st is a record:      *)
(*   file      file-backed, else in memory                                 *)
(*   codes     a dictionary layout, else one of strings                    *)
(*   sorted    the base is in s, p, o, g order                             *)
(*   zones     the children keep their graph column's zone map             *)
(*   base      the quads, the row r being base[r + 1]                      *)
(*   comps     the index children by name, each a sequence of rows         *)
(*   indexes   the index types, in the order they are tried                *)
(*   deleted   the tombstones, a mask of Selections                        *)
(* A run of rows is <<start, end>>.  Every operator that may find a shared *)
(* once-cell filled takes the set `filled' of the cells that are.          *)
(***************************************************************************)
EXTENDS Selections

CONSTANTS Absent,               \* a term the dictionary does not hold
          FIRST_PIECE_ROWS,     \* rows below which a residual is not deferred
          POINT_GATHER_MAX_ROWS,\* the widest run read point by point
          BITMAP_BITS_PER_ID    \* the span per id a bitmap sort takes

ASSUME IndexSizes ==
  /\ FIRST_PIECE_ROWS \in Nat /\ POINT_GATHER_MAX_ROWS \in Nat
  /\ BITMAP_BITS_PER_ID \in Nat \ {0}

Seqs == INSTANCE SequencesExt

Columns == <<"s", "p", "o", "g">>

SatisfiesOn(q, eqs) == \A c \in DOMAIN eqs : q[c] = eqs[c]
Unbind(p, columns) == [c \in DOMAIN p \ columns |-> p[c]]

BaseRow(st, row) == st.base[row + 1]
Total(st) == Len(st.base)
MatchingRows(st, p) == {row \in Interval(0, Total(st)) : SatisfiesOn(BaseRow(st, row), p)}

(* probe_scalar: a string is its own value, a code has to be found.        *)
Known(st, term) == ~st.codes \/ term # Absent

(* At most `cap' wide.                                                     *)
PointSized(rows) == rows <= POINT_GATHER_MAX_ROWS

Nowhere == [some |-> FALSE]
At(run) == [some |-> TRUE, run |-> run]
Width(run) == Minus(run[2], run[1])

(* window_rows: the part of 0..rows a page covers; nothing is <<0, 0>>.    *)
WindowRows(offset, limit, rows) ==
  LET start == Least(offset, rows)
      end   == Least(offset + limit, rows)
  IN IF start < end THEN <<start, end>> ELSE <<0, 0>>

Page(seq, offset, limit) ==
  LET rows == WindowRows(offset, limit, Len(seq)) IN Sublist(seq, rows[1], rows[2])

-----------------------------------------------------------------------------
(* The children                                                            *)

LexLess(a, b) ==
  \E i \in DOMAIN a : a[i] < b[i] /\ \A j \in 1..(i - 1) : a[j] = b[j]

(* CopyFamily: the key orders of the two copies.                           *)
KeyOrder == [posg |-> <<"p", "o", "s", "g">>, ospg |-> <<"o", "s", "p", "g">>]

Key(order, q) == [i \in DOMAIN order |-> q[order[i]]]

(* copy::components: whole quads in the family's order, with their rids.   *)
CopyComponent(base, family) ==
  Seqs!SetToSortSeq({[cols |-> base[i], rid |-> i - 1] : i \in DOMAIN base},
                    LAMBDA a, b : LexLess(Key(KeyOrder[family], a.cols), Key(KeyOrder[family], b.cols)))

(* reference::components: one column's values in (val, rid) order, with    *)
(* the graph where the layout records codes.                               *)
RefComponent(base, column, codes) ==
  Seqs!SetToSortSeq({[cols |-> IF codes THEN [val |-> base[i][column], g |-> base[i]["g"]]
                               ELSE [val |-> base[i][column]],
                      rid  |-> i - 1] : i \in DOMAIN base},
                    LAMBDA a, b : LexLess(<<a.cols["val"], a.rid>>, <<b.cols["val"], b.rid>>))

(* The children of the index types a store carries.                        *)
Components(base, types, codes) ==
  LET names == (IF "copy" \in types THEN {"posg", "ospg"} ELSE {})
               \cup (IF "ref" \in types THEN {"p", "o"} ELSE {})
  IN [name \in names |-> IF name \in {"posg", "ospg"} THEN CopyComponent(base, name)
                         ELSE RefComponent(base, name, codes)]

(* ALL_INDEX_TYPES: the order in which the types are tried.                *)
IndexTypes(types) == SelectSeq(<<"copy", "ref">>, LAMBDA type : type \in types)

-----------------------------------------------------------------------------
(* Choosing a probe                                                        *)

NoProbe == [some |-> FALSE]

(* copy::choose: keys are <<column, term>> in the order searched.          *)
CopyChoose(p) ==
  LET both == {"p", "o"} \subseteq DOMAIN p
      family == IF "p" \in DOMAIN p THEN "posg" ELSE "ospg"
      lead == KeyOrder[family][1]
  IN IF "s" \in DOMAIN p \/ DOMAIN p \cap {"p", "o"} = {} THEN NoProbe
     ELSE [some     |-> TRUE, name |-> family,
           keys     |-> IF both THEN << <<"p", p["p"]>>, <<"o", p["o"]>> >> ELSE << <<lead, p[lead]>> >>,
           residual |-> Unbind(p, {"p", "o"}),
           resolves |-> DOMAIN p \cap {"p", "o"},
           serves   |-> TRUE,
           order    |-> IF both \/ family = "ospg" THEN "spog" ELSE "posg",
           ascend   |-> FALSE]

(* reference::choose: the object before the predicate.                     *)
RefChoose(p) ==
  LET column == IF "o" \in DOMAIN p THEN "o" ELSE "p"
  IN IF "s" \in DOMAIN p \/ DOMAIN p \cap {"p", "o"} = {} THEN NoProbe
     ELSE [some     |-> TRUE, name |-> column,
           keys     |-> << <<"val", p[column]>> >>,
           residual |-> <<>>,
           resolves |-> {column},
           serves   |-> FALSE,
           order    |-> "none",
           ascend   |-> TRUE]

Choose(type, p) == IF type = "copy" THEN CopyChoose(p) ELSE RefChoose(p)

(* probe_run: the rows of a sorted stretch that hold the term.             *)
ProbeRun(rows, column, term, within) ==
  LET Start(S) == within[1] + Cardinality(S)
      stretch == Interval(within[1], within[2])
  IN <<Start({i \in stretch : rows[i + 1].cols[column] < term}),
       Start({i \in stretch : rows[i + 1].cols[column] <= term})>>

(* Each key searched within the run of the keys before it; an empty run    *)
(* ends the search.                                                        *)
KeyRun(rows, keys) ==
  LET first == ProbeRun(rows, keys[1][1], keys[1][2], <<0, Len(rows)>>)
  IN IF Len(keys) = 1 \/ Width(first) = 0 THEN first
     ELSE ProbeRun(rows, keys[2][1], keys[2][2], first)

KeysKnown(st, keys) == \A i \in DOMAIN keys : Known(st, keys[i][2])

-----------------------------------------------------------------------------
(* LazyRowIds                                                              *)

ComponentIds(name, run, ascend)   == [kind |-> "component", name |-> name, run |-> run, ascend |-> ascend]
CheckedIds(name, run, ascend, g)  == [kind |-> "checked", name |-> name, run |-> run,
                                      ascend |-> ascend, graph |-> g]
UnsortedIds(ids)                  == [kind |-> "unsorted", ids |-> ids]
ChildIds(name, keys, located)     == [kind |-> "child", name |-> name, keys |-> keys, located |-> located]
LocatedIds(name, run, ascend)     == [kind |-> "located", name |-> name, run |-> run, ascend |-> ascend]

(* run_order_row_ids: the rids a stretch of a child lists, in its order.   *)
RidsOf(rows, run) == [i \in 1..Width(run) |-> rows[run[1] + i].rid]

(* Mutant of SortUniqueIds: the bitmap ends at its last whole word.        *)
SortUniqueIdsShort(ids) ==
  LET min == CHOOSE x \in Members(ids) : \A y \in Members(ids) : x <= y
      max == CHOOSE x \in Members(ids) : \A y \in Members(ids) : x >= y
      bits == SelectSeq(Run(0, max - min), LAMBDA bit : min + bit \in Members(ids))
  IN IF IsAscending(ids) THEN ids
     ELSE IF (max - min) \div BITMAP_BITS_PER_ID >= Len(ids)
     THEN Seqs!SetToSortSeq(Members(ids), LAMBDA a, b : a < b)
     ELSE [i \in DOMAIN bits |-> min + bits[i]]

(* sort_unique_ids: kept when ascending, else compared where the ids are   *)
(* sparse, else set in a bitmap from the least id on and read back.        *)
SortUniqueIds(ids) ==
  LET min == CHOOSE x \in Members(ids) : \A y \in Members(ids) : x <= y
      max == CHOOSE x \in Members(ids) : \A y \in Members(ids) : x >= y
      bits == SelectSeq(Run(0, max - min + 1), LAMBDA bit : min + bit \in Members(ids))
  IN IF IsAscending(ids) THEN ids
     ELSE IF (max - min) \div BITMAP_BITS_PER_ID >= Len(ids)
     THEN Seqs!SetToSortSeq(Members(ids), LAMBDA a, b : a < b)
     ELSE [i \in DOMAIN bits |-> min + bits[i]]

(* GraphCheck: the run's rows of the graph, in run order.                  *)
CheckedRids(rows, run, g) ==
  LET held == SelectSeq(Run(run[1], run[2]), LAMBDA i : rows[i + 1].cols["g"] = g)
  IN [k \in DOMAIN held |-> rows[held[k] + 1].rid]

(* scan_index_row_ids: the rids of the child's rows its constraints keep.  *)
ScannedRids(rows, eqs) ==
  LET held == SelectSeq(Run(0, Len(rows)), LAMBDA i : SatisfiesOn(rows[i + 1].cols, eqs))
  IN [k \in DOMAIN held |-> rows[held[k] + 1].rid]

(* The ids in the order their source lists them.                           *)
SourceOrder(st, ids) ==
  CASE ids.kind = "checked"  -> CheckedRids(st.comps[ids.name], ids.run, ids.graph)
    [] ids.kind = "unsorted" -> ids.ids
    [] ids.kind = "child"    -> ScannedRids(st.comps[ids.name], ids.keys)
    [] OTHER                 -> RidsOf(st.comps[ids.name], ids.run)

(* materialized: in base order; a checked run whose rids ascend is kept as *)
(* it is.                                                                  *)
Materialized(st, ids) ==
  LET listed == SourceOrder(st, ids)
  IN IF ids.kind = "checked" /\ ids.ascend THEN listed ELSE SortUniqueIds(listed)

(* len_if_known: nothing is read or counted for it.                        *)
LenIfKnown(st, ids, filled) ==
  CASE ids.kind \in {"component", "located"} -> [some |-> TRUE, len |-> Width(ids.run)]
    [] ids.kind = "checked" ->
         IF filled \cap {"count", "sorted", "run"} # {}
         THEN [some |-> TRUE, len |-> Len(SourceOrder(st, ids))] ELSE Nowhere
    [] ids.kind = "unsorted" -> [some |-> TRUE, len |-> Len(ids.ids)]
    [] ids.kind = "child" ->
         IF "sorted" \in filled THEN [some |-> TRUE, len |-> Len(SourceOrder(st, ids))]
         ELSE IF ids.located.some THEN [some |-> TRUE, len |-> Width(ids.located.run)] ELSE Nowhere

(* count: a checked run's matches are counted and kept.                    *)
CountIds(st, ids, filled) ==
  IF ids.kind = "checked" THEN [some |-> TRUE, len |-> Len(SourceOrder(st, ids))]
  ELSE LenIfKnown(st, ids, filled)

(* live_len_without_io: a narrowed view's are all live; a file child's are *)
(* counted once read.                                                      *)
LiveLenWithoutIo(st, ids, filled) ==
  LET live == SelectSeq(SourceOrder(st, ids), LAMBDA row : row \notin st.deleted.rows)
  IN IF ids.kind = "unsorted" THEN [some |-> TRUE, len |-> Len(ids.ids)]
     ELSE IF ids.kind \in {"child", "located"} /\ "sorted" \notin filled THEN Nowhere
     ELSE [some |-> TRUE, len |-> Len(live)]

Cuttable(ids) == ids.kind \in {"component", "checked", "located"} /\ ids.ascend

(* window: only of rids that ascend, cut before they are decoded; a read   *)
(* of the cut sorts it (read_located_rids, sorted_row_ids).                *)
WindowIds(st, ids, offset, limit) ==
  CASE ids.kind = "checked" -> Page(SourceOrder(st, ids), offset, limit)
    [] OTHER -> LET page == WindowRows(offset, limit, Width(ids.run))
                    cut  == RidsOf(st.comps[ids.name], <<ids.run[1] + page[1], ids.run[1] + page[2]>>)
                IN IF page = <<0, 0>> THEN <<>> ELSE SortUniqueIds(cut)

-----------------------------------------------------------------------------
(* Resolving a probe                                                       *)

Declined == [kind |-> "declined"]
NoMatch  == [kind |-> "empty"]
NoPlan   == [some |-> FALSE]

Lazy(ids)  == [lazy |-> TRUE, ids |-> ids]
Eager(ids) == [lazy |-> FALSE, ids |-> ids]

Resolved(rowIds, resolves, serve) ==
  [kind |-> "resolved", rowIds |-> rowIds, resolves |-> resolves, serve |-> serve]

(* The plan of a serving probe.  A plan reads `rows' of its child: a       *)
(* stretch, a list, or, unlocated on a file, whatever its constraints keep *)
(* and no tombstone hides.                                                 *)
PlanOver(probe, eqs, located) ==
  [some |-> TRUE, name |-> probe.name, order |-> probe.order, eqs |-> eqs,
   located |-> located, narrowed |-> [kind |-> "none"]]

KeyEqs(keys) == [c \in {keys[i][1] : i \in DOMAIN keys} |->
                   keys[CHOOSE i \in DOMAIN keys : keys[i][1] = c][2]]

(* The graph is checked inside the run where the child keeps its zone map, *)
(* unless a window needs the matches in base order and the run lists them  *)
(* in its own.                                                             *)
ChecksGraph(st, probe, p, windowed) ==
  "g" \in DOMAIN p /\ st.zones /\ (probe.ascend \/ ~windowed)

ResolveInMemory(st, probe, p, windowed) ==
  LET run == KeyRun(st.comps[probe.name], probe.keys)
  IN IF probe.name \notin DOMAIN st.comps THEN Declined
     ELSE IF ~KeysKnown(st, probe.keys) \/ Width(run) = 0 THEN NoMatch
     ELSE IF ChecksGraph(st, probe, p, windowed)
     THEN IF ~Known(st, p["g"]) THEN NoMatch
          ELSE Resolved(Lazy(CheckedIds(probe.name, run, probe.ascend, p["g"])),
                        probe.resolves \cup {"g"}, NoPlan)
     ELSE Resolved(Lazy(ComponentIds(probe.name, run, probe.ascend)), probe.resolves,
                   IF probe.serves THEN PlanOver(probe, KeyEqs(probe.keys), At(run)) ELSE NoPlan)

(* locate: a string column's run is not searched for.                      *)
LocateRun(st, probe) ==
  IF st.codes THEN At(KeyRun(st.comps[probe.name], probe.keys)) ELSE Nowhere

(* The ids of a serving probe: a small located run's are read now.         *)
ServedIds(st, probe, located) ==
  IF located.some /\ PointSized(Width(located.run))
  THEN Eager(SortUniqueIds(RidsOf(st.comps[probe.name], located.run)))
  ELSE Lazy(ChildIds(probe.name, KeyEqs(probe.keys), located))

(* The plan's run covers the keys alone, so a residual term drops it.      *)
ServedRange(probe, located) == IF probe.residual = <<>> THEN located ELSE Nowhere

FileIds(st, probe, located) ==
  IF located.some /\ probe.ascend THEN Lazy(LocatedIds(probe.name, located.run, TRUE))
  ELSE Eager(SortUniqueIds(ScannedRids(st.comps[probe.name], KeyEqs(probe.keys))))

(* resolve_file                                                            *)
ResolveFile(st, probe) ==
  LET located == LocateRun(st, probe)
      ids == FileIds(st, probe, located)
      eqs == [c \in DOMAIN KeyEqs(probe.keys) \cup DOMAIN probe.residual |->
                IF c \in DOMAIN probe.residual THEN probe.residual[c] ELSE KeyEqs(probe.keys)[c]]
  IN IF probe.name \notin DOMAIN st.comps THEN Declined
     ELSE IF ~KeysKnown(st, probe.keys) THEN NoMatch
     ELSE IF located.some /\ Width(located.run) = 0 THEN NoMatch
     ELSE IF ~probe.serves
     THEN IF ~ids.lazy /\ ids.ids = <<>> THEN NoMatch ELSE Resolved(ids, probe.resolves, NoPlan)
     ELSE IF \E c \in DOMAIN probe.residual : ~Known(st, probe.residual[c]) THEN NoMatch
     ELSE Resolved(ServedIds(st, probe, located), probe.resolves,
                   PlanOver(probe, eqs, ServedRange(probe, located)))

(* resolve_indexes: the first type that does not decline.                  *)
ResolveIndexes(st, p, windowed) ==
  LET Answer(type) ==
        LET probe == Choose(type, p)
        IN IF ~probe.some THEN Declined
           ELSE IF st.file THEN ResolveFile(st, probe) ELSE ResolveInMemory(st, probe, p, windowed)
      Try[i \in 1..(Len(st.indexes) + 1)] ==
        IF i > Len(st.indexes) THEN Declined
        ELSE LET answer == Answer(st.indexes[i])
             IN IF answer.kind = "declined" THEN Try[i + 1] ELSE answer
  IN Try[1]
=============================================================================
