------------------------------- MODULE Store -------------------------------
(***************************************************************************)
(* VortexRdfStore as a merge-on-read store: a frozen sorted base (in       *)
(* memory or the store file), a row selection and a pending filter over    *)
(* it, a tombstone mask, and an append tail with its own selection, mask   *)
(* and row keys.  A program holds any number of stores; every operation    *)
(* takes one and binds its result to a handle.                             *)
(*                                                                         *)
(* Quads are numbers in (s, p, o, g) order; a row id is a position of a    *)
(* sequence (1 is the code's 0).  How a match finds base rows (binary      *)
(* search, index, scan, pushed-down filter) is a choice among the views    *)
(* those routes can leave.  RowSelection's three shapes are abstracted to  *)
(* "every row" or a set (the RowSelection module checks the shapes), and   *)
(* ids still pending are the rows they resolve to.                         *)
(***************************************************************************)
EXTENDS Naturals, Sequences, FiniteSets

CONSTANTS Quads,            \* numbers, in (s, p, o, g) order
          Handles,          \* the names a program holds stores by
          Indexes,          \* the secondary indexes a store may be built with
          Hash(_),          \* a quad's tail row key: may collide
          PartialPatterns,  \* what the partly bound patterns admit
          Batches,          \* the batches add_quads is called with
          MaxGeneration,    \* bound on the generations a behaviour takes
          MaxFiles,         \* bound on the files written at the path
          MaxWindow,        \* bound on a window's offset and limit
          AUTO_COMPACT_TAIL_FLOOR,
          AUTO_COMPACT_BASE_RATIO,
          AUTO_COMPACT_TAIL_CAP

ASSUME QuadsAssumption == Quads \subseteq Nat /\ IsFiniteSet(Quads)
ASSUME PatternsAssumption == \A S \in PartialPatterns : S \subseteq Quads
ASSUME BatchesAssumption == Batches \subseteq Seq(Quads)
ASSUME BoundsAssumption ==
  MaxGeneration \in Nat /\ MaxFiles \in Nat \ {0} /\ MaxWindow \in Nat
ASSUME ThresholdsAssumption ==
  /\ AUTO_COMPACT_TAIL_FLOOR \in Nat
  /\ AUTO_COMPACT_BASE_RATIO \in Nat \ {0}
  /\ AUTO_COMPACT_TAIL_CAP \in Nat

VARIABLES store,       \* handle -> the store it names, for the live handles
          disk,        \* the file at the store path: its identity, rows and indexes
          writable,    \* whether this process may write that file and its directory
          generation,  \* the process-wide generation counter
          call         \* history: the last call the program made

vars == <<store, disk, writable, generation, call>>

Called(op, h, k, S, w) ==
  call' = [op |-> op, on |-> h, to |-> k, quads |-> S, window |-> w]
Nothing == <<0, 0>>

-----------------------------------------------------------------------------
(* Rows and selections                                                     *)

(* The members of a finite set of numbers in ascending order.              *)
Ascending(S) ==
  [i \in 1..Cardinality(S) |->
     CHOOSE x \in S : Cardinality({y \in S : y < x}) = i - 1]

(* The rows of seq at the positions of R, in position order.               *)
Gather(seq, R) == [i \in 1..Cardinality(R) |-> seq[Ascending(R)[i]]]

(* The values of seq at the positions of R.                                *)
Values(seq, R) == {seq[r] : r \in R}

All(seq)  == [all |-> TRUE, rows |-> DOMAIN seq]
Ids(R)    == [all |-> FALSE, rows |-> R]

NoFilter  == [pending |-> FALSE, admits |-> Quads]
Undeleted == [some |-> FALSE, rows |-> {}]

(* union_deleted: a delete always leaves a mask, even one of no rows.      *)
UnionDeleted(deleted, doomed) == [some |-> TRUE, rows |-> deleted.rows \cup doomed]

-----------------------------------------------------------------------------
(* The append tail.  A store without one has NoTail: an append always adds *)
(* a row, so a tail is never empty.                                        *)

RowKeys(rows, start) == {<<Hash(rows[i]), start + i>> : i \in DOMAIN rows}

NewTail(rows) ==
  [rows |-> rows, sel |-> All(rows), deleted |-> Undeleted, keys |-> RowKeys(rows, 0)]

NoTail == NewTail(<<>>)

TailLive(t) == t.sel.rows \ t.deleted.rows

(* Mutants of TailAppend: the keys of a renumbered tail extended instead   *)
(* of rebuilt; the old mask kept over the renumbered rows.                 *)
TailAppendStaleKeys(t, fresh) ==
  LET live == Gather(t.rows, TailLive(t))
  IN [NewTail(live \o fresh) EXCEPT !.keys = t.keys \cup RowKeys(fresh, Len(live))]
TailAppendStaleMask(t, fresh) ==
  [NewTail(Gather(t.rows, TailLive(t)) \o fresh) EXCEPT !.deleted = t.deleted]

(* Tail::append drops the tombstoned rows, which renumbers the rest: only  *)
(* a tail with no mask and every row selected keeps its keys.              *)
TailAppend(t, fresh) ==
  IF ~t.deleted.some /\ t.sel.all
  THEN [NewTail(t.rows \o fresh) EXCEPT !.keys = t.keys \cup RowKeys(fresh, Len(t.rows))]
  ELSE NewTail(Gather(t.rows, TailLive(t)) \o fresh)

(* Tail::tombstoned.                                                       *)
TailTombstoned(t, doomed) ==
  IF t = NoTail THEN t ELSE [t EXCEPT !.deleted = UnionDeleted(t.deleted, doomed)]

(* match_tail: a fully bound pattern compares the rows its key names,      *)
(* every other one the selected rows; a comparison that keeps every row    *)
(* keeps the selection.  Tombstones are not consulted.                     *)
MatchTail(t, pat) ==
  LET Holding(R) == {r \in R : t.rows[r] \in pat.admits}
      named == {r \in t.sel.rows : \E q \in pat.admits : <<Hash(q), r>> \in t.keys}
      sel   == CASE pat.kind = "any"  -> t.sel
                 [] pat.kind = "full" -> Ids(Holding(named))
                 [] pat.kind = "part" -> IF Holding(t.sel.rows) = t.sel.rows
                                         THEN t.sel ELSE Ids(Holding(t.sel.rows))
  IN IF t.sel.rows = {} THEN t ELSE [t EXCEPT !.sel = sel]

-----------------------------------------------------------------------------
(* Stores                                                                  *)

InMemory == 0   \* the file identity of a store that has no file

(* A store whose base is all it has.                                       *)
Fresh(rows, idx, id, gen) ==
  [base |-> rows, file |-> id, sel |-> All(rows), filter |-> NoFilter,
   deleted |-> Undeleted, tail |-> NoTail, indexes |-> idx, over |-> rows,
   generation |-> gen]

BaseLive(s) ==
  {r \in s.sel.rows \ s.deleted.rows : s.base[r] \in s.filter.admits}

(* The quads a read of the store yields: live base rows, live tail rows.   *)
LiveQuads(s) == Values(s.base, BaseLive(s)) \cup Values(s.tail.rows, TailLive(s.tail))

IsOwner(s) == s.tail.sel.all /\ ~s.filter.pending /\ s.sel.all

(* An empty view drops the indexes it holds in memory.                     *)
EmptyView(s) ==
  [s EXCEPT !.sel = Ids({}), !.indexes = IF s.file = InMemory THEN {} ELSE @]

Patterns ==
  {[kind |-> "any", admits |-> Quads]}
  \cup {[kind |-> "part", admits |-> S] : S \in PartialPatterns}
  \cup {[kind |-> "full", admits |-> {q}] : q \in Quads}

(* The selected rows a pattern admits, tombstones not consulted, and those *)
(* of them a file view's pending filter admits too.                        *)
Located(s, pat) == {r \in s.sel.rows : s.base[r] \in pat.admits}
Wanted(s, pat)  == {r \in Located(s, pat) : s.base[r] \in s.filter.admits}

(* The views match_base_in_memory can leave.  A scan that keeps every row  *)
(* leaves the selection as it was; a search or an index never does.        *)
MemoryViews(s, pat) ==
  IF pat.kind = "any" THEN {s}
  ELSE {[s EXCEPT !.sel = Ids(Located(s, pat))]}
       \cup {v \in {s} : Located(s, pat) = s.sel.rows}
       \cup {v \in {EmptyView(s)} : Located(s, pat) = {}}

(* The pattern pushed down as a filter, and the selections the zone maps   *)
(* may leave under it: a range of the rows, none of the wanted ones lost.  *)
Pushed(s, pat) == [pending |-> TRUE, admits |-> s.filter.admits \cap pat.admits]

Pruned(s, pat) ==
  {s.sel} \cup {sel \in {Ids(s.sel.rows \cap a..b) : a, b \in DOMAIN s.base} :
                 Wanted(s, pat) \subseteq sel.rows}

(* A file match ends as a pushed-down filter, as the rows a subject search *)
(* or an index located, or as an id list the filter was evaluated on.      *)
FileRoutes(s, pat) ==
  {[s EXCEPT !.sel = sel, !.filter = Pushed(s, pat)] : sel \in Pruned(s, pat)}
  \cup {[s EXCEPT !.sel = Ids(Located(s, pat))],
        [s EXCEPT !.sel = Ids(Wanted(s, pat)), !.filter = NoFilter]}

(* The views match_base_file can leave.                                    *)
FileViews(s, pat) ==
  {IF v.sel.rows = {} THEN EmptyView(s) ELSE v :
     v \in IF pat.kind = "any" /\ ~s.filter.pending THEN {s} ELSE FileRoutes(s, pat)}

(* match_pattern: base and tail are matched independently, so a base that  *)
(* cannot match never hides the tail.                                      *)
Matches(s, pat) ==
  {[v EXCEPT !.tail = MatchTail(s.tail, pat)] :
     v \in IF s.file = InMemory THEN MemoryViews(s, pat) ELSE FileViews(s, pat)}

(* contains: a fully bound match that has a live row.                      *)
Contains(s, q) ==
  \E v \in Matches(s, [kind |-> "full", admits |-> {q}]) : LiveQuads(v) # {}

-----------------------------------------------------------------------------
(* Handles                                                                 *)

Bind(k, s) == store' = [h \in DOMAIN store \cup {k} |-> IF h = k THEN s ELSE store[h]]

(* next_generation, n times in one operation.                              *)
Take(n) == generation + n <= MaxGeneration /\ generation' = generation + n

Init ==
  /\ store = <<>>
  /\ disk = [id |-> 1, rows |-> <<>>, indexes |-> {}]
  /\ writable \in BOOLEAN
  /\ generation = 0
  /\ \E k \in Handles :
       call = [op |-> "none", on |-> k, to |-> k, quads |-> {}, window |-> Nothing]

(* from_quads: sorted, each quad once.                                     *)
Build(k, S, idx) ==
  /\ Called("build", k, k, S, Nothing)
  /\ Take(1)
  /\ Bind(k, Fresh(Ascending(S), idx, InMemory, generation'))
  /\ UNCHANGED <<disk, writable>>

(* Some process builds a store over the path: a new file.                  *)
BuildFile(S, idx) ==
  /\ disk.id < MaxFiles
  /\ disk' = [id |-> disk.id + 1, rows |-> Ascending(S), indexes |-> idx]
  /\ UNCHANGED <<store, writable, generation, call>>

(* The file's or its directory's permissions change under the process.     *)
SetWritable == writable' = ~writable /\ UNCHANGED <<store, disk, generation, call>>

(* from_file.                                                              *)
FromFile(k) ==
  /\ Called("open", k, k, {}, Nothing)
  /\ Take(1)
  /\ Bind(k, Fresh(disk.rows, disk.indexes, disk.id, generation'))
  /\ UNCHANGED <<disk, writable>>

Drop(h) ==
  /\ Called("drop", h, h, {}, Nothing)
  /\ store' = [x \in DOMAIN store \ {h} |-> store[x]]
  /\ UNCHANGED <<disk, writable, generation>>

-----------------------------------------------------------------------------
(* Compaction                                                              *)

(* sorted_live_raw_quads / rebuild_from_codes: the live rows of base and   *)
(* tail, sorted, each quad once.                                           *)
SortedLive(s) == Ascending(LiveQuads(s))

RewritesFile(s) == IsOwner(s) /\ s.file # InMemory

(* compact_with_indexes over s (a store not yet bound to a handle when     *)
(* add_quads calls it), taking the next generation after gen.  An owning   *)
(* file-backed store replaces its file and is reopened from it, and only   *)
(* while the path still names the file it opened; everything else is       *)
(* rebuilt in memory.  Any failure leaves everything as it was.            *)
Compacted(k, s, idx, gen) ==
  IF RewritesFile(s)
  THEN /\ disk.id = s.file
       /\ writable
       /\ disk.id < MaxFiles
       /\ disk' = [id |-> disk.id + 1, rows |-> SortedLive(s), indexes |-> idx]
       /\ Bind(k, Fresh(disk'.rows, disk'.indexes, disk'.id, gen + 1))
  ELSE /\ Bind(k, Fresh(SortedLive(s), idx, InMemory, gen + 1))
       /\ UNCHANGED disk

CompactWithIndexes(h, k, idx) ==
  /\ Called("copy", h, k, {}, Nothing)
  /\ Take(1)
  /\ Compacted(k, store[h], idx, generation)
  /\ UNCHANGED writable

(* owned: an owner is cloned, a view compacted with its own indexes.       *)
Owned(h, k) ==
  IF IsOwner(store[h])
  THEN /\ Called("copy", h, k, {}, Nothing)
       /\ Bind(k, store[h]) /\ UNCHANGED <<disk, writable, generation>>
  ELSE CompactWithIndexes(h, k, store[h].indexes)

(* tail_needs_compaction.                                                  *)
TailNeedsCompaction(base_rows, tail_rows) ==
  \/ tail_rows >= AUTO_COMPACT_TAIL_CAP
  \/ /\ tail_rows >= AUTO_COMPACT_TAIL_FLOOR
     /\ tail_rows >= base_rows \div AUTO_COMPACT_BASE_RATIO

ShouldAutoCompact(s) ==
  s.tail # NoTail /\ TailNeedsCompaction(Len(s.base), Len(s.tail.rows))

-----------------------------------------------------------------------------
(* Mutations                                                               *)

(* Mutant of FreshQuads: a batch is not checked against itself.            *)
FreshQuadsRepeats(s, batch) == SelectSeq(batch, LAMBDA q : ~Contains(s, q))

(* The quads of a batch that add_quads appends: not earlier in the batch,  *)
(* not in the store.                                                       *)
FreshQuads(s, batch) ==
  Gather(batch, {i \in DOMAIN batch :
                   /\ \A j \in 1..(i - 1) : batch[j] # batch[i]
                   /\ ~Contains(s, batch[i])})

Appended(s, fresh, gen) ==
  [s EXCEPT !.tail = TailAppend(s.tail, fresh), !.generation = gen]

(* add_quads.  A batch with nothing new returns the store as it is.  The   *)
(* append that crosses a threshold ends with a compaction; one refused     *)
(* because the file cannot be written leaves the batch in the tail, any    *)
(* other failure fails the call.                                           *)
AddQuads(h, k, batch) ==
  LET s == store[h]
      fresh == FreshQuads(s, batch)
      appended == Appended(s, fresh, generation + 1)
  IN /\ Called("add", h, k, Values(batch, DOMAIN batch), Nothing)
     /\ IsOwner(s)
     /\ \/ /\ fresh = <<>>
           /\ Bind(k, s)
           /\ UNCHANGED <<disk, generation>>
        \/ /\ fresh # <<>>
           /\ ~ShouldAutoCompact(appended)
           /\ Take(1)
           /\ Bind(k, appended)
           /\ UNCHANGED disk
        \/ /\ fresh # <<>>
           /\ ShouldAutoCompact(appended)
           /\ Take(2)
           /\ Compacted(k, appended, appended.indexes, generation + 1)
        \/ /\ fresh # <<>>
           /\ ShouldAutoCompact(appended)
           /\ RewritesFile(appended)
           /\ disk.id = appended.file
           /\ ~writable
           /\ Take(1)
           /\ Bind(k, appended)
           /\ UNCHANGED disk
     /\ UNCHANGED writable

(* Mutant of DoomedRows: the selection taken for the match, the file       *)
(* view's pending filter forgotten.                                        *)
DoomedRowsUnfiltered(v) == v.sel.rows

(* delete_matching.  In memory the matched selection is the doomed rows;   *)
(* a file view's filter is evaluated over its selection.                   *)
DoomedRows(v) ==
  IF v.file = InMemory THEN v.sel.rows
  ELSE {r \in v.sel.rows : v.base[r] \in v.filter.admits}

(* The store with wider masks over its base and its tail.                  *)
Tombstoned(s, base_rows, tail_rows, gen) ==
  [s EXCEPT !.deleted = UnionDeleted(s.deleted, base_rows),
            !.tail = TailTombstoned(s.tail, tail_rows),
            !.generation = gen]

(* Mutant of DeleteMatching: the deleting store keeps its generation.      *)
DeleteMatchingSameGeneration(h, k, pat) ==
  LET s == store[h] IN
  /\ Called("delete", h, k, pat.admits, Nothing)
  /\ IsOwner(s)
  /\ \E v \in Matches(s, pat) :
       Bind(k, Tombstoned(s, DoomedRows(v), v.tail.sel.rows, s.generation))
  /\ UNCHANGED <<disk, writable, generation>>

DeleteMatching(h, k, pat) ==
  LET s == store[h] IN
  /\ Called("delete", h, k, pat.admits, Nothing)
  /\ IsOwner(s)
  /\ Take(1)
  /\ \E v \in Matches(s, pat) :
       Bind(k, Tombstoned(s, DoomedRows(v), v.tail.sel.rows, generation'))
  /\ UNCHANGED <<disk, writable>>

-----------------------------------------------------------------------------
(* Views and serialization                                                 *)

MatchPattern(h, k, pat) ==
  /\ Called("match", h, k, pat.admits, Nothing)
  /\ \E v \in Matches(store[h], pat) : Bind(k, v)
  /\ UNCHANGED <<disk, writable, generation>>

(* The members of R from the offset-th on, at most limit of them, in row   *)
(* order.                                                                  *)
Cut(R, offset, limit) ==
  {r \in R : LET before == Cardinality({x \in R : x < r})
             IN offset <= before /\ before < offset + limit}

Monus(a, b) == IF a <= b THEN 0 ELSE a - b

(* window: live base rows, then live tail rows.  A window that cannot cut  *)
(* is the store itself; a filter's kept masks leave the base view as it    *)
(* is.  The tail's offset is what the base's live rows did not use up, and *)
(* the base may have stopped counting them once it filled the window.      *)
Windows(s, offset, limit) ==
  LET live  == BaseLive(s)
      n     == Cardinality(live)
      taken == Cut(live, offset, limit)
      TailCut(seen) ==
        IF s.tail = NoTail THEN s.tail
        ELSE [s.tail EXCEPT !.sel =
                Ids(Cut(TailLive(s.tail), Monus(offset, seen), Monus(limit, Cardinality(taken))))]
      counts == {n} \cup {c \in {offset + limit} : c <= n}
  IN {v \in {s} : offset = 0 /\ n + Cardinality(TailLive(s.tail)) <= limit}
     \cup {[s EXCEPT !.tail = TailCut(n)] : x \in {y \in {0} : s.filter.pending /\ offset = 0 /\ n < limit}}
     \cup {[s EXCEPT !.sel = Ids(taken), !.filter = NoFilter, !.tail = TailCut(c)] : c \in counts}

Window(h, k, offset, limit) ==
  /\ Called("window", h, k, {}, <<offset, limit>>)
  /\ \E v \in Windows(store[h], offset, limit) : Bind(k, v)
  /\ UNCHANGED <<disk, writable, generation>>

(* Mutant of Serialized: a tombstoned owner's components passed through.   *)
SerializedKeepsComponents(s, gen) ==
  [Fresh(IF s.tail # NoTail THEN SortedLive(s) ELSE Gather(s.base, BaseLive(s)),
         s.indexes, InMemory, gen)
     EXCEPT !.over = IF s.tail # NoTail THEN SortedLive(s) ELSE s.over]

(* to_bytes, then from_bytes.  A tail, or tombstones beside indexes, force *)
(* a rebuild; otherwise the base's live rows are written as they are, and  *)
(* the index components with them only when they still address those rows. *)
Serialized(s, gen) ==
  LET owner_shaped == ~s.filter.pending /\ s.sel.all
      tombstoned   == s.deleted.some
      rebuild      == s.tail # NoTail \/ (owner_shaped /\ tombstoned /\ s.indexes # {})
      rows         == Gather(s.base, BaseLive(s))
  IN IF rebuild THEN Fresh(SortedLive(s), s.indexes, InMemory, gen)
     ELSE [Fresh(rows, {}, InMemory, gen) EXCEPT
             !.indexes = IF owner_shaped /\ ~tombstoned THEN s.indexes ELSE {},
             !.over = IF owner_shaped /\ ~tombstoned THEN s.over ELSE rows]

RoundTrip(h, k) ==
  /\ Called("copy", h, k, {}, Nothing)
  /\ Take(1)
  /\ Bind(k, Serialized(store[h], generation'))
  /\ UNCHANGED <<disk, writable>>

-----------------------------------------------------------------------------
Next ==
  \/ SetWritable
  \/ \E S \in SUBSET Quads, idx \in SUBSET Indexes :
       BuildFile(S, idx) \/ \E k \in Handles : Build(k, S, idx)
  \/ \E k \in Handles : FromFile(k)
  \/ \E h \in DOMAIN store :
       \/ Drop(h)
       \/ \E k \in Handles :
            \/ \E idx \in SUBSET Indexes : CompactWithIndexes(h, k, idx)
            \/ Owned(h, k)
            \/ \E batch \in Batches : AddQuads(h, k, batch)
            \/ \E pat \in Patterns : DeleteMatching(h, k, pat) \/ MatchPattern(h, k, pat)
            \/ \E offset, limit \in 0..MaxWindow : Window(h, k, offset, limit)
            \/ RoundTrip(h, k)

Spec == Init /\ [][Next]_vars
-----------------------------------------------------------------------------
(* Properties                                                              *)

Selections(seq) == {sel \in [all : BOOLEAN, rows : SUBSET DOMAIN seq] :
                      sel.all => sel.rows = DOMAIN seq}
Masks(seq)      == {m \in [some : BOOLEAN, rows : SUBSET DOMAIN seq] :
                      ~m.some => m.rows = {}}
Filters         == {f \in [pending : BOOLEAN, admits : SUBSET Quads] :
                      ~f.pending => f = NoFilter}

TailTypeOK(t) ==
  /\ DOMAIN t = {"rows", "sel", "deleted", "keys"}
  /\ t.rows \in Seq(Quads)
  /\ t.sel \in Selections(t.rows)
  /\ t.deleted \in Masks(t.rows)

StoreTypeOK(s) ==
  /\ DOMAIN s = {"base", "file", "sel", "filter", "deleted", "tail", "indexes",
                 "over", "generation"}
  /\ s.base \in Seq(Quads)
  /\ s.file \in 0..MaxFiles
  /\ s.sel \in Selections(s.base)
  /\ s.filter \in Filters
  /\ s.deleted \in Masks(s.base)
  /\ TailTypeOK(s.tail)
  /\ s.indexes \subseteq Indexes
  /\ s.over \in Seq(Quads)

(* Every handle names a well-formed store: selections and masks stay       *)
(* within their table, an All selection covers it, an in-memory or         *)
(* resolved view has no filter left.                                       *)
TypeOK ==
  /\ DOMAIN store \subseteq Handles
  /\ \A h \in DOMAIN store :
       StoreTypeOK(store[h]) /\ store[h].generation \in 1..generation
  /\ disk \in [id : 1..MaxFiles, rows : Seq(Quads), indexes : SUBSET Indexes]
  /\ writable \in BOOLEAN
  /\ generation \in 0..MaxGeneration
  /\ call.on \in Handles /\ call.to \in Handles /\ call.quads \subseteq Quads

Injective(seq, R) == \A i, j \in R : seq[i] = seq[j] => i = j

UndeletedBase(s) == DOMAIN s.base \ s.deleted.rows
UndeletedTail(s) == DOMAIN s.tail.rows \ s.tail.deleted.rows

EachQuadOnce(s) ==
  /\ Injective(s.base, DOMAIN s.base)
  /\ Injective(s.tail.rows, UndeletedTail(s))
  /\ Values(s.base, UndeletedBase(s)) \cap Values(s.tail.rows, UndeletedTail(s)) = {}

(* Set semantics: no two undeleted rows of a store, base and tail taken    *)
(* together, hold the same quad, whatever sequence of adds, deletes,       *)
(* re-adds, views and compactions made it (add_quads' contains, the row    *)
(* keys it reads through, append's renumbering).                           *)
SetSemantics == \A h \in DOMAIN store : EachQuadOnce(store[h])

(* A tail's keys name exactly its rows, under the numbering the rows have  *)
(* now: a key left over from before a renumbering would make contains miss *)
(* or misplace a row.                                                      *)
KeysName(t) == t.keys = RowKeys(t.rows, 0)

KeysAddressTail == \A h \in DOMAIN store : KeysName(store[h].tail)

IndexesAddress(s) == s.indexes # {} => s.over = s.base

(* An index the store routes through was built over the very rows its base *)
(* has: rids address base rows across matches, deletes, round trips.       *)
IndexesAddressBase == \A h \in DOMAIN store : IndexesAddress(store[h])

(* generation(): two stores share one only when they select from the same  *)
(* base rows, tombstones and tail, so what a consumer caches under it for  *)
(* one is true of the other.                                               *)
GenerationIdentifiesData ==
  \A h, k \in DOMAIN store :
    store[h].generation = store[k].generation =>
      /\ store[h].base = store[k].base
      /\ store[h].file = store[k].file
      /\ store[h].deleted = store[k].deleted
      /\ store[h].tail.rows = store[k].tail.rows
      /\ store[h].tail.deleted = store[k].tail.deleted

(* The store implements the abstract dataset.                              *)
Dataset == INSTANCE QuadDataset WITH
             data <- [h \in DOMAIN store |-> LiveQuads(store[h])],
             file <- Values(disk.rows, DOMAIN disk.rows)

ImplementsDataset == Dataset!Spec
============================================================================
