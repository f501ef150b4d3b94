# A TLA+ verification of vortex-rdf

vortex-rdf keeps RDF quads in columnar stores: in memory, or in one file that
is mapped and read in place. This directory holds TLA+ models of its core,
written from the Rust source under `core/src`, the TLC runs that check them on
small instances, and TLAPS proofs of the invariants that matter most.

## 1. The system

`VortexRdfStore` is an immutable value. Every operation, mutations included,
takes a store and returns a new one; the old one goes on answering as before.
A store is *merge-on-read*:

| part | what it is | where |
|---|---|---|
| base | rows sorted in (s, p, o, g) order, resident or in a store file | `store/view/mod.rs` (`QuadsSource`, `Backend`) |
| selection | the base rows a view still covers: all, a range, an id list, or ids still pending in an index | `store/view/selection.rs`, `pending.rs` |
| filter | on a file, the pattern pushed down to the reads and not evaluated yet | `view/mod.rs` (`FileFilter`) |
| tombstones | a mask of deleted base rows | `view/mod.rs` (`union_deleted`) |
| tail | appended rows with their own selection, mask and row keys (hashes for the duplicate check) | `view/mod.rs` (`Tail`), `tail_keys.rs` |
| indexes | secondary copies or row references sorted by another key | `store/indexes/` |
| generation | a process-wide number: what consumers cache under | `store/mod.rs` |

Components, with their state and operations:

* **Store value** (`store/mod.rs`, `construct.rs`): build, open, derive.
* **Queries** (`store/query/`): `match_pattern` narrows base and tail
  independently, by binary search, index probe, scan or pushed-down filter;
  `window` cuts live base rows, then live tail rows; located, kept and served
  reads hand out positions and read rows back.
* **Mutations and compaction** (`store/write/`): `add_quads` appends what the
  store does not hold and may end in an automatic compaction;
  `delete_matching` widens the masks; `compact` rebuilds base and tail into
  one sorted base, in memory or over the file.
* **File replacement** (`io/pending.rs`, `io/file.rs`, `io/write.rs`): a temp
  file, two identity checks, a rename; about ten awaits against a path that
  other processes share.
* **Persistence** (`store/persist/`): open, serialize, and the reader tree
  and memos that concurrent scans of a mapped file share.
* **Builders** (`store/builders/`): the out-of-core sort: term ranks, sorted
  runs spilled to disk, k-way merges that drop duplicates.
* **Layouts and dictionary** (`store/layouts/`): term codes, the resident and
  the file-backed dictionary, its window cache.
* **Zone statistics** (`zone_stats/`), **scans** (`store/scan/`), **encoded
  search** (`encoded-search/`), **container format** (`io/container/`).
* **Bindings** (`java/`, `js/`, `python/`) and the **command line**.

Interaction: a program calls the store; the store's file base calls the shared
readers; compaction calls the builders, then the file replacement, then open.
Stores share the base, the reader tree, the memos and the generation counter;
processes share only the file system.

What is hard: the row numbering changes under keys, masks, selections and
indexes that address rows by number; a match may be left pending and is
evaluated later by another operation; the file can change between any two
awaits; a future can be dropped at any of them; memos are shared by concurrent
scans; the external sort has limits, wrapping stamps and files to clean up.
`PROJECT.json` lists each hazard at its line.

## 2. Modules

| module | models | variables / operators and the code |
|---|---|---|
| `QuadDataset` | the contract, abstract | each handle is a set of quads, each operation a set operation |
| `Store` | `store/mod.rs`, `view/`, `query/matching`, `query/window.rs`, `write/`, `persist/serialize.rs` | `store`: handle to record of the parts above; one action per public operation |
| `MCStore` | small instances of `Store` | |
| `StoreProofs` | TLAPS proofs about `Store`: its invariants; that it implements `QuadDataset` | |
| `StoreFile` | `io/pending.rs`, `io/file.rs`, the file side of `write/` | `pc[t]` is the await a write is at; `dir`, `files`, `link`, `temps` the file system; `handle` what a task mapped |
| `MCStoreFile` | small instances of `StoreFile` | |
| `StoreFileProofs` | TLAPS proofs about `StoreFile` | |
| `ExternalSort` | `builders/` (`runs`, `interner`, `sorted_stream`, `stream_indexes`, `spill`) | one build: `spill` the quad spiller and its scratch, `merger` the merge under way, `entries`/`mergers` the index families, `live`/`holders`/`dir` the streams and the run directory |
| `MCExternalSort` | small instances of `ExternalSort` | |
| `ExternalSortProofs` | TLAPS proofs: what the sort's operators compute; what a build yields | |
| `Selections` | `view/selection.rs`: the three shapes of `RowSelection` | operators only: narrow, window, split, test |
| `RowSelection`, `MCRowSelection` | a selection through chains of those operations | `sel`, `deleted`, and `rows`, the reference as a set |
| `SelectionLemmas` | TLAPS: what the operators of `Selections` compute | |
| `RowSelectionProofs` | TLAPS proofs about `RowSelection` | |
| `ResidualScan`, `MCResidualScan` | `scan/residual.rs`, `view/pending.rs`, `zone_stats/`, the counts and windows over a pending view | `table`, `kinds` (the statistics held), `view`, `ids` (the memo), `answer` |
| `ResidualScanProofs` | TLAPS proofs about `ResidualScan` | |
| `EncodedSearch` | `encoded-search/`: `node.rs`, `search.rs`, `bitpacked.rs`, `delta.rs`, `resolve.rs`, `words.rs`, `owned.rs` | operators only: `Decode` is what an encoding means, `Resolve` the probe tree and what it answers |
| `ColumnChunks`, `MCColumnChunks` | `encoded-search/src/layout.rs`: a column's leaves, fetched on first use and shared | `cells` and `dicts` the leaves fetched, `task[t]` a search and the leaves it touched |
| `FileDict` | `layouts/dictionary/`: the term dictionary, resident and in windows of a file | operators only; each operation twice, as the code has it twice |
| `FileHandle`, `MCFileHandle` | `persist/native_file.rs`, `persist/memo.rs`, `file_backed/cache.rs`, `held.rs`, `handles.rs` | `cache`, `bytes`, `kinds` of the dictionary, `memo`, `tree`, `bound` of the readers, `handles` of the chunk probes, `task[t]` |
| `FileHandleProofs` | TLAPS proofs about `FileHandle` | |
| `IndexRoutes` | `store/indexes/`: the components, the probes, lazy row ids | operators over a store record |
| `SplitScans` | `scan/file_filter.rs`, `file_reads.rs`, `file_exprs.rs`, `read_plan.rs`, `subject_runs.rs` | operators: split masks, pruning, point reads, takes |
| `ViewRoutes` | `view/mod.rs`, `view/selection.rs`, `indexes/serve/`, `query/served.rs` | operators: what a view is pending on and how it is read |
| `ViewQueries` | `query/matching/`, `window.rs`, `keep/`, `partitions.rs`, `read/count.rs`, `read/rows.rs` | operators: one per public operation, every route of it |
| `Routes`, `MCRoutes` | a caller's chain of those operations | `store`, `view`, `need` (what it was matched for), `rows` (the reference) |
| `ProbeBatch`, `MCProbeBatch` | `python/src/batch.rs`, `cancel.rs`, the pulls of `iterators.rs` | `task`, `driver`, `channel`, `answers` (the slot), `lock`, `pull[t]`, `collector`, `token` |
| `ProbeBatchProofs` | TLAPS proofs about `ProbeBatch` | |

**Store.** Quads are numbers in sort order. A row id is a position. An
operation that the code implements by several routes (a match by search, by
index, by scan, by pushed-down filter) is a choice among the views those
routes can leave: `Matches` is that set. So a property of every behaviour is a
property whichever route the planner takes. Row keys are a constant operator
`Hash` that may collide. `TailAppend` renumbers as `Tail::append` does.
`Compacted` replaces the file only while the path names the file the store
opened (in one step; `StoreFile` takes it apart). Failures that change nothing
are left out: they are stuttering steps.

**StoreFile.** Each await of `PendingStore::create_over` and `write` is an
action. `Refuse` and `Fail` are its two ways out: only the writer's own refusal
(`StoreNotWritable`, before anything is built) is absorbed by `add_quads`.
`Cancel` drops the future at any step, `Crash` kills the process, `IoError`
fails any system call. Inode numbers are reused once nothing holds them,
because the identity the code compares is (device, inode). A store's rows are
the set of tasks whose batch they include: what "lost update" needs.

**ExternalSort.** Terms are numbers in byte order; ids and ranks are positions,
so a wrong lookup shows as another term. A run file is its records. The sort's
scratch (`ranks`, `seen`, the wrapping `sorts` stamp) is kept between sorts, as
the code keeps it. A merge step is one turn of the loop in `RunMerger::next`.
The two merges are separate: the first numbers rows for the index entries, the
second yields the rows; that they agree is checked, not assumed. A stream that
reports an error is not read on by its consumers, so an error is the stream's
drop.

**Selections, RowSelection.** A selection is a record of its shape (all, a
range, an ascending id list) and every function of `selection.rs` an operator
on it, its thresholds included. `RowSelection` drives them in any order beside
a plain set of rows; that the shapes never show is the property.

**ResidualScan.** A base is a small table with zone statistics of each kind per
column. A match classifies zones, and either settles at once or leaves the
comparison pending; counts, windows and membership then read the pending view
by the route the code takes (statistics, pieces of growing length with an early
stop, the memoised ids). Several sharers of the view ask, each with its own
tombstones, so a memo filled by one is read by another.

**ProbeBatch.** An action is what a task does between two awaits. An abort is a
request (`doomed`, `killed`) and the stop a later step. `Cancel` and `Notify`
are the two halves of `Token::cancel`; `Wait` the two halves of
`Token::cancelled`. A wait created after the notification is not woken by it,
as tokio documents of `notify_waiters` (external).

**EncodedSearch, ColumnChunks.** An array is a record of its encoding; a node
is built from its children's answers, so that each encoding's own arithmetic
(a slice's offset, a patch, a run's end, a lane of deltas) is in the model and
only `Resolve` recurs. Words have a small width and wrap at it. `ColumnChunks`
searches a column made of several leaves, as flat, zoned, chunked and
dictionary layouts give them. A fetch is two steps: another task may fetch the
same leaf between them, and a request may fail.

**FileDict, FileHandle.** A spelling is a number, in byte order; parsing a
user's text is the table `Canonical`. A dictionary of a file is its windows,
of which only the first and last terms are known before they are read. A query
is planned as stages of window reads; every read may be served from the cache,
wait, or fail, and the cache changes between any two. The reference is
`IsAnswer`, which speaks of ranks in the sorted spellings and of no search.
`Bind` and `Build` are the two halves of `get_or_try_insert_with` under its
lock; `LockReaders`, `LoadClears` and `TakeReader` those of the reader tree.

**IndexRoutes, SplitScans, ViewRoutes, ViewQueries, Routes.** `Store` treats a
match as a choice among the views its routes may leave. This family is the
routes themselves: which index child a pattern probes, what a probe resolves
to in memory and on file, when its ids stay lazy, how a filter becomes masks
split by split, which plan a view is read through, and how windows, keeps and
partitions cut each kind of view. The modules are a chain of EXTENDS, one per
layer of the code. `Routes` takes them through any chain of calls beside
`rows`, the base rows the view should hold, computed from the quads alone. Two
resolutions of cells shared between clones (`count`, `sorted`) are a choice of
each window and count: another clone may have filled them.

External parts, modelled from how the code uses them: the file system
(`Regular`, `Release`), other processes (`Unlink`, `Relink`, `Place`, `PipeAnswers`,
`SetWritable`, `SetDirWritable`) and process death (`Crash`).

## 3. Runs

| run | instance | what it shows |
|---|---|---|
| `store_chain` | 1 handle, 3 quads (two colliding keys), 2 batches (one repeats a quad), an index, 4 generations, 2 files | types, set semantics, exact row keys, index row ids that address the base, and the refinement `Store => QuadDataset`: each call's result is the set the call asked for |
| `store_shared` | 2 handles, 2 quads, every key colliding, 3 generations | a generation number names one data set |
| `file_solo` | 1 task, devices, pipes and directories at the path, permissions, unlink, with fairness | no half-written store at the name, no temp file left, acknowledged rows show; every write ends unless the open of a pipe waits for ever |
| `file_shared` | 2 tasks compacting and building, 2 names, a link retargeted, 3 inodes | replacement is only possible after the second check; mappings and identities are stable |
| `file_lost` | 2 tasks, 1 name | violation: a rename after the second check replaces another writer's result |
| `sort` | 4 builds: 5 quads in runs of 2 with copy families, 5 quads over 2 terms in runs of 4 with reference families, 4 quads past the row limit, 2 quads past the term limit; the stamp wraps at 2 | the out-of-core build yields what the in-memory one does, rows and index entries (their stored offsets included); runs hold the input; run files follow their readers; the first merge ends |
| `selection` | 5 rows, every set of rows, every window | each shape keeps exactly the rows the chain of operations leaves, and answers accordingly |
| `residual` | 5 tables of 7 rows, zones of 3 (the last short), 6 residuals, 4 masks, 4 kinds of statistics | matches, counts and windows are exact by every route |
| `encoded` | 22 columns: every encoding sliced, patched and nested, one leaf or several; 2 tasks, 1 failed request | each bound, read, find and count is the decoded column's; a window's search touches no leaf outside the window |
| `readers` | 2 tasks, 4 dictionary files (own, foreign zones, foreign spellings, a leaf past the budget), 20 queries; 4 scans of 3 shapes with a memo of 2; 4 probes of 2 columns | a dictionary on file answers as a resident one; the cache accounts for its bytes; one identity per shape and generation; no scan asks a reader tree of another generation; trees never go back; chunk handles are shared |
| `routes` | 48 stores of 6 rows (backend, layout, zone maps, order, index kind, tombstones), 10 patterns, 6 windows, 3 keeps, 2 and 3 partitions | by every route a view reads, counts and resolves to exactly the rows asked for, in the order it claims, and is never left unreadable |
| `batch` | 5 probes, window of 2, 2 threads, at most 6 calls | answers in order and complete, bounded, cancellable; nothing keeps running; every call returns |

Bounds. Three quads are what it takes for a tail with a deleted, a kept and a
re-added row whose keys collide. Thresholds of 2 and 3 rows let an append stay,
compact by ratio and compact by cap. Four generations allow build, add, delete,
add. Two files make one compaction over a file and a stale handle afterwards.
`MaxGeneration` also bounds the run's length: operations that take no
generation (matches, windows, clones) do not. In `StoreFile` two tasks suffice
for a check-then-act race; three inodes let one number be reused while another
is held. Five quads in runs of two give two full runs and a partial one, so the
stamp of two values wraps and runs overlap; four quads per run let terms repeat
often enough for the sort by ranks, the third build has a row too many and the
fourth a term too many. Seven rows in zones of three give a zone settled either
way, an open one and a short one, and pieces that cross a zone's end. Five probes exceed window and channel together, so both fill and the
driver waits with an answer in hand. In `encoded` a block is four values in two
lanes and a word ten values, so that a slice starts inside a block, a patch
lies outside it and an interpolation meets both clamps. In `readers` the
budget holds two windows of three, so queries of two tasks evict each other's;
three shapes against a cap of two make the memo clear while a scan holds an
identity. In `routes` six rows are two splits and three zones, the thresholds
of the code (when to route, defer, cut a walk into pieces, point-read, fill
pins, take, sort by bitmap) are set where six rows have cases on both sides,
and the views of six rows are finitely many, so chains of any length are
explored without a counter. The first piece of a walk is two rows: a window
that wants one row of a filtered view reads it in pieces of two, which cut the
masks within a split.

`call` is a history variable: the refinement maps it to the contract's `call`,
so the contract must match the very operation called. It is hidden by `VIEW`
from the fingerprint: no action reads it, so two states that differ only in it
have the same successors, and TLC checks `[Next]` of the contract on every
step it generates. Handles, tasks, names and inodes are symmetric where a
configuration says so: no configuration gives one of them a role, and no
liveness is checked under symmetry.

Deadlock is checked for `selection` only: the generation bound stops `Store`,
`StoreFile`'s tasks may all be done, a build ends, a residual is settled and a
batch is over once it is dropped, tasks of a file handle and of a column have
a bounded workload, and a view may be cut to nothing.

Fairness. `sort`: weak fairness of `IndexRow` and `IndexEnd`, because
`merge_feeding_indexes` is a loop without an await. `file_solo`: weak fairness
of `Step(t)`: an executor polls a woken task, and a system call on a local file
system returns. The open of a pipe is the exception, and `PendingStore`
documents it: it waits for the process at the other end. So an open that finds
a pipe leaves the task at a waiting step (`feed`, `probewait`, `reopenwait`), whose
end is `PipeAnswers`, the other process's action and not fair. The three are
the build that takes a pipe in place, the probe of a target that a pipe
replaced after its `stat`, and the reopening of a path at which a pipe stands
by then. `WritesEnd` says just what this leaves: a write ends or stays at one
of those opens for ever. Nothing is assumed of `Open`, `Begin`, `Cancel`, of
errors or of others. `batch`: the runtime polls woken tasks and drops aborted ones, a
thread inside a call goes on, and `cancel` gets from its store to its notify;
nothing is assumed of callers, and a probe may hang for ever. Only
`CallsReturn` assumes, in its own premise, that probes finish.

Each property has a mutant in `PROJECT.json`: a plausible bug in a mapped
definition (a dropped guard, a stale mask, a forgotten filter) that the run
must catch.

## 4. Findings

* `ReplacesOnlyOpened`: `io/pending.rs` documents that a store written over
  the file it was opened from "replaces only that file". The check and the
  rename are two steps; a second compaction between them is lost.

`io/pending.rs` also documents that "the old file is never modified". One
order of steps does modify it, and is in the model (`Overwrite`) though no run
is about it: a build finds a device at the path (line 130), the path's link is
retargeted to a store, and the open for writing that follows (136), which
neither truncates nor looks at what it opened, puts the bytes over that store's
own. The instances of `file_solo` and `file_shared` do not reach it, and what
it would break (`NameIsComplete`, `MappingsAreStable`) is proved of the
behaviours without it: see `StreamsStay` below.

## 5. Proofs

Every theorem holds for every value of the constants that satisfies the named
assumptions: any number of tasks, files, probes, rows; any batch, pattern,
hash and threshold. TLC evaluates the assumptions on each run.

| module | theorem | states |
|---|---|---|
| `StoreProofs` | `TypeCorrect` | `Spec => []TypeOK` |
| | `SetSemanticsHold` | `Spec => []SetSemantics` |
| | `KeysStayExact` | `Spec => []KeysAddressTail` |
| | `IndexesStayValid` | `Spec => []IndexesAddressBase` |
| | `GenerationsSound` | `Spec => []GenerationIdentifiesData` |
| | `StoreImplementsDataset` | `Spec => ImplementsDataset`: `Store` implements `QuadDataset` |
| `StoreFileProofs` | `TypeCorrect` | `Spec => []TypeOK` |
| | `NamesAreComplete` | `Spec /\ []StreamsStay => []NameIsComplete` |
| | `TempsAreRemoved` | `Spec => []NoTempLeftBehind` |
| | `ReplacementsAreLate` | `Spec => []OnlyLateReplacement` |
| | `MappingsStay` | `Spec /\ []StreamsStay => MappingsAreStable`, an action property |
| | `NoStreamsStay` | where no device or pipe is ever at the path, `Spec => []StreamsStay` |
| | `SoloStreamsStay` | with one task and no relinking, `Spec => []StreamsStay` |
| | `AcknowledgedRowsStay` | with one task and no relinking, `Spec => AcknowledgedRowsShow`, an action property |
| `FileHandleProofs` | `IdentitiesStayPinned` | `Spec => []IdentitiesPinned` |
| | `ScansStayInGeneration` | `Spec => []AskedInGeneration` |
| | `HandlesStayShared` | `Spec => []HandlesShared` |
| | `TreesAdvance` | `Spec => TreesNeverGoBack`, an action property |
| | `CacheStaysAccounted` | `Spec => []CacheAccounted` |
| `ProbeBatchProofs` | `BatchStaysBounded` | `Spec => []Bounded` |
| | `AnswersComeInOrder` | `Spec => []InOrder` |
| | `CollectHoldsAll` | `Spec => []CollectsAll` |
| `ExternalSortProofs` | `RunsGoWithReaders` | `Spec => []RunsFollowReaders` |
| | `RunsKeepInput` | `Spec => []RunsHoldInput` |
| | `QuadsAgree` | `Spec => []BuildersAgree` |
| | `FamiliesAddressRows` | `Spec => []FamiliesAgree` |
| `RowSelectionProofs` | `TypeCorrect` | `Spec => []TypeOK` |
| | `SelectionsStayExact` | `Spec => []SelectsExactly` |
| | `SplitsPartition` | `Spec => []PiecesPartition` |
| `ResidualScanProofs` | `MatchExact` | `Spec => []MatchIsExact` |
| | `CountsExact` | `Spec => []CountsAreExact` |
| | `WindowsExact` | `Spec => []WindowsAreExact` |

**Store.** None of the five is inductive alone. Set semantics after an append
needs `contains` to be complete, which needs the row keys to be exact under the
tail's present numbering (`ContainsComplete`), which needs the masks and
selections to lie within their tables; opening a file needs each quad once in
the file, which holds because builds and compactions sort and deduplicate. So
`IInv` is the conjunction of the five with `Injective(disk.rows, ...)`. Its
per-store part is `Sound(s)`: views keep it because they share the data
(`MatchesShare`, `WindowsShare`, `ViewSound`); builds, opens and compactions
because a fresh base is sorted (`SortedRows`, `FreshSound`); appends by
`AppendedSound`; deletes by `DeletedSound`; round trips by `SerializedSound`.
`BindPreserves` lifts a sound result to `IInv'`, and `NextInv` has one step per
action. The lemmas underneath say what `Ascending` and `Gather` compute: ranks
in a finite set of numbers are exactly 0 .. n-1 (`RankOrder`, `RankOnto`), so
`Ascending` lists each member once. Assumptions: `QuadsAssumption` (a finite
set of numbers), `PatternsAssumption`, `BatchesAssumption`,
`BoundsAssumption`.

**Store implements QuadDataset.** The mapping takes each handle to the set of
quads its undeleted, selected rows hold, and the disk to the quads of its file.
There is a lemma for what each operation leaves to a reader: a match by any
route selects exactly the quads that match (`MatchLive`, with the pending
filter and the tail, `MatchBaseRows` and `MatchTailSelects`); an append adds
exactly the batch (`AppendLive`, `ContainsSound`, `FreshCompletes`); a delete
removes exactly what matches and is admitted (`DeleteLive`); a window has
exactly the size the contract promises (`CutSize`, `LiveSize`, `WindowLive`);
a rebuild or a round trip changes nothing (`RebuiltLive`, `SerializedLive`).
`BuildMaps`, `AddMaps`, `CopyMaps`, `ViewMaps` and `DropMaps` turn them into
steps of the contract, `NextMaps` has one step per action, and `IInv` is the
invariant they all use: without exact keys an append could skip a new quad,
without set semantics a window's count would not be the set's.

**StoreFile.** `IndInv` has a part per task: while a write owns a temporary
file it stands in the directory and belongs to nobody else (`OwnsTemp`,
`TempsApart`), once written it is whole (`WroteAll`), a mapped file stands
(`MapStands`), a compaction writes over the file its receiver mapped
(`WritesOverItsStore`), and before the rename the target is the file opened or
the change came late (`LateOrChecked`); and for the directory: each temporary
is a write's or an orphan (`TempsStand`), each name leads to a file that is no
temporary (`NamesStand`). The last two are what makes the renames safe against
errors, cancels and crashes at every await. TLC checked `IndInv` first, on the
instances of `file_solo` and `file_shared`.

`StreamsStay` says that while a build is about to open a device or a pipe in
place, no regular file comes to be at the path. It is the premise of
`NamesAreComplete` and `MappingsStay`, and they need it: section 4 describes
the steps by which an in-place write goes over a store that others may map.
`NoStreamsStay` and `SoloStreamsStay` say where the premise holds: where the
path is never a device or a pipe (`file_shared`), and where one process writes
and nobody moves the link (`file_solo`). The other theorems hold without it.
`MappingsStay` adds that a step changes a file only by a release, at a free
inode, or at a temporary. `AcknowledgedRowsStay` is about one writing process
with nobody moving the link: its hypothesis is `file_solo`'s configuration, and
`file_lost` shows what happens without it. Assumptions: `NamesAssumption`,
`InodesAssumption`, `SpecialAssumption`.

**FileHandle.** `SharedInv`: a miss builds under the memo's lock, and what it
builds is still missing (`LocksHeld`); the count of clears loaded under the
readers' lock lies between the tree's generation and the present count
(`LoadIsCurrent`); while the memo has not cleared since a scan began, the
identity and the tree it has are of that generation (`ScanIsCurrent`); a probe
has its column's handle (`HandleIsKept`); the memo's map is exactly what was
bound in its generation (`MemoIsBound`). `CacheInv` is about the window cache:
its charge is the sum of its windows' charges, no window is in it twice, and it
is within the budget (`Accounts`), and what an in-place decode holds is too
(`HoldsFit`). That no window is twice in the cache is what keeps the sum right
when two tasks fetch the same window: the second insert refreshes the first's
(`TouchAccounts`). A touch moves a charge to the end of the sum (`WorthMoved`);
an insert drops the least prefix that makes room, all of it at worst
(`EvictedFits`), and takes that prefix's charge off (`WorthEvicted`,
`EvictAccounts`). What `SumSeq` computes follows from the least position at
which it would differ from a running total (`SumIsTotal`). Assumptions:
`HandleAssumption`, `FilesAssumption` (a leaf holds numbers).

**ProbeBatch.** `IndInv`: the driver's window is the latest probes spawned and
no longer than `Lookahead` (`WindowIsLatest`, `WindowIsBounded`), the channel
holds the next answers in order (`ChannelInOrder`), at most one pull is under
way and holds the slot (`OnePull`), and the log of an iteration, or what a
collect has, is the answers so far (`Iterating`, `Collecting`). The bound then
adds up over window, channel and slot. TLC checked `IndInv` first on the
instance of `batch`. Assumption: `BatchSizes`.

**ExternalSort.** What a recursive definition computes cannot be proved by an
induction theorem here, but the sort is a loop, and its steps keep invariants:
`SpillInv` (runs ascend and hold, with the buffer, what was ingested, whatever
the stamp wraps to), `QuadsInv` (the merge has yielded exactly the records
below every reader's head, in order, each once), `FamiliesInv` (the first merge
numbers a record by how many lie below it; a family's runs hold the entries of
exactly those; its merge yields them in the family's order) and `GuardInv` (who
keeps the run directory). The module's first part is what the operators do: ranks are
order preserving and one to one, so a run sorted by rank is sorted by term;
merging ascending runs yields the least record; equal records leave all readers
together. A record's number among the rows is its rank in the set of all
records, for both merges, which is why the two agree. Where an induction on
numbers is needed the proof takes the least number in a set (`LeastNumber`).
Assumptions: `BuildsAssumption`, `SizesAssumption`.

**RowSelection.** `IInv` says that the selection is one of three shapes of the
reference set (`Selects`: all rows, a range within the table, or the set's
list) and that without a mask nothing is deleted (`Tombstones`); TLC checked it
first on the instance of `selection`. `SelectsExactly` is what a selection
answers; `Selects` is what the operations rely on, a range that needs no clamp
and an ascending list. The proof has one lemma per operation: what `intersect_range`, `intersect_ids`, `refine`,
`narrow_to_ids`, `intersect_runs` (of the two runs that `NarrowRuns` takes),
`window` and a piece of `split` select, for any selection, table length,
offset and number of parts. They rest, in `SelectionLemmas`, on `Lists(seq, R)`:
seq is R's rows in order. A set has one list (`OneList`), as long as the set is large
(`ListSize`); a row's place in its set is its position (`PlaceIs`), which makes
a slice a window of the set (`CutByPlace`); a bisection splits a list
(`BelowCuts`, `SearchOn`). The loops of `Selections` are recursive functions:
each is shown to be the run of a machine that steps its state (`RunExists`,
`StepsRun`), and what its state holds after k steps is an invariant of the
machine (`MergeKeeps` for the merge of two id lists, `GallopedLists` for the
galloping one, `FilteredLists` for a filter). `SplitNumbers` is the arithmetic
of rounding a piece up: at most k pieces, each starting before the end, the
last reaching it. Assumptions: `LengthAssumption`, `SelectionSizes`.

**ResidualScan.** `ScanInv`: a kept match is the list of the rows asked for; a
pending one compares, on the selection it was made on, equalities satisfied by
just the rows that satisfy the pattern's (those settled for the whole table are
gone); ids remembered are those of a pending match; and a call that returned was
made on one. TLC checked it first on the instance of `residual`. What the
answers are then follows from the operators, in four layers. What a zone's
statistics say (`ClassOf`): an equality settled by bounds or recorded values is
satisfied by all of the zone's rows, or by none. What a step of the plan says of
the rows of its span (`Says`): skip none match, take all do, compare the bits
left and get the matches, and an unread count is the number of live matches;
`Stepped` says that the steps tile their span, which joining and stretching them
keep (`StretchedSteps`). What a piece or a zone read for a window finds
(`Reads`), each going on in row order after the last (`Walks`, `Reaches`); for
a selection that is a range, one that is ids, and one that is the whole table,
cut at zones or at pieces. And the loops over the parts: the rows kept, the
running count and its cap, and the window's cursor (`CursorSound`), which has
shown exactly the matches placed from offset to offset + limit among those
passed, and passed all, or is full. `WindowWalkShows` concludes that skipping an
unread part, when its matches lie before the offset, and stopping, when the
window is full, move no row. `CountsExact` and `WindowsExact` cover the
remembered ids as well, which `MatchIsExact` ties to the same rows. Assumptions:
`ScanInputs` (tables are sequences of rows of codes; an equality names a column;
selections to start from are ones a table of that length can have) and
`SelectionSizes`.

*Only model-checked.* Liveness (`WritesEnd`, `FirstMergeEnds`,
`CancelEndsPull`, `OverStopsProbes`, `CallsReturn`): TLAPS does not do fairness
or ENABLED. `ColumnChunks` (`AnswersExact`, `WindowLocal`), whose searches
recur over trees of encodings. `ResidencyAgrees`, whose answers are bisections
and gallops, recursive definitions over data. `Routes` (`Readable`,
`ReadsExact`, `CountsAgree`, `IdsAgree`), whose operators are every route of
every public operation over small tables, in which a proof would repeat the
definitions' case analysis.

## 6. Not modelled

Byte layouts, parsing and formatting of RDF terms, the container format, the
query planner's cost estimates, Windows' file sharing rules, the Java and
JavaScript bindings, command line and benchmarks: pure I/O, or data that the
models abstract. The column kernels and joins (`columns/join.rs`,
`kernels.rs`) are pure functions of columns, with unit tests over the same
inputs TLC could enumerate. The batch planner (`query/batch.rs`,
`query/located/`) answers many patterns by the searches `Routes` already
takes one at a time. The tail is in `Store`, not in `Routes`: base and tail are
matched, windowed and counted independently, and `Store` composes them.
Per-file caches that are one `OnceLock` each are left out of `FileHandle`.

Within the modelled parts, these details are abstracted. `KeepLocated`: a
subject search whose chunk probes decline falls back to the decode
(`keep/memory.rs:148-153`, `subject_runs.rs`); the probes of `Routes` do not
decline. `SortUniqueId`: the bitmap is a set of ids, not 64-bit words, and the
refusal of tables past 32-bit row ids is left out. `Resolve` of `EncodedSearch`:
the delta block copied by `ReadInto`, the block loop of `EqInto`, `Count`'s
byte tally and the 128-bit product of an interpolation are modelled by their
results. `ColumnChunks`: a leaf is fetched or not; what a fetch stores is the
leaf asked for. `QuadDataset`: of a window the contract fixes the size; which
rows it shows is checked in `selection` and `routes`.
`PROJECT.json` gives the reason for each component.

## 7. Plan

*Modelled and checked*: `QuadDataset`, `Store`, `StoreFile`, `ExternalSort`,
`Selections` with `RowSelection`, `ResidualScan`, `ProbeBatch`, `EncodedSearch`
with `ColumnChunks`, `FileDict` with `FileHandle`, and the routes
(`IndexRoutes` to `Routes`).

*Proved*: the invariants of `Store` and its refinement to `QuadDataset`; the
safety properties of `StoreFile`, `ProbeBatch`, `ExternalSort`, `RowSelection`
and `ResidualScan`; those of `FileHandle` but for what a query answers.
