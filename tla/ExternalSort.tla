---------------------------- MODULE ExternalSort ----------------------------
(***************************************************************************)
(* SortedStreamBuilder: one out-of-core build.  Terms are interned as they *)
(* arrive, quads buffered as term ids, full buffers sorted and spilled as  *)
(* runs, the terms ranked, and the runs merged, once to number the rows    *)
(* and spill the index families' entries, once to stream the rows out      *)
(* beside the families' own merges.                                        *)
(*                                                                         *)
(* A term is a number, in byte order; a quad is <<s, p, o, g>>.  Ids and   *)
(* ranks are positions (1 is the code's 0), row ids count from 0.  A run   *)
(* file is the sequence of its records, a chunk the rows in it.            *)
(***************************************************************************)
EXTENDS Naturals, Sequences, FiniteSets

CONSTANTS Builds,      \* the builds asked for: see BuildsAssumption
          TERM_CAP,    \* the most distinct terms a build may hold
          ROW_LIMIT,   \* the most rows an indexed build may number
          STAMPS       \* the sort stamps before the counter wraps (2^32)

(* A build: the quads its stream may yield and the bound on how many,      *)
(* BuildSizes::run_rows, the largest row offset a run record holds         *)
(* (u32::MAX) and the index families requested, of which each index type   *)
(* brings a pair (IndexSpillers::new).                                     *)
ASSUME BuildsAssumption ==
  \A b \in Builds :
    /\ b.input \subseteq [1..4 -> Nat]
    /\ b.maxInput \in Nat /\ b.runRows \in Nat \ {0}
    /\ b.offsetMax \in Nat /\ b.runRows <= b.offsetMax    \* EntrySpiller::new refuses more
    /\ b.families \in {{}, {"o", "p"}, {"posg", "ospg"}, {"o", "p", "posg", "ospg"}}
ASSUME SizesAssumption ==
  /\ TERM_CAP \in Nat /\ ROW_LIMIT \in Nat
  /\ STAMPS \in Nat /\ STAMPS >= 2

VARIABLES build,     \* the build asked for
          phase,     \* "ingest", "index", "streams" or "failed"
          input,     \* history: the quads the stream yielded
          terms,     \* TermInterner: the distinct terms by id
          spill,     \* QuadSpiller: buffer, runs, and the sort's scratch
          merger,    \* the merge of the quad runs under way
          rows,      \* rows numbered so far
          entries,   \* family -> its EntrySpiller: buffer and runs
          mergers,   \* family -> the merge of its runs
          out,       \* what each stream has yielded
          ended,     \* the streams that ran to their end
          live,      \* the streams neither ended nor dropped
          holders,   \* who holds the TempRunsGuard
          dir,       \* the guard's run directory exists
          error      \* why the build failed

vars == <<build, phase, input, terms, spill, merger, rows, entries, mergers, out, ended, live, holders, dir, error>>

Input     == build.input
MaxInput  == build.maxInput
Families  == build.families
RunRows   == build.runRows
OffsetMax == build.offsetMax

Streams == {"quads"} \cup Families

-----------------------------------------------------------------------------
(* Orders                                                                  *)

Values(seq) == {seq[i] : i \in DOMAIN seq}

Less(a, b) == \E i \in DOMAIN a : a[i] < b[i] /\ \A j \in 1..(i - 1) : a[j] = b[j]

(* A set of tuples in order under key: sort_unstable, then dedup.          *)
SortedBy(S, key(_)) ==
  [i \in 1..Cardinality(S) |-> CHOOSE x \in S : Cardinality({y \in S : Less(key(y), key(x))}) = i - 1]

Sorted(S) == SortedBy(S, LAMBDA x : x)

(* Each id of each tuple looked up in a table; 0 is past it.               *)
Through(table, ids) ==
  [i \in DOMAIN ids |-> IF ids[i] \in DOMAIN table THEN table[ids[i]] ELSE 0]

-----------------------------------------------------------------------------
(* TermInterner                                                            *)

Intern(ts, t) == IF t \in Values(ts) THEN ts ELSE Append(ts, t)

InternQuad(ts, q) == Intern(Intern(Intern(Intern(ts, q[1]), q[2]), q[3]), q[4])

IdOf(ts, t) == CHOOSE i \in DOMAIN ts : ts[i] = t

(* finish: every id's rank among the terms.                                *)
RankOf(ts) == [i \in DOMAIN ts |-> Cardinality({j \in DOMAIN ts : ts[j] < ts[i]}) + 1]

-----------------------------------------------------------------------------
(* QuadSpiller                                                             *)

NewSpill == [buf |-> <<>>, runs |-> <<>>, ranks |-> <<>>, seen |-> <<>>, sorts |-> 0]

(* Mutant of Stamped: the marks survive the wrap.                          *)
StampedUnreset(sp, ts) ==
  [sorts |-> (sp.sorts + 1) % STAMPS,
   seen  |-> [id \in DOMAIN ts |-> IF id \in DOMAIN sp.seen THEN sp.seen[id] ELSE 0]]

(* The next sort's stamp, and the marks it finds: a wrap clears them.      *)
Stamped(sp, ts) ==
  LET next == (sp.sorts + 1) % STAMPS
  IN [sorts |-> IF next = 0 THEN 1 ELSE next,
      seen  |-> [id \in DOMAIN ts |->
                   IF next # 0 /\ id \in DOMAIN sp.seen THEN sp.seen[id] ELSE 0]]

(* Quads compared term by term.                                            *)
TermRun(buf, ts) == SortedBy(Values(buf), LAMBDA ids : Through(ts, ids))

(* Quads compared as ranks among the buffer's terms, read back as ids.     *)
RankRun(buf, ranks, byTerm) ==
  LET run == Sorted({Through(ranks, ids) : ids \in Values(buf)})
  IN [i \in DOMAIN run |-> Through(byTerm, run[i])]

(* sort_buf and flush_run: the buffer sorted in its terms' order, each     *)
(* quad once; by ranks where its terms repeat.                             *)
Flushed(sp, ts) ==
  LET stamped  == Stamped(sp, ts)
      held     == UNION {Values(ids) : ids \in Values(sp.buf)}
      distinct == {id \in held : stamped.seen[id] # stamped.sorts}
      tuples   == SortedBy({<<id>> : id \in distinct}, LAMBDA x : Through(ts, x))
      byTerm   == [r \in DOMAIN tuples |-> tuples[r][1]]
      kept     == [id \in DOMAIN ts |-> IF id \in DOMAIN sp.ranks THEN sp.ranks[id] ELSE 1]
      ranks    == [id \in DOMAIN ts |->
                     IF id \in distinct THEN CHOOSE r \in DOMAIN byTerm : byTerm[r] = id
                                        ELSE kept[id]]
      termwise == 2 * Cardinality(distinct) > Len(sp.buf)
  IN [buf   |-> <<>>,
      runs  |-> Append(sp.runs, IF termwise THEN TermRun(sp.buf, ts)
                                            ELSE RankRun(sp.buf, ranks, byTerm)),
      ranks |-> IF termwise THEN kept ELSE ranks,
      seen  |-> [id \in DOMAIN ts |-> IF id \in held THEN stamped.sorts ELSE stamped.seen[id]],
      sorts |-> stamped.sorts]

(* push: a full buffer is spilled first, so RunRows quads stay in memory. *)
Pushed(sp, ids, ts) ==
  LET room == IF Len(sp.buf) = RunRows THEN Flushed(sp, ts) ELSE sp
  IN [room EXCEPT !.buf = Append(@, ids)]

(* finish and ranked: the runs as rank tuples, the one in-memory run       *)
(* sorted by rank.                                                         *)
RankedRuns(sp, ts) ==
  LET ranks  == RankOf(ts)
      last   == IF sp.buf = <<>> THEN sp ELSE Flushed(sp, ts)
      Ranked(run) == [i \in DOMAIN run |-> Through(ranks, run[i])]
  IN IF sp.runs = <<>> THEN <<Sorted(Values(Ranked(sp.buf)))>>
     ELSE [i \in DOMAIN last.runs |-> Ranked(last.runs[i])]

-----------------------------------------------------------------------------
(* RunMerger: the heap holds the head of every run that is not drained.    *)

NewMerger(runs) == [runs |-> runs, at |-> [i \in DOMAIN runs |-> 1], last |-> <<>>]

Undrained(m) == {i \in DOMAIN m.runs : m.at[i] <= Len(m.runs[i])}
HeadOf(m, i)  == m.runs[i][m.at[i]]

(* The run whose head is popped: the least item, then the first run.       *)
Popped(m) ==
  CHOOSE i \in Undrained(m) :
    \A j \in Undrained(m) : Less(HeadOf(m, i), HeadOf(m, j)) \/ (HeadOf(m, i) = HeadOf(m, j) /\ i <= j)

Item(m) == HeadOf(m, Popped(m))

(* Mutant of Repeats: a repeat is looked for inside one run only.          *)
RepeatsInRun(m) == m.at[Popped(m)] > 1 /\ m.runs[Popped(m)][m.at[Popped(m)] - 1] = Item(m)

Repeats(m) == m.last = Item(m)

(* Mutant of Refilled: a repeat's run is not read on.                      *)
RefilledStuck(m) ==
  IF Repeats(m) THEN m ELSE [m EXCEPT !.at[Popped(m)] = @ + 1, !.last = Item(m)]

Refilled(m) == [m EXCEPT !.at[Popped(m)] = @ + 1, !.last = Item(m)]

-----------------------------------------------------------------------------
(* EntrySpiller                                                            *)

(* A family's entry for row rid: a reference entry orders by value and row *)
(* id, a copy entry by the quad in the family's key order.                 *)
Entry(f, r, rid) ==
  CASE f = "o"    -> <<r[3], rid, r[4]>>
    [] f = "p"    -> <<r[2], rid, r[4]>>
    [] f = "posg" -> <<r[2], r[3], r[1], r[4], rid>>
    [] f = "ospg" -> <<r[3], r[1], r[2], r[4], rid>>

RidAt(f) == IF f \in {"o", "p"} THEN 2 ELSE 5

(* Mutant of FirstRow: the first entry's row id taken for the least.       *)
FirstRowOfFirst(f, buf) == Sorted(Values(buf))[1][RidAt(f)]

FirstRow(f, buf) == CHOOSE r \in {e[RidAt(f)] : e \in Values(buf)} :
                      \A e \in Values(buf) : r <= e[RidAt(f)]

OffsetsFit(f, buf) ==
  \A e \in Values(buf) : FirstRow(f, buf) <= e[RidAt(f)] /\ e[RidAt(f)] <= FirstRow(f, buf) + OffsetMax

(* flush_run: sorted, row ids as offsets from the run's first.             *)
EntryRun(f, buf) ==
  LET first == FirstRow(f, buf)
  IN [first |-> first,
      recs  |-> [i \in DOMAIN Sorted(Values(buf)) |->
                   [Sorted(Values(buf))[i] EXCEPT ![RidAt(f)] = @ - first]]]

(* EntryRunReader: the row ids back from the offsets.                      *)
ReadBack(f, run) == [i \in DOMAIN run.recs |-> [run.recs[i] EXCEPT ![RidAt(f)] = @ + run.first]]

NeedsFlush(sp) == Len(sp.buf) = RunRows

EntryPushed(f, sp, e) ==
  IF NeedsFlush(sp) THEN [buf |-> <<e>>, runs |-> Append(sp.runs, EntryRun(f, sp.buf))]
  ELSE [sp EXCEPT !.buf = Append(@, e)]

(* into_merger.                                                            *)
EntryMerger(f, sp) ==
  IF sp.runs = <<>> THEN NewMerger(<<Sorted(Values(sp.buf))>>)
  ELSE LET runs == IF sp.buf = <<>> THEN sp.runs ELSE Append(sp.runs, EntryRun(f, sp.buf))
       IN NewMerger([i \in DOMAIN runs |-> ReadBack(f, runs[i])])

-----------------------------------------------------------------------------
(* build_chunk_stream                                                      *)

NoMerger == NewMerger(<<>>)

Init ==
  /\ build \in Builds
  /\ phase = "ingest"
  /\ input = <<>> /\ terms = <<>> /\ spill = NewSpill
  /\ merger = NoMerger /\ rows = 0
  /\ entries = [f \in Families |-> [buf |-> <<>>, runs |-> <<>>]]
  /\ mergers = [f \in Families |-> NoMerger]
  /\ out = [x \in Streams |-> <<>>] /\ ended = {}
  /\ live = {} /\ holders = {"build"} /\ dir = TRUE
  /\ error = "none"

(* The guard's holders are now hs: dropped by the last, it removes its     *)
(* directory.                                                              *)
Hold(hs) == holders' = hs /\ dir' = (dir /\ hs # {})

(* An error returns: everything the build holds is dropped.                *)
Fail(why) ==
  /\ phase' = "failed" /\ error' = why /\ Hold({})
  /\ UNCHANGED <<build, input, terms, spill, merger, rows, entries, mergers, out, ended, live>>

(* A quad of the input stream: interned, pushed.                           *)
Ingest(q) ==
  LET ts == InternQuad(terms, q) IN
  /\ phase = "ingest" /\ Len(input) < MaxInput
  /\ IF Len(ts) > TERM_CAP THEN Fail("terms")
     ELSE /\ input' = Append(input, q)
          /\ terms' = ts
          /\ spill' = Pushed(spill, [i \in 1..4 |-> IdOf(ts, q[i])], ts)
          /\ UNCHANGED <<build, phase, merger, rows, entries, mergers, out, ended, live, holders, dir, error>>

(* Mutant of StartStreams: the families' sources do not hold the guard.    *)
StartStreamsQuadsOnly(runs) ==
  /\ phase' = "streams"
  /\ merger' = NewMerger(runs)
  /\ live' = Streams
  /\ Hold({"quads"})
  /\ UNCHANGED <<build, input, terms, rows, out, ended, error>>

(* The build returns its streams, each holding the guard.                  *)
StartStreams(runs) ==
  /\ phase' = "streams"
  /\ merger' = NewMerger(runs)
  /\ live' = Streams
  /\ Hold(Streams)
  /\ UNCHANGED <<build, input, terms, rows, out, ended, error>>

(* The input ends: the last run, the ranks; with indexes, a first merge.   *)
Freeze ==
  /\ phase = "ingest"
  /\ spill' = NewSpill
  /\ IF Families = {}
     THEN StartStreams(RankedRuns(spill, terms)) /\ UNCHANGED <<entries, mergers>>
     ELSE /\ phase' = "index"
          /\ merger' = NewMerger(RankedRuns(spill, terms))
          /\ UNCHANGED <<build, input, terms, rows, entries, mergers, out, ended, live, holders, dir, error>>

(* merge_feeding_indexes: one turn of the merge's loop.                    *)
IndexRow ==
  /\ phase = "index" /\ Undrained(merger) # {}
  /\ IF Repeats(merger)
     THEN /\ merger' = Refilled(merger)
          /\ UNCHANGED <<build, phase, rows, entries, live, holders, dir, error, out, ended, mergers, input, terms, spill>>
     ELSE IF rows >= ROW_LIMIT THEN Fail("rows")
     ELSE IF \E f \in Families : NeedsFlush(entries[f]) /\ ~OffsetsFit(f, entries[f].buf)
     THEN Fail("offset")
     ELSE /\ merger' = Refilled(merger)
          /\ rows' = rows + 1
          /\ entries' = [f \in Families |-> EntryPushed(f, entries[f], Entry(f, Item(merger), rows))]
          /\ UNCHANGED <<build, phase, live, holders, dir, error, out, ended, mergers, input, terms, spill>>

IndexEnd ==
  /\ phase = "index" /\ Undrained(merger) = {}
  /\ IF \E f \in Families : entries[f].runs # <<>> /\ ~OffsetsFit(f, entries[f].buf)
     THEN Fail("offset")
     ELSE /\ mergers' = [f \in Families |-> EntryMerger(f, entries[f])]
          /\ entries' = [f \in Families |-> [buf |-> <<>>, runs |-> <<>>]]
          /\ StartStreams(merger.runs)
          /\ UNCHANGED spill

-----------------------------------------------------------------------------
(* The streams: polled in any order, dropped at any time                   *)

(* One turn of a merge's loop under next_batch.                            *)
Turn(x, m) == out' = IF Repeats(m) THEN out ELSE [out EXCEPT ![x] = Append(@, Item(m))]

PollQuads ==
  /\ phase = "streams" /\ "quads" \in live /\ Undrained(merger) # {}
  /\ merger' = Refilled(merger)
  /\ Turn("quads", merger)
  /\ UNCHANGED <<build, phase, input, terms, spill, rows, entries, mergers, ended, live, holders, dir, error>>

PollFamily(f) ==
  /\ phase = "streams" /\ f \in live /\ Undrained(mergers[f]) # {}
  /\ mergers' = [mergers EXCEPT ![f] = Refilled(@)]
  /\ Turn(f, mergers[f])
  /\ UNCHANGED <<build, phase, input, terms, spill, rows, merger, entries, ended, live, holders, dir, error>>

(* The end of a stream drops what it holds.                                *)
EndStream(x) ==
  /\ phase = "streams" /\ x \in live
  /\ Undrained(IF x = "quads" THEN merger ELSE mergers[x]) = {}
  /\ ended' = ended \cup {x}
  /\ live' = live \ {x} /\ Hold(holders \ {x})
  /\ UNCHANGED <<build, phase, input, terms, spill, merger, rows, entries, mergers, out, error>>

(* A stream abandoned unfinished, by its consumer or after an error.       *)
DropStream(x) ==
  /\ phase = "streams" /\ x \in live
  /\ live' = live \ {x} /\ Hold(holders \ {x})
  /\ UNCHANGED <<build, phase, input, terms, spill, merger, rows, entries, mergers, out, ended, error>>

(* The input stream fails, the build's future is dropped while it waits    *)
(* for a quad, or a run cannot be written or read.                         *)
Abort == phase \in {"ingest", "index"} /\ Fail("io")

Next ==
  \/ \E q \in Input : Ingest(q)
  \/ Freeze \/ IndexRow \/ IndexEnd \/ PollQuads \/ Abort
  \/ \E f \in Families : PollFamily(f)
  \/ \E x \in Streams : EndStream(x) \/ DropStream(x)

Spec == Init /\ [][Next]_vars

(* The first merge has no await: once begun it runs.                       *)
FairSpec == Spec /\ WF_vars(IndexRow) /\ WF_vars(IndexEnd)

-----------------------------------------------------------------------------
(* The reference: SortedInMemoryBuilder sorts the whole input once, drops  *)
(* adjacent repeats and sorts each index family over the rows that remain. *)

InMemoryRows == Sorted(Values(input))

(* The in-memory families: the quads' columns in a family's order, the row *)
(* (0 stands for it) among them.                                           *)
KeyColumns(f) ==
  CASE f = "o" -> <<3, 0, 4>> [] f = "p" -> <<2, 0, 4>>
    [] f = "posg" -> <<2, 3, 1, 4, 0>> [] f = "ospg" -> <<3, 1, 2, 4, 0>>

InMemoryFamily(f) ==
  LET At(i, col) == IF col = 0 THEN i - 1 ELSE InMemoryRows[i][col]
  IN Sorted({[k \in DOMAIN KeyColumns(f) |-> At(i, KeyColumns(f)[k])] : i \in DOMAIN InMemoryRows})

(* Ranks spelled back as terms.                                            *)
SortedTerms == SortedBy({<<t>> : t \in Values(terms)}, LAMBDA x : x)
Spelled(r)  == SortedTerms[r][1]

SpelledEntry(f, e) ==
  [k \in DOMAIN e |-> IF k = RidAt(f) THEN e[k] ELSE Spelled(e[k])]

-----------------------------------------------------------------------------
(* Properties                                                              *)

(* The build's phase, input, streams and holders are of their shapes.      *)
TypeOK ==
  /\ build \in Builds
  /\ phase \in {"ingest", "index", "streams", "failed"}
  /\ input \in Seq(Input) /\ Len(input) <= MaxInput
  /\ Len(terms) = Cardinality(Values(terms)) /\ Len(terms) <= TERM_CAP
  /\ Len(spill.buf) <= RunRows /\ spill.sorts \in 0..(STAMPS - 1)
  /\ rows \in 0..ROW_LIMIT
  /\ ended \subseteq Streams /\ live \subseteq Streams \ ended /\ dir \in BOOLEAN
  /\ holders \subseteq Streams \cup {"build"}

(* The out-of-core build yields what the in-memory one does: every         *)
(* distinct quad once, in order, however the input falls into runs.        *)
BuildersAgree ==
  "quads" \in ended =>
    [i \in DOMAIN out["quads"] |-> [k \in 1..4 |-> Spelled(out["quads"][i][k])]] = InMemoryRows

(* An index family's entries address the rows of the second merge by the   *)
(* numbers the first one gave them, in the family's order.  A run's row    *)
(* ids are numbered consecutively, so their offsets always fit a record:   *)
(* the build never fails on one.                                           *)
FamiliesAgree ==
  /\ error # "offset"
  /\ \A f \in ended \ {"quads"} :
       [i \in DOMAIN out[f] |-> SpelledEntry(f, out[f][i])] = InMemoryFamily(f)

(* A spilled run is strictly ascending in its terms' order, and with the   *)
(* buffer the runs hold exactly the quads ingested, through every reuse    *)
(* and wrap of the sort's scratch.                                         *)
RunsHoldInput ==
  phase = "ingest" =>
    LET all == (UNION {Values(spill.runs[i]) : i \in DOMAIN spill.runs}) \cup Values(spill.buf)
    IN /\ \A ids \in all : \A k \in 1..4 : ids[k] \in DOMAIN terms
       /\ {Through(terms, ids) : ids \in all} = Values(input)
       /\ \A i \in DOMAIN spill.runs : \A j \in 2..Len(spill.runs[i]) :
            Less(Through(terms, spill.runs[i][j - 1]), Through(terms, spill.runs[i][j]))

(* The run directory outlives every stream that may still be read, and     *)
(* goes with the last of them, or with a build that fails.                 *)
RunsFollowReaders ==
  /\ live # {} => dir
  /\ (phase \in {"streams", "failed"} /\ live = {}) => ~dir

(* The first merge ends: every turn of its loop reads some run on.         *)
FirstMergeEnds == phase = "index" ~> phase \in {"streams", "failed"}
=============================================================================
