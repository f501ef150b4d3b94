----------------------------- MODULE FileHandle -----------------------------
(***************************************************************************)
(* One opened store file shared by concurrent tasks (persist/native_file,  *)
(* persist/memo, layouts/dictionary/file_backed): the window cache its     *)
(* dictionary is read through, the memo of bound expressions and the tree  *)
(* of readers it retires, and the memo of chunk-probe handles.             *)
(*                                                                         *)
(* A task runs one operation at a time.  An action is what it does between *)
(* two awaits, or under one lock.  A dictionary query is planned as stages *)
(* of window reads: the reads of a stage are overlapped, the stages follow *)
(* one another.  A stage {0} reads nothing and keeps the kind ranges.      *)
(***************************************************************************)
EXTENDS FileDict

CONSTANTS
    Threads, Files, Queries, Shapes, Columns,
    OnceColumns,      \* the columns whose handle has a OnceLock of its own
    Workloads,        \* how many queries, scans and probes a behaviour makes
    Budget, Overhead, \* the window cache's bytes, and an entry's share of them
    MemoCap,          \* BIND_MEMO_MAX
    None

VARIABLES
    file,     \* the opened file: its windows, its leaves, its column
    left,     \* the operations of the workload not begun yet
    cache,    \* the cached windows, the least recently used first
    bytes,    \* what they are charged
    waits,    \* whether a window read has had to wait
    kinds,    \* the kind ranges once kept, else None
    memo,     \* the bound expressions: a map, its lock, the count of clears
    tree,     \* the current reader tree's generation, and its lock
    bound,    \* every <<generation, shape, identity>> handed out
    handles,  \* chunk-probe handles by column
    building, \* the columns whose OnceLock is being initialised
    made,     \* identities and handles made so far
    task      \* what each task is at

vars == <<file, left, cache, bytes, waits, kinds, memo, tree, bound, handles,
          building, made, task>>

Publish == {0}

\* A leaf holds spellings, which are numbers.
ASSUME FilesAssumption == \A f \in Files : f.leaves \in Seq(Seq(Nat))

ASSUME HandleAssumption ==
    /\ Budget \in Nat /\ Overhead \in Nat /\ MemoCap \in Nat \ {0}
    /\ OnceColumns \subseteq Columns
    /\ None \notin Nat /\ None \notin Threads

ws == file.ws
ts == file.ts

Idle == [at |-> "idle"]
At(t, a) == task[t].at = a
Goes(t, next) == task' = [task EXCEPT ![t] = next]

Charge(w) == 4 * (ws[w].rows + 1) + Overhead

(***************************************************************************)
(* The window cache.                                                       *)
(***************************************************************************)
\* s without its first w, if it has one.
Without(s, w) ==
    LET at == CHOOSE i \in 1..(Len(s) + 1) : /\ i = Len(s) + 1 \/ s[i] = w
                                             /\ \A j \in 1..(i - 1) : s[j] # w
    IN  SubSeq(s, 1, at - 1) \o SubSeq(s, at + 1, Len(s))
Cached(w) == \E i \in DOMAIN cache : cache[i] = w
Touched(w) == Append(Without(cache, w), w)

\* How many of the oldest go to make room for w.
Evicted(w) ==
    CHOOSE k \in 0..Len(cache) :
        LET Fits(j) == \/ j = Len(cache)
                       \/ bytes - SumSeq([i \in 1..j |-> Charge(cache[i])]) + Charge(w) <= Budget
        IN  Fits(k) /\ \A j \in 0..(k - 1) : ~Fits(j)

\* An insert that does not look for an entry another task made first.
InsertBlindly(w) ==
    LET k == Evicted(w)
    IN  IF Charge(w) > Budget THEN UNCHANGED <<cache, bytes>>
        ELSE /\ cache' = Append(Without(SubSeq(cache, k + 1, Len(cache)), w), w)
             /\ bytes' = bytes - SumSeq([i \in 1..k |-> Charge(cache[i])]) + Charge(w)

Insert(w) ==
    LET k == Evicted(w)
    IN  IF Cached(w) THEN cache' = Touched(w) /\ UNCHANGED bytes
        ELSE IF Charge(w) > Budget THEN UNCHANGED <<cache, bytes>>
        ELSE /\ cache' = Append(SubSeq(cache, k + 1, Len(cache)), w)
             /\ bytes' = bytes - SumSeq([i \in 1..k |-> Charge(cache[i])]) + Charge(w)

(***************************************************************************)
(* What a query reads, and what it answers from the windows it got.        *)
(***************************************************************************)
NonEmpty(stages) == SelectSeq(stages, LAMBDA s : s # {})
Elems(s) == {s[i] : i \in DOMAIN s}

PrefixStages(p) == <<BoundReads(ws, p[1])>> \o (IF Len(p) = 1 THEN <<>> ELSE <<BoundReads(ws, p[2])>>)

KindStages ==
    IF kinds # None THEN <<>>
    ELSE PrefixStages(Literals) \o PrefixStages(Iris) \o PrefixStages(Blanks) \o <<Publish>>

\* The fallback lookups of the misses, in input order, up to a malformed one.
FallbackStages(xs) ==
    LET Miss(i) == EncodeExact(ts, xs[i]) = NoCode /\ TolerantFallback(xs[i]) # <<>>
        Bad(i) == Miss(i) /\ Canonical[xs[i]] = Malformed
        misses == SelectSeq([i \in DOMAIN xs |-> i],
                            LAMBDA i : Miss(i) /\ \A j \in 1..i : ~Bad(j))
    IN  [k \in DOMAIN misses |-> ExactReads(ws, Canonical[xs[misses[k]]])]

\* The kind ranges decide what a filter reads: here those of the column, in
\* the answer those that were kept.
FilterStages(q) ==
    LET ranges == ResidentKinds(ts)
    IN  KindStages
        \o (IF DecidesIris(q.pred, file.bracketed, ranges, q.codes)
            THEN PrefixStages(IriPrefix(q.pred)) ELSE <<>>)
        \o RunWindows(ws, ToRead(q.pred, file.bracketed, ranges, q.codes))

ResolveStages(q) ==
    LET codes == DistinctCodes(q.rows)
    IN  IF codes # <<>> /\ codes[Len(codes)] >= DictLen(ws) THEN <<>> ELSE RunWindows(ws, codes)

Stages(q) ==
    NonEmpty(CASE q.op \in {"encode", "encode_many"} ->
                    <<UNION {ExactReads(ws, q.xs[i]) : i \in DOMAIN q.xs}>> \o FallbackStages(q.xs)
               [] q.op = "pattern" -> <<UNION {ExactReads(ws, q.xs[i]) : i \in DOMAIN q.xs}>>
               [] q.op = "bound" -> <<BoundReads(ws, q.x)>>
               [] q.op = "prefix" -> PrefixStages(q.prefix)
               [] q.op = "kinds" -> KindStages
               [] q.op = "filter" -> IF CheckCandidates(q.codes, DictLen(ws))
                                     THEN FilterStages(q) ELSE <<>>
               [] q.op = "visit" -> <<{WindowOf(ws, c) : c \in Elems(InDict(ws, q.codes))}>>
               [] q.op = "spell" -> <<{WindowOf(ws, c) : c \in Elems(InDict(ws, q.codes))}>>
               [] q.op = "rows" -> ResolveStages(q))

\* Whether a chunk of rows decodes in place, and the windows it then takes.
TakeOrder(q) ==
    LET src == [c \in {q.rows[i][k] : i \in DOMAIN q.rows, k \in 1..4} |-> TermAt(ts, c)]
        reads == RowReads(q.form, q.rows, src)
        Fresh(i) == \A j \in 1..(i - 1) : WindowOf(ws, reads[j]) # WindowOf(ws, reads[i])
        firsts == SelectSeq([i \in DOMAIN reads |-> i], Fresh)
    IN  [k \in DOMAIN firsts |-> WindowOf(ws, reads[firsts[k]])]

Spelled(codes, got) == [c \in codes |-> FileTermAt(ws, got, c)]

ResolvedRows(q, got) ==
    LET codes == DistinctCodes(q.rows)
    IN  IF codes # <<>> /\ codes[Len(codes)] >= DictLen(ws) THEN Failed
        ELSE DecodeRows(q.form, q.rows, Spelled(Elems(codes), got))

FileFilter(q, got) ==
    LET decides == DecidesIris(q.pred, file.bracketed, kinds, q.codes)
        passing == IF decides THEN FilePrefixRange(ws, got, IriPrefix(q.pred)) ELSE <<0, 0>>
        read == ToRead(q.pred, file.bracketed, kinds, q.codes)
    IN  IF ~CheckCandidates(q.codes, DictLen(ws)) THEN Failed
        ELSE FilterCodes(q.pred, file.bracketed, kinds, q.codes, passing,
                         Spelled(Elems(read), got))

\* Each distinct code is decoded once and spelled at its positions.
SpellFrom(shared, terms) == [i \in DOMAIN shared.slots |-> terms[shared.distinct[shared.slots[i]]]]

FileVisit(codes, got) ==
    LET order == VisitOrder(ws, codes)
    IN  {<<order[k], FileTermAt(ws, got, codes[order[k]])>> : k \in DOMAIN order}

FileAnswer(q, got) ==
    CASE q.op = "encode" -> FileEncode(ws, got, q.xs[1])
      [] q.op = "encode_many" -> FileEncodeMany(ws, got, q.xs)
      [] q.op = "pattern" ->
            LET codes == [i \in DOMAIN q.xs |-> FileEncodeExact(ws, got, q.xs[i])]
            IN  IF NoCode \in Elems(codes) THEN <<>> ELSE codes
      [] q.op = "bound" -> FileLowerBound(ws, got, q.x)
      [] q.op = "prefix" -> FilePrefixRange(ws, got, q.prefix)
      [] q.op = "kinds" -> kinds
      [] q.op = "filter" -> FileFilter(q, got)
      [] q.op = "visit" -> FileVisit(q.codes, got)
      [] q.op = "spell" ->
            LET shared == SharedSlots(q.codes, q.width)
            IN  SpellFrom(shared, Spelled(Elems(shared.distinct), got))
      [] q.op = "rows" -> ResolvedRows(q, got)

(***************************************************************************)
(* The same query of the dictionary lifted into memory.                    *)
(***************************************************************************)
ResidentFilter(q) ==
    LET ranges == ResidentKinds(ts)
        decides == DecidesIris(q.pred, file.bracketed, ranges, q.codes)
        passing == IF decides THEN PrefixRange(ts, IriPrefix(q.pred)) ELSE <<0, 0>>
        read == ToRead(q.pred, file.bracketed, ranges, q.codes)
    IN  IF ~CheckCandidates(q.codes, Len(ts)) THEN Failed
        ELSE FilterCodes(q.pred, file.bracketed, ranges, q.codes, passing,
                         [c \in Elems(read) |-> TermAt(ts, c)])

\* Resolving a pattern stops at the first term the dictionary lacks.
ResidentPattern(xs) ==
    LET Missing(i) == EncodeExact(ts, xs[i]) = NoCode
    IN  IF \E i \in DOMAIN xs : Missing(i) THEN <<>>
        ELSE [i \in DOMAIN xs |-> EncodeExact(ts, xs[i])]

ResidentAnswer(q) ==
    CASE q.op = "encode" -> Encode(ts, q.xs[1])
      [] q.op = "encode_many" -> EncodeMany(ts, q.xs)
      [] q.op = "pattern" -> ResidentPattern(q.xs)
      [] q.op = "bound" -> LowerBound(ts, q.x)
      [] q.op = "prefix" -> PrefixRange(ts, q.prefix)
      [] q.op = "kinds" -> ResidentKinds(ts)
      [] q.op = "filter" -> ResidentFilter(q)
      [] q.op = "visit" -> {<<i, TermAt(ts, q.codes[i])>> : i \in DOMAIN q.codes}
      [] q.op = "spell" ->
            LET shared == SharedSlots(q.codes, q.width)
            IN  SpellFrom(shared, [c \in Elems(shared.distinct) |-> TermAt(ts, c)])
      [] q.op = "rows" ->
            DecodeRows(q.form, q.rows,
                       [c \in {q.rows[i][k] : i \in DOMAIN q.rows, k \in 1..4} |-> TermAt(ts, c)])

(***************************************************************************)
(* Dictionary queries.                                                     *)
(***************************************************************************)
Begin(family) == left[family] > 0 /\ left' = [left EXCEPT ![family] = @ - 1]

Reading(q, stages) == [at |-> "read", q |-> q, stages |-> stages, got |-> <<>>, fetching |-> {}]

Ask(t, q) ==
    /\ At(t, "idle")
    /\ Begin("queries")
    /\ Goes(t, IF q.op = "rows" /\ ~waits
               THEN [at |-> "take", q |-> q, order |-> TakeOrder(q), charged |-> 0, got |-> <<>>]
               ELSE Reading(q, Stages(q)))
    /\ UNCHANGED <<file, cache, bytes, waits, kinds, memo, tree, bound, handles, building, made>>

\* A task got window w: its stage shrinks, and ends with its last window.
Got(l, w) ==
    LET rest == Head(l.stages) \ {w}
    IN  [l EXCEPT !.stages = IF rest = {} THEN Tail(@) ELSE [@ EXCEPT ![1] = rest],
                  !.fetching = @ \ {w},
                  !.got = [v \in DOMAIN @ \cup {w} |-> file.leaves[v]]]

\* A lookup under the cache's lock; a miss reads with the lock released.
Look(t, w) ==
    /\ At(t, "read")
    /\ task[t].stages # <<>>
    /\ w \in Head(task[t].stages) \ task[t].fetching
    /\ IF Cached(w)
       THEN cache' = Touched(w) /\ Goes(t, Got(task[t], w))
       ELSE UNCHANGED cache /\ Goes(t, [task[t] EXCEPT !.fetching = @ \cup {w}])
    /\ UNCHANGED <<file, left, bytes, waits, kinds, memo, tree, bound, handles, building, made>>

Arrive(t, w) ==
    /\ At(t, "read")
    /\ w \in task[t].fetching
    /\ Insert(w)
    /\ Goes(t, Got(task[t], w))
    /\ UNCHANGED <<file, left, waits, kinds, memo, tree, bound, handles, building, made>>

\* A failed read fails the query and drops its other reads; nothing is kept.
\* In place it fails the rows that needed it, here the chunk.
Fault(t) ==
    /\ At(t, "read") \/ At(t, "take")
    /\ IF At(t, "read") THEN task[t].fetching # {}
       ELSE task[t].order # <<>> /\ ~waits /\ ~Cached(Head(task[t].order))
    /\ Goes(t, [at |-> "failed"])
    /\ UNCHANGED <<file, left, cache, bytes, waits, kinds, memo, tree, bound, handles, building, made>>

KeepKinds(t) ==
    /\ At(t, "read")
    /\ task[t].stages # <<>>
    /\ Head(task[t].stages) = Publish
    /\ kinds' = IF kinds = None THEN FileKinds(ws, task[t].got) ELSE kinds
    /\ Goes(t, [task[t] EXCEPT !.stages = Tail(@)])
    /\ UNCHANGED <<file, left, cache, bytes, waits, memo, tree, bound, handles, building, made>>

Finish(t) ==
    /\ At(t, "read")
    /\ task[t].stages = <<>>
    /\ Goes(t, [at |-> "done", q |-> task[t].q, answer |-> FileAnswer(task[t].q, task[t].got)])
    /\ UNCHANGED <<file, left, cache, bytes, waits, kinds, memo, tree, bound, handles, building, made>>

HoldFits(charged) == charged <= Budget

\* An in-place decode takes its next window without waiting: from the cache,
\* or by a read that completes at once.  A read that would wait, or a window
\* that outgrows the budget, gives the hold up and the chunk is resolved.
Take(t, w) ==
    /\ At(t, "take")
    /\ task[t].order # <<>>
    /\ w = Head(task[t].order)
    /\ LET l == task[t]
           charged == l.charged + Charge(w)
           held == [l EXCEPT !.order = Tail(@), !.charged = charged,
                             !.got = [v \in DOMAIN @ \cup {w} |-> file.leaves[v]]]
           resolved == Reading(l.q, Stages(l.q))
       IN  \/ /\ Cached(w)
              /\ cache' = Touched(w)
              /\ Goes(t, IF HoldFits(charged) THEN held ELSE resolved)
              /\ UNCHANGED <<bytes, waits>>
           \/ /\ ~Cached(w) /\ ~waits
              /\ Insert(w)
              /\ Goes(t, IF HoldFits(charged) THEN held ELSE resolved)
              /\ UNCHANGED waits
           \/ /\ ~Cached(w)
              /\ waits' = TRUE
              /\ Goes(t, resolved)
              /\ UNCHANGED <<cache, bytes>>
    /\ UNCHANGED <<file, left, kinds, memo, tree, bound, handles, building, made>>

\* The rows decoded from the windows held.
HeldRows(q, got) ==
    LET codes == {q.rows[i][k] : i \in DOMAIN q.rows, k \in 1..4}
        held == {c \in codes : c >= DictLen(ws) \/ WindowOf(ws, c) \in DOMAIN got}
        src == [c \in codes |-> IF c \in held THEN FileTermAt(ws, got, c) ELSE Failed]
    IN  DecodeRows(q.form, q.rows, src)

\* Every window held: the rows decode as against a resident dictionary.
DecodeHeld(t) ==
    /\ At(t, "take")
    /\ task[t].order = <<>>
    /\ Goes(t, [at |-> "done", q |-> task[t].q, answer |-> HeldRows(task[t].q, task[t].got)])
    /\ UNCHANGED <<file, left, cache, bytes, waits, kinds, memo, tree, bound, handles, building, made>>

Return(t) ==
    /\ task[t].at \in {"done", "failed", "probed", "asked"}
    /\ Goes(t, Idle)
    /\ UNCHANGED <<file, left, cache, bytes, waits, kinds, memo, tree, bound, handles, building, made>>

(***************************************************************************)
(* Scans: an expression bound through the memo, asked of a reader of the   *)
(* current tree; a child's scan takes the reader first.                    *)
(***************************************************************************)
Scan(t, s, first) ==
    /\ At(t, "idle")
    /\ Begin("scans")
    /\ Goes(t, [at |-> first, shape |-> s, id |-> None, tree |-> None,
                load |-> None, since |-> memo.clears])
    /\ UNCHANGED <<file, cache, bytes, waits, kinds, memo, tree, bound, handles, building, made>>

Bound(l, id) == [l EXCEPT !.id = id, !.at = IF l.tree = None THEN "tree" ELSE "asked"]

\* A lookup that leaves the lock at a miss.
BindUnlocked(t) ==
    /\ At(t, "bind")
    /\ LET l == task[t]
       IN  Goes(t, IF l.shape \in DOMAIN memo.map THEN Bound(l, memo.map[l.shape])
                   ELSE [l EXCEPT !.at = "build"])
    /\ UNCHANGED memo
    /\ UNCHANGED <<file, left, cache, bytes, waits, kinds, tree, bound, handles, building, made>>

\* The lock is taken, and kept across the build on a miss.
Bind(t) ==
    /\ At(t, "bind")
    /\ memo.lock = None
    /\ LET l == task[t]
       IN  IF l.shape \in DOMAIN memo.map
           THEN Goes(t, Bound(l, memo.map[l.shape])) /\ UNCHANGED memo
           ELSE Goes(t, [l EXCEPT !.at = "build"]) /\ memo' = [memo EXCEPT !.lock = t]
    /\ UNCHANGED <<file, left, cache, bytes, waits, kinds, tree, bound, handles, building, made>>

\* At its cap the map is cleared before the insert.
Build(t) ==
    /\ At(t, "build")
    /\ LET l == task[t]
           full == Cardinality(DOMAIN memo.map) >= MemoCap
           kept == IF full THEN {} ELSE DOMAIN memo.map
           clears == IF full THEN memo.clears + 1 ELSE memo.clears
       IN  /\ memo' = [map |-> [s \in kept \cup {l.shape} |->
                                   IF s = l.shape THEN made + 1 ELSE memo.map[s]],
                       lock |-> None, clears |-> clears]
           /\ bound' = bound \cup {<<clears, l.shape, made + 1>>}
           /\ Goes(t, Bound(l, made + 1))
    /\ made' = made + 1
    /\ UNCHANGED <<file, left, cache, bytes, waits, kinds, tree, handles, building>>

\* An expression that does not bind leaves the memo as it was.
BuildFails(t) ==
    /\ At(t, "build")
    /\ memo' = [memo EXCEPT !.lock = None]
    /\ Goes(t, [at |-> "failed"])
    /\ UNCHANGED <<file, left, cache, bytes, waits, kinds, tree, bound, handles, building, made>>

\* The readers taken without their lock.
EnterReaders(t) ==
    /\ At(t, "tree")
    /\ Goes(t, [task[t] EXCEPT !.at = "load"])
    /\ UNCHANGED <<file, left, cache, bytes, waits, kinds, memo, tree, bound, handles, building, made>>

LockReaders(t) ==
    /\ At(t, "tree")
    /\ tree.lock = None
    /\ tree' = [tree EXCEPT !.lock = t]
    /\ Goes(t, [task[t] EXCEPT !.at = "load"])
    /\ UNCHANGED <<file, left, cache, bytes, waits, kinds, memo, bound, handles, building, made>>

LoadClears(t) ==
    /\ At(t, "load")
    /\ Goes(t, [task[t] EXCEPT !.at = "swap", !.load = memo.clears])
    /\ UNCHANGED <<file, left, cache, bytes, waits, kinds, memo, tree, bound, handles, building, made>>

\* The tree handed out, never a new one.
SameTree(t) == tree.generation

CurrentTree(t) == IF tree.generation # task[t].load THEN task[t].load ELSE tree.generation

TakeReader(t) ==
    /\ At(t, "swap")
    /\ LET g == CurrentTree(t)
       IN  /\ tree' = [generation |-> g, lock |-> None]
           /\ Goes(t, [task[t] EXCEPT !.tree = g,
                                      !.at = IF task[t].id = None THEN "bind" ELSE "asked"])
    /\ UNCHANGED <<file, left, cache, bytes, waits, kinds, memo, bound, handles, building, made>>

(***************************************************************************)
(* Chunk-probe handles.                                                    *)
(***************************************************************************)
\* A OnceLock column waits for the task that initialises it.
Probe(t, c) ==
    /\ At(t, "idle")
    /\ c \notin building
    /\ Begin("probes")
    /\ IF handles[c] # None
       THEN Goes(t, [at |-> "probed", column |-> c, handle |-> handles[c]]) /\ UNCHANGED building
       ELSE /\ Goes(t, [at |-> "make", column |-> c])
            /\ building' = IF c \in OnceColumns THEN building \cup {c} ELSE building
    /\ UNCHANGED <<file, cache, bytes, waits, kinds, memo, tree, bound, handles, made>>

\* The task keeps the handle it built.
OwnHandle(c) == made + 1

KeptHandle(c) == IF handles[c] # None THEN handles[c] ELSE made + 1

\* Built with the lock released; the first insert wins.
MakeHandle(t) ==
    /\ At(t, "make")
    /\ LET c == task[t].column
           h == KeptHandle(c)
       IN  /\ handles' = [handles EXCEPT ![c] = h]
           /\ building' = building \ {c}
           /\ Goes(t, [at |-> "probed", column |-> c, handle |-> h])
    /\ made' = made + 1
    /\ UNCHANGED <<file, left, cache, bytes, waits, kinds, memo, tree, bound>>

(***************************************************************************)
(* The specification.                                                      *)
(***************************************************************************)
OpenFile(f) ==
    [ws |-> Opened(f), ts |-> ResidentTerms(Lifted(f).chunks), leaves |-> f.leaves,
     bracketed |-> f.bracketed]

Init ==
    /\ \E f \in Files : Opened(f) # Failed /\ file = OpenFile(f)
    /\ left \in Workloads
    /\ cache = <<>> /\ bytes = 0 /\ waits = FALSE /\ kinds = None
    /\ memo = [map |-> <<>>, lock |-> None, clears |-> 0]
    /\ tree = [generation |-> 0, lock |-> None]
    /\ bound = {} /\ building = {} /\ made = 0
    /\ handles = [c \in Columns |-> None]
    /\ task = [t \in Threads |-> Idle]

Next ==
    \E t \in Threads :
        \/ \E q \in Queries : Ask(t, q)
        \/ \E w \in DOMAIN ws : Look(t, w)
        \/ \E w \in DOMAIN ws : Arrive(t, w)
        \/ Fault(t)
        \/ KeepKinds(t)
        \/ Finish(t)
        \/ \E w \in DOMAIN ws : Take(t, w)
        \/ DecodeHeld(t)
        \/ Return(t)
        \/ \E s \in Shapes : Scan(t, s, "tree") \/ Scan(t, s, "bind")
        \/ Bind(t)
        \/ Build(t)
        \/ BuildFails(t)
        \/ LockReaders(t)
        \/ LoadClears(t)
        \/ TakeReader(t)
        \/ \E c \in Columns : Probe(t, c)
        \/ MakeHandle(t)

Spec == Init /\ [][Next]_vars

(***************************************************************************)
(* Reference: what each query means of the set of terms, and properties.   *)
(***************************************************************************)
Rank(x) == Cardinality({i \in DOMAIN ts : ts[i] < x})
RankIfHeld(x) == IF x \in Elems(ts) THEN Rank(x) ELSE NoCode
TrueCode(x) ==
    IF x \in Elems(ts) \/ Canonical[x] = x THEN RankIfHeld(x)
    ELSE IF Canonical[x] = Malformed THEN Failed ELSE RankIfHeld(Canonical[x])

IsRangeOf(range, p) ==
    /\ range[1] <= range[2]
    /\ \A c \in 0..(Len(ts) - 1) : InRange(c, range) <=> Spells(p, ts[c + 1])

\* `_' without its colon is a spelling of no kind.
TrueVerdict(p, x) ==
    IF Spells(Underscore, x) /\ ~Spells(Blanks, x) THEN "unknown" ELSE Eval(p, x)

TrueRow(form, row) ==
    LET terms == [k \in 1..4 |-> IF form = "quads" THEN Parsed(k, TermAt(ts, row[k]))
                                 ELSE TermAt(ts, row[k])]
    IN  IF Failed \in Elems(terms) THEN Failed ELSE terms

IsAnswer(q, a) ==
    CASE q.op = "encode" -> a = TrueCode(q.xs[1])
      [] q.op = "encode_many" ->
            LET codes == [i \in DOMAIN q.xs |-> TrueCode(q.xs[i])]
            IN  IF Failed \in Elems(codes) THEN a = Failed ELSE a = codes
      [] q.op = "pattern" ->
            IF Elems(q.xs) \subseteq Elems(ts) THEN a = [i \in DOMAIN q.xs |-> Rank(q.xs[i])]
            ELSE a = <<>>
      [] q.op = "bound" -> a = Rank(q.x)
      [] q.op = "prefix" -> IsRangeOf(a, q.prefix)
      [] q.op = "kinds" ->
            /\ IsRangeOf(a.literal, Literals) /\ IsRangeOf(a.iri, Iris) /\ IsRangeOf(a.blank, Blanks)
            /\ a.empty = (0 \in Elems(ts))
      [] q.op = "filter" ->
            IF ~CheckCandidates(q.codes, Len(ts)) THEN a = Failed
            ELSE a = <<SelectSeq(q.codes, LAMBDA c : TrueVerdict(q.pred, ts[c + 1]) = "true"),
                       SelectSeq(q.codes, LAMBDA c : TrueVerdict(q.pred, ts[c + 1]) = "unknown")>>
      [] q.op = "visit" -> a = {<<i, TermAt(ts, q.codes[i])>> : i \in DOMAIN q.codes}
      [] q.op = "spell" -> a = [i \in DOMAIN q.codes |-> TermAt(ts, q.codes[i])]
      [] q.op = "rows" ->
            LET rows == [i \in DOMAIN q.rows |-> TrueRow(q.form, q.rows[i])]
            IN  \/ /\ q.form = "quads" /\ a = rows
                \/ /\ Failed \in Elems(rows) /\ a = Failed
                \/ /\ Failed \notin Elems(rows)
                   /\ a = IF q.form = "lines"
                          THEN [i \in 1..(4 * Len(rows)) |-> rows[1 + ((i - 1) \div 4)][1 + ((i - 1) % 4)]]
                          ELSE rows

TypeOK ==
    /\ left \in [{"queries", "scans", "probes"} -> Nat]
    /\ Elems(cache) \subseteq DOMAIN ws /\ bytes \in Nat /\ waits \in BOOLEAN
    /\ memo.lock \in Threads \cup {None} /\ tree.lock \in Threads \cup {None}
    /\ made \in Nat /\ building \subseteq OnceColumns

\* Whatever windows the other tasks evict, insert or fetch meanwhile, a query
\* of the file-backed dictionary answers what the terms say, from the windows
\* it planned to read and no other, and so does the dictionary lifted into
\* memory (FileBackedDict and TermDictionary, the two halves of DictAccess).
ResidencyAgrees ==
    \A t \in Threads : At(t, "done") =>
        IsAnswer(task[t].q, task[t].answer) /\ IsAnswer(task[t].q, ResidentAnswer(task[t].q))

\* The cache's charge is that of its windows, none cached twice, and neither
\* it nor what one in-place decode holds exceeds the budget (WindowCache,
\* HeldWindows), whichever tasks rebuilt the same window at once.
CacheAccounted ==
    /\ bytes = SumSeq([i \in DOMAIN cache |-> Charge(cache[i])])
    /\ bytes <= Budget
    /\ \A i, j \in DOMAIN cache : cache[i] = cache[j] => i = j
    /\ \A t \in Threads : At(t, "take") => task[t].charged <= Budget

\* Between two clears of the memo a shape has one identity, however many
\* tasks bind it at once (BoundExprMemo: the readers' caches are keyed by it).
IdentitiesPinned ==
    \A b \in bound, c \in bound : b[1] = c[1] /\ b[2] = c[2] => b[3] = c[3]

\* A reader is asked about an identity of another generation than its tree's
\* only by a scan during which the memo cleared: so a tree's caches stay
\* within the memo's cap but for the scans in flight (ReaderTree).
AskedInGeneration ==
    \A t \in Threads : At(t, "asked") =>
        \/ task[t].since # memo.clears
        \/ <<task[t].tree, task[t].shape, task[t].id>> \in bound

\* All tasks probe one handle per column, so a leaf one of them fetched is
\* probed by all (ChunkMemo::get_or_build, two racing builds included).
HandlesShared ==
    \A t \in Threads : At(t, "probed") => task[t].handle = handles[task[t].column]

\* A reader tree is never replaced by an older one (NativeStoreFile::readers
\* reads the count of clears under the lock).
TreesNeverGoBack == [][tree'.generation >= tree.generation]_vars
=============================================================================
