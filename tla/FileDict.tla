------------------------------ MODULE FileDict ------------------------------
(***************************************************************************)
(* The term dictionary (store/layouts/dictionary): a store's spellings in  *)
(* byte order, a term's code being its rank.  Resident, it is one searched *)
(* column held in chunks; left in its file, it is windows (one per leaf)   *)
(* of which a query reads the ones its answer lies in.  Every operation    *)
(* is written twice, as the code has it twice, and FileHandle drives both. *)
(*                                                                         *)
(* A spelling is a number, numbers in byte order.  A prefix is the pair    *)
(* <<itself, successor>> or, where no string is above all that start with  *)
(* it, <<itself>>.  A fetched window is the sequence of its terms; `got'   *)
(* maps the windows a query read to theirs.                                *)
(***************************************************************************)
EXTENDS Integers, Sequences, FiniteSets

CONSTANTS
    Literals, Iris, Blanks,   \* the prefixes `"', `<' and `_:'
    Underscore,               \* the prefix `_'
    Canonical,                \* what a user's text parses to, or Malformed
    Unclosed,                 \* spellings that start with `<' and lack the `>'
    MemoMinRows, MemoMaxSlots, MemoTrial, MemoMissesPerHit,
    Buckets,                  \* slots of the span memo and the sharing table
    Failed                    \* an error, in place of an answer

ASSUME MemoAssumption ==
    /\ {MemoMinRows, MemoMaxSlots, MemoTrial, MemoMissesPerHit, Buckets}
          \subseteq Nat \ {0}

NoCode == -1
Malformed == -2

SumSeq(s) ==
    LET Sum[i \in 0..Len(s)] == IF i = 0 THEN 0 ELSE Sum[i - 1] + s[i]
    IN  Sum[Len(s)]

MaxOf(a, b) == IF a > b THEN a ELSE b
MinOf(a, b) == IF a < b THEN a ELSE b

(***************************************************************************)
(* The searches.  Positions count from 0, as ranks do; ts[i + 1] is the    *)
(* term at position i.                                                     *)
(***************************************************************************)
LowerBoundBy(ts, x, lo, hi) ==
    LET Bisect[a \in Nat, b \in Nat] ==
            LET mid == a + (b - a) \div 2
            IN  IF a >= b THEN a
                ELSE IF ts[mid + 1] < x THEN Bisect[mid + 1, b] ELSE Bisect[a, mid]
    IN  Bisect[lo, hi]

GallopLowerBoundBy(ts, x, lo, hi) ==
    LET Stride[a \in Nat, step \in Nat] ==
            LET probe == MinOf(a + step - 1, hi - 1)
            IN  IF a >= hi THEN hi
                ELSE IF ts[probe + 1] < x THEN Stride[probe + 1, 2 * step]
                ELSE LowerBoundBy(ts, x, a, probe)
    IN  Stride[lo, 1]

\* One of a run of ascending searches: strides once those left are many.
NextLowerBoundBy(ts, x, lo, hi, left) ==
    IF left * left > MaxOf(hi - lo, 0)
    THEN GallopLowerBoundBy(ts, x, lo, hi)
    ELSE LowerBoundBy(ts, x, lo, hi)

FindBy(ts, x, lo, hi) ==
    LET Find[a \in Nat, b \in Nat] ==
            LET mid == a + (b - a) \div 2
            IN  IF a >= b THEN NoCode
                ELSE IF ts[mid + 1] = x THEN mid
                ELSE IF ts[mid + 1] < x THEN Find[mid + 1, b] ELSE Find[a, mid]
    IN  Find[lo, hi]

RankOf(n, code) == IF code \in 0..(n - 1) THEN code ELSE NoCode

PrefixRangeFrom(lo, hi) == <<lo, MaxOf(lo, hi)>>

InRange(code, range) == range[1] <= code /\ code < range[2]

Spells(prefix, x) == prefix[1] <= x /\ (Len(prefix) = 1 \/ x < prefix[2])

\* What a miss is looked up as next: <<>> when the text is canonical already.
TolerantFallback(x) == IF Canonical[x] = x THEN <<>> ELSE <<Canonical[x]>>

(***************************************************************************)
(* Chunks: how the column is cut, held, written and opened.                *)
(***************************************************************************)
Starts(chunks) == [i \in DOMAIN chunks |-> SumSeq([j \in 1..(i - 1) |-> Len(chunks[j])])]

\* The chunk holding position i, and i local to it.
ChunkOf(starts, i) ==
    LET c == Cardinality({j \in DOMAIN starts : starts[j] <= i})
    IN  <<c, i - starts[c]>>

ResidentTerms(chunks) ==
    LET starts == Starts(chunks)
        n == SumSeq([j \in DOMAIN chunks |-> Len(chunks[j])])
        At(i) == LET c == ChunkOf(starts, i) IN chunks[c[1]][c[2] + 1]
    IN  [i \in 1..n |-> At(i - 1)]

\* Whether every spelling of the run that starts with `<' also ends with `>'.
IrisBracketed(ts) ==
    LET lo == LowerBoundBy(ts, Iris[1], 0, Len(ts))
        hi == LowerBoundBy(ts, Iris[2], lo, Len(ts))
    IN  \A i \in lo..(hi - 1) : ts[i + 1] \notin Unclosed

\* A built dictionary: windows of `window' terms, the last one shorter.
Compressed(ts, window) ==
    LET pieces == MaxOf(1, (Len(ts) + window - 1) \div window)
    IN  [chunks |-> [c \in 1..pieces |->
                        SubSeq(ts, (c - 1) * window + 1, MinOf(c * window, Len(ts)))],
         bracketed |-> IrisBracketed(ts)]

\* The zone length the child is written with; 0 for no zone map.
UniformWindow(chunks) ==
    LET n == Len(chunks)
        window == Len(chunks[1])
    IN  IF /\ \A c \in 1..(n - 1) : Len(chunks[c]) = window
           /\ Len(chunks[n]) <= window
        THEN window ELSE 0

\* Written, every chunk is a leaf; a single flat leaf is not cut by zones.
Written(built) ==
    [leaves |-> built.chunks, zone |-> UniformWindow(built.chunks),
     bracketed |-> built.bracketed]

\* Lifted back, or adopted from a foreign file: empty chunks are dropped.
Lifted(file) ==
    LET full == SelectSeq(file.leaves, LAMBDA c : c # <<>>)
    IN  IF full = <<>> THEN [chunks |-> <<<<>>>>, bracketed |-> TRUE]
        ELSE [chunks |-> full, bracketed |-> file.bracketed]

ZoneCount(file) ==
    LET rows == SumSeq([j \in DOMAIN file.leaves |-> Len(file.leaves[j])])
    IN  (rows + file.zone - 1) \div file.zone

\* A reader that trusts the counts alone.
CountsAgree(file) == file.zone > 0 /\ ZoneCount(file) = Len(file.leaves)

ZonesCutAtLeaves(file) ==
    LET n == Len(file.leaves)
    IN  /\ file.zone > 0
        /\ ZoneCount(file) = n
        /\ \A w \in 1..(n - 1) : Len(file.leaves[w]) = file.zone
        /\ Len(file.leaves[n]) <= file.zone

ZoneBounds(file) ==
    LET ts == ResidentTerms(file.leaves)
    IN  [z \in 1..ZoneCount(file) |->
            <<ts[(z - 1) * file.zone + 1], ts[MinOf(z * file.zone, Len(ts))]>>]

LeafBounds(file) ==
    [w \in DOMAIN file.leaves |->
        <<file.leaves[w][1], file.leaves[w][Len(file.leaves[w])]>>]

\* Disjoint and ascending, or the open fails.
Ordered(bounds) ==
    /\ \A w \in DOMAIN bounds : bounds[w][1] <= bounds[w][2]
    /\ \A w \in 1..(Len(bounds) - 1) : bounds[w][2] < bounds[w + 1][1]

\* The windows of an opened file, or Failed.
Opened(file) ==
    LET bounds == IF ZonesCutAtLeaves(file) THEN ZoneBounds(file) ELSE LeafBounds(file)
        starts == Starts(file.leaves)
    IN  IF ~Ordered(bounds) THEN Failed
        ELSE [w \in DOMAIN file.leaves |->
                [start |-> starts[w], rows |-> Len(file.leaves[w]),
                 first |-> bounds[w][1], last |-> bounds[w][2]]]

DictLen(ws) == ws[Len(ws)].start + ws[Len(ws)].rows

(***************************************************************************)
(* Term -> code.                                                           *)
(***************************************************************************)
Locate(ws, x) == 1 + Cardinality({w \in DOMAIN ws : ws[w].last < x})

WindowOf(ws, code) ==
    ChunkOf([w \in DOMAIN ws |-> ws[w].start], code)[1]

\* The windows an exact lookup reads: none at or outside a window's bounds.
ExactReads(ws, x) ==
    {w \in {Locate(ws, x)} : w \in DOMAIN ws /\ ws[w].first < x /\ x # ws[w].last}

FileEncodeExact(ws, got, x) ==
    LET w == Locate(ws, x)
        At(local) == IF local = NoCode THEN NoCode ELSE ws[w].start + local
    IN  IF w \notin DOMAIN ws \/ x < ws[w].first THEN NoCode
        ELSE IF x = ws[w].first THEN At(0)
        ELSE IF x = ws[w].last THEN At(ws[w].rows - 1)
        ELSE At(FindBy(got[w], x, 1, ws[w].rows - 1))

EncodeExact(ts, x) == FindBy(ts, x, 0, Len(ts))

\* A lookup and, on a miss, the lookup of the canonical spelling.
OrFallback(code, x, again) ==
    IF code # NoCode \/ TolerantFallback(x) = <<>> THEN code
    ELSE IF Canonical[x] = Malformed THEN Failed ELSE again

Encode(ts, x) == OrFallback(EncodeExact(ts, x), x, EncodeExact(ts, Canonical[x]))

FileEncode(ws, got, x) ==
    OrFallback(FileEncodeExact(ws, got, x), x, FileEncodeExact(ws, got, Canonical[x]))

\* The first malformed miss, in input order, is the batch's error.
AllOrFailed(codes) ==
    IF \E i \in DOMAIN codes : codes[i] = Failed THEN Failed ELSE codes

\* The positions of xs in byte order.
ByteOrder(xs) ==
    LET Place(i) == 1 + Cardinality({j \in DOMAIN xs :
                        xs[j] < xs[i] \/ (xs[j] = xs[i] /\ j < i)})
    IN  [p \in DOMAIN xs |-> CHOOSE i \in DOMAIN xs : Place(i) = p]

\* Where each of `run', ascending, is found in positions from..to-1 of ts,
\* every search starting where the one before landed.
FoundInRun(ts, run, from, to) ==
    LET Landed[k \in Nat] ==
            IF k = 0 THEN from
            ELSE NextLowerBoundBy(ts, run[k], Landed[k - 1], to, Len(run) - k + 1)
        Hit(k) == Landed[k] < to /\ ts[Landed[k] + 1] = run[k]
    IN  [k \in DOMAIN run |-> IF Hit(k) THEN Landed[k] ELSE NoCode]

EncodeMany(ts, xs) ==
    LET order == ByteOrder(xs)
        found == FoundInRun(ts, [k \in DOMAIN xs |-> xs[order[k]]], 0, Len(ts))
        At(i) == CHOOSE k \in DOMAIN xs : order[k] = i
    IN  AllOrFailed([i \in DOMAIN xs |->
            OrFallback(found[At(i)], xs[i], EncodeExact(ts, Canonical[xs[i]]))])

FileEncodeMany(ws, got, xs) ==
    LET order == ByteOrder(xs)
        InWindow(w) == SelectSeq(order, LAMBDA i : w \in ExactReads(ws, xs[i]))
        Inside(i) ==
            LET w == Locate(ws, xs[i])
                run == InWindow(w)
                found == FoundInRun(got[w], [k \in DOMAIN run |-> xs[run[k]]],
                                    1, ws[w].rows - 1)
                local == found[CHOOSE k \in DOMAIN run : run[k] = i]
            IN  IF local = NoCode THEN NoCode ELSE ws[w].start + local
        Exact(i) == IF ExactReads(ws, xs[i]) = {} THEN FileEncodeExact(ws, got, xs[i])
                    ELSE Inside(i)
    IN  AllOrFailed([i \in DOMAIN xs |->
            OrFallback(Exact(i), xs[i], FileEncodeExact(ws, got, Canonical[xs[i]]))])

BoundReads(ws, x) == {w \in {Locate(ws, x)} : w \in DOMAIN ws /\ ws[w].first < x}

LowerBound(ts, x) == LowerBoundBy(ts, x, 0, Len(ts))

FileLowerBound(ws, got, x) ==
    LET w == Locate(ws, x)
    IN  IF w \notin DOMAIN ws THEN DictLen(ws)
        ELSE IF x <= ws[w].first THEN ws[w].start
        ELSE ws[w].start + LowerBoundBy(got[w], x, 1, ws[w].rows - 1)

PrefixRange(ts, p) ==
    PrefixRangeFrom(LowerBound(ts, p[1]),
                    IF Len(p) = 1 THEN Len(ts) ELSE LowerBound(ts, p[2]))

FilePrefixRange(ws, got, p) ==
    PrefixRangeFrom(FileLowerBound(ws, got, p[1]),
                    IF Len(p) = 1 THEN DictLen(ws) ELSE FileLowerBound(ws, got, p[2]))

(***************************************************************************)
(* Kinds and predicates.  A predicate is its form ("is" a kind, "lit" for  *)
(* the tests of literals only, "ne" for numeric inequality, "str" for a    *)
(* test of STR()), the verdict `on' each spelling its test reads, and the  *)
(* IRI prefix that is the whole test, <<>> where it is not; `closes' says  *)
(* that prefix holds a `>'.                                                *)
(***************************************************************************)
KindOf(x) ==
    IF Spells(Literals, x) THEN "literal"
    ELSE IF Spells(Iris, x) THEN "iri"
    ELSE IF Spells(Underscore, x) THEN "blank" ELSE "other"

Verdict(b) == IF b THEN "true" ELSE "false"

Eval(p, x) ==
    LET kind == KindOf(x)
    IN  CASE kind = "other" -> "unknown"
          [] kind # "other" /\ p.form = "is" -> Verdict(kind = p.kind)
          [] kind = "literal" /\ p.form # "is" -> p.on[x]
          [] kind \in {"iri", "blank"} /\ p.form \in {"lit", "ne"} -> Verdict(p.form = "ne")
          [] kind = "blank" /\ p.form = "str" -> "unknown"
          [] kind = "iri" /\ p.form = "str" ->
                IF x \in Unclosed THEN "unknown"
                ELSE IF p.prefix = <<>> THEN p.on[x]
                ELSE Verdict(~p.closes /\ Spells(p.prefix, x))

\* The verdict of a whole kind; "read" when the spelling decides.
KindVerdict(p, kind) ==
    CASE kind = "other" -> "unknown"
      [] kind # "other" /\ p.form = "is" -> Verdict(kind = p.kind)
      [] kind = "literal" /\ p.form # "is" -> "read"
      [] kind \in {"iri", "blank"} /\ p.form = "ne" -> "true"
      [] kind = "iri" /\ p.form = "str" -> "read"
      [] kind = "blank" /\ p.form = "str" -> "unknown"
      [] kind \in {"iri", "blank"} /\ p.form = "lit" -> "false"

KindRanges(firstIsEmpty, literals, iris, blanks) ==
    [empty |-> firstIsEmpty, literal |-> literals, iri |-> iris, blank |-> blanks]

KindOfCode(kinds, code) ==
    IF InRange(code, kinds.literal) THEN "literal"
    ELSE IF InRange(code, kinds.iri) THEN "iri"
    ELSE IF InRange(code, kinds.blank) THEN "blank" ELSE "other"

ResidentKinds(ts) ==
    KindRanges(Len(ts) > 0 /\ ts[1] = 0, PrefixRange(ts, Literals),
               PrefixRange(ts, Iris), PrefixRange(ts, Blanks))

FileKinds(ws, got) ==
    KindRanges(ws[1].first = 0, FilePrefixRange(ws, got, Literals),
               FilePrefixRange(ws, got, Iris), FilePrefixRange(ws, got, Blanks))

\* A prefix with a `>' is no code range: it would take in the IRI it closes.
IriPrefix(p) == IF p.form = "str" /\ ~p.closes THEN p.prefix ELSE <<>>

CheckCandidates(codes, n) ==
    /\ \A i \in 1..(Len(codes) - 1) : codes[i] < codes[i + 1]
    /\ codes # <<>> => codes[1] \in 0..(n - 1) /\ codes[Len(codes)] \in 0..(n - 1)

Undecided(p, kinds, codes) ==
    {c \in {codes[i] : i \in DOMAIN codes} : KindVerdict(p, KindOfCode(kinds, c)) = "read"}

\* Whether the IRIs among the undecided are decided by their code range.
DecidesIris(p, bracketed, kinds, codes) ==
    /\ bracketed
    /\ IriPrefix(p) # <<>>
    /\ \E c \in Undecided(p, kinds, codes) : InRange(c, kinds.iri)

\* The candidates whose spelling is read.
ToRead(p, bracketed, kinds, codes) ==
    LET Left(c) == /\ c \in Undecided(p, kinds, codes)
                   /\ ~(DecidesIris(p, bracketed, kinds, codes) /\ InRange(c, kinds.iri))
    IN  SelectSeq(codes, Left)

\* (passed, undecided), the spellings of the candidates read in `spelled'.
FilterCodes(p, bracketed, kinds, codes, passing, spelled) ==
    LET read == ToRead(p, bracketed, kinds, codes)
        Read(c) == \E i \in DOMAIN read : read[i] = c
        V(c) == IF Read(c) THEN Eval(p, spelled[c])
                ELSE IF c \in Undecided(p, kinds, codes) THEN Verdict(InRange(c, passing))
                ELSE KindVerdict(p, KindOfCode(kinds, c))
        Passes(c) == V(c) = "true"
        Unsure(c) == V(c) = "unknown"
    IN  <<SelectSeq(codes, Passes), SelectSeq(codes, Unsure)>>

(***************************************************************************)
(* Code -> term.                                                           *)
(***************************************************************************)
TermAt(ts, code) == IF RankOf(Len(ts), code) = NoCode THEN Failed ELSE ts[code + 1]

FileTermAt(ws, got, code) ==
    IF RankOf(DictLen(ws), code) = NoCode THEN Failed
    ELSE LET w == WindowOf(ws, code) IN got[w][code - ws[w].start + 1]

\* The windows of ascending codes, each read once, one after the other.
RunWindows(ws, codes) ==
    LET Fresh(i) == i = 1 \/ WindowOf(ws, codes[i]) # WindowOf(ws, codes[i - 1])
        firsts == SelectSeq([i \in DOMAIN codes |-> i], Fresh)
    IN  [k \in DOMAIN firsts |-> {WindowOf(ws, codes[firsts[k]])}]

InDict(ws, codes) == SelectSeq(codes, LAMBDA c : c \in 0..(DictLen(ws) - 1))

\* The order a batch decode visits its positions in: those out of range,
\* then window by window, within one in input order.
VisitOrder(ws, codes) ==
    LET Window(i) == IF codes[i] \in 0..(DictLen(ws) - 1) THEN WindowOf(ws, codes[i]) ELSE 0
        Place(i) == 1 + Cardinality({j \in DOMAIN codes :
                        Window(j) < Window(i) \/ (Window(j) = Window(i) /\ j < i)})
    IN  [k \in DOMAIN codes |-> CHOOSE i \in DOMAIN codes : Place(i) = k]

(***************************************************************************)
(* Rows.  A role's memo is direct-mapped: one slot per masked code.        *)
(***************************************************************************)
PowerAbove(n) ==
    LET Up[p \in Nat] == IF p >= n THEN p ELSE Up[2 * p] IN Up[1]

NewMemo(rows, admission) ==
    LET size == IF rows < MemoMinRows THEN 0 ELSE MinOf(PowerAbove(rows), MemoMaxSlots)
    IN  [slots |-> [k \in 0..(size - 1) |-> <<>>], size |-> size,
         admission |-> admission, misses |-> 0, hits |-> 0]

MemoHit(m, code) ==
    /\ m.size > 0
    /\ LET slot == m.slots[code % m.size] IN slot # <<>> /\ slot[1] = code

MemoTerm(m, code, term) == IF MemoHit(m, code) THEN m.slots[code % m.size][2] ELSE term

\* The memo after a read: a trial ends at its MemoTrial-th miss.
MemoAfter(m, code, term) ==
    LET misses == m.misses + 1
        admission == IF m.admission # "trial" \/ misses # MemoTrial THEN m.admission
                     ELSE IF m.hits * MemoMissesPerHit >= misses THEN "admit" ELSE "refuse"
        trial == m.admission = "trial"
    IN  IF m.size = 0 THEN m
        ELSE IF MemoHit(m, code)
             THEN [m EXCEPT !.hits = IF trial THEN @ + 1 ELSE @]
        ELSE IF term = Failed THEN m
        ELSE [m EXCEPT !.misses = IF trial THEN misses ELSE @,
                       !.admission = admission,
                       !.slots[code % m.size] = IF admission = "refuse" THEN @ ELSE <<code, term>>]

\* Which kinds a stored term may have in a role: s, p, o, g.
RoleKinds == <<{"iri", "blank"}, {"iri"}, {"literal", "iri", "blank"}, {"iri", "blank", "other"}>>

Parsed(role, x) == IF x # Failed /\ KindOf(x) \in RoleKinds[role] THEN x ELSE Failed

\* One row through the roles' memos; a failed role ends it.
RowAfter(st, row, src, parse) ==
    LET Role[k \in 0..4] ==
            IF k = 0 THEN [memos |-> st.memos, terms |-> <<>>, ok |-> TRUE]
            ELSE LET before == Role[k - 1]
                     read == IF parse THEN Parsed(k, src[row[k]]) ELSE src[row[k]]
                     term == MemoTerm(before.memos[k], row[k], read)
                 IN  IF ~before.ok THEN before
                     ELSE [memos |-> [before.memos EXCEPT ![k] = MemoAfter(@, row[k], read)],
                           terms |-> Append(before.terms, term), ok |-> term # Failed]
        last == Role[4]
    IN  [memos |-> last.memos,
         out |-> Append(st.out, IF last.ok THEN last.terms ELSE Failed)]

\* The lines: a role's recent terms are spans of the text written so far.
LinesOf(rows, src) ==
    LET none == [k \in 0..(Buckets - 1) |-> <<>>]
        Code(i) == rows[1 + ((i - 1) \div 4)][1 + ((i - 1) % 4)]
        Put(st, i) ==
            LET role == 1 + ((i - 1) % 4)
                held == st.spans[role][Code(i) % Buckets]
                term == IF held # <<>> /\ held[1] = Code(i) THEN st.text[held[2]]
                        ELSE src[Code(i)]
            IN  IF term = Failed THEN [st EXCEPT !.ok = FALSE]
                ELSE [st EXCEPT !.text = Append(@, term),
                                !.spans[role][Code(i) % Buckets] = <<Code(i), i>>]
        Upto[i \in Nat] ==
            IF i = 0 THEN [text |-> <<>>, spans |-> <<none, none, none, none>>, ok |-> TRUE]
            ELSE LET before == Upto[i - 1] IN IF before.ok THEN Put(before, i) ELSE before
    IN  LET last == Upto[4 * Len(rows)] IN IF last.ok THEN last.text ELSE Failed

\* A chunk's rows in one of three forms: quads, whose failed rows stand
\* alone; strings and lines, where any failure is the chunk's.
DecodeRows(form, rows, src) ==
    LET memo == NewMemo(Len(rows), IF form = "quads" THEN "trial" ELSE "admit")
        Upto[i \in Nat] ==
            IF i = 0 THEN [memos |-> <<memo, memo, memo, memo>>, out |-> <<>>]
            ELSE RowAfter(Upto[i - 1], rows[i], src, form = "quads")
        out == Upto[Len(rows)].out
    IN  IF form = "lines" THEN LinesOf(rows, src)
        ELSE IF form = "strings" THEN AllOrFailed(out) ELSE out

\* The codes a decode reads, in order: a failed role ends its row, and any
\* failure a chunk of strings or lines.
RowReads(form, rows, src) ==
    LET At(i) == rows[1 + ((i - 1) \div 4)][1 + ((i - 1) % 4)]
        Fails(i) == IF form = "quads" THEN Parsed(1 + ((i - 1) % 4), src[At(i)]) = Failed
                    ELSE src[At(i)] = Failed
        Cut(i) == \E j \in 1..(i - 1) :
                     Fails(j) /\ (form = "quads" => (j - 1) \div 4 = (i - 1) \div 4)
        Read(i) == ~Cut(i) /\ src[At(i)] # Failed
        kept == SelectSeq([i \in 1..(4 * Len(rows)) |-> i], Read)
    IN  [k \in DOMAIN kept |-> At(kept[k])]

\* The distinct codes, ascending.
DistinctCodes(rows) ==
    LET codes == {rows[i][k] : i \in DOMAIN rows, k \in 1..4}
        Place(c) == 1 + Cardinality({e \in codes : e < c})
    IN  [k \in 1..Cardinality(codes) |-> CHOOSE c \in codes : Place(c) = k]

\* The distinct codes as first met beside each position's slot, found in a
\* direct-mapped table per column of `width': a lost code takes a new slot.
SharedSlots(codes, width) ==
    LET none == [c \in 0..(width - 1), b \in 0..(Buckets - 1) |-> <<>>]
        Put(st, i) ==
            LET key == <<(i - 1) % width, codes[i] % Buckets>>
                entry == st.recent[key]
            IN  IF entry # <<>> /\ entry[1] = codes[i]
                THEN [st EXCEPT !.slots = Append(@, entry[2])]
                ELSE [distinct |-> Append(st.distinct, codes[i]),
                      slots |-> Append(st.slots, Len(st.distinct) + 1),
                      recent |-> [st.recent EXCEPT ![key] = <<codes[i], Len(st.distinct) + 1>>]]
        Upto[i \in Nat] ==
            IF i = 0 THEN [distinct |-> <<>>, slots |-> <<>>, recent |-> none]
            ELSE Put(Upto[i - 1], i)
    IN  Upto[Len(codes)]
=============================================================================
