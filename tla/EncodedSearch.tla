--------------------------- MODULE EncodedSearch ---------------------------
(* The probe tree of the encoded-search crate: an encoded array resolved    *)
(* into a tree of nodes, and the reads, counts and bounds answered on the   *)
(* tree without decoding it.  Decode is what the encodings mean, and is the *)
(* reference every node operation is compared with.                         *)
(*                                                                          *)
(* An array is a record with its encoding in field k.  A node holds its     *)
(* children as probes: what each answers to every question, as functions.   *)
(* So a node's operations are written on its children's answers, and only   *)
(* Resolve recurs.  Positions are                                           *)
(* 0-based, as in the code.  Word is the number of values of a u64, and a   *)
(* narrow array's field w the number of values of its own words.            *)
EXTENDS Integers, Sequences, FiniteSets, SequencesExt, FiniteSetsExt

CONSTANTS Word, FL_CHUNK, LANES, INTERPOLATION_STEPS, INTERPOLATION_MIN,
          UNPACK_ONE_BY_ONE, UNPACK_CROSSOVER

ASSUME EncodedAssumption ==
  /\ {Word, FL_CHUNK, LANES} \subseteq Nat \ {0}
  /\ {INTERPOLATION_STEPS, INTERPOLATION_MIN, UNPACK_ONE_BY_ONE} \subseteq Nat
  /\ UNPACK_CROSSOVER \in UNPACK_ONE_BY_ONE .. FL_CHUNK

MaxWord == Word - 1
At(s, i) == s[i + 1]
Sub(s, i, n) == SubSeq(s, i + 1, i + n)
Least(a, b) == IF a < b THEN a ELSE b
Most(a, b) == IF a < b THEN b ELSE a
Minus(a, b) == Most(a - b, 0)
DivCeil(a, b) == (a + b - 1) \div b
Ascending(s) == IsSorted(s, <=)

(***************************************************************************)
(* What the encodings mean.                                                *)
(***************************************************************************)

(* A lane's running sums, in the words' own width: value j of a block adds  *)
(* to its lane's base the deltas of the lane up to depth j \div LANES.      *)
Undelta(bases, deltas, w) ==
  [j \in 0 .. FL_CHUNK - 1 |->
     (At(bases, j % LANES)
        + FoldLeft(LAMBDA a, d : a + At(deltas, d * LANES + (j % LANES)), 0,
                                [d \in 1 .. j \div LANES + 1 |-> d - 1])) % w]

(* The stored order of a block: the lanes' values side by side.             *)
Untranspose(block) ==
  [j \in 0 .. FL_CHUNK - 1 |->
     block[(j % (FL_CHUNK \div LANES)) * LANES + j \div (FL_CHUNK \div LANES)]]

(* The arrays an array is built from, in the order of its slots.            *)
Children(a) ==
  CASE a.k \in {"primitive", "constant", "sequence"} -> <<>>
    [] a.k = "runend" -> <<a.ends, a.values>>
    [] a.k \in {"for", "slice", "shared"} -> <<a.child>>
    [] a.k = "blockfor" -> <<a.child, a.references>>
    [] a.k = "sparse" -> <<a.indices, a.values>>
    [] a.k = "rle" -> <<a.values, a.indices, a.starts>>
    [] a.k = "bitpacked" -> a.patches
    [] a.k = "delta" -> <<a.bases, a.deltas>>
    [] a.k = "dict" -> <<a.codes, a.values>>
    [] a.k = "chunked" -> a.chunks

Patched(plain, indices, values, offset) ==
  [i \in 1 .. Len(plain) |->
     LET at == {p \in 1 .. Len(indices) : indices[p] = i - 1 + offset}
     IN  IF at = {} THEN plain[i] ELSE values[Max(at)]]

(* The values of array a, whose children hold the values of kids.           *)
Meaning(a, kids) ==
  CASE a.k = "primitive" -> a.words
    [] a.k = "constant" -> [i \in 1 .. a.len |-> a.value]
    [] a.k = "sequence" -> [i \in 1 .. a.len |-> a.base + (i - 1) * a.multiplier]
    [] a.k = "runend" ->
         [i \in 1 .. a.len |->
            kids[2][Min({r \in DOMAIN kids[1] : kids[1][r] > i - 1 + a.offset})]]
    [] a.k = "for" -> [i \in DOMAIN kids[1] |-> a.reference + kids[1][i]]
    [] a.k = "blockfor" ->
         [i \in DOMAIN kids[1] |-> (kids[1][i] + At(kids[2], (a.offset + i - 1) \div FL_CHUNK)) % Word]
    [] a.k = "sparse" -> Patched([i \in 1 .. a.len |-> a.fill], kids[1], kids[2], a.offset)
    [] a.k = "rle" ->
         [i \in 1 .. a.len |->
            LET at == a.offset + i - 1 IN
            At(kids[1], At(kids[3], at \div FL_CHUNK) - kids[3][1] + At(kids[2], at))]
    [] a.k = "bitpacked" ->
         LET plain == IF a.width = 0 THEN [i \in 1 .. a.len |-> 0] ELSE Sub(a.packed, a.offset, a.len) IN
         IF kids = <<>> THEN plain ELSE Patched(plain, kids[1], kids[2], a.patchOffset)
    [] a.k = "delta" ->
         [i \in 1 .. a.len |->
            LET at == a.offset + i - 1
                b == at \div FL_CHUNK
            IN  Untranspose(Undelta(Sub(kids[1], b * LANES, LANES),
                                    Sub(kids[2], b * FL_CHUNK, FL_CHUNK), a.w))[at % FL_CHUNK]]
    [] a.k = "slice" -> Sub(kids[1], a.start, a.len)
    [] a.k = "dict" -> [i \in DOMAIN kids[1] |-> At(kids[2], kids[1][i])]
    [] a.k = "shared" -> kids[1]
    [] a.k = "chunked" -> FlattenSeq(kids)
RECURSIVE Decode(_), DecodeEach(_)
DecodeEach(slots) == [c \in DOMAIN slots |-> Decode(slots[c])]
Decode(a) == Meaning(a, DecodeEach(Children(a)))

(***************************************************************************)
(* The searches over an index range.  A probed value is read through a     *)
(* function, at the positions the search visits only.                      *)
(***************************************************************************)

RECURSIVE Bisect(_, _, _)
Bisect(lo, hi, below) ==
  IF lo >= hi THEN lo
  ELSE LET mid == lo + (hi - lo) \div 2
       IN  IF below[mid] THEN Bisect(mid + 1, hi, below) ELSE Bisect(lo, mid, below)
Partition(n, below) == Bisect(0, n, below)

(* The search's state: the answer is in lo..hi, past is the first position  *)
(* seen above the needle, below and at the values bracketing the window.    *)
Unread == -1
Visit(s, value, needle, i) ==
  LET v == value[i] IN
  [lo |-> IF v < needle THEN i + 1 ELSE s.lo,
   hi |-> IF v < needle THEN s.hi ELSE i,
   below |-> IF v < needle THEN v ELSE s.below,
   at |-> IF v < needle THEN s.at ELSE v,
   past |-> IF v > needle /\ i < s.past THEN i ELSE s.past]

Mid(s) == s.lo + (s.hi - s.lo) \div 2
Split(s, needle) ==
  Most(s.lo, Least(s.lo - 1 + ((needle - s.below) * (s.hi - s.lo + 1)) \div (s.at - s.below),
                   s.hi - 1))

RECURSIVE Narrow(_, _, _, _)
Narrow(s, value, needle, left) ==
  LET bracketed == s.below # Unread /\ s.at # Unread
      spread == bracketed /\ s.hi - s.lo > INTERPOLATION_MIN
                          /\ s.at - s.below >= (s.hi - s.lo) \div 4
  IN  IF s.lo >= s.hi THEN s
      ELSE IF left > 0 /\ spread
      THEN Narrow(Visit(s, value, needle, Split(s, needle)), value, needle, left - 1)
      ELSE Narrow(Visit(s, value, needle, Mid(s)), value, needle, IF bracketed THEN 0 ELSE left)

SearchAscendingCapped(n, value, needle) ==
  LET s == Narrow([lo |-> 0, hi |-> n, below |-> Unread, at |-> Unread, past |-> n],
                  value, needle, INTERPOLATION_STEPS)
  IN  <<s.lo, s.past>>
SearchAscending(n, value, needle) == SearchAscendingCapped(n, value, needle)[1]

(* The upper bound is searched below the cap the lower bound's probes set.  *)
CappedBounds(n, value, needle) ==
  LET found == SearchAscendingCapped(n, value, needle)
      lo == found[1]
  IN  <<lo, lo + Partition(found[2] - lo, [i \in 0 .. found[2] - lo - 1 |-> value[lo + i] <= needle])>>

(***************************************************************************)
(* The nodes.  A node holds its children as probes (Probe below), so its   *)
(* operations are written on what the children answer.  The offsets an     *)
(* equality search finds are a sequence, in the order the sink is handed   *)
(* them; a count is its length.                                            *)
(***************************************************************************)

(* A buffer of words at their own width: a needle wider than the words      *)
(* matches none of them and bounds them all.                                *)
Matching(values, needle) ==
  SelectSeq([j \in 1 .. Len(values) |-> j - 1], LAMBDA o : At(values, o) = needle)
WordsRead(n, start, len) == Sub(n.words, start, len)
WordsEq(n, start, len, needle) == IF needle >= n.w THEN <<>> ELSE Matching(Sub(n.words, start, len), needle)
WordsLowerBound(n, needle) ==
  IF needle >= n.w THEN Len(n.words)
  ELSE Partition(Len(n.words), [i \in 0 .. Len(n.words) - 1 |-> At(n.words, i) < needle])

NodeLen(n) ==
  CASE n.k = "primitive" -> Len(n.words)
    [] n.k \in {"for", "blockfor"} -> n.child.len
    [] n.k = "dict" -> n.codes.len
    [] OTHER -> n.len

(* How many of an ascending child's values are at most most.                *)
AtMost(c, most) == Partition(c.len, [r \in 0 .. c.len - 1 |-> c.at[r] <= most])

(* PatchProbe::lookup and overwrite: patched positions are absolute.        *)
Lookup(p, i) ==
  LET at == p.indices.lower[i + p.offset] IN
  IF at < p.indices.len /\ p.indices.at[at] = i + p.offset THEN <<p.values.at[at]>> ELSE <<>>
Overwrite(p, start, out) ==
  LET first == start + p.offset
      hit == {at \in p.indices.lower[first] .. p.indices.len - 1 : p.indices.at[at] < first + Len(out)}
  IN  [i \in 1 .. Len(out) |->
         LET at == {h \in hit : p.indices.at[h] - first = i - 1} IN
         IF at = {} THEN out[i] ELSE p.values.at[Max(at)]]

(* Bit-packed parts: how a bulk read takes its values from each chunk.      *)
UnpackTier(n) ==
  IF n <= UNPACK_ONE_BY_ONE THEN "one" ELSE IF n <= UNPACK_CROSSOVER THEN "positions" ELSE "chunk"
ChunkParts(first, last) ==
  [c \in 1 .. DivCeil(last, FL_CHUNK) - first \div FL_CHUNK |->
     LET at == (first \div FL_CHUNK + c - 1) * FL_CHUNK IN
     [chunk |-> at, from |-> Most(first, at) - at, to |-> Least(last, at + FL_CHUNK) - at]]
UnpackPart(packed, part) ==
  IF UnpackTier(part.to - part.from) = "chunk"
  THEN Sub(Sub(packed, part.chunk, FL_CHUNK), part.from, part.to - part.from)
  ELSE [j \in 1 .. part.to - part.from |-> At(packed, part.chunk + part.from + j - 1)]
ReadParts(packed, first, n) ==
  IF UnpackTier(n) = "one" THEN [j \in 1 .. n |-> At(packed, first + j - 1)]
  ELSE LET parts == ChunkParts(first, first + n)
       IN  FlattenSeq([p \in DOMAIN parts |-> UnpackPart(packed, parts[p])])

PackedAt(n, i) ==
  LET patch == IF n.patches = <<>> THEN <<>> ELSE Lookup(n.patches[1], i) IN
  IF patch # <<>> THEN patch[1]
  ELSE IF n.width = 0 THEN 0 ELSE At(n.packed, i + n.offset)
PackedRead(n, start, len) ==
  LET plain == IF n.width = 0 THEN [j \in 1 .. len |-> 0] ELSE ReadParts(n.packed, n.offset + start, len)
  IN  IF n.patches = <<>> THEN plain ELSE Overwrite(n.patches[1], start, plain)
RunOffsets(from, to) == [j \in 1 .. to - from |-> from + j - 1]
PackedEq(n, start, len, needle) ==
  IF n.width = 0 THEN IF needle = 0 THEN RunOffsets(0, len) ELSE <<>>
  ELSE IF needle >= n.w THEN <<>>
  ELSE Matching(ReadParts(n.packed, n.offset + start, len), needle)

(* Run-end windows.                                                         *)
EveryRun(ends, offset, len) == <<0, ends.len>>
WindowRuns(ends, offset, len) ==
  LET runs == ends.len
      first == AtMost(ends, offset)
      last == AtMost(ends, offset + len - 1)
  IN  IF len = 0 THEN <<0, 0>>
      ELSE IF offset = 0 /\ runs > 0 /\ ends.at[runs - 1] = len THEN <<0, runs>>
      ELSE <<first, Least(last + 1, runs) - first>>
RunStart(ends, run, offset, len) ==
  IF run = 0 THEN 0 ELSE Least(Minus(ends.at[run - 1], offset), len)
RECURSIVE RunsFrom(_, _, _, _)
RunsFrom(n, run, at, last) ==
  IF at >= last THEN <<>>
  ELSE LET end == Most(at, Least(n.ends.at[run], last)) IN
       <<[from |-> at, to |-> end, value |-> n.values.at[run]]>> \o RunsFrom(n, run + 1, end, last)
RunsIn(n, start, len) ==
  RunsFrom(n, AtMost(n.ends, start + n.offset), start + n.offset, start + n.offset + len)

(* Chunks: the one holding a row, and the parts of a window.                *)
ChunkHolding(n, i) == Partition(Len(n.chunks), [c \in 0 .. Len(n.chunks) - 1 |-> At(n.chunks, c).start <= i]) - 1
RECURSIVE WindowsFrom(_, _, _, _, _)
WindowsFrom(n, c, start, len, done) ==
  IF done >= len THEN <<>>
  ELSE LET chunk == At(n.chunks, c)
           from == start + done - chunk.start
           take == Least(chunk.node.len - from, len - done)
       IN  <<[node |-> chunk.node, from |-> from, take |-> take, done |-> done]>>
             \o WindowsFrom(n, c + 1, start, len, done + take)
ChunkWindows(n, start, len) == WindowsFrom(n, ChunkHolding(n, start), start, len, 0)

DecodeBlock(n, b) ==
  Untranspose(Undelta([l \in 1 .. LANES |-> n.bases.at[b * LANES + l - 1]],
                      [j \in 1 .. FL_CHUNK |-> n.deltas.at[b * FL_CHUNK + j - 1]], n.w))

DeltaAt(n, i) == DecodeBlock(n, (n.offset + i) \div FL_CHUNK)[(n.offset + i) % FL_CHUNK]

ValueAt(n, i) ==
  CASE n.k = "primitive" -> At(n.words, i)
    [] n.k = "constant" -> n.value
    [] n.k = "sequence" -> (n.base + i * n.multiplier) % Word
    [] n.k = "runend" -> n.values.at[AtMost(n.ends, i + n.offset)]
    [] n.k = "for" -> Least(n.reference + n.child.at[i], MaxWord)
    [] n.k = "blockfor" ->
         (n.child.at[i] + n.references.at[(n.offset + i) \div FL_CHUNK]) % Word
    [] n.k = "bitpacked" -> PackedAt(n, i)
    [] n.k = "slice" -> n.child.at[n.start + i]
    [] n.k = "chunked" ->
         LET chunk == At(n.chunks, ChunkHolding(n, i)) IN chunk.node.at[i - chunk.start]
    [] n.k = "dict" -> n.values.at[n.codes.at[i]]
    [] n.k = "delta" -> DeltaAt(n, i)
    [] n.k = "sparse" -> LET patch == Lookup(n.patches, i) IN IF patch = <<>> THEN n.fill ELSE patch[1]
    [] n.k = "rle" ->
         n.values.at[n.starts.at[(n.offset + i) \div FL_CHUNK] - n.base + n.indices.at[n.offset + i]]

ReadInto(n, start, len) ==
  CASE len = 0 -> <<>>
    [] n.k = "primitive" -> WordsRead(n, start, len)
    [] n.k = "constant" -> [j \in 1 .. len |-> n.value]
    [] n.k = "runend" ->
         LET runs == RunsIn(n, start, len)
         IN  FlattenSeq([r \in DOMAIN runs |-> [j \in 1 .. runs[r].to - runs[r].from |-> runs[r].value]])
    [] n.k = "for" ->
         LET child == n.child.read[start, len]
         IN  [j \in 1 .. len |-> Least(n.reference + child[j], MaxWord)]
    [] n.k = "blockfor" ->
         LET child == n.child.read[start, len]
         IN  [j \in 1 .. len |->
                (child[j] + n.references.at[(n.offset + start + j - 1) \div FL_CHUNK]) % Word]
    [] n.k = "bitpacked" -> PackedRead(n, start, len)
    [] n.k = "slice" -> n.child.read[n.start + start, len]
    [] n.k = "chunked" ->
         LET parts == ChunkWindows(n, start, len)
         IN  FlattenSeq([p \in DOMAIN parts |-> parts[p].node.read[parts[p].from, parts[p].take]])
    [] n.k = "dict" ->
         LET codes == n.codes.read[start, len] IN [j \in 1 .. len |-> n.values.at[codes[j]]]
    [] n.k = "sparse" -> Overwrite(n.patches, start, [j \in 1 .. len |-> n.fill])
    [] n.k \in {"sequence", "rle", "delta"} -> [j \in 1 .. len |-> ValueAt(n, start + j - 1)]

Shift(offsets, by) == [j \in DOMAIN offsets |-> by + offsets[j]]
(* The codes of a dictionary whose value is the needle: none, one the codes *)
(* are searched for, or several, when the values are read and compared.     *)
CodesOf(n, needle) == n.values.eq[0, n.values.len, needle]
EqInto(n, start, len, needle) ==
  CASE len = 0 -> <<>>
    [] n.k = "primitive" -> WordsEq(n, start, len, needle)
    [] n.k = "constant" -> IF n.value = needle THEN RunOffsets(0, len) ELSE <<>>
    [] n.k = "sequence" ->
         LET step == needle - n.base
             at == step \div n.multiplier
         IN  IF step >= 0 /\ step % n.multiplier = 0 /\ at \in start .. start + len - 1
             THEN <<at - start>> ELSE <<>>
    [] n.k = "runend" ->
         LET runs == SelectSeq(RunsIn(n, start, len), LAMBDA run : run.value = needle)
             at == start + n.offset
         IN  FlattenSeq([r \in DOMAIN runs |-> RunOffsets(runs[r].from - at, runs[r].to - at)])
    [] n.k = "for" ->
         IF needle < n.reference THEN <<>> ELSE n.child.eq[start, len, needle - n.reference]
    [] n.k = "slice" -> n.child.eq[n.start + start, len, needle]
    [] n.k = "chunked" ->
         LET parts == ChunkWindows(n, start, len)
         IN  FlattenSeq([p \in DOMAIN parts |->
                           Shift(parts[p].node.eq[parts[p].from, parts[p].take, needle], parts[p].done)])
    [] n.k = "dict" /\ n.values.len <= len ->
         LET codes == CodesOf(n, needle) IN
         CASE Len(codes) = 0 -> <<>>
           [] Len(codes) = 1 -> n.codes.eq[start, len, codes[1]]
           [] OTHER -> Matching(ReadInto(n, start, len), needle)
    [] n.k = "bitpacked" /\ n.patches = <<>> -> PackedEq(n, start, len, needle)
    [] OTHER -> Matching(ReadInto(n, start, len), needle)

LowerBound(n, needle) ==
  CASE n.k = "primitive" -> WordsLowerBound(n, needle)
    [] n.k = "constant" -> IF n.value < needle THEN n.len ELSE 0
    [] n.k = "sequence" ->
         IF needle <= n.base THEN 0 ELSE Least(DivCeil(needle - n.base, n.multiplier), n.len)
    [] n.k = "runend" ->
         LET runs == WindowRuns(n.ends, n.offset, n.len)
             k == SearchAscending(runs[2], [j \in 0 .. runs[2] - 1 |-> n.values.at[runs[1] + j]], needle)
         IN  RunStart(n.ends, runs[1] + k, n.offset, n.len)
    [] n.k = "for" -> IF needle <= n.reference THEN 0 ELSE n.child.lower[needle - n.reference]
    [] n.k = "bitpacked" -> SearchAscending(n.len, [i \in 0 .. n.len - 1 |-> ValueAt(n, i)], needle)
    [] n.k = "chunked" ->
         LET c == Partition(Len(n.chunks),
                            [d \in 0 .. Len(n.chunks) - 1 |->
                               At(n.chunks, d).node.at[At(n.chunks, d).node.len - 1] < needle])
         IN  IF c = Len(n.chunks) THEN n.len
             ELSE At(n.chunks, c).start + At(n.chunks, c).node.lower[needle]
    [] OTHER -> Partition(NodeLen(n), [i \in 0 .. NodeLen(n) - 1 |-> ValueAt(n, i) < needle])

UpperBound(n, needle) == IF needle = MaxWord THEN NodeLen(n) ELSE LowerBound(n, needle + 1)

(* The needle's first run by one search; the run past it is searched for    *)
(* unless the next run already holds a larger value.                        *)
RunEndBounds(n, needle) ==
  LET runs == WindowRuns(n.ends, n.offset, n.len)
      first == runs[1]
      span == runs[2]
      value == [j \in 0 .. span - 1 |-> n.values.at[first + j]]
      k == SearchAscending(span, value, needle)
      past == IF k = span \/ value[k] # needle THEN k
              ELSE IF k + 1 = span \/ value[k + 1] > needle THEN k + 1
              ELSE k + 1 + Partition(span - k - 1, [j \in 0 .. span - k - 2 |-> value[k + 1 + j] <= needle])
  IN  <<RunStart(n.ends, first + k, n.offset, n.len), RunStart(n.ends, first + past, n.offset, n.len)>>

NodeBounds(n, needle) ==
  CASE n.k = "runend" -> RunEndBounds(n, needle)
    [] n.k = "for" -> IF needle < n.reference THEN <<0, 0>> ELSE n.child.bounds[needle - n.reference]
    [] n.k = "bitpacked" -> CappedBounds(n.len, [i \in 0 .. n.len - 1 |-> ValueAt(n, i)], needle)
    [] OTHER -> <<LowerBound(n, needle), UpperBound(n, needle)>>

(* A resolved node as its parents and callers see it: a table of answers    *)
(* (f @@ <<>> is f).                                                        *)
Windows(len) == {w \in (0 .. len) \X (0 .. len) : w[1] + w[2] <= len}
Probe(n) ==
  LET len == NodeLen(n)
      asks == {<<w[1], w[2], x>> : w \in Windows(len), x \in 0 .. MaxWord}
  IN  [k |-> n.k, len |-> len,
       at |-> [i \in 0 .. len - 1 |-> ValueAt(n, i)] @@ <<>>,
       read |-> [w \in Windows(len) |-> ReadInto(n, w[1], w[2])] @@ <<>>,
       eq |-> [a \in asks |-> EqInto(n, a[1], a[2], a[3])] @@ <<>>,
       lower |-> [x \in 0 .. MaxWord |-> LowerBound(n, x)] @@ <<>>,
       bounds |-> [x \in 0 .. MaxWord |-> NodeBounds(n, x)] @@ <<>>]

(* SortedProbe::bounds_in: the window alone need be sorted.                 *)
BoundsIn(p, from, to, needle) ==
  LET found == CappedBounds(Minus(to, from), [i \in 0 .. to - from - 1 |-> p.at[from + i]], needle)
  IN  <<from + found[1], from + found[2]>>

(* read_at: each run of consecutive indices in one pass, a lone one alone.  *)
ConsecutiveRun(rows) ==
  Max({n \in 1 .. Len(rows) : \A j \in 1 .. n - 1 : rows[j + 1] = rows[j] + 1})
RECURSIVE ReadAt(_, _)
ReadAt(p, rows) ==
  IF rows = <<>> THEN <<>>
  ELSE LET run == ConsecutiveRun(rows)
           head == IF run = 1 THEN <<p.at[rows[1]]>> ELSE p.read[rows[1], run]
       IN  head \o ReadAt(p, SubSeq(rows, run + 1, Len(rows)))

(***************************************************************************)
(* Resolution.                                                             *)
(***************************************************************************)

Declined == [k |-> "declined"]
Resolved(p) == p.k # "declined"

(* Consecutive chunks that are contiguous slices of one parent become one   *)
(* window of it; an empty chunk is left out.                                *)
SliceFollows(chunk, next) ==
  /\ chunk.k = "slice" /\ next.k = "slice" /\ next.child = chunk.child
  /\ next.start = chunk.start + chunk.len
RECURSIVE SliceEnd(_, _)
SliceEnd(chunks, j) ==
  IF j < Len(chunks) /\ SliceFollows(chunks[j], chunks[j + 1]) THEN SliceEnd(chunks, j + 1) ELSE j
RECURSIVE Merged(_, _)
Merged(chunks, i) ==
  IF i > Len(chunks) THEN <<>>
  ELSE IF Decode(chunks[i]) = <<>> THEN Merged(chunks, i + 1)
  ELSE LET j == SliceEnd(chunks, i)
           window == IF chunks[i].k # "slice" THEN chunks[i]
                     ELSE [chunks[i] EXCEPT !.len = chunks[j].start + chunks[j].len - chunks[i].start]
       IN  <<window>> \o Merged(chunks, j + 1)

Slots(a) == IF a.k = "chunked" THEN Merged(a.chunks, 1) ELSE Children(a)

(* The conditions under which array a resolves, its children having.        *)
Supported(a, kids) ==
  CASE a.k = "sequence" -> a.multiplier >= 0
    [] a.k = "runend" -> kids[1].len = kids[2].len
    [] a.k = "bitpacked" ->
         ~a.blockwise /\ (a.width = 0 \/ DivCeil(a.offset + a.len, FL_CHUNK) * FL_CHUNK <= Len(a.packed))
    [] a.k = "delta" ->
         LET blocks == DivCeil(a.offset + a.len, FL_CHUNK) IN
         a.offset < FL_CHUNK /\ kids[2].len >= blocks * FL_CHUNK /\ kids[1].len >= blocks * LANES
    [] OTHER -> TRUE

Patches(kids, offset) == [indices |-> kids[1], values |-> kids[2], offset |-> offset]
NodeOf(a, kids) ==
  CASE a.k \in {"primitive", "constant"} -> a
    [] a.k = "sequence" -> IF a.multiplier = 0 THEN [k |-> "constant", value |-> a.base, len |-> a.len] ELSE a
    [] a.k = "runend" -> [a EXCEPT !.ends = kids[1], !.values = kids[2]]
    [] a.k \in {"for", "slice"} -> [a EXCEPT !.child = kids[1]]
    [] a.k = "blockfor" -> [a EXCEPT !.child = kids[1], !.references = kids[2]]
    [] a.k = "sparse" -> [k |-> "sparse", fill |-> a.fill, len |-> a.len, patches |-> Patches(kids, a.offset)]
    [] a.k = "rle" ->
         [k |-> "rle", values |-> kids[1], indices |-> kids[2], starts |-> kids[3],
          base |-> IF kids[3].len = 0 THEN 0 ELSE kids[3].at[0], offset |-> a.offset, len |-> a.len]
    [] a.k = "bitpacked" ->
         [a EXCEPT !.patches = IF kids = <<>> THEN <<>> ELSE <<Patches(kids, a.patchOffset)>>]
    [] a.k = "delta" -> [a EXCEPT !.bases = kids[1], !.deltas = kids[2]]
    [] a.k = "dict" -> [a EXCEPT !.codes = kids[1], !.values = kids[2]]
    [] a.k = "chunked" ->
         LET starts[c \in 1 .. Len(kids) + 1] == IF c = 1 THEN 0 ELSE starts[c - 1] + kids[c - 1].len IN
         [k |-> "chunked", len |-> starts[Len(kids) + 1],
          chunks |-> [c \in DOMAIN kids |-> [start |-> starts[c], node |-> kids[c]]]]

(* A shared array is a wrapper its source stands for.                       *)
Assembled(a, kids) ==
  CASE ~(\A c \in DOMAIN kids : Resolved(kids[c])) -> Declined
    [] a.k = "shared" -> kids[1]
    [] OTHER -> IF Supported(a, kids) THEN Probe(NodeOf(a, kids)) ELSE Declined
RECURSIVE Resolve(_), ResolveEach(_)
ResolveEach(slots) == [c \in DOMAIN slots |-> Resolve(slots[c])]
Resolve(a) == Assembled(a, ResolveEach(Slots(a)))
=============================================================================
