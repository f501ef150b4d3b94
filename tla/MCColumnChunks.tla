--------------------------- MODULE MCColumnChunks ---------------------------
(* Instances of ColumnChunks for TLC.                                       *)
EXTENDS ColumnChunks

Prim(words) == [k |-> "primitive", w |-> Word, words |-> words]
Narrow4(words) == [k |-> "primitive", w |-> 4, words |-> words]
Packed(width, packed, offset, len, patches, patchOffset) ==
  [k |-> "bitpacked", w |-> 4, width |-> width, packed |-> packed, offset |-> offset, len |-> len,
   patches |-> patches, patchOffset |-> patchOffset, blockwise |-> FALSE]
Ends(ends, values, offset, len) ==
  [k |-> "runend", ends |-> Prim(ends), values |-> values, offset |-> offset, len |-> len]
Cut(child, start, len) == [k |-> "slice", child |-> child, start |-> start, len |-> len]

(* Every encoding, sliced where it can be, with values outside the slice    *)
(* out of order; children are themselves encoded.                           *)
Spread == <<0, 1, 2, 3, 5, 6, 8, 9>>
Patchy == Packed(2, <<3, 0, 0, 1, 1, 2, 3, 0, 3, 3, 3, 3>>, 1, 8, <<Prim(<<7, 8, 9>>), Prim(<<5, 9, 9>>)>>, 1)
MCArrays == <<
  Prim(Spread), Narrow4(<<0, 1, 1, 3, 3>>),
  [k |-> "sequence", base |-> 1, multiplier |-> 2, len |-> 4],
  [k |-> "sequence", base |-> 3, multiplier |-> 0, len |-> 3],
  Ends(<<2, 3, 5, 7>>, Prim(<<5, 1, 3, 3>>), 2, 4),
  Ends(<<1, 3, 5>>, [k |-> "for", reference |-> 2, child |-> Narrow4(<<0, 1, 3>>)], 0, 5),
  [k |-> "for", reference |-> 4, child |-> Packed(2, <<0, 0, 1, 1, 2, 3, 3, 3>>, 0, 7, <<>>, 0)],
  [k |-> "blockfor", offset |-> 1, child |-> Prim(<<1, 2, 0, 1, 9, 0>>), references |-> Prim(<<0, 3, 8>>)],
  Patchy, Packed(0, <<>>, 0, 4, <<>>, 0), Packed(2, <<3, 0, 1, 2, 2, 1, 3, 0>>, 1, 6, <<>>, 0),
  Cut(Patchy, 2, 5), Cut(Prim(<<9, 1, 2, 2, 4, 0>>), 1, 4),
  [k |-> "chunked", chunks |-> <<Cut(Prim(Spread), 1, 2), Cut(Prim(Spread), 3, 2), Prim(<<>>),
                                 [k |-> "constant", value |-> 5, len |-> 2], Cut(Prim(Spread), 6, 2)>>],
  [k |-> "dict", codes |-> Narrow4(<<1, 0, 2, 3, 3>>), values |-> Prim(<<3, 1, 3, 9>>)],
  [k |-> "dict", codes |-> Packed(2, <<0, 0, 1, 1, 2, 2, 3, 3>>, 1, 6, <<>>, 0),
                 values |-> [k |-> "shared", child |-> Prim(<<1, 2, 6, 9>>)]],
  [k |-> "delta", w |-> Word, bases |-> Prim(<<1, 4, 5, 7>>), deltas |-> Prim(<<0, 0, 1, 1, 0, 0, 0, 2>>),
                  offset |-> 1, len |-> 6],
  [k |-> "sparse", fill |-> 2, indices |-> Prim(<<2, 5, 6>>), values |-> Prim(<<0, 7, 9>>), offset |-> 1, len |-> 6],
  [k |-> "rle", values |-> Prim(<<1, 3, 4, 8>>), indices |-> Narrow4(<<0, 0, 1, 1, 0, 1, 1, 1>>),
                starts |-> Prim(<<4, 6>>), offset |-> 1, len |-> 6]
>>

Flat(array) == [k |-> "flat", array |-> array]
Zoned(child) == [k |-> "zoned", child |-> child]
Chunked(children) == [k |-> "chunked", children |-> children]
DictLayout(id, values, codes) == [k |-> "dict", id |-> id, values |-> Flat(values), codes |-> codes]
MCColumns ==
  [a \in DOMAIN MCArrays |-> Flat(MCArrays[a])] \o <<
  Zoned(Chunked(<<Flat(Prim(<<0, 1, 1>>)), Flat(Prim(<<>>)), Flat(Ends(<<2, 3>>, Prim(<<1, 3>>), 0, 3)),
                  Flat(Prim(<<3, 9>>))>>)),
  Chunked(<<DictLayout("a", Prim(<<5, 1, 2>>), Zoned(Chunked(<<Flat(Narrow4(<<1, 2, 0>>)), Flat(Narrow4(<<1, 1>>))>>))),
            DictLayout("b", Prim(<<2, 9>>), Flat(Narrow4(<<0, 0, 1>>)))>>),
  Chunked(<<Flat(Prim(<<0, 1, 1>>)), Flat([Packed(2, <<2, 2, 3, 3>>, 0, 3, <<>>, 0) EXCEPT !.blockwise = TRUE]),
            Flat(Prim(<<3, 9>>))>>)>>

Needles == {0, 1, 2, 3, 5, 9}
Query(op, needle, from, to, rows) == [op |-> op, needle |-> needle, from |-> from, to |-> to, rows |-> rows]
MCWindows == {<<0, 1>>, <<0, 4>>, <<1, 3>>, <<1, 6>>, <<2, 2>>, <<2, 8>>, <<3, 5>>, <<4, 6>>}
MCRows == {<<0>>, <<0, 1, 2>>, <<2, 1>>, <<1, 2, 4, 5, 0>>, <<3, 4, 5, 6, 7>>}
MCQueries ==
  {Query(op, x, 0, 0, <<>>) : op \in {"bounds", "lower"}, x \in Needles}
    \cup {Query(op, x, w[1], w[2], <<>>) : op \in {"within", "count", "find"}, x \in Needles, w \in MCWindows}
    \cup {Query("values", 0, 0, 0, rows) : rows \in MCRows} \cup {Query("take", 0, 0, 0, <<1, 2, 4>>)}
MCRivals == {Query("bounds", 1, 0, 0, <<>>), Query("count", 1, 2, 6, <<>>)}
=============================================================================
