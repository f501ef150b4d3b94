---------------------------- MODULE MCFileHandle ----------------------------
EXTENDS FileHandle

\* Spellings 0..16: 0 is the default graph's "", 1 and 11 foreign, 2 `"' and
\* 6 `<' alone; 15 is `_' without its colon.
MCLiterals == <<2, 6>>
MCIris == <<6, 11>>
MCBlanks == <<13, 15>>
MCUnderscore == <<12, 16>>
MCUnclosed == {6, 10}
MCCanonical == [x \in 0..16 |-> CASE x = 1 -> 0 [] x = 5 -> 4 [] x = 11 -> Malformed
                                  [] x = 16 -> 8 [] OTHER -> x]

\* Built and written here; written by others with zones cut elsewhere; with
\* foreign spellings in leaves of uneven length; with a leaf past the budget.
MCFiles ==
    {Written(Compressed(<<0, 3, 4, 7, 8, 9, 13>>, 3)),
     [leaves |-> <<<<3>>, <<4, 8, 13>>>>, zone |-> 2, bracketed |-> TRUE],
     [leaves |-> <<<<0, 1, 4>>, <<8, 9, 10>>, <<13, 15>>>>, zone |-> 0, bracketed |-> FALSE],
     [leaves |-> <<<<0, 3, 4, 7, 8, 9, 10>>, <<13>>>>, zone |-> 7, bracketed |-> FALSE]}

On(T, U) == [x \in 0..16 |-> IF x \in T THEN "true" ELSE IF x \in U THEN "unknown" ELSE "false"]
Is(k) == [form |-> "is", kind |-> k, prefix |-> <<>>, closes |-> FALSE]
Str(p, closes) == [form |-> "str", prefix |-> p, closes |-> closes, on |-> On({3}, {4})]
Codes(n) == [i \in 1..n |-> i - 1]

Row(a, b, c, d) == <<a, b, c, d>>
ChunkRows == <<Row(3, 3, 1, 0), Row(4, 3, 2, 0), Row(5, 3, 1, 0), Row(4, 5, 6, 0)>>
BadRows == <<Row(3, 3, 1, 0), Row(4, 1, 3, 0), Row(5, 3, 9, 0), Row(3, 3, 3, 3)>>
SmallRows == <<Row(1, 1, 0, 1), Row(2, 1, 3, 1)>>

MCQueries ==
    {[op |-> "encode", xs |-> <<x>>] : x \in {1, 4, 8, 16}}
    \cup {[op |-> "encode_many", xs |-> <<13, 8, 16, 9, 3, 5, 4>>],
          [op |-> "encode_many", xs |-> <<1, 11>>],
          [op |-> "pattern", xs |-> <<8, 9, 4>>],
          [op |-> "bound", x |-> 9],
          [op |-> "prefix", prefix |-> <<13>>],
          [op |-> "kinds"],
          [op |-> "filter", pred |-> Is("blank"), codes |-> Codes(4)],
          [op |-> "filter", pred |-> Str(<<8, 10>>, FALSE), codes |-> Codes(4)],
          [op |-> "filter", pred |-> Str(<<8, 9>>, TRUE), codes |-> <<0, 2, 3>>],
          [op |-> "filter", pred |-> [form |-> "ne", prefix |-> <<>>, closes |-> FALSE,
                                      on |-> On({3}, {})], codes |-> <<3, 1>>],
          [op |-> "visit", codes |-> <<3, 0, 9, 3, 1>>],
          [op |-> "spell", codes |-> <<3, 0, 2, 3, 0, 3>>, width |-> 2],
          [op |-> "rows", form |-> "quads", rows |-> ChunkRows],
          [op |-> "rows", form |-> "quads", rows |-> BadRows],
          [op |-> "rows", form |-> "strings", rows |-> SmallRows],
          [op |-> "rows", form |-> "lines", rows |-> ChunkRows]}

MCWorkloads ==
    {[queries |-> 2, scans |-> 0, probes |-> 0],
     [queries |-> 0, scans |-> 4, probes |-> 0],
     [queries |-> 0, scans |-> 0, probes |-> 4]}
=============================================================================
