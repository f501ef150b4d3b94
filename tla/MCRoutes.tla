------------------------------ MODULE MCRoutes ------------------------------
EXTENDS Routes

Q(s, p, o, g) == [s |-> s, p |-> p, o |-> o, g |-> g]

(* In s, p, o, g order, its copies' rids out of order.                     *)
SortedBase == <<Q(1, 1, 1, 1), Q(1, 1, 2, 1), Q(1, 2, 1, 2), Q(2, 1, 1, 2), Q(2, 1, 2, 1), Q(2, 2, 1, 1)>>

ShuffledBase == <<Q(2, 1, 1, 2), Q(1, 2, 1, 2), Q(2, 2, 1, 1), Q(1, 1, 1, 1), Q(2, 1, 2, 1), Q(1, 1, 2, 1)>>

StoreOf(file, codes, zones, sorted, types, deleted) ==
  LET base == IF sorted THEN SortedBase ELSE ShuffledBase
  IN [file |-> file, codes |-> codes, zones |-> zones, sorted |-> sorted, base |-> base,
      comps |-> Components(base, types, codes), indexes |-> IndexTypes(types), deleted |-> deleted]

MCStores ==
  {StoreOf(file, layout[1], layout[2], layout[3], types, deleted) :
     file \in BOOLEAN,
     layout \in {<<FALSE, FALSE, TRUE>>, <<TRUE, FALSE, FALSE>>, <<TRUE, TRUE, FALSE>>, <<TRUE, TRUE, TRUE>>},
     types \in {{}, {"copy"}, {"ref"}}, deleted \in {NoMask, Mask({1, 3})}}

MCPatterns ==
  {<<>>, [s |-> 2], [p |-> 1], [o |-> 1], [g |-> 1], [p |-> 1, o |-> 1], [p |-> 1, g |-> 2],
   [o |-> 1, g |-> 1], [s |-> 2, g |-> 1], [p |-> Absent]}

MCPages == {<<0, 1>>, <<0, 2>>, <<0, 4>>, <<1, 2>>, <<3, 9>>, <<9, 1>>}

MCKeeps == {KeepSet(<<2>>), KeepSet(<<1, 2>>), KeepRange(1, 2)}
=============================================================================
