--------------------------- MODULE MCResidualScan ---------------------------
(* An instance of ResidualScan for TLC: tables of seven rows and two       *)
(* columns in zones of three, the last zone short.                         *)
EXTENDS ResidualScan

MCTables ==
  { << <<1, 1>>, <<1, 2>>, <<1, 2>>, <<2, 1>>, <<2, 2>>, <<2, 3>>, <<3, 2>> >>,
    << <<1, 1>>, <<1, 1>>, <<2, 1>>, <<2, 1>>, <<2, 1>>, <<2, 1>>, <<1, 1>> >>,
    << <<1, 2>>, <<3, 2>>, <<1, 1>>, <<3, 3>>, <<2, 2>>, <<1, 2>>, <<2, 2>> >>,
    << <<2, 1>>, <<2, 2>>, <<2, 1>>, <<2, 3>>, <<2, 2>>, <<2, 3>>, <<2, 2>> >>,
    << <<1, 1>>, <<2, 2>>, <<3, 3>>, <<2, 2>>, <<1, 2>>, <<2, 2>>, <<2, 1>> >> }

MCStarts ==
  {All, RangeOf(1, 7), RangeOf(0, 4), RangeOf(3, 6), Ids(<<0, 2, 3, 5>>), Ids(<<1, 5, 6>>),
   Ids(<<0, 1, 6>>), Ids(<<0, 1, 2, 3, 4, 5, 6>>)}

Eq(col, code) == [col |-> col, code |-> code]

MCEqualities ==
  { <<Eq(1, 2)>>, <<Eq(2, 2)>>, <<Eq(1, 4)>>,
    <<Eq(1, 2), Eq(2, 2)>>, <<Eq(1, 1), Eq(2, 1)>>, <<Eq(2, 1), Eq(1, 3)>> }

MCTombstones == {NoMask, Mask({}), Mask({0}), Mask({1, 3, 5})}

MCZoneKinds ==
  {<<"none", "none">>, <<"bounds", "none">>, <<"bounds", "counts">>, <<"counts", "counts">>}
=============================================================================
