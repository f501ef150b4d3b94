--------------------------- MODULE MCExternalSort ---------------------------
(* Instances of ExternalSort for TLC.                                      *)
EXTENDS ExternalSort

(* Quads of few terms, in and out of order, one of a single term.          *)
SpreadInput == {<<2, 2, 2, 2>>, <<2, 1, 2, 1>>, <<1, 2, 3, 1>>}

(* Quads over two terms: a buffer of four repeats them.                    *)
PairInput == {<<1, 1, 2, 1>>, <<1, 2, 1, 1>>, <<2, 1, 1, 1>>}

(* Quads of one term more than a build may hold.                           *)
WideInput == {<<1, 2, 3, 3>>, <<1, 1, 1, 4>>}

(* Runs of two with copies, runs of four with references, a build of more  *)
(* rows than may be numbered and one of more terms than it may hold.       *)
MCBuilds ==
  {[input |-> SpreadInput, maxInput |-> 5, runRows |-> 2, offsetMax |-> 2, families |-> {"posg", "ospg"}],
   [input |-> PairInput, maxInput |-> 5, runRows |-> 4, offsetMax |-> 4, families |-> {"o", "p"}],
   [input |-> PairInput \cup {<<2, 2, 2, 2>>}, maxInput |-> 4, runRows |-> 3, offsetMax |-> 3, families |-> {"o", "p"}],
   [input |-> WideInput, maxInput |-> 2, runRows |-> 2, offsetMax |-> 2, families |-> {}]}
=============================================================================
