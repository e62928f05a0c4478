----------------------------- MODULE MCScoring ------------------------------
(* Instances of Scoring for TLC: the edges of the windows, of the fee and   *)
(* of the thresholds.                                                      *)
EXTENDS Scoring, TLC

Fact(s, l, d) == [source |-> s, less |-> l, days |-> d]

MCFacts ==
  {Fact("bank", 0, 0), Fact("bank", 0, 45), Fact("bank", 0, -5), Fact("bank", 880, 75),
   Fact("bank", 881, 1), Fact("bank", -1, 1), Fact("bank", 880, 76), Fact("card", 0, 0),
   Fact("card", 0, 3), Fact("card", 0, 4), Fact("card", 500, 0), Fact("journal", 0, 46)}

Symmetry == Permutations(Txs)
=============================================================================
