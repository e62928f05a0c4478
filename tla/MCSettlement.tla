---------------------------- MODULE MCSettlement ----------------------------
(* Instances of Settlement for TLC: documents of which two want the same    *)
(* transaction, one of them with a second choice.                          *)
EXTENDS Settlement, TLC

Rated(a, b) == [t \in Txs |-> IF t = 1 THEN a ELSE b]

\* Strong on the first; fair on the first; strong on both; nothing comes near.
MCReadings == {Rated(Strong, NoCandidate), Rated(Fair, Weak), Rated(Fair, Strong)}

Symmetry == Permutations(Runs)
=============================================================================
