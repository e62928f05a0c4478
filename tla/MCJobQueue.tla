----------------------------- MODULE MCJobQueue -----------------------------
(* Instances of JobQueue for TLC.  The members of each set are alike.       *)
EXTENDS JobQueue, TLC

Symmetry == Permutations(Docs) \cup Permutations(Workers) \cup Permutations(Users)
=============================================================================
