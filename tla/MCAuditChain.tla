---------------------------- MODULE MCAuditChain ----------------------------
EXTENDS AuditChain, TLC

\* Connections and contents are interchangeable.
Symmetry == Permutations(Writers) \cup Permutations(Contents)
=============================================================================
