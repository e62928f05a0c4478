----------------------------- MODULE MCBilling -----------------------------
EXTENDS Billing, TLC

\* The subscriptions of an organization are interchangeable.
Symmetry == Permutations(Subs)
=============================================================================
