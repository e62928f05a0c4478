---------------------------- MODULE LedgerPromise ----------------------------
(***************************************************************************)
(* What importing promises to those who compare documents with the money   *)
(* that moved: every imported statement is in the ledger as a whole, and   *)
(* however statements overlap, a payment counts as often as the statement  *)
(* that shows it most often.  Files, rows and their order do not appear.   *)
(***************************************************************************)
EXTENDS Integers

CONSTANT Kinds       \* payments that look the same: day, amount, direction, text

VARIABLES absorbed,  \* the statements imported so far: how often each shows a payment
          counted    \* how often a payment is in the ledger

vars == <<absorbed, counted>>

AtLeast(n, m) == IF n >= m THEN n ELSE m

Init == absorbed = {} /\ counted = [k \in Kinds |-> 0]

Absorb(shown) ==
  /\ shown \notin absorbed
  /\ absorbed' = absorbed \cup {shown}
  /\ counted' = [k \in Kinds |-> AtLeast(counted[k], shown[k])]

Next == \E shown \in absorbed' : Absorb(shown)

Spec == Init /\ [][Next]_vars
=============================================================================
