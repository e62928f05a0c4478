--------------------------- MODULE MCLedgerImport ---------------------------
(* Instances of LedgerImport for TLC: a purchase at one shop that may occur *)
(* twice in a day, a deposit the next day, and a refund on the card.        *)
EXTENDS LedgerImport

MCPayments == << [source |-> "bank", day |-> 1, amount |-> -100, text |-> "shop"],
                 [source |-> "bank", day |-> 2, amount |-> 100, text |-> "shop"],
                 [source |-> "card", day |-> 2, amount |-> 100, text |-> "shop"] >>

MCBooked == <<2, 1, 1>>
=============================================================================
