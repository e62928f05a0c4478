------------------------------ MODULE Scoring -------------------------------
(***************************************************************************)
(* How one received document is judged against the payments that may       *)
(* settle it: the query for candidates, the score of three parts, the cap  *)
(* on names that a cut-off bank description makes ambiguous, the decision. *)
(*                                                                         *)
(* Settlement takes the outcome as a rating; here is the arithmetic behind *)
(* it, for thresholds that administrators move, partners that are          *)
(* registered and aliases that are learnt and forgotten.                   *)
(*                                                                         *)
(* Scores are integers, in hundredths of a point, the precision of the     *)
(* table thresholds.  A name counts with the 0.40 of wName already in it:  *)
(* a full match is 4000, and dividing by wName in CapFor disappears.       *)
(***************************************************************************)
EXTENDS Integers

CONSTANTS
  Txs,     \* transactions of the client that are payments (direction = 2)
  Facts,   \* what they can be: source, total minus amount, days after the document
  Names,   \* weighted name scores dm_match can return
  Uppers,  \* thresholds an administrator may ask for
  Lowers

Full == 10000
FullName == 4000

ASSUME FactsAreTransactions ==
  Facts \subseteq [source : {"bank", "card", "journal"}, less : Int, days : Int]
ASSUME NamesAreScores == Names \subseteq 0 .. FullName
ASSUME ThresholdsAreScores == Uppers \cup Lowers \subseteq 0 .. Full

VARIABLES
  dated,        \* the document's date of issue could be read
  tx,           \* the facts of each transaction
  name,         \* its name score, before any cap
  ambiguous,    \* transactions whose cut description fits several partners
  upper, lower  \* the thresholds in force

vars == <<dated, tx, name, ambiguous, upper, lower>>

-----------------------------------------------------------------------------
(* Candidates and their scores.                                            *)

\* FindTxCandidates: the amount, less a transfer fee if it came from a bank; near the
\* date, if there is one.
Candidate(t) ==
  /\ tx[t].less = 0 \/ (tx[t].source = "bank" /\ tx[t].less \in 0 .. 880)
  /\ dated => tx[t].days \in -5 .. 75

Candidates == {t \in Txs : Candidate(t)}

AmountScore(t) ==
  CASE tx[t].less = 0                                  -> 100
    [] tx[t].source = "bank" /\ tx[t].less \in 1 .. 880 -> 70
    [] OTHER                                           -> 0

CardDateScore(days) ==
  CASE days = 0       -> 100
    [] days \in 1 .. 3 -> 80
    [] OTHER          -> 30

TransferDateScore(days) ==
  CASE days \in 0 .. 45  -> 100
    [] days \in 46 .. 75 -> 80
    [] days \in -5 .. -1 -> 60
    [] OTHER             -> 30

DateScore(t) ==
  IF ~dated THEN 50
  ELSE IF tx[t].source = "card" THEN CardDateScore(tx[t].days)
  ELSE TransferDateScore(tx[t].days)

\* wAmount and wDate: what amount and date contribute.
Rest(t) == 35 * AmountScore(t) + 25 * DateScore(t)

BestRest  == 6000
WorstRest == 3200

-----------------------------------------------------------------------------
(* The cap on ambiguous names.                                             *)

CapMarginNone == 0

CapMarginTotal == 100
CapDefault     == 3200   \* 80 points

\* CapFor: not even full marks for the rest reach the upper threshold; not even the
\* worst marks fall below the lower one.
Ceil  == upper - BestRest - CapMarginTotal
Floor == lower - WorstRest

CapUnderCeil == IF Ceil > CapDefault THEN CapDefault ELSE Ceil

Cap == LET c == IF Ceil > CapDefault THEN CapDefault ELSE Ceil
       IN  IF c < Floor THEN Floor ELSE c

\* Thresholds too close to each other for any cap.
Uncappable == Ceil < Floor

\* CapName, which scoreCandidate applies to ambiguous transactions.
NameScore(t) == IF t \in ambiguous /\ ~Uncappable /\ name[t] > Cap THEN Cap ELSE name[t]

Score(t) == NameScore(t) + Rest(t)

-----------------------------------------------------------------------------
(* The decision.                                                           *)

\* The best candidate; of several the earliest, and of one day any of them.
Bests ==
  {t \in Candidates : \A u \in Candidates :
     Score(u) < Score(t) \/ (Score(u) = Score(t) /\ tx[t].days <= tx[u].days)}

Graded(t) ==
  IF Score(t) >= upper THEN "auto" ELSE IF Score(t) >= lower THEN "review" ELSE "none"

\* Decide, given the best candidate.
Conclude(t) == IF t \in ambiguous /\ Uncappable THEN "review" ELSE Graded(t)

\* What a settlement run may conclude for the document now.
Conclusions == IF Candidates = {} THEN {"none"} ELSE {Conclude(t) : t \in Bests}

-----------------------------------------------------------------------------

TypeOK ==
  /\ dated \in BOOLEAN
  /\ tx \in [Txs -> Facts]
  /\ name \in [Txs -> Names]
  /\ ambiguous \subseteq Txs
  /\ upper \in 0 .. Full /\ lower \in 0 .. Full
  /\ lower <= upper

\* decide.Default, while the organization has set nothing of its own.
Init ==
  /\ dated \in BOOLEAN
  /\ tx \in [Txs -> Facts]
  /\ name \in [Txs -> Names]
  /\ ambiguous \in SUBSET Txs
  /\ upper = 9500 /\ lower = 5500

ValidEach(u, l) == u <= Full /\ l <= Full

\* The model's validation and the table's CHECK.
Valid(u, l) == l <= u

\* ThresholdsController#create; CurrentThreshold finds the new row next time.
SetThresholds(u, l) ==
  /\ Valid(u, l)
  /\ upper' = u /\ lower' = l
  /\ UNCHANGED <<dated, tx, name, ambiguous>>

\* A partner is registered, or another one's alias learnt, that begins like what is left
\* of the descriptions.
Register(cut) ==
  /\ ambiguous' = ambiguous \cup cut
  /\ UNCHANGED <<dated, tx, name, upper, lower>>

\* An alias of the document's partner is learnt: its name scores higher wherever the alias
\* occurs; descriptions that are a beginning of it may become ambiguous.
Learn(better, cut) ==
  /\ better # name /\ \A t \in Txs : name[t] <= better[t]
  /\ name' = better
  /\ ambiguous' = ambiguous \cup cut
  /\ UNCHANGED <<dated, tx, upper, lower>>

\* ForgetAlias takes it back.
Forget(worse, cut) ==
  /\ worse # name /\ \A t \in Txs : worse[t] <= name[t]
  /\ name' = worse
  /\ ambiguous' = ambiguous \ cut
  /\ UNCHANGED <<dated, tx, upper, lower>>

Next ==
  \/ \E u \in Uppers, l \in Lowers : SetThresholds(u, l)
  \/ \E cut \in SUBSET Txs : Register(cut)
  \/ \E scores \in [Txs -> Names], cut \in SUBSET Txs : Learn(scores, cut) \/ Forget(scores, cut)

Spec == Init /\ [][Next]_vars

-----------------------------------------------------------------------------

\* The two bounds CapFor calculates with are the bounds of what the query lets
\* through: without this the cap protects nothing.
RestWithinBounds == \A t \in Candidates : WorstRest <= Rest(t) /\ Rest(t) <= BestRest

\* A description that fits several partners is never settled automatically, whatever
\* the thresholds, not even one that sits exactly at the threshold.
AmbiguousNeverAuto == \A t \in Bests : t \in ambiguous => Conclude(t) # "auto"

\* The cap takes the machine's confidence away, not the candidate: what would have
\* been shown to a person without it is still shown.
CapNeverRejects ==
  \A t \in Bests : t \in ambiguous /\ name[t] + Rest(t) >= lower => Conclude(t) # "none"
=============================================================================
