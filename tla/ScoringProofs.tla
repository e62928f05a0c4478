--------------------------- MODULE ScoringProofs ----------------------------
(***************************************************************************)
(* What holds of the judgement for any payments, names and thresholds.     *)
(* The invariant is the types alone: the properties are arithmetic over    *)
(* any state that has them.                                                *)
(***************************************************************************)
EXTENDS Scoring, TLAPS

\* What amount and date are worth.
LEMMA PartScores ==
  ASSUME TypeOK, NEW t \in Txs
  PROVE  /\ AmountScore(t) \in {0, 70, 100}
         /\ DateScore(t) \in {30, 50, 60, 80, 100}
PROOF
  <1>1. AmountScore(t) \in {0, 70, 100}
    BY DEF AmountScore
  <1>2. \A days : CardDateScore(days) \in {30, 80, 100}
    BY DEF CardDateScore
  <1>3. \A days : TransferDateScore(days) \in {30, 60, 80, 100}
    BY DEF TransferDateScore
  <1>4. DateScore(t) \in {30, 50, 60, 80, 100}
    <2>1. CASE ~dated
      BY <2>1 DEF DateScore
    <2>2. CASE dated /\ tx[t].source = "card"
      BY <1>2, <2>2 DEF DateScore
    <2>3. CASE dated /\ tx[t].source # "card"
      BY <1>3, <2>3 DEF DateScore
    <2> QED
      BY <2>1, <2>2, <2>3 DEF TypeOK
  <1> QED
    BY <1>1, <1>4

\* A candidate's amount is the document's, or less by a transfer fee.
LEMMA CandidateAmount ==
  ASSUME TypeOK, NEW t \in Candidates
  PROVE  AmountScore(t) \in {70, 100}
PROOF
  <1>1. tx[t].less \in Int
    BY FactsAreTransactions DEF Candidates, TypeOK
  <1>2. tx[t].less = 0 \/ (tx[t].source = "bank" /\ tx[t].less \in 0 .. 880)
    BY DEF Candidates, Candidate
  <1>3. CASE tx[t].less = 0
    BY <1>3 DEF AmountScore
  <1>4. CASE tx[t].less # 0
    <2>1. tx[t].source = "bank" /\ tx[t].less \in 1 .. 880
      BY <1>1, <1>2, <1>4
    <2> QED
      BY <1>4, <2>1 DEF AmountScore
  <1> QED
    BY <1>3, <1>4

LEMMA RestIsBounded ==
  ASSUME TypeOK, NEW t \in Candidates
  PROVE  Rest(t) \in Int /\ WorstRest <= Rest(t) /\ Rest(t) <= BestRest
PROOF
  <1>1. t \in Txs
    BY DEF Candidates
  <1>2. AmountScore(t) \in {70, 100} /\ DateScore(t) \in {30, 50, 60, 80, 100}
    BY <1>1, CandidateAmount, PartScores
  <1> QED
    BY <1>2 DEF Rest, WorstRest, BestRest

LEMMA ScoresAreIntegers ==
  ASSUME TypeOK, NEW t \in Candidates
  PROVE  /\ upper \in Int /\ lower \in Int /\ name[t] \in Int
         /\ Ceil \in Int /\ Floor \in Int /\ Cap \in Int
         /\ Rest(t) \in Int /\ Score(t) \in Int
PROOF
  <1>1. upper \in Int /\ lower \in Int /\ name[t] \in Int /\ Rest(t) \in Int
    <2>1. upper \in Int /\ lower \in Int
      BY DEF TypeOK, Full
    <2>2. name[t] \in 0 .. FullName
      BY NamesAreScores DEF TypeOK, Candidates
    <2>3. name[t] \in Int
      BY <2>2
    <2> QED
      BY <2>1, <2>3, RestIsBounded
  <1>2. Ceil \in Int /\ Floor \in Int
    BY <1>1 DEF Ceil, Floor, BestRest, WorstRest, CapMarginTotal
  <1>3. Cap \in Int
    BY <1>2 DEF Cap, CapDefault
  <1>4. NameScore(t) \in Int
    BY <1>1, <1>3 DEF NameScore
  <1> QED
    BY <1>1, <1>2, <1>3, <1>4 DEF Score

\* With room for a cap, an ambiguous name keeps its candidate below the upper threshold;
\* the cap takes no candidate below the lower threshold.
LEMMA CapBetweenThresholds ==
  ASSUME TypeOK, ~Uncappable, NEW t \in Candidates, t \in ambiguous
  PROVE  /\ Score(t) < upper
         /\ Score(t) >= lower \/ Score(t) = name[t] + Rest(t)
PROOF
  <1>1. /\ upper \in Int /\ lower \in Int /\ name[t] \in Int /\ Rest(t) \in Int
        /\ Ceil \in Int /\ Floor \in Int /\ Cap \in Int
    BY ScoresAreIntegers
  <1>2. WorstRest <= Rest(t) /\ Rest(t) <= BestRest
    BY RestIsBounded
  <1>3. Floor <= Ceil
    BY <1>1 DEF Uncappable
  <1>4. Floor <= Cap /\ Cap <= Ceil
    BY <1>1, <1>3 DEF Cap, CapDefault
  <1>5. /\ NameScore(t) \in Int /\ NameScore(t) <= Ceil
        /\ NameScore(t) = name[t] \/ NameScore(t) >= Floor
    BY <1>1, <1>4 DEF NameScore, Uncappable
  <1> QED
    BY <1>1, <1>2, <1>5 DEF Score, Ceil, Floor, BestRest, WorstRest, CapMarginTotal

-----------------------------------------------------------------------------

LEMMA NeverAuto ==
  ASSUME TypeOK
  PROVE  AmbiguousNeverAuto
PROOF
  <1> SUFFICES ASSUME NEW t \in Bests, t \in ambiguous
               PROVE  Conclude(t) # "auto"
    BY DEF AmbiguousNeverAuto
  <1>1. CASE Uncappable
    BY <1>1 DEF Conclude, Graded
  <1>2. CASE ~Uncappable
    <2>1. t \in Candidates
      BY DEF Bests
    <2>2. Score(t) < upper /\ Score(t) \in Int /\ upper \in Int
      BY <1>2, <2>1, CapBetweenThresholds, ScoresAreIntegers
    <2> QED
      BY <1>2, <2>2 DEF Conclude, Graded
  <1> QED
    BY <1>1, <1>2

LEMMA NeverRejects ==
  ASSUME TypeOK
  PROVE  CapNeverRejects
PROOF
  <1> SUFFICES ASSUME NEW t \in Bests, t \in ambiguous, name[t] + Rest(t) >= lower
               PROVE  Conclude(t) # "none"
    BY DEF CapNeverRejects
  <1>1. CASE Uncappable
    BY <1>1 DEF Conclude, Graded
  <1>2. CASE ~Uncappable
    <2>1. t \in Candidates
      BY DEF Bests
    <2>2. Score(t) >= lower
      BY <1>2, <2>1, CapBetweenThresholds
    <2> QED
      BY <1>2, <2>2 DEF Conclude, Graded
  <1> QED
    BY <1>1, <1>2

\* A best candidate is at least as good as a certain one, so it is not ambiguous.
LEMMA NotBlocked ==
  ASSUME TypeOK
  PROVE  ~Uncappable /\ (\E t \in Candidates \ ambiguous : Score(t) >= upper)
         => Bests \cap ambiguous = {} /\ \A b \in Bests : Conclude(b) = "auto"
PROOF
  <1> SUFFICES ASSUME ~Uncappable, NEW t \in Candidates \ ambiguous, Score(t) >= upper,
                      NEW b \in Bests
               PROVE  b \notin ambiguous /\ Conclude(b) = "auto"
    OBVIOUS
  <1>1. b \in Candidates /\ t \in Candidates
    BY DEF Bests
  <1>2. Score(b) \in Int /\ Score(t) \in Int /\ upper \in Int
    BY <1>1, ScoresAreIntegers
  <1>3. Score(t) < Score(b) \/ Score(t) = Score(b)
    BY <1>1 DEF Bests
  <1>4. Score(b) >= upper
    BY <1>2, <1>3
  <1>5. b \notin ambiguous
    BY <1>1, <1>2, <1>4, CapBetweenThresholds
  <1> QED
    BY <1>4, <1>5 DEF Conclude, Graded

-----------------------------------------------------------------------------

LEMMA TypeInvariance == Spec => []TypeOK
PROOF
  <1>1. Init => TypeOK
    BY DEF Init, TypeOK, Full
  <1>2. TypeOK /\ [Next]_vars => TypeOK'
    <2> SUFFICES ASSUME TypeOK, [Next]_vars
                 PROVE  TypeOK'
      OBVIOUS
    <2>1. ASSUME NEW u \in Uppers, NEW l \in Lowers, SetThresholds(u, l) PROVE TypeOK'
      <3>1. u \in 0 .. Full /\ l \in 0 .. Full
        BY ThresholdsAreScores
      <3> QED
        BY <2>1, <3>1 DEF SetThresholds, Valid, TypeOK
    <2>2. ASSUME NEW cut \in SUBSET Txs, Register(cut) PROVE TypeOK'
      BY <2>2 DEF Register, TypeOK
    <2>3. ASSUME NEW scores \in [Txs -> Names], NEW cut \in SUBSET Txs,
                 Learn(scores, cut) \/ Forget(scores, cut)
          PROVE  TypeOK'
      BY <2>3 DEF Learn, Forget, TypeOK
    <2>4. CASE UNCHANGED vars
      BY <2>4 DEF vars, TypeOK
    <2> QED
      BY <2>1, <2>2, <2>3, <2>4 DEF Next
  <1> QED
    BY <1>1, <1>2, PTL DEF Spec

\* The types of the judgement, lower <= upper among them.
THEOREM TypeCorrect == Spec => []TypeOK
BY TypeInvariance

\* The bounds the cap is calculated from hold for all payments the query finds.
THEOREM RestInBounds == Spec => []RestWithinBounds
PROOF
  <1>1. TypeOK => RestWithinBounds
    BY RestIsBounded DEF RestWithinBounds
  <1> QED
    BY <1>1, TypeInvariance, PTL

\* No thresholds that the table accepts, no name score and no set of payments make the
\* machine settle a document with a description that fits several partners.
THEOREM NoAmbiguousAuto == Spec => []AmbiguousNeverAuto
PROOF
  <1>1. TypeOK => AmbiguousNeverAuto
    BY NeverAuto
  <1> QED
    BY <1>1, TypeInvariance, PTL

\* Nor does the cap hide from people what its name would have shown them.
THEOREM CapKeepsCandidates == Spec => []CapNeverRejects
PROOF
  <1>1. TypeOK => CapNeverRejects
    BY NeverRejects
  <1> QED
    BY <1>1, TypeInvariance, PTL

\* Where a cap is possible, no ambiguous candidate is ranked before a certain one: all
\* best candidates are certain and lead to an automatic settlement.
THEOREM CertainFirst ==
  Spec => [](~Uncappable /\ (\E t \in Candidates \ ambiguous : Score(t) >= upper)
             => Bests \cap ambiguous = {} /\ \A b \in Bests : Conclude(b) = "auto")
PROOF
  <1> DEFINE Goal == ~Uncappable /\ (\E t \in Candidates \ ambiguous : Score(t) >= upper)
                     => Bests \cap ambiguous = {} /\ \A b \in Bests : Conclude(b) = "auto"
  <1>1. TypeOK => Goal
    BY NotBlocked
  <1> HIDE DEF Goal
  <1>2. Spec => []Goal
    BY <1>1, TypeInvariance, PTL
  <1> QED
    BY <1>2 DEF Goal
=============================================================================
