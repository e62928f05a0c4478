-------------------------- MODULE SettlementProofs --------------------------
(***************************************************************************)
(* What Settlement keeps for any number of documents, transactions, runs   *)
(* and people, whatever the readings are.                                  *)
(***************************************************************************)
EXTENDS Settlement, WellFoundedInduction, TLAPS

\* A set of ids that is not empty has a first one.
LEMMA FirstOf ==
  ASSUME NEW S, S \subseteq Nat, S # {}
  PROVE  Min(S) \in S /\ \A y \in S : Min(S) =< y
<1> DEFINE Below == OpToRel(<, Nat)
<1>1. IsWellFoundedOn(Below, Nat)
  BY NatLessThanWellFounded
<1>2. \A x, y \in Nat : x < y => <<x, y>> \in Below
  BY DEF OpToRel
<1> HIDE DEF Below
<1>3. PICK x \in S : \A y \in S : ~ (<<y, x>> \in Below)
  BY <1>1, WFMin
<1>4. \A y \in S : ~ (y < x)
  BY <1>2, <1>3, Zenon
<1>5. \A y \in S : x =< y
  BY <1>4
<1>6. QED
  BY <1>5 DEF Min

\* If anything is imported, there is a best transaction among it.
LEMMA BestIsImported ==
  ASSUME NEW stars \in Readings, imported \subseteq Txs, imported # {}
  PROVE  Best(stars) \in imported
<1> DEFINE worst(t) == 3 - stars[t]
<1> DEFINE ranks == {worst(t) : t \in imported}
<1>1. stars \in [Txs -> 0 .. 3]
  BY ReadingsAreRatings DEF NoCandidate, Strong
<1>2. ranks \subseteq Nat /\ ranks # {}
  BY <1>1
<1>3. Min(ranks) \in ranks /\ \A y \in ranks : Min(ranks) =< y
  BY <1>2, FirstOf
<1>4. PICK t \in imported : \A u \in imported : worst(t) =< worst(u)
  BY <1>3
<1>5. \A u \in imported : stars[u] <= stars[t]
  BY <1>1, <1>4
<1>6. {x \in imported : \A u \in imported : stars[u] <= stars[x]} # {}
  BY <1>5
<1>7. {x \in imported : \A u \in imported : stars[u] <= stars[x]} \subseteq Nat
  BY OrderedIds
<1>8. QED
  BY <1>6, <1>7, FirstOf DEF Best

\* What Decide arrives at is a conclusion.
LEMMA DecidedIsConclusion ==
  ASSUME NEW stars \in Readings, imported \subseteq Txs
  PROVE  Decided(stars) \in Conclusions
<1>1. Outcome(stars[Best(stars)]) \in {"auto", "review", "none"}
  BY DEF Outcome, Strong, Fair
<1>2. CASE imported = {} \/ Outcome(stars[Best(stars)]) = "none"
  BY <1>2 DEF Decided, Nothing, Conclusions
<1>3. CASE imported # {} /\ Outcome(stars[Best(stars)]) # "none"
  <2>1. Best(stars) \in Txs
    BY <1>3, BestIsImported
  <2>2. QED
    BY <1>1, <1>3, <2>1 DEF Decided, Conclusions
<1>4. QED
  BY <1>2, <1>3

-----------------------------------------------------------------------------
(* The invariant.  A run that has begun has a document at hand; it never   *)
(* concludes what only people decide; what it is                           *)
(* about to fence is automatic; the row it refreshes is there; and of the  *)
(* documents it still has ahead, those that are decided were decided since *)
(* it began.                                                               *)

HasWork == \A r \in Runs : pc[r] # "idle" => DOMAIN work[r] # {}

ConcludesOnlyOpen == \A r \in Runs : conclusion[r].status \notin Fixed

FencesAutos == \A r \in Runs : pc[r] \in {"claim", "fence"} => conclusion[r].status = "auto"

RefreshesARow == \A r \in Runs : pc[r] = "refresh" => settlement[Current(r)] # NoRow

AheadUndecided ==
  \A r \in Runs : pc[r] # "idle" => \A d \in DOMAIN work[r] : IsFixed(d) => d \in raced[r]

IndInv ==
  /\ TypeOK
  /\ HasWork
  /\ ConcludesOnlyOpen
  /\ FencesAutos
  /\ RefreshesARow
  /\ AuditTellsSettlement
  /\ AheadUndecided

\* A run under way has a document of its list at hand.
LEMMA AtHand ==
  ASSUME TypeOK, HasWork, NEW r \in Runs, pc[r] # "idle"
  PROVE  /\ Current(r) \in DOMAIN work[r]
         /\ Current(r) \in Docs
         /\ work[r][Current(r)] \in Readings
<1>1. PICK D \in SUBSET Docs : work[r] \in [D -> Readings]
  BY DEF TypeOK
<1>2. DOMAIN work[r] \subseteq Docs /\ DOMAIN work[r] # {}
  BY <1>1 DEF HasWork
<1>3. Current(r) \in DOMAIN work[r]
  <2>1. DOMAIN work[r] \subseteq Nat
    BY <1>2, OrderedIds
  <2>2. QED
    BY <1>2, <2>1, FirstOf DEF Current
<1>4. QED
  BY <1>1, <1>2, <1>3

\* The variables of a run, of their types.
RunTypes ==
  /\ pc' \in [Runs -> {"idle", "judge", "claim", "compare", "refresh", "fence", "write"}]
  /\ work' \in [Runs -> UNION {[D -> Readings] : D \in SUBSET Docs}]
  /\ conclusion' \in [Runs -> Conclusions]
  /\ done' \in [Runs -> SUBSET Docs]

\* Giving way leaves a conclusion a conclusion.
LEMMA Yielding ==
  ASSUME TypeOK, NEW r \in Runs, conclusion[r].status = "auto", Yield(r)
  PROVE  conclusion' \in [Runs -> Conclusions]
<1>1. conclusion[r] \in Conclusions
  BY DEF TypeOK
<1>2. PICK t \in Txs : conclusion[r] = [status |-> "auto", tx |-> t]
  BY <1>1 DEF Conclusions
<1>3. \A s \in {"auto", "review"} : [conclusion[r] EXCEPT !.status = s] \in Conclusions
  BY <1>2 DEF Conclusions
<1>4. QED
  BY <1>2, <1>3 DEF Yield, TypeOK

\* Finishing a document leaves the rest of the list.
LEMMA Finishing ==
  ASSUME TypeOK, HasWork, NEW r \in Runs, pc[r] # "idle", Finish(r)
  PROVE  RunTypes
<1>1. PICK D \in SUBSET Docs : work[r] \in [D -> Readings]
  BY DEF TypeOK
<1>2. Current(r) \in Docs
  BY AtHand
<1> DEFINE rest == DOMAIN work[r] \ {Current(r)}
<1>3. [d \in rest |-> work[r][d]] \in [rest -> Readings] /\ rest \in SUBSET Docs
  BY <1>1
<1>4. [d \in rest |-> work[r][d]] \in UNION {[E -> Readings] : E \in SUBSET Docs}
  BY <1>3
<1>5. work' = [work EXCEPT ![r] = [d \in rest |-> work[r][d]]]
  BY DEF Finish
<1>6. work' \in [Runs -> UNION {[E -> Readings] : E \in SUBSET Docs}]
  BY <1>4, <1>5 DEF TypeOK
<1>7. pc' \in [Runs -> {"idle", "judge", "claim", "compare", "refresh", "fence", "write"}]
  BY DEF Finish, Goto, TypeOK
<1>8. conclusion' \in [Runs -> Conclusions]
  BY DEF Finish, TypeOK, Conclusions, Nothing
<1>9. done' \in [Runs -> SUBSET Docs]
  BY <1>2 DEF Finish, TypeOK
<1>10. QED
  BY <1>6, <1>7, <1>8, <1>9 DEF RunTypes

-----------------------------------------------------------------------------
(* Types.                                                                  *)

\* A person's choice is a conclusion.
LEMMA SelectableIsConclusion ==
  ASSUME imported \subseteq Txs
  PROVE  Selectable \subseteq Conclusions
  BY DEF Selectable, Conclusions

\* Every statement of a run leaves the run, the row and the audit row of their types.
LEMMA RunStepTypes ==
  ASSUME IndInv, NEW r \in Runs, RunStep(r)
  PROVE  TypeOK'
<1> USE DEF IndInv
<1>1. pc[r] # "idle"
  BY DEF RunStep, Judge, CheckClaim, Compare, Refresh, Fence, Write
<1>2. Current(r) \in Docs /\ work[r][Current(r)] \in Readings
  BY <1>1, AtHand
<1>3. Finish(r) => RunTypes
  BY <1>1, Finishing
<1>4. RunTypes /\ UNCHANGED <<alone, raced>>
  <2>1. CASE Judge(r)
    <3>1. Decided(work[r][Current(r)]) \in Conclusions
      BY <1>2, DecidedIsConclusion DEF TypeOK
    <3>2. QED
      BY <2>1, <3>1 DEF Judge, Goto, RunTypes, TypeOK, history
  <2>2. CASE CheckClaim(r)
    <3>1. conclusion[r].status = "auto"
      BY <2>2 DEF FencesAutos, CheckClaim
    <3>2. conclusion' \in [Runs -> Conclusions]
      BY <2>2, <3>1, Yielding DEF CheckClaim
    <3>3. QED
      BY <2>2, <3>2 DEF CheckClaim, Goto, RunTypes, TypeOK, history
  <2>3. CASE Compare(r)
    <3>1. CASE Finish(r)
      BY <1>3, <3>1 DEF Finish
    <3>2. CASE ~ Finish(r)
      BY <2>3, <3>2 DEF Compare, Goto, RunTypes, TypeOK, history
    <3>3. QED
      BY <3>1, <3>2
  <2>4. CASE Refresh(r)
    BY <1>3, <2>4 DEF Refresh, Finish
  <2>5. CASE Fence(r)
    <3>1. conclusion[r].status = "auto"
      BY <2>5 DEF FencesAutos, Fence
    <3>2. conclusion' \in [Runs -> Conclusions]
      BY <2>5, <3>1, Yielding DEF Fence
    <3>3. QED
      BY <2>5, <3>2 DEF Fence, Goto, RunTypes, TypeOK, history
  <2>6. CASE Write(r)
    BY <1>3, <2>6 DEF Write, Finish
  <2>7. QED
    BY <2>1, <2>2, <2>3, <2>4, <2>5, <2>6 DEF RunStep
<1>5. settlement' \in [Docs -> Rows]
  <2>1. CASE Refresh(r)
    <3>1. PICK c \in Conclusions, who \in {"machine", "person"} : settlement[Current(r)] = Row(c, who)
      BY <1>2, <2>1 DEF RefreshesARow, Refresh, TypeOK, Rows
    <3>2. [settlement[Current(r)] EXCEPT !.why = "machine"] = Row(c, "machine")
      BY <3>1 DEF Row
    <3>3. Row(c, "machine") \in Rows
      BY DEF Rows
    <3>4. QED
      BY <2>1, <3>2, <3>3 DEF Refresh, TypeOK
  <2>2. CASE Write(r)
    <3>1. conclusion[r] \in Conclusions
      BY DEF TypeOK
    <3>2. Row(conclusion[r], "machine") \in Rows
      BY <3>1 DEF Rows
    <3>3. QED
      BY <2>2, <3>2 DEF Write, TypeOK
  <2>3. CASE Judge(r) \/ CheckClaim(r) \/ Compare(r) \/ Fence(r)
    BY <2>3 DEF Judge, CheckClaim, Compare, Fence, TypeOK
  <2>4. QED
    BY <2>1, <2>2, <2>3 DEF RunStep
<1>6. audit' \in [Docs -> Conclusions \cup {[status |-> "no_row", tx |-> NoTx]}]
  <2>1. CASE Write(r)
    BY <2>1 DEF Write, Logged, TypeOK
  <2>2. CASE Judge(r) \/ CheckClaim(r) \/ Compare(r) \/ Refresh(r) \/ Fence(r)
    BY <2>2 DEF Judge, CheckClaim, Compare, Refresh, Fence, TypeOK
  <2>3. QED
    BY <2>1, <2>2 DEF RunStep
<1>7. UNCHANGED <<rating, imported, readings, decisions>>
  BY DEF RunStep, Judge, CheckClaim, Compare, Refresh, Fence, Write, budgets
<1>8. QED
  BY <1>4, <1>5, <1>6, <1>7 DEF TypeOK, RunTypes

\* So does everything else that happens.
LEMMA TypeStep ==
  ASSUME IndInv, Next
  PROVE  TypeOK'
<1> USE DEF IndInv
<1>1. ASSUME NEW d \in Docs, NEW reading \in Readings, Read(d, reading)
      PROVE  TypeOK'
  BY <1>1, BoundsAreNaturals DEF Read, TypeOK, runVars, history
<1>2. ASSUME NEW new \in SUBSET Txs, Import(new)
      PROVE  TypeOK'
  BY <1>2 DEF Import, TypeOK, runVars, history, budgets
<1>3. ASSUME NEW r \in Runs, Start(r)
      PROVE  TypeOK'
  <2>1. [d \in Targets |-> rating[d]] \in [Targets -> Readings] /\ Targets \in SUBSET Docs
    BY DEF Targets, TypeOK
  <2>2. [d \in Targets |-> rating[d]] \in UNION {[D -> Readings] : D \in SUBSET Docs}
    BY <2>1
  <2>3. work' \in [Runs -> UNION {[D -> Readings] : D \in SUBSET Docs}]
    BY <1>3, <2>2 DEF Start, TypeOK
  <2>4. pc' \in [Runs -> {"idle", "judge", "claim", "compare", "refresh", "fence", "write"}]
    BY <1>3 DEF Start, Goto, TypeOK
  <2>5. alone' \in [Runs -> BOOLEAN]
    BY <1>3, Zenon DEF Start
  <2>6. raced' \in [Runs -> SUBSET Docs] /\ done' \in [Runs -> SUBSET Docs]
    BY <1>3 DEF Start, TypeOK
  <2>7. UNCHANGED <<rating, imported, settlement, audit, conclusion, readings, decisions>>
    BY <1>3 DEF Start, budgets
  <2>8. QED
    BY <2>3, <2>4, <2>5, <2>6, <2>7 DEF TypeOK
<1>4. ASSUME NEW r \in Runs, Fails(r)
      PROVE  TypeOK'
  <2>1. [d \in {} |-> Unread] \in UNION {[D -> Readings] : D \in SUBSET Docs}
    <3>1. [d \in {} |-> Unread] \in [{} -> Readings]
      OBVIOUS
    <3>2. QED
      BY <3>1
  <2>2. work' \in [Runs -> UNION {[D -> Readings] : D \in SUBSET Docs}]
    BY <1>4, <2>1 DEF Fails, TypeOK
  <2>3. conclusion' \in [Runs -> Conclusions]
    BY <1>4 DEF Fails, TypeOK, Nothing, Conclusions
  <2>4. pc' \in [Runs -> {"idle", "judge", "claim", "compare", "refresh", "fence", "write"}]
    BY <1>4 DEF Fails, Goto, TypeOK
  <2>5. UNCHANGED <<rating, imported, settlement, audit, alone, raced, done, readings, decisions>>
    BY <1>4 DEF Fails, history, budgets
  <2>6. QED
    BY <2>2, <2>3, <2>4, <2>5 DEF TypeOK
<1>5. ASSUME NEW d \in Docs, NEW choice \in Selectable, Confirm(d, choice)
      PROVE  TypeOK'
  <2>1. choice \in Conclusions
    BY SelectableIsConclusion DEF TypeOK
  <2>2. Row(choice, "person") \in Rows
    BY <2>1 DEF Rows
  <2>3. settlement' \in [Docs -> Rows]
    BY <1>5, <2>2 DEF Confirm, TypeOK
  <2>4. audit' \in [Docs -> Conclusions \cup {[status |-> "no_row", tx |-> NoTx]}]
    BY <1>5, <2>1 DEF Confirm, TypeOK
  <2>5. raced' \in [Runs -> SUBSET Docs] /\ decisions' \in 0 .. MaxDecisions
    BY <1>5, BoundsAreNaturals DEF Confirm, TypeOK
  <2>6. UNCHANGED <<rating, imported, pc, work, conclusion, alone, done, readings>>
    BY <1>5 DEF Confirm, runVars
  <2>7. QED
    BY <2>3, <2>4, <2>5, <2>6 DEF TypeOK
<1>6. QED
  BY <1>1, <1>2, <1>3, <1>4, <1>5, RunStepTypes DEF Next

-----------------------------------------------------------------------------
(* What a run has at hand.                                                 *)

\* A statement of one run leaves the others alone, and its list only shrinks.
LEMMA RunFrame ==
  ASSUME TypeOK, HasWork, NEW r \in Runs, RunStep(r)
  PROVE  /\ \A o \in Runs \ {r} :
              pc'[o] = pc[o] /\ work'[o] = work[o] /\ conclusion'[o] = conclusion[o]
         /\ pc[r] # "idle" /\ raced' = raced
         /\ DOMAIN work'[r] \subseteq DOMAIN work[r]
         /\ pc'[r] # "idle" => DOMAIN work'[r] # {}
<1>1. pc[r] # "idle"
  BY DEF RunStep, Judge, CheckClaim, Compare, Refresh, Fence, Write
<1>2. CASE Finish(r)
  BY <1>1, <1>2 DEF Finish, Goto, TypeOK
<1>3. CASE ~ Finish(r)
  <2>1. UNCHANGED <<work, raced>>
    BY <1>3 DEF RunStep, Judge, CheckClaim, Compare, Refresh, Fence, Write, history
  <2>2. \A o \in Runs \ {r} : pc'[o] = pc[o] /\ conclusion'[o] = conclusion[o]
    BY <1>3 DEF RunStep, Judge, CheckClaim, Compare, Refresh, Fence, Write, Goto, Yield, TypeOK
  <2>3. QED
    BY <1>1, <2>1, <2>2 DEF HasWork
<1>4. QED
  BY <1>2, <1>3

\* A list that was not empty is not at the end before the run is idle.
LEMMA WorkStep ==
  ASSUME IndInv, Next
  PROVE  HasWork'
<1> USE DEF IndInv
<1>1. CASE UNCHANGED <<pc, work>>
  BY <1>1 DEF HasWork
<1>2. ASSUME NEW r \in Runs, Start(r)
      PROVE  HasWork'
  BY <1>2 DEF Start, Goto, HasWork, TypeOK
<1>3. ASSUME NEW r \in Runs, RunStep(r)
      PROVE  HasWork'
  BY <1>3, RunFrame DEF HasWork
<1>4. ASSUME NEW r \in Runs, Fails(r)
      PROVE  HasWork'
  BY <1>4 DEF Fails, Goto, HasWork, TypeOK
<1>5. QED
  BY <1>1, <1>2, <1>3, <1>4 DEF Next, Read, Import, Confirm, runVars

\* What a run concludes is open to people, and automatic where it is fenced.
LEMMA ConclusionStep ==
  ASSUME IndInv, Next
  PROVE  ConcludesOnlyOpen' /\ FencesAutos'
<1> USE DEF IndInv
<1>1. CASE UNCHANGED <<pc, conclusion>>
  BY <1>1 DEF ConcludesOnlyOpen, FencesAutos
<1>2. ASSUME NEW r \in Runs, Start(r)
      PROVE  ConcludesOnlyOpen' /\ FencesAutos'
  BY <1>2 DEF Start, Goto, ConcludesOnlyOpen, FencesAutos, TypeOK
<1>3. ASSUME NEW r \in Runs, Fails(r)
      PROVE  ConcludesOnlyOpen' /\ FencesAutos'
  BY <1>3 DEF Fails, Goto, Nothing, Fixed, ConcludesOnlyOpen, FencesAutos, TypeOK
<1>4. ASSUME NEW r \in Runs, RunStep(r)
      PROVE  ConcludesOnlyOpen' /\ FencesAutos'
  <2>1. conclusion'[r].status \notin Fixed /\ (pc'[r] \in {"claim", "fence"} => conclusion'[r].status = "auto")
    <3>1. CASE Finish(r)
      BY <3>1 DEF Finish, Goto, Nothing, Fixed, TypeOK
    <3>2. CASE Judge(r)
      <4>1. Decided(work[r][Current(r)]).status \notin Fixed
        BY DEF Decided, Nothing, Outcome, Fixed
      <4>2. QED
        BY <3>2, <4>1 DEF Judge, Goto, TypeOK
    <3>3. CASE CheckClaim(r) \/ Fence(r)
      <4>1. conclusion'[r].status \in {"auto", "review"}
        <5>1. conclusion[r].status = "auto" /\ Yield(r)
          BY <3>3 DEF CheckClaim, Fence, FencesAutos
        <5>2. PICK t \in Txs : conclusion[r] = [status |-> "auto", tx |-> t]
          BY <5>1 DEF TypeOK, Conclusions
        <5>3. QED
          BY <5>1, <5>2 DEF Yield, TypeOK
      <4>2. pc'[r] \notin {"claim", "fence"}
        BY <3>3 DEF CheckClaim, Fence, Goto, TypeOK
      <4>3. QED
        BY <4>1, <4>2 DEF Fixed
    <3>4. CASE Compare(r) /\ ~ Finish(r)
      BY <3>4 DEF Compare, Goto, ConcludesOnlyOpen, TypeOK
    <3>5. QED
      BY <1>4, <3>1, <3>2, <3>3, <3>4 DEF RunStep, Refresh, Write
  <2>2. QED
    BY <1>4, <2>1, RunFrame DEF ConcludesOnlyOpen, FencesAutos
<1>5. QED
  BY <1>1, <1>2, <1>3, <1>4 DEF Next, Read, Import, Confirm, runVars

-----------------------------------------------------------------------------
(* Who touches a row.                                                      *)

\* Only a person, or a run that has the document at hand and finishes it, and which
\* stores nothing that only people decide.
LEMMA Touching ==
  ASSUME IndInv, Next, NEW d \in Docs, settlement'[d] # settlement[d]
  PROVE  /\ settlement'[d] # NoRow
         /\ \/ settlement'[d].why = "person" /\ \A r \in Runs : d \in raced'[r]
            \/ /\ \E r \in Runs : RunStep(r) /\ Finish(r) /\ d = Current(r)
               /\ settlement'[d].status \in Fixed => IsFixed(d)
<1> USE DEF IndInv
<1>1. ASSUME NEW e \in Docs, NEW choice \in Selectable, Confirm(e, choice)
      PROVE  /\ settlement'[d] = Row(choice, "person") /\ choice \in Conclusions
             /\ \A r \in Runs : d \in raced'[r]
  <2>1. choice \in Conclusions
    BY SelectableIsConclusion DEF TypeOK
  <2>2. QED
    BY <1>1, <2>1 DEF Confirm, TypeOK
<1>2. ASSUME NEW r \in Runs, RunStep(r)
      PROVE  /\ Finish(r) /\ d = Current(r) /\ settlement'[d] # NoRow
             /\ settlement'[d].status \in Fixed => IsFixed(d)
  <2>1. CASE Write(r)
    <3>1. d = Current(r) /\ settlement'[d] = Row(conclusion[r], "machine") /\ Finish(r)
      BY <2>1 DEF Write, TypeOK
    <3>2. conclusion[r] \in Conclusions /\ conclusion[r].status \notin Fixed
      BY DEF TypeOK, ConcludesOnlyOpen
    <3>3. QED
      BY <3>1, <3>2 DEF Row, NoRow, Conclusions
  <2>2. CASE Refresh(r)
    <3>1. /\ d = Current(r) /\ Finish(r)
          /\ settlement'[d] = [settlement[d] EXCEPT !.why = "machine"]
      BY <2>2 DEF Refresh, TypeOK
    <3>2. settlement[d] \in Rows /\ settlement[d] # NoRow
      BY <2>2, <3>1 DEF TypeOK, Refresh, RefreshesARow
    <3>3. PICK c \in Conclusions, who \in {"machine", "person"} : settlement[d] = Row(c, who)
      BY <3>2 DEF Rows
    <3>4. settlement'[d] = Row(c, "machine")
      BY <3>1, <3>3 DEF Row
    <3>5. QED
      BY <3>1, <3>3, <3>4 DEF Row, NoRow, Conclusions, IsFixed
  <2>3. QED
    BY <1>2, <2>1, <2>2 DEF RunStep, Judge, CheckClaim, Compare, Fence
<1>3. (\E e \in Docs : \E choice \in Selectable : Confirm(e, choice)) \/ (\E r \in Runs : RunStep(r))
  BY DEF Next, Read, Import, Start, Fails
<1>4. CASE \E e \in Docs : \E choice \in Selectable : Confirm(e, choice)
  <2>1. PICK choice \in Conclusions : settlement'[d] = Row(choice, "person")
    BY <1>1, <1>4
  <2>2. settlement'[d].why = "person" /\ settlement'[d] # NoRow
    BY <2>1 DEF Row, NoRow
  <2>3. \A r \in Runs : d \in raced'[r]
    BY <1>1, <1>4
  <2>4. QED
    BY <2>2, <2>3
<1>5. CASE \E r \in Runs : RunStep(r)
  BY <1>2, <1>5
<1>6. QED
  BY <1>3, <1>4, <1>5

\* A row that has been stored stays; a run refreshes what it has compared.
LEMMA RefreshStep ==
  ASSUME IndInv, Next
  PROVE  RefreshesARow'
<1> USE DEF IndInv
<1> SUFFICES ASSUME NEW r \in Runs, pc'[r] = "refresh"
             PROVE  settlement'[Min(DOMAIN work'[r])] # NoRow
  BY DEF RefreshesARow, Current
<1>1. CASE pc[r] = "refresh" /\ work'[r] = work[r]
  <2>1. Current(r) \in Docs /\ settlement[Current(r)] # NoRow
    BY <1>1, AtHand DEF RefreshesARow
  <2>2. settlement'[Current(r)] # NoRow
    BY <2>1, Touching
  <2>3. QED
    BY <1>1, <2>2 DEF Current
<1>2. CASE Compare(r)
  <2>1. /\ settlement[Current(r)].status = conclusion[r].status
        /\ UNCHANGED <<settlement, work>>
    BY <1>2 DEF Compare, Finish, Goto, TypeOK
  <2>2. conclusion[r].status # "no_row"
    BY DEF TypeOK, Conclusions
  <2>3. QED
    BY <2>1, <2>2 DEF NoRow, Current
<1>3. UNCHANGED <<pc, work>> \/ (\E o \in Runs : Start(o) \/ RunStep(o) \/ Fails(o))
  BY DEF Next, Read, Import, Confirm, runVars
<1>4. CASE UNCHANGED <<pc, work>>
  BY <1>1, <1>4
<1>5. ASSUME NEW o \in Runs, Start(o) \/ RunStep(o) \/ Fails(o)
      PROVE  (pc[r] = "refresh" /\ work'[r] = work[r]) \/ Compare(r)
  <2>1. CASE o = r
    BY <1>5, <2>1 DEF Start, Fails, RunStep, Judge, CheckClaim, Refresh, Fence, Write, Finish, Goto, TypeOK
  <2>2. CASE o # r
    <3>1. CASE RunStep(o)
      BY <2>2, <3>1, RunFrame
    <3>2. CASE Start(o) \/ Fails(o)
      BY <2>2, <3>2 DEF Start, Fails, Goto, TypeOK
    <3>3. QED
      BY <1>5, <3>1, <3>2
  <2>3. QED
    BY <2>1, <2>2
<1>6. QED
  BY <1>1, <1>2, <1>3, <1>4, <1>5

\* Row and audit row are written together.
LEMMA AuditStep ==
  ASSUME IndInv, Next
  PROVE  AuditTellsSettlement'
<1> USE DEF IndInv
<1> SUFFICES ASSUME NEW d \in Docs
             PROVE  audit'[d] = [status |-> settlement'[d].status, tx |-> settlement'[d].tx]
  BY DEF AuditTellsSettlement
<1>1. ASSUME NEW c \in Conclusions, NEW who,
             NEW e, audit' = [audit EXCEPT ![e] = c], settlement' = [settlement EXCEPT ![e] = Row(c, who)]
      PROVE  audit'[d] = [status |-> settlement'[d].status, tx |-> settlement'[d].tx]
  <2>1. c = [status |-> c.status, tx |-> c.tx]
    BY DEF Conclusions
  <2>2. CASE d = e
    BY <1>1, <2>1, <2>2 DEF Row, TypeOK
  <2>3. CASE d # e
    BY <1>1, <2>3 DEF AuditTellsSettlement, TypeOK
  <2>4. QED
    BY <2>2, <2>3
<1>2. ASSUME NEW e \in Docs, NEW choice \in Selectable, Confirm(e, choice)
      PROVE  audit'[d] = [status |-> settlement'[d].status, tx |-> settlement'[d].tx]
  <2>1. choice \in Conclusions
    BY SelectableIsConclusion DEF TypeOK
  <2>2. QED
    BY <1>1, <1>2, <2>1 DEF Confirm
<1>3. ASSUME NEW r \in Runs, Write(r)
      PROVE  audit'[d] = [status |-> settlement'[d].status, tx |-> settlement'[d].tx]
  <2>1. conclusion[r] \in Conclusions
    BY DEF TypeOK
  <2>2. QED
    BY <1>1, <1>3, <2>1 DEF Write, Logged
<1>4. ASSUME NEW r \in Runs, Refresh(r)
      PROVE  audit'[d] = [status |-> settlement'[d].status, tx |-> settlement'[d].tx]
  <2>1. audit' = audit /\ settlement' = [settlement EXCEPT ![Current(r)].why = "machine"]
    BY <1>4 DEF Refresh
  <2>2. settlement[d] \in Rows
    BY DEF TypeOK
  <2>3. settlement[d] = [status |-> settlement[d].status, tx |-> settlement[d].tx, why |-> settlement[d].why]
    BY <2>2 DEF Rows, Row, NoRow
  <2>4. settlement'[d].status = settlement[d].status /\ settlement'[d].tx = settlement[d].tx
    BY <2>1, <2>3 DEF TypeOK
  <2>5. QED
    BY <2>1, <2>4 DEF AuditTellsSettlement
<1>5. CASE UNCHANGED <<settlement, audit>>
  BY <1>5 DEF AuditTellsSettlement
<1>6. QED
  BY <1>2, <1>3, <1>4, <1>5 DEF Next, RunStep, Read, Import, Start, Fails, Judge, CheckClaim, Compare, Fence

\* A decision about a document that a run has ahead is noted as taken meanwhile.
LEMMA AheadStep ==
  ASSUME IndInv, Next
  PROVE  AheadUndecided'
<1> USE DEF IndInv
<1> SUFFICES ASSUME NEW r \in Runs, pc'[r] # "idle", NEW d \in DOMAIN work'[r],
                    settlement'[d].status \in Fixed
             PROVE  d \in raced'[r]
  BY DEF AheadUndecided, IsFixed
<1>1. d \in Docs
  BY TypeStep DEF TypeOK
<1>2. CASE Start(r)
  BY <1>2 DEF Start, Targets, IsFixed, TypeOK
<1>3. ~ Start(r) => /\ pc[r] # "idle" /\ d \in DOMAIN work[r] /\ raced[r] \subseteq raced'[r]
  <2>1. CASE UNCHANGED <<pc, work, raced>>
    BY <2>1
  <2>2. ASSUME NEW e \in Docs, NEW choice \in Selectable, Confirm(e, choice)
        PROVE  /\ pc[r] # "idle" /\ d \in DOMAIN work[r] /\ raced[r] \subseteq raced'[r]
    BY <2>2 DEF Confirm, runVars
  <2>3. ASSUME NEW o \in Runs, RunStep(o)
        PROVE  /\ pc[r] # "idle" /\ d \in DOMAIN work[r] /\ raced[r] \subseteq raced'[r]
    BY <2>3, RunFrame
  <2>4. ASSUME NEW o \in Runs, Fails(o)
        PROVE  /\ pc[r] # "idle" /\ d \in DOMAIN work[r] /\ raced[r] \subseteq raced'[r]
    BY <2>4 DEF Fails, Goto, history, TypeOK
  <2>5. ASSUME NEW o \in Runs, Start(o), o # r
        PROVE  /\ pc[r] # "idle" /\ d \in DOMAIN work[r] /\ raced[r] \subseteq raced'[r]
    BY <2>5 DEF Start, Goto, TypeOK
  <2>6. QED
    BY <2>1, <2>2, <2>3, <2>4, <2>5 DEF Next, Read, Import, runVars, history
<1>4. CASE ~ Start(r) /\ IsFixed(d)
  BY <1>3, <1>4 DEF AheadUndecided
<1>5. CASE ~ Start(r) /\ ~ IsFixed(d)
  BY <1>1, <1>5, Touching DEF IsFixed
<1>6. QED
  BY <1>2, <1>4, <1>5

-----------------------------------------------------------------------------
(* Theorems.                                                               *)

\* The invariant holds at the start and every step keeps it.
THEOREM Inductive == Spec => []IndInv
<1>1. Init => IndInv
  <2> SUFFICES ASSUME Init
               PROVE  IndInv
    OBVIOUS
  <2>1. [d \in {} |-> Unread] \in UNION {[D -> Readings] : D \in SUBSET Docs}
    <3>1. [d \in {} |-> Unread] \in [{} -> Readings]
      OBVIOUS
    <3>2. QED
      BY <3>1
  <2>2. Nothing \in Conclusions /\ NoRow \in Rows
    BY DEF Nothing, Conclusions, Rows
  <2>3. TypeOK
    <3>1. work \in [Runs -> UNION {[D -> Readings] : D \in SUBSET Docs}]
      BY <2>1 DEF Init
    <3>2. alone \in [Runs -> BOOLEAN]
      BY Zenon DEF Init
    <3>3. readings \in 0 .. MaxReadings /\ decisions \in 0 .. MaxDecisions
      BY BoundsAreNaturals DEF Init
    <3>4. settlement \in [Docs -> Rows] /\ conclusion \in [Runs -> Conclusions]
      BY <2>2 DEF Init
    <3>5. QED
      BY <3>1, <3>2, <3>3, <3>4 DEF Init, TypeOK
  <2>4. HasWork /\ RefreshesARow /\ AheadUndecided
    BY DEF Init, HasWork, RefreshesARow, AheadUndecided
  <2>5. ConcludesOnlyOpen /\ FencesAutos /\ AuditTellsSettlement
    BY DEF Init, ConcludesOnlyOpen, FencesAutos, AuditTellsSettlement, Nothing, NoRow, Fixed
  <2>6. QED
    BY <2>3, <2>4, <2>5 DEF IndInv
<1>2. IndInv /\ [Next]_vars => IndInv'
  <2> SUFFICES ASSUME IndInv, [Next]_vars
               PROVE  IndInv'
    OBVIOUS
  <2>1. CASE Next
    BY <2>1, TypeStep, WorkStep, ConclusionStep, RefreshStep, AuditStep, AheadStep DEF IndInv
  <2>2. CASE UNCHANGED vars
    BY <2>2 DEF vars, runVars, history, budgets, IndInv, TypeOK, HasWork, ConcludesOnlyOpen, FencesAutos,
         RefreshesARow, AheadUndecided, AuditTellsSettlement, IsFixed, Current
  <2>3. QED
    BY <2>1, <2>2
<1>3. QED
  BY <1>1, <1>2, PTL DEF Spec

\* Rows, audit rows and the runs' own variables keep their types: no run ever stores a
\* match without a transaction, or a transaction without a match.
THEOREM TypeCorrect == Spec => []TypeOK
<1>1. IndInv => TypeOK
  BY DEF IndInv
<1>2. QED
  BY <1>1, Inductive, PTL

\* SaveSettlement stores row and audit row of the conclusion it was left with: the last
\* audit row is what the settlement says, however many runs and people interfere.
THEOREM AuditTells == Spec => []AuditTellsSettlement
<1>1. IndInv => AuditTellsSettlement
  BY DEF IndInv
<1>2. QED
  BY <1>1, Inductive, PTL

\* The filter of SettleTargets protects every decision from every run that began after it:
\* the run that touches the row was itself under way when the person decided.
THEOREM OnlyRaces == Spec => OnlyRacesTouchDecisions
<1>1. IndInv /\ [Next]_vars =>
        [\A d \in Docs :
           IsFixed(d) /\ settlement'[d] # settlement[d]
           => settlement'[d].why = "person" \/ \E r \in Runs : DealsWith(r, d) /\ d \in raced[r]]_vars
  <2> SUFFICES ASSUME IndInv, Next, NEW d \in Docs, IsFixed(d), settlement'[d] # settlement[d],
                      settlement'[d].why # "person"
               PROVE  \E r \in Runs : DealsWith(r, d) /\ d \in raced[r]
    OBVIOUS
  <2>1. PICK r \in Runs : RunStep(r) /\ Finish(r) /\ d = Current(r)
    BY Touching
  <2>2. pc[r] # "idle"
    BY <2>1, RunFrame DEF IndInv
  <2>3. d \in DOMAIN work[r]
    BY <2>1, <2>2, AtHand DEF IndInv
  <2>4. d \in raced[r]
    BY <2>2, <2>3 DEF IndInv, AheadUndecided
  <2>5. DealsWith(r, d)
    <3>1. DOMAIN work'[r] = DOMAIN work[r] \ {d}
      BY <2>1 DEF Finish, IndInv, TypeOK
    <3>2. QED
      BY <2>3, <3>1 DEF DealsWith
  <2>6. QED
    BY <2>4, <2>5
<1>2. QED
  BY <1>1, Inductive, PTL DEF Spec, OnlyRacesTouchDecisions

-----------------------------------------------------------------------------
(* A run that is left alone.  While nothing interferes, what it has found  *)
(* unclaimed stays unclaimed until it has written it.                      *)

LoneRuns == \A r \in Runs : alone[r] => \A o \in Runs \ {r} : pc[o] = "idle"

Undisturbed(r) == alone[r] /\ raced[r] = {}

\* What the run is about to store as automatic is not claimed by another document, and
\* what it refreshes is what it compared.
Cleared(r) ==
  /\ pc[r] \in {"compare", "refresh", "fence", "write"} /\ conclusion[r].status = "auto"
     => ~ Claimed(conclusion[r].tx, Current(r))
  /\ pc[r] = "refresh"
     => /\ settlement[Current(r)].status = conclusion[r].status
        /\ settlement[Current(r)].tx = conclusion[r].tx

Repaired(r) == \A d \in done[r], e \in Docs : d # e => ~ ContestedBy(d, e)

SoloInv == LoneRuns /\ \A r \in Runs : Undisturbed(r) => Cleared(r) /\ Repaired(r)

\* A run that is alone stays so until another begins.
LEMMA LoneStep ==
  ASSUME TypeOK, HasWork, LoneRuns, Next
  PROVE  LoneRuns'
<1>1. CASE UNCHANGED <<pc, alone>>
  BY <1>1 DEF LoneRuns
<1>2. ASSUME NEW r \in Runs, Start(r)
      PROVE  LoneRuns'
  <2>1. \A s \in Runs : alone'[s] => s = r /\ \A o \in Runs : pc[o] = "idle"
    BY <1>2, Zenon DEF Start
  <2>2. \A o \in Runs \ {r} : pc'[o] = pc[o]
    BY <1>2 DEF Start, Goto, TypeOK
  <2>3. QED
    BY <2>1, <2>2 DEF LoneRuns
<1>3. ASSUME NEW r \in Runs, Fails(r) \/ RunStep(r)
      PROVE  LoneRuns'
  <2>1. alone' = alone
    BY <1>3 DEF Fails, RunStep, Judge, CheckClaim, Compare, Refresh, Fence, Write, Finish, history
  <2>2. pc[r] # "idle" /\ \A o \in Runs \ {r} : pc'[o] = pc[o]
    <3>1. CASE Fails(r)
      BY <3>1 DEF Fails, Goto, TypeOK
    <3>2. CASE RunStep(r)
      BY <3>2, RunFrame
    <3>3. QED
      BY <1>3, <3>1, <3>2
  <2>3. QED
    BY <2>1, <2>2 DEF LoneRuns
<1>4. QED
  BY <1>1, <1>2, <1>3 DEF Next, Read, Import, Confirm, runVars, history

\* An automatic conclusion that gives way to claims has none left, if it stays automatic.
LEMMA GivesWay ==
  ASSUME TypeOK, NEW r \in Runs, conclusion[r].status = "auto", Yield(r), UNCHANGED <<settlement, work>>
  PROVE  conclusion'[r].status = "auto" => ~ Claimed(conclusion[r].tx, Current(r))'
<1>1. PICK t \in Txs : conclusion[r] = [status |-> "auto", tx |-> t]
  BY DEF TypeOK, Conclusions
<1>2. conclusion'[r].tx = conclusion[r].tx
  BY <1>1 DEF Yield, TypeOK
<1>3. Claimed(conclusion[r].tx, Current(r))' <=> Claimed(conclusion[r].tx, Current(r))
  BY <1>2 DEF Claimed, Current
<1>4. Claimed(conclusion[r].tx, Current(r)) => conclusion'[r].status = "review"
  BY <1>1 DEF Yield, TypeOK
<1>5. QED
  BY <1>3, <1>4

\* Storing a conclusion that is cleared leaves no contested document among those dealt with.
LEMMA StoresCleared ==
  ASSUME IndInv, NEW r \in Runs, Repaired(r), Finish(r), pc[r] # "idle",
         conclusion[r].status = "auto" => ~ Claimed(conclusion[r].tx, Current(r)),
         settlement'[Current(r)].status = conclusion[r].status,
         settlement'[Current(r)].tx = conclusion[r].tx,
         \A e \in Docs \ {Current(r)} : settlement'[e] = settlement[e]
  PROVE  Repaired(r)'
<1> DEFINE d == Current(r)
<1>1. d \in Docs
  BY AtHand DEF IndInv
<1>2. done'[r] = done[r] \cup {d} /\ done[r] \subseteq Docs
  BY DEF Finish, IndInv, TypeOK
<1>3. conclusion[r].status # "confirmed"
  BY DEF IndInv, ConcludesOnlyOpen, Fixed
<1> SUFFICES ASSUME NEW x \in done'[r], NEW e \in Docs, x # e
             PROVE  ~ ContestedBy(x, e)'
  BY DEF Repaired
<1>4. CASE x = d
  BY <1>1, <1>4 DEF ContestedBy, Claimed
<1>5. CASE x # d /\ e = d
  BY <1>1, <1>2, <1>3, <1>5 DEF ContestedBy, Claimed
<1>6. CASE x # d /\ e # d
  BY <1>2, <1>6 DEF ContestedBy, Repaired
<1>7. QED
  BY <1>4, <1>5, <1>6

\* No statement of the run itself disturbs what it has cleared and repaired.
LEMMA OwnStep ==
  ASSUME IndInv, NEW r \in Runs, Cleared(r), Repaired(r), RunStep(r)
  PROVE  Cleared(r)' /\ Repaired(r)'
<1> USE DEF IndInv
<1>1. pc[r] # "idle"
  BY RunFrame
<1>2. Current(r) \in Docs
  BY <1>1, AtHand
<1>3. Finish(r) => Cleared(r)'
  BY DEF Finish, Goto, Cleared, TypeOK
<1>4. UNCHANGED <<settlement, done>> => Repaired(r)'
  BY DEF Repaired, ContestedBy
<1>5. CASE Judge(r)
  <2>1. conclusion'[r].status = "auto" => pc'[r] = "claim"
    BY <1>5 DEF Judge, Goto, TypeOK
  <2>2. pc'[r] # "refresh"
    BY <1>5 DEF Judge, Goto, TypeOK
  <2>3. Cleared(r)'
    BY <2>1, <2>2 DEF Cleared
  <2>4. QED
    BY <1>4, <1>5, <2>3 DEF Judge, history
<1>6. CASE CheckClaim(r) \/ Fence(r)
  <2>1. Yield(r) /\ conclusion[r].status = "auto" /\ UNCHANGED <<settlement, work, done>>
    BY <1>6 DEF CheckClaim, Fence, FencesAutos, history
  <2>2. conclusion'[r].tx = conclusion[r].tx
    <3>1. PICK t \in Txs : conclusion[r] = [status |-> "auto", tx |-> t]
      BY <2>1 DEF TypeOK, Conclusions
    <3>2. QED
      BY <2>1, <3>1 DEF Yield, TypeOK
  <2>3. conclusion'[r].status = "auto" => ~ Claimed(conclusion[r].tx, Current(r))'
    BY <2>1, GivesWay
  <2>4. pc'[r] # "refresh"
    BY <1>6 DEF CheckClaim, Fence, Goto, TypeOK
  <2>5. Cleared(r)'
    BY <2>3, <2>4 DEF Cleared
  <2>6. QED
    BY <1>4, <2>1, <2>5
<1>7. CASE Compare(r) /\ ~ Finish(r)
  <2>1. UNCHANGED <<settlement, work, conclusion, done>>
    BY <1>7 DEF Compare, history
  <2>2. pc'[r] = "refresh" => /\ settlement[Current(r)].status = conclusion[r].status
                              /\ settlement[Current(r)].tx = conclusion[r].tx
    BY <1>7 DEF Compare, Goto, TypeOK
  <2>3. conclusion[r].status = "auto" => ~ Claimed(conclusion[r].tx, Current(r))
    BY <1>7 DEF Cleared, Compare
  <2>4. Cleared(r)'
    BY <2>1, <2>2, <2>3 DEF Cleared, Claimed, Current
  <2>5. QED
    BY <1>4, <2>1, <2>4
<1>8. CASE Compare(r) /\ Finish(r)
  <2>1. /\ settlement[Current(r)].status = conclusion[r].status
        /\ settlement[Current(r)].tx = conclusion[r].tx
        /\ settlement' = settlement
    <3>1. Current(r) \in DOMAIN work[r]
      BY <1>1, AtHand
    <3>2. work' # work
      BY <1>8, <3>1 DEF Finish, TypeOK
    <3>3. QED
      BY <1>8, <3>2 DEF Compare
  <2>2. conclusion[r].status = "auto" => ~ Claimed(conclusion[r].tx, Current(r))
    BY <1>8 DEF Cleared, Compare
  <2>3. Repaired(r)'
    BY <1>1, <1>8, <2>1, <2>2, StoresCleared
  <2>4. QED
    BY <1>3, <1>8, <2>3
<1>9. CASE Refresh(r)
  <2>1. Finish(r) /\ settlement' = [settlement EXCEPT ![Current(r)].why = "machine"]
    BY <1>9 DEF Refresh
  <2>2. /\ settlement[Current(r)].status = conclusion[r].status
        /\ settlement[Current(r)].tx = conclusion[r].tx
        /\ conclusion[r].status = "auto" => ~ Claimed(conclusion[r].tx, Current(r))
    BY <1>9 DEF Cleared, Refresh
  <2>3. settlement[Current(r)] = [status |-> settlement[Current(r)].status,
                                  tx |-> settlement[Current(r)].tx, why |-> settlement[Current(r)].why]
    <3>1. settlement[Current(r)] \in Rows
      BY <1>2 DEF TypeOK
    <3>2. QED
      BY <3>1 DEF Rows, Row, NoRow
  <2>4. /\ settlement'[Current(r)].status = conclusion[r].status
        /\ settlement'[Current(r)].tx = conclusion[r].tx
        /\ \A e \in Docs \ {Current(r)} : settlement'[e] = settlement[e]
    BY <1>2, <2>1, <2>2, <2>3 DEF TypeOK
  <2>5. Repaired(r)'
    BY <1>1, <2>1, <2>2, <2>4, StoresCleared
  <2>6. QED
    BY <1>3, <2>1, <2>5
<1>10. CASE Write(r)
  <2>1. Finish(r) /\ settlement' = [settlement EXCEPT ![Current(r)] = Row(conclusion[r], "machine")]
    BY <1>10 DEF Write
  <2>2. conclusion[r].status = "auto" => ~ Claimed(conclusion[r].tx, Current(r))
    BY <1>10 DEF Cleared, Write
  <2>3. /\ settlement'[Current(r)].status = conclusion[r].status
        /\ settlement'[Current(r)].tx = conclusion[r].tx
        /\ \A e \in Docs \ {Current(r)} : settlement'[e] = settlement[e]
    BY <1>2, <2>1 DEF TypeOK, Row
  <2>4. Repaired(r)'
    BY <1>1, <2>1, <2>2, <2>3, StoresCleared
  <2>5. QED
    BY <1>3, <2>1, <2>4
<1>11. QED
  BY <1>5, <1>6, <1>7, <1>8, <1>9, <1>10 DEF RunStep

\* Nor does anything else, without the run being disturbed.
LEMMA SoloStep ==
  ASSUME IndInv, SoloInv, Next
  PROVE  SoloInv'
<1> USE DEF IndInv
<1>1. LoneRuns'
  BY LoneStep DEF SoloInv
<1> SUFFICES ASSUME NEW r \in Runs, Undisturbed(r)'
             PROVE  Cleared(r)' /\ Repaired(r)'
  BY <1>1 DEF SoloInv
<1>2. ASSUME UNCHANGED <<settlement, pc, work, conclusion, alone, raced, done>>
      PROVE  Cleared(r)' /\ Repaired(r)'
  BY <1>2 DEF SoloInv, Undisturbed, Cleared, Repaired, ContestedBy, Claimed, Current
<1>3. ASSUME NEW o \in Runs, Start(o)
      PROVE  Cleared(r)' /\ Repaired(r)'
  <2>1. r = o
    <3>1. alone'[r] => r = o
      BY <1>3, Zenon DEF Start
    <3>2. QED
      BY <3>1 DEF Undisturbed
  <2>2. done'[r] = {} /\ pc'[r] = "judge"
    BY <1>3, <2>1 DEF Start, Goto, TypeOK
  <2>3. QED
    BY <2>2 DEF Cleared, Repaired
<1>4. ASSUME NEW o \in Runs, Fails(o) \/ RunStep(o)
      PROVE  r = o /\ Cleared(r) /\ Repaired(r)
  <2>1. UNCHANGED <<alone, raced>>
    BY <1>4 DEF Fails, RunStep, Judge, CheckClaim, Compare, Refresh, Fence, Write, Finish, history
  <2>2. Undisturbed(r)
    BY <2>1 DEF Undisturbed
  <2>3. pc[o] # "idle"
    BY <1>4, RunFrame DEF Fails
  <2>4. QED
    BY <2>2, <2>3 DEF SoloInv, LoneRuns, Undisturbed
<1>5. ASSUME NEW o \in Runs, Fails(o)
      PROVE  Cleared(r)' /\ Repaired(r)'
  <2>1. r = o /\ Repaired(r)
    BY <1>4, <1>5
  <2>2. pc'[r] = "idle" /\ UNCHANGED <<settlement, done>>
    BY <1>5, <2>1 DEF Fails, Goto, history, TypeOK
  <2>3. QED
    BY <2>1, <2>2 DEF Cleared, Repaired, ContestedBy
<1>6. ASSUME NEW o \in Runs, RunStep(o)
      PROVE  Cleared(r)' /\ Repaired(r)'
  BY <1>4, <1>6, OwnStep
<1>7. ASSUME NEW d \in Docs, NEW choice \in Selectable, Confirm(d, choice)
      PROVE  FALSE
  BY <1>7 DEF Confirm, Undisturbed
<1>8. QED
  BY <1>2, <1>3, <1>5, <1>6, <1>7 DEF Next, Read, Import, runVars, history

\* "Repairs what overlapping runs left behind": whatever state earlier runs left, a run that
\* works while no other begins and nobody decides clears every double claim it comes across.
THEOREM SoloRepairs == Spec => []SoloRunRepairs
<1>1. Init => SoloInv
  BY DEF Init, SoloInv, LoneRuns, Cleared, Repaired
<1>2. IndInv /\ SoloInv /\ [Next]_vars => SoloInv'
  <2> SUFFICES ASSUME IndInv, SoloInv, [Next]_vars
               PROVE  SoloInv'
    OBVIOUS
  <2>1. CASE Next
    BY <2>1, SoloStep
  <2>2. CASE UNCHANGED vars
    BY <2>2 DEF vars, runVars, history, SoloInv, LoneRuns, Undisturbed, Cleared, Repaired, ContestedBy,
         Claimed, Current
  <2>3. QED
    BY <2>1, <2>2
<1>3. SoloInv => SoloRunRepairs
  BY DEF SoloInv, Undisturbed, Repaired, SoloRunRepairs
<1>4. QED
  BY <1>1, <1>2, <1>3, Inductive, PTL DEF Spec

-----------------------------------------------------------------------------
(* One run at a time.                                                      *)

\* What the run is about to write as automatic, no other document has as automatic.
SecondCheckHolds ==
  \A r \in Runs : pc[r] = "write" /\ conclusion[r].status = "auto" =>
    \A e \in Docs \ {Current(r)} : ~ (settlement[e].status = "auto" /\ settlement[e].tx = conclusion[r].tx)

\* The steps of the only run, and people, who settle nothing automatically.
LEMMA SerialStep ==
  ASSUME IndInv, NoDoubleAuto, SecondCheckHolds, Next, NEW only, Runs = {only}
  PROVE  NoDoubleAuto' /\ SecondCheckHolds'
<1> USE DEF IndInv
<1>1. CASE UNCHANGED <<settlement, pc, work, conclusion>>
  BY <1>1 DEF NoDoubleAuto, SecondCheckHolds, Current
<1>2. CASE Start(only) \/ Fails(only)
  <2>1. UNCHANGED settlement /\ \A r \in Runs : pc'[r] # "write"
    BY <1>2 DEF Start, Fails, Goto, TypeOK
  <2>2. QED
    BY <2>1 DEF NoDoubleAuto, SecondCheckHolds
<1>3. ASSUME NEW d \in Docs, NEW choice \in Selectable, Confirm(d, choice)
      PROVE  NoDoubleAuto' /\ SecondCheckHolds'
  <2>1. settlement'[d].status # "auto" /\ \A e \in Docs \ {d} : settlement'[e] = settlement[e]
    <3>1. choice.status # "auto"
      BY DEF Selectable
    <3>2. QED
      BY <1>3, <3>1 DEF Confirm, Row, TypeOK
  <2>2. UNCHANGED <<pc, work, conclusion>>
    BY <1>3 DEF Confirm, runVars
  <2>3. QED
    BY <2>1, <2>2 DEF NoDoubleAuto, SecondCheckHolds, Current
<1>4. CASE Judge(only) \/ CheckClaim(only)
  <2>1. UNCHANGED settlement /\ \A r \in Runs : pc'[r] # "write"
    BY <1>4 DEF Judge, CheckClaim, Goto, TypeOK
  <2>2. QED
    BY <2>1 DEF NoDoubleAuto, SecondCheckHolds
<1>5. CASE Compare(only)
  <2>1. UNCHANGED settlement /\ (pc'[only] = "write" => conclusion'[only].status # "auto")
    BY <1>5 DEF Compare, Finish, Goto, TypeOK
  <2>2. QED
    BY <2>1 DEF NoDoubleAuto, SecondCheckHolds
<1>6. CASE Fence(only)
  <2>1. /\ conclusion[only].status = "auto" /\ Yield(only)
        /\ UNCHANGED <<settlement, work>>
    BY <1>6 DEF Fence, FencesAutos
  <2>2. PICK t \in Txs : conclusion[only] = [status |-> "auto", tx |-> t]
    BY <2>1 DEF TypeOK, Conclusions
  <2>3. conclusion'[only].tx = conclusion[only].tx
    BY <2>1, <2>2 DEF Yield, TypeOK
  <2>4. conclusion'[only].status = "auto" => ~ Claimed(conclusion[only].tx, Current(only))'
    BY <2>1, GivesWay
  <2>5. QED
    BY <2>1, <2>3, <2>4 DEF NoDoubleAuto, SecondCheckHolds, Claimed, Current
<1>7. CASE Refresh(only)
  <2>1. \A e \in Docs : /\ settlement'[e].status = settlement[e].status
                        /\ settlement'[e].tx = settlement[e].tx
    <3>1. settlement' = [settlement EXCEPT ![Current(only)].why = "machine"]
      BY <1>7 DEF Refresh
    <3>2. \A e \in Docs : settlement[e] = [status |-> settlement[e].status,
                                           tx |-> settlement[e].tx, why |-> settlement[e].why]
      BY DEF TypeOK, Rows, Row, NoRow
    <3>3. QED
      BY <3>1, <3>2 DEF TypeOK
  <2>2. pc'[only] # "write"
    BY <1>7 DEF Refresh, Finish, Goto, TypeOK
  <2>3. QED
    BY <2>1, <2>2 DEF NoDoubleAuto, SecondCheckHolds
<1>8. CASE Write(only)
  <2>1. Current(only) \in Docs
    BY <1>8, AtHand DEF Write
  <2>2. /\ settlement'[Current(only)] = Row(conclusion[only], "machine")
        /\ \A e \in Docs \ {Current(only)} : settlement'[e] = settlement[e]
    BY <1>8, <2>1 DEF Write, TypeOK
  <2>3. conclusion[only].status = "auto" =>
          \A e \in Docs \ {Current(only)} :
             ~ (settlement[e].status = "auto" /\ settlement[e].tx = conclusion[only].tx)
    BY <1>8 DEF Write, SecondCheckHolds
  <2>4. NoDoubleAuto'
    BY <2>1, <2>2, <2>3 DEF NoDoubleAuto, Row
  <2>5. pc'[only] # "write"
    BY <1>8 DEF Write, Finish, Goto, TypeOK
  <2>6. QED
    BY <2>4, <2>5 DEF SecondCheckHolds
<1>9. QED
  BY <1>1, <1>2, <1>3, <1>4, <1>5, <1>6, <1>7, <1>8 DEF Next, RunStep, Read, Import, runVars

\* "Automatic settling does not fight over a transaction that is already taken", as long as
\* there is one run at a time: the check of SaveSettlement is then as good as a lock.
THEOREM SerialNeverTwice ==
  ASSUME NEW only, Runs = {only}
  PROVE  Spec => []NoDoubleAuto
<1>1. Init => NoDoubleAuto /\ SecondCheckHolds
  BY DEF Init, NoDoubleAuto, SecondCheckHolds, NoRow
<1>2. IndInv /\ NoDoubleAuto /\ SecondCheckHolds /\ [Next]_vars => NoDoubleAuto' /\ SecondCheckHolds'
  <2> SUFFICES ASSUME IndInv, NoDoubleAuto, SecondCheckHolds, [Next]_vars
               PROVE  NoDoubleAuto' /\ SecondCheckHolds'
    OBVIOUS
  <2>1. CASE Next
    BY <2>1, SerialStep
  <2>2. CASE UNCHANGED vars
    BY <2>2 DEF vars, runVars, NoDoubleAuto, SecondCheckHolds, Current
  <2>3. QED
    BY <2>1, <2>2
<1>3. QED
  BY <1>1, <1>2, Inductive, PTL DEF Spec
=============================================================================
