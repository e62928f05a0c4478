----------------------------- MODULE Settlement -----------------------------
(***************************************************************************)
(* Settling received documents against bank and card transactions.         *)
(*                                                                         *)
(* A run (settle.Runner.SettleClient) takes a list of the client's         *)
(* documents, judges one after the other and stores each conclusion in a   *)
(* transaction of its own.  Runs are started by workers that finished a    *)
(* document, by imports of statements and by hand; nothing keeps two of    *)
(* them apart.  People confirm conclusions at any time.                    *)
(*                                                                         *)
(* One step is one SQL statement, as PostgreSQL's READ COMMITTED lets      *)
(* other transactions commit between two statements of the same            *)
(* transaction; statements that write the same row exclude each other      *)
(* until the commit, so the writing part of SaveSettlement is one step.    *)
(***************************************************************************)
EXTENDS Integers, FiniteSets, FiniteSetsExt

CONSTANTS
  Docs,        \* documents.id: runs take them in this order
  Txs,         \* transactions.id, in the order of their dates
  Runs,        \* the callers of SettleClient
  NoTx,        \* SQL NULL in settlements.transaction_id
  Readings,    \* what documents may turn out to be: ratings of the transactions
  MaxReadings, \* bound: how often a document is read, read again or rated anew
  MaxDecisions \* bound: decisions people take

ASSUME OrderedIds  == Docs \subseteq Nat /\ Txs \subseteq Nat
ASSUME NoTxIsNoId  == NoTx \notin Txs
ASSUME BoundsAreNaturals == MaxReadings \in Nat /\ MaxDecisions \in Nat

\* What the score of a transaction amounts to for a document.
NoCandidate == 0   \* amount or date rule it out (FindTxCandidates)
Weak        == 1   \* below the lower threshold
Fair        == 2   \* for a person to decide
Strong      == 3   \* at or above the upper threshold
Unread      == [t \in Txs |-> -1]   \* no total could be read: never a target

ASSUME ReadingsAreRatings == Readings \subseteq [Txs -> NoCandidate .. Strong]

VARIABLES
  rating,      \* per document: how its transactions score, or Unread
  imported,    \* transactions of the imported statements
  settlement,  \* table settlements
  audit,       \* the last audit row of each settlement
  pc, work, conclusion,   \* per run: step, documents as read at its start, judgement
  alone, raced, done,     \* history, per run: no other run has begun since; documents
                          \* people decided since; documents it has dealt with
  readings, decisions     \* budgets

runVars == <<pc, work, conclusion>>
history == <<alone, raced, done>>
budgets == <<readings, decisions>>
vars    == <<rating, imported, settlement, audit, runVars, history, budgets>>

Fixed       == {"confirmed", "none_fixed"}      \* what people decide
Conclusions == [status : {"auto", "review", "confirmed"}, tx : Txs]
                 \cup [status : {"none", "none_fixed"}, tx : {NoTx}]
NoRow       == [status |-> "no_row", tx |-> NoTx, why |-> "nobody"]
Row(c, who) == [status |-> c.status, tx |-> c.tx, why |-> who]
Rows        == {Row(c, who) : c \in Conclusions, who \in {"machine", "person"}} \cup {NoRow}
Nothing     == [status |-> "none", tx |-> NoTx]

IsFixed(d) == settlement[d].status \in Fixed

TypeOK ==
  /\ rating \in [Docs -> Readings \cup {Unread}]
  /\ imported \subseteq Txs
  /\ settlement \in [Docs -> Rows]
  /\ audit \in [Docs -> Conclusions \cup {[status |-> "no_row", tx |-> NoTx]}]
  /\ pc \in [Runs -> {"idle", "judge", "claim", "compare", "refresh", "fence", "write"}]
  /\ work \in [Runs -> UNION {[D -> Readings] : D \in SUBSET Docs}]
  /\ conclusion \in [Runs -> Conclusions]
  /\ alone \in [Runs -> BOOLEAN]
  /\ raced \in [Runs -> SUBSET Docs]
  /\ done \in [Runs -> SUBSET Docs]
  /\ readings \in 0 .. MaxReadings /\ decisions \in 0 .. MaxDecisions

Init ==
  /\ rating = [d \in Docs |-> Unread]
  /\ imported = {}
  /\ settlement = [d \in Docs |-> NoRow]
  /\ audit = [d \in Docs |-> [status |-> "no_row", tx |-> NoTx]]
  /\ pc = [r \in Runs |-> "idle"]
  /\ work = [r \in Runs |-> [d \in {} |-> Unread]]
  /\ conclusion = [r \in Runs |-> Nothing]
  /\ alone = [r \in Runs |-> TRUE]
  /\ raced = [r \in Runs |-> {}]
  /\ done = [r \in Runs |-> {}]
  /\ readings = 0 /\ decisions = 0

-----------------------------------------------------------------------------
(* What the runs start from.                                               *)

\* SaveResult of a received document, of one that is processed again, or a change
\* that rates it anew: a learnt or forgotten alias, another threshold.
Read(d, reading) ==
  /\ readings < MaxReadings
  /\ readings' = readings + 1
  /\ rating' = [rating EXCEPT ![d] = reading]
  /\ UNCHANGED <<imported, settlement, audit, runVars, history, decisions>>

\* ImportBatch: the rows of a file that are not there yet, in one transaction.
Import(new) ==
  /\ new # {} /\ new \cap imported = {}
  /\ imported' = imported \cup new
  /\ UNCHANGED <<rating, settlement, audit, runVars, history, budgets>>

-----------------------------------------------------------------------------
(* A run.                                                                  *)

Goto(r, step) == pc' = [pc EXCEPT ![r] = step]

\* SettleTargets: documents with a total that no person has decided.
TargetsAll == {d \in Docs : rating[d] # Unread}
Targets    == {d \in Docs : rating[d] # Unread /\ ~IsFixed(d)}

\* SettleClient begins: the list is read once and worked off from memory.
Start(r) ==
  /\ pc[r] = "idle"
  /\ Targets # {}
  /\ Goto(r, "judge")
  /\ work' = [work EXCEPT ![r] = [d \in Targets |-> rating[d]]]
  /\ alone' = [s \in Runs |-> s = r /\ \A o \in Runs : pc[o] = "idle"]
  /\ raced' = [raced EXCEPT ![r] = {}]
  /\ done' = [done EXCEPT ![r] = {}]
  /\ UNCHANGED <<rating, imported, settlement, audit, conclusion, budgets>>

Current(r) == Min(DOMAIN work[r])

\* The document at hand is dealt with.
Finish(r) ==
  LET rest == DOMAIN work[r] \ {Current(r)} IN
  /\ work' = [work EXCEPT ![r] = [d \in rest |-> work[r][d]]]
  /\ conclusion' = [conclusion EXCEPT ![r] = Nothing]
  /\ Goto(r, IF rest = {} THEN "idle" ELSE "judge")
  /\ done' = [done EXCEPT ![r] = @ \cup {Current(r)}]
  /\ UNCHANGED <<alone, raced>>

\* The first of the best candidates.
Best(stars) == Min({t \in imported : \A u \in imported : stars[u] <= stars[t]})

Outcome(grade) == CASE grade = Strong -> "auto" [] grade = Fair -> "review" [] OTHER -> "none"

DecidedKeepsTx(stars) ==
  IF imported = {} THEN Nothing
  ELSE [status |-> Outcome(stars[Best(stars)]), tx |-> Best(stars)]

\* settle.Decide, and what SettleClient stores of it: no transaction without a match.
Decided(stars) ==
  IF imported = {} \/ Outcome(stars[Best(stars)]) = "none" THEN Nothing
  ELSE [status |-> Outcome(stars[Best(stars)]), tx |-> Best(stars)]

Judge(r) ==
  /\ pc[r] = "judge"
  /\ conclusion' = [conclusion EXCEPT ![r] = Decided(work[r][Current(r)])]
  /\ Goto(r, IF conclusion'[r].status = "auto" THEN "claim" ELSE "compare")
  /\ UNCHANGED <<rating, imported, settlement, audit, work, history, budgets>>

ClaimedByAnyone(t, d)    == \E e \in Docs : settlement[e].tx = t /\ settlement[e].status \in {"auto", "confirmed"}
ClaimedUnconfirmed(t, d) == \E e \in Docs \ {d} : settlement[e].tx = t /\ settlement[e].status = "confirmed"

\* The query of IsTxClaimed, which SaveSettlement repeats.
Claimed(t, d) ==
  \E e \in Docs \ {d} : settlement[e].tx = t /\ settlement[e].status \in {"auto", "confirmed"}

\* An automatic conclusion gives way to any other claim on its transaction.
Yield(r) ==
  conclusion' = [conclusion EXCEPT ![r].status =
                   IF Claimed(conclusion[r].tx, Current(r)) THEN "review" ELSE @]

CheckClaim(r) ==
  /\ pc[r] = "claim"
  /\ Yield(r)
  /\ Goto(r, "compare")
  /\ UNCHANGED <<rating, imported, settlement, audit, work, history, budgets>>

\* GetSettlement: nothing is written if the conclusion is the one already stored, except
\* for its explanation, which may have changed.  A read that fails counts as no row: its
\* error is dropped, and the run goes on to write.
Compare(r) ==
  LET row == settlement[Current(r)]
      same == row.status = conclusion[r].status /\ row.tx = conclusion[r].tx
  IN
  /\ pc[r] = "compare"
  /\ \/ same /\ Finish(r)
     \/ same /\ Goto(r, "refresh") /\ UNCHANGED <<work, conclusion, history>>
     \/ Goto(r, IF conclusion[r].status = "auto" THEN "fence" ELSE "write")
        /\ UNCHANGED <<work, conclusion, history>>
  /\ UNCHANGED <<rating, imported, settlement, audit, budgets>>

\* RefreshSettlementWhy: whatever the row holds by now.
Refresh(r) ==
  /\ pc[r] = "refresh"
  /\ settlement' = [settlement EXCEPT ![Current(r)].why = "machine"]
  /\ Finish(r)
  /\ UNCHANGED <<rating, imported, audit, budgets>>

\* SaveSettlement begins: it asks for other claims again.
Fence(r) ==
  /\ pc[r] = "fence"
  /\ Yield(r)
  /\ Goto(r, "write")
  /\ UNCHANGED <<rating, imported, settlement, audit, work, history, budgets>>

LoggedAsJudged(r, c) == [status |-> IF c.tx = NoTx THEN "none" ELSE "auto", tx |-> c.tx]

Logged(r, c) == c

\* SaveSettlement writes the candidates, the row, whatever it holds by now, and the
\* audit row, and commits.
Write(r) ==
  /\ pc[r] = "write"
  /\ settlement' = [settlement EXCEPT ![Current(r)] = Row(conclusion[r], "machine")]
  /\ audit' = [audit EXCEPT ![Current(r)] = Logged(r, conclusion[r])]
  /\ Finish(r)
  /\ UNCHANGED <<rating, imported, budgets>>

\* An error, a unique violation of two runs that write the same candidates for
\* instance, ends the run; documents it has not reached keep what they had.
Fails(r) ==
  /\ pc[r] # "idle"
  /\ Goto(r, "idle")
  /\ work' = [work EXCEPT ![r] = [d \in {} |-> Unread]]
  /\ conclusion' = [conclusion EXCEPT ![r] = Nothing]
  /\ UNCHANGED <<rating, imported, settlement, audit, history, budgets>>

-----------------------------------------------------------------------------
(* People.                                                                 *)

\* confirmSettlement: SaveSettlement with a person's status asks for no other claim.
Confirm(d, choice) ==
  /\ decisions < MaxDecisions
  /\ decisions' = decisions + 1
  /\ settlement' = [settlement EXCEPT ![d] = Row(choice, "person")]
  /\ audit' = [audit EXCEPT ![d] = choice]
  /\ raced' = [r \in Runs |-> raced[r] \cup {d}]
  /\ UNCHANGED <<rating, imported, runVars, alone, done, readings>>

Selectable == {[status |-> "confirmed", tx |-> t] : t \in imported}
             \cup {[status |-> "none_fixed", tx |-> NoTx]}

-----------------------------------------------------------------------------

RunStep(r) == \/ Judge(r) \/ CheckClaim(r) \/ Compare(r) \/ Refresh(r) \/ Fence(r) \/ Write(r)

Next ==
  \/ \E d \in Docs, reading \in Readings : Read(d, reading)
  \/ \E new \in SUBSET Txs : Import(new)
  \/ \E r \in Runs : Start(r) \/ RunStep(r) \/ Fails(r)
  \/ \E d \in Docs : \E choice \in Selectable : Confirm(d, choice)

Spec == Init /\ [][Next]_vars

-----------------------------------------------------------------------------
(* What holds for any number of overlapping runs.                          *)

\* SaveSettlement stores conclusion and audit row together: the last audit row of a
\* settlement is what the row says, after every yield and every overlap.
AuditTellsSettlement ==
  \A d \in Docs : audit[d] = [status |-> settlement[d].status, tx |-> settlement[d].tx]

\* Run r deals with document d in this step: d is taken off r's list, and no step takes
\* anything off the list of two runs.
DealsWith(r, d) == d \in DOMAIN work[r] /\ d \notin DOMAIN work'[r]

\* SettleTargets leaves out what people decided: a run touches a person's decision
\* only if the decision was taken while that very run was under way, whatever others do.
OnlyRacesTouchDecisions ==
  [][\A d \in Docs :
       IsFixed(d) /\ settlement'[d] # settlement[d]
       => settlement'[d].why = "person" \/ \E r \in Runs : DealsWith(r, d) /\ d \in raced[r]]_vars

ContestedBy(d, e) ==
  /\ settlement[d].status = "auto"
  /\ settlement[e].status \in {"auto", "confirmed"}
  /\ settlement[d].tx = settlement[e].tx

\* A run that no other run and no decision interfered with repairs what overlapping
\* runs left behind: nothing it has dealt with is settled automatically with a
\* transaction that another document claims.
SoloRunRepairs ==
  \A r \in Runs :
    alone[r] /\ raced[r] = {} => \A d \in done[r], e \in Docs : d # e => ~ContestedBy(d, e)

-----------------------------------------------------------------------------
(* What holds if runs do not overlap (Runs a singleton).                   *)

\* "Automatic settling does not fight over a transaction that is already taken."
NoDoubleAuto ==
  \A d, e \in Docs :
    d # e /\ settlement[d].status = "auto" /\ settlement[e].status = "auto"
    => settlement[d].tx # settlement[e].tx

\* "If the conclusion is that of last time, nothing is written": running again and
\* again without new statements, readings or decisions comes to rest.
ComesToRest == <>[][settlement' = settlement]_vars

=============================================================================
