------------------------------- MODULE Office -------------------------------
(***************************************************************************)
(* What people in the office change, while others do the same: they decide *)
(* on a document (Store.Approve), teach the system a name with a decision  *)
(* or with a settlement (learnSettleAlias), take a name back               *)
(* (ForgetAlias), and apply thresholds (ThresholdsController).             *)
(*                                                                         *)
(* PostgreSQL runs their transactions at READ COMMITTED: a statement sees  *)
(* what was committed when it was issued, an UPDATE waits for rows another *)
(* transaction has changed and then looks at them again, but it never sees *)
(* rows that were inserted meanwhile.  What a transaction does after its   *)
(* last read is one step with its commit, unless others have to wait.      *)
(***************************************************************************)
EXTENDS Integers, Sequences

CONSTANTS
  People, Partners,
  Clients, Types, All,   \* whom a threshold is for: a client or All, a type of document or All
  Scopes,                \* the scopes administrators use: [client, type]
  None,                  \* no partner, no person, no alias
  MaxWorks, MaxSaves     \* bounds: what people begin, what workers save

ASSUME NoneIsNobody == None \notin People \cup Partners
ASSUME AllIsNobody  == All \notin Clients \cup Types
ASSUME BoundsAreCounts == MaxWorks \in Nat /\ MaxSaves \in Nat
ASSUME ScopesOfRows == Scopes \subseteq [client : Clients \cup {All}, type : Types \cup {All}]

VARIABLES
  verdict,     \* the document's row of match_results; decision "none": there is no row
  aliases,     \* partner_aliases with source 2: [id, partner, via]
  lastAlias,   \* sequence of their ids
  log,         \* audit_logs of the document and of the names, by commit
  thresholds,  \* table thresholds, in the order of commit
  open,        \* its rows with no valid_to
  work,        \* per person: the transaction at hand
  works, saves \* budgets

names == <<aliases, lastAlias>>
rules == <<thresholds, open>>
vars  == <<verdict, names, log, rules, work, works, saves>>

Decisions == {"approve", "update", "reject"}   \* confirmed, corrected, rejected by a person
Verdicts  == {"auto_approve", "needs_review", "reject"}   \* of a worker

Idle == [pc |-> "idle"]

-----------------------------------------------------------------------------
(* Thresholds in force.                                                    *)

Concerns(row, c, t) == row.scope.client \in {All, c} /\ row.scope.type \in {All, t}

\* A client's own threshold goes before one for a type of document.
Weight(scope) == (IF scope.client # All THEN 2 ELSE 0) + (IF scope.type # All THEN 1 ELSE 0)

\* ORDER BY client, type, valid_from DESC LIMIT 1.
Before(a, b) ==
  \/ Weight(a.scope) > Weight(b.scope)
  \/ Weight(a.scope) = Weight(b.scope) /\ a.validFrom >= b.validFrom

\* CurrentThreshold: what a worker judges a document by, if there is anything.
InForce(c, t) ==
  LET rows == {i \in open : Concerns(thresholds[i], c, t)}
  IN  {i \in rows : \A j \in rows : Before(thresholds[i], thresholds[j])}

-----------------------------------------------------------------------------
(* The state.                                                              *)

Rows == [decision : {"none"} \cup Decisions \cup Verdicts,
         partner : Partners \cup {None}, by : People \cup {None}]

Names == [id : Nat, partner : Partners, via : {"decision", "settlement"}]

\* A worker's row says nothing of who decided; a decision's holds the row of
\* match_results before and after.
Entries ==
  [what : {"save"}, after : [decision : Verdicts, partner : Partners \cup {None}]]
  \cup [what : {"decision"}, before : Rows, after : Rows, began : Nat]
  \cup [what : {"learn"}, id : Nat \cup {None}, partner : Partners, via : {"decision", "settlement"}]
  \cup [what : {"forget"}, id : Nat, partner : Partners]

Jobs ==
  {Idle}
  \cup [pc : {"decide"}, decision : Decisions, partner : Partners \cup {None},
        teaches : Partners \cup {None}, before : Rows, began : Nat]
  \cup [pc : {"teach", "tell"}, partner : Partners]
  \cup [pc : {"forget"}, alias : Names]
  \cup [pc : {"apply"}, scope : Scopes, validFrom : 0 .. MaxWorks]
  \cup [pc : {"issued", "closed"}, scope : Scopes, validFrom : 0 .. MaxWorks,
        seen : Nat, closes : SUBSET Nat]

TypeOK ==
  /\ verdict \in Rows
  /\ verdict.decision = "update" => verdict.partner # None
  /\ aliases \subseteq Names /\ lastAlias \in Nat
  /\ log \in Seq(Entries)
  /\ thresholds \in Seq([scope : Scopes, validFrom : 0 .. MaxWorks, seen : Nat])
  /\ open \subseteq DOMAIN thresholds
  /\ work \in [People -> Jobs]
  /\ works \in 0 .. MaxWorks /\ saves \in 0 .. MaxSaves

NoVerdict == [decision |-> "none", partner |-> None, by |-> None]
\* The row of the log that a worker leaves: actor NULL, and the partner.
Saved(decision, partner) ==
  [what |-> "save", after |-> [decision |-> decision, partner |-> partner]]

InReview(partner) == [decision |-> "needs_review", partner |-> partner, by |-> None]

\* The document waits for a worker, or for a person.
Init ==
  /\ \/ verdict = NoVerdict /\ log = <<>>
     \/ \E partner \in Partners :
          verdict = InReview(partner) /\ log = <<Saved("needs_review", partner)>>
  /\ aliases = {} /\ lastAlias = 0
  /\ thresholds = <<>> /\ open = {}
  /\ work = [p \in People |-> Idle]
  /\ works = 0 /\ saves = 0

Begins(p, job) ==
  /\ work[p] = Idle /\ works < MaxWorks
  /\ works' = works + 1
  /\ work' = [work EXCEPT ![p] = job]

Ends(p) == work' = [work EXCEPT ![p] = Idle] /\ UNCHANGED works

\* The request ends: an error, a rollback, a lost connection.
GiveUp(p) ==
  /\ work[p] # Idle
  /\ Ends(p)
  /\ UNCHANGED <<verdict, names, log, rules, saves>>

-----------------------------------------------------------------------------
(* Decisions on the document.                                              *)

\* SaveResult, also of a job that was reopened.  It leaves decided_by as it is, and what a
\* person decided cannot become needs_review (CHECK match_results_review_no_actor).
Save(decision, partner) ==
  /\ saves < MaxSaves /\ saves' = saves + 1
  /\ decision = "needs_review" => verdict.by = None
  /\ verdict' = [verdict EXCEPT !.decision = decision, !.partner = partner]
  /\ log' = Append(log, Saved(decision, partner))
  /\ UNCHANGED <<names, rules, work, works>>

\* Mutant: the row as it was is copied after it was changed.
DecideThenCopy(p, decision, partner, learn) ==
  /\ decision = "update" => partner # None
  /\ verdict.decision # "none"
  /\ Begins(p, [pc |-> "decide", decision |-> decision, partner |-> partner,
                teaches |-> IF learn /\ decision = "update" THEN partner ELSE None,
                before |-> [decision |-> decision, partner |-> partner, by |-> p], began |-> Len(log)])
  /\ UNCHANGED <<verdict, names, log, rules, saves>>

\* Mutant: a correction to nobody.
DecideUnchecked(p, decision, partner, learn) ==
  /\ verdict.decision # "none"
  /\ Begins(p, [pc |-> "decide", decision |-> decision, partner |-> partner,
                teaches |-> IF learn /\ decision = "update" THEN partner ELSE None,
                before |-> verdict, began |-> Len(log)])
  /\ UNCHANGED <<verdict, names, log, rules, saves>>

\* The partner is the one on the screen, old or new; Approve copies the row as it is,
\* without a lock.
Decide(p, decision, partner, learn) ==
  /\ decision = "update" => partner # None
  /\ verdict.decision # "none"
  /\ Begins(p, [pc |-> "decide", decision |-> decision, partner |-> partner,
                teaches |-> IF learn /\ decision = "update" THEN partner ELSE None,
                before |-> verdict, began |-> Len(log)])
  /\ UNCHANGED <<verdict, names, log, rules, saves>>

Learnt(id, partner, via) == [what |-> "learn", id |-> id, partner |-> partner, via |-> via]

DecisionRow(p) ==
  [what |-> "decision", before |-> work[p].before, after |-> verdict', began |-> work[p].began]

\* From the UPDATE to the COMMIT: the row, a name learnt by a correction, the log.
CommitDecision(p) ==
  /\ work[p].pc = "decide"
  /\ verdict' = [decision |-> work[p].decision, partner |-> work[p].partner, by |-> p]
  /\ IF work[p].teaches # None
       THEN /\ lastAlias' = lastAlias + 1
            /\ aliases' = aliases \cup {[id |-> lastAlias + 1, partner |-> work[p].teaches, via |-> "decision"]}
            /\ log' = Append(Append(log, Learnt(lastAlias + 1, work[p].teaches, "decision")), DecisionRow(p))
       ELSE log' = Append(log, DecisionRow(p)) /\ UNCHANGED names
  /\ Ends(p)
  /\ UNCHANGED <<rules, saves>>

-----------------------------------------------------------------------------
(* Names.                                                                  *)

\* learnSettleAlias, after the settlement is confirmed: the partner is read, and the
\* name is normalized.
Teach(p) ==
  /\ verdict.partner # None
  /\ Begins(p, [pc |-> "teach", partner |-> verdict.partner])
  /\ UNCHANGED <<verdict, names, log, rules, saves>>

AddAlias(p) ==
  /\ work[p].pc = "teach"
  /\ lastAlias' = lastAlias + 1
  /\ aliases' = aliases \cup {[id |-> lastAlias + 1, partner |-> work[p].partner, via |-> "settlement"]}
  /\ work' = [work EXCEPT ![p] = [pc |-> "tell", partner |-> work[p].partner]]
  /\ UNCHANGED <<verdict, log, rules, works, saves>>

\* The audit row is a statement of its own, and names the document, not the alias.
TellAlias(p) ==
  /\ work[p].pc = "tell"
  /\ log' = Append(log, Learnt(None, work[p].partner, "settlement"))
  /\ Ends(p)
  /\ UNCHANGED <<verdict, names, rules, saves>>

\* ForgetAlias reads the name without a lock.
Forget(p, a) ==
  /\ a \in aliases
  /\ Begins(p, [pc |-> "forget", alias |-> a])
  /\ UNCHANGED <<verdict, names, log, rules, saves>>

\* Mutant: the row of the log is left out.
ForgetSilently(p) ==
  /\ work[p].pc = "forget"
  /\ aliases' = aliases \ {work[p].alias}
  /\ Ends(p)
  /\ UNCHANGED <<verdict, lastAlias, log, rules, saves>>

\* DELETE, the log, COMMIT; nobody asks whether there was anything left to delete.
CommitForget(p) ==
  /\ work[p].pc = "forget"
  /\ aliases' = aliases \ {work[p].alias}
  /\ log' = Append(log, [what |-> "forget", id |-> work[p].alias.id, partner |-> work[p].alias.partner])
  /\ Ends(p)
  /\ UNCHANGED <<verdict, lastAlias, rules, saves>>

-----------------------------------------------------------------------------
(* Applying thresholds.                                                    *)

\* BEGIN; the new row's valid_from is the time of it.
Apply(p, scope) ==
  /\ Begins(p, [pc |-> "apply", scope |-> scope, validFrom |-> works])
  /\ UNCHANGED <<verdict, names, log, rules, saves>>

\* The UPDATE as it is issued: what it sees is settled now.
Issue(p) ==
  /\ work[p].pc = "apply"
  /\ work' = [work EXCEPT ![p] =
       [pc |-> "issued", scope |-> work[p].scope, validFrom |-> work[p].validFrom, seen |-> Len(thresholds),
        closes |-> {i \in open : thresholds[i].scope = work[p].scope}]]
  /\ UNCHANGED <<verdict, names, log, rules, works, saves>>

Locked == UNION {work[p].closes : p \in {q \in People : work[q].pc = "closed"}}

Closed(p, rows) ==
  [pc |-> "closed", scope |-> work[p].scope, validFrom |-> work[p].validFrom, seen |-> work[p].seen,
   closes |-> rows]

\* Mutant: an application for everybody also closes what was set for a client or a type.
CloseAll(p) ==
  /\ work[p].pc = "issued"
  /\ work[p].closes \cap Locked = {}
  /\ work' = [work EXCEPT ![p] =
       Closed(p, {i \in open : i <= work[p].seen /\ Weight(thresholds[i].scope) >= Weight(work[p].scope)})]
  /\ UNCHANGED <<verdict, names, log, rules, works, saves>>

\* The UPDATE once nobody else has changed its rows: those another transaction closed
\* meanwhile are left out.
Close(p) ==
  /\ work[p].pc = "issued"
  /\ work[p].closes \cap Locked = {}
  /\ work' = [work EXCEPT ![p] = Closed(p, work[p].closes \cap open)]
  /\ UNCHANGED <<verdict, names, log, rules, works, saves>>

\* INSERT and COMMIT.
CommitApply(p) ==
  /\ work[p].pc = "closed"
  /\ thresholds' = Append(thresholds, [scope |-> work[p].scope, validFrom |-> work[p].validFrom,
                                      seen |-> work[p].seen])
  /\ open' = (open \ work[p].closes) \cup {Len(thresholds) + 1}
  /\ Ends(p)
  /\ UNCHANGED <<verdict, names, log, saves>>

-----------------------------------------------------------------------------

Step(p) ==
  \/ \E decision \in Decisions, partner \in Partners \cup {None}, learn \in BOOLEAN :
       Decide(p, decision, partner, learn)
  \/ CommitDecision(p)
  \/ Teach(p) \/ AddAlias(p) \/ TellAlias(p)
  \/ \E a \in aliases : Forget(p, a)
  \/ CommitForget(p)
  \/ \E scope \in Scopes : Apply(p, scope)
  \/ Issue(p) \/ Close(p) \/ CommitApply(p)
  \/ GiveUp(p)

Next ==
  \/ \E p \in People : Step(p)
  \/ \E partner \in Partners : Save("auto_approve", partner) \/ Save("needs_review", partner)
  \/ Save("reject", None)

Spec == Init /\ [][Next]_vars

-----------------------------------------------------------------------------

States == {"save", "decision"}

\* The last of the first n rows of the log l that are of these kinds.
IsLast(l, n, kinds, j) == l[j].what \in kinds /\ \A m \in j + 1 .. n : l[m].what \notin kinds

\* The first n rows of the log l tell v: what was concluded last, by a worker or a person,
\* and who was the last person to decide.
Tells(l, n, v) ==
  /\ \E j \in 1 .. n : /\ IsLast(l, n, States, j)
                      /\ l[j].after.decision = v.decision /\ l[j].after.partner = v.partner
  /\ \/ \E j \in 1 .. n : IsLast(l, n, {"decision"}, j) /\ l[j].after.by = v.by
     \/ v.by = None /\ \A m \in 1 .. n : l[m].what # "decision"

VerdictIsTold ==
  \/ verdict = NoVerdict /\ \A k \in 1 .. Len(log) : log[k].what \notin States
  \/ verdict.decision # "none" /\ Tells(log, Len(log), verdict)

\* The log tells everything that became of a document: its last row of the document tells
\* the decision and the partner in force, the decider in the row is the last person the log
\* names, even if a worker's verdict came after (its row has no actor), and the before of a
\* decision is what the log told when the decision began, whoever decided or saved meanwhile.
LogTellsVerdicts ==
  /\ VerdictIsTold
  /\ \A k \in DOMAIN log : log[k].what = "decision" => Tells(log, log[k].began, log[k].before)

\* Nothing is taught by a decision, or forgotten, without a trace: a name that a decision
\* taught is in the log with its partner, what the log says was learnt is there or was
\* forgotten later, and what it says was forgotten is gone.
NamesAreAccounted ==
  /\ \A a \in aliases : a.via = "decision" =>
       \E k \in DOMAIN log : log[k] = Learnt(a.id, a.partner, "decision")
  /\ \A k \in DOMAIN log : log[k].what = "learn" /\ log[k].id # None =>
       \/ \E a \in aliases : a.id = log[k].id /\ a.partner = log[k].partner
       \/ \E m \in k + 1 .. Len(log) : log[m].what = "forget" /\ log[m].id = log[k].id
  /\ \A k \in DOMAIN log : log[k].what = "forget" => \A a \in aliases : a.id # log[k].id

\* Workers judge by the latest threshold of the narrowest scope that was ever set for a
\* document: none that was applied before it was issued is in force again, however
\* administrators wait for each other.
LatestIsInForce ==
  \A c \in Clients, t \in Types, j \in DOMAIN thresholds :
    Concerns(thresholds[j], c, t) =>
      /\ InForce(c, t) # {}
      /\ \A i \in InForce(c, t) :
           /\ Weight(thresholds[i].scope) >= Weight(thresholds[j].scope)
           /\ thresholds[i].scope = thresholds[j].scope => i > thresholds[j].seen
-----------------------------------------------------------------------------
(* The inductive invariant of the proofs in OfficeProofs.                  *)

\* A decision was written after it began, with what the log told then as its before; so
\* will be one that is under way.
BeforesAreTold ==
  /\ \A k \in 1 .. Len(log) : log[k].what = "decision" =>
       log[k].began < k /\ Tells(log, log[k].began, log[k].before)
  /\ \A p \in People : work[p].pc = "decide" =>
       work[p].began <= Len(log) /\ Tells(log, work[p].began, work[p].before)

\* A correction has a partner, also while it is under way.
CorrectionsHavePartners ==
  \A p \in People : work[p].pc = "decide" /\ work[p].decision = "update" => work[p].partner # None

\* Numbers of names are never used again.
NumbersAreUnique ==
  /\ \A a \in aliases : a.id <= lastAlias
  /\ \A a, b \in aliases : a.id = b.id => a = b
  /\ \A p \in People : work[p].pc = "forget" =>
       /\ work[p].alias.id <= lastAlias
       /\ \A a \in aliases : a.id = work[p].alias.id => a = work[p].alias
  /\ \A k \in 1 .. Len(log) :
       /\ log[k].what = "forget" => log[k].id <= lastAlias
       /\ log[k].what = "learn" /\ log[k].id # None => log[k].id <= lastAlias

\* Of the rows a person saw when a scope was closed none is open any more.
ClosedStayClosed ==
  /\ \A j \in 1 .. Len(thresholds) :
       /\ thresholds[j].seen < j
       /\ \A i \in open : thresholds[i].scope = thresholds[j].scope => i > thresholds[j].seen
  /\ \A p \in People : work[p].pc \in {"issued", "closed"} =>
       /\ work[p].seen <= Len(thresholds)
       /\ \A i \in open : i <= work[p].seen /\ thresholds[i].scope = work[p].scope => i \in work[p].closes
       /\ \A i \in work[p].closes : i \in 1 .. work[p].seen /\ thresholds[i].scope = work[p].scope

\* A scope for which something was set has something open.
ScopesStayOpen ==
  \A j \in 1 .. Len(thresholds) : \E i \in open : thresholds[i].scope = thresholds[j].scope

IndInv ==
  /\ TypeOK
  /\ BeforesAreTold /\ VerdictIsTold /\ CorrectionsHavePartners
  /\ NumbersAreUnique /\ NamesAreAccounted
  /\ ClosedStayClosed /\ ScopesStayOpen
=============================================================================
