---------------------------- MODULE OfficeProofs ----------------------------
(***************************************************************************)
(* What Office keeps for any number of people, partners, clients and       *)
(* scopes, and any number of transactions.                                 *)
(***************************************************************************)
EXTENDS Office, WellFoundedInduction, TLAPS

USE DEF States

-----------------------------------------------------------------------------
(* Types.                                                                  *)

\* What a person has at hand in each kind of transaction.
LEMMA JobFields ==
  ASSUME TypeOK, NEW p \in People
  PROVE  /\ work[p] \in Jobs
         /\ work[p].pc \in {"idle", "decide", "teach", "tell", "forget", "apply", "issued", "closed"}
         /\ work[p].pc = "decide" =>
              /\ work[p].decision \in Decisions /\ work[p].partner \in Partners \cup {None}
              /\ work[p].teaches \in Partners \cup {None}
              /\ work[p].before \in Rows /\ work[p].began \in Nat
         /\ work[p].pc \in {"teach", "tell"} => work[p].partner \in Partners
         /\ work[p].pc = "forget" => work[p].alias \in Names
         /\ work[p].pc \in {"apply", "issued", "closed"} =>
              work[p].scope \in Scopes /\ work[p].validFrom \in 0 .. MaxWorks
         /\ work[p].pc \in {"issued", "closed"} =>
              work[p].seen \in Nat /\ work[p].closes \in SUBSET Nat
<1>1. work[p] \in Jobs
  BY DEF TypeOK
<1>2. QED
  BY <1>1 DEF Jobs, Idle

\* What a row of the thresholds holds.
LEMMA RowFields ==
  ASSUME TypeOK, NEW i \in DOMAIN thresholds
  PROVE  /\ thresholds[i].scope \in Scopes /\ thresholds[i].validFrom \in 0 .. MaxWorks
         /\ thresholds[i].seen \in Nat
<1> DEFINE Fields == [scope : Scopes, validFrom : 0 .. MaxWorks, seen : Nat]
<1>1. thresholds \in Seq(Fields)
  BY DEF TypeOK
<1> HIDE DEF Fields
<1>2. thresholds[i] \in Fields
  BY <1>1
<1>3. QED
  BY <1>2 DEF Fields

\* One person's transaction changes, the others' do not.
LEMMA Working ==
  ASSUME TypeOK, NEW p \in People, NEW job \in Jobs, work' = [work EXCEPT ![p] = job]
  PROVE  work' \in [People -> Jobs] /\ work'[p] = job /\ \A q \in People : q # p => work'[q] = work[q]
  BY DEF TypeOK

\* A row is appended to the log.
LEMMA Logging ==
  ASSUME NEW l \in Seq(Entries), NEW entry \in Entries
  PROVE  /\ Append(l, entry) \in Seq(Entries)
         /\ Len(Append(l, entry)) = Len(l) + 1
         /\ Append(l, entry)[Len(l) + 1] = entry
         /\ \A k \in 1 .. Len(l) : Append(l, entry)[k] = l[k]
  OBVIOUS

\* What the actions write is of the right kind.
LEMMA IdleIsJob == Idle \in Jobs
  BY DEF Jobs

LEMMA LearntIsEntry ==
  ASSUME NEW id \in Nat \cup {None}, NEW partner \in Partners, NEW via \in {"decision", "settlement"}
  PROVE  Learnt(id, partner, via) \in Entries
  BY DEF Learnt, Entries

\* Only one person's transaction changes; nothing is committed.
Quiet(p, job) ==
  /\ job \in Jobs /\ work' = [work EXCEPT ![p] = job]
  /\ works' \in 0 .. MaxWorks
  /\ UNCHANGED <<verdict, aliases, lastAlias, log, thresholds, open, saves>>

\* Beginning a transaction is within the bound.
LEMMA Beginning ==
  ASSUME TypeOK, NEW p, NEW job, Begins(p, job)
  PROVE  work' = [work EXCEPT ![p] = job] /\ works' \in 0 .. MaxWorks
  BY BoundsAreCounts DEF Begins, TypeOK

LEMMA QuietDecide ==
  ASSUME TypeOK, NEW p \in People, NEW decision \in Decisions, NEW partner \in Partners \cup {None},
         NEW learn \in BOOLEAN, Decide(p, decision, partner, learn)
  PROVE  \E job \in Jobs :
           /\ Quiet(p, job)
           /\ job.pc = "decide" /\ job.decision = decision /\ job.partner = partner
           /\ job.before = verdict /\ job.began = Len(log)
           /\ decision = "update" => partner # None
           /\ verdict.decision # "none"
<1> DEFINE job == [pc |-> "decide", decision |-> decision, partner |-> partner,
                   teaches |-> IF learn /\ decision = "update" THEN partner ELSE None,
                   before |-> verdict, began |-> Len(log)]
<1>1. Len(log) \in Nat /\ verdict \in Rows
  BY DEF TypeOK
<1>2. (IF learn /\ decision = "update" THEN partner ELSE None) \in Partners \cup {None}
  OBVIOUS
<1>3. job \in Jobs
  BY <1>1, <1>2 DEF Jobs
<1>4. Begins(p, job)
  BY DEF Decide
<1>5. Quiet(p, job)
  BY <1>3, <1>4, Beginning DEF Quiet, Decide, names, rules
<1>6. decision = "update" => partner # None
  BY DEF Decide
<1>7. verdict.decision # "none"
  BY DEF Decide
<1>8. QED
  BY <1>3, <1>5, <1>6, <1>7

LEMMA QuietTeach ==
  ASSUME TypeOK, NEW p \in People, Teach(p)
  PROVE  \E job \in Jobs : Quiet(p, job) /\ job.pc = "teach"
<1> DEFINE job == [pc |-> "teach", partner |-> verdict.partner]
<1>1. job \in Jobs
  BY DEF Jobs, Teach, TypeOK, Rows
<1>2. Begins(p, job)
  BY DEF Teach
<1>3. Quiet(p, job)
  BY <1>1, <1>2, Beginning DEF Quiet, Teach, names, rules
<1>4. QED
  BY <1>1, <1>3

LEMMA QuietForget ==
  ASSUME TypeOK, NEW p \in People, NEW a \in aliases, Forget(p, a)
  PROVE  \E job \in Jobs : Quiet(p, job) /\ job.pc = "forget" /\ job.alias = a
<1> DEFINE job == [pc |-> "forget", alias |-> a]
<1>1. job \in Jobs
  BY DEF Jobs, TypeOK
<1>2. Begins(p, job)
  BY DEF Forget
<1>3. Quiet(p, job)
  BY <1>1, <1>2, Beginning DEF Quiet, Forget, names, rules
<1>4. QED
  BY <1>1, <1>3

LEMMA QuietApply ==
  ASSUME TypeOK, NEW p \in People, NEW scope \in Scopes, Apply(p, scope)
  PROVE  \E job \in Jobs : Quiet(p, job) /\ job.pc = "apply"
<1> DEFINE job == [pc |-> "apply", scope |-> scope, validFrom |-> works]
<1>1. job \in Jobs
  BY BoundsAreCounts DEF Jobs, TypeOK
<1>2. Begins(p, job)
  BY DEF Apply
<1>3. Quiet(p, job)
  BY <1>1, <1>2, Beginning DEF Quiet, Apply, names, rules
<1>4. QED
  BY <1>1, <1>3

LEMMA QuietIssue ==
  ASSUME TypeOK, NEW p \in People, Issue(p)
  PROVE  \E job \in Jobs :
           /\ Quiet(p, job) /\ job.pc = "issued"
           /\ job.seen = Len(thresholds)
           /\ job.closes = {i \in open : thresholds[i].scope = job.scope}
<1> DEFINE job == [pc |-> "issued", scope |-> work[p].scope, validFrom |-> work[p].validFrom,
                   seen |-> Len(thresholds),
                   closes |-> {i \in open : thresholds[i].scope = work[p].scope}]
<1>1. open \subseteq Nat /\ Len(thresholds) \in Nat
  BY DEF TypeOK
<1>2. work[p].scope \in Scopes /\ work[p].validFrom \in 0 .. MaxWorks
  BY JobFields DEF Issue
<1>3. job \in Jobs
  BY <1>1, <1>2 DEF Jobs
<1>4. Quiet(p, job)
  BY <1>3 DEF Quiet, Issue, names, rules, TypeOK
<1>5. QED
  BY <1>3, <1>4

LEMMA QuietClose ==
  ASSUME TypeOK, NEW p \in People, Close(p)
  PROVE  \E job \in Jobs :
           /\ Quiet(p, job) /\ job.pc = "closed"
           /\ job.scope = work[p].scope /\ job.seen = work[p].seen
           /\ job.closes = work[p].closes \cap open
           /\ work[p].pc = "issued"
<1> DEFINE job == Closed(p, work[p].closes \cap open)
<1>1. /\ work[p].scope \in Scopes /\ work[p].validFrom \in 0 .. MaxWorks
      /\ work[p].seen \in Nat /\ work[p].closes \in SUBSET Nat
  BY JobFields DEF Close
<1>2. job \in Jobs
  BY <1>1 DEF Jobs, Closed
<1>3. Quiet(p, job)
  BY <1>2 DEF Quiet, Close, names, rules, TypeOK
<1>4. work[p].pc = "issued"
  BY DEF Close
<1>5. QED
  BY <1>2, <1>3, <1>4 DEF Closed

LEMMA QuietGiveUp ==
  ASSUME TypeOK, NEW p \in People, GiveUp(p)
  PROVE  Quiet(p, Idle)
  BY IdleIsJob DEF Quiet, GiveUp, Ends, names, rules, TypeOK

\* What a transaction knows when it gets so far.
Fits(p, job) ==
  /\ job.pc = "decide" =>
       /\ job.before = verdict /\ job.began = Len(log)
       /\ job.decision = "update" => job.partner # None
       /\ verdict.decision # "none"
  /\ job.pc = "forget" => job.alias \in aliases
  /\ job.pc = "issued" =>
       job.seen = Len(thresholds) /\ job.closes = {i \in open : thresholds[i].scope = job.scope}
  /\ job.pc = "closed" =>
       /\ work[p].pc = "issued" /\ job.scope = work[p].scope /\ job.seen = work[p].seen
       /\ job.closes = work[p].closes \cap open

\* The five steps that commit something, and the others.
Commits ==
  \/ \E decision \in Verdicts, partner \in Partners \cup {None} : Save(decision, partner)
  \/ \E p \in People :
       CommitDecision(p) \/ AddAlias(p) \/ TellAlias(p) \/ CommitForget(p) \/ CommitApply(p)

LEMMA StepKinds ==
  ASSUME TypeOK, [Next]_vars
  PROVE  \/ UNCHANGED vars
         \/ \E p \in People, job \in Jobs : Quiet(p, job) /\ Fits(p, job)
         \/ Commits
<1>1. CASE \E p \in People : Step(p)
  <2>1. PICK p \in People : Step(p)
    BY <1>1
  <2>2. CASE \E decision \in Decisions, partner \in Partners \cup {None}, learn \in BOOLEAN :
               Decide(p, decision, partner, learn)
    BY <2>2, QuietDecide DEF Fits
  <2>3. CASE Teach(p)
    BY <2>3, QuietTeach DEF Fits
  <2>4. CASE \E a \in aliases : Forget(p, a)
    BY <2>4, QuietForget DEF Fits
  <2>5. CASE \E scope \in Scopes : Apply(p, scope)
    BY <2>5, QuietApply DEF Fits
  <2>6. CASE Issue(p)
    BY <2>6, QuietIssue DEF Fits
  <2>7. CASE Close(p)
    BY <2>7, QuietClose DEF Fits
  <2>8. CASE GiveUp(p)
    BY <2>8, QuietGiveUp, IdleIsJob DEF Fits, Idle
  <2>9. QED
    BY <2>1, <2>2, <2>3, <2>4, <2>5, <2>6, <2>7, <2>8 DEF Step, Commits
<1>2. CASE \E partner \in Partners : Save("auto_approve", partner) \/ Save("needs_review", partner)
  BY <1>2 DEF Commits, Verdicts
<1>3. CASE Save("reject", None)
  BY <1>3 DEF Commits, Verdicts
<1>4. QED
  BY <1>1, <1>2, <1>3 DEF Next

\* A worker's verdict is a row with its own row of the log.
LEMMA Saving ==
  ASSUME TypeOK, NEW decision \in Verdicts, NEW partner \in Partners \cup {None}, Save(decision, partner)
  PROVE  /\ verdict' \in Rows /\ verdict'.decision = decision
         /\ verdict'.partner = partner /\ verdict'.by = verdict.by
         /\ Saved(decision, partner) \in Entries
         /\ Saved(decision, partner).what = "save"
         /\ Saved(decision, partner).after.decision = decision
         /\ Saved(decision, partner).after.partner = partner
         /\ saves' \in 0 .. MaxSaves
         /\ log' = Append(log, Saved(decision, partner))
         /\ UNCHANGED <<aliases, lastAlias, thresholds, open, work, works>>
<1>1. verdict \in Rows
  BY DEF TypeOK
<1>2. verdict' = [decision |-> decision, partner |-> partner, by |-> verdict.by]
  BY <1>1 DEF Save, Rows
<1>3. verdict' \in Rows
  BY <1>1, <1>2 DEF Rows
<1>4. saves' \in 0 .. MaxSaves
  BY BoundsAreCounts DEF Save, TypeOK
<1>5. Saved(decision, partner) \in Entries
  BY DEF Saved, Entries
<1>6. /\ Saved(decision, partner).what = "save"
      /\ Saved(decision, partner).after.decision = decision
      /\ Saved(decision, partner).after.partner = partner
  BY DEF Saved
<1>7. log' = Append(log, Saved(decision, partner))
  BY DEF Save
<1>8. UNCHANGED <<aliases, lastAlias, thresholds, open, work, works>>
  BY DEF Save, names, rules
<1>9. QED
  BY <1>2, <1>3, <1>4, <1>5, <1>6, <1>7, <1>8

\* A decision is a row with its own row of the log, and perhaps a name before it.
LEMMA Deciding ==
  ASSUME TypeOK, CorrectionsHavePartners, NEW p \in People, CommitDecision(p)
  PROVE  /\ verdict' \in Rows /\ verdict'.decision \in Decisions
         /\ verdict'.decision = "update" => verdict'.partner # None
         /\ work[p].pc = "decide" /\ work' = [work EXCEPT ![p] = Idle]
         /\ DecisionRow(p) \in Entries
         /\ DecisionRow(p).what = "decision" /\ DecisionRow(p).after = verdict'
         /\ DecisionRow(p).before = work[p].before /\ DecisionRow(p).began = work[p].began
         /\ UNCHANGED <<thresholds, open, works, saves>>
<1>1. /\ work[p].pc = "decide"
      /\ work[p].decision \in Decisions /\ work[p].partner \in Partners \cup {None}
      /\ work[p].before \in Rows /\ work[p].began \in Nat
  BY JobFields DEF CommitDecision
<1>2. verdict' = [decision |-> work[p].decision, partner |-> work[p].partner, by |-> p]
  BY DEF CommitDecision
<1>3. verdict' \in Rows
  BY <1>1, <1>2 DEF Rows
<1>4. verdict'.decision = "update" => verdict'.partner # None
  BY <1>1, <1>2 DEF CorrectionsHavePartners
<1>5. DecisionRow(p) \in Entries
  BY <1>1, <1>3 DEF DecisionRow, Entries
<1>6. work' = [work EXCEPT ![p] = Idle] /\ UNCHANGED <<thresholds, open, works, saves>>
  BY DEF CommitDecision, Ends, rules
<1>7. QED
  BY <1>1, <1>2, <1>3, <1>4, <1>5, <1>6 DEF DecisionRow

\* The two ways in which a decision is committed.
LEMMA DecidingLogs ==
  ASSUME TypeOK, NEW p \in People, CommitDecision(p)
  PROVE  \/ log' = Append(log, DecisionRow(p)) /\ UNCHANGED <<aliases, lastAlias>>
         \/ \E partner \in Partners :
              /\ lastAlias' = lastAlias + 1
              /\ aliases' = aliases \cup {[id |-> lastAlias + 1, partner |-> partner, via |-> "decision"]}
              /\ log' = Append(Append(log, Learnt(lastAlias + 1, partner, "decision")), DecisionRow(p))
<1>1. work[p].pc = "decide"
  BY DEF CommitDecision
<1>2. work[p].teaches \in Partners \cup {None}
  BY <1>1, JobFields
<1>3. CASE work[p].teaches = None
  BY <1>3 DEF CommitDecision, names
<1>4. CASE work[p].teaches # None
  BY <1>2, <1>4 DEF CommitDecision
<1>5. QED
  BY <1>3, <1>4

LEMMA TypePreserved ==
  TypeOK /\ CorrectionsHavePartners /\ [Next]_vars => TypeOK'
<1> SUFFICES ASSUME TypeOK, CorrectionsHavePartners, [Next]_vars PROVE TypeOK'
  OBVIOUS
<1>1. CASE UNCHANGED vars
  BY <1>1 DEF TypeOK, vars, names, rules
<1>2. ASSUME NEW p \in People, NEW job \in Jobs, Quiet(p, job) PROVE TypeOK'
  BY <1>2, Working DEF Quiet, TypeOK
<1>3. ASSUME NEW decision \in Verdicts, NEW partner \in Partners \cup {None}, Save(decision, partner)
      PROVE  TypeOK'
  <2>1. log' \in Seq(Entries)
    <3>1. Saved(decision, partner) \in Entries /\ log' = Append(log, Saved(decision, partner))
      BY <1>3, Saving
    <3>2. QED
      BY <3>1, Logging DEF TypeOK
  <2>2. verdict' \in Rows /\ verdict'.decision # "update"
    BY <1>3, Saving DEF Verdicts
  <2>3. QED
    BY <1>3, <2>1, <2>2, Saving DEF TypeOK
<1>4. ASSUME NEW p \in People, CommitDecision(p) PROVE TypeOK'
  <2>1. log' \in Seq(Entries) /\ aliases' \subseteq Names /\ lastAlias' \in Nat
    <3>1. DecisionRow(p) \in Entries
      BY <1>4, Deciding
    <3>2. CASE log' = Append(log, DecisionRow(p)) /\ UNCHANGED <<aliases, lastAlias>>
      BY <3>1, <3>2, Logging DEF TypeOK
    <3>3. ASSUME NEW partner \in Partners,
                 lastAlias' = lastAlias + 1,
                 aliases' = aliases \cup {[id |-> lastAlias + 1, partner |-> partner, via |-> "decision"]},
                 log' = Append(Append(log, Learnt(lastAlias + 1, partner, "decision")), DecisionRow(p))
          PROVE  log' \in Seq(Entries) /\ aliases' \subseteq Names /\ lastAlias' \in Nat
      <4>1. lastAlias + 1 \in Nat
        BY DEF TypeOK
      <4>2. log' \in Seq(Entries)
        BY <3>1, <3>3, <4>1, LearntIsEntry, Logging DEF TypeOK
      <4>3. aliases' \subseteq Names
        BY <3>3, <4>1 DEF TypeOK, Names
      <4>4. QED
        BY <3>3, <4>1, <4>2, <4>3
    <3>4. QED
      BY <1>4, <3>2, <3>3, DecidingLogs
  <2>2. work' \in [People -> Jobs]
    BY <1>4, Deciding, IdleIsJob, Working
  <2>3. QED
    BY <1>4, <2>1, <2>2, Deciding DEF TypeOK
<1>5. ASSUME NEW p \in People, AddAlias(p) PROVE TypeOK'
  <2>1. work[p].partner \in Partners /\ lastAlias + 1 \in Nat
    BY <1>5, JobFields DEF AddAlias, TypeOK
  <2>2. [pc |-> "tell", partner |-> work[p].partner] \in Jobs
    BY <2>1 DEF Jobs
  <2>3. work' \in [People -> Jobs]
    BY <1>5, <2>2, Working DEF AddAlias
  <2>4. aliases' \subseteq Names
    BY <1>5, <2>1 DEF AddAlias, TypeOK, Names
  <2>5. QED
    BY <1>5, <2>1, <2>3, <2>4 DEF AddAlias, TypeOK, rules
<1>6. ASSUME NEW p \in People, TellAlias(p) PROVE TypeOK'
  <2>1. work[p].partner \in Partners
    BY <1>6, JobFields DEF TellAlias
  <2>2. log' \in Seq(Entries)
    BY <1>6, <2>1, LearntIsEntry, Logging DEF TellAlias, TypeOK
  <2>3. work' \in [People -> Jobs]
    BY <1>6, IdleIsJob, Working DEF TellAlias, Ends
  <2>4. QED
    BY <1>6, <2>2, <2>3 DEF TellAlias, Ends, TypeOK, names, rules
<1>7. ASSUME NEW p \in People, CommitForget(p) PROVE TypeOK'
  <2>1. work[p].alias \in Names
    BY <1>7, JobFields DEF CommitForget
  <2>2. [what |-> "forget", id |-> work[p].alias.id, partner |-> work[p].alias.partner] \in Entries
    BY <2>1 DEF Names, Entries
  <2>3. log' \in Seq(Entries)
    BY <1>7, <2>2, Logging DEF CommitForget, TypeOK
  <2>4. work' \in [People -> Jobs]
    BY <1>7, IdleIsJob, Working DEF CommitForget, Ends
  <2>5. QED
    BY <1>7, <2>3, <2>4 DEF CommitForget, Ends, TypeOK, rules
<1>8. ASSUME NEW p \in People, CommitApply(p) PROVE TypeOK'
  <2>1. work[p].scope \in Scopes /\ work[p].validFrom \in 0 .. MaxWorks /\ work[p].seen \in Nat
    BY <1>8, JobFields DEF CommitApply
  <2>2. /\ thresholds' \in Seq([scope : Scopes, validFrom : 0 .. MaxWorks, seen : Nat])
        /\ Len(thresholds') = Len(thresholds) + 1
    BY <1>8, <2>1 DEF CommitApply, TypeOK
  <2>3. open' \subseteq DOMAIN thresholds'
    BY <1>8, <2>2 DEF CommitApply, TypeOK
  <2>4. work' \in [People -> Jobs]
    BY <1>8, IdleIsJob, Working DEF CommitApply, Ends
  <2>5. QED
    BY <1>8, <2>2, <2>3, <2>4 DEF CommitApply, Ends, TypeOK, names
<1>9. QED
  BY <1>1, <1>2, <1>3, <1>4, <1>5, <1>6, <1>7, <1>8, StepKinds DEF Commits

-----------------------------------------------------------------------------
(* What a step does to transactions under way and to the log.              *)

\* A transaction that commits is over, or has only its row of the log to write.
LEMMA CommitsEnd ==
  ASSUME TypeOK, Commits
  PROVE  \A q \in People : work'[q] = work[q] \/ work'[q].pc \in {"idle", "tell"}
<1>1. ASSUME NEW decision \in Verdicts, NEW partner \in Partners \cup {None}, Save(decision, partner)
      PROVE  \A q \in People : work'[q] = work[q]
  BY <1>1 DEF Save
<1>2. ASSUME NEW p \in People, AddAlias(p)
      PROVE  \A q \in People : work'[q] = work[q] \/ work'[q].pc \in {"idle", "tell"}
  BY <1>2 DEF AddAlias, TypeOK
<1>3. ASSUME NEW p \in People, CommitDecision(p) \/ TellAlias(p) \/ CommitForget(p) \/ CommitApply(p)
      PROVE  \A q \in People : work'[q] = work[q] \/ work'[q].pc \in {"idle", "tell"}
  <2>1. work' = [work EXCEPT ![p] = Idle]
    BY <1>3 DEF CommitDecision, TellAlias, CommitForget, CommitApply, Ends
  <2>2. QED
    BY <2>1 DEF TypeOK, Idle
<1>4. QED
  BY <1>1, <1>2, <1>3 DEF Commits

\* l is the beginning of m.
Grows(l, m) == Len(l) <= Len(m) /\ \A k \in 1 .. Len(l) : m[k] = l[k]

\* What the log had stays; a worker's verdict ends with a row that tells all but the decider,
\* who stays the same, a person's with a row that tells everything, and new decisions are those of a transaction that was under way.
LogStep ==
  /\ log' \in Seq(Entries) /\ Grows(log, log')
  /\ \/ verdict' = verdict /\ \A k \in Len(log) + 1 .. Len(log') : log'[k].what \notin States
     \/ /\ verdict'.decision # "none" /\ verdict'.by = verdict.by /\ Len(log') = Len(log) + 1
        /\ log'[Len(log')].what = "save"
        /\ log'[Len(log')].after.decision = verdict'.decision
        /\ log'[Len(log')].after.partner = verdict'.partner
     \/ /\ verdict'.decision # "none" /\ Len(log) < Len(log')
        /\ log'[Len(log')].what = "decision" /\ log'[Len(log')].after = verdict'
  /\ \A k \in Len(log) + 1 .. Len(log') : log'[k].what = "decision" =>
       \E p \in People : /\ work[p].pc = "decide"
                         /\ log'[k].began = work[p].began /\ log'[k].before = work[p].before

\* One row is appended that is no verdict.
LEMMA Noting ==
  ASSUME TypeOK, NEW entry \in Entries, entry.what \notin States,
         log' = Append(log, entry), verdict' = verdict
  PROVE  LogStep
<1>1. /\ log' \in Seq(Entries) /\ Len(log') = Len(log) + 1 /\ log'[Len(log) + 1] = entry
      /\ \A k \in 1 .. Len(log) : log'[k] = log[k]
  BY Logging DEF TypeOK
<1>2. Len(log) \in Nat
  BY DEF TypeOK
<1>3. \A k \in Len(log) + 1 .. Len(log') : log'[k] = entry
  BY <1>1, <1>2
<1>4. QED
  BY <1>1, <1>2, <1>3 DEF LogStep, Grows

LEMMA LogSteps ==
  TypeOK /\ CorrectionsHavePartners /\ [Next]_vars => LogStep
<1> SUFFICES ASSUME TypeOK, CorrectionsHavePartners, [Next]_vars PROVE LogStep
  OBVIOUS
<1>1. log \in Seq(Entries) /\ Len(log) \in Nat
  BY DEF TypeOK
<1>2. ASSUME verdict' = verdict, log' = log PROVE LogStep
  BY <1>1, <1>2 DEF LogStep, Grows
<1>3. ASSUME NEW decision \in Verdicts, NEW partner \in Partners \cup {None}, Save(decision, partner)
      PROVE  LogStep
  <2> DEFINE entry == Saved(decision, partner)
  <2>1. /\ entry \in Entries /\ log' = Append(log, entry) /\ entry.what = "save"
        /\ verdict'.decision # "none" /\ verdict'.by = verdict.by
        /\ entry.after.decision = verdict'.decision /\ entry.after.partner = verdict'.partner
    BY <1>3, Saving DEF Verdicts
  <2> HIDE DEF entry
  <2>2. /\ log' \in Seq(Entries) /\ Len(log') = Len(log) + 1 /\ log'[Len(log) + 1] = entry
        /\ \A k \in 1 .. Len(log) : log'[k] = log[k]
    BY <1>1, <2>1, Logging
  <2>3. \A k \in Len(log) + 1 .. Len(log') : log'[k] = entry
    BY <1>1, <2>2
  <2>4. QED
    BY <1>1, <2>1, <2>2, <2>3 DEF LogStep, Grows
<1>4. ASSUME NEW p \in People, CommitDecision(p) PROVE LogStep
  <2> DEFINE entry == DecisionRow(p)
  <2>1. /\ entry \in Entries /\ entry.what = "decision" /\ entry.after = verdict'
        /\ entry.before = work[p].before /\ entry.began = work[p].began
        /\ work[p].pc = "decide" /\ verdict'.decision # "none"
    BY <1>4, Deciding DEF Decisions
  <2> HIDE DEF entry
  <2>2. CASE log' = Append(log, entry)
    <3>1. /\ log' \in Seq(Entries) /\ Len(log') = Len(log) + 1 /\ log'[Len(log) + 1] = entry
          /\ \A k \in 1 .. Len(log) : log'[k] = log[k]
      BY <1>1, <2>1, <2>2, Logging
    <3>2. \A k \in Len(log) + 1 .. Len(log') : log'[k] = entry
      BY <1>1, <3>1
    <3>3. QED
      BY <1>1, <2>1, <3>1, <3>2 DEF LogStep, Grows
  <2>3. ASSUME NEW partner \in Partners,
               log' = Append(Append(log, Learnt(lastAlias + 1, partner, "decision")), entry)
        PROVE  LogStep
    <3> DEFINE first == Learnt(lastAlias + 1, partner, "decision")
    <3>0. lastAlias + 1 \in Nat
      BY DEF TypeOK
    <3>1. first \in Entries /\ first.what = "learn"
      BY <3>0, LearntIsEntry DEF Learnt
    <3> HIDE DEF first
    <3>2. log' = Append(Append(log, first), entry)
      BY <2>3 DEF first
    <3>3. /\ Append(log, first) \in Seq(Entries) /\ Len(Append(log, first)) = Len(log) + 1
          /\ Append(log, first)[Len(log) + 1] = first
          /\ \A k \in 1 .. Len(log) : Append(log, first)[k] = log[k]
      BY <1>1, <3>1, Logging
    <3>4. /\ log' \in Seq(Entries) /\ Len(log') = Len(log) + 2
          /\ log'[Len(log) + 1] = first /\ log'[Len(log) + 2] = entry
          /\ \A k \in 1 .. Len(log) : log'[k] = log[k]
      BY <1>1, <2>1, <3>2, <3>3, Logging
    <3>5. \A k \in Len(log) + 1 .. Len(log') : log'[k] = first \/ log'[k] = entry
      BY <1>1, <3>4
    <3>6. QED
      BY <1>1, <2>1, <3>1, <3>4, <3>5 DEF LogStep, Grows
  <2>4. QED
    BY <1>4, <2>2, <2>3, DecidingLogs DEF entry
<1>5. ASSUME NEW p \in People, TellAlias(p) PROVE LogStep
  <2>1. Learnt(None, work[p].partner, "settlement") \in Entries
    BY <1>5, JobFields, LearntIsEntry DEF TellAlias
  <2>2. QED
    BY <1>5, <2>1, Noting DEF TellAlias, Learnt
<1>6. ASSUME NEW p \in People, CommitForget(p) PROVE LogStep
  <2>1. [what |-> "forget", id |-> work[p].alias.id, partner |-> work[p].alias.partner] \in Entries
    BY <1>6, JobFields DEF CommitForget, Names, Entries
  <2>2. QED
    BY <1>6, <2>1, Noting DEF CommitForget
<1>7. ASSUME NEW p \in People, AddAlias(p) \/ CommitApply(p) PROVE LogStep
  BY <1>2, <1>7 DEF AddAlias, CommitApply
<1>8. QED
  BY <1>2, <1>3, <1>4, <1>5, <1>6, <1>7, StepKinds DEF Commits, Quiet, vars

-----------------------------------------------------------------------------
(* The log.                                                                *)

\* The last row of a kind among the first n is the same in every continuation of the log.
LEMMA LastKept ==
  ASSUME NEW l, NEW m, Grows(l, m), NEW n \in Nat, Len(l) \in Nat, n <= Len(l),
         NEW kinds, NEW j \in 1 .. n, IsLast(l, n, kinds, j)
  PROVE  IsLast(m, n, kinds, j) /\ m[j] = l[j]
<1>1. \A k \in 1 .. n : m[k] = l[k]
  BY DEF Grows
<1>2. \A i \in j + 1 .. n : i \in 1 .. n
  OBVIOUS
<1>3. QED
  BY <1>1, <1>2 DEF IsLast

\* It is the last still if no row of the kind is added.
LEMMA LastStays ==
  ASSUME NEW l, NEW m, Grows(l, m), Len(l) \in Nat, Len(m) \in Nat,
         NEW kinds, \A k \in Len(l) + 1 .. Len(m) : m[k].what \notin kinds,
         NEW j \in 1 .. Len(l), IsLast(l, Len(l), kinds, j)
  PROVE  IsLast(m, Len(m), kinds, j) /\ m[j] = l[j] /\ j \in 1 .. Len(m)
<1>1. Len(l) <= Len(m) /\ \A k \in 1 .. Len(l) : m[k] = l[k]
  BY DEF Grows
<1>2. \A i \in j + 1 .. Len(m) :
        (i \in j + 1 .. Len(l) /\ i \in 1 .. Len(l)) \/ i \in Len(l) + 1 .. Len(m)
  BY <1>1
<1>3. m[j] = l[j] /\ j \in 1 .. Len(m)
  BY <1>1
<1>4. m[j].what \in kinds
  BY <1>3 DEF IsLast
<1>5. \A i \in j + 1 .. Len(m) : m[i].what \notin kinds
  BY <1>1, <1>2 DEF IsLast
<1>6. QED
  BY <1>3, <1>4, <1>5 DEF IsLast

\* What a log told up to a row of it, it still tells when it has grown.
LEMMA TellsKept ==
  ASSUME NEW l \in Seq(Entries), NEW m \in Seq(Entries), Grows(l, m),
         NEW n \in Nat, n <= Len(l), NEW v, Tells(l, n, v)
  PROVE  Tells(m, n, v)
<1>1. Len(l) \in Nat
  OBVIOUS
<1>2. \E j \in 1 .. n : /\ IsLast(m, n, States, j)
                        /\ m[j].after.decision = v.decision /\ m[j].after.partner = v.partner
  <2>1. PICK j \in 1 .. n : /\ IsLast(l, n, States, j)
                            /\ l[j].after.decision = v.decision /\ l[j].after.partner = v.partner
    BY DEF Tells
  <2>2. IsLast(m, n, States, j) /\ m[j] = l[j]
    BY <1>1, <2>1, LastKept
  <2>3. QED
    BY <2>1, <2>2
<1>3. CASE \E j \in 1 .. n : IsLast(l, n, {"decision"}, j) /\ l[j].after.by = v.by
  <2>1. PICK j \in 1 .. n : IsLast(l, n, {"decision"}, j) /\ l[j].after.by = v.by
    BY <1>3
  <2>2. IsLast(m, n, {"decision"}, j) /\ m[j] = l[j]
    BY <1>1, <2>1, LastKept
  <2>3. QED
    BY <1>2, <2>1, <2>2 DEF Tells
<1>4. CASE v.by = None /\ \A k \in 1 .. n : l[k].what # "decision"
  <2>1. \A k \in 1 .. n : m[k] = l[k]
    BY <1>1 DEF Grows
  <2>2. \A k \in 1 .. n : m[k].what # "decision"
    BY <1>4, <2>1
  <2>3. QED
    BY <1>2, <1>4, <2>2 DEF Tells
<1>5. QED
  BY <1>3, <1>4 DEF Tells

\* A log whose last row says what was concluded, and that names the same person as before.
LEMMA DeciderStays ==
  ASSUME TypeOK, VerdictIsTold, NEW l \in Seq(Entries), Grows(log, l),
         \A k \in Len(log) + 1 .. Len(l) : l[k].what # "decision"
  PROVE  \/ \E j \in 1 .. Len(l) : IsLast(l, Len(l), {"decision"}, j) /\ l[j].after.by = verdict.by
         \/ verdict.by = None /\ \A m \in 1 .. Len(l) : l[m].what # "decision"
<1>1. log \in Seq(Entries) /\ Len(log) \in Nat /\ Len(l) \in Nat
  BY DEF TypeOK
<1>2. CASE \E j \in 1 .. Len(log) : IsLast(log, Len(log), {"decision"}, j) /\ log[j].after.by = verdict.by
  <2>1. PICK j \in 1 .. Len(log) : IsLast(log, Len(log), {"decision"}, j) /\ log[j].after.by = verdict.by
    BY <1>2
  <2>2. IsLast(l, Len(l), {"decision"}, j) /\ l[j] = log[j] /\ j \in 1 .. Len(l)
    BY <1>1, <2>1, LastStays
  <2>3. QED
    BY <2>1, <2>2
<1>3. CASE verdict.by = None /\ \A m \in 1 .. Len(log) : log[m].what # "decision"
  <2>1. \A k \in 1 .. Len(l) : k \in 1 .. Len(log) \/ k \in Len(log) + 1 .. Len(l)
    BY <1>1
  <2>2. \A k \in 1 .. Len(log) : l[k] = log[k]
    BY DEF Grows
  <2>3. QED
    BY <1>3, <2>1, <2>2
<1>4. CASE verdict = NoVerdict /\ \A k \in 1 .. Len(log) : log[k].what \notin States
  BY <1>3, <1>4 DEF NoVerdict
<1>5. QED
  BY <1>2, <1>3, <1>4 DEF VerdictIsTold, Tells

LEMMA VerdictStaysTold ==
  TypeOK /\ VerdictIsTold /\ LogStep => VerdictIsTold'
<1> SUFFICES ASSUME TypeOK, VerdictIsTold, LogStep PROVE VerdictIsTold'
  OBVIOUS
<1>1. log \in Seq(Entries) /\ log' \in Seq(Entries) /\ Len(log) \in Nat /\ Len(log') \in Nat
  BY DEF TypeOK, LogStep
<1>2. Grows(log, log') /\ Len(log) <= Len(log') /\ \A k \in 1 .. Len(log) : log'[k] = log[k]
  BY DEF LogStep, Grows
<1>3. \A i \in Len(log') + 1 .. Len(log') : FALSE
  BY <1>1
<1>4. CASE /\ verdict'.decision # "none" /\ verdict'.by = verdict.by /\ Len(log') = Len(log) + 1
           /\ log'[Len(log')].what = "save"
           /\ log'[Len(log')].after.decision = verdict'.decision
           /\ log'[Len(log')].after.partner = verdict'.partner
  <2>1. Len(log') \in 1 .. Len(log') /\ IsLast(log', Len(log'), States, Len(log'))
    BY <1>1, <1>3, <1>4 DEF IsLast
  <2>2. \A k \in Len(log) + 1 .. Len(log') : log'[k].what # "decision"
    BY <1>1, <1>4
  <2>3. \/ \E j \in 1 .. Len(log') : IsLast(log', Len(log'), {"decision"}, j) /\ log'[j].after.by = verdict.by
        \/ verdict.by = None /\ \A m \in 1 .. Len(log') : log'[m].what # "decision"
    BY <1>1, <1>2, <2>2, DeciderStays
  <2>4. Tells(log', Len(log'), verdict')
    BY <1>4, <2>1, <2>3 DEF Tells
  <2>5. QED
    BY <1>4, <2>4 DEF VerdictIsTold
<1>5. CASE /\ verdict'.decision # "none" /\ Len(log) < Len(log')
           /\ log'[Len(log')].what = "decision" /\ log'[Len(log')].after = verdict'
  <2>1. /\ Len(log') \in 1 .. Len(log')
        /\ IsLast(log', Len(log'), States, Len(log')) /\ IsLast(log', Len(log'), {"decision"}, Len(log'))
    BY <1>1, <1>3, <1>5 DEF IsLast
  <2>2. Tells(log', Len(log'), verdict')
    BY <1>5, <2>1 DEF Tells
  <2>3. QED
    BY <1>5, <2>2 DEF VerdictIsTold
<1>6. CASE verdict' = verdict /\ \A k \in Len(log) + 1 .. Len(log') : log'[k].what \notin States
  <2>1. CASE verdict = NoVerdict /\ \A k \in 1 .. Len(log) : log[k].what \notin States
    <3>1. \A k \in 1 .. Len(log') : k \in 1 .. Len(log) \/ k \in Len(log) + 1 .. Len(log')
      BY <1>1, <1>2
    <3>2. \A k \in 1 .. Len(log') : log'[k].what \notin States
      BY <1>2, <1>6, <2>1, <3>1
    <3>3. QED
      BY <1>6, <2>1, <3>2 DEF VerdictIsTold, NoVerdict
  <2>2. CASE verdict.decision # "none" /\ Tells(log, Len(log), verdict)
    <3>1. PICK j \in 1 .. Len(log) :
            /\ IsLast(log, Len(log), States, j)
            /\ log[j].after.decision = verdict.decision /\ log[j].after.partner = verdict.partner
      BY <2>2 DEF Tells
    <3>2. IsLast(log', Len(log'), States, j) /\ log'[j] = log[j] /\ j \in 1 .. Len(log')
      BY <1>1, <1>2, <1>6, <3>1, LastStays
    <3>3. \A k \in Len(log) + 1 .. Len(log') : log'[k].what # "decision"
      BY <1>6
    <3>4. \/ \E i \in 1 .. Len(log') : IsLast(log', Len(log'), {"decision"}, i) /\ log'[i].after.by = verdict.by
          \/ verdict.by = None /\ \A m \in 1 .. Len(log') : log'[m].what # "decision"
      BY <1>1, <1>2, <3>3, DeciderStays
    <3>5. Tells(log', Len(log'), verdict)
      BY <3>1, <3>2, <3>4 DEF Tells
    <3>6. QED
      BY <1>6, <2>2, <3>5 DEF VerdictIsTold
  <2>3. QED
    BY <2>1, <2>2 DEF VerdictIsTold
<1>7. QED
  BY <1>4, <1>5, <1>6 DEF LogStep

\* What is under way after a step was so before it, or fits the state it began in.
LEMMA UnderWay ==
  ASSUME TypeOK, [Next]_vars, NEW q \in People
  PROVE  \/ work'[q] = work[q]
         \/ work'[q].pc \in {"idle", "tell"}
         \/ Fits(q, work'[q]) /\ UNCHANGED <<verdict, aliases, lastAlias, log, thresholds, open>>
<1>1. CASE UNCHANGED vars
  BY <1>1 DEF vars
<1>2. ASSUME NEW p \in People, NEW job \in Jobs, Quiet(p, job), Fits(p, job)
      PROVE  \/ work'[q] = work[q]
             \/ Fits(q, work'[q]) /\ UNCHANGED <<verdict, aliases, lastAlias, log, thresholds, open>>
  BY <1>2, Working DEF Quiet
<1>3. CASE Commits
  BY <1>3, CommitsEnd
<1>4. QED
  BY <1>1, <1>2, <1>3, StepKinds

LEMMA CorrectionsKeepPartners ==
  TypeOK /\ CorrectionsHavePartners /\ [Next]_vars => CorrectionsHavePartners'
<1> SUFFICES ASSUME TypeOK, CorrectionsHavePartners, [Next]_vars,
                    NEW q \in People, work'[q].pc = "decide", work'[q].decision = "update"
             PROVE  work'[q].partner # None
  BY DEF CorrectionsHavePartners
<1>1. QED
  BY UnderWay DEF CorrectionsHavePartners, Fits

LEMMA BeforesStayTold ==
  TypeOK /\ BeforesAreTold /\ VerdictIsTold /\ LogStep /\ [Next]_vars => BeforesAreTold'
<1> SUFFICES ASSUME TypeOK, BeforesAreTold, VerdictIsTold, LogStep, [Next]_vars PROVE BeforesAreTold'
  OBVIOUS
<1>1. log \in Seq(Entries) /\ log' \in Seq(Entries) /\ Len(log) \in Nat /\ Len(log') \in Nat
  BY DEF TypeOK, LogStep
<1>2. Grows(log, log') /\ Len(log) <= Len(log') /\ \A k \in 1 .. Len(log) : log'[k] = log[k]
  BY DEF LogStep, Grows
<1>3. ASSUME NEW p \in People, work[p].pc = "decide"
      PROVE  /\ work[p].began \in Nat /\ work[p].began <= Len(log)
             /\ Tells(log', work[p].began, work[p].before)
  <2>1. work[p].began \in Nat /\ work[p].began <= Len(log) /\ Tells(log, work[p].began, work[p].before)
    BY <1>3, JobFields DEF BeforesAreTold
  <2>2. QED
    BY <1>1, <1>2, <2>1, TellsKept
<1>4. ASSUME NEW k \in 1 .. Len(log'), log'[k].what = "decision"
      PROVE  log'[k].began < k /\ Tells(log', log'[k].began, log'[k].before)
  <2>1. CASE k \in 1 .. Len(log)
    <3>1. log[k].what = "decision" /\ log'[k] = log[k]
      BY <1>2, <1>4, <2>1
    <3>2. log[k] \in Entries
      BY <1>1, <2>1
    <3>3. log[k].began \in Nat
      BY <3>1, <3>2 DEF Entries
    <3>4. log[k].began < k /\ Tells(log, log[k].began, log[k].before)
      BY <2>1, <3>1 DEF BeforesAreTold
    <3>5. log[k].began <= Len(log)
      BY <1>1, <2>1, <3>3, <3>4
    <3>6. QED
      BY <1>1, <1>2, <3>1, <3>3, <3>4, <3>5, TellsKept
  <2>2. CASE k \in Len(log) + 1 .. Len(log')
    <3>1. PICK p \in People : /\ work[p].pc = "decide"
                              /\ log'[k].began = work[p].began /\ log'[k].before = work[p].before
      BY <1>4, <2>2 DEF LogStep
    <3>2. QED
      BY <1>1, <1>3, <2>2, <3>1
  <2>3. QED
    BY <1>1, <1>2, <1>4, <2>1, <2>2
<1>5. ASSUME NEW p \in People, work'[p].pc = "decide"
      PROVE  work'[p].began <= Len(log') /\ Tells(log', work'[p].began, work'[p].before)
  <2>1. CASE work'[p] = work[p]
    BY <1>1, <1>2, <1>3, <1>5, <2>1
  <2>2. CASE Fits(p, work'[p]) /\ log' = log
    <3>1. work'[p].before = verdict /\ work'[p].began = Len(log) /\ verdict.decision # "none"
      BY <1>5, <2>2 DEF Fits
    <3>2. QED
      BY <1>1, <2>2, <3>1 DEF VerdictIsTold, NoVerdict
  <2>3. QED
    BY <1>5, <2>1, <2>2, UnderWay
<1>6. QED
  BY <1>4, <1>5 DEF BeforesAreTold

-----------------------------------------------------------------------------
(* Names.                                                                  *)

\* The rows a step adds to the log.
New == Len(log) + 1 .. Len(log')

\* A row that says nothing of a name with a number.
Silent(entry) == entry.what # "forget" /\ (entry.what = "learn" => entry.id = None)

\* A step leaves the names alone, adds one with a fresh number, or removes the only one of
\* its number; the rows it adds to the log tell this, but for a name that a settlement taught.
NameStep ==
  \/ /\ UNCHANGED <<aliases, lastAlias>>
     /\ \A k \in New : Silent(log'[k])
  \/ \E name \in Names :
       /\ name.id = lastAlias + 1
       /\ lastAlias' = lastAlias + 1
       /\ aliases' = aliases \cup {name}
       /\ \A k \in New : Silent(log'[k]) \/ log'[k] = Learnt(name.id, name.partner, "decision")
       /\ name.via = "decision" =>
            \E k \in New : log'[k] = Learnt(name.id, name.partner, "decision")
  \/ \E name \in Names :
       /\ name.id <= lastAlias
       /\ \A a \in aliases : a.id = name.id => a = name
       /\ lastAlias' = lastAlias
       /\ aliases' = aliases \ {name}
       /\ New = {Len(log) + 1}
       /\ log'[Len(log) + 1].what = "forget" /\ log'[Len(log) + 1].id = name.id

LEMMA NameSteps ==
  TypeOK /\ CorrectionsHavePartners /\ NumbersAreUnique /\ [Next]_vars => NameStep
<1> SUFFICES ASSUME TypeOK, CorrectionsHavePartners, NumbersAreUnique, [Next]_vars PROVE NameStep
  OBVIOUS
<1>1. log \in Seq(Entries) /\ Len(log) \in Nat /\ lastAlias \in Nat
  BY DEF TypeOK
<1>2. ASSUME UNCHANGED <<aliases, lastAlias, log>> PROVE NameStep
  <2>1. New = {}
    BY <1>1, <1>2 DEF New
  <2>2. QED
    BY <1>2, <2>1 DEF NameStep
<1>3. ASSUME UNCHANGED <<aliases, lastAlias>>, NEW entry \in Entries, Silent(entry), log' = Append(log, entry)
      PROVE  NameStep
  <2>1. \A k \in New : log'[k] = entry
    BY <1>1, <1>3, Logging DEF New
  <2>2. QED
    BY <1>3, <2>1 DEF NameStep
<1>4. ASSUME NEW decision \in Verdicts, NEW partner \in Partners \cup {None}, Save(decision, partner)
      PROVE  NameStep
  <2> DEFINE entry == Saved(decision, partner)
  <2>1. entry \in Entries /\ Silent(entry) /\ log' = Append(log, entry) /\ UNCHANGED <<aliases, lastAlias>>
    BY <1>4, Saving DEF Silent
  <2>2. QED
    BY <1>3, <2>1
<1>5. ASSUME NEW p \in People, CommitDecision(p) PROVE NameStep
  <2> DEFINE entry == DecisionRow(p)
  <2>1. entry \in Entries /\ Silent(entry)
    BY <1>5, Deciding DEF Silent
  <2> HIDE DEF entry
  <2>2. ASSUME NEW partner \in Partners,
               lastAlias' = lastAlias + 1,
               aliases' = aliases \cup {[id |-> lastAlias + 1, partner |-> partner, via |-> "decision"]},
               log' = Append(Append(log, Learnt(lastAlias + 1, partner, "decision")), entry)
        PROVE  NameStep
    <3> DEFINE first == Learnt(lastAlias + 1, partner, "decision")
               name == [id |-> lastAlias + 1, partner |-> partner, via |-> "decision"]
    <3>1. lastAlias + 1 \in Nat
      BY <1>1
    <3>2. first \in Entries
      BY <3>1, LearntIsEntry
    <3>3. name \in Names /\ name.id = lastAlias + 1 /\ name.via = "decision"
          /\ first = Learnt(name.id, name.partner, "decision")
      BY <3>1 DEF Names
    <3> HIDE DEF first, name
    <3>4. log' = Append(Append(log, first), entry) /\ aliases' = aliases \cup {name}
      BY <2>2 DEF first, name
    <3>5. /\ Append(log, first) \in Seq(Entries) /\ Len(Append(log, first)) = Len(log) + 1
          /\ Append(log, first)[Len(log) + 1] = first
      BY <1>1, <3>2, Logging
    <3>6. /\ Len(log') = Len(log) + 2
          /\ log'[Len(log) + 1] = first /\ log'[Len(log) + 2] = entry
      BY <1>1, <2>1, <3>4, <3>5, Logging
    <3>7. Len(log) + 1 \in New /\ \A k \in New : log'[k] = first \/ log'[k] = entry
      BY <1>1, <3>6 DEF New
    <3>8. QED
      BY <2>1, <2>2, <3>3, <3>4, <3>6, <3>7 DEF NameStep
  <2>3. QED
    BY <1>3, <1>5, <2>1, <2>2, DecidingLogs DEF entry
<1>6. ASSUME NEW p \in People, AddAlias(p) PROVE NameStep
  <2> DEFINE name == [id |-> lastAlias + 1, partner |-> work[p].partner, via |-> "settlement"]
  <2>1. work[p].partner \in Partners /\ lastAlias + 1 \in Nat
    BY <1>1, <1>6, JobFields DEF AddAlias
  <2>2. name \in Names /\ name.id = lastAlias + 1 /\ name.via # "decision"
    BY <2>1 DEF Names
  <2>3. lastAlias' = lastAlias + 1 /\ aliases' = aliases \cup {name} /\ log' = log
    BY <1>6 DEF AddAlias
  <2>4. New = {}
    BY <1>1, <2>3 DEF New
  <2>5. QED
    BY <2>2, <2>3, <2>4 DEF NameStep
<1>7. ASSUME NEW p \in People, TellAlias(p) PROVE NameStep
  <2>1. Learnt(None, work[p].partner, "settlement") \in Entries
    BY <1>7, JobFields, LearntIsEntry DEF TellAlias
  <2>2. QED
    BY <1>3, <1>7, <2>1 DEF TellAlias, Learnt, Silent, names
<1>8. ASSUME NEW p \in People, CommitForget(p) PROVE NameStep
  <2> DEFINE name == work[p].alias
             entry == [what |-> "forget", id |-> name.id, partner |-> name.partner]
  <2>1. name \in Names
    BY <1>8, JobFields DEF CommitForget
  <2>2. entry \in Entries
    BY <2>1 DEF Names, Entries
  <2>3. New = {Len(log) + 1} /\ log'[Len(log) + 1] = entry
    BY <1>1, <1>8, <2>2, Logging DEF CommitForget, New
  <2>4. name.id <= lastAlias /\ \A a \in aliases : a.id = name.id => a = name
    BY <1>8 DEF CommitForget, NumbersAreUnique
  <2>5. aliases' = aliases \ {name} /\ lastAlias' = lastAlias
    BY <1>8 DEF CommitForget
  <2>6. QED
    BY <2>1, <2>3, <2>4, <2>5 DEF NameStep
<1>9. ASSUME NEW p \in People, CommitApply(p) PROVE NameStep
  BY <1>2, <1>9 DEF CommitApply, names
<1>10. QED
  BY <1>2, <1>4, <1>5, <1>6, <1>7, <1>8, <1>9, StepKinds DEF Commits, Quiet, vars, names

\* What a row that a step adds to the log says of names.
LEMMA NewRows ==
  ASSUME NameStep, NEW k \in New
  PROVE  \/ Silent(log'[k])
         \/ \E name \in Names :
              /\ name.id = lastAlias + 1 /\ lastAlias' = lastAlias + 1 /\ name \in aliases'
              /\ log'[k].what = "learn" /\ log'[k].id = name.id /\ log'[k].partner = name.partner
         \/ \E name \in Names :
              /\ name.id <= lastAlias /\ lastAlias' = lastAlias
              /\ \A a \in aliases : a.id = name.id => a = name
              /\ aliases' = aliases \ {name}
              /\ log'[k].what = "forget" /\ log'[k].id = name.id
<1>1. CASE \A m \in New : Silent(log'[m])
  BY <1>1
<1>2. ASSUME NEW name \in Names, name.id = lastAlias + 1, lastAlias' = lastAlias + 1,
             aliases' = aliases \cup {name}, log'[k] = Learnt(name.id, name.partner, "decision")
      PROVE  /\ name \in aliases'
             /\ log'[k].what = "learn" /\ log'[k].id = name.id /\ log'[k].partner = name.partner
  BY <1>2 DEF Learnt
<1>3. ASSUME NEW name \in Names, New = {Len(log) + 1},
             log'[Len(log) + 1].what = "forget", log'[Len(log) + 1].id = name.id
      PROVE  log'[k].what = "forget" /\ log'[k].id = name.id
  BY <1>3
<1>4. QED
  BY <1>1, <1>2, <1>3 DEF NameStep

LEMMA NumbersStayUnique ==
  TypeOK /\ NumbersAreUnique /\ LogStep /\ NameStep /\ [Next]_vars => NumbersAreUnique'
<1> SUFFICES ASSUME TypeOK, NumbersAreUnique, LogStep, NameStep, [Next]_vars PROVE NumbersAreUnique'
  OBVIOUS
<1>1. /\ log \in Seq(Entries) /\ log' \in Seq(Entries) /\ Len(log) \in Nat /\ Len(log') \in Nat
      /\ lastAlias \in Nat /\ \A a \in aliases : a.id \in Nat
  BY DEF TypeOK, LogStep, Names
<1>2. Len(log) <= Len(log') /\ \A k \in 1 .. Len(log) : log'[k] = log[k]
  BY DEF LogStep, Grows
<1>3. lastAlias <= lastAlias'
  BY <1>1 DEF NameStep
<1>4. \A a \in aliases' : a.id <= lastAlias'
  BY <1>1 DEF NameStep, NumbersAreUnique
<1>5. \A a \in aliases' : a \in aliases \/ (a.id = lastAlias + 1 /\ aliases' = aliases \cup {a})
  BY DEF NameStep
<1>6. \A a, b \in aliases' : a.id = b.id => a = b
  BY <1>1, <1>5 DEF NumbersAreUnique
<1>7. ASSUME NEW q \in People, work'[q].pc = "forget"
      PROVE  work'[q].alias.id <= lastAlias' /\ \A a \in aliases' : a.id = work'[q].alias.id => a = work'[q].alias
  <2>1. CASE work'[q] = work[q]
    <3>1. work[q].alias.id \in Nat
      BY <1>7, <2>1, JobFields DEF Names
    <3>2. work[q].alias.id <= lastAlias /\ \A a \in aliases : a.id = work[q].alias.id => a = work[q].alias
      BY <1>7, <2>1 DEF NumbersAreUnique
    <3>3. lastAlias' \in Nat
      BY <1>1 DEF NameStep
    <3>4. QED
      BY <1>1, <1>3, <1>5, <2>1, <3>1, <3>2, <3>3
  <2>2. CASE Fits(q, work'[q]) /\ UNCHANGED <<aliases, lastAlias>>
    BY <1>7, <2>2 DEF Fits, NumbersAreUnique
  <2>3. QED
    BY <1>7, <2>1, <2>2, UnderWay
<1>8. ASSUME NEW k \in 1 .. Len(log')
      PROVE  /\ log'[k].what = "forget" => log'[k].id <= lastAlias'
             /\ log'[k].what = "learn" /\ log'[k].id # None => log'[k].id <= lastAlias'
  <2>1. CASE k \in 1 .. Len(log)
    <3>1. log'[k] = log[k] /\ log[k] \in Entries
      BY <1>1, <1>2, <2>1
    <3>2. log[k].what \in {"forget", "learn"} => log[k].id \in Nat \cup {None}
      BY <3>1 DEF Entries
    <3>3. log[k].what = "forget" => log[k].id \in Nat
      BY <3>1 DEF Entries
    <3>4. lastAlias' \in Nat
      BY <1>1 DEF NameStep
    <3>5. /\ log[k].what = "forget" => log[k].id <= lastAlias
          /\ log[k].what = "learn" /\ log[k].id # None => log[k].id <= lastAlias
      BY <2>1 DEF NumbersAreUnique
    <3>6. QED
      BY <1>1, <1>3, <3>1, <3>2, <3>3, <3>4, <3>5
  <2>2. CASE k \in New
    <3>1. CASE Silent(log'[k])
      BY <3>1 DEF Silent
    <3>2. ASSUME NEW name \in Names, name.id = lastAlias + 1, lastAlias' = lastAlias + 1,
                 log'[k].what = "learn", log'[k].id = name.id
          PROVE  log'[k].what # "forget" /\ log'[k].id <= lastAlias'
      BY <1>1, <3>2
    <3>3. ASSUME NEW name \in Names, name.id <= lastAlias, lastAlias' = lastAlias,
                 log'[k].what = "forget", log'[k].id = name.id
          PROVE  log'[k].what # "learn" /\ log'[k].id <= lastAlias'
      BY <3>3
    <3>4. QED
      BY <2>2, <3>1, <3>2, <3>3, NewRows
  <2>3. QED
    BY <1>1, <1>2, <2>1, <2>2 DEF New
<1>9. QED
  BY <1>4, <1>6, <1>7, <1>8 DEF NumbersAreUnique

LEMMA NamesStayAccounted ==
  TypeOK /\ NumbersAreUnique /\ NamesAreAccounted /\ LogStep /\ NameStep => NamesAreAccounted'
<1> SUFFICES ASSUME TypeOK, NumbersAreUnique, NamesAreAccounted, LogStep, NameStep PROVE NamesAreAccounted'
  OBVIOUS
<1>1. /\ log \in Seq(Entries) /\ log' \in Seq(Entries) /\ Len(log) \in Nat /\ Len(log') \in Nat
      /\ lastAlias \in Nat /\ \A a \in aliases : a.id \in Nat
  BY DEF TypeOK, LogStep, Names
<1>2. Len(log) <= Len(log') /\ \A k \in 1 .. Len(log) : log'[k] = log[k]
  BY DEF LogStep, Grows
<1>3. \A k \in DOMAIN log' : (k \in DOMAIN log /\ k \in 1 .. Len(log)) \/ k \in New
  BY <1>1, <1>2 DEF New
<1>4. \A k \in DOMAIN log : k \in DOMAIN log' /\ log'[k] = log[k]
  BY <1>1, <1>2
<1>5. \A k \in New : k \in DOMAIN log'
  BY <1>1 DEF New
<1>6. ASSUME NEW a \in aliases', a.via = "decision"
      PROVE  \E k \in DOMAIN log' : log'[k] = Learnt(a.id, a.partner, "decision")
  <2>1. CASE a \in aliases
    BY <1>4, <1>6, <2>1 DEF NamesAreAccounted
  <2>2. CASE a \notin aliases
    BY <1>5, <1>6, <2>2 DEF NameStep
  <2>3. QED
    BY <2>1, <2>2
<1>7. ASSUME NEW k \in DOMAIN log', log'[k].what = "learn", log'[k].id # None
      PROVE  \/ \E a \in aliases' : a.id = log'[k].id /\ a.partner = log'[k].partner
             \/ \E m \in k + 1 .. Len(log') : log'[m].what = "forget" /\ log'[m].id = log'[k].id
  <2>1. CASE k \in DOMAIN log
    <3>1. log'[k] = log[k] /\ k \in 1 .. Len(log)
      BY <1>1, <1>4, <2>1
    <3>2. CASE \E m \in k + 1 .. Len(log) : log[m].what = "forget" /\ log[m].id = log[k].id
      <4>1. PICK m \in k + 1 .. Len(log) : log[m].what = "forget" /\ log[m].id = log[k].id
        BY <3>2
      <4>2. m \in k + 1 .. Len(log') /\ log'[m] = log[m]
        BY <1>1, <1>2, <3>1
      <4>3. QED
        BY <3>1, <4>1, <4>2
    <3>3. CASE \E a \in aliases : a.id = log[k].id /\ a.partner = log[k].partner
      <4>1. PICK a \in aliases : a.id = log[k].id /\ a.partner = log[k].partner
        BY <3>3
      <4>2. CASE a \in aliases'
        BY <3>1, <4>1, <4>2
      <4>3. CASE a \notin aliases'
        <5>1. New = {Len(log) + 1} /\ log'[Len(log) + 1].what = "forget" /\ log'[Len(log) + 1].id = a.id
          BY <4>3 DEF NameStep
        <5>2. Len(log) + 1 \in k + 1 .. Len(log')
          BY <1>1, <3>1, <5>1 DEF New
        <5>3. QED
          BY <3>1, <4>1, <5>1, <5>2
      <4>4. QED
        BY <4>2, <4>3
    <3>4. QED
      BY <1>7, <2>1, <3>1, <3>2, <3>3 DEF NamesAreAccounted
  <2>2. CASE k \in New
    <3>1. ~ Silent(log'[k]) /\ log'[k].what # "forget"
      BY <1>7 DEF Silent
    <3>2. PICK name \in Names : name \in aliases' /\ log'[k].id = name.id /\ log'[k].partner = name.partner
      BY <2>2, <3>1, NewRows
    <3>3. QED
      BY <3>2
  <2>3. QED
    BY <1>3, <2>1, <2>2
<1>8. ASSUME NEW k \in DOMAIN log', log'[k].what = "forget", NEW a \in aliases'
      PROVE  a.id # log'[k].id
  <2>1. CASE k \in DOMAIN log
    <3>1. log'[k] = log[k] /\ k \in 1 .. Len(log) /\ log[k] \in Entries
      BY <1>1, <1>4, <2>1
    <3>2. log[k].id \in Nat /\ log[k].id <= lastAlias
      BY <1>8, <3>1 DEF NumbersAreUnique, Entries
    <3>3. CASE a \in aliases
      BY <1>8, <2>1, <3>1, <3>3 DEF NamesAreAccounted
    <3>4. CASE a.id = lastAlias + 1
      BY <1>1, <3>1, <3>2, <3>4
    <3>5. QED
      BY <3>3, <3>4 DEF NameStep
  <2>2. CASE k \in New
    <3>1. ~ Silent(log'[k]) /\ log'[k].what # "learn"
      BY <1>8 DEF Silent
    <3>2. PICK name \in Names : /\ \A b \in aliases : b.id = name.id => b = name
                                /\ aliases' = aliases \ {name}
                                /\ log'[k].id = name.id
      BY <2>2, <3>1, NewRows
    <3>3. QED
      BY <3>2
  <2>3. QED
    BY <1>3, <2>1, <2>2
<1>9. QED
  BY <1>6, <1>7, <1>8 DEF NamesAreAccounted

-----------------------------------------------------------------------------
(* Thresholds.                                                             *)

LEMMA RuleSteps ==
  TypeOK /\ [Next]_vars =>
    \/ UNCHANGED <<thresholds, open>>
    \/ \E p \in People : CommitApply(p)
<1> SUFFICES ASSUME TypeOK, [Next]_vars
             PROVE  UNCHANGED <<thresholds, open>> \/ \E p \in People : CommitApply(p)
  OBVIOUS
<1>1. CASE UNCHANGED vars
  BY <1>1 DEF vars, rules
<1>2. CASE \E p \in People, job \in Jobs : Quiet(p, job)
  BY <1>2 DEF Quiet
<1>3. CASE Commits
  BY <1>3 DEF Commits, Save, CommitDecision, AddAlias, TellAlias, CommitForget, rules
<1>4. QED
  BY <1>1, <1>2, <1>3, StepKinds

\* What applying a threshold does to the table.
LEMMA Applying ==
  ASSUME TypeOK, NEW p \in People, CommitApply(p)
  PROVE  LET n == Len(thresholds) IN
         /\ n \in Nat /\ Len(thresholds') = n + 1
         /\ \A i \in 1 .. n : thresholds'[i] = thresholds[i]
         /\ thresholds'[n + 1].scope = work[p].scope /\ thresholds'[n + 1].seen = work[p].seen
         /\ open \subseteq 1 .. n /\ open' = (open \ work[p].closes) \cup {n + 1}
         /\ work[p].pc = "closed" /\ work[p].seen \in Nat
<1> DEFINE row == [scope |-> work[p].scope, validFrom |-> work[p].validFrom, seen |-> work[p].seen]
<1>1. /\ work[p].scope \in Scopes /\ work[p].validFrom \in 0 .. MaxWorks /\ work[p].seen \in Nat
      /\ work[p].pc = "closed"
  BY JobFields DEF CommitApply
<1>2. /\ row \in [scope : Scopes, validFrom : 0 .. MaxWorks, seen : Nat]
      /\ row.scope = work[p].scope /\ row.seen = work[p].seen
  BY <1>1
<1>3. thresholds' = Append(thresholds, row) /\ open' = (open \ work[p].closes) \cup {Len(thresholds) + 1}
  BY DEF CommitApply
<1> HIDE DEF row
<1>4. QED
  BY <1>1, <1>2, <1>3 DEF TypeOK

LEMMA ScopesKeepOpen ==
  TypeOK /\ ClosedStayClosed /\ ScopesStayOpen /\ [Next]_vars => ScopesStayOpen'
<1> SUFFICES ASSUME TypeOK, ClosedStayClosed, ScopesStayOpen, [Next]_vars PROVE ScopesStayOpen'
  OBVIOUS
<1>1. CASE UNCHANGED <<thresholds, open>>
  BY <1>1 DEF ScopesStayOpen
<1>2. ASSUME NEW p \in People, CommitApply(p) PROVE ScopesStayOpen'
  <2> DEFINE n == Len(thresholds)
  <2>1. /\ n \in Nat /\ Len(thresholds') = n + 1
        /\ \A i \in 1 .. n : thresholds'[i] = thresholds[i]
        /\ thresholds'[n + 1].scope = work[p].scope
        /\ open \subseteq 1 .. n /\ open' = (open \ work[p].closes) \cup {n + 1}
        /\ work[p].pc = "closed"
    BY <1>2, Applying
  <2>2. \A i \in work[p].closes : i \in 1 .. work[p].seen /\ thresholds[i].scope = work[p].scope
    BY <2>1 DEF ClosedStayClosed
  <2> HIDE DEF n
  <2>3. ASSUME NEW j \in 1 .. n + 1
        PROVE  \E i \in open' : thresholds'[i].scope = thresholds'[j].scope
    <3>1. CASE thresholds'[j].scope = work[p].scope
      BY <2>1, <3>1
    <3>2. CASE thresholds'[j].scope # work[p].scope
      <4>1. j \in 1 .. n
        BY <2>1, <3>2
      <4>2. PICK i \in open : thresholds[i].scope = thresholds[j].scope
        BY <4>1 DEF ScopesStayOpen, n
      <4>3. i \in open'
        BY <2>1, <2>2, <3>2, <4>1, <4>2
      <4>4. QED
        BY <2>1, <4>1, <4>2, <4>3
    <3>3. QED
      BY <3>1, <3>2
  <2>4. QED
    BY <2>1, <2>3 DEF ScopesStayOpen
<1>3. QED
  BY <1>1, <1>2, RuleSteps

LEMMA ClosedKeepClosed ==
  TypeOK /\ ClosedStayClosed /\ [Next]_vars => ClosedStayClosed'
<1> SUFFICES ASSUME TypeOK, ClosedStayClosed, [Next]_vars PROVE ClosedStayClosed'
  OBVIOUS
<1> DEFINE n == Len(thresholds)
           Safe(q, rows, left, count) ==
             work'[q].pc \in {"issued", "closed"} =>
               /\ work'[q].seen <= count
               /\ \A i \in left : i <= work'[q].seen /\ rows[i].scope = work'[q].scope => i \in work'[q].closes
               /\ \A i \in work'[q].closes : i \in 1 .. work'[q].seen /\ rows[i].scope = work'[q].scope
<1>1. n \in Nat /\ open \subseteq 1 .. n
  BY DEF TypeOK
<1>2. ASSUME NEW q \in People PROVE Safe(q, thresholds, open, n)
  <2>1. CASE work'[q] = work[q]
    BY <2>1 DEF ClosedStayClosed
  <2>2. CASE Fits(q, work'[q]) /\ UNCHANGED <<verdict, aliases, lastAlias, log, thresholds, open>>
    <3>1. CASE work'[q].pc = "issued"
      <4>1. /\ work'[q].seen = n
            /\ work'[q].closes = {i \in open : thresholds[i].scope = work'[q].scope}
        BY <2>2, <3>1 DEF Fits
      <4>2. \A i \in open : thresholds[i].scope = work'[q].scope => i \in work'[q].closes
        BY <4>1
      <4>3. \A i \in work'[q].closes : i \in open /\ thresholds[i].scope = work'[q].scope
        BY <4>1
      <4>4. \A i \in work'[q].closes : i \in 1 .. work'[q].seen
        BY <1>1, <4>1, <4>3
      <4>5. work'[q].seen <= n
        BY <1>1, <4>1
      <4>6. QED
        BY <4>2, <4>3, <4>4, <4>5
    <3>2. CASE work'[q].pc = "closed"
      BY <2>2, <3>2 DEF Fits, ClosedStayClosed
    <3>3. QED
      BY <3>1, <3>2
  <2>3. CASE work'[q].pc \in {"idle", "tell"}
    BY <2>3
  <2>4. QED
    BY <2>1, <2>2, <2>3, UnderWay
<1>3. CASE UNCHANGED <<thresholds, open>>
  BY <1>2, <1>3 DEF ClosedStayClosed
<1>4. ASSUME NEW p \in People, CommitApply(p) PROVE ClosedStayClosed'
  <2>1. /\ n \in Nat /\ Len(thresholds') = n + 1
        /\ \A i \in 1 .. n : thresholds'[i] = thresholds[i]
        /\ thresholds'[n + 1].scope = work[p].scope /\ thresholds'[n + 1].seen = work[p].seen
        /\ open' = (open \ work[p].closes) \cup {n + 1}
        /\ work[p].pc = "closed" /\ work[p].seen \in Nat
    BY <1>4, Applying
  <2>2. /\ work[p].seen <= n
        /\ \A i \in open : i <= work[p].seen /\ thresholds[i].scope = work[p].scope => i \in work[p].closes
    BY <2>1 DEF ClosedStayClosed
  <2>3. \A j \in 1 .. n : /\ thresholds[j].seen \in Nat /\ thresholds[j].seen < j
                          /\ \A i \in open : thresholds[i].scope = thresholds[j].scope => i > thresholds[j].seen
    <3>1. DOMAIN thresholds = 1 .. n
      BY DEF TypeOK
    <3>2. QED
      BY <3>1, RowFields DEF ClosedStayClosed
  <2>4. ASSUME NEW q \in People PROVE Safe(q, thresholds', open', n + 1)
    <3>1. SUFFICES ASSUME work'[q].pc \in {"issued", "closed"}
                   PROVE  /\ work'[q].seen <= n + 1
                          /\ \A i \in open' : i <= work'[q].seen /\ thresholds'[i].scope = work'[q].scope
                                                => i \in work'[q].closes
                          /\ \A i \in work'[q].closes :
                               i \in 1 .. work'[q].seen /\ thresholds'[i].scope = work'[q].scope
      OBVIOUS
    <3>2. /\ work'[q].seen <= n
          /\ \A i \in open : i <= work'[q].seen /\ thresholds[i].scope = work'[q].scope => i \in work'[q].closes
          /\ \A i \in work'[q].closes : i \in 1 .. work'[q].seen /\ thresholds[i].scope = work'[q].scope
      BY <1>2, <3>1
    <3>3. work' \in [People -> Jobs]
      BY <1>4, IdleIsJob, Working DEF CommitApply, Ends
    <3>4. work'[q].seen \in Nat
      BY <3>1, <3>3 DEF Jobs, Idle
    <3>5. QED
      BY <1>1, <2>1, <3>2, <3>4
  <2>5. ASSUME NEW j \in 1 .. n + 1
        PROVE  /\ thresholds'[j].seen < j
               /\ \A i \in open' : thresholds'[i].scope = thresholds'[j].scope => i > thresholds'[j].seen
    <3>1. CASE j \in 1 .. n
      BY <1>1, <2>1, <2>3, <3>1
    <3>2. CASE j = n + 1
      BY <1>1, <2>1, <2>2, <3>2
    <3>3. QED
      BY <1>1, <3>1, <3>2
  <2>6. QED
    BY <2>1, <2>4, <2>5 DEF ClosedStayClosed
<1>5. QED
  BY <1>3, <1>4, RuleSteps

\* A set of numbers that is not empty has a least one.
LEMMA LeastOf ==
  ASSUME NEW S, S \subseteq Nat, S # {}
  PROVE  \E x \in S : \A y \in S : x <= y
<1> DEFINE Less == OpToRel(<, Nat)
<1>1. IsWellFoundedOn(Less, Nat)
  BY NatLessThanWellFounded
<1>2. \A x, y \in Nat : x < y => <<x, y>> \in Less
  BY DEF OpToRel
<1> HIDE DEF Less
<1>3. PICK x \in S : \A y \in S : ~ (<<y, x>> \in Less)
  BY <1>1, WFMin
<1>4. \A y \in S : ~ (y < x)
  BY <1>2, <1>3, Zenon
<1>5. QED
  BY <1>4

\* If rows are in force for a document, one goes before all of them.
LEMMA SomethingInForce ==
  ASSUME TypeOK, NEW c, NEW t, NEW r \in open, Concerns(thresholds[r], c, t)
  PROVE  InForce(c, t) # {}
<1> DEFINE rows == {i \in open : Concerns(thresholds[i], c, t)}
           weight(i) == Weight(thresholds[i].scope)
           from(i) == thresholds[i].validFrom
           narrow == {3 - weight(i) : i \in rows}
<1>1. \A i \in rows : weight(i) \in 0 .. 3
  BY DEF Weight
<1>2. \A i \in rows : from(i) \in 0 .. MaxWorks
  BY RowFields DEF TypeOK
<1> HIDE DEF weight, from
<1>3. narrow \subseteq Nat /\ narrow # {}
  BY <1>1
<1>4. PICK w \in rows : \A i \in rows : 3 - weight(w) <= 3 - weight(i)
  <2>1. PICK x \in narrow : \A y \in narrow : x <= y
    BY <1>3, LeastOf
  <2>2. PICK w \in rows : x = 3 - weight(w)
    BY <2>1
  <2>3. \A i \in rows : x <= 3 - weight(i)
    BY <2>1
  <2>4. QED
    BY <2>2, <2>3
<1> DEFINE narrowest == {i \in rows : weight(i) = weight(w)}
           late == {MaxWorks - from(i) : i \in narrowest}
<1>5. late \subseteq Nat /\ late # {}
  BY <1>2, BoundsAreCounts
<1>6. PICK f \in narrowest : \A i \in narrowest : MaxWorks - from(f) <= MaxWorks - from(i)
  <2>1. PICK x \in late : \A y \in late : x <= y
    BY <1>5, LeastOf
  <2>2. PICK f \in narrowest : x = MaxWorks - from(f)
    BY <2>1
  <2>3. \A i \in narrowest : x <= MaxWorks - from(i)
    BY <2>1
  <2>4. QED
    BY <2>2, <2>3
<1>7. \A i \in rows : weight(f) > weight(i) \/ (weight(f) = weight(i) /\ from(f) >= from(i))
  BY <1>1, <1>2, <1>4, <1>6, BoundsAreCounts
<1>8. \A i \in rows : Before(thresholds[f], thresholds[i])
  BY <1>7 DEF Before, weight, from
<1>9. QED
  BY <1>8 DEF InForce

LEMMA LatestFollows ==
  TypeOK /\ ClosedStayClosed /\ ScopesStayOpen => LatestIsInForce
<1> SUFFICES ASSUME TypeOK, ClosedStayClosed, ScopesStayOpen,
                    NEW c \in Clients, NEW t \in Types, NEW j \in DOMAIN thresholds,
                    Concerns(thresholds[j], c, t)
             PROVE  /\ InForce(c, t) # {}
                    /\ \A i \in InForce(c, t) :
                         /\ Weight(thresholds[i].scope) >= Weight(thresholds[j].scope)
                         /\ thresholds[i].scope = thresholds[j].scope => i > thresholds[j].seen
  BY DEF LatestIsInForce
<1>1. j \in 1 .. Len(thresholds)
  BY DEF TypeOK
<1>2. PICK r \in open : thresholds[r].scope = thresholds[j].scope
  BY <1>1 DEF ScopesStayOpen
<1>3. Concerns(thresholds[r], c, t)
  BY <1>2 DEF Concerns
<1>4. InForce(c, t) # {}
  BY <1>3, SomethingInForce
<1>5. ASSUME NEW i \in InForce(c, t)
      PROVE  Weight(thresholds[i].scope) >= Weight(thresholds[j].scope)
  <2>1. Before(thresholds[i], thresholds[r])
    BY <1>3 DEF InForce
  <2>2. Weight(thresholds[i].scope) \in Nat /\ Weight(thresholds[r].scope) \in Nat
    BY DEF Weight
  <2>3. QED
    BY <1>2, <2>1, <2>2 DEF Before
<1>6. ASSUME NEW i \in InForce(c, t), thresholds[i].scope = thresholds[j].scope
      PROVE  i > thresholds[j].seen
  BY <1>1, <1>6 DEF InForce, ClosedStayClosed
<1>7. QED
  BY <1>4, <1>5, <1>6

-----------------------------------------------------------------------------
(* The specification.                                                      *)

LEMMA Initially ==
  Init => IndInv
<1> SUFFICES ASSUME Init PROVE IndInv
  OBVIOUS
<1>1. /\ aliases = {} /\ lastAlias = 0 /\ thresholds = <<>> /\ open = {}
      /\ work = [p \in People |-> Idle] /\ works = 0 /\ saves = 0
  BY DEF Init
<1>2. \A p \in People : work[p] = Idle /\ work[p].pc = "idle"
  BY <1>1 DEF Idle
<1>3. /\ verdict \in Rows /\ verdict.decision # "update" /\ log \in Seq(Entries) /\ VerdictIsTold
      /\ \A k \in 1 .. Len(log) : log[k].what = "save"
  <2>1. CASE verdict = NoVerdict /\ log = <<>>
    <3>1. verdict \in Rows /\ verdict.decision = "none"
      BY <2>1 DEF NoVerdict, Rows
    <3>2. log \in Seq(Entries) /\ Len(log) = 0
      BY <2>1
    <3>3. QED
      BY <2>1, <3>1, <3>2 DEF VerdictIsTold
  <2>2. ASSUME NEW partner \in Partners,
               verdict = InReview(partner), log = <<Saved("needs_review", partner)>>
        PROVE  /\ verdict \in Rows /\ verdict.decision # "update" /\ log \in Seq(Entries) /\ VerdictIsTold
               /\ \A k \in 1 .. Len(log) : log[k].what = "save"
    <3>1. /\ verdict \in Rows /\ verdict.decision = "needs_review"
          /\ verdict.partner = partner /\ verdict.by = None
      BY <2>2 DEF InReview, Rows, Verdicts
    <3> DEFINE entry == Saved("needs_review", partner)
    <3>2. /\ entry \in Entries /\ entry.what = "save"
          /\ entry.after.decision = "needs_review" /\ entry.after.partner = partner
      BY DEF Saved, Entries, Verdicts
    <3> HIDE DEF entry
    <3>3. log = <<entry>>
      BY <2>2 DEF entry
    <3>4. log \in Seq(Entries) /\ Len(log) = 1 /\ log[1] = entry
      BY <3>2, <3>3
    <3>5. IsLast(log, 1, States, 1)
      BY <3>2, <3>4 DEF IsLast
    <3>6. Tells(log, Len(log), verdict)
      BY <3>1, <3>2, <3>4, <3>5 DEF Tells
    <3>7. QED
      BY <3>1, <3>2, <3>4, <3>6 DEF VerdictIsTold
  <2>3. QED
    BY <2>1, <2>2 DEF Init
<1>4. TypeOK
  BY <1>1, <1>3, IdleIsJob, BoundsAreCounts DEF TypeOK
<1>5. BeforesAreTold /\ CorrectionsHavePartners
  BY <1>2, <1>3 DEF BeforesAreTold, CorrectionsHavePartners
<1>6. NumbersAreUnique
  BY <1>1, <1>2, <1>3 DEF NumbersAreUnique
<1>7. NamesAreAccounted
  BY <1>1, <1>3 DEF NamesAreAccounted
<1>8. ClosedStayClosed /\ ScopesStayOpen
  BY <1>1, <1>2 DEF ClosedStayClosed, ScopesStayOpen
<1>9. QED
  BY <1>3, <1>4, <1>5, <1>6, <1>7, <1>8 DEF IndInv

LEMMA Stays ==
  IndInv /\ [Next]_vars => IndInv'
  BY LogSteps, NameSteps, TypePreserved, BeforesStayTold, VerdictStaysTold, CorrectionsKeepPartners,
     NumbersStayUnique, NamesStayAccounted, ClosedKeepClosed, ScopesKeepOpen
  DEF IndInv

\* What Office keeps, whatever people and workers do in whatever order: the types, what the
\* log tells of the verdict and of decisions under way, who owns which number of a name,
\* and which thresholds may still be open.
THEOREM Invariance == Spec => []IndInv
<1>1. Init => IndInv
  BY Initially
<1>2. IndInv /\ [Next]_vars => IndInv'
  BY Stays
<1>3. QED
  BY <1>1, <1>2, PTL DEF Spec

\* Rows, names, thresholds and transactions have their types, and a correction has a partner.
THEOREM TypeCorrect == Spec => []TypeOK
<1>1. IndInv => TypeOK
  BY DEF IndInv
<1>2. QED
  BY <1>1, Invariance, PTL

LEMMA LogFollows ==
  TypeOK /\ BeforesAreTold /\ VerdictIsTold => LogTellsVerdicts
<1>1. TypeOK => DOMAIN log = 1 .. Len(log)
  BY DEF TypeOK
<1>2. QED
  BY <1>1 DEF BeforesAreTold, LogTellsVerdicts

\* The audit log's last row of a document tells the decision and the partner in force, the
\* last person it names is the decider in the row, whatever a worker saved after, and the
\* before of every decision is what the log told when the decision began (Store.Approve,
\* SaveResult, whose row has no actor).
THEOREM LogTells == Spec => []LogTellsVerdicts
<1>1. IndInv => LogTellsVerdicts
  BY LogFollows DEF IndInv
<1>2. QED
  BY <1>1, Invariance, PTL

\* Every name a decision taught is in the log, what the log says was learnt is there or was
\* forgotten later, and what it says was forgotten is gone (saveAlias, ForgetAlias).
THEOREM NamesAccounted == Spec => []NamesAreAccounted
<1>1. IndInv => NamesAreAccounted
  BY DEF IndInv
<1>2. QED
  BY <1>1, Invariance, PTL

\* For a document that a threshold was ever set for there is one in force, no wider than
\* any that was set, and never one that another application of its scope had closed
\* (ThresholdsController, CurrentThreshold).
THEOREM LatestInForce == Spec => []LatestIsInForce
<1>1. IndInv => LatestIsInForce
  BY LatestFollows DEF IndInv
<1>2. QED
  BY <1>1, Invariance, PTL
=============================================================================
