------------------------------ MODULE JobQueue ------------------------------
(***************************************************************************)
(* The waiting queue of documents and the workers that empty it.           *)
(*                                                                         *)
(* A document is uploaded together with its one job (store.CreateDocuments *)
(* is the only code that inserts jobs).  Workers claim jobs under a lease, *)
(* run the pipeline, and store the result in one transaction that is       *)
(* fenced by the lease; on an error they hand the job back or give up.     *)
(* People confirm or correct stored results.  All of them share the        *)
(* database rows below and nothing else.                                   *)
(*                                                                         *)
(* One step is one SQL statement or one transaction: between two steps     *)
(* any other process may run, and a worker may die.                        *)
(*                                                                         *)
(* Time is abstracted to what the queries ask of it: whether locked_until  *)
(* has passed (lease) and whether run_after has been reached (due).        *)
(***************************************************************************)
EXTENDS Integers, Sequences, FiniteSets

CONSTANTS
  Docs,         \* documents, each with its job (jobs.document_id)
  Workers,      \* worker IDs, unique among running workers (host/pid/seq)
  Users,        \* people who decide
  NoOne,        \* SQL NULL in locked_by and decided_by, and "no document"
  MaxAttempts,  \* jobs.max_attempts
  MaxStalls,    \* bound: what comes too late for a live holder: a renewal of its lease,
                \* or the answer to its commit
  MaxFaults,    \* bound: worker deaths and failure records lost to the database
  MaxDecisions  \* bound: decisions people take

ASSUME MaxAttemptsPositive == MaxAttempts \in Nat \ {0}
ASSUME BoundsAreNaturals   == {MaxStalls, MaxFaults, MaxDecisions} \subseteq Nat
ASSUME NoOneIsNobody       == NoOne \notin Workers \cup Users \cup Docs

VARIABLES
  \* table jobs
  status,    \* "none" before the upload, then the job's status
  attempts,
  lockedBy,
  lease,     \* locked_until: "null", in the future ("live") or past ("lapsed")
  due,       \* run_after <= now()
  progress,  \* stage and progress, which are always written together
  \* tables documents, match_results, audit_logs
  docStatus,
  result,
  audit,
  \* memory of the workers
  pc,        \* the stage a worker is in
  at,        \* the document it works on
  tried,     \* Job.Attempts as Claim returned it
  \* history and budgets
  lapses,    \* how often the lease of the document's job has lapsed
  stalls, faults, decisions

jobVars    == <<status, attempts, lockedBy, lease, due, progress>>
docVars    == <<docStatus, result, audit>>
workerVars == <<pc, at, tried>>
budgets    == <<lapses, stalls, faults, decisions>>
vars       == <<jobVars, docVars, workerVars, budgets>>

Stages   == {"claimed", "preprocess", "ocr", "match", "rematch", "decide"}
PercentPerPass   == [claimed |-> 0, preprocess |-> 10, ocr |-> 40, match |-> 70,
                     rematch |-> 110, decide |-> 90]

\* progress written when a stage begins; Claim resets it, finishJob completes it
Percent  == [claimed |-> 0, preprocess |-> 10, ocr |-> 40, match |-> 70, rematch |-> 70,
             decide |-> 90]
Finished == 100
Percentages == 0 .. Finished

MachineDecisions == {"auto_approve", "needs_review", "reject"}
HumanDecisions   == {"approve", "update", "reject"}
Decisions        == MachineDecisions \cup HumanDecisions
Verdict          == [decision : Decisions, by : Users \cup {NoOne}]
NoResult         == [decision |-> "none", by |-> NoOne]

TypeOK ==
  /\ status \in [Docs -> {"none", "waiting", "processing", "done", "gaveup"}]
  /\ attempts \in [Docs -> Nat]
  /\ lockedBy \in [Docs -> Workers \cup {NoOne}]
  /\ lease \in [Docs -> {"null", "live", "lapsed"}]
  /\ due \in [Docs -> BOOLEAN]
  /\ progress \in [Docs -> Percentages]
  /\ docStatus \in [Docs -> {"none", "received", "matched", "confirmed", "error"}]
  /\ result \in [Docs -> Verdict \cup {NoResult}]
  /\ audit \in [Docs -> Seq(Verdict)]
  /\ pc \in [Workers -> Stages \cup {"idle", "failing", "marking"}]
  /\ at \in [Workers -> Docs \cup {NoOne}]
  /\ tried \in [Workers -> Nat]
  /\ lapses \in [Docs -> Nat]
  /\ stalls \in Nat /\ faults \in Nat /\ decisions \in Nat

Init ==
  /\ status = [d \in Docs |-> "none"]
  /\ attempts = [d \in Docs |-> 0]
  /\ lockedBy = [d \in Docs |-> NoOne]
  /\ lease = [d \in Docs |-> "null"]
  /\ due = [d \in Docs |-> FALSE]
  /\ progress = [d \in Docs |-> 0]
  /\ docStatus = [d \in Docs |-> "none"]
  /\ result = [d \in Docs |-> NoResult]
  /\ audit = [d \in Docs |-> <<>>]
  /\ pc = [w \in Workers |-> "idle"]
  /\ at = [w \in Workers |-> NoOne]
  /\ tried = [w \in Workers |-> 0]
  /\ lapses = [d \in Docs |-> 0]
  /\ stalls = 0 /\ faults = 0 /\ decisions = 0

-----------------------------------------------------------------------------
(* Upload and the clock                                                    *)

\* CreateDocuments: every document of a batch, its page and its job, or none.
Upload(batch) ==
  /\ batch # {}
  /\ \A d \in batch : status[d] = "none"
  /\ status' = [d \in Docs |-> IF d \in batch THEN "waiting" ELSE status[d]]
  /\ due' = [d \in Docs |-> d \in batch \/ due[d]]
  /\ docStatus' = [d \in Docs |-> IF d \in batch THEN "received" ELSE docStatus[d]]
  /\ UNCHANGED <<attempts, lockedBy, lease, progress, result, audit, workerVars, budgets>>

\* The back-off that Fail asked for is over.
BackoffEnds(d) ==
  /\ status[d] # "none" /\ ~due[d]
  /\ due' = [due EXCEPT ![d] = TRUE]
  /\ UNCHANGED <<status, attempts, lockedBy, lease, progress, docVars, workerVars, budgets>>

WorksOn(w, d) == pc[w] # "idle" /\ at[w] = d

Orphaned(d) == \A w \in Workers : lockedBy[d] = w => ~WorksOn(w, d)

LeaseRunsOut(d) ==
  /\ status[d] = "processing" /\ lease[d] = "live"
  /\ lease' = [lease EXCEPT ![d] = "lapsed"]
  /\ lapses' = [lapses EXCEPT ![d] = @ + 1]
  /\ UNCHANGED <<status, attempts, lockedBy, due, progress, docVars, workerVars,
                 faults, decisions>>

\* Nobody renews the lease of a worker that died.
OrphanLapses(d) ==
  /\ Orphaned(d)
  /\ LeaseRunsOut(d)
  /\ UNCHANGED stalls

\* The holder is alive, but its renewals come too late (a slow database, a
\* suspended process): the case finishJob's comment describes.
HolderStalls(d) ==
  /\ ~Orphaned(d)
  /\ stalls < MaxStalls
  /\ stalls' = stalls + 1
  /\ LeaseRunsOut(d)

-----------------------------------------------------------------------------
(* The worker                                                              *)

ClaimableUnderLease(d) == due[d] /\ status[d] \in {"waiting", "processing"}
ClaimableWhenDone(d)   == due[d] /\ (status[d] \in {"waiting", "done"} \/ lease[d] = "lapsed")
ClaimableOnce(d)       == due[d] /\ status[d] = "waiting"

\* A free job, or one whose holder let its lease lapse.
Claimable(d) ==
  /\ due[d]
  /\ status[d] = "waiting" \/ (status[d] = "processing" /\ lease[d] = "lapsed")

\* Claim.  The query takes the oldest due job; which one that is depends on the
\* clock, so any claimable job may be it.
Claim(w, d) ==
  /\ pc[w] = "idle"
  /\ Claimable(d)
  /\ status' = [status EXCEPT ![d] = "processing"]
  /\ attempts' = [attempts EXCEPT ![d] = @ + 1]
  /\ lockedBy' = [lockedBy EXCEPT ![d] = w]
  /\ lease' = [lease EXCEPT ![d] = "live"]
  /\ progress' = [progress EXCEPT ![d] = 0]
  /\ pc' = [pc EXCEPT ![w] = "claimed"]
  /\ at' = [at EXCEPT ![w] = d]
  /\ tried' = [tried EXCEPT ![w] = attempts[d] + 1]
  /\ UNCHANGED <<due, docVars, budgets>>

\* The order in which process and the pipeline reach the stages; without candidates
\* the preprocessed image is read and matched as well, once.
NextStage(stage) ==
  CASE stage = "claimed"    -> {"preprocess"}
    [] stage = "preprocess" -> {"ocr"}
    [] stage = "ocr"        -> {"match"}
    [] stage = "match"      -> {"rematch", "decide"}
    [] stage = "rematch"    -> {"decide"}
    [] OTHER                -> {}

\* beat -> Heartbeat: stage, progress and lease of the job row, whoever holds it.
Heartbeat(d, stage) ==
  /\ progress' = [progress EXCEPT ![d] = Percent[stage]]
  /\ lease' = [lease EXCEPT ![d] = "live"]

\* The next stage begins; a heartbeat that fails is only logged.
Advance(w, stage) ==
  /\ pc[w] \in Stages
  /\ stage \in NextStage(pc[w])
  /\ pc' = [pc EXCEPT ![w] = stage]
  /\ Heartbeat(at[w], stage) \/ UNCHANGED <<progress, lease>>
  /\ UNCHANGED <<status, attempts, lockedBy, due, docVars, at, tried, budgets>>

\* Touch, called by the renewal goroutine for as long as process runs.
Touch(w) ==
  /\ pc[w] \in Stages
  /\ lockedBy[at[w]] = w
  /\ lease' = [lease EXCEPT ![at[w]] = "live"]
  /\ UNCHANGED <<status, attempts, lockedBy, due, progress, docVars, workerVars, budgets>>

\* finishJob and Fail end the holder's right to the row.
Release(d, new) ==
  /\ status' = [status EXCEPT ![d] = new]
  /\ lockedBy' = [lockedBy EXCEPT ![d] = NoOne]
  /\ lease' = [lease EXCEPT ![d] = "null"]

ToIdle(w) ==
  /\ pc' = [pc EXCEPT ![w] = "idle"]
  /\ at' = [at EXCEPT ![w] = NoOne]
  /\ tried' = [tried EXCEPT ![w] = 0]

\* What the pipeline can conclude: without a name there is no match and the
\* document goes to a person.
Concludes(w, decision) ==
  \/ pc[w] = "ocr" /\ decision = "needs_review"
  \/ pc[w] = "decide" /\ decision \in MachineDecisions

\* CHECK match_results_review_no_actor: the upsert leaves decided_by alone.
Storable(d, decision) == decision = "needs_review" => result[d].by = NoOne

UpsertedAnew(d, decision) == [decision |-> decision, by |-> NoOne]

\* The upsert of match_results in SaveResult sets decision, not decided_by.
Upserted(d, decision) == [decision |-> decision, by |-> result[d].by]

ConfirmedUnlessReview(decision) == IF decision = "needs_review" THEN "matched" ELSE "confirmed"

StatusAfterSave(decision) == IF decision = "auto_approve" THEN "confirmed" ELSE "matched"

StillProcessed(w) == status[at[w]] = "processing"

\* SELECT locked_by ... FOR UPDATE at the start, finishJob's WHERE at the end.
StillHolds(w) == status[at[w]] = "processing" /\ lockedBy[at[w]] = w

\* The server has committed, but the answer is lost: Once takes it for a failure.
CommitUnheard(w) ==
  /\ stalls < MaxStalls
  /\ stalls' = stalls + 1
  /\ pc' = [pc EXCEPT ![w] = "failing"]
  /\ UNCHANGED <<at, tried>>

\* SaveResult with its commit: result, document, audit row and job together.
SaveResult(w, decision) ==
  LET d == at[w] IN
  /\ Concludes(w, decision)
  /\ StillHolds(w)
  /\ Storable(d, decision)
  /\ result' = [result EXCEPT ![d] = Upserted(d, decision)]
  /\ docStatus' = [docStatus EXCEPT ![d] = StatusAfterSave(decision)]
  /\ audit' = [audit EXCEPT ![d] = Append(@, [decision |-> decision, by |-> NoOne])]
  /\ Release(d, "done")
  /\ progress' = [progress EXCEPT ![d] = Finished]
  /\ (ToIdle(w) /\ UNCHANGED stalls) \/ CommitUnheard(w)
  /\ UNCHANGED <<attempts, due, lapses, faults, decisions>>

\* ErrLostJob: the work is thrown away and Once returns without calling Fail.
DropLostJob(w) ==
  /\ \E decision \in MachineDecisions : Concludes(w, decision)
  /\ ~StillHolds(w)
  /\ ToIdle(w)
  /\ UNCHANGED <<jobVars, docVars, budgets>>

\* Any other error: the threshold, a stage of the pipeline, or a statement of
\* SaveResult, a violated CHECK among them.  Its transaction is rolled back.
ProcessFails(w) ==
  /\ pc[w] \in Stages
  /\ pc' = [pc EXCEPT ![w] = "failing"]
  /\ UNCHANGED <<jobVars, docVars, at, tried, budgets>>

ExhaustedLate(d) == attempts[d] > MaxAttempts

Exhausted(d) == attempts[d] >= MaxAttempts

AfterFailHolding(d) == IF Exhausted(d) THEN "gaveup" ELSE "processing"

AfterFail(d) == IF Exhausted(d) THEN "gaveup" ELSE "waiting"

\* Fail: by job id only, whoever holds the job by now.
Fail(w) ==
  LET d == at[w] IN
  /\ pc[w] = "failing"
  /\ Release(d, AfterFail(d))
  /\ due' = [due EXCEPT ![d] = FALSE]
  /\ IF AfterFail(d) = "gaveup" THEN pc' = [pc EXCEPT ![w] = "marking"] /\ UNCHANGED <<at, tried>>
                               ELSE ToIdle(w)
  /\ UNCHANGED <<attempts, progress, docVars, budgets>>

\* MarkDocumentError, a statement of its own after Fail has committed.
MarkDocumentError(w) ==
  /\ pc[w] = "marking"
  /\ docStatus' = [docStatus EXCEPT ![at[w]] = "error"]
  /\ ToIdle(w)
  /\ UNCHANGED <<jobVars, result, audit, budgets>>

\* A worker dies and is started again, or Fail or MarkDocumentError itself fails
\* and is only logged: in either case what it had in hand is gone.
Fault(w) ==
  /\ pc[w] # "idle"
  /\ faults < MaxFaults
  /\ faults' = faults + 1
  /\ ToIdle(w)
  /\ UNCHANGED <<jobVars, docVars, lapses, stalls, decisions>>

-----------------------------------------------------------------------------
(* People                                                                  *)

StatusAfterDecision(decision) == IF decision = "reject" THEN "error" ELSE "confirmed"

\* Approve: result, document and audit row in one transaction.
Approve(u, d, decision) ==
  /\ decisions < MaxDecisions
  /\ decisions' = decisions + 1
  /\ result[d] # NoResult
  /\ result' = [result EXCEPT ![d] = [decision |-> decision, by |-> u]]
  /\ docStatus' = [docStatus EXCEPT ![d] = StatusAfterDecision(decision)]
  /\ audit' = [audit EXCEPT ![d] = Append(@, [decision |-> decision, by |-> u])]
  /\ UNCHANGED <<jobVars, workerVars, lapses, stalls, faults>>

-----------------------------------------------------------------------------

WorkerStep(w) ==
  \/ \E stage \in Stages : Advance(w, stage)
  \/ \E decision \in MachineDecisions : SaveResult(w, decision)
  \/ DropLostJob(w)
  \/ ProcessFails(w)
  \/ Fail(w)
  \/ MarkDocumentError(w)

Next ==
  \/ \E batch \in SUBSET Docs : Upload(batch)
  \/ \E d \in Docs : BackoffEnds(d) \/ OrphanLapses(d) \/ HolderStalls(d)
  \/ \E w \in Workers, d \in Docs : Claim(w, d)
  \/ \E w \in Workers : WorkerStep(w) \/ Touch(w) \/ Fault(w)
  \/ \E u \in Users, d \in Docs, decision \in HumanDecisions : Approve(u, d, decision)

Spec == Init /\ [][Next]_vars

\* Every stage of a worker ends (each call of the C++ programs has a time limit),
\* sleeping workers poll, the clock advances.  Claim takes the oldest due job, so
\* a job that is due again and again is taken: strong fairness for each job.
Fairness ==
  /\ \A w \in Workers : WF_vars(WorkerStep(w))
  /\ \A d \in Docs : WF_vars(BackoffEnds(d)) /\ WF_vars(OrphanLapses(d))
  /\ \A d \in Docs : SF_vars(\E w \in Workers : Claim(w, d))

FairSpec == Spec /\ Fairness

-----------------------------------------------------------------------------
(* What holds however late renewals come and however often workers die.    *)

\* A job row is locked exactly while it is being processed, so that Claim can
\* tell a dead worker's job (past locked_until) from a free one.
LockedIffProcessing ==
  \A d \in Docs : lockedBy[d] # NoOne <=> status[d] = "processing"

\* Retrying ends: a job is tried max_attempts times, and once more only for each
\* time its lease lapsed.  A job that waits always has an attempt left.
AttemptsBounded ==
  \A d \in Docs :
    /\ attempts[d] <= MaxAttempts + lapses[d]
    /\ status[d] = "waiting" => attempts[d] < MaxAttempts

\* Whether u is the last person the rows name, NoOne when they name nobody.
LastPerson(rows, u) ==
  IF u = NoOne THEN \A i \in DOMAIN rows : rows[i].by = NoOne
  ELSE \E i \in DOMAIN rows :
         rows[i].by = u /\ \A j \in DOMAIN rows : j > i => rows[j].by = NoOne

\* SaveResult and Approve commit result and audit row together: the last audit row of a
\* document names the decision in force.  The decider in the result need not be the one
\* of that row, because the machine's row has no actor and its upsert leaves decided_by
\* alone: it is the last person the rows name.
DecisionAccounted ==
  \A d \in Docs :
    IF result[d] = NoResult THEN audit[d] = <<>>
    ELSE /\ audit[d] # <<>>
         /\ audit[d][Len(audit[d])].decision = result[d].decision
         /\ LastPerson(audit[d], result[d].by)

\* The status a document is shown with once the audit row has been written.
CalledFor(row) ==
  IF row.by = NoOne THEN IF row.decision = "auto_approve" THEN "confirmed" ELSE "matched"
  ELSE IF row.decision = "reject" THEN "error" ELSE "confirmed"

\* A document is shown as the last audit row calls for, as received while there is none.
\* The one exception is a document whose job was given up: MarkDocumentError shows it as
\* failed whatever was decided, also when the Fail that gave it up came from a worker
\* whose job another one had completed.
StatusTellsDecision ==
  \A d \in Docs :
    \/ docStatus[d] =
         IF audit[d] # <<>> THEN CalledFor(audit[d][Len(audit[d])])
         ELSE IF status[d] = "none" THEN "none" ELSE "received"
    \/ docStatus[d] = "error" /\ status[d] = "gaveup"

\* What EveryJobEnds rests on, in every single state: a job that is neither done nor given
\* up waits for the end of its back-off, can be claimed, is worked on by the holder of its
\* row, or its holder is gone and the lease runs out.  No row says "processing" for nobody.
NoJobIsForgotten ==
  \A d \in Docs : status[d] \in {"waiting", "processing"} =>
    \/ ~due[d]
    \/ Claimable(d)
    \/ \E w \in Workers : lockedBy[d] = w /\ WorksOn(w, d)
    \/ Orphaned(d) /\ lease[d] = "live"

\* A finished job has left its result behind: no crash between the two.
DoneHasResult == \A d \in Docs : status[d] = "done" => result[d] # NoResult

\* The fence of SaveResult: a job is completed only by the worker that claimed it
\* last, never by one whose job was meanwhile claimed again.
CompletedByLastClaimer ==
  [][\A d \in Docs :
       status[d] # "done" /\ status'[d] = "done"
       => \E w \in Workers : /\ pc[w] \in Stages /\ at[w] = d /\ tried[w] = attempts[d]
                             /\ pc'[w] \notin Stages]_vars

\* With the fairness above, every job that was submitted ends for good, completed or
\* given up, after any finite number of stalls and deaths.
EveryJobEnds == \A d \in Docs : <>[](status[d] \in {"none", "done", "gaveup"})

-----------------------------------------------------------------------------
(* What holds while nothing comes too late for a live holder: no lease     *)
(* lapses under it, and it hears of its commit (MaxStalls = 0).            *)

\* "However many workers there are, no two process the same document."
OneWorkerPerDoc ==
  \A v, w \in Workers : \A d \in Docs : WorksOn(v, d) /\ WorksOn(w, d) => v = w

\* A completed job is never put back into the queue.
DoneStaysDone == [][\A d \in Docs : status[d] = "done" => status'[d] = "done"]_vars

\* The machine never replaces what a person decided.
HumanDecisionKept ==
  [][\A d \in Docs : result[d].by # NoOne =>
       result'[d].by # NoOne /\ result'[d].decision \in HumanDecisions]_vars

Phase(d) ==
  CASE status[d] = "none"   -> "absent"
    [] status[d] = "done"   -> "judged"
    [] status[d] = "gaveup" -> "abandoned"
    [] OTHER                -> "queued"

Promise == INSTANCE DocumentPromise WITH phase <- [d \in Docs |-> Phase(d)], verdict <- result

\* The queue with its leases, retries, deaths and hand-backs implements what
\* DocumentPromise says: one machine verdict per document or none, then only people.
PromiseKept == Promise!Spec

-----------------------------------------------------------------------------
(* The inductive invariant of the proofs in JobQueueProofs.                *)

\* An idle worker has nothing in hand, a busy one has a document.
HandsOn == \A w \in Workers : pc[w] = "idle" <=> at[w] = NoOne

\* A lapsed lease has been counted, but not yet answered by a further attempt.
LapseBuysAttempt ==
  \A d \in Docs :
    status[d] = "processing" /\ lease[d] = "lapsed" => attempts[d] < MaxAttempts + lapses[d]

\* What is processed has a lease that can run out.
LeasedWhileProcessing == \A d \in Docs : status[d] = "processing" => lease[d] # "null"

\* Whoever holds the row remembers the attempt the row counts.
HolderKnowsAttempt ==
  \A w \in Workers : pc[w] # "idle" /\ lockedBy[at[w]] = w => tried[w] = attempts[at[w]]

\* Before its upload nothing has happened to a document, and no worker has it.
FreshBeforeUpload ==
  /\ \A d \in Docs : status[d] = "none" =>
       result[d] = NoResult /\ docStatus[d] = "none" /\ attempts[d] = 0
  /\ \A w \in Workers : pc[w] # "idle" => status[at[w]] # "none"

\* Only exhausted jobs are given up, so no later Fail queues them again, and who is about
\* to mark a document has given its job up.
GivenUpForGood ==
  /\ \A d \in Docs : status[d] = "gaveup" => attempts[d] >= MaxAttempts
  /\ \A w \in Workers : pc[w] = "marking" => status[at[w]] = "gaveup"

IndInv ==
  /\ TypeOK
  /\ HandsOn
  /\ LockedIffProcessing /\ LeasedWhileProcessing
  /\ AttemptsBounded /\ LapseBuysAttempt
  /\ HolderKnowsAttempt
  /\ FreshBeforeUpload
  /\ GivenUpForGood
  /\ StatusTellsDecision
  /\ DecisionAccounted
  /\ DoneHasResult

\* The same for MaxStalls = 0.  Who processes a document holds its row, a lease lapses
\* only when nobody does, and what has a result is done: nobody else is ever let in.
SteadyInv ==
  /\ \A w \in Workers : pc[w] \in Stages \cup {"failing"} => lockedBy[at[w]] = w
  /\ OneWorkerPerDoc
  /\ \A d \in Docs :
       /\ lease[d] = "lapsed" => Orphaned(d)
       /\ result[d] # NoResult => status[d] = "done"
       /\ result[d].by # NoOne => result[d].decision \in HumanDecisions
=============================================================================
