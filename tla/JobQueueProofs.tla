--------------------------- MODULE JobQueueProofs ---------------------------
(***************************************************************************)
(* Proofs about JobQueue for every number of documents, workers, people,   *)
(* attempts, stalls and faults.                                            *)
(***************************************************************************)
EXTENDS JobQueue, TLAPS

LEMMA TypeInit == Init => TypeOK
  <1>1. 0 \in Percentages
    BY DEF Percentages, Finished
  <1>2. <<>> \in Seq(Verdict)
    OBVIOUS
  <1> QED
    BY <1>1, <1>2 DEF Init, TypeOK

LEMMA WorkerStepType ==
  ASSUME TypeOK, HandsOn, NEW w \in Workers, WorkerStep(w)
  PROVE  TypeOK'
  <1>0. pc[w] # "idle" => at[w] \in Docs
    BY DEF TypeOK, HandsOn
  <1>1. ASSUME NEW stage \in Stages, Advance(w, stage) PROVE TypeOK'
    <2>1. at[w] \in Docs /\ Percent[stage] \in Percentages
      BY <1>0, <1>1 DEF Advance, Percent, Percentages, Finished, Stages
    <2>2. progress' \in [Docs -> Percentages] /\ lease' \in [Docs -> {"null", "live", "lapsed"}]
      BY <1>1, <2>1 DEF Advance, Heartbeat, TypeOK
    <2> QED
      BY <1>1, <2>2 DEF Advance, TypeOK, docVars, budgets
  <1>2. ASSUME NEW decision \in MachineDecisions, SaveResult(w, decision) PROVE TypeOK'
    <2>1. at[w] \in Docs /\ pc[w] \in Stages
      BY <1>0, <1>2 DEF SaveResult, Concludes, Stages
    <2>2. Upserted(at[w], decision) \in Verdict /\ [decision |-> decision, by |-> NoOne] \in Verdict
      BY <2>1 DEF Upserted, Verdict, NoResult, TypeOK, Decisions
    <2>3. Finished \in Percentages
      BY DEF Percentages, Finished
    <2>4. /\ pc' \in [Workers -> Stages \cup {"idle", "failing", "marking"}]
          /\ at' \in [Workers -> Docs \cup {NoOne}]
          /\ tried' \in [Workers -> Nat] /\ stalls' \in Nat
      <3>1. CASE ToIdle(w) /\ UNCHANGED stalls
        BY <3>1 DEF ToIdle, TypeOK
      <3>2. CASE CommitUnheard(w)
        BY <3>2 DEF CommitUnheard, TypeOK
      <3> QED
        BY <1>2, <3>1, <3>2 DEF SaveResult
    <2> QED
      BY <1>2, <2>1, <2>2, <2>3, <2>4 DEF SaveResult, Release, StatusAfterSave, TypeOK
  <1>3. CASE DropLostJob(w)
    BY <1>3 DEF DropLostJob, ToIdle, TypeOK, jobVars, docVars, budgets
  <1>4. CASE ProcessFails(w)
    BY <1>4 DEF ProcessFails, TypeOK, jobVars, docVars, budgets
  <1>5. CASE Fail(w)
    <2>1. at[w] \in Docs
      BY <1>0, <1>5 DEF Fail
    <2>2. /\ pc' \in [Workers -> Stages \cup {"idle", "failing", "marking"}]
          /\ at' \in [Workers -> Docs \cup {NoOne}]
          /\ tried' \in [Workers -> Nat]
      <3>1. CASE AfterFail(at[w]) = "gaveup"
        BY <1>5, <3>1 DEF Fail, TypeOK
      <3>2. CASE AfterFail(at[w]) # "gaveup"
        <4>1. ToIdle(w)
          BY <1>5, <3>2 DEF Fail
        <4> QED BY <4>1 DEF ToIdle, TypeOK
      <3> QED BY <3>1, <3>2
    <2>3. status' \in [Docs -> {"none", "waiting", "processing", "done", "gaveup"}]
      BY <1>5, <2>1 DEF Fail, Release, AfterFail, TypeOK
    <2>4. /\ due' \in [Docs -> BOOLEAN]
          /\ lockedBy' \in [Docs -> Workers \cup {NoOne}]
          /\ lease' \in [Docs -> {"null", "live", "lapsed"}]
      <3>1. /\ due' = [due EXCEPT ![at[w]] = FALSE]
            /\ lockedBy' = [lockedBy EXCEPT ![at[w]] = NoOne]
            /\ lease' = [lease EXCEPT ![at[w]] = "null"]
        BY <1>5 DEF Fail, Release
      <3> QED BY <2>1, <3>1 DEF TypeOK
    <2>5. UNCHANGED <<attempts, progress, docVars, budgets>>
      BY <1>5 DEF Fail
    <2> QED
      BY <2>2, <2>3, <2>4, <2>5 DEF TypeOK, docVars, budgets
  <1>6. CASE MarkDocumentError(w)
    BY <1>0, <1>6 DEF MarkDocumentError, ToIdle, TypeOK, jobVars, budgets
  <1> QED
    BY <1>1, <1>2, <1>3, <1>4, <1>5, <1>6 DEF WorkerStep

LEMMA TypeStep == TypeOK /\ HandsOn /\ [Next]_vars => TypeOK'
  <1> SUFFICES ASSUME TypeOK, HandsOn, [Next]_vars PROVE TypeOK'
    OBVIOUS
  <1>1. ASSUME NEW batch \in SUBSET Docs, Upload(batch) PROVE TypeOK'
    BY <1>1 DEF Upload, TypeOK, workerVars, budgets
  <1>2. ASSUME NEW d \in Docs, BackoffEnds(d) PROVE TypeOK'
    BY <1>2 DEF BackoffEnds, TypeOK, docVars, workerVars, budgets
  <1>3. ASSUME NEW d \in Docs, OrphanLapses(d) \/ HolderStalls(d) PROVE TypeOK'
    <2>1. LeaseRunsOut(d) /\ stalls' \in Nat
      BY <1>3 DEF OrphanLapses, HolderStalls, TypeOK
    <2> QED
      BY <2>1 DEF LeaseRunsOut, TypeOK, docVars, workerVars
  <1>4. ASSUME NEW w \in Workers, NEW d \in Docs, Claim(w, d) PROVE TypeOK'
    <2>1. 0 \in Percentages /\ "claimed" \in Stages
      BY DEF Percentages, Finished, Stages
    <2> QED
      BY <1>4, <2>1 DEF Claim, TypeOK, docVars, budgets
  <1>5. ASSUME NEW w \in Workers, WorkerStep(w) PROVE TypeOK'
    BY <1>5, WorkerStepType
  <1>6. ASSUME NEW w \in Workers, Touch(w) PROVE TypeOK'
    BY <1>6 DEF Touch, TypeOK, docVars, workerVars, budgets
  <1>7. ASSUME NEW w \in Workers, Fault(w) PROVE TypeOK'
    BY <1>7 DEF Fault, ToIdle, TypeOK, jobVars, docVars
  <1>8. ASSUME NEW u \in Users, NEW d \in Docs, NEW decision \in HumanDecisions,
               Approve(u, d, decision)
        PROVE  TypeOK'
    <2>1. [decision |-> decision, by |-> u] \in Verdict
      BY DEF Verdict, Decisions
    <2> QED
      BY <1>8, <2>1 DEF Approve, StatusAfterDecision, TypeOK, jobVars, workerVars
  <1>9. CASE UNCHANGED vars
    BY <1>9 DEF TypeOK, vars, jobVars, docVars, workerVars, budgets
  <1> QED
    BY <1>1, <1>2, <1>3, <1>4, <1>5, <1>6, <1>7, <1>8, <1>9 DEF Next

LEMMA HandsOnStep == TypeOK /\ HandsOn /\ [Next]_vars => HandsOn'
  <1> SUFFICES ASSUME TypeOK, HandsOn, [Next]_vars PROVE HandsOn'
    OBVIOUS
  <1> USE NoOneIsNobody DEF HandsOn
  <1>1. ASSUME NEW w \in Workers, NEW d \in Docs, Claim(w, d) PROVE HandsOn'
    BY <1>1 DEF Claim, TypeOK
  <1>2. ASSUME NEW w \in Workers, ToIdle(w) PROVE HandsOn'
    BY <1>2 DEF ToIdle, TypeOK
  <1>3. ASSUME NEW w \in Workers, NEW new \in Stages \cup {"failing", "marking"},
               pc[w] # "idle", pc' = [pc EXCEPT ![w] = new], UNCHANGED at
        PROVE  HandsOn'
    BY <1>3 DEF TypeOK, Stages
  <1>4. ASSUME NEW w \in Workers, WorkerStep(w) PROVE HandsOn'
    <2>1. ASSUME NEW stage \in Stages, Advance(w, stage) PROVE HandsOn'
      BY <1>3, <2>1 DEF Advance, Stages
    <2>2. CASE Fail(w)
      <3>1. ToIdle(w) \/ (pc[w] # "idle" /\ pc' = [pc EXCEPT ![w] = "marking"] /\ UNCHANGED at)
        BY <2>2 DEF Fail
      <3> QED
        BY <1>2, <1>3, <3>1
    <2>3. CASE ProcessFails(w)
      BY <1>3, <2>3 DEF ProcessFails, Stages
    <2>4. ASSUME NEW decision \in MachineDecisions, SaveResult(w, decision) PROVE HandsOn'
      BY <1>2, <1>3, <2>4 DEF SaveResult, Concludes, CommitUnheard
    <2> QED
      BY <1>2, <1>4, <2>1, <2>2, <2>3, <2>4 DEF WorkerStep, DropLostJob, MarkDocumentError
  <1>5. ASSUME NEW w \in Workers, Touch(w) \/ Fault(w) PROVE HandsOn'
    BY <1>2, <1>5 DEF Touch, Fault, workerVars
  <1>6. CASE UNCHANGED workerVars
    BY <1>6 DEF workerVars
  <1>7. ASSUME NEW d \in Docs, BackoffEnds(d) \/ OrphanLapses(d) \/ HolderStalls(d)
        PROVE  UNCHANGED workerVars
    BY <1>7 DEF BackoffEnds, OrphanLapses, HolderStalls, LeaseRunsOut
  <1>8. ASSUME NEW batch \in SUBSET Docs, Upload(batch) PROVE UNCHANGED workerVars
    BY <1>8 DEF Upload
  <1>9. ASSUME NEW u \in Users, NEW d \in Docs, NEW decision \in HumanDecisions,
               Approve(u, d, decision)
        PROVE  UNCHANGED workerVars
    BY <1>9 DEF Approve
  <1> QED
    BY <1>1, <1>4, <1>5, <1>6, <1>7, <1>8, <1>9 DEF Next, vars

(* Every value keeps its type, whatever the constants are. *)
THEOREM TypeCorrect == Spec => [](TypeOK /\ HandsOn)
  <1>1. Init => TypeOK /\ HandsOn
    BY TypeInit DEF Init, HandsOn
  <1>2. TypeOK /\ HandsOn /\ [Next]_vars => (TypeOK /\ HandsOn)'
    BY TypeStep, HandsOnStep
  <1> QED
    BY <1>1, <1>2, PTL DEF Spec

-----------------------------------------------------------------------------
(* Which steps touch what.                                                 *)

\* The four statements that change who holds a job, and how often it was tried.
LEMMA JobSteps ==
  ASSUME [Next]_vars
  PROVE  \/ \E batch \in SUBSET Docs : Upload(batch)
         \/ \E w \in Workers, d \in Docs : Claim(w, d)
         \/ \E w \in Workers, decision \in MachineDecisions : SaveResult(w, decision)
         \/ \E w \in Workers : Fail(w)
         \/ UNCHANGED <<status, attempts, lockedBy>>
  <1>1. ASSUME NEW d \in Docs, BackoffEnds(d) \/ OrphanLapses(d) \/ HolderStalls(d)
        PROVE  UNCHANGED <<status, attempts, lockedBy>>
    BY <1>1 DEF BackoffEnds, OrphanLapses, HolderStalls, LeaseRunsOut
  <1>2. ASSUME NEW w \in Workers, NEW stage \in Stages, Advance(w, stage)
        PROVE  UNCHANGED <<status, attempts, lockedBy>>
    BY <1>2 DEF Advance
  <1>3. ASSUME NEW w \in Workers,
               DropLostJob(w) \/ ProcessFails(w) \/ MarkDocumentError(w) \/ Fault(w) \/ Touch(w)
        PROVE  UNCHANGED <<status, attempts, lockedBy>>
    BY <1>3 DEF DropLostJob, ProcessFails, MarkDocumentError, Fault, Touch, jobVars
  <1>4. ASSUME NEW u \in Users, NEW d \in Docs, NEW decision \in HumanDecisions,
               Approve(u, d, decision)
        PROVE  UNCHANGED <<status, attempts, lockedBy>>
    BY <1>4 DEF Approve, jobVars
  <1>5. CASE UNCHANGED vars
    BY <1>5 DEF vars, jobVars
  <1> QED
    BY <1>1, <1>2, <1>3, <1>4, <1>5 DEF Next, WorkerStep

\* The four transactions that change a document, its result or its audit rows.
LEMMA DocumentSteps ==
  ASSUME [Next]_vars
  PROVE  \/ \E batch \in SUBSET Docs : Upload(batch)
         \/ \E w \in Workers, decision \in MachineDecisions : SaveResult(w, decision)
         \/ \E w \in Workers : MarkDocumentError(w)
         \/ \E u \in Users, d \in Docs, decision \in HumanDecisions : Approve(u, d, decision)
         \/ UNCHANGED docVars
  <1>1. ASSUME NEW d \in Docs, BackoffEnds(d) \/ OrphanLapses(d) \/ HolderStalls(d)
        PROVE  UNCHANGED docVars
    BY <1>1 DEF BackoffEnds, OrphanLapses, HolderStalls, LeaseRunsOut
  <1>2. ASSUME NEW w \in Workers, NEW stage \in Stages, Advance(w, stage)
        PROVE  UNCHANGED docVars
    BY <1>2 DEF Advance
  <1>3. ASSUME NEW w \in Workers,
               DropLostJob(w) \/ ProcessFails(w) \/ Fail(w) \/ Fault(w) \/ Touch(w)
        PROVE  UNCHANGED docVars
    BY <1>3 DEF DropLostJob, ProcessFails, Fail, Fault, Touch
  <1>4. ASSUME NEW w \in Workers, NEW d \in Docs, Claim(w, d)
        PROVE  UNCHANGED docVars
    BY <1>4 DEF Claim
  <1>5. CASE UNCHANGED vars
    BY <1>5 DEF vars
  <1> QED
    BY <1>1, <1>2, <1>3, <1>4, <1>5 DEF Next, WorkerStep

\* A busy worker's document is a document.
LEMMA AtIsDoc ==
  ASSUME TypeOK, HandsOn, NEW w \in Workers, pc[w] # "idle"
  PROVE  at[w] \in Docs
  BY DEF TypeOK, HandsOn

LEMMA SaverBusy ==
  ASSUME TypeOK, HandsOn, NEW w \in Workers, NEW decision \in MachineDecisions,
         SaveResult(w, decision)
  PROVE  pc[w] \in Stages /\ pc[w] # "idle" /\ at[w] \in Docs
  BY AtIsDoc DEF SaveResult, Concludes, Stages

LEMMA FailerBusy ==
  ASSUME TypeOK, HandsOn, NEW w \in Workers, Fail(w) \/ MarkDocumentError(w)
  PROVE  pc[w] # "idle" /\ at[w] \in Docs
  BY AtIsDoc DEF Fail, MarkDocumentError

-----------------------------------------------------------------------------
(* Locks.                                                                  *)

LEMMA LockStep ==
  TypeOK /\ HandsOn /\ LockedIffProcessing /\ [Next]_vars => LockedIffProcessing'
  <1> SUFFICES ASSUME TypeOK, HandsOn, LockedIffProcessing, [Next]_vars
               PROVE  LockedIffProcessing'
    OBVIOUS
  <1> USE NoOneIsNobody DEF LockedIffProcessing
  <1>1. ASSUME NEW batch \in SUBSET Docs, Upload(batch) PROVE LockedIffProcessing'
    BY <1>1 DEF Upload, TypeOK
  <1>2. ASSUME NEW w \in Workers, NEW d \in Docs, Claim(w, d) PROVE LockedIffProcessing'
    BY <1>2 DEF Claim, TypeOK
  <1>3. ASSUME NEW w \in Workers, NEW decision \in MachineDecisions, SaveResult(w, decision)
        PROVE  LockedIffProcessing'
    BY <1>3, SaverBusy DEF SaveResult, Release, TypeOK
  <1>4. ASSUME NEW w \in Workers, Fail(w) PROVE LockedIffProcessing'
    <2>1. PICK s \in {"gaveup", "waiting"} : status' = [status EXCEPT ![at[w]] = s]
      BY <1>4 DEF Fail, Release, AfterFail
    <2> QED
      BY <1>4, <2>1, FailerBusy DEF Fail, Release, TypeOK
  <1>5. CASE UNCHANGED <<status, attempts, lockedBy>>
    BY <1>5
  <1> QED
    BY <1>1, <1>2, <1>3, <1>4, <1>5, JobSteps

\* Where a lease is taken away the row is released, and Claim gives both.
LEMMA LeasedStep ==
  TypeOK /\ HandsOn /\ LeasedWhileProcessing /\ [Next]_vars => LeasedWhileProcessing'
  <1> SUFFICES ASSUME TypeOK, HandsOn, LeasedWhileProcessing, [Next]_vars, NEW d \in Docs,
                      status'[d] = "processing"
               PROVE  lease'[d] # "null"
    BY DEF LeasedWhileProcessing
  <1> USE DEF LeasedWhileProcessing
  <1>1. ASSUME NEW batch \in SUBSET Docs, Upload(batch) PROVE lease'[d] # "null"
    BY <1>1 DEF Upload, TypeOK
  <1>2. ASSUME NEW w \in Workers, NEW e \in Docs, Claim(w, e) PROVE lease'[d] # "null"
    BY <1>2 DEF Claim, TypeOK
  <1>3. ASSUME NEW w \in Workers, NEW decision \in MachineDecisions, SaveResult(w, decision)
        PROVE  lease'[d] # "null"
    BY <1>3, SaverBusy DEF SaveResult, Release, TypeOK
  <1>4. ASSUME NEW w \in Workers, Fail(w) PROVE lease'[d] # "null"
    <2>1. PICK s \in {"gaveup", "waiting"} : status' = [status EXCEPT ![at[w]] = s]
      BY <1>4 DEF Fail, Release, AfterFail
    <2> QED
      BY <1>4, <2>1, FailerBusy DEF Fail, Release, TypeOK
  <1>5. ASSUME UNCHANGED status,
               ~ \E w \in Workers, decision \in MachineDecisions : SaveResult(w, decision),
               ~ \E w \in Workers : Fail(w)
        PROVE  lease'[d] # "null"
    <2>1. lease[d] # "null" /\ status[d] = "processing"
      BY <1>5
    <2>2. ASSUME NEW e \in Docs, BackoffEnds(e) \/ OrphanLapses(e) \/ HolderStalls(e) PROVE lease'[d] # "null"
      BY <2>1, <2>2 DEF BackoffEnds, OrphanLapses, HolderStalls, LeaseRunsOut, TypeOK
    <2>3. ASSUME NEW w \in Workers, NEW stage \in Stages, Advance(w, stage) PROVE lease'[d] # "null"
      BY <2>1, <2>3 DEF Advance, Heartbeat, TypeOK
    <2>4. ASSUME NEW w \in Workers,
                 DropLostJob(w) \/ ProcessFails(w) \/ MarkDocumentError(w) \/ Fault(w)
          PROVE  lease'[d] # "null"
      BY <2>1, <2>4 DEF DropLostJob, ProcessFails, MarkDocumentError, Fault, jobVars
    <2>5. ASSUME NEW w \in Workers, Touch(w) PROVE lease'[d] # "null"
      BY <2>1, <2>5 DEF Touch, TypeOK
    <2>6. ASSUME NEW u \in Users, NEW e \in Docs, NEW decision \in HumanDecisions, Approve(u, e, decision)
          PROVE  lease'[d] # "null"
      BY <2>1, <2>6 DEF Approve, jobVars
    <2>7. CASE UNCHANGED vars
      BY <2>1, <2>7 DEF vars, jobVars
    <2> QED
      BY <1>1, <1>2, <1>5, <2>2, <2>3, <2>4, <2>5, <2>6, <2>7 DEF Next, WorkerStep
  <1> QED
    BY <1>1, <1>2, <1>3, <1>4, <1>5, JobSteps

-----------------------------------------------------------------------------
(* Attempts.                                                               *)

\* A worker that is busy after a step either goes on with its document or has just
\* claimed one.
LEMMA BusyAfterStep ==
  ASSUME TypeOK, [Next]_vars, NEW w \in Workers, pc'[w] # "idle"
  PROVE  \/ pc[w] # "idle" /\ at'[w] = at[w] /\ tried'[w] = tried[w]
         \/ \E d \in Docs : Claim(w, d)
  <1> DEFINE Goes(x) == pc[x] # "idle" /\ at'[x] = at[x] /\ tried'[x] = tried[x]
  <1>1. ASSUME NEW v \in Workers, ToIdle(v)
        PROVE  Goes(w)
    BY <1>1 DEF ToIdle, TypeOK
  <1>2. ASSUME NEW v \in Workers, NEW new \in {"failing", "marking"} \cup Stages,
               pc[v] # "idle", pc' = [pc EXCEPT ![v] = new], UNCHANGED <<at, tried>>
        PROVE  Goes(w)
    BY <1>2 DEF TypeOK
  <1>3. ASSUME NEW v \in Workers, NEW d \in Docs, Claim(v, d)
        PROVE  Goes(w) \/ Claim(w, d)
    BY <1>3 DEF Claim, TypeOK
  <1>4. ASSUME NEW v \in Workers, NEW stage \in Stages, Advance(v, stage)
        PROVE  Goes(w)
    BY <1>2, <1>4 DEF Advance, Stages
  <1>5. ASSUME NEW v \in Workers, Fail(v) \/ ProcessFails(v)
        PROVE  Goes(w)
    BY <1>1, <1>2, <1>5 DEF Fail, ProcessFails, Stages
  <1>6. ASSUME UNCHANGED workerVars PROVE Goes(w)
    BY <1>6 DEF workerVars
  <1>7. ASSUME NEW d \in Docs, BackoffEnds(d) \/ OrphanLapses(d) \/ HolderStalls(d)
        PROVE  UNCHANGED workerVars
    BY <1>7 DEF BackoffEnds, OrphanLapses, HolderStalls, LeaseRunsOut
  <1>8. ASSUME NEW v \in Workers, DropLostJob(v) \/ MarkDocumentError(v) \/ Fault(v)
        PROVE  Goes(w)
    BY <1>1, <1>8 DEF DropLostJob, MarkDocumentError, Fault
  <1>13. ASSUME NEW v \in Workers, NEW decision \in MachineDecisions, SaveResult(v, decision)
         PROVE  Goes(w)
    BY <1>1, <1>2, <1>13 DEF SaveResult, Concludes, CommitUnheard
  <1>9. ASSUME NEW v \in Workers, Touch(v) PROVE UNCHANGED workerVars
    BY <1>9 DEF Touch
  <1>10. ASSUME NEW batch \in SUBSET Docs, Upload(batch) PROVE UNCHANGED workerVars
    BY <1>10 DEF Upload
  <1>11. ASSUME NEW u \in Users, NEW d \in Docs, NEW decision \in HumanDecisions,
                Approve(u, d, decision)
         PROVE  UNCHANGED workerVars
    BY <1>11 DEF Approve
  <1>12. UNCHANGED vars => UNCHANGED workerVars
    BY DEF vars
  <1> QED
    BY <1>3, <1>4, <1>5, <1>6, <1>7, <1>8, <1>9, <1>10, <1>11, <1>12, <1>13 DEF Next, WorkerStep

Working == Stages \cup {"failing"}

\* Where a worker was that is processing, or has given up, after a step.
LEMMA StageBefore ==
  ASSUME TypeOK, [Next]_vars, NEW w \in Workers
  PROVE  /\ pc'[w] \in Working =>
              \/ pc[w] \in Working /\ at'[w] = at[w]
              \/ \E d \in Docs : Claim(w, d)
         /\ pc'[w] = "marking" =>
              /\ at'[w] = at[w]
              /\ pc[w] = "marking" \/ (Fail(w) /\ AfterFail(at[w]) = "gaveup")
  <1> DEFINE Same == pc'[w] = pc[w] /\ at'[w] = at[w]
  <1> USE DEF Working, Stages
  <1>1. ASSUME NEW v \in Workers, ToIdle(v) PROVE Same \/ pc'[w] = "idle"
    BY <1>1 DEF ToIdle, TypeOK
  <1>2. ASSUME NEW v \in Workers, NEW new \in Working,
               pc[v] \in Stages, pc' = [pc EXCEPT ![v] = new], UNCHANGED at
        PROVE  Same \/ (pc[w] \in Working /\ at'[w] = at[w] /\ pc'[w] \in Working)
    BY <1>2 DEF TypeOK
  <1>3. ASSUME NEW v \in Workers, NEW d \in Docs, Claim(v, d)
        PROVE  Same \/ (Claim(w, d) /\ pc'[w] = "claimed")
    BY <1>3 DEF Claim, TypeOK
  <1>4. ASSUME NEW v \in Workers, Fail(v)
        PROVE  \/ Same \/ pc'[w] = "idle"
               \/ Fail(w) /\ AfterFail(at[w]) = "gaveup" /\ at'[w] = at[w] /\ pc'[w] = "marking"
    <2>1. CASE AfterFail(at[v]) = "gaveup"
      <3>1. pc' = [pc EXCEPT ![v] = "marking"] /\ UNCHANGED at
        BY <1>4, <2>1 DEF Fail
      <3> QED
        BY <1>4, <2>1, <3>1 DEF TypeOK
    <2>2. CASE AfterFail(at[v]) # "gaveup"
      BY <1>1, <1>4, <2>2 DEF Fail
    <2> QED
      BY <2>1, <2>2
  <1>5. ASSUME NEW v \in Workers, NEW stage \in Stages, Advance(v, stage)
        PROVE  Same \/ (pc[w] \in Working /\ at'[w] = at[w] /\ pc'[w] \in Working)
    BY <1>2, <1>5 DEF Advance
  <1>6. ASSUME NEW v \in Workers, ProcessFails(v)
        PROVE  Same \/ (pc[w] \in Working /\ at'[w] = at[w] /\ pc'[w] \in Working)
    BY <1>2, <1>6 DEF ProcessFails
  <1>7. ASSUME UNCHANGED workerVars PROVE Same
    BY <1>7 DEF workerVars
  <1>8. ASSUME NEW v \in Workers,
               DropLostJob(v) \/ MarkDocumentError(v) \/ Fault(v)
        PROVE  Same \/ pc'[w] = "idle"
    BY <1>1, <1>8 DEF DropLostJob, MarkDocumentError, Fault
  <1>9. ASSUME \/ \E d \in Docs : BackoffEnds(d) \/ OrphanLapses(d) \/ HolderStalls(d)
               \/ \E v \in Workers : Touch(v)
               \/ \E batch \in SUBSET Docs : Upload(batch)
               \/ \E u \in Users, d \in Docs, decision \in HumanDecisions : Approve(u, d, decision)
               \/ UNCHANGED vars
        PROVE  UNCHANGED workerVars
    BY <1>9 DEF BackoffEnds, OrphanLapses, HolderStalls, LeaseRunsOut, Touch, Upload, Approve, vars
  <1>11. ASSUME NEW v \in Workers, NEW decision \in MachineDecisions, SaveResult(v, decision)
         PROVE  \/ Same \/ pc'[w] = "idle"
                \/ pc[w] \in Working /\ at'[w] = at[w] /\ pc'[w] \in Working
    <2>1. pc[v] \in Stages
      BY <1>11 DEF SaveResult, Concludes
    <2> QED
      BY <1>1, <1>2, <1>11, <2>1 DEF SaveResult, CommitUnheard
  <1>10. \/ Same \/ pc'[w] = "idle"
         \/ \E d \in Docs : Claim(w, d) /\ pc'[w] = "claimed"
         \/ pc[w] \in Working /\ at'[w] = at[w] /\ pc'[w] \in Working
         \/ Fail(w) /\ AfterFail(at[w]) = "gaveup" /\ at'[w] = at[w] /\ pc'[w] = "marking"
    BY <1>3, <1>4, <1>5, <1>6, <1>7, <1>8, <1>9, <1>11 DEF Next, WorkerStep
  <1> QED
    BY <1>10

LEMMA FreshStep ==
  TypeOK /\ HandsOn /\ FreshBeforeUpload /\ [Next]_vars => FreshBeforeUpload'
  <1> SUFFICES ASSUME TypeOK, HandsOn, FreshBeforeUpload, [Next]_vars PROVE FreshBeforeUpload'
    OBVIOUS
  <1>1. ASSUME NEW d \in Docs, status[d] # "none" PROVE status'[d] # "none"
    <2>1. ASSUME NEW batch \in SUBSET Docs, Upload(batch) PROVE status'[d] # "none"
      BY <1>1, <2>1 DEF Upload, TypeOK
    <2>2. ASSUME NEW w \in Workers, NEW e \in Docs, Claim(w, e) PROVE status'[d] # "none"
      BY <1>1, <2>2 DEF Claim, TypeOK
    <2>3. ASSUME NEW w \in Workers, NEW decision \in MachineDecisions, SaveResult(w, decision)
          PROVE  status'[d] # "none"
      BY <1>1, <2>3, SaverBusy DEF SaveResult, Release, TypeOK
    <2>4. ASSUME NEW w \in Workers, Fail(w) PROVE status'[d] # "none"
      <3>1. PICK s \in {"gaveup", "waiting"} : status' = [status EXCEPT ![at[w]] = s]
        BY <2>4 DEF Fail, Release, AfterFail
      <3> QED
        BY <1>1, <2>4, <3>1, FailerBusy DEF TypeOK
    <2> QED
      BY <1>1, <2>1, <2>2, <2>3, <2>4, JobSteps
  <1>2. ASSUME NEW w \in Workers, pc'[w] # "idle" PROVE status'[at'[w]] # "none"
    <2>1. CASE pc[w] # "idle" /\ at'[w] = at[w]
      BY <1>1, <2>1, AtIsDoc DEF FreshBeforeUpload
    <2>2. ASSUME NEW d \in Docs, Claim(w, d) PROVE status'[at'[w]] # "none"
      BY <2>2 DEF Claim, TypeOK
    <2>3. (pc[w] # "idle" /\ at'[w] = at[w]) \/ \E d \in Docs : Claim(w, d)
      BY <1>2, BusyAfterStep
    <2> QED
      BY <2>1, <2>2, <2>3
  <1>3. ASSUME NEW d \in Docs, status'[d] = "none"
        PROVE  result'[d] = NoResult /\ docStatus'[d] = "none" /\ attempts'[d] = 0
    <2>1. /\ status[d] = "none" /\ result[d] = NoResult /\ docStatus[d] = "none"
          /\ attempts[d] = 0
      BY <1>1, <1>3 DEF FreshBeforeUpload
    <2>2. \A w \in Workers : pc[w] # "idle" => at[w] # d
      BY <2>1 DEF FreshBeforeUpload
    <2>3. attempts'[d] = 0
      <3>1. ASSUME NEW w \in Workers, NEW e \in Docs, Claim(w, e) PROVE attempts'[d] = attempts[d]
        BY <1>3, <3>1 DEF Claim, TypeOK
      <3>2. ASSUME NEW w \in Workers, Fail(w) PROVE attempts'[d] = attempts[d]
        BY <3>2 DEF Fail
      <3> QED
        BY <2>1, <3>1, <3>2, JobSteps DEF Upload, SaveResult
    <2>4. result'[d] = NoResult /\ docStatus'[d] = "none"
      <3>1. ASSUME NEW batch \in SUBSET Docs, Upload(batch) PROVE UNCHANGED result /\ docStatus'[d] = "none"
        BY <1>3, <2>1, <3>1 DEF Upload, TypeOK
      <3>2. ASSUME NEW w \in Workers, NEW decision \in MachineDecisions, SaveResult(w, decision)
            PROVE  result'[d] = result[d] /\ docStatus'[d] = docStatus[d]
        BY <2>2, <3>2, SaverBusy DEF SaveResult, TypeOK
      <3>3. ASSUME NEW w \in Workers, MarkDocumentError(w)
            PROVE  UNCHANGED result /\ docStatus'[d] = docStatus[d]
        BY <2>2, <3>3, FailerBusy DEF MarkDocumentError, TypeOK
      <3>4. ASSUME NEW u \in Users, NEW e \in Docs, NEW decision \in HumanDecisions,
                   Approve(u, e, decision)
            PROVE  result'[d] = result[d] /\ docStatus'[d] = docStatus[d]
        BY <2>1, <3>4 DEF Approve, TypeOK
      <3> QED
        BY <2>1, <3>1, <3>2, <3>3, <3>4, DocumentSteps DEF docVars
    <2> QED
      BY <2>3, <2>4
  <1> QED
    BY <1>2, <1>3 DEF FreshBeforeUpload

\* Where lapses change, and where a lease becomes lapsed.
LEMMA LeaseSteps ==
  ASSUME TypeOK, [Next]_vars, NEW d \in Docs
  PROVE  \/ LeaseRunsOut(d) /\ (OrphanLapses(d) \/ HolderStalls(d))
         \/ lapses'[d] = lapses[d] /\ (lease'[d] = "lapsed" => lease[d] = "lapsed")
  <1> DEFINE Calm == lapses'[d] = lapses[d] /\ (lease'[d] = "lapsed" => lease[d] = "lapsed")
  <1>1. ASSUME NEW e \in Docs, NEW v \in {"null", "live"}, lease' = [lease EXCEPT ![e] = v]
        PROVE  lease'[d] = "lapsed" => lease[d] = "lapsed"
    BY <1>1 DEF TypeOK
  <1>2. ASSUME NEW e \in Docs, OrphanLapses(e) \/ HolderStalls(e)
        PROVE  Calm \/ (LeaseRunsOut(d) /\ (OrphanLapses(d) \/ HolderStalls(d)))
    <2>1. LeaseRunsOut(e)
      BY <1>2 DEF OrphanLapses, HolderStalls
    <2>2. CASE e = d
      BY <1>2, <2>1, <2>2
    <2>3. CASE e # d
      BY <2>1, <2>3 DEF LeaseRunsOut, TypeOK
    <2> QED
      BY <2>2, <2>3
  <1>3. ASSUME NEW w \in Workers, NEW e \in Docs, Claim(w, e) PROVE Calm
    BY <1>3 DEF Claim, budgets, TypeOK
  <1>4. ASSUME NEW w \in Workers, WorkerStep(w) \/ Touch(w) PROVE Calm
    <2>1. UNCHANGED lapses
      BY <1>4 DEF WorkerStep, Touch, Advance, SaveResult, DropLostJob, ProcessFails, Fail,
                  MarkDocumentError, budgets
    <2>2. \/ UNCHANGED lease
          \/ \E v \in {"null", "live"} : lease' = [lease EXCEPT ![at[w]] = v]
      BY <1>4 DEF WorkerStep, Touch, Advance, Heartbeat, SaveResult, Release, DropLostJob, ProcessFails,
                  Fail, MarkDocumentError, jobVars
    <2> QED
      BY <2>1, <2>2 DEF TypeOK
  <1>5. ASSUME NEW w \in Workers, Fault(w) PROVE Calm
    BY <1>5 DEF Fault, jobVars
  <1>6. ASSUME NEW u \in Users, NEW e \in Docs, NEW decision \in HumanDecisions,
               Approve(u, e, decision)
        PROVE  Calm
    BY <1>6 DEF Approve, jobVars
  <1>7. ASSUME (\E batch \in SUBSET Docs : Upload(batch)) \/ (\E e \in Docs : BackoffEnds(e))
        PROVE  Calm
    BY <1>7 DEF Upload, BackoffEnds, budgets
  <1>8. CASE UNCHANGED vars
    BY <1>8 DEF vars, jobVars, budgets
  <1> QED
    BY <1>2, <1>3, <1>4, <1>5, <1>6, <1>7, <1>8 DEF Next

LEMMA AttemptsStep ==
  TypeOK /\ HandsOn /\ FreshBeforeUpload /\ AttemptsBounded /\ LapseBuysAttempt /\ [Next]_vars
    => (AttemptsBounded /\ LapseBuysAttempt)'
  <1> SUFFICES ASSUME TypeOK, HandsOn, FreshBeforeUpload, AttemptsBounded, LapseBuysAttempt,
                      [Next]_vars, NEW d \in Docs
               PROVE  /\ attempts'[d] <= MaxAttempts + lapses'[d]
                      /\ status'[d] = "waiting" => attempts'[d] < MaxAttempts
                      /\ status'[d] = "processing" /\ lease'[d] = "lapsed"
                           => attempts'[d] < MaxAttempts + lapses'[d]
    BY DEF AttemptsBounded, LapseBuysAttempt
  <1> DEFINE Fine == /\ attempts'[d] <= MaxAttempts + lapses'[d]
                     /\ status'[d] = "waiting" => attempts'[d] < MaxAttempts
                     /\ status'[d] = "processing" /\ lease'[d] = "lapsed"
                          => attempts'[d] < MaxAttempts + lapses'[d]
  <1>0. /\ attempts[d] \in Nat /\ lapses[d] \in Nat /\ MaxAttempts \in Nat \ {0}
        /\ attempts[d] <= MaxAttempts + lapses[d]
        /\ status[d] = "waiting" => attempts[d] < MaxAttempts
        /\ status[d] = "processing" /\ lease[d] = "lapsed" => attempts[d] < MaxAttempts + lapses[d]
    BY MaxAttemptsPositive DEF TypeOK, AttemptsBounded, LapseBuysAttempt
  <1>1. ASSUME NEW batch \in SUBSET Docs, Upload(batch) PROVE Fine
    <2>1. /\ attempts'[d] = attempts[d] /\ lapses'[d] = lapses[d] /\ lease'[d] = lease[d]
          /\ status'[d] = status[d] \/ (status'[d] = "waiting" /\ status[d] = "none")
      BY <1>1 DEF Upload, budgets, TypeOK
    <2>2. status[d] = "none" => attempts[d] = 0
      BY DEF FreshBeforeUpload
    <2> QED
      BY <1>0, <2>1, <2>2
  <1>2. ASSUME NEW w \in Workers, NEW e \in Docs, Claim(w, e) PROVE Fine
    <2>1. CASE e # d
      <3>1. /\ attempts'[d] = attempts[d] /\ lapses'[d] = lapses[d] /\ lease'[d] = lease[d]
            /\ status'[d] = status[d]
        BY <1>2, <2>1 DEF Claim, budgets, TypeOK
      <3> QED
        BY <1>0, <3>1
    <2>2. CASE e = d
      <3>1. /\ attempts'[d] = attempts[d] + 1 /\ lapses'[d] = lapses[d] /\ lease'[d] = "live"
            /\ status'[d] = "processing"
        BY <1>2, <2>2 DEF Claim, budgets, TypeOK
      <3>2. status[d] = "waiting" \/ (status[d] = "processing" /\ lease[d] = "lapsed")
        BY <1>2, <2>2 DEF Claim, Claimable
      <3> QED
        BY <1>0, <3>1, <3>2
    <2> QED
      BY <2>1, <2>2
  <1>3. ASSUME NEW w \in Workers, NEW decision \in MachineDecisions, SaveResult(w, decision)
        PROVE  Fine
    <2>1. /\ attempts'[d] = attempts[d] /\ lapses'[d] = lapses[d]
          /\ \/ status'[d] = "done"
             \/ status'[d] = status[d] /\ lease'[d] = lease[d]
      BY <1>3, SaverBusy DEF SaveResult, Release, budgets, TypeOK
    <2> QED
      BY <1>0, <2>1
  <1>4. ASSUME NEW w \in Workers, Fail(w) PROVE Fine
    <2>1. attempts'[d] = attempts[d] /\ lapses'[d] = lapses[d]
      BY <1>4 DEF Fail, budgets
    <2>2. CASE at[w] # d
      <3>1. status'[d] = status[d] /\ lease'[d] = lease[d]
        BY <1>4, <2>2, FailerBusy DEF Fail, Release, TypeOK
      <3> QED
        BY <1>0, <2>1, <3>1
    <2>3. CASE at[w] = d
      <3>1. status'[d] = IF attempts[d] >= MaxAttempts THEN "gaveup" ELSE "waiting"
        BY <1>4, <2>3 DEF Fail, Release, AfterFail, Exhausted, TypeOK
      <3> QED
        BY <1>0, <2>1, <3>1
    <2> QED
      BY <2>2, <2>3
  <1>5. CASE UNCHANGED <<status, attempts, lockedBy>>
    <2>1. CASE LeaseRunsOut(d)
      <3>1. lapses'[d] = lapses[d] + 1
        BY <2>1 DEF LeaseRunsOut, TypeOK
      <3> QED
        BY <1>0, <1>5, <3>1
    <2>2. CASE lapses'[d] = lapses[d] /\ (lease'[d] = "lapsed" => lease[d] = "lapsed")
      BY <1>0, <1>5, <2>2
    <2> QED
      BY <2>1, <2>2, LeaseSteps
  <1> QED
    BY <1>1, <1>2, <1>3, <1>4, <1>5, JobSteps

LEMMA HolderStep ==
  TypeOK /\ HandsOn /\ FreshBeforeUpload /\ HolderKnowsAttempt /\ [Next]_vars => HolderKnowsAttempt'
  <1> SUFFICES ASSUME TypeOK, HandsOn, FreshBeforeUpload, HolderKnowsAttempt, [Next]_vars,
                      NEW w \in Workers, pc'[w] # "idle", lockedBy'[at'[w]] = w
               PROVE  tried'[w] = attempts'[at'[w]]
    BY DEF HolderKnowsAttempt
  <1> USE NoOneIsNobody
  <1>1. ASSUME NEW d \in Docs, Claim(w, d) PROVE tried'[w] = attempts'[at'[w]]
    BY <1>1 DEF Claim, TypeOK
  <1>2. ASSUME pc[w] # "idle", at'[w] = at[w], tried'[w] = tried[w]
        PROVE  tried'[w] = attempts'[at'[w]]
    <2>1. at[w] \in Docs /\ (lockedBy[at[w]] = w => tried[w] = attempts[at[w]])
      BY <1>2, AtIsDoc DEF HolderKnowsAttempt
    <2>2. ASSUME NEW v \in Workers, NEW e \in Docs, Claim(v, e)
          PROVE  tried'[w] = attempts'[at'[w]]
      <3>1. v # w
        BY <1>2, <2>2 DEF Claim
      <3>2. e # at[w]
        BY <1>2, <2>1, <2>2, <3>1 DEF Claim, TypeOK
      <3> QED
        BY <1>2, <2>1, <2>2, <3>2 DEF Claim, TypeOK
    <2>3. ASSUME NEW v \in Workers,
                 Fail(v) \/ \E decision \in MachineDecisions : SaveResult(v, decision)
          PROVE  tried'[w] = attempts'[at'[w]]
      <3>1. UNCHANGED attempts /\ at[v] \in Docs /\ lockedBy' = [lockedBy EXCEPT ![at[v]] = NoOne]
        BY <2>3, FailerBusy, SaverBusy DEF Fail, Release, SaveResult, budgets
      <3>2. lockedBy[at[w]] = w
        BY <1>2, <2>1, <3>1 DEF TypeOK
      <3> QED
        BY <1>2, <2>1, <3>1, <3>2
    <2>4. ASSUME NEW batch \in SUBSET Docs, Upload(batch)
          PROVE  UNCHANGED <<attempts, lockedBy>>
      BY <2>4 DEF Upload
    <2> QED
      BY <1>2, <2>1, <2>2, <2>3, <2>4, JobSteps
  <1> QED
    BY <1>1, <1>2, BusyAfterStep

-----------------------------------------------------------------------------
(* Documents, results and the audit log.                                   *)

\* What the last row of a log is after one more was appended.
LEMMA LastAppended ==
  ASSUME NEW S, NEW s \in Seq(S), NEW e \in S
  PROVE  Append(s, e) # <<>> /\ Append(s, e)[Len(Append(s, e))] = e
  OBVIOUS

\* No decision of a person or the machine is the "none" of NoResult.
LEMMA DecidedIsResult ==
  ASSUME NEW r, r.decision \in Decisions
  PROVE  r # NoResult
  BY DEF Decisions, MachineDecisions, HumanDecisions, NoResult

\* The last person named, after one more row: the row's actor, or who it was before.
LEMMA LastPersonAppended ==
  ASSUME NEW S, NEW rows \in Seq(S), NEW row \in S, NEW u, LastPerson(rows, u)
  PROVE  LastPerson(Append(rows, row), IF row.by = NoOne THEN u ELSE row.by)
  <1> DEFINE more == Append(rows, row)
  <1>1. /\ more \in Seq(S) /\ Len(rows) \in Nat /\ Len(more) = Len(rows) + 1
        /\ DOMAIN more = 1 .. (Len(rows) + 1) /\ DOMAIN rows = 1 .. Len(rows)
        /\ more[Len(rows) + 1] = row
        /\ \A i \in 1 .. Len(rows) : more[i] = rows[i]
    OBVIOUS
  <1> HIDE DEF more
  <1>2. \A i \in DOMAIN more : i \in DOMAIN rows \/ (i = Len(rows) + 1 /\ \A j \in DOMAIN rows : j < i)
    BY <1>1
  <1>3. CASE row.by # NoOne
    <2>1. Len(rows) + 1 \in DOMAIN more /\ \A j \in DOMAIN more : ~(j > Len(rows) + 1)
      BY <1>1
    <2> QED
      BY <1>1, <1>3, <2>1 DEF LastPerson, more
  <1>4. CASE row.by = NoOne /\ u = NoOne
    <2>1. \A i \in DOMAIN more : more[i].by = NoOne
      BY <1>1, <1>2, <1>4 DEF LastPerson
    <2> QED
      BY <1>4, <2>1 DEF LastPerson, more
  <1>5. CASE row.by = NoOne /\ u # NoOne
    <2>1. PICK i \in DOMAIN rows :
            rows[i].by = u /\ \A j \in DOMAIN rows : j > i => rows[j].by = NoOne
      BY <1>5 DEF LastPerson
    <2>2. i \in DOMAIN more /\ more[i].by = u
      BY <1>1, <2>1
    <2>3. \A j \in DOMAIN more : j > i => more[j].by = NoOne
      BY <1>1, <1>2, <1>5, <2>1
    <2>4. LastPerson(more, u)
      BY <1>5, <2>2, <2>3 DEF LastPerson
    <2> QED
      BY <1>5, <2>4 DEF more
  <1> QED
    BY <1>3, <1>4, <1>5

LEMMA AccountStep ==
  TypeOK /\ HandsOn /\ DecisionAccounted /\ [Next]_vars => DecisionAccounted'
  <1> SUFFICES ASSUME TypeOK, HandsOn, DecisionAccounted, [Next]_vars PROVE DecisionAccounted'
    OBVIOUS
  <1>0. \A d \in Docs : audit[d] \in Seq(Verdict) /\ LastPerson(audit[d], result[d].by)
    <2> SUFFICES ASSUME NEW d \in Docs PROVE LastPerson(audit[d], result[d].by)
      BY DEF TypeOK
    <2>1. CASE result[d] = NoResult
      BY <2>1 DEF DecisionAccounted, LastPerson, NoResult
    <2> QED
      BY <2>1 DEF DecisionAccounted
  <1>1. ASSUME NEW e \in Docs, NEW r \in Verdict, NEW row \in Verdict,
               row.decision = r.decision,
               r.by = IF row.by = NoOne THEN result[e].by ELSE row.by,
               result' = [result EXCEPT ![e] = r],
               audit' = [audit EXCEPT ![e] = Append(@, row)]
        PROVE  DecisionAccounted'
    <2> SUFFICES ASSUME NEW d \in Docs
                 PROVE  IF result'[d] = NoResult THEN audit'[d] = <<>>
                        ELSE /\ audit'[d] # <<>>
                             /\ audit'[d][Len(audit'[d])].decision = result'[d].decision
                             /\ LastPerson(audit'[d], result'[d].by)
      BY DEF DecisionAccounted
    <2>1. CASE d # e
      BY <1>1, <2>1 DEF DecisionAccounted, TypeOK
    <2>2. CASE d = e
      <3>1. result'[d] = r /\ audit'[d] = Append(audit[d], row) /\ audit[d] \in Seq(Verdict)
        BY <1>1, <2>2 DEF TypeOK
      <3>2. r # NoResult
        BY DecidedIsResult DEF Verdict
      <3>3. audit'[d] # <<>> /\ audit'[d][Len(audit'[d])] = row
        BY <3>1, LastAppended
      <3>4. LastPerson(Append(audit[d], row), IF row.by = NoOne THEN result[d].by ELSE row.by)
        BY <1>0, LastPersonAppended
      <3> QED
        BY <1>1, <2>2, <3>1, <3>2, <3>3, <3>4
    <2> QED
      BY <2>1, <2>2
  <1>2. ASSUME NEW w \in Workers, NEW decision \in MachineDecisions, SaveResult(w, decision)
        PROVE  DecisionAccounted'
    <2>0. at[w] \in Docs
      BY <1>2, SaverBusy
    <2>1. /\ Upserted(at[w], decision) \in Verdict
          /\ [decision |-> decision, by |-> NoOne] \in Verdict
          /\ Upserted(at[w], decision).decision = decision
          /\ Upserted(at[w], decision).by = result[at[w]].by
      BY <2>0 DEF Upserted, Verdict, NoResult, TypeOK, Decisions
    <2> QED
      BY <1>1, <1>2, <2>0, <2>1 DEF SaveResult
  <1>3. ASSUME NEW u \in Users, NEW d \in Docs, NEW decision \in HumanDecisions,
               Approve(u, d, decision)
        PROVE  DecisionAccounted'
    <2>1. [decision |-> decision, by |-> u] \in Verdict /\ u # NoOne
      BY NoOneIsNobody DEF Verdict, Decisions
    <2> QED
      BY <1>1, <1>3, <2>1 DEF Approve
  <1>4. ASSUME UNCHANGED <<result, audit>> PROVE DecisionAccounted'
    BY <1>4 DEF DecisionAccounted
  <1> QED
    BY <1>2, <1>3, <1>4, DocumentSteps DEF Upload, MarkDocumentError, docVars

\* A document that was handed in stays so, and one whose job was given up stays given up.
LEMMA StatusStays ==
  ASSUME TypeOK, HandsOn, FreshBeforeUpload, GivenUpForGood, [Next]_vars, NEW d \in Docs
  PROVE  /\ status[d] = "gaveup" => status'[d] = "gaveup"
         /\ status[d] # "none" => status'[d] # "none"
         /\ status[d] = "none" /\ status'[d] # "none" =>
              \E batch \in SUBSET Docs : Upload(batch) /\ d \in batch
  <1> DEFINE Stays == (status[d] = "gaveup" => status'[d] = "gaveup")
                      /\ (status[d] # "none" <=> status'[d] # "none")
  <1>1. ASSUME NEW batch \in SUBSET Docs, Upload(batch)
        PROVE  Stays \/ (d \in batch /\ status[d] = "none" /\ status'[d] = "waiting")
    BY <1>1 DEF Upload, TypeOK
  <1>2. ASSUME NEW w \in Workers, NEW e \in Docs, Claim(w, e) PROVE Stays
    BY <1>2 DEF Claim, Claimable, TypeOK
  <1>3. ASSUME NEW w \in Workers, NEW decision \in MachineDecisions, SaveResult(w, decision)
        PROVE  Stays
    BY <1>3, SaverBusy DEF SaveResult, StillHolds, Release, TypeOK
  <1>4. ASSUME NEW w \in Workers, Fail(w) PROVE Stays
    <2>1. CASE at[w] = d
      <3>1. status'[d] = IF attempts[d] >= MaxAttempts THEN "gaveup" ELSE "waiting"
        BY <1>4, <2>1 DEF Fail, Release, AfterFail, Exhausted, TypeOK
      <3> QED
        BY <1>4, <2>1, <3>1, FailerBusy DEF GivenUpForGood, FreshBeforeUpload
    <2>2. CASE at[w] # d
      BY <1>4, <2>2, FailerBusy DEF Fail, Release, TypeOK
    <2> QED
      BY <2>1, <2>2
  <1> QED
    BY <1>1, <1>2, <1>3, <1>4, JobSteps

LEMMA GivenUpStep ==
  TypeOK /\ HandsOn /\ FreshBeforeUpload /\ GivenUpForGood /\ [Next]_vars => GivenUpForGood'
  <1> SUFFICES ASSUME TypeOK, HandsOn, FreshBeforeUpload, GivenUpForGood, [Next]_vars
               PROVE  GivenUpForGood'
    OBVIOUS
  <1>1. ASSUME NEW d \in Docs, status'[d] = "gaveup" PROVE attempts'[d] >= MaxAttempts
    <2>1. ASSUME status[d] = "gaveup" PROVE attempts'[d] >= MaxAttempts
      <3>1. attempts[d] >= MaxAttempts /\ attempts[d] \in Nat /\ MaxAttempts \in Nat
        BY <2>1, MaxAttemptsPositive DEF GivenUpForGood, TypeOK
      <3>2. ASSUME NEW w \in Workers, NEW e \in Docs, Claim(w, e) PROVE attempts'[d] = attempts[d]
        <4>1. e # d
          BY <2>1, <3>2 DEF Claim, Claimable
        <4> QED
          BY <3>2, <4>1 DEF Claim, TypeOK
      <3> QED
        BY <3>1, <3>2, JobSteps DEF Upload, SaveResult, Fail
    <2>2. ASSUME NEW w \in Workers, Fail(w), status[d] # "gaveup" PROVE attempts'[d] >= MaxAttempts
      <3>1. at[w] = d
        BY <1>1, <2>2, FailerBusy DEF Fail, Release, TypeOK
      <3>2. Exhausted(d)
        BY <1>1, <2>2, <3>1 DEF Fail, Release, AfterFail, TypeOK
      <3> QED
        BY <2>2, <3>2 DEF Fail, Exhausted
    <2>3. ASSUME status[d] # "gaveup", ~\E w \in Workers : Fail(w) PROVE FALSE
      <3>1. ASSUME NEW batch \in SUBSET Docs, Upload(batch) PROVE FALSE
        BY <1>1, <2>3, <3>1 DEF Upload, TypeOK
      <3>2. ASSUME NEW w \in Workers, NEW e \in Docs, Claim(w, e) PROVE FALSE
        BY <1>1, <2>3, <3>2 DEF Claim, TypeOK
      <3>3. ASSUME NEW w \in Workers, NEW decision \in MachineDecisions, SaveResult(w, decision)
            PROVE  FALSE
        BY <1>1, <2>3, <3>3, SaverBusy DEF SaveResult, Release, TypeOK
      <3> QED
        BY <1>1, <2>3, <3>1, <3>2, <3>3, JobSteps
    <2> QED
      BY <2>1, <2>2, <2>3
  <1>2. ASSUME NEW w \in Workers, pc'[w] = "marking" PROVE status'[at'[w]] = "gaveup"
    <2>1. CASE pc[w] = "marking" /\ at'[w] = at[w]
      <3>1. at[w] \in Docs /\ status[at[w]] = "gaveup"
        BY <2>1, AtIsDoc DEF GivenUpForGood
      <3> QED
        BY <2>1, <3>1, StatusStays
    <2>2. CASE Fail(w) /\ AfterFail(at[w]) = "gaveup" /\ at'[w] = at[w]
      BY <2>2, FailerBusy DEF Fail, Release, TypeOK
    <2> QED
      BY <1>2, <2>1, <2>2, StageBefore
  <1> QED
    BY <1>1, <1>2 DEF GivenUpForGood

LEMMA StatusStep ==
  TypeOK /\ HandsOn /\ FreshBeforeUpload /\ GivenUpForGood /\ DecisionAccounted
  /\ StatusTellsDecision /\ [Next]_vars => StatusTellsDecision'
  <1> SUFFICES ASSUME TypeOK, HandsOn, FreshBeforeUpload, GivenUpForGood, DecisionAccounted,
                      StatusTellsDecision, [Next]_vars, NEW d \in Docs
               PROVE  \/ docStatus'[d] =
                           IF audit'[d] # <<>> THEN CalledFor(audit'[d][Len(audit'[d])])
                           ELSE IF status'[d] = "none" THEN "none" ELSE "received"
                      \/ docStatus'[d] = "error" /\ status'[d] = "gaveup"
    BY DEF StatusTellsDecision
  <1> DEFINE Told == \/ docStatus'[d] =
                          IF audit'[d] # <<>> THEN CalledFor(audit'[d][Len(audit'[d])])
                          ELSE IF status'[d] = "none" THEN "none" ELSE "received"
                     \/ docStatus'[d] = "error" /\ status'[d] = "gaveup"
  <1>0. \/ docStatus[d] = IF audit[d] # <<>> THEN CalledFor(audit[d][Len(audit[d])])
                          ELSE IF status[d] = "none" THEN "none" ELSE "received"
        \/ docStatus[d] = "error" /\ status[d] = "gaveup"
    BY DEF StatusTellsDecision
  <1>1. ASSUME docStatus'[d] = docStatus[d], audit'[d] = audit[d],
               ~\E batch \in SUBSET Docs : Upload(batch) /\ d \in batch
        PROVE  Told
    BY <1>0, <1>1, StatusStays
  <1>2. ASSUME NEW batch \in SUBSET Docs, Upload(batch), d \in batch PROVE Told
    <2>1. status[d] = "none" /\ docStatus'[d] = "received" /\ status'[d] = "waiting" /\ UNCHANGED audit
      BY <1>2 DEF Upload, TypeOK
    <2>2. audit[d] = <<>>
      BY <2>1 DEF FreshBeforeUpload, DecisionAccounted
    <2> QED
      BY <2>1, <2>2
  <1>3. ASSUME NEW row \in Verdict, audit'[d] = Append(audit[d], row), docStatus'[d] = CalledFor(row)
        PROVE  Told
    <2>1. audit'[d] # <<>> /\ audit'[d][Len(audit'[d])] = row
      <3>1. audit[d] \in Seq(Verdict)
        BY DEF TypeOK
      <3> QED
        BY <1>3, <3>1, LastAppended
    <2> QED
      BY <1>3, <2>1
  <1>4. ASSUME NEW w \in Workers, NEW decision \in MachineDecisions, SaveResult(w, decision), at[w] = d
        PROVE  Told
    <2> DEFINE row == [decision |-> decision, by |-> NoOne]
    <2>1. row \in Verdict
      BY DEF Verdict, Decisions
    <2>2. audit'[d] = Append(audit[d], row) /\ docStatus'[d] = StatusAfterSave(decision)
      BY <1>4, SaverBusy DEF SaveResult, TypeOK
    <2>3. StatusAfterSave(decision) = CalledFor(row)
      BY DEF StatusAfterSave, CalledFor
    <2> QED
      BY <1>3, <2>1, <2>2, <2>3
  <1>5. ASSUME NEW u \in Users, NEW decision \in HumanDecisions, Approve(u, d, decision)
        PROVE  Told
    <2> DEFINE row == [decision |-> decision, by |-> u]
    <2>1. row \in Verdict /\ u # NoOne
      BY NoOneIsNobody DEF Verdict, Decisions
    <2>2. audit'[d] = Append(audit[d], row) /\ docStatus'[d] = StatusAfterDecision(decision)
      BY <1>5 DEF Approve, TypeOK
    <2>3. StatusAfterDecision(decision) = CalledFor(row)
      BY <2>1 DEF StatusAfterDecision, CalledFor
    <2> QED
      BY <1>3, <2>1, <2>2, <2>3
  <1>6. ASSUME NEW w \in Workers, MarkDocumentError(w), at[w] = d PROVE Told
    <2>1. status[d] = "gaveup" /\ docStatus'[d] = "error" /\ UNCHANGED status
      BY <1>6, FailerBusy DEF MarkDocumentError, jobVars, GivenUpForGood, TypeOK
    <2> QED
      BY <2>1
  <1>7. ASSUME NEW w \in Workers, at[w] # d,
               MarkDocumentError(w) \/ \E decision \in MachineDecisions : SaveResult(w, decision)
        PROVE  docStatus'[d] = docStatus[d] /\ audit'[d] = audit[d]
    BY <1>7 DEF MarkDocumentError, SaveResult, TypeOK
  <1>8. ASSUME NEW u \in Users, NEW e \in Docs, NEW decision \in HumanDecisions,
               Approve(u, e, decision), e # d
        PROVE  docStatus'[d] = docStatus[d] /\ audit'[d] = audit[d]
    BY <1>8 DEF Approve, TypeOK
  <1>9. ASSUME NEW batch \in SUBSET Docs, Upload(batch), d \notin batch
        PROVE  docStatus'[d] = docStatus[d] /\ audit'[d] = audit[d]
    BY <1>9 DEF Upload
  <1> QED
    BY <1>1, <1>2, <1>4, <1>5, <1>6, <1>7, <1>8, <1>9, DocumentSteps DEF docVars

LEMMA DoneStep ==
  TypeOK /\ HandsOn /\ DoneHasResult /\ [Next]_vars => DoneHasResult'
  <1> SUFFICES ASSUME TypeOK, HandsOn, DoneHasResult, [Next]_vars,
                      NEW d \in Docs, status'[d] = "done"
               PROVE  result'[d] # NoResult
    BY DEF DoneHasResult
  <1>1. ASSUME NEW w \in Workers, NEW decision \in MachineDecisions, SaveResult(w, decision)
        PROVE  result'[d] # NoResult
    <2>1. Upserted(at[w], decision) # NoResult
      BY DecidedIsResult DEF Upserted, Decisions
    <2> QED
      BY <1>1, <2>1, SaverBusy DEF SaveResult, Release, DoneHasResult, TypeOK
  <1>2. ASSUME ~\E w \in Workers, decision \in MachineDecisions : SaveResult(w, decision)
        PROVE  status[d] = "done"
    <2>1. ASSUME NEW batch \in SUBSET Docs, Upload(batch) PROVE status[d] = "done"
      BY <2>1 DEF Upload, TypeOK
    <2>2. ASSUME NEW w \in Workers, NEW e \in Docs, Claim(w, e) PROVE status[d] = "done"
      BY <2>2 DEF Claim, TypeOK
    <2>3. ASSUME NEW w \in Workers, Fail(w) PROVE status[d] = "done"
      <3>1. PICK s \in {"gaveup", "waiting"} : status' = [status EXCEPT ![at[w]] = s]
        BY <2>3 DEF Fail, Release, AfterFail
      <3> QED
        BY <2>3, <3>1, FailerBusy DEF TypeOK
    <2> QED
      BY <1>2, <2>1, <2>2, <2>3, JobSteps
  <1>3. ASSUME result[d] # NoResult,
               ~\E w \in Workers, decision \in MachineDecisions : SaveResult(w, decision)
        PROVE  result'[d] # NoResult
    <2>1. ASSUME NEW u \in Users, NEW e \in Docs, NEW decision \in HumanDecisions,
                 Approve(u, e, decision)
          PROVE  result'[d] # NoResult
      <3>1. [decision |-> decision, by |-> u] # NoResult
        BY DecidedIsResult DEF Decisions
      <3> QED
        BY <1>3, <2>1, <3>1 DEF Approve, TypeOK
    <2> QED
      BY <1>3, <2>1, DocumentSteps DEF Upload, MarkDocumentError, docVars
  <1> QED
    BY <1>1, <1>2, <1>3 DEF DoneHasResult

-----------------------------------------------------------------------------
(* The theorems.                                                           *)

\* IndInv holds from the start and no step breaks it, whatever the bounds are.
THEOREM Invariance == Spec => []IndInv
  <1>1. Init => IndInv
    <2> SUFFICES ASSUME Init PROVE IndInv
      OBVIOUS
    <2>1. TypeOK /\ HandsOn
      BY TypeInit DEF Init, HandsOn
    <2>2. LockedIffProcessing /\ LeasedWhileProcessing /\ AttemptsBounded /\ LapseBuysAttempt
      BY MaxAttemptsPositive
         DEF Init, LockedIffProcessing, LeasedWhileProcessing, AttemptsBounded, LapseBuysAttempt
    <2>3. HolderKnowsAttempt /\ FreshBeforeUpload
      BY DEF Init, HolderKnowsAttempt, FreshBeforeUpload
    <2>4. StatusTellsDecision /\ DecisionAccounted /\ DoneHasResult /\ GivenUpForGood
      BY DEF Init, StatusTellsDecision, DecisionAccounted, DoneHasResult, GivenUpForGood
    <2> QED
      BY <2>1, <2>2, <2>3, <2>4 DEF IndInv
  <1>2. IndInv /\ [Next]_vars => IndInv'
    BY TypeStep, HandsOnStep, LockStep, LeasedStep, AttemptsStep, HolderStep, FreshStep, StatusStep,
       AccountStep, DoneStep, GivenUpStep DEF IndInv
  <1> QED
    BY <1>1, <1>2, PTL DEF Spec

\* A job row carries a locked_by exactly while its status is processing.
THEOREM LocksAreRight == Spec => []LockedIffProcessing
  BY Invariance, PTL DEF IndInv

\* Whatever stalls, dies, or comes back late: a job that is not finished has a back-off that
\* ends, can be claimed, has a holder at work, or a lease that runs out for lack of one.
THEOREM NoneIsForgotten == Spec => []NoJobIsForgotten
  <1>1. IndInv => NoJobIsForgotten
    <2> SUFFICES ASSUME TypeOK, LeasedWhileProcessing, NEW d \in Docs, due[d],
                        status[d] \in {"waiting", "processing"}
                 PROVE  \/ Claimable(d)
                        \/ \E w \in Workers : lockedBy[d] = w /\ WorksOn(w, d)
                        \/ Orphaned(d) /\ lease[d] = "live"
      BY DEF IndInv, NoJobIsForgotten
    <2>1. status[d] = "processing" => lease[d] \in {"live", "lapsed"}
      BY DEF LeasedWhileProcessing, TypeOK
    <2> QED
      BY <2>1 DEF Claimable, Orphaned
  <1> QED
    BY <1>1, Invariance, PTL

\* However many workers stall and die, a job is tried at most max_attempts times and
\* once more for each lease that lapsed.
THEOREM RetriesAreBounded == Spec => []AttemptsBounded
  BY Invariance, PTL DEF IndInv

\* SaveResult and Approve keep match_results and audit_logs in step, even when a job is
\* processed again after it was completed: the last row names the decision in force, and the
\* last person the rows name is the decider in the result.
THEOREM DecisionsAreAccounted == Spec => []DecisionAccounted
  BY Invariance, PTL DEF IndInv

\* The status shown for a document is the one its last audit row calls for, or "error" when
\* its job was given up (StatusAfterSave, StatusAfterDecision, MarkDocumentError).
THEOREM StatusIsTrue == Spec => []StatusTellsDecision
  BY Invariance, PTL DEF IndInv

\* No crash or lost lease leaves a job completed without its result.
THEOREM DoneIsBacked == Spec => []DoneHasResult
  BY Invariance, PTL DEF IndInv

\* The fence: only the worker of a job's latest attempt completes it.
THEOREM FenceHolds == Spec => CompletedByLastClaimer
  <1> DEFINE Fenced == \A d \in Docs :
                status[d] # "done" /\ status'[d] = "done"
                => \E w \in Workers : /\ pc[w] \in Stages /\ at[w] = d /\ tried[w] = attempts[d]
                                      /\ pc'[w] \notin Stages
  <1>1. IndInv /\ [Next]_vars => Fenced
    <2> SUFFICES ASSUME IndInv, [Next]_vars, NEW d \in Docs,
                        status[d] # "done", status'[d] = "done"
                 PROVE  \E w \in Workers : /\ pc[w] \in Stages /\ at[w] = d
                                           /\ tried[w] = attempts[d] /\ pc'[w] \notin Stages
      OBVIOUS
    <2>0. TypeOK /\ HandsOn /\ HolderKnowsAttempt
      BY DEF IndInv
    <2>1. ASSUME NEW batch \in SUBSET Docs, Upload(batch) PROVE FALSE
      BY <2>0, <2>1 DEF Upload, TypeOK
    <2>2. ASSUME NEW w \in Workers, NEW e \in Docs, Claim(w, e) PROVE FALSE
      BY <2>0, <2>2 DEF Claim, TypeOK
    <2>3. ASSUME NEW w \in Workers, Fail(w) PROVE FALSE
      <3>1. PICK s \in {"gaveup", "waiting"} : status' = [status EXCEPT ![at[w]] = s]
        BY <2>3 DEF Fail, Release, AfterFail
      <3> QED
        BY <2>0, <2>3, <3>1, FailerBusy DEF TypeOK
    <2>4. PICK w \in Workers : \E decision \in MachineDecisions : SaveResult(w, decision)
      BY <2>1, <2>2, <2>3, JobSteps
    <2>5. pc[w] \in Stages /\ pc[w] # "idle" /\ at[w] \in Docs
      BY <2>0, <2>4, SaverBusy
    <2>6. at[w] = d
      BY <2>0, <2>4, <2>5 DEF SaveResult, Release, TypeOK
    <2>7. lockedBy[at[w]] = w /\ pc'[w] \notin Stages
      BY <2>0, <2>4 DEF SaveResult, Release, StillHolds, ToIdle, CommitUnheard, Stages, TypeOK
    <2> QED
      BY <2>0, <2>5, <2>6, <2>7 DEF HolderKnowsAttempt
  <1> QED
    BY <1>1, Invariance, PTL DEF Spec, CompletedByLastClaimer

-----------------------------------------------------------------------------
(* What holds while no lease lapses under a working holder.                *)

\* Who fails or saves holds the row, and nobody else has the document.
LEMMA HolderOnly ==
  ASSUME IndInv, SteadyInv, NEW v \in Workers,
         Fail(v) \/ \E decision \in MachineDecisions : SaveResult(v, decision)
  PROVE  /\ pc[v] \in Working /\ at[v] \in Docs
         /\ lockedBy[at[v]] = v /\ status[at[v]] = "processing"
         /\ \A w \in Workers : WorksOn(w, at[v]) => w = v
  <1>1. TypeOK /\ HandsOn /\ LockedIffProcessing
    BY DEF IndInv
  <1>2. pc[v] \in Working /\ pc[v] # "idle" /\ at[v] \in Docs
    BY <1>1, SaverBusy, FailerBusy DEF Fail, Working
  <1>3. lockedBy[at[v]] = v
    BY <1>2 DEF SteadyInv, Working
  <1>4. status[at[v]] = "processing"
    BY <1>1, <1>2, <1>3, NoOneIsNobody DEF LockedIffProcessing
  <1> QED
    BY <1>2, <1>3, <1>4 DEF SteadyInv, OneWorkerPerDoc, WorksOn

\* Whoever claims a document finds nobody on it.
LEMMA ClaimsAlone ==
  ASSUME IndInv, SteadyInv, NEW v \in Workers, NEW d \in Docs, Claim(v, d)
  PROVE  \A w \in Workers : ~WorksOn(w, d)
  <1> SUFFICES ASSUME NEW w \in Workers, WorksOn(w, d) PROVE FALSE
    OBVIOUS
  <1>1. TypeOK /\ LockedIffProcessing
    BY DEF IndInv
  <1>2. status[d] = "waiting" \/ (status[d] = "processing" /\ lease[d] = "lapsed")
    BY DEF Claim, Claimable
  <1>3. CASE pc[w] = "marking"
    BY <1>2, <1>3 DEF IndInv, GivenUpForGood, WorksOn
  <1>4. CASE pc[w] \in Working
    <2>1. lockedBy[d] = w
      BY <1>4 DEF SteadyInv, WorksOn, Working
    <2>2. status[d] = "processing"
      BY <1>1, <2>1, NoOneIsNobody DEF LockedIffProcessing
    <2> QED
      BY <1>2, <2>1, <2>2 DEF SteadyInv, Orphaned
  <1> QED
    BY <1>1, <1>3, <1>4 DEF TypeOK, WorksOn, Working

\* No statement takes a document out of "done" or "gaveup".
LEMMA EndsStay ==
  ASSUME IndInv, SteadyInv, [Next]_vars, NEW d \in Docs, status[d] \in {"done", "gaveup"}
  PROVE  status'[d] = status[d]
  <1>1. TypeOK
    BY DEF IndInv
  <1>2. ASSUME NEW batch \in SUBSET Docs, Upload(batch) PROVE status'[d] = status[d]
    BY <1>1, <1>2 DEF Upload
  <1>3. ASSUME NEW w \in Workers, NEW e \in Docs, Claim(w, e) PROVE status'[d] = status[d]
    BY <1>1, <1>3 DEF Claim, Claimable, TypeOK
  <1>4. ASSUME NEW w \in Workers, Fail(w) \/ \E decision \in MachineDecisions : SaveResult(w, decision)
        PROVE  status'[d] = status[d]
    <2>1. at[w] # d
      BY <1>4, HolderOnly
    <2>2. \E s : status' = [status EXCEPT ![at[w]] = s]
      BY <1>4 DEF Fail, SaveResult, Release
    <2> QED
      BY <1>1, <2>1, <2>2 DEF TypeOK
  <1> QED
    BY <1>2, <1>3, <1>4, JobSteps

LEMMA SteadyWorkers ==
  ASSUME IndInv, SteadyInv, MaxStalls = 0, [Next]_vars
  PROVE  /\ \A w \in Workers : pc'[w] \in Working => lockedBy'[at'[w]] = w
         /\ OneWorkerPerDoc'
  <1>1. TypeOK /\ HandsOn /\ LockedIffProcessing
    BY DEF IndInv
  <1>2. ASSUME NEW w \in Workers, pc[w] \in Working, at'[w] = at[w], pc'[w] \in Working
        PROVE  lockedBy'[at'[w]] = w
    <2>1. at[w] \in Docs /\ lockedBy[at[w]] = w /\ WorksOn(w, at[w]) /\ pc'[w] \notin {"idle", "marking"}
      BY <1>1, <1>2, AtIsDoc DEF SteadyInv, Working, Stages, WorksOn
    <2>2. ASSUME NEW v \in Workers, NEW d \in Docs, Claim(v, d) PROVE lockedBy'[at[w]] = w
      <3>1. d # at[w]
        BY <2>1, <2>2, ClaimsAlone
      <3> QED
        BY <1>1, <2>1, <2>2, <3>1 DEF Claim, TypeOK
    <2>3. ASSUME NEW v \in Workers,
                 Fail(v) \/ \E decision \in MachineDecisions : SaveResult(v, decision)
          PROVE  lockedBy'[at[w]] = w
      <3>1. at[v] = at[w] => w = v
        BY <2>1, <2>3, HolderOnly
      <3>2. pc'[v] \in {"idle", "marking"}
        <4>1. ~CommitUnheard(v)
          BY <1>1 DEF CommitUnheard, TypeOK
        <4> QED
          BY <1>1, <2>3, <4>1 DEF Fail, SaveResult, ToIdle, TypeOK
      <3>3. at[v] # at[w]
        BY <2>1, <3>1, <3>2
      <3>4. lockedBy' = [lockedBy EXCEPT ![at[v]] = NoOne]
        BY <2>3 DEF Fail, SaveResult, Release
      <3> QED
        BY <1>1, <2>1, <3>3, <3>4 DEF TypeOK
    <2>4. ASSUME NEW batch \in SUBSET Docs, Upload(batch) PROVE lockedBy'[at[w]] = w
      BY <2>1, <2>4 DEF Upload
    <2> QED
      BY <1>2, <2>1, <2>2, <2>3, <2>4, JobSteps
  <1>3. ASSUME NEW w \in Workers, pc'[w] \in Working PROVE lockedBy'[at'[w]] = w
    <2>1. ASSUME NEW d \in Docs, Claim(w, d) PROVE lockedBy'[at'[w]] = w
      BY <1>1, <2>1 DEF Claim, TypeOK
    <2> QED
      BY <1>2, <1>3, <2>1, StageBefore, <1>1
  <1>5. ASSUME NEW v \in Workers, NEW w \in Workers, NEW d \in Docs, WorksOn(v, d)', WorksOn(w, d)'
        PROVE  v = w
    <2>1. \A x \in Workers : WorksOn(x, d)' => WorksOn(x, d) \/ Claim(x, d)
      <3> SUFFICES ASSUME NEW x \in Workers, pc'[x] # "idle", at'[x] = d
                   PROVE  WorksOn(x, d) \/ Claim(x, d)
        BY DEF WorksOn
      <3>1. ASSUME NEW e \in Docs, Claim(x, e) PROVE e = d
        BY <1>1, <3>1 DEF Claim, TypeOK
      <3> QED
        BY <1>1, <3>1, BusyAfterStep DEF WorksOn
    <2>2. CASE WorksOn(v, d) /\ WorksOn(w, d)
      BY <2>2 DEF SteadyInv, OneWorkerPerDoc
    <2>3. CASE Claim(v, d) /\ Claim(w, d)
      BY <1>1, <2>3 DEF Claim, TypeOK
    <2>4. ~(Claim(v, d) /\ WorksOn(w, d)) /\ ~(Claim(w, d) /\ WorksOn(v, d))
      BY ClaimsAlone
    <2> QED
      BY <1>5, <2>1, <2>2, <2>3, <2>4
  <1> QED
    BY <1>3, <1>5 DEF OneWorkerPerDoc

LEMMA SteadyLeases ==
  ASSUME IndInv, SteadyInv, MaxStalls = 0, [Next]_vars, NEW d \in Docs, lease'[d] = "lapsed"
  PROVE  Orphaned(d)'
  <1>1. TypeOK /\ HandsOn
    BY DEF IndInv
  <1>2. ~HolderStalls(d)
    BY <1>1 DEF HolderStalls, TypeOK
  <1>3. Orphaned(d)
    BY <1>1, <1>2, LeaseSteps DEF SteadyInv, OrphanLapses
  <1>4. \A v \in Workers : ~Claim(v, d)
    BY <1>1 DEF Claim, TypeOK
  <1> SUFFICES ASSUME NEW w \in Workers, lockedBy'[d] = w, pc'[w] # "idle", at'[w] = d PROVE FALSE
    BY DEF Orphaned, WorksOn
  <1>5. pc[w] # "idle" /\ at[w] = d
    <2>1. ASSUME NEW e \in Docs, Claim(w, e) PROVE e = d
      BY <1>1, <2>1 DEF Claim, TypeOK
    <2> QED
      BY <1>1, <1>4, <2>1, BusyAfterStep
  <1>6. lockedBy[d] = w
    <2>1. ASSUME NEW v \in Workers, NEW e \in Docs, Claim(v, e) PROVE lockedBy[d] = w
      <3>1. e # d
        BY <1>4, <2>1
      <3> QED
        BY <1>1, <2>1, <3>1 DEF Claim, TypeOK
    <2>2. ASSUME NEW v \in Workers,
                 Fail(v) \/ \E decision \in MachineDecisions : SaveResult(v, decision)
          PROVE  lockedBy[d] = w
      <3>1. lockedBy' = [lockedBy EXCEPT ![at[v]] = NoOne]
        BY <2>2 DEF Fail, SaveResult, Release
      <3> QED
        BY <1>1, <3>1, NoOneIsNobody DEF TypeOK
    <2>3. ASSUME NEW batch \in SUBSET Docs, Upload(batch) PROVE lockedBy[d] = w
      BY <2>3 DEF Upload
    <2> QED
      BY <2>1, <2>2, <2>3, JobSteps
  <1> QED
    BY <1>3, <1>5, <1>6 DEF Orphaned, WorksOn

\* What becomes of a result: the machine writes one where there is none, people replace it.
LEMMA ResultSteps ==
  ASSUME IndInv, SteadyInv, [Next]_vars, NEW d \in Docs
  PROVE  \/ result'[d] = result[d]
         \/ /\ result[d] = NoResult /\ status'[d] = "done"
            /\ \E w \in Workers, decision \in MachineDecisions :
                 SaveResult(w, decision) /\ at[w] = d /\ result'[d] = [decision |-> decision, by |-> NoOne]
         \/ /\ result[d] # NoResult
            /\ \E u \in Users, decision \in HumanDecisions :
                 Approve(u, d, decision) /\ result'[d] = [decision |-> decision, by |-> u]
  <1>1. TypeOK
    BY DEF IndInv
  <1>2. ASSUME NEW w \in Workers, NEW decision \in MachineDecisions, SaveResult(w, decision), at[w] = d
        PROVE  /\ result[d] = NoResult /\ status'[d] = "done"
               /\ result'[d] = [decision |-> decision, by |-> NoOne]
    <2>1. status[d] = "processing"
      BY <1>2, HolderOnly
    <2>2. result[d] = NoResult
      BY <2>1 DEF SteadyInv
    <2> QED
      BY <1>1, <1>2, <2>2 DEF SaveResult, Release, Upserted, NoResult, TypeOK
  <1>3. ASSUME NEW w \in Workers, NEW decision \in MachineDecisions, SaveResult(w, decision), at[w] # d
        PROVE  result'[d] = result[d]
    BY <1>1, <1>3 DEF SaveResult, TypeOK
  <1>4. ASSUME NEW u \in Users, NEW e \in Docs, NEW decision \in HumanDecisions, Approve(u, e, decision)
        PROVE  \/ result'[d] = result[d]
               \/ /\ result[d] # NoResult /\ e = d
                  /\ result'[d] = [decision |-> decision, by |-> u]
    BY <1>1, <1>4 DEF Approve, TypeOK
  <1>5. ASSUME UNCHANGED result PROVE result'[d] = result[d]
    BY <1>5
  <1> QED
    BY <1>2, <1>3, <1>4, <1>5, DocumentSteps DEF Upload, MarkDocumentError, docVars

LEMMA SteadyStep ==
  ASSUME MaxStalls = 0
  PROVE  IndInv /\ SteadyInv /\ [Next]_vars => SteadyInv'
  <1> SUFFICES ASSUME IndInv, SteadyInv, [Next]_vars PROVE SteadyInv'
    OBVIOUS
  <1>1. ASSUME NEW d \in Docs, result'[d] # NoResult PROVE status'[d] = "done"
    <2>1. CASE result[d] # NoResult
      BY <2>1, EndsStay DEF SteadyInv
    <2>2. CASE result[d] = NoResult
      BY <1>1, <2>2, ResultSteps
    <2> QED
      BY <2>1, <2>2
  <1>2. ASSUME NEW d \in Docs, result'[d].by # NoOne PROVE result'[d].decision \in HumanDecisions
    <2>1. CASE result'[d] = result[d]
      BY <1>2, <2>1 DEF SteadyInv
    <2>2. ASSUME NEW decision \in MachineDecisions, result'[d] = [decision |-> decision, by |-> NoOne]
          PROVE  FALSE
      BY <1>2, <2>2
    <2>3. ASSUME NEW u \in Users, NEW decision \in HumanDecisions,
                 result'[d] = [decision |-> decision, by |-> u]
          PROVE  result'[d].decision \in HumanDecisions
      BY <2>3
    <2> QED
      BY <2>1, <2>2, <2>3, ResultSteps
  <1> QED
    BY <1>1, <1>2, SteadyWorkers, SteadyLeases DEF SteadyInv, Working

\* While no lease lapses under a working holder, whoever processes a document holds its row,
\* and what has a result is done.
THEOREM SteadyInvariance ==
  ASSUME MaxStalls = 0
  PROVE  Spec => []SteadyInv
  <1>1. Init => SteadyInv
    BY DEF Init, SteadyInv, OneWorkerPerDoc, WorksOn, NoResult, Stages
  <1>2. IndInv /\ SteadyInv /\ [Next]_vars => SteadyInv'
    BY SteadyStep
  <1> QED
    BY <1>1, <1>2, Invariance, PTL DEF Spec

\* Then no two workers have the same document in hand, however many there are and
\* whoever dies (Claim's lock, and the lease).
THEOREM OneWorkerAtATime ==
  ASSUME MaxStalls = 0
  PROVE  Spec => []OneWorkerPerDoc
  <1>1. SteadyInv => OneWorkerPerDoc
    BY DEF SteadyInv
  <1> QED
    BY <1>1, SteadyInvariance, PTL

\* Then a worker never replaces what a person decided (SaveResult, Approve).
THEOREM HumansHaveTheLastWord ==
  ASSUME MaxStalls = 0
  PROVE  Spec => HumanDecisionKept
  <1> DEFINE Kept == \A d \in Docs : result[d].by # NoOne =>
                       result'[d].by # NoOne /\ result'[d].decision \in HumanDecisions
  <1>1. IndInv /\ SteadyInv /\ [Next]_vars => Kept
    <2> SUFFICES ASSUME IndInv, SteadyInv, [Next]_vars, NEW d \in Docs, result[d].by # NoOne
                 PROVE  result'[d].by # NoOne /\ result'[d].decision \in HumanDecisions
      OBVIOUS
    <2>1. result[d] # NoResult /\ result[d].decision \in HumanDecisions
      BY DEF SteadyInv, NoResult
    <2>2. CASE result'[d] = result[d]
      BY <2>1, <2>2
    <2>3. ASSUME NEW u \in Users, NEW decision \in HumanDecisions,
                 result'[d] = [decision |-> decision, by |-> u]
          PROVE  result'[d].by # NoOne /\ result'[d].decision \in HumanDecisions
      BY <2>3, NoOneIsNobody
    <2> QED
      BY <2>1, <2>2, <2>3, ResultSteps
  <1> QED
    BY <1>1, Invariance, SteadyInvariance, PTL DEF Spec, HumanDecisionKept

\* Then a completed job is never put back into the queue (Fail).
THEOREM CompletedForGood ==
  ASSUME MaxStalls = 0
  PROVE  Spec => DoneStaysDone
  <1> DEFINE Stay == \A d \in Docs : status[d] = "done" => status'[d] = "done"
  <1>1. IndInv /\ SteadyInv /\ [Next]_vars => Stay
    BY EndsStay
  <1> QED
    BY <1>1, Invariance, SteadyInvariance, PTL DEF Spec, DoneStaysDone

-----------------------------------------------------------------------------
(* The queue implements DocumentPromise, but for its liveness.             *)

\* How a document moves on, as the promise sees it.
LEMMA PhaseSteps ==
  ASSUME IndInv, SteadyInv, [Next]_vars
  PROVE  Promise!Next \/ UNCHANGED Promise!vars
  <1> DEFINE phase == [d \in Docs |-> Phase(d)]
  <1>0. TypeOK
    BY DEF IndInv
  <1>1. ASSUME NEW batch \in SUBSET Docs, Upload(batch) PROVE Promise!Next
    <2>1. \A d \in batch : Phase(d) = "absent"
      BY <1>1 DEF Upload, Phase
    <2>2. \A d \in Docs : Phase(d)' = IF d \in batch THEN "queued" ELSE Phase(d)
      BY <1>0, <1>1 DEF Upload, Phase
    <2>3. UNCHANGED result
      BY <1>1 DEF Upload
    <2>4. Promise!Submit(batch)
      BY <2>1, <2>2, <2>3 DEF Promise!Submit
    <2> QED
      BY <2>4 DEF Promise!Next
  <1>2. ASSUME NEW w \in Workers, NEW e \in Docs, Claim(w, e) PROVE UNCHANGED Promise!vars
    <2>1. \A d \in Docs : Phase(d)' = Phase(d)
      BY <1>0, <1>2 DEF Claim, Claimable, Phase, TypeOK
    <2>2. UNCHANGED result
      BY <1>2 DEF Claim, docVars
    <2> QED
      BY <2>1, <2>2 DEF Promise!vars
  <1>3. ASSUME NEW w \in Workers, NEW decision \in MachineDecisions, SaveResult(w, decision)
        PROVE  Promise!Next
    <2>1. at[w] \in Docs /\ status[at[w]] = "processing"
      BY <1>3, HolderOnly
    <2>2. result[at[w]] = NoResult
      BY <2>1 DEF SteadyInv
    <2>3. Phase(at[w]) = "queued"
      BY <2>1 DEF Phase
    <2>4. \A d \in Docs : Phase(d)' = IF d = at[w] THEN "judged" ELSE Phase(d)
      BY <1>0, <1>3, <2>1 DEF SaveResult, Release, Phase, TypeOK
    <2>5. result' = [result EXCEPT ![at[w]] = [decision |-> decision, by |-> NoOne]]
      BY <1>3, <2>2 DEF SaveResult, Upserted, NoResult
    <2>6. Promise!Judge(at[w], decision)
      BY <2>1, <2>3, <2>4, <2>5 DEF Promise!Judge
    <2> QED
      BY <2>1, <2>6 DEF Promise!Next, Promise!Settle
  <1>4. ASSUME NEW w \in Workers, Fail(w) PROVE Promise!Next \/ UNCHANGED Promise!vars
    <2>1. at[w] \in Docs /\ status[at[w]] = "processing"
      BY <1>4, HolderOnly
    <2>2. UNCHANGED result
      BY <1>4 DEF Fail, docVars
    <2>3. status' = [status EXCEPT ![at[w]] = AfterFail(at[w])] /\ AfterFail(at[w]) \in {"gaveup", "waiting"}
      BY <1>4 DEF Fail, Release, AfterFail
    <2>4. Phase(at[w]) = "queued"
      BY <2>1 DEF Phase
    <2>5. CASE AfterFail(at[w]) = "gaveup"
      <3>1. \A d \in Docs : Phase(d)' = IF d = at[w] THEN "abandoned" ELSE Phase(d)
        BY <1>0, <2>1, <2>3, <2>5 DEF Phase, TypeOK
      <3>2. Promise!GiveUp(at[w])
        BY <2>1, <2>2, <2>4, <3>1 DEF Promise!GiveUp
      <3> QED
        BY <2>1, <3>2 DEF Promise!Next, Promise!Settle
    <2>6. CASE AfterFail(at[w]) = "waiting"
      <3>1. \A d \in Docs : Phase(d)' = Phase(d)
        BY <1>0, <2>1, <2>3, <2>6 DEF Phase, TypeOK
      <3> QED
        BY <2>2, <3>1 DEF Promise!vars
    <2> QED
      BY <2>3, <2>5, <2>6
  <1>5. ASSUME UNCHANGED <<status, attempts, lockedBy>> PROVE Promise!Next \/ UNCHANGED Promise!vars
    <2>1. \A d \in Docs : Phase(d)' = Phase(d)
      BY <1>5 DEF Phase
    <2>2. CASE UNCHANGED result
      BY <2>1, <2>2 DEF Promise!vars
    <2>3. ASSUME NEW u \in Users, NEW d \in Docs, NEW decision \in HumanDecisions, Approve(u, d, decision)
          PROVE  Promise!Next
      <3>1. status[d] = "done"
        BY <2>3 DEF Approve, SteadyInv
      <3>2. Promise!Decide(d, u, decision)
        BY <2>1, <2>3, <3>1 DEF Promise!Decide, Approve, Phase
      <3> QED
        BY <3>2 DEF Promise!Next
    <2> QED
      BY <1>3, <2>2, <2>3, DocumentSteps DEF Upload, MarkDocumentError, docVars
  <1> QED
    BY <1>1, <1>2, <1>3, <1>4, <1>5, JobSteps

\* Leases, retries, deaths and hand-backs included, a document is judged once by the
\* machine or given up, and then only people change the verdict: every step of the queue
\* is one of DocumentPromise, or none.
THEOREM PromiseKeptStepwise ==
  ASSUME MaxStalls = 0
  PROVE  Spec => Promise!Init /\ [][Promise!Next]_(Promise!vars)
  <1>1. Init => Promise!Init
    BY DEF Init, Promise!Init, Promise!Undecided, Phase, NoResult
  <1>2. IndInv /\ SteadyInv /\ [Next]_vars => [Promise!Next]_(Promise!vars)
    BY PhaseSteps
  <1> QED
    BY <1>1, <1>2, Invariance, SteadyInvariance, PTL DEF Spec
=============================================================================
