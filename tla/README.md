# denpyo-match in TLA+

A verification project for `denpyo-match`, a service that reads scanned vouchers (伝票), matches
the names on them with an office's partners, decides by thresholds which results need a person,
settles received invoices against bank and card statements, and charges for it by subscription.
The modules here are translated from the Go API (`src/api`), the SQL schema (`src/db`) and the
queries of the Rails screens (`src/web`). `PROJECT.json` maps every definition to its lines.

Contents: [1 the system](#1-the-system) · [2 the modules](#2-the-modules) ·
[3 runs and bounds](#3-runs-and-bounds) · [4 fairness](#4-fairness) · [5 proofs](#5-proofs) ·
[6 what the runs found](#6-what-the-runs-found) · [7 not modelled](#7-what-is-not-modelled-and-why) ·
[8 plan](#8-plan)

## 1 The system

PostgreSQL is the only thing the parts share. There are no messages between workers, no
notifications and no in-memory state that outlives a request or a job; what makes the system hard
is that many transactions, each READ COMMITTED, run over the same rows.

| Component | State it keeps | Operations | How it meets the others |
|---|---|---|---|
| Job queue and workers (`worker`, `store/store.go`, `store/result.go`) | `jobs`: status, attempts, `locked_by`, `locked_until`, `run_after`, stage, progress; in each worker the job it claimed | upload, claim under a 30 s lease, heartbeat per stage, renewal (Touch), save result, fail with back-off, give up, mark | writes `documents`, `match_results`, `audit_logs`; afterwards starts a settlement run |
| Pipeline (`pipeline`) | none of its own; a temporary candidate file per document, `cand_<document>.json` | preprocess → OCR → extract → match, with the processed image if the original gave no name or no results → decide | called by a worker, calls the C++ programs; two workers on one document share the file's name |
| Judgement (`decide`) | none; thresholds are rows that are only appended | score against upper and lower threshold | its decision is what SaveResult stores |
| People's decisions (`store/view.go`, `httpapi`) | `match_results.decision/decided_by` | confirm, correct (and learn an alias), reject | race with workers that process a document again, and with each other |
| Names and thresholds (`store/store.go`, `store/view.go`, `thresholds_controller.rb`) | `partner_aliases`, `thresholds` | teach a name with a correction or a settlement, take it back; apply thresholds for all, a client, a type of document | workers read both: candidates, and the threshold in force |
| Settlement (`settle`, `store/ledger.go`) | `settlements`, `settlement_candidates` | a run over all undecided documents of a client; people confirm or decide "no transaction" | started by workers, imports and by hand; nothing keeps runs apart |
| Import of statements (`ledger`, `store/ledger.go`) | `import_batches`, `transactions` | parse a bank or card file, insert new rows | feeds settlement |
| Billing (`billing`, `store/billing.go`, `httpapi/billing.go`) | `subscriptions`, `organizations.stripe_customer_id`, `stripe_events` | checkout, webhook, the check before an upload | Stripe delivers events in any order, repeatedly |
| Audit log (migrations 004, 010) | `audit_logs`: append-only rows chained by hashes | the trigger at every insertion; verification of all or a range | every deciding transaction inserts |
| Invoice registration numbers (`invoice`) | status per document | check digit; a look-up that nothing calls yet | called by the worker that saves a result |
| API: sessions, ownership, upload (`httpapi`) | signatures per request, saved files | authenticate, own client / document, unpack archives | creates documents and jobs |
| C++ core (`core/src`) | none | image processing, PDF, splitting, OCR, extraction, normalization, matching | run as processes with time limits |
| Rails screens (`web`) | sessions, thresholds | forms over the API, simulation of thresholds, verification of the log | reads the tables, calls the API |

What makes each correct:

- *Queue*: a job is processed by one worker at a time and completed by the latest claimer only;
  nothing completed returns; retries are bounded; every job ends; result, status and audit rows
  account for each other at any moment; a person's decision is not replaced by a machine.
- *Settlement*: one transaction settles one document; a person's decision stays; the audit row
  tells what is stored; repeated runs come to rest.
- *Billing*: a canceled contract is never revived; no grace is extended or left behind; each event
  counts once; in the end the stored contract is Stripe's.
- *Audit log*: no row is changed without an alarm on it, or on the row chained to it if its hash was
  computed again; nothing is reported that nobody edited.
- *Judgement*: an ambiguous name is never settled automatically, whatever the thresholds.
- *Import*: a payment counts as often as the fullest statement shows it, however files overlap; a file is
  stored whole or not at all; the answer is true; imports that wait for each other end.
- *Reading*: a stored row belongs to one reading of its own document, trusts the original image before the
  processed one, and names the thresholds that approved it; a corporate registration number with one
  misreading is not taken for another.
- *Names and thresholds*: the log tells what became of each document and name and who decided last; no threshold outlives
  one that was applied after it.

The hard behaviours, each with its line, are listed under "hazards" in `PROJECT.json`: leases
lapsing under a live worker, deaths between two statements, unfenced updates (Fail, Heartbeat),
reads without locks before upserts, overlapping settlement runs, webhooks out of order, repeated
and failing half-way, transactions that insert audit rows at once, ranges with gaps, imports in opposite
order, one file name for two workers, masters and thresholds that move while a document is read.

## 2 The modules

| Module | What it is |
|---|---|
| `JobQueue` | the queue, the workers, the people who decide |
| `DocumentPromise` | what the queue promises: the abstract specification it implements |
| `Settlement` | settlement runs side by side, statements, people |
| `Billing` | Stripe, its announcements, the webhook, the right to upload |
| `AuditChain` | transactions that insert audit rows, edits, the verification |
| `Scoring` | the score of a payment for a document, the cap on ambiguous names, the decision |
| `LedgerImport` | imports of bank and card statements side by side, from lines to committed rows |
| `LedgerPromise` | what importing promises: the abstract specification it implements |
| `Reading` | what a worker does between `Claim` and `SaveResult`: images, candidates, the match, the decision |
| `RegNo` | registration numbers and their check digit, as operators; used by `Reading` |
| `Office` | people at once: decisions, names, thresholds, under READ COMMITTED |
| `MC…` | instances for TLC: symmetry, the ratings of Settlement, the edges of Scoring, statements, papers |
| `…Proofs` | theorems checked by TLAPS |

One step is one SQL statement, or one transaction when its statements lock what they touch. An
operator whose name is that of another one with an addition (`FirstHash` next to `LastHash`,
`AbortHolding` next to `Abort`) is a mistake one could make in that place; it is not used by
the specification, and shows that the properties notice it.

### JobQueue

| Specification | Code |
|---|---|
| `status attempts lockedBy lease due progress` | columns of `jobs`; `lease` is `locked_until` null / future / past, `due` is `run_after <= now()` |
| `docStatus result audit` | `documents.status`, `match_results`, `audit_logs` (decision and actor) |
| `pc at tried` | the stage a worker is in, its document, `Job.Attempts` as claimed |
| `Upload` | `CreateDocuments`: a batch, each with its page and job, in one transaction |
| `Claim` | `Claim`'s `FOR UPDATE SKIP LOCKED` query |
| `Advance`, `Touch` | `process`'s beat → `Heartbeat` (not fenced), and the renewal goroutine (fenced) |
| `SaveResult`, `DropLostJob` | `SaveResult` with its lock on the job row at the start, or `ErrLostJob` |
| `Upserted`, `Storable` | its upsert, which leaves `decided_by` as it is, and `CHECK match_results_review_no_actor` |
| `CommitUnheard` | the commit whose answer is lost: the worker calls `Fail` for a job that is done |
| `ProcessFails`, `Fail`, `MarkDocumentError` | any other error; `Fail` by job id only; the mark, a statement of its own |
| `Fault` | a worker dies, or the statement that records a failure fails |
| `OrphanLapses`, `HolderStalls` | `locked_until` passes because the holder died, or although it lives |
| `Approve` | `Approve`: result, status, audit row |

Time is reduced to what the queries ask of it. Which of several due jobs `Claim` takes depends on
the clock, so any may be taken. What OCR and matching compute is a choice among the decisions a
stage can lead to. A worker that is started again gets a new ID (host, process, sequence); as a
dead worker never returns with its old ID, the model lets the ID return idle.
The settlement run a worker starts after `SaveResult` touches none of these rows
and is modelled in `Settlement`.

A machine's audit row has no actor, but its upsert keeps `decided_by`. So the decider in a result that was
saved again is not the one of the last audit row: `DecisionAccounted` says that it is the last person the rows
name. `StatusTellsDecision` says which status the last row calls for (`CalledFor`), and that "error" is the only
other one, for a job that was given up, even after somebody decided (section 6).

`DocumentPromise` is the queue as an office sees it: submitted documents are judged once or given
up, after which only people change the verdict. `PromiseKept` maps job states to its phases.

### Settlement

`rating` stands for what `Score` gives each transaction for a document (no candidate, below the
lower threshold, between, above the upper); learning an alias or moving a threshold is a new
reading. A run (`Start`) copies `SettleTargets` into `work` and deals with one document after the
other from memory: `Judge` (`settleOne`, `Decide`), `CheckClaim` (`IsTxClaimed`), `Compare` (`GetSettlement`),
`Refresh` (`RefreshSettlementWhy`), `Fence` and `Write` (`SaveSettlement`'s claim check and its
upsert). `Confirm` is `confirmSettlement`. `why` keeps only who explained the row last. The rows of
`settlement_candidates` carry nothing the properties ask for; that two runs may collide on them is one of the errors of `Fails`.
The error of `GetSettlement` is dropped by the code, so `Compare` may go on to write what is stored already.

### Billing

`real` is the contract at Stripe, `events` its announcements in the order they came about, `step`
how far the handler of each has come. `Receive` is `SeenEvent` (committed by itself), `ReadBefore`
and `Apply` the two halves of `ApplySubscription`: the status is read without a lock, the upsert
comes later. `Refused` is the unique index on live contracts, `Fault` a failure after `SeenEvent`,
`Resent` Stripe's next attempt. One organization, not exempt from billing; the paused and unknown
states are left out; Checkout is offered only without a live contract, as the page does.

### AuditChain

`Draw` and `Chain` are the two moments of an INSERT: the default of `id` takes the next number,
then the trigger reads the last row visible to its transaction and hashes. `sha256` is a free
function (`Hash`): equal only for equal arguments, and computed by anybody. `EditAnyhow` is a change made behind
the rules that make UPDATE a no-op: of what a row says, of `prev_hash` (to the hash of any row, or NULL) and of
`row_hash` (computed again). `Scope`, `JustBefore`, `Broken`, `Forged`, `Reason` and `Bad` are the clauses of
`verify_audit_chain`, whose CASE gives one reason for each row: where the chain is broken that goes before
content that does not fit, and the first row of the scope, with nothing before it, is compared with NULL for the
reason though not for being named. Rows of hash version 1 are left out: no code writes them any more, and an
edit leaves `hash_version` at 2.

### Scoring

What `Settlement` takes as a rating. `Candidate` is the query `FindTxCandidates`; `AmountScore`,
`DateScore`, `Score` are `Score`, `Ceil`, `Floor`, `Cap`, `Uncappable` are `CapFor`, `NameScore`
is `CapName` as `scoreCandidate` applies it, `Conclude` is `Decide`. Scores are integers in
hundredths, as `thresholds` has them, and a name counts with its weight of 0.40 already in it, so
that `CapFor`'s divisions by `wName` disappear and nothing is rounded (the code's doubles are within
its own margin of one point at the upper threshold; at the lower one, doubles were tried for every
threshold of two decimals at which `Floor` binds, and none fell short). Which descriptions fit several
partners is a set that grows and shrinks with partners and aliases.

### LedgerImport

A file is its lines; `Parse`, `BankRow`, `CardRow`, `Occurrence` and `Fingerprint` are package `ledger`,
`Upload` and `Ends` the handler, `Register`, `Refuse`, `Insert`, `Commit`, `Abort` the statements of
`ImportBatch`. What is handed in is made of what the bank booked: a statement shows each payment at most as
often as it was booked (`Bookings`), by day, the newest line last or first. `todo` holds the rows still to be
inserted, by line, `mine` what an open transaction has inserted; `WaitsFor` says whose end an INSERT waits
for, `WaitsInTheEndFor` follows that from one transaction to the next, and `AbortVictim` is PostgreSQL's way
out of a circle. `LedgerPromise` knows neither files nor rows: it
says how often each payment counts after a set of statements. `ImportsAreWhole` maps to it.

The model's statements cover whole days. Where that fails the fingerprint fails too: two equal purchases
that come in two files, the second file starting with the second purchase, get the same occurrence and the
second one is skipped (the comment at `ledger.go:63` assumes that equal rows are counted alike in all files).
Encodings, names of columns and the raw row are left out. A card statement never has a negative amount that
is not a refund; a bank line with a negative amount is skipped like one that moved nothing (`parseAmount`).

### Reading and RegNo

`run` is what one worker has in its memory; of the queue only the owner of the job is kept (`Start`, `Save`,
`Requeue`; `JobQueue` has the rest). `paper` is what the images of a document give when they can be read at
all. The original has two: `Upright` turns an image that lies on its side, and leaves it as it is when it fails,
so that two workers may read one document differently (`Originals`); `viewed` remembers how they did. `Read`,
`ReadAgain` and `Retry` are the three places where `run` in `pipeline.go` looks at an image, `Lookup` is
`Worker.candidates` (its two queries as one), `WriteList`, `Match`, `RemoveList` the file's life in
`matchWithCandidates`, `Conclusion` and `Saved` the decision and the row. `Near` is what `pg_trgm` finds, `Common`
the pairs `dm_match` looks at at all, `Alike` the score it gives them: any tables. A file of candidates may
therefore have no results, and `Tried` decides as the code does, by the results, whether the processed image is
tried and which reading is kept. `Fails`, `MatchFails` and `Dies` end a run anywhere; an error in the second try
is dropped by the code, and by `Adopted`. Left out: `LIMIT 50` of the query and the number of results `dm_match`
prints (with more partners near a name than fit, the list is not `Complete`), and the choice of an OCR engine. A text
is a sequence of digits, T and other characters;
`CheckDigit` and `Evaluate` are those of package `invoice`.

### Office

One document's row, the names, the log and the thresholds, each person with one transaction at hand. A step is
what a transaction does between two points where others can come in: the copy of `before` without a lock
(`Decide`), then everything from the UPDATE to the COMMIT (`CommitDecision`); the read and the DELETE of
`ForgetAlias`; the three statements of a settlement's alias (`Teach`, `AddAlias`, `TellAlias`), each committed
by itself; of an administrator's transaction BEGIN (`Apply`), the UPDATE as it is issued (`Issue`) and as it
goes on after waiting (`Close`), and INSERT with COMMIT. `open` are the rows without a `valid_to`, `teaches` the
partner whose name a correction learns. `InForce` is the query `CurrentThreshold`. The partner's column of
`thresholds`, which no code fills, is left out. A worker (`Save`) leaves `decided_by` alone and its audit row has
no actor (`Saved`), while a person's holds the row of `match_results` before and after (`DecisionRow`). So the log
tells the decision and the partner by its last row and the decider by the last row of a person (`Tells`). What a
person decided cannot become `needs_review`: a constraint of the table.

## 3 Runs and bounds

`CHECK_DEADLOCK FALSE` everywhere: nothing happens any more when all documents are decided, all
events handled or all budgets spent.

| Run | Instance | What it shows |
|---|---|---|
| `job_queue_stalls` | 1 document, 2 workers, 3 attempts, 2 stalls, 1 death, 1 decision | types; the audit rows account for the decision, the decider and the status in every state, but for given-up jobs shown as failed; the fence (`CompletedByLastClaimer`); bounded retries; every job ends |
| `job_queue_steady` | 2 documents, 2 workers, 2 attempts, no stall and every commit heard of, 1 death, 1 decision | one worker per document, no decision replaced; the refinement of `DocumentPromise` |
| `settlement_overlap` | 2 documents, 2 transactions, 2 runs, 2 readings, 1 decision | audit row = row; a decision is touched only by a run that was under way when it was taken; a run left alone repairs double claims |
| `settlement_serial` | 3 documents, 2 transactions, 1 run at a time, 3 readings, 1 decision | no transaction settles two documents; runs come to rest |
| `billing_webhook` | 2 contracts; 4 events in any order with a fault, or 6 in order | as in the table of section 1; in order, the outcome equals Stripe's |
| `audit_chain_edits` | 2 connections, 4 rows, 2 contents, 1 edit, with or without its hashes | a changed row is named, or the one chained to it; alarms elsewhere only after overlaps; ranges agree with the whole, reasons included |
| `scoring_thresholds` | 2 payments out of 12 at the edges of the windows and of the fee, 5 name scores, 5 × 3 thresholds | an ambiguous name never settles automatically, is not hidden by its cap |
| `ledger_import` | 2 requests, 3 uploads; a bank purchase booked twice, a deposit, a refund on a card; files newest line last or first, or with a date nobody can read | the ledger counts what the statements show, answers are true, every import ends; the refinement of `LedgerPromise` |
| `reading_workers` | 2 documents, 2 workers, 2 claims, 1 lapse, 1 change by people; 3 papers, 6 names, 3 partners, 2 thresholds | a row belongs to one reading of its document; the original is trusted; approvals are traceable; misreadings are seen |
| `office_colleagues` | 2 people, 3 transactions, 1 verdict of a worker; 2 partners, thresholds for all and for a client | the log tells decisions, deciders and names; the latest threshold is in force |
| `job_queue_reopened`, `billing_lost` | smallest instances | section 6 |

Why these are enough: a lapse, a takeover and a late return need two workers and one document, a
second stall lets the second holder be overtaken as well; three attempts distinguish "retry",
"last retry" and "given up". Two documents are needed for batches and for one worker moving on.
Two documents fight for one transaction, a third one (serial) takes what a yield frees; a second
transaction gives a yielding document somewhere to go. Two contracts are what the unique index is
about; four events in any order contain every pair of overtaking events of a contract plus their
retries, six in order a whole contract followed by the next. Four rows give a chain with a gap, a
row before and one behind an overlap. Three uploads are two that overlap and one that meets what they left,
in either order of days; the same purchase twice is what occurrences are about. The three papers are a name
that the processed image shortens to another company's, a nickname whose candidates give no results, and a smudge
without candidates; two of them also lie on their side. Two claims are the second worker after a lapse, or the
retry after a failure. One edit is all the verification is asked about at a time; the theorems are about any number. Three transactions of two people are
two that overlap and one before or after.

## 4 Fairness

`JobQueue` needs it, and `LedgerImport`: a statement that does not wait is executed, and PostgreSQL ends a
circle of waiting transactions, so `WF(ImportStep(i))` and `WF(AbortVictim(i))`; nothing is assumed of who
hands in files. In `JobQueue` each stage of a worker ends: the C++ programs run under time limits, so
`WF(WorkerStep(w))`. The clock advances: `WF` of the end of a back-off and of the lapse of an
abandoned lease. Workers poll, and `Claim` takes the oldest due job, so a job that is due again and
again is taken: `SF` of a claim for each document. Nothing is assumed of people, of renewals, of
uploads, or of stalls and deaths (which are finitely many, by their bounds). `ComesToRest` needs no
fairness: it says that writing ends.

## 5 Proofs

All theorems hold for any number of documents, workers, people, contracts, events, connections and
rows, and for any bounds; the assumptions are those named in the modules (`MaxAttempts` positive,
bounds and ids natural, `NoOne` nobody and `NoTx` no transaction, finitely many requests, payments that move
money and differ from each other). TLC has checked each invariant, also the inductive one, on the
instances of section 3, except `OrderedAsForetold`, whose story it would have to search for.

**JobQueueProofs.** `IndInv` adds to the properties what they lean on. `AttemptsBounded` is not
inductive: a lapse has to have been counted before the attempt it allows (`LapseBuysAttempt`), and
a takeover needs `LockedIffProcessing`. `CompletedByLastClaimer` needs to know that the holder's
memory of its attempt is the row's (`HolderKnowsAttempt`). `StatusTellsDecision` and
`DecisionAccounted` need that nothing precedes the upload (`FreshBeforeUpload`), that a busy
worker has a document (`HandsOn`), and that only exhausted jobs are given up and stay so (`GivenUpForGood`). The step lemmas follow the tables an action touches (`JobSteps`,
`DocumentSteps`, `LeaseSteps`), so each conjunct is shown over a few cases rather than thirteen actions.

The second half is about `MaxStalls = 0`: no lease lapses under a live holder, and commits are heard of. `SteadyInv` says that whoever processes a document holds its row, that a
lease lapses only when nobody does, and that what has a result is done; each leans on the others, so they are
one invariant. From it follow `OneWorkerAtATime`, `HumansHaveTheLastWord`, `CompletedForGood` (which one stall
breaks, section 6) and `PromiseKeptStepwise`, the safety part of the refinement of `DocumentPromise`.

**BillingProofs.** `IndInv` is types, `ActiveHasNoGrace` and `UnappliedUnlogged`: the number of
audit rows of an event is one if it is applied, else zero. The interesting step is `Apply` of an
invoice event with a status read long ago: it writes active only together with no grace, whatever
has happened meanwhile. From it follow `CanceledForGood` and `GraceNotExtended` as action properties.

`SettledMatchesStripe` needs a second layer, `OrderedAsForetold`: while announcements are handled in order there
is a story of what the rows should be after each announcement. It starts from no rows, each announcement has its
effect on the one before (`Effect`), it never has two live contracts, and it ends with what Stripe says
(`EndsWith`); the rows are those of the story at the last announcement handled (`HandledTo`). What Stripe does
continues the story (`OneMore`, `TellingAsForetold`), in either order of the two announcements of a payment; what
a handler does goes one step along it (`ApplyHasEffect`, `HandlingAsForetold`), and since the story has at most one
live contract, the unique index refuses nothing. When all is handled the rows are at its end.

**ScoringProofs.** The invariant is the types; the rest is arithmetic in three lemmas: what the query
lets through contributes 32 to 60 points (`RestIsBounded`), hence, with room for a cap, an ambiguous
candidate stays below the upper threshold and is taken no further than to the lower one
(`CapBetweenThresholds`), hence a certain candidate at the upper threshold outranks it (`NotBlocked`).

**SettlementProofs.** `IndInv` says what a run may rely on between two statements: it has a document
at hand, it never concludes what only people decide, what it is about to fence is automatic, the row
it refreshes exists, and of the documents still ahead those that are decided were decided since it
began (`AheadUndecided`, from which `OnlyRacesTouchDecisions` follows through `Touching`, the lemma
that says who changes a row at all). `SoloRunRepairs` needs a second layer, `SoloInv`: while a run is
undisturbed, a transaction it found unclaimed stays unclaimed until it has written it (`Cleared`).
`SerialNeverTwice` is the counterpart of the run that finds the double claim: with
`Runs = {only}` the same check is as good as a lock (`SecondCheckHolds`). That the best candidate is
one of the imported transactions is proved from the library's well-foundedness of the naturals.

**AuditChainProofs.** `EditsDetected` needs that rows keep the hash of what was written unless it was rewritten
(`Hashed`, a conjunct of `TypeOK`): who changes what a row says and nothing else is named by the row itself, who
computes its hash again breaks the chain of the row after it, unless that one is changed as well. It says no more:
who recomputes the whole chain to its end is not named, and no verification inside the table can.
`OnlyOverlapsAlarm` needs the strengthening: a transaction with a row that overlapped nothing is the only one under
way (`AloneUnlessOverlapped`), its rows come after everything that is committed (`InOrder`), rows under way are
untouched (`Untouched`), so what the trigger sees last is the row before (`Whole`), unless its hash was rewritten.
`RangesDoAgree` is arithmetic over gaps: the row before a range is in its scope.

**ReadingProofs.** What a worker stores was collected over many steps, while others wrote the same file and
taught or forgot names. `Sound` says what a run may rely on at each of its steps: that what it looks up has a name,
that it holds a reading of the processed image only where something lets that in (`LetsIn`), and that its match is
for a name on this paper with the score of the name it would show (`Fits`). What lets it in is that an original, as
some worker read it, gave no name or one that is no partner's own (`Useless`), or that workers read the original
differently: then one may have scored its name against the other's list. Without either, a list for the
original's name holds every partner whose own name comes near it (`Complete`), whoever wrote it, and one of them gives
a result; hence `ListsAreSound`. Names may be forgotten meanwhile, hence `everTaught`, with which, like with `viewed`,
everything only grows. Each step of a run is a lemma that ends in `Moves`: the run goes on with a memory
that fits its document. From the invariant follow `MatchIsOfTheReading`, `OriginalTrusted`, `AutoTraceable` and
`MisreadSeen`. The last one assumes papers whose printed number has the check digit of a corporate number
(`Corporate`), which an individual's need not have, and of which each image has at most one error (`OneError`); it
rests on the theorems about registration numbers.

Those theorems come first in the module, and are about every number. That one passes is an equation modulo 9;
`SameRemainder` turns two of them into congruent sums, `WeightedMisread` and `WeightedSwapped` say by how much a
misread digit or a swap moves the sum (one case per place), and `DigitsApart` that a digit's difference is a
multiple of 9 for 0 and 9 only. Hence `MisreadDigitIsSeen` and `SwapIsSeen`.

**OfficeProofs.** `StepKinds` divides the steps into those that change one person's memory only and the five
that commit something; `LogStep` and `NameStep` say what the latter may do to the log and to the names, and every
conjunct follows from them. For `LogTellsVerdicts` a decision under way has to know what the log told when it
began (`BeforesAreTold`); the log's last row and its last person stay what they are when it grows (`LastKept`,
`LastStays`), and so does the decider when a worker saves without an actor (`DeciderStays`). `NamesAreAccounted` needs that a number is
given once, and that the name a person is about to forget is the only one of its number (`NumbersAreUnique`).
For `LatestIsInForce` an open row of a scope must be one that nobody's UPDATE has seen, or one it closes
(`ClosedStayClosed`), and closing leaves a row behind (`ScopesStayOpen`); that one of the open rows goes before
all others is again the well-foundedness of the naturals, for the width and then for the time. The types
need `CorrectionsHavePartners`.

**LedgerImportProofs.** Everything rests on counting. `CountBelow` says that the numbers of smaller elements
within a finite set of line numbers are 0, 1, 2, … without a gap or a repetition (they are an injection into an
interval of the same size); hence the rows `Parse` makes of the lines that show one payment are that payment's
rows 0 to n - 1, for any file (`ParseOfKind`, `ParseIs`). `IndInv` then follows a row on its way: of a file that is
being imported every row is in the ledger, in the open transaction or still to be done, none comes from elsewhere,
and each moving line is in one count (`Underway`); a row and a file have one inserter (`RowsApart`, `FilesApart`,
which is where the waiting of `Insert` and `Register` is needed); and what is committed is whole and numbered
without gaps (`LedgerIsWhole`). The last two are why `Commit` adds two intervals that both begin at 0, so that a
payment counts as often as the fuller file shows it (`CommitCounts`): the step of `LedgerPromise`. A file that
shows the same as an earlier one is a stutter, by `WholeCounts`. `ImportsImplement` is the whole refinement, as
`LedgerPromise` has no fairness; `AnswersTrue` needs also that receipts of different files are disjoint
(`CommitReceipts`). `SomeoneAlwaysGoesOn` takes, of the sets of transactions the open ones wait for in the end, one
that contains no other (inclusion of finite sets is well-founded): its owner waits for nobody, or what it waits
for waits for itself.

Left to TLC alone is liveness: `EveryJobEnds`, `ComesToRest`, `EveryImportEnds`, and that of `DocumentPromise`, since
the prover does not handle fairness or ENABLED. What the first and third rest on in each state is proved:
`NoneIsForgotten` (no job is left to nobody, because where a lease is taken away the row is released,
`LeasedStep`) with `RetriesAreBounded`, and `SomeoneAlwaysGoesOn`. TLC has
agreed with both on the instances above; the runs check the liveness that follows.

## 6 What the runs found

Two places where a comment promises what the code does not keep, each with a run that shows how
("findings" in `PROJECT.json` quotes both):

- `job_queue_reopened`: `Fail` is not fenced; a worker that lost its job puts a completed one back.
- `billing_lost`: `SeenEvent` commits first, so an event whose handling fails is not applied when resent.

Three more that the models show with one line added to them; the properties that are checked say how far they go:

- The "last fort" against double claims (`store/ledger.go:282`, `:352`) is a SELECT without a lock: of two runs
  both find a transaction free, and two documents settle automatically with it. `NoDoubleAuto` holds for one
  run at a time, `SoloRunRepairs` says that the next run left alone puts it right.
- "Later automatic runs do not overwrite" a decision (`store/ledger.go:163`, `httpapi/ledger.go:164`): the filter
  stands in `SettleTargets`, which is read once at the start; a confirmation taken after it is replaced.
  `OnlyRacesTouchDecisions` says that no other one is.
- `prev_hash` is "the row just before" (`004_audit.sql:33`, `:59`): overlapping transactions chain to the same row,
  and the verification reports rows nobody edited. `OnlyOverlapsAlarm` says that it reports no others.

Smaller ones that follow from the models: `capDefault` is no upper limit
as its comment says (`ambiguity.go:45`), `Cap` raises it to `Floor` for lower thresholds above 64; the
bound `worstRest` is never met, the worst that the query lets through is 37; raising the upper threshold can
turn "review" into "auto", when it makes room for a cap that takes an ambiguous candidate out of a
certain one's way; the threshold page starts from 95/70 and says it is the API's default, which is 95/55
(`thresholds_controller.rb:65`, `decide.go:70`); after a reopening,
`SaveResult` can leave `auto_approve` with a person in `decided_by` (`003_matching.sql:63` says NULL), and its audit
row does not name that person; a `needs_review` after a person's decision violates a constraint and is retried until
the job is given up; a worker that comes back late to a completed job with its last attempt marks a decided document
as failed, `Fail` and `MarkDocumentError` being fenced by nothing; a commit whose answer is lost reopens the job
by the same way;
`Claim` never looks at `max_attempts`, so lapses allow attempts beyond it (`AttemptsBounded` says how
many); a death between `Fail` and `MarkDocumentError` leaves a given-up document shown as received;
outside canceled contracts older events do overwrite newer ones; a `past_due` update that arrives
without its invoice event stops uploads with no grace; the audit row of an event for a canceled
contract tells the announced status. A bank statement handed in as a card's is accepted where its column 出金額
is found for 金額, and is then refused as imported already when it comes as what it is. The audit row of a name
learnt with a settlement has the document's number as `target_id`, which may be another name's, and is missing
when its statement fails; two people who take the same name back both write to the log; `Approve` does not ask
whether somebody decided meanwhile, so the partner on an old screen is written. Two administrators at once leave
two rows of `thresholds` open; the one whose transaction began last counts, which need not be the last to commit.
The simulation of thresholds counts scores of two decimals where the worker judged the unrounded one.
Of a document that was read twice, only the kept reading's cost is counted.

## 7 What is not modelled, and why

`PROJECT.json` lists every part with its status. Out of reach or without state worth checking: image
processing, OCR and field extraction (numeric code over pixels, regular expressions over text), the
Rails forms and reports, sessions and signatures, the commands for seeding and measuring, the test
data generator. Abstracted inside the models: texts and explanations, what a batch's files contain,
amounts and names (as ratings or likenesses), timestamps (as past or future), hashes (as a free function).
The look-up of registration numbers (`invoice/lookup.go`) is called by nothing in the server. Matching two names
and splitting a page (C++) are pure functions of their input, of which the models take any table or none. Uploads
save files one by one before their rows are inserted together; files without rows are read by nobody.

## 8 Plan

Every safety property that a passing run checks is a theorem. What is worth doing next: for the liveness properties, the
measures that each fair step lowers, as action properties with their proofs; and that the decision `Settlement`
takes from a rating is the one `Scoring` concludes, stated as a theorem over both modules.
