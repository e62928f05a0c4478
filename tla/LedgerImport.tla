---------------------------- MODULE LedgerImport ----------------------------
(***************************************************************************)
(* Importing bank and card statements.                                     *)
(*                                                                         *)
(* A statement is a file of lines.  Parse turns the lines into rows and    *)
(* counts, within the file, the rows that look the same; source, content   *)
(* and count make the fingerprint by which a row is recognised when        *)
(* statements overlap.  ImportBatch stores a file in one transaction: the  *)
(* file's own row first, then row after row, leaving out what is already   *)
(* there.  Imports run side by side, and no two of them need to read the   *)
(* days in the same order: some banks list the newest line first.          *)
(*                                                                         *)
(* PostgreSQL: an INSERT that meets the key of an uncommitted row waits    *)
(* for that transaction to end; transactions that wait for each other in a *)
(* circle are found, and one of them is aborted.                           *)
(*                                                                         *)
(* Assumed of banks: a statement that shows the later of two bookings that *)
(* look the same shows the earlier one too.  It holds for statements of    *)
(* whole days; README.md says what happens where it fails.                 *)
(***************************************************************************)
EXTENDS Integers, Sequences, FiniteSets, SequencesExt

CONSTANTS
  Importers,   \* requests to POST /v1/transactions/import that run side by side
  Payments,    \* what the client's money did, by day: [source, day, amount, text]
  Booked,      \* how often the bank booked each of them
  MaxUploads   \* bound: files that are handed in

Kinds   == DOMAIN Payments
Sources == {"bank", "card"}

Unreadable == 0   \* a date parseDate cannot read

ASSUME ImportersAreFinite == IsFiniteSet(Importers)
ASSUME BookedIsCount == Booked \in [Kinds -> Nat]
ASSUME PaymentsDiffer == \A k, l \in Kinds : Payments[k] = Payments[l] => k = l
ASSUME PaymentsMoveMoney ==
  \A k \in Kinds : Payments[k] \in
    [source : Sources, day : Nat \ {Unreadable}, amount : Int \ {0}, text : STRING]
ASSUME MaxUploadsIsCount == MaxUploads \in Nat

VARIABLES
  batches,     \* table import_batches, committed: file, row_count, skipped_count
  ledger,      \* table transactions, committed: the fingerprints of its rows
  pc,          \* per importer: "idle", "register" or "insert"
  file,        \* the file at hand, as bytes: the lines
  todo,        \* the rows that are still to be inserted, by line
  mine,        \* fingerprints inserted by the open transaction
  skipped,     \* rows the open transaction found already there
  answer,      \* what the last request was told
  uploads      \* budget

vars == <<batches, ledger, pc, file, todo, mine, skipped, answer, uploads>>

-----------------------------------------------------------------------------
(* Statements, as banks and card companies print them.                     *)

Positive(n) == IF n > 0 THEN n ELSE 0

BankLine(p) == [day |-> p.day, text |-> p.text, out |-> Positive(-p.amount), in |-> Positive(p.amount)]
CardLine(p) == [day |-> p.day, text |-> p.text, amount |-> -p.amount]
LineOf(p) == IF p.source = "bank" THEN BankLine(p) ELSE CardLine(p)
CarriedOver == [day |-> 1, text |-> "carried over", out |-> 0, in |-> 0]

\* How often lines show each payment.
ShownIn(lines) ==
  [k \in Kinds |-> Cardinality({n \in DOMAIN lines : lines[n] = LineOf(Payments[k])})]

\* The bookings of a source by now, or some of them, by day.
Bookings(source) ==
  LET all   == UNION {{k} \X (1 .. Booked[k]) : k \in Kinds}
      lines == {LineOf(Payments[k]) : k \in {l \in Kinds : Payments[l].source = source}}
  IN  {s \in UNION {[1 .. n -> lines] : n \in 1 .. Cardinality(all)} :
         /\ \A k \in Kinds : ShownIn(s)[k] <= Booked[k]
         /\ \A m, n \in DOMAIN s : m < n => s[m].day <= s[n].day}

Statements(source) ==
  IF source = "bank" THEN {<<CarriedOver>> \o s : s \in Bookings("bank")} ELSE Bookings(source)

Damaged(lines) == [lines EXCEPT ![Len(lines)].day = Unreadable]

\* What may be handed in: the newest line last or first, or a date nobody can read.
Files(source) == UNION {{s, Reverse(s), Damaged(s)} : s \in Statements(source)}

HandedIn == [source \in Sources |-> Files(source)]

-----------------------------------------------------------------------------
(* Package ledger: lines to rows.                                          *)

NoRow == [day |-> Unreadable, amount |-> 0, direction |-> "none", text |-> ""]

Content(line, amount, direction) ==
  [day |-> line.day, amount |-> amount, direction |-> direction, text |-> line.text]

\* One line of parseBank: a line that moved nothing is no row.
BankRow(line) ==
  CASE line.out > 0 -> Content(line, line.out, "out")
    [] line.out <= 0 /\ line.in > 0 -> Content(line, line.in, "in")
    [] OTHER -> NoRow

\* Mutant: the sign of a refund stays.
CardRowSigned(line) ==
  CASE line.amount > 0 -> Content(line, line.amount, "out")
    [] line.amount < 0 -> Content(line, line.amount, "in")
    [] OTHER -> NoRow

\* One line of parseCard: cards pay out, and a negative amount is a refund.
CardRow(line) ==
  CASE line.amount > 0 -> Content(line, line.amount, "out")
    [] line.amount < 0 -> Content(line, -line.amount, "in")
    [] OTHER -> NoRow

RowOf(source, line) == IF source = "bank" THEN BankRow(line) ELSE CardRow(line)

\* The lines that are rows.
Moving(source, lines) == {n \in DOMAIN lines : RowOf(source, lines[n]) # NoRow}

\* Mutant: rows that look the same are one.
OccurrenceIgnored(source, lines, n) == 0

\* The how-manieth row of its content this is, counting from 0.
Occurrence(source, lines, n) ==
  Cardinality({m \in 1 .. n - 1 : RowOf(source, lines[m]) = RowOf(source, lines[n])})

Fingerprint(source, content, occurrence) ==
  [source |-> source, content |-> content, occurrence |-> occurrence]

Readable(source, lines) ==
  /\ \A n \in DOMAIN lines : lines[n].day # Unreadable
  /\ Moving(source, lines) # {}

\* The fingerprints of a file's rows, by line.
Parse(source, lines) ==
  [n \in Moving(source, lines) |->
     Fingerprint(source, RowOf(source, lines[n]), Occurrence(source, lines, n))]

-----------------------------------------------------------------------------
(* The state.                                                              *)

Fingerprints ==
  [source : Sources,
   content : [day : Nat \ {Unreadable}, amount : Nat \ {0}, direction : {"in", "out"}, text : STRING],
   occurrence : Nat]

TypeOK ==
  /\ ledger \subseteq Fingerprints
  /\ \A b \in batches : b.inserted \in Nat /\ b.skipped \in Nat
  /\ pc \in [Importers -> {"idle", "register", "insert"}]
  /\ DOMAIN file = Importers /\ DOMAIN todo = Importers
  /\ \A i \in Importers : DOMAIN todo[i] \subseteq Nat /\ Range(todo[i]) \subseteq Fingerprints
  /\ mine \in [Importers -> SUBSET Fingerprints]
  /\ skipped \in [Importers -> Nat]
  /\ answer \in [Importers -> {"none", "unreadable", "duplicate", "failed", "imported"}]
  /\ uploads \in 0 .. MaxUploads

Init ==
  /\ batches = {} /\ ledger = {}
  /\ pc = [i \in Importers |-> "idle"]
  /\ file = [i \in Importers |-> <<>>]
  /\ todo = [i \in Importers |-> <<>>]
  /\ mine = [i \in Importers |-> {}]
  /\ skipped = [i \in Importers |-> 0]
  /\ answer = [i \in Importers |-> "none"]
  /\ uploads = 0

Imported == {b.lines : b \in batches}

-----------------------------------------------------------------------------
(* One import.                                                             *)

\* importTransactions up to ImportBatch: a file with a line that cannot be read is
\* refused as a whole.
Upload(i, source, lines) ==
  /\ pc[i] = "idle" /\ uploads < MaxUploads
  /\ uploads' = uploads + 1
  /\ file' = [file EXCEPT ![i] = lines]
  /\ IF Readable(source, lines)
       THEN /\ pc' = [pc EXCEPT ![i] = "register"]
            /\ todo' = [todo EXCEPT ![i] = Parse(source, lines)]
            /\ answer' = [answer EXCEPT ![i] = "none"]
       ELSE /\ answer' = [answer EXCEPT ![i] = "unreadable"]
            /\ UNCHANGED <<pc, todo>>
  /\ UNCHANGED <<batches, ledger, mine, skipped>>

\* The transaction is over: its rows are released, and kept only by Commit.
Ends(i, told) ==
  /\ pc' = [pc EXCEPT ![i] = "idle"]
  /\ todo' = [todo EXCEPT ![i] = <<>>]
  /\ mine' = [mine EXCEPT ![i] = {}]
  /\ skipped' = [skipped EXCEPT ![i] = 0]
  /\ answer' = [answer EXCEPT ![i] = told]
  /\ UNCHANGED <<file, uploads>>

\* The line whose row is inserted next: the rows go in the file's order.
NextLine(i) == Min(DOMAIN todo[i])
NextRow(i)  == todo[i][NextLine(i)]

\* Importers whose open transaction holds what i wants to insert next.
WaitsFor(i) ==
  {j \in Importers \ {i} :
     \/ pc[i] = "register" /\ pc[j] = "insert" /\ file[j] = file[i]
     \/ pc[i] = "insert" /\ DOMAIN todo[i] # {} /\ NextRow(i) \in mine[j]}

\* Mutant: the file's own row is committed ahead of its rows.
RegisterAlone(i) ==
  /\ pc[i] = "register" /\ WaitsFor(i) = {}
  /\ file[i] \notin Imported
  /\ pc' = [pc EXCEPT ![i] = "insert"]
  /\ batches' = batches \cup {[lines |-> file[i], inserted |-> 0, skipped |-> 0]}
  /\ UNCHANGED <<ledger, file, todo, mine, skipped, answer, uploads>>

\* INSERT INTO import_batches, ON CONFLICT (client_id, file_sha256) DO NOTHING.
Register(i) ==
  /\ pc[i] = "register" /\ WaitsFor(i) = {}
  /\ file[i] \notin Imported
  /\ pc' = [pc EXCEPT ![i] = "insert"]
  /\ UNCHANGED <<batches, ledger, file, todo, mine, skipped, answer, uploads>>

Refuse(i) ==
  /\ pc[i] = "register" /\ WaitsFor(i) = {}
  /\ file[i] \in Imported
  /\ Ends(i, "duplicate")
  /\ UNCHANGED <<batches, ledger>>

\* INSERT INTO transactions, ON CONFLICT (client_id, row_fingerprint) DO NOTHING.
Insert(i) ==
  /\ pc[i] = "insert" /\ DOMAIN todo[i] # {} /\ WaitsFor(i) = {}
  /\ todo' = [todo EXCEPT ![i] = Restrict(@, DOMAIN @ \ {NextLine(i)})]
  /\ IF NextRow(i) \in ledger \cup mine[i]
       THEN skipped' = [skipped EXCEPT ![i] = @ + 1] /\ UNCHANGED mine
       ELSE mine' = [mine EXCEPT ![i] = @ \cup {NextRow(i)}] /\ UNCHANGED skipped
  /\ UNCHANGED <<batches, ledger, pc, file, answer, uploads>>

\* UPDATE import_batches with the counts, COMMIT.
Commit(i) ==
  /\ pc[i] = "insert" /\ DOMAIN todo[i] = {}
  /\ batches' = batches \cup {[lines |-> file[i], inserted |-> Cardinality(mine[i]), skipped |-> skipped[i]]}
  /\ ledger' = ledger \cup mine[i]
  /\ Ends(i, "imported")

\* Mutant: an error returns without the rollback, and the transaction stays open.
AbortHolding(i) ==
  /\ pc[i] # "idle"
  /\ answer' = [answer EXCEPT ![i] = "failed"]
  /\ UNCHANGED <<batches, ledger, pc, file, todo, mine, skipped, uploads>>

\* The deferred Rollback: nothing of the file stays.
Abort(i) ==
  /\ pc[i] # "idle"
  /\ Ends(i, "failed")
  /\ UNCHANGED <<batches, ledger>>

\* The transactions i waits for, and those they wait for, and so on: what is in every
\* set that holds the first and with each transaction those it waits for.
WaitsInTheEndFor(i) ==
  {j \in Importers : \A S \in SUBSET Importers :
     WaitsFor(i) \subseteq S /\ (\A l \in S : WaitsFor(l) \subseteq S) => j \in S}

\* PostgreSQL finds a circle of waiting transactions and aborts one of it.
Deadlocked(i) == i \in WaitsInTheEndFor(i)

AbortVictim(i) == Deadlocked(i) /\ Abort(i)

ImportStep(i) == Register(i) \/ Refuse(i) \/ Insert(i) \/ Commit(i)

Next ==
  \E i \in Importers :
    \/ \E source \in Sources : \E lines \in HandedIn[source] : Upload(i, source, lines)
    \/ ImportStep(i)
    \/ Abort(i)

\* A request that can go on does; whether it is handed in or fails is up to others.
Fairness == \A i \in Importers : WF_vars(ImportStep(i)) /\ WF_vars(AbortVictim(i))

Spec == Init /\ [][Next]_vars /\ Fairness

-----------------------------------------------------------------------------

ContentOf(p) ==
  [day |-> p.day, amount |-> IF p.amount < 0 THEN -p.amount ELSE p.amount,
   direction |-> IF p.amount < 0 THEN "out" ELSE "in", text |-> p.text]

\* The rows of a payment in the ledger, and how many they are.
InLedger(k) ==
  {f \in ledger : f.source = Payments[k].source /\ f.content = ContentOf(Payments[k])}
Counted(k) == Cardinality(InLedger(k))

\* The lines of a file that show a payment.
Showing(lines) == {n \in DOMAIN lines : \E k \in Kinds : lines[n] = LineOf(Payments[k])}

\* The rows that requests were told were inserted.
Receipts == UNION {{b} \X (1 .. b.inserted) : b \in batches}

\* A request is told the truth: of a file that was "imported", or is refused because
\* it was imported before, every line that moved money is in the ledger now; the counts
\* it was given add up to its lines and, over all files, to the ledger, and nothing but
\* payments gets there.
AnswersAreTrue ==
  /\ \A i \in Importers : answer[i] \in {"imported", "duplicate"} =>
       file[i] \in Imported /\ \A k \in Kinds : Counted(k) >= ShownIn(file[i])[k]
  /\ \A b \in batches : b.inserted + b.skipped = Cardinality(Showing(b.lines))
  /\ Cardinality(Receipts) = Cardinality(ledger)
  /\ \A f \in ledger : \E k \in Kinds : f.source = Payments[k].source /\ f.content = ContentOf(Payments[k])

\* ImportBatch stores a statement as a whole or not at all, and two bookings that look
\* the same as two: the ledger counts as LedgerPromise says.
Promise == INSTANCE LedgerPromise WITH
  absorbed <- {ShownIn(b.lines) : b \in batches},
  counted  <- [k \in Kinds |-> Counted(k)]

ImportsAreWhole == Promise!Spec

\* What EveryImportEnds rests on, in every single state: while requests are under way one
\* of them can go on or is in a circle; who waits, waits for a transaction that is open.
SomeoneGoesOn ==
  (\E i \in Importers : pc[i] # "idle") =>
    \E i \in Importers : pc[i] # "idle" /\ (WaitsFor(i) = {} \/ Deadlocked(i))

\* Every request is answered, also if two statements list the same days in opposite
\* order and their transactions wait for each other.
EveryImportEnds == \A i \in Importers : pc[i] # "idle" ~> pc[i] = "idle"

-----------------------------------------------------------------------------
(* The inductive invariant of the proofs in LedgerImportProofs.            *)

RowsOfKind(k, shown) ==
  {Fingerprint(Payments[k].source, ContentOf(Payments[k]), o) : o \in 0 .. shown - 1}

\* The rows of a file, wherever they are.
RowsOf(lines) == UNION {RowsOfKind(k, ShownIn(lines)[k]) : k \in Kinds}

\* The lines a source prints.
LinesOf(source) ==
  {LineOf(Payments[k]) : k \in {l \in Kinds : Payments[l].source = source}}
    \cup (IF source = "bank" THEN {CarriedOver} ELSE {})

FilesAreLines ==
  \A i \in Importers : pc[i] # "idle" => \E source \in Sources : file[i] \in Seq(LinesOf(source))

\* On its way to the ledger no row of a file is lost, none comes in from elsewhere, and
\* each of its lines is in one count.
Underway(i) ==
  /\ RowsOf(file[i]) \subseteq ledger \cup mine[i] \cup Range(todo[i])
  /\ mine[i] \cup Range(todo[i]) \subseteq RowsOf(file[i])
  /\ IsFiniteSet(DOMAIN todo[i]) /\ IsFiniteSet(mine[i])
  /\ skipped[i] + Cardinality(mine[i]) + Cardinality(DOMAIN todo[i])
       = Cardinality(Showing(file[i]))

RowsUnderway ==
  \A i \in Importers : /\ pc[i] # "idle" => Underway(i)
                       /\ pc[i] # "insert" => mine[i] = {} /\ skipped[i] = 0

\* A row has one inserter.
RowsApart ==
  \A i \in Importers : /\ mine[i] \cap ledger = {}
                       /\ \A j \in Importers \ {i} : mine[i] \cap mine[j] = {}

\* So has a file.
FilesApart ==
  \A i \in Importers : pc[i] = "insert" =>
    /\ file[i] \notin Imported
    /\ \A j \in Importers \ {i} : pc[j] = "insert" => file[j] # file[i]

ToldOfImported ==
  \A i \in Importers : answer[i] \in {"imported", "duplicate"} => file[i] \in Imported

\* What is committed is whole, counted, and without gaps in the numbers of equal rows.
LedgerIsWhole ==
  /\ IsFiniteSet(ledger)
  /\ \A b \in batches : /\ ShownIn(b.lines) \in [Kinds -> Nat] /\ RowsOf(b.lines) \subseteq ledger
                         /\ b.inserted + b.skipped = Cardinality(Showing(b.lines))
  /\ \A k \in Kinds : Counted(k) \in Nat /\ InLedger(k) = RowsOfKind(k, Counted(k))
  /\ \A f \in ledger : \E k \in Kinds : f \in InLedger(k)

InsertedIsCounted == IsFiniteSet(Receipts) /\ Cardinality(Receipts) = Cardinality(ledger)

IndInv ==
  /\ TypeOK /\ FilesAreLines /\ RowsUnderway /\ RowsApart /\ FilesApart
  /\ ToldOfImported /\ LedgerIsWhole /\ InsertedIsCounted
=============================================================================
