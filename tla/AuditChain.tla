----------------------------- MODULE AuditChain -----------------------------
(***************************************************************************)
(* The hash chain of the table audit_logs and its verification.            *)
(*                                                                         *)
(* Every transaction of the system that decides something inserts audit    *)
(* rows.  An insertion draws the row's ID from the sequence, and then the  *)
(* trigger audit_logs_chain looks up the hash of the last row it can see:  *)
(* committed rows and those of its own transaction.  The rows of others    *)
(* that are drawn but not committed are invisible to it.                   *)
(***************************************************************************)
EXTENDS Integers

CONSTANTS
  Writers,   \* connections that insert audit rows
  Contents,  \* what audit rows say
  MaxRows,   \* bound: IDs drawn
  MaxEdits   \* bound: rows changed directly in the database

ASSUME BoundsAreNaturals == {MaxRows, MaxEdits} \subseteq Nat

VARIABLES
  nextId,     \* audit_logs_id_seq
  log,        \* committed rows, by ID
  drawn,      \* per writer: the ID of the row being inserted, or 0
  pending,    \* per writer: rows of its transaction, by ID
  \* history and budget
  written,    \* each row as the trigger left it
  overlapped, \* rows whose transaction ran while another one did
  rehashed,   \* rows whose hash somebody has rewritten
  edits

vars == <<nextId, log, drawn, pending, written, overlapped, rehashed, edits>>

\* sha256 as a free function: different arguments, different hashes.  Anybody can compute it.
NoHash              == <<>>
Hash(prev, content) == <<prev, content>>

RowPrevForgotten(prev, content) ==
  [prev |-> NoHash, content |-> content, hash |-> Hash(prev, content)]

Row(prev, content) == [prev |-> prev, content |-> content, hash |-> Hash(prev, content)]

Ids(rows)  == DOMAIN rows
NoRows     == [i \in {} |-> NoHash]
With(rows, more) ==
  [i \in Ids(rows) \cup Ids(more) |-> IF i \in Ids(more) THEN more[i] ELSE rows[i]]

\* Rows of a transaction that has neither committed nor rolled back.
RowsOf(w) == Ids(pending[w]) \cup ({drawn[w]} \ {0})
Others(w) == UNION {RowsOf(o) : o \in Writers \ {w}}

Init ==
  /\ nextId = 1
  /\ log = NoRows
  /\ drawn = [w \in Writers |-> 0]
  /\ pending = [w \in Writers |-> NoRows]
  /\ written = NoRows
  /\ overlapped = {} /\ rehashed = {}
  /\ edits = 0

-----------------------------------------------------------------------------
(* Writers.                                                                *)

\* INSERT INTO audit_logs: nextval for the default of id.
Draw(w) ==
  /\ nextId <= MaxRows
  /\ drawn[w] = 0
  /\ drawn' = [drawn EXCEPT ![w] = nextId]
  /\ nextId' = nextId + 1
  /\ overlapped' = overlapped \cup Others(w)
                     \cup (IF Others(w) = {} THEN {} ELSE RowsOf(w) \cup {nextId})
  /\ UNCHANGED <<log, pending, written, rehashed, edits>>

FirstHash(rows) ==
  IF Ids(rows) = {} THEN {NoHash}
  ELSE {rows[j].hash : j \in {i \in Ids(rows) : \A k \in Ids(rows) : i <= k}}

\* SELECT row_hash FROM audit_logs ORDER BY id DESC LIMIT 1: one hash or NULL.
LastHash(rows) ==
  IF Ids(rows) = {} THEN {NoHash}
  ELSE {rows[j].hash : j \in {i \in Ids(rows) : \A k \in Ids(rows) : k <= i}}

\* The trigger audit_logs_chain, before the row is stored.
Chain(w, content) ==
  /\ drawn[w] # 0
  /\ \E prev \in LastHash(With(log, pending[w])) :
       LET new == [i \in {drawn[w]} |-> Row(prev, content)] IN
       /\ pending' = [pending EXCEPT ![w] = With(@, new)]
       /\ written' = With(written, new)
  /\ drawn' = [drawn EXCEPT ![w] = 0]
  /\ UNCHANGED <<nextId, log, overlapped, rehashed, edits>>

Commit(w) ==
  /\ drawn[w] = 0 /\ Ids(pending[w]) # {}
  /\ log' = With(log, pending[w])
  /\ pending' = [pending EXCEPT ![w] = NoRows]
  /\ UNCHANGED <<nextId, drawn, written, overlapped, rehashed, edits>>

\* An error rolls the transaction back; drawn IDs are not given back.
Rollback(w) ==
  /\ RowsOf(w) # {}
  /\ drawn' = [drawn EXCEPT ![w] = 0]
  /\ pending' = [pending EXCEPT ![w] = NoRows]
  /\ UNCHANGED <<nextId, log, written, overlapped, rehashed, edits>>

\* Somebody with access to the database changes a row, with the rules that ignore UPDATE
\* switched off: what it says, and perhaps its hashes as well; hash_version stays 2.
Edit(i, row) ==
  /\ edits < MaxEdits
  /\ edits' = edits + 1
  /\ log' = [log EXCEPT ![i] = row]
  /\ rehashed' = IF row.hash = log[i].hash THEN rehashed ELSE rehashed \cup {i}
  /\ UNCHANGED <<nextId, drawn, pending, written, overlapped>>

\* prev_hash stays, is the hash of some row, or NULL; row_hash stays or is computed again.
EditAnyhow(i, content) ==
  \E prev \in {log[i].prev, NoHash} \cup {log[j].hash : j \in Ids(log)} :
    \E hash \in {log[i].hash, Hash(prev, content)} :
      Edit(i, [prev |-> prev, content |-> content, hash |-> hash])

Next ==
  \/ \E w \in Writers : Draw(w) \/ Commit(w) \/ Rollback(w)
  \/ \E w \in Writers, content \in Contents : Chain(w, content)
  \/ \E i \in Ids(log), content \in Contents : EditAnyhow(i, content)

Spec == Init /\ [][Next]_vars

-----------------------------------------------------------------------------
(* verify_audit_chain(p_from_id, p_to_id).                                 *)

ScopeFromFirst(lo, hi) == {i \in Ids(log) : lo <= i /\ i <= hi}

\* The rows asked for and, if there is one, the row before them.
Scope(lo, hi) ==
  {i \in Ids(log) : i <= hi /\ (lo <= i \/ \A j \in Ids(log) : j < lo => j <= i)}

\* j is the row just before i among these.
JustBefore(j, i, scope) == j \in scope /\ j < i /\ \A k \in scope : k < i => k <= j

\* prev_hash IS DISTINCT FROM lag(row_hash), where there is a row before.
Broken(rows, scope, i) == \E j \in scope : JustBefore(j, i, scope) /\ rows[i].prev # rows[j].hash

ForgedUnnoticed(i) == FALSE

\* The second version of the hash is computed again from the row.
Forged(i) == log[i].hash # Hash(log[i].prev, log[i].content)

\* The first row of the scope has nothing before it: its prev_hash is compared with NULL
\* for the reason given, though not for being named.
Unlinked(scope, i) ==
  \/ Broken(log, scope, i)
  \/ log[i].prev # NoHash /\ \A j \in scope : i <= j

\* One reason for each row: a broken chain goes before content that does not fit.
Reason(scope, i) == IF Unlinked(scope, i) THEN "chain" ELSE "content"

Bad(scope) ==
  {[id |-> i, reason |-> Reason(scope, i)] :
     i \in {k \in scope : Broken(log, scope, k) \/ Forged(k)}}

Everything == Bad(Ids(log))

-----------------------------------------------------------------------------
(* Properties.                                                             *)

\* The trigger hashes what it stores, every ID belongs to one row, and the hash in the table
\* is the trigger's unless somebody rewrote it.
Hashed(rows) ==
  \A i \in Ids(rows) :
    /\ i \in Ids(written)
    /\ rows[i] = [prev |-> rows[i].prev, content |-> rows[i].content, hash |-> rows[i].hash]
    /\ rows[i].hash = written[i].hash \/ i \in rehashed
TypeOK ==
  /\ nextId \in Nat \ {0}
  /\ drawn \in [Writers -> Nat]
  /\ DOMAIN pending = Writers
  /\ \A i \in Ids(written) : written[i] = Row(written[i].prev, written[i].content)
  /\ Hashed(log) /\ \A w \in Writers : Hashed(pending[w])
  /\ Ids(log) \subseteq 1 .. nextId - 1 /\ rehashed \subseteq Ids(log)
  /\ \A w \in Writers : RowsOf(w) \subseteq (1 .. nextId - 1) \ Ids(log)
  /\ \A v, w \in Writers : v # w => RowsOf(v) \cap RowsOf(w) = {}

Edited(i) == log[i] # written[i]
Named(i)  == \E alarm \in Everything : alarm.id = i

\* 010_audit_verify.sql: a row cannot be changed without the verification naming it, also
\* where the chain is broken anyway, unless its hash is computed again.  Then the row after
\* it is named for its broken chain, if it had been chained to the changed row and was not
\* changed as well.  Rows said to be rewritten were.
EditsDetected ==
  /\ \A i \in Ids(log) : Edited(i) =>
       \/ Named(i)
       \/ /\ log[i].hash # written[i].hash
          /\ \A j \in Ids(log) :
               JustBefore(i, j, Ids(log)) /\ ~Edited(j) /\ written[j].prev = written[i].hash
               => [id |-> j, reason |-> "chain"] \in Everything
  /\ \A alarm \in Everything : alarm.reason = "content" => Edited(alarm.id)

\* A row that nobody changed is named only if its transaction overlapped another one, or
\* the hash of the row before it has been rewritten.
OnlyOverlapsAlarm ==
  \A i \in Ids(log) : Named(i) /\ ~Edited(i) =>
    i \in overlapped \/ \E j \in rehashed : JustBefore(j, i, Ids(log))

\* The screen verifies the rows it shows: a row in the range is named exactly if the
\* verification of the whole table names it, and for the same reason.
RangesAgree ==
  \A lo, hi \in 1 .. MaxRows :
    {alarm \in Bad(Scope(lo, hi)) : alarm.id \in lo .. hi}
      = {alarm \in Everything : alarm.id \in lo .. hi}

-----------------------------------------------------------------------------
(* The inductive invariant of the proofs in AuditChainProofs.              *)

\* A transaction with a row that overlapped nothing is the only one under way.
AloneUnlessOverlapped == \A w \in Writers : RowsOf(w) \ overlapped # {} => Others(w) = {}

\* Rows under way come after every committed row that overlapped nothing; the row being
\* inserted comes after those of its transaction and, if it overlapped nothing, after
\* every committed row.
InOrder ==
  /\ \A i \in Ids(log) \ overlapped, w \in Writers : \A k \in RowsOf(w) : i < k
  /\ \A w \in Writers : drawn[w] # 0 =>
       /\ \A k \in Ids(pending[w]) : k < drawn[w]
       /\ drawn[w] \notin overlapped => \A k \in Ids(log) : k < drawn[w]

\* The chain as the trigger left it: i was chained to the row before it, whose hash may have
\* been rewritten since.
ChainedIn(ids, i) ==
  \A j \in ids \ rehashed : JustBefore(j, i, ids) => written[i].prev = written[j].hash

\* Rows under way are as the trigger left them.
Untouched == \A w \in Writers : \A i \in Ids(pending[w]) : pending[w][i] = written[i]

\* Where nothing overlapped, the chain is whole, also inside a transaction.
Whole ==
  /\ \A i \in Ids(log) \ overlapped : ChainedIn(Ids(log), i)
  /\ \A w \in Writers : \A i \in Ids(pending[w]) \ overlapped :
       ChainedIn(Ids(log) \cup Ids(pending[w]), i)

IndInv == TypeOK /\ AloneUnlessOverlapped /\ InOrder /\ Untouched /\ Whole
=============================================================================
