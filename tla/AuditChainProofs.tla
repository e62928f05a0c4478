-------------------------- MODULE AuditChainProofs --------------------------
(***************************************************************************)
(* What the verification of the audit log promises for any number of       *)
(* connections, rows, rollbacks and edits.                                 *)
(***************************************************************************)
EXTENDS AuditChain, WellFoundedInduction, TLAPS

\* A union of rows has the IDs of both, and the second ones win.
LEMMA WithRows ==
  ASSUME NEW rows, NEW more
  PROVE  /\ Ids(With(rows, more)) = Ids(rows) \cup Ids(more)
         /\ \A i \in Ids(more) : With(rows, more)[i] = more[i]
         /\ \A i \in Ids(rows) \ Ids(more) : With(rows, more)[i] = rows[i]
  BY DEF With, Ids

\* Adding rows that come later does not change what is before a row.
LEMMA LaterRowsDoNotBreak ==
  ASSUME NEW ids, NEW moreIds, NEW i \in ids,
         ids \subseteq Int, moreIds \subseteq Int, ids \subseteq moreIds,
         \A k \in moreIds \ ids : i < k,
         ChainedIn(ids, i)
  PROVE  ChainedIn(moreIds, i)
<1> SUFFICES ASSUME NEW j \in moreIds \ rehashed, JustBefore(j, i, moreIds)
             PROVE  written[i].prev = written[j].hash
  BY DEF ChainedIn
<1>1. j \in ids
  BY DEF JustBefore
<1>2. JustBefore(j, i, ids)
  BY <1>1 DEF JustBefore
<1>3. QED
  BY <1>1, <1>2 DEF ChainedIn

\* What was chained stays so while no row is inserted; rewriting hashes only excuses.
LEMMA ChainedStays ==
  ASSUME NEW ids, NEW i, ChainedIn(ids, i),
         rehashed \subseteq rehashed', UNCHANGED written
  PROVE  ChainedIn(ids, i)'
  BY DEF ChainedIn, JustBefore

\* A set of natural numbers below a bound has a greatest one.
LEMMA Greatest ==
  ASSUME NEW S, S \subseteq Nat, NEW bound \in Nat, \A x \in S : x < bound, NEW k \in S
  PROVE  \E m \in S : \A x \in S : x <= m
<1> DEFINE away == {bound - x : x \in S}
<1>1. away \subseteq Nat /\ bound - k \in away
  OBVIOUS
<1> DEFINE Less == OpToRel(<, Nat)
<1>2. IsWellFoundedOn(Less, Nat)
  BY NatLessThanWellFounded
<1>3. \A x, y \in Nat : x < y => <<x, y>> \in Less
  BY DEF OpToRel
<1> HIDE DEF Less, away
<1>4. PICK d \in away : \A e \in away : ~(e < d)
  <2>1. PICK d \in away : \A e \in away : ~ (<<e, d>> \in Less)
    BY <1>1, <1>2, WFMin
  <2>2. \A e \in away : ~(e < d)
    BY <1>1, <1>3, <2>1, Zenon
  <2>3. QED
    BY <2>2
<1>5. PICK m \in S : d = bound - m
  BY DEF away
<1>6. \A x \in S : bound - x \in away /\ x \in Nat
  BY DEF away
<1>7. \A x \in S : x <= m
  BY <1>4, <1>5, <1>6
<1>8. QED
  BY <1>7

\* The rows of the others, row by row.
LEMMA OthersAreOthers ==
  ASSUME NEW w \in Writers
  PROVE  Others(w) = {} <=> \A o \in Writers \ {w} : RowsOf(o) = {}
  BY DEF Others

\* The same after a step.
LEMMA OthersAreOthersNext ==
  ASSUME NEW w \in Writers
  PROVE  Others(w)' = {} <=> \A o \in Writers \ {w} : RowsOf(o)' = {}
  BY DEF Others

-----------------------------------------------------------------------------

\* The empty table.
LEMMA Initially == Init => IndInv
<1> SUFFICES ASSUME Init PROVE IndInv
  OBVIOUS
<1> USE DEF Init, NoRows, Ids
<1>1. \A w \in Writers : RowsOf(w) = {}
  BY DEF RowsOf
<1>2. TypeOK
  BY <1>1 DEF TypeOK, Hashed
<1>3. AloneUnlessOverlapped /\ InOrder /\ Untouched /\ Whole
  BY <1>1 DEF AloneUnlessOverlapped, InOrder, Untouched, Whole
<1>4. QED
  BY <1>2, <1>3 DEF IndInv

\* Drawing an ID marks every transaction it meets.
LEMMA DrawKeepsInv ==
  ASSUME IndInv, NEW w \in Writers, Draw(w)
  PROVE  IndInv'
<1> USE DEF IndInv
<1>1. /\ RowsOf(w)' = RowsOf(w) \cup {nextId} /\ RowsOf(w) = Ids(pending[w])
      /\ \A o \in Writers \ {w} : RowsOf(o)' = RowsOf(o)
  BY DEF Draw, RowsOf, TypeOK, Ids
<1>2. \A o \in Writers \ {w} : RowsOf(o) \subseteq Others(w)
  BY DEF Others
<1>3. \A o \in Writers \ {w} : RowsOf(o)' \subseteq overlapped'
  BY <1>1, <1>2 DEF Draw
<1>4. Others(w) # {} => RowsOf(w)' \subseteq overlapped'
  BY <1>1 DEF Draw
<1>5. overlapped \subseteq overlapped'
  BY DEF Draw
<1>6. TypeOK'
  BY <1>1 DEF Draw, TypeOK, Hashed, Ids
<1>7. AloneUnlessOverlapped'
  <2>1. ASSUME NEW v \in Writers, RowsOf(v)' \ overlapped' # {}
        PROVE  Others(v)' = {}
    <3>1. v = w /\ Others(w) = {}
      BY <2>1, <1>3, <1>4
    <3>2. QED
      BY <3>1, <1>1, OthersAreOthers, OthersAreOthersNext
  <2>2. QED
    BY <2>1 DEF AloneUnlessOverlapped
<1>8. InOrder'
  <2>1. ASSUME NEW i \in Ids(log) \ overlapped', NEW v \in Writers, NEW k \in RowsOf(v)'
        PROVE  i < k
    <3>1. CASE k \in RowsOf(v)
      BY <2>1, <3>1, <1>5 DEF InOrder
    <3>2. CASE k = nextId
      BY <2>1, <3>2 DEF TypeOK
    <3>3. QED
      BY <2>1, <3>1, <3>2, <1>1
  <2>2. ASSUME NEW v \in Writers, drawn'[v] # 0
        PROVE  /\ \A k \in Ids(pending[v]) : k < drawn'[v]
               /\ drawn'[v] \notin overlapped' => \A k \in Ids(log) : k < drawn'[v]
    <3>1. CASE v = w
      BY <3>1, <1>1 DEF Draw, TypeOK
    <3>2. CASE v # w
      <4>1. drawn'[v] = drawn[v] /\ drawn[v] \in RowsOf(v)'
        BY <2>2, <3>2, <1>1 DEF Draw, TypeOK, RowsOf
      <4>2. drawn'[v] \in overlapped'
        BY <3>2, <4>1, <1>3
      <4>3. QED
        BY <2>2, <4>1, <4>2 DEF InOrder
    <3>3. QED
      BY <3>1, <3>2
  <2>3. pending' = pending /\ log' = log
    BY DEF Draw
  <2>4. QED
    BY <2>1, <2>2, <2>3 DEF InOrder, Ids
<1>9. Whole' /\ Untouched'
  BY <1>5 DEF Draw, Whole, Untouched, ChainedIn, JustBefore, Ids
<1>10. QED
  BY <1>6, <1>7, <1>8, <1>9

\* A row that overlapped nothing is chained to the last row there is.
LEMMA ChainKeepsInv ==
  ASSUME IndInv, NEW w \in Writers, NEW content \in Contents, Chain(w, content)
  PROVE  IndInv'
<1> DEFINE d    == drawn[w]
           seen == With(log, pending[w])
<1> USE DEF IndInv
<1>1. PICK prev \in LastHash(seen) :
        /\ pending' = [pending EXCEPT ![w] = With(@, [i \in {d} |-> Row(prev, content)])]
        /\ written' = With(written, [i \in {d} |-> Row(prev, content)])
  BY DEF Chain
<1>2. /\ pending'[w] = With(pending[w], [i \in {d} |-> Row(prev, content)])
      /\ \A o \in Writers \ {w} : pending'[o] = pending[o]
  BY <1>1 DEF TypeOK
<1>3. /\ Ids(pending'[w]) = Ids(pending[w]) \cup {d}
      /\ pending'[w][d] = Row(prev, content)
      /\ \A i \in Ids(pending[w]) \ {d} : pending'[w][i] = pending[w][i]
      /\ Ids(written') = Ids(written) \cup {d}
      /\ written'[d] = Row(prev, content)
      /\ \A i \in Ids(written) \ {d} : written'[i] = written[i]
  <2> DEFINE one == [i \in {d} |-> Row(prev, content)]
  <2>1. Ids(one) = {d} /\ one[d] = Row(prev, content)
    BY DEF Ids
  <2>2. pending'[w] = With(pending[w], one) /\ written' = With(written, one)
    BY <1>1, <1>2
  <2> HIDE DEF one
  <2>3. QED
    BY <2>1, <2>2, WithRows
<1>5. \A o \in Writers : RowsOf(o)' = RowsOf(o)
  BY <1>2, <1>3 DEF Chain, RowsOf, TypeOK, Ids
<1>6. /\ d # 0 /\ log' = log /\ overlapped' = overlapped /\ nextId' = nextId
      /\ drawn' = [drawn EXCEPT ![w] = 0] /\ rehashed' = rehashed
  BY DEF Chain
<1>7. /\ d \in RowsOf(w) /\ d \notin Ids(log) /\ \A k \in Ids(pending[w]) : k < d
      /\ d \in Nat /\ Ids(log) \subseteq Nat /\ Ids(pending[w]) \subseteq Nat
      /\ \A o \in Writers \ {w} : d \notin Ids(pending[o])
  BY <1>6 DEF TypeOK, RowsOf, InOrder
<1>8. TypeOK'
  <2>1. Hashed(log)'
    BY <1>3, <1>6, <1>7 DEF TypeOK, Hashed, Ids
  <2>2. ASSUME NEW o \in Writers \ {w}
        PROVE  Hashed(pending[o])'
    <3>1. pending'[o] = pending[o] /\ d \notin Ids(pending[o]) /\ Hashed(pending[o])
      BY <1>2, <1>7 DEF TypeOK
    <3>2. QED
      BY <3>1, <1>3, <1>6 DEF Hashed, Ids
  <2>3. Hashed(pending[w])'
    <3>1. ASSUME NEW i \in Ids(pending'[w])
          PROVE  /\ i \in Ids(written')
                 /\ pending'[w][i] = [prev |-> pending'[w][i].prev,
                      content |-> pending'[w][i].content, hash |-> pending'[w][i].hash]
                 /\ pending'[w][i].hash = written'[i].hash \/ i \in rehashed
      <4>1. CASE i = d
        BY <4>1, <1>3 DEF Row
      <4>2. CASE i # d
        <5>1. i \in Ids(pending[w]) /\ pending'[w][i] = pending[w][i]
          BY <4>2, <1>3
        <5>2. Hashed(pending[w])
          BY DEF TypeOK
        <5>3. QED
          BY <4>2, <5>1, <5>2, <1>3 DEF Hashed
      <4>3. QED
        BY <4>1, <4>2
    <3>2. QED
      BY <3>1, <1>6 DEF Hashed, Ids
  <2>4. /\ drawn' \in [Writers -> Nat] /\ DOMAIN pending' = Writers
        /\ nextId' \in Nat \ {0} /\ Ids(log') \subseteq 1 .. nextId' - 1
        /\ rehashed' \subseteq Ids(log')
    BY <1>1, <1>6 DEF TypeOK, Ids
  <2>5. /\ \A v \in Writers : RowsOf(v)' \subseteq (1 .. nextId' - 1) \ Ids(log')
        /\ \A u, v \in Writers : u # v => RowsOf(u)' \cap RowsOf(v)' = {}
    BY <1>5, <1>6 DEF TypeOK
  <2>6. \A i \in Ids(written') : written'[i] = Row(written'[i].prev, written'[i].content)
    BY <1>3 DEF TypeOK, Row
  <2>7. QED
    BY <2>1, <2>2, <2>3, <2>4, <2>5, <2>6 DEF TypeOK, Ids
<1>9. AloneUnlessOverlapped'
  BY <1>5, <1>6, OthersAreOthers, OthersAreOthersNext DEF AloneUnlessOverlapped
<1>10. InOrder'
  <2>1. \A i \in Ids(log) \ overlapped, v \in Writers : \A k \in RowsOf(v)' : i < k
    BY <1>5 DEF InOrder
  <2>2. \A v \in Writers : drawn'[v] # 0 => v # w /\ drawn'[v] = drawn[v]
    BY <1>6 DEF TypeOK
  <2>3. QED
    BY <2>1, <2>2, <1>2, <1>6 DEF InOrder, Ids
<1>11. Untouched'
  <2>1. ASSUME NEW o \in Writers, NEW i \in Ids(pending'[o])
        PROVE  pending'[o][i] = written'[i]
    <3>1. CASE o = w /\ i = d
      BY <3>1, <1>3
    <3>2. CASE o = w /\ i # d
      <4>1. i \in Ids(pending[w]) /\ pending'[w][i] = pending[w][i]
        BY <2>1, <3>2, <1>3
      <4>2. i \in Ids(written) /\ pending[w][i] = written[i]
        BY <4>1 DEF Untouched, TypeOK, Hashed
      <4>3. QED
        BY <3>2, <4>1, <4>2, <1>3
    <3>3. CASE o # w
      <4>1. i # d /\ pending'[o] = pending[o] /\ i \in Ids(pending[o])
        BY <2>1, <3>3, <1>2, <1>7
      <4>2. i \in Ids(written) /\ pending[o][i] = written[i]
        BY <4>1 DEF Untouched, TypeOK, Hashed
      <4>3. QED
        BY <4>1, <4>2, <1>3
    <3>4. QED
      BY <3>1, <3>2, <3>3
  <2>2. QED
    BY <2>1 DEF Untouched, Ids
<1>12. Whole'
  <2>0. \A i : i # d /\ i \in Ids(written) => written'[i] = written[i]
    BY <1>3
  <2>1. ASSUME NEW ids, ids \subseteq Ids(written), d \notin ids, NEW i \in ids, ChainedIn(ids, i)
        PROVE  ChainedIn(ids, i)'
    <3>1. written'[i] = written[i] /\ \A j \in ids : written'[j] = written[j]
      BY <2>0, <2>1
    <3>2. QED
      BY <2>1, <3>1, <1>6 DEF ChainedIn, JustBefore
  <2>2. /\ Ids(log) \subseteq Ids(written)
        /\ \A o \in Writers : Ids(pending[o]) \subseteq Ids(written)
    BY DEF TypeOK, Hashed
  <2>3. \A i \in Ids(log') \ overlapped' : ChainedIn(Ids(log), i)'
    BY <2>1, <2>2, <1>6, <1>7 DEF Whole
  <2>4. ASSUME NEW o \in Writers \ {w}, NEW i \in Ids(pending'[o]) \ overlapped'
        PROVE  ChainedIn(Ids(log) \cup Ids(pending[o]), i)'
    <3>1. /\ i \in Ids(pending[o]) \ overlapped /\ d \notin Ids(log) \cup Ids(pending[o])
          /\ Ids(log) \cup Ids(pending[o]) \subseteq Ids(written)
          /\ pending'[o] = pending[o]
      BY <2>2, <2>4, <1>2, <1>6, <1>7
    <3>2. ChainedIn(Ids(log) \cup Ids(pending[o]), i)
      BY <3>1 DEF Whole
    <3>3. ChainedIn(Ids(log) \cup Ids(pending[o]), i)' <=> \A j \in (Ids(log) \cup Ids(pending[o])) \ rehashed :
            JustBefore(j, i, Ids(log) \cup Ids(pending[o])) => written'[i].prev = written'[j].hash
      BY <1>6, <3>1 DEF ChainedIn, JustBefore, Ids
    <3>4. QED
      BY <2>0, <3>1, <3>2, <3>3 DEF ChainedIn
  <2>5. ASSUME NEW i \in Ids(pending'[w]) \ overlapped'
        PROVE  ChainedIn(Ids(log) \cup Ids(pending[w]), i)'
    <3> DEFINE ids == Ids(log) \cup Ids(pending[w])
    <3>1. (Ids(log) \cup Ids(pending[w]))' = ids \cup {d}
      BY <1>3, <1>6 DEF Ids
    <3>2. CASE i = d
      <4>1. ASSUME NEW j \in (ids \cup {d}) \ rehashed, JustBefore(j, d, ids \cup {d})
            PROVE  written'[d].prev = written'[j].hash
        <5>1. \A k \in ids : k < d
          BY <2>5, <3>2, <1>6, <1>7 DEF InOrder
        <5>2. j \in ids /\ \A k \in ids : k <= j
          BY <4>1, <5>1, <1>7 DEF JustBefore
        <5>3. Ids(seen) = ids
          BY WithRows
        <5>4. PICK m \in ids : (\A k \in ids : k <= m) /\ prev = seen[m].hash
          BY <5>2, <5>3, <1>1 DEF LastHash
        <5>5. m = j
          BY <5>2, <5>4, <1>7
        <5>6. seen[j].hash = written[j].hash
          <6>1. CASE j \in Ids(pending[w])
            BY <6>1, WithRows DEF Untouched
          <6>2. CASE j \notin Ids(pending[w])
            <7>1. j \in Ids(log) /\ j \notin rehashed /\ seen[j] = log[j]
              BY <5>2, <6>2, <4>1, WithRows
            <7>2. log[j].hash = written[j].hash
              BY <7>1 DEF TypeOK, Hashed
            <7>3. QED
              BY <7>1, <7>2
          <6>3. QED
            BY <6>1, <6>2
        <5>7. written'[j] = written[j]
          <6>1. j # d
            BY <5>1, <5>2, <1>7
          <6>2. j \in Ids(written)
            BY <2>2, <5>2
          <6>3. QED
            BY <2>0, <6>1, <6>2
        <5>8. QED
          BY <5>4, <5>5, <5>6, <5>7, <1>3 DEF Row
      <4>2. QED
        BY <4>1, <3>1, <3>2, <1>6 DEF ChainedIn, JustBefore
    <3>3. CASE i # d
      <4>1. i \in Ids(pending[w]) \ overlapped /\ i < d
        BY <2>5, <3>3, <1>3, <1>6, <1>7
      <4>2. ChainedIn(ids, i)
        BY <4>1 DEF Whole
      <4>3. ChainedIn(ids \cup {d}, i)
        BY <4>1, <4>2, <1>7, LaterRowsDoNotBreak
      <4>4. ASSUME NEW j \in (ids \cup {d}) \ rehashed, JustBefore(j, i, ids \cup {d})
            PROVE  written'[i].prev = written'[j].hash
        <5>1. j # d /\ j \in Ids(written) /\ i # d /\ i \in Ids(written)
          BY <2>2, <4>1, <4>4, <1>7 DEF JustBefore
        <5>2. written[i].prev = written[j].hash
          BY <4>3, <4>4 DEF ChainedIn
        <5>3. QED
          BY <2>0, <5>1, <5>2
      <4>5. QED
        BY <4>4, <3>1, <1>6 DEF ChainedIn, JustBefore
    <3>4. QED
      BY <3>2, <3>3
  <2>6. QED
    BY <2>3, <2>4, <2>5 DEF Whole, Ids
<1>13. QED
  BY <1>8, <1>9, <1>10, <1>11, <1>12

\* Rows that overlapped nothing are committed at the end of the table.
LEMMA CommitKeepsInv ==
  ASSUME IndInv, NEW w \in Writers, Commit(w)
  PROVE  IndInv'
<1> USE DEF IndInv
<1>1. /\ pending'[w] = NoRows /\ Ids(pending'[w]) = {}
      /\ \A o \in Writers \ {w} : pending'[o] = pending[o]
  BY DEF Commit, TypeOK, NoRows, Ids
<1>2. /\ drawn' = drawn /\ overlapped' = overlapped /\ nextId' = nextId /\ written' = written
      /\ log' = With(log, pending[w]) /\ drawn[w] = 0 /\ Ids(pending[w]) # {}
      /\ rehashed' = rehashed
  BY DEF Commit
<1>3. /\ RowsOf(w)' = {} /\ RowsOf(w) = Ids(pending[w])
      /\ \A o \in Writers \ {w} : RowsOf(o)' = RowsOf(o)
  BY <1>1, <1>2 DEF RowsOf, Ids
<1>4. Ids(log') = Ids(log) \cup Ids(pending[w])
  BY <1>2, WithRows
<1>5. \A o \in Writers \ {w} : RowsOf(o) \subseteq overlapped
  BY <1>2, <1>3, OthersAreOthers DEF AloneUnlessOverlapped
<1>6. /\ Ids(log) \subseteq Nat /\ Ids(pending[w]) \subseteq Nat
      /\ Ids(log) \cap Ids(pending[w]) = {}
  BY <1>3 DEF TypeOK
<1>7. TypeOK'
  <2>1. Hashed(log)'
    <3>1. ASSUME NEW i \in Ids(log')
          PROVE  \/ i \in Ids(pending[w]) /\ log'[i] = pending[w][i]
                 \/ i \in Ids(log) /\ log'[i] = log[i]
      BY <1>2, <1>4, WithRows
    <3>2. Hashed(log) /\ Hashed(pending[w])
      BY DEF TypeOK
    <3>3. ASSUME NEW i \in Ids(log')
          PROVE  /\ i \in Ids(written)
                 /\ log'[i] = [prev |-> log'[i].prev, content |-> log'[i].content,
                               hash |-> log'[i].hash]
                 /\ log'[i].hash = written[i].hash \/ i \in rehashed
      <4>1. CASE i \in Ids(pending[w]) /\ log'[i] = pending[w][i]
        BY <3>2, <4>1 DEF Hashed
      <4>2. CASE i \in Ids(log) /\ log'[i] = log[i]
        BY <3>2, <4>2 DEF Hashed
      <4>3. QED
        BY <3>1, <4>1, <4>2
    <3>4. QED
      BY <3>3, <1>2 DEF Hashed, Ids
  <2>2. \A v \in Writers : Hashed(pending[v])'
    BY <1>1, <1>2 DEF TypeOK, Hashed, Ids
  <2>3. \A v \in Writers : RowsOf(v)' \subseteq (1 .. nextId' - 1) \ Ids(log')
    BY <1>2, <1>3, <1>4 DEF TypeOK
  <2>4. QED
    BY <2>1, <2>2, <2>3, <1>2, <1>3, <1>4 DEF TypeOK, Commit, Ids
<1>8. AloneUnlessOverlapped'
  BY <1>2, <1>3, <1>5, OthersAreOthersNext DEF AloneUnlessOverlapped
<1>9. InOrder'
  <2>1. ASSUME NEW i \in Ids(log') \ overlapped', NEW v \in Writers, NEW k \in RowsOf(v)'
        PROVE  i < k
    <3>1. v # w /\ k \in RowsOf(v)
      BY <2>1, <1>3
    <3>2. CASE i \in Ids(log)
      BY <2>1, <3>1, <3>2, <1>2 DEF InOrder
    <3>3. CASE i \in Ids(pending[w])
      BY <2>1, <3>1, <3>3, <1>2, <1>3, OthersAreOthers DEF AloneUnlessOverlapped
    <3>4. QED
      BY <3>2, <3>3, <1>4, <2>1
  <2>2. ASSUME NEW v \in Writers, drawn'[v] # 0
        PROVE  /\ \A k \in Ids(pending'[v]) : k < drawn'[v]
               /\ drawn'[v] \in overlapped'
    <3>1. v # w /\ drawn'[v] = drawn[v] /\ drawn[v] \in RowsOf(v)
      BY <2>2, <1>2 DEF RowsOf
    <3>2. QED
      BY <2>2, <3>1, <1>1, <1>2, <1>5 DEF InOrder
  <2>3. QED
    BY <2>1, <2>2 DEF InOrder, Ids
<1>10. Whole'
  <2>1. ASSUME NEW i \in Ids(log') \ overlapped'
        PROVE  ChainedIn(Ids(log'), i)
    <3>1. CASE i \in Ids(pending[w])
      BY <2>1, <3>1, <1>2, <1>4 DEF Whole
    <3>2. CASE i \in Ids(log)
      <4>1. ChainedIn(Ids(log), i)
        BY <2>1, <3>2, <1>2 DEF Whole
      <4>2. \A k \in Ids(log') \ Ids(log) : i < k
        BY <2>1, <3>2, <1>2, <1>3, <1>4 DEF InOrder
      <4>3. QED
        BY <3>2, <4>1, <4>2, <1>4, <1>6, LaterRowsDoNotBreak
    <3>3. QED
      BY <2>1, <3>1, <3>2, <1>4
  <2>2. \A v \in Writers : Ids(pending'[v]) \subseteq overlapped'
    BY <1>1, <1>2, <1>5 DEF RowsOf
  <2>3. \A i \in Ids(log') \ overlapped' : ChainedIn(Ids(log), i)'
    BY <2>1, <1>2 DEF ChainedIn, JustBefore, Ids
  <2>4. QED
    BY <2>2, <2>3 DEF Whole, Ids
<1>11. Untouched'
  BY <1>1, <1>2 DEF Untouched, Ids
<1>12. QED
  BY <1>7, <1>8, <1>9, <1>10, <1>11

\* A rollback only takes rows away that nobody else has seen.
LEMMA RollbackKeepsInv ==
  ASSUME IndInv, NEW w \in Writers, Rollback(w)
  PROVE  IndInv'
<1> USE DEF IndInv
<1>1. /\ Ids(pending'[w]) = {} /\ drawn'[w] = 0
      /\ \A o \in Writers \ {w} : pending'[o] = pending[o] /\ drawn'[o] = drawn[o]
  BY DEF Rollback, TypeOK, NoRows, Ids
<1>2. /\ RowsOf(w)' = {}
      /\ \A o \in Writers \ {w} : RowsOf(o)' = RowsOf(o)
  BY <1>1 DEF RowsOf, Ids
<1>3. /\ log' = log /\ overlapped' = overlapped /\ nextId' = nextId /\ written' = written
      /\ rehashed' = rehashed
  BY DEF Rollback
<1>4. TypeOK'
  BY <1>1, <1>2, <1>3 DEF TypeOK, Hashed, Ids, Rollback
<1>5. AloneUnlessOverlapped'
  BY <1>2, <1>3, OthersAreOthers, OthersAreOthersNext DEF AloneUnlessOverlapped
<1>6. InOrder'
  BY <1>1, <1>2, <1>3 DEF InOrder, Ids
<1>7. Whole'
  <2>1. \A i \in Ids(log') \ overlapped' : ChainedIn(Ids(log), i)'
    BY <1>3 DEF Whole, ChainedIn, JustBefore, Ids
  <2>2. ASSUME NEW v \in Writers, NEW i \in Ids(pending'[v]) \ overlapped'
        PROVE  ChainedIn(Ids(log) \cup Ids(pending[v]), i)'
    <3>1. pending'[v] = pending[v] /\ ChainedIn(Ids(log) \cup Ids(pending[v]), i)
      BY <2>2, <1>1, <1>3 DEF Whole
    <3>2. QED
      BY <3>1, <1>3 DEF ChainedIn, JustBefore, Ids
  <2>3. QED
    BY <2>1, <2>2 DEF Whole, Ids
<1>8. Untouched'
  BY <1>1, <1>3 DEF Untouched, Ids
<1>9. QED
  BY <1>4, <1>5, <1>6, <1>7, <1>8

\* An edit leaves alone what the trigger wrote, and rewritten hashes are noted.
LEMMA EditKeepsInv ==
  ASSUME IndInv, NEW e \in Ids(log), NEW prev, NEW content, NEW hash,
         Edit(e, [prev |-> prev, content |-> content, hash |-> hash])
  PROVE  IndInv'
<1> DEFINE row == [prev |-> prev, content |-> content, hash |-> hash]
<1> USE DEF IndInv
<1>1. /\ Ids(log') = Ids(log)
      /\ \A i \in Ids(log) : i # e => log'[i] = log[i]
      /\ log'[e] = row /\ row.hash = hash
      /\ row = [prev |-> row.prev, content |-> row.content, hash |-> row.hash]
      /\ rehashed' = IF hash = log[e].hash THEN rehashed ELSE rehashed \cup {e}
      /\ UNCHANGED <<nextId, drawn, pending, written, overlapped>>
  BY DEF Edit, Ids
<1> HIDE DEF row
<1>2. rehashed \subseteq rehashed' /\ rehashed' \subseteq Ids(log)
  BY <1>1 DEF TypeOK
<1>3. \A v \in Writers : RowsOf(v)' = RowsOf(v)
  BY <1>1 DEF RowsOf, Ids
<1>4. TypeOK'
  <2>1. ASSUME NEW i \in Ids(log)
        PROVE  /\ i \in Ids(written)
               /\ log'[i] = [prev |-> log'[i].prev, content |-> log'[i].content,
                             hash |-> log'[i].hash]
               /\ log'[i].hash = written[i].hash \/ i \in rehashed'
    <3>1. /\ i \in Ids(written)
          /\ log[i] = [prev |-> log[i].prev, content |-> log[i].content, hash |-> log[i].hash]
          /\ log[i].hash = written[i].hash \/ i \in rehashed
      BY DEF TypeOK, Hashed
    <3>2. QED
      BY <3>1, <1>1, <1>2
  <2>2. Hashed(log)'
    BY <2>1, <1>1 DEF Hashed, Ids
  <2>3. ASSUME NEW v \in Writers PROVE Hashed(pending[v])'
    BY <1>1, <1>2 DEF TypeOK, Hashed, Ids
  <2>4. QED
    BY <2>2, <2>3, <1>1, <1>2, <1>3 DEF TypeOK, Ids
<1>5. AloneUnlessOverlapped'
  BY <1>1, <1>3, OthersAreOthers, OthersAreOthersNext DEF AloneUnlessOverlapped
<1>6. InOrder'
  BY <1>1, <1>3 DEF InOrder, Ids
<1>7. Whole'
  <2>1. ASSUME NEW ids, NEW i, ChainedIn(ids, i) PROVE ChainedIn(ids, i)'
    BY <2>1, <1>1, <1>2, ChainedStays
  <2>2. \A i \in Ids(log') \ overlapped' : ChainedIn(Ids(log), i)'
    BY <1>1, <1>2 DEF Whole, ChainedIn, JustBefore, Ids
  <2>3. ASSUME NEW v \in Writers, NEW i \in Ids(pending'[v]) \ overlapped'
        PROVE  ChainedIn(Ids(log) \cup Ids(pending[v]), i)'
    <3>1. ChainedIn(Ids(log) \cup Ids(pending[v]), i)
      BY <2>3, <1>1 DEF Whole
    <3>2. (Ids(log) \cup Ids(pending[v]))' = Ids(log) \cup Ids(pending[v])
      BY <1>1 DEF Ids
    <3>3. QED
      BY <3>1, <3>2, <1>1, <1>2 DEF ChainedIn, JustBefore
  <2>4. QED
    BY <2>2, <2>3 DEF Whole, Ids
<1>8. Untouched'
  BY <1>1 DEF Untouched, Ids
<1>9. QED
  BY <1>4, <1>5, <1>6, <1>7, <1>8

\* Every step keeps the invariant.
LEMMA StepKeepsInv == IndInv /\ [Next]_vars => IndInv'
<1> SUFFICES ASSUME IndInv, [Next]_vars PROVE IndInv'
  OBVIOUS
<1>1. CASE \E w \in Writers : Draw(w) \/ Commit(w) \/ Rollback(w)
  BY <1>1, DrawKeepsInv, CommitKeepsInv, RollbackKeepsInv
<1>2. CASE \E w \in Writers, content \in Contents : Chain(w, content)
  BY <1>2, ChainKeepsInv
<1>3. ASSUME NEW i \in Ids(log), NEW content \in Contents, EditAnyhow(i, content)
      PROVE  IndInv'
  <2>1. PICK prev, hash : Edit(i, [prev |-> prev, content |-> content, hash |-> hash])
    BY <1>3 DEF EditAnyhow
  <2>2. QED
    BY <2>1, EditKeepsInv
<1>4. CASE UNCHANGED vars
  <2>1. \A w \in Writers : RowsOf(w)' = RowsOf(w)
    BY <1>4 DEF vars, RowsOf, Ids
  <2>2. TypeOK'
    BY <1>4, <2>1 DEF vars, IndInv, TypeOK, Hashed, Ids
  <2>3. AloneUnlessOverlapped' /\ InOrder'
    BY <1>4, <2>1, OthersAreOthers, OthersAreOthersNext
    DEF vars, IndInv, AloneUnlessOverlapped, InOrder, Ids
  <2>4. Whole' /\ Untouched'
    BY <1>4 DEF vars, IndInv, Whole, Untouched, ChainedIn, JustBefore, Ids
  <2>5. QED
    BY <2>2, <2>3, <2>4 DEF IndInv
<1>5. QED
  BY <1>1, <1>2, <1>3, <1>4 DEF Next

\* The inductive invariant: rows keep the hash they were written with unless it was rewritten,
\* a transaction whose rows overlapped nothing runs alone, its rows come last, and the chain
\* before them is as the trigger made it.
THEOREM Invariance == Spec => []IndInv
<1>1. QED
  BY Initially, StepKeepsInv, PTL DEF Spec

-----------------------------------------------------------------------------

\* The tables keep their types: every ID belongs to one row, committed or under way, and
\* the hash in the table is the trigger's unless somebody rewrote it.
THEOREM TypeCorrect == Spec => []TypeOK
<1>1. IndInv => TypeOK
  BY DEF IndInv
<1>2. QED
  BY <1>1, Invariance, PTL

\* Hashes are free: a row that fits the hash the trigger gave it is the row it stored.
LEMMA SameHashSameRow ==
  ASSUME IndInv, NEW i \in Ids(log), ~Forged(i), log[i].hash = written[i].hash
  PROVE  ~Edited(i)
<1>1. /\ log[i] = [prev |-> log[i].prev, content |-> log[i].content, hash |-> log[i].hash]
      /\ written[i] = Row(written[i].prev, written[i].content)
  BY DEF IndInv, TypeOK, Hashed
<1>2. written[i].hash = Hash(written[i].prev, written[i].content)
  BY <1>1 DEF Row
<1>3. log[i].prev = written[i].prev /\ log[i].content = written[i].content
  BY <1>2 DEF Forged, Hash
<1>4. QED
  BY <1>1, <1>2, <1>3 DEF Row, Edited

\* verify_audit_chain names every changed row unless its hash was computed again; then it
\* names the row chained to it.  Only changed rows are said to be rewritten.
THEOREM EditsAreDetected == Spec => []EditsDetected
<1>1. ASSUME IndInv PROVE EditsDetected
  <2> USE <1>1
  <2>1. ASSUME NEW i \in Ids(log), Edited(i), ~Named(i)
        PROVE  log[i].hash # written[i].hash
    <3>1. ~Forged(i)
      <4>1. Forged(i) => [id |-> i, reason |-> Reason(Ids(log), i)] \in Everything
        BY DEF Everything, Bad
      <4>2. QED
        BY <4>1, <2>1 DEF Named
    <3>2. QED
      BY <2>1, <3>1, SameHashSameRow
  <2>2. ASSUME NEW i \in Ids(log), log[i].hash # written[i].hash, NEW j \in Ids(log),
               JustBefore(i, j, Ids(log)), ~Edited(j), written[j].prev = written[i].hash
        PROVE  [id |-> j, reason |-> "chain"] \in Everything
    <3>1. Broken(log, Ids(log), j)
      BY <2>2 DEF Broken, Edited
    <3>2. Reason(Ids(log), j) = "chain"
      BY <3>1 DEF Reason, Unlinked
    <3>3. QED
      BY <3>1, <3>2 DEF Everything, Bad
  <2>3. ASSUME NEW alarm \in Everything, alarm.reason = "content"
        PROVE  Edited(alarm.id)
    <3>1. PICK i \in Ids(log) : /\ alarm = [id |-> i, reason |-> Reason(Ids(log), i)]
                                /\ Broken(log, Ids(log), i) \/ Forged(i)
      BY <2>3 DEF Everything, Bad
    <3>2. ~Broken(log, Ids(log), i)
      BY <2>3, <3>1 DEF Reason, Unlinked
    <3>3. written[i] = Row(written[i].prev, written[i].content)
      BY DEF IndInv, TypeOK, Hashed
    <3>4. Edited(i)
      BY <3>1, <3>2, <3>3 DEF Row, Forged, Edited
    <3>5. QED
      BY <3>1, <3>4
  <2>4. QED
    BY <2>1, <2>2, <2>3 DEF EditsDetected
<1>2. QED
  BY <1>1, Invariance, PTL

\* An alarm on a row nobody changed means that its transaction overlapped another one, or
\* that the hash of the row before it was rewritten.
THEOREM AlarmsNeedOverlap == Spec => []OnlyOverlapsAlarm
<1>1. ASSUME IndInv PROVE OnlyOverlapsAlarm
  <2> USE <1>1
  <2>1. ASSUME NEW i \in Ids(log), Named(i), ~Edited(i)
        PROVE  i \in overlapped \/ \E j \in rehashed : JustBefore(j, i, Ids(log))
    <3>1. Broken(log, Ids(log), i) \/ Forged(i)
      BY <2>1 DEF Named, Everything, Bad
    <3>2. written[i] = Row(written[i].prev, written[i].content)
      BY DEF IndInv, TypeOK, Hashed
    <3>3. ~Forged(i)
      BY <2>1, <3>2 DEF Row, Forged, Edited
    <3>4. PICK j \in Ids(log) : JustBefore(j, i, Ids(log)) /\ log[i].prev # log[j].hash
      BY <3>1, <3>3 DEF Broken
    <3>5. CASE j \in rehashed
      BY <3>4, <3>5
    <3>6. CASE j \notin rehashed
      <4>1. log[j].hash = written[j].hash
        BY <3>6 DEF IndInv, TypeOK, Hashed
      <4>2. written[i].prev # written[j].hash
        BY <2>1, <3>4, <4>1 DEF Edited
      <4>3. ~ChainedIn(Ids(log), i)
        BY <3>4, <3>6, <4>2 DEF ChainedIn
      <4>4. QED
        BY <4>3 DEF IndInv, Whole
    <3>7. QED
      BY <3>5, <3>6
  <2>2. QED
    BY <2>1 DEF OnlyOverlapsAlarm
<1>2. QED
  BY <1>1, Invariance, PTL

\* Verifying a range names the rows of the range that verifying the table names, for the
\* same reasons.
THEOREM RangesDoAgree == Spec => []RangesAgree
<1>1. ASSUME IndInv PROVE RangesAgree
  <2>1. Ids(log) \subseteq Nat
    BY <1>1 DEF IndInv, TypeOK
  <2>2. ASSUME NEW lo \in 1 .. MaxRows, NEW hi \in 1 .. MaxRows,
               NEW i \in Ids(log), i \in lo .. hi
        PROVE  /\ i \in Scope(lo, hi)
               /\ Broken(log, Scope(lo, hi), i) <=> Broken(log, Ids(log), i)
               /\ Reason(Scope(lo, hi), i) = Reason(Ids(log), i)
    <3>1. i \in Scope(lo, hi) /\ Scope(lo, hi) \subseteq Ids(log)
      BY <2>2 DEF Scope
    <3>2. ASSUME NEW j \in Ids(log)
          PROVE  JustBefore(j, i, Scope(lo, hi)) <=> JustBefore(j, i, Ids(log))
      <4>1. ASSUME JustBefore(j, i, Scope(lo, hi)), NEW k \in Ids(log), k < i
            PROVE  k <= j
        BY <4>1, <2>1, <2>2 DEF JustBefore, Scope
      <4>2. ASSUME JustBefore(j, i, Ids(log))
            PROVE  j \in Scope(lo, hi)
        BY <4>2, <2>1, <2>2 DEF JustBefore, Scope
      <4>3. QED
        BY <4>1, <4>2, <3>1 DEF JustBefore
    <3>3. Broken(log, Scope(lo, hi), i) <=> Broken(log, Ids(log), i)
      BY <3>1, <3>2 DEF Broken, JustBefore
    <3>4. (\A j \in Scope(lo, hi) : i <= j) <=> (\A j \in Ids(log) : i <= j)
      <4>1. ASSUME \A j \in Scope(lo, hi) : i <= j, NEW k \in Ids(log), k < i
            PROVE  FALSE
        <5> DEFINE before == {x \in Ids(log) : x < lo}
        <5>1. lo \in Nat /\ hi \in Nat /\ i \in Nat /\ k \in Nat /\ lo <= i
          BY <4>1, <2>1, <2>2
        <5>2. k < lo
          BY <4>1, <5>1, <2>2 DEF Scope
        <5>3. PICK m \in before : \A x \in before : x <= m
          <6>1. before \subseteq Nat /\ k \in before /\ \A x \in before : x < lo
            BY <5>2, <4>1, <2>1
          <6>2. QED
            BY <6>1, <5>1, Greatest
        <5>4. m \in Scope(lo, hi) /\ m < i
          BY <5>1, <5>3, <2>1, <2>2 DEF Scope
        <5>5. QED
          BY <4>1, <5>1, <5>4, <2>1
      <4>2. QED
        BY <4>1, <3>1, <2>1
    <3>5. QED
      BY <3>1, <3>3, <3>4 DEF Reason, Unlinked
  <2>3. ASSUME NEW lo \in 1 .. MaxRows, NEW hi \in 1 .. MaxRows, NEW alarm,
               alarm.id \in lo .. hi
        PROVE  alarm \in Bad(Scope(lo, hi)) <=> alarm \in Everything
    <3>1. Scope(lo, hi) \subseteq Ids(log)
      BY DEF Scope
    <3>2. ASSUME alarm \in Bad(Scope(lo, hi)) PROVE alarm \in Everything
      <4>1. PICK i \in Scope(lo, hi) :
              /\ alarm = [id |-> i, reason |-> Reason(Scope(lo, hi), i)]
              /\ Broken(log, Scope(lo, hi), i) \/ Forged(i)
        BY <3>2 DEF Bad
      <4>2. i \in Ids(log) /\ i \in lo .. hi
        BY <2>3, <3>1, <4>1
      <4>3. QED
        BY <2>2, <4>1, <4>2 DEF Bad, Everything
    <3>3. ASSUME alarm \in Everything PROVE alarm \in Bad(Scope(lo, hi))
      <4>1. PICK i \in Ids(log) : /\ alarm = [id |-> i, reason |-> Reason(Ids(log), i)]
                                  /\ Broken(log, Ids(log), i) \/ Forged(i)
        BY <3>3 DEF Bad, Everything
      <4>2. i \in lo .. hi
        BY <2>3, <4>1
      <4>3. QED
        BY <2>2, <4>1, <4>2 DEF Bad
    <3>4. QED
      BY <3>2, <3>3
  <2>4. QED
    BY <2>3 DEF RangesAgree
<1>2. QED
  BY <1>1, Invariance, PTL
=============================================================================
