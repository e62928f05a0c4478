------------------------- MODULE LedgerImportProofs -------------------------
(***************************************************************************)
(* What LedgerImport keeps for any number of importers, any payments, and  *)
(* any files that show them: files are stored whole or not at all, and the *)
(* ledger counts as LedgerPromise says.                                    *)
(***************************************************************************)
EXTENDS LedgerImport, FiniteSetTheorems, SequenceTheorems, WellFoundedInduction, TLAPS

-----------------------------------------------------------------------------
(* Lines and rows.                                                         *)

RowContents ==
  [day : Nat \ {Unreadable}, amount : Nat \ {0}, direction : {"in", "out"}, text : STRING]

\* A payment makes one line of its source, and that line makes the payment's row.
LEMMA LineMakesRow ==
  ASSUME NEW k \in Kinds
  PROVE  /\ Payments[k].source \in Sources
         /\ RowOf(Payments[k].source, LineOf(Payments[k])) = ContentOf(Payments[k])
         /\ ContentOf(Payments[k]) \in RowContents
         /\ ContentOf(Payments[k]) # NoRow
<1> DEFINE p == Payments[k]
<1>1. /\ p.source \in Sources /\ p.day \in Nat \ {Unreadable}
      /\ p.amount \in Int \ {0} /\ p.text \in STRING
  BY PaymentsMoveMoney
<1>2. ContentOf(p) \in RowContents
  BY <1>1 DEF ContentOf, RowContents
<1>3. ContentOf(p).amount # NoRow.amount
  BY <1>1 DEF ContentOf, NoRow
<1> DEFINE line == LineOf(p)
<1>4. CASE p.source = "bank"
  <2>1. /\ line.day = p.day /\ line.text = p.text
        /\ line.out = Positive(-p.amount) /\ line.in = Positive(p.amount)
    BY <1>4 DEF LineOf, BankLine
  <2>2. line.out = (IF p.amount < 0 THEN -p.amount ELSE 0) /\ line.in = (IF p.amount < 0 THEN 0 ELSE p.amount)
    BY <1>1, <2>1 DEF Positive
  <2> HIDE DEF line
  <2>3. RowOf(p.source, line) = BankRow(line)
    BY <1>4 DEF RowOf
  <2>4. CASE p.amount > 0
    <3>1. line.out <= 0 /\ ~ (line.out > 0) /\ line.in = p.amount /\ line.in > 0
      BY <1>1, <2>2, <2>4
    <3>2. BankRow(line) = Content(line, line.in, "in")
      BY <3>1 DEF BankRow
    <3>3. ContentOf(p) = Content(line, line.in, "in")
      BY <1>1, <2>1, <2>4, <3>1 DEF ContentOf, Content
    <3>4. QED
      BY <1>1, <1>2, <1>3, <2>3, <3>2, <3>3 DEF line
  <2>5. CASE p.amount < 0
    <3>1. line.out = -p.amount /\ line.out > 0 /\ ~ (line.out <= 0)
      BY <1>1, <2>2, <2>5
    <3>2. BankRow(line) = Content(line, line.out, "out")
      BY <3>1 DEF BankRow
    <3>3. ContentOf(p) = Content(line, line.out, "out")
      BY <1>1, <2>1, <2>5, <3>1 DEF ContentOf, Content
    <3>4. QED
      BY <1>1, <1>2, <1>3, <2>3, <3>2, <3>3 DEF line
  <2>6. QED
    BY <1>1, <2>4, <2>5
<1>5. CASE p.source = "card"
  <2>1. line.day = p.day /\ line.text = p.text /\ line.amount = -p.amount
    BY <1>5 DEF LineOf, CardLine
  <2> HIDE DEF line
  <2>2. RowOf(p.source, line) = CardRow(line)
    BY <1>5 DEF RowOf
  <2>3. CASE p.amount > 0
    <3>1. line.amount < 0 /\ ~ (line.amount > 0) /\ -line.amount = p.amount
      BY <1>1, <2>1, <2>3
    <3>2. CardRow(line) = Content(line, -line.amount, "in")
      BY <3>1 DEF CardRow
    <3>3. ContentOf(p) = Content(line, -line.amount, "in")
      BY <1>1, <2>1, <2>3, <3>1 DEF ContentOf, Content
    <3>4. QED
      BY <1>1, <1>2, <1>3, <2>2, <3>2, <3>3 DEF line
  <2>4. CASE p.amount < 0
    <3>1. line.amount > 0 /\ ~ (line.amount < 0)
      BY <1>1, <2>1, <2>4
    <3>2. CardRow(line) = Content(line, line.amount, "out")
      BY <3>1 DEF CardRow
    <3>3. ContentOf(p) = Content(line, line.amount, "out")
      BY <1>1, <2>1, <2>4, <3>1 DEF ContentOf, Content
    <3>4. QED
      BY <1>1, <1>2, <1>3, <2>2, <3>2, <3>3 DEF line
  <2>5. QED
    BY <1>1, <2>3, <2>4
<1>6. QED
  BY <1>1, <1>4, <1>5 DEF Sources

\* The line that carries the balance over moves nothing.
LEMMA CarriedOverIsNoRow == RowOf("bank", CarriedOver) = NoRow
  BY DEF RowOf, BankRow, CarriedOver

\* Payments of one source that make the same row are the same.
LEMMA RowTellsPayment ==
  ASSUME NEW k \in Kinds, NEW l \in Kinds, Payments[k].source = Payments[l].source,
         ContentOf(Payments[k]) = ContentOf(Payments[l])
  PROVE  k = l
<1> DEFINE p == Payments[k]
           q == Payments[l]
<1>1. /\ p \in [source : Sources, day : Nat \ {Unreadable}, amount : Int \ {0}, text : STRING]
      /\ q \in [source : Sources, day : Nat \ {Unreadable}, amount : Int \ {0}, text : STRING]
  BY PaymentsMoveMoney
<1>2. p.day = q.day /\ p.text = q.text
  BY DEF ContentOf
<1>3. p.amount = q.amount
  <2>1. (p.amount < 0) <=> (q.amount < 0)
    BY <1>1 DEF ContentOf
  <2>2. (IF p.amount < 0 THEN -p.amount ELSE p.amount) = (IF q.amount < 0 THEN -q.amount ELSE q.amount)
    BY DEF ContentOf
  <2>3. QED
    BY <1>1, <2>1, <2>2
<1>4. p = q
  BY <1>1, <1>2, <1>3
<1>5. QED
  BY <1>4, PaymentsDiffer

\* A line tells its source, and so its payment.
LEMMA LineTellsPayment ==
  ASSUME NEW k \in Kinds, NEW l \in Kinds, LineOf(Payments[k]) = LineOf(Payments[l])
  PROVE  k = l
<1>1. Payments[k].source = Payments[l].source
  <2>1. \A p, q : BankLine(p) # CardLine(q)
    <3>1. \A p, q : DOMAIN BankLine(p) = {"day", "text", "out", "in"} /\ DOMAIN CardLine(q) = {"day", "text", "amount"}
      BY DEF BankLine, CardLine
    <3>2. {"day", "text", "out", "in"} # {"day", "text", "amount"}
      OBVIOUS
    <3>3. QED
      BY <3>1, <3>2
  <2>2. QED
    BY <2>1, LineMakesRow DEF LineOf, Sources
<1>2. QED
  BY <1>1, LineMakesRow, RowTellsPayment

\* Of what a source prints, what is a row shows a payment of that source, and no other line does.
LEMMA LinesAre ==
  ASSUME NEW source \in Sources, NEW line \in LinesOf(source)
  PROVE  /\ RowOf(source, line) # NoRow <=> \E k \in Kinds : line = LineOf(Payments[k])
         /\ \A k \in Kinds : line = LineOf(Payments[k])
              <=> Payments[k].source = source /\ RowOf(source, line) = ContentOf(Payments[k])
<1>1. CASE \E l \in Kinds : Payments[l].source = source /\ line = LineOf(Payments[l])
  <2>1. PICK l \in Kinds : Payments[l].source = source /\ line = LineOf(Payments[l])
    BY <1>1
  <2>2. RowOf(source, line) = ContentOf(Payments[l]) /\ RowOf(source, line) # NoRow
    BY <2>1, LineMakesRow
  <2>3. \A k \in Kinds : line = LineOf(Payments[k]) => k = l
    BY <2>1, LineTellsPayment
  <2>4. \A k \in Kinds : Payments[k].source = source /\ RowOf(source, line) = ContentOf(Payments[k]) => k = l
    BY <2>1, <2>2, RowTellsPayment
  <2>5. QED
    BY <2>1, <2>2, <2>3, <2>4
<1>2. CASE source = "bank" /\ line = CarriedOver
  <2>1. RowOf(source, line) = NoRow
    BY <1>2, CarriedOverIsNoRow
  <2>2. \A k \in Kinds : ContentOf(Payments[k]) # NoRow
    BY LineMakesRow
  <2>3. ASSUME NEW k \in Kinds PROVE line # LineOf(Payments[k])
    <3>1. CASE Payments[k].source = "bank"
      BY <1>2, <2>1, <3>1, LineMakesRow
    <3>2. CASE Payments[k].source # "bank"
      <4>1. DOMAIN LineOf(Payments[k]) = {"day", "text", "amount"}
        BY <3>2 DEF LineOf, CardLine
      <4>2. DOMAIN CarriedOver = {"day", "text", "out", "in"}
        BY DEF CarriedOver
      <4>3. {"day", "text", "out", "in"} # {"day", "text", "amount"}
        OBVIOUS
      <4>4. QED
        BY <1>2, <4>1, <4>2, <4>3
    <3>3. QED
      BY <3>1, <3>2
  <2>4. QED
    BY <2>1, <2>2, <2>3
<1>3. QED
  BY <1>1, <1>2 DEF LinesOf

-----------------------------------------------------------------------------
(* Counting rows.                                                          *)

\* The numbers of elements below each element of a finite set are 0, 1, 2, ...
LEMMA CountBelow ==
  ASSUME NEW N \in SUBSET Nat, IsFiniteSet(N)
  PROVE  {Cardinality({m \in N : m < n}) : n \in N} = 0 .. Cardinality(N) - 1
<1> DEFINE Below(n) == {m \in N : m < n}
           c == Cardinality(N)
           f == [n \in N |-> Cardinality(Below(n))]
<1>1. c \in Nat
  BY FS_CardinalityType
<1>2. ASSUME NEW n \in N
      PROVE  /\ IsFiniteSet(Below(n)) /\ Cardinality(Below(n)) \in Nat
             /\ Cardinality(Below(n) \cup {n}) = Cardinality(Below(n)) + 1
             /\ IsFiniteSet(Below(n) \cup {n})
  <2>1. IsFiniteSet(Below(n))
    BY FS_Subset
  <2>2. n \notin Below(n)
    OBVIOUS
  <2>3. QED
    BY <2>1, <2>2, FS_AddElement, FS_CardinalityType
<1>3. ASSUME NEW n \in N PROVE Cardinality(Below(n)) \in 0 .. c - 1
  <2>1. Below(n) \cup {n} \in SUBSET N
    OBVIOUS
  <2>2. Cardinality(Below(n) \cup {n}) <= c
    BY <2>1, FS_Subset
  <2> HIDE DEF Below, c
  <2>3. QED
    BY <1>1, <1>2, <2>2
<1>4. ASSUME NEW n \in N, NEW m \in N, m < n PROVE Cardinality(Below(m)) < Cardinality(Below(n))
  <2>1. ASSUME NEW x \in N, x < m PROVE x < n
    <3>1. x \in Nat /\ m \in Nat /\ n \in Nat
      OBVIOUS
    <3>2. QED
      BY <1>4, <2>1, <3>1
  <2>2. Below(m) \cup {m} \in SUBSET Below(n)
    BY <1>4, <2>1
  <2>3. Cardinality(Below(m) \cup {m}) <= Cardinality(Below(n))
    BY <1>2, <2>2, FS_Subset
  <2> HIDE DEF Below
  <2>4. /\ Cardinality(Below(m) \cup {m}) = Cardinality(Below(m)) + 1
        /\ Cardinality(Below(m)) \in Nat /\ Cardinality(Below(n)) \in Nat
    BY <1>2
  <2>5. QED
    BY <2>3, <2>4
<1> HIDE DEF Below, c
<1>5. f \in Injection(N, 0 .. c - 1)
  <2>1. f \in [N -> 0 .. c - 1]
    BY <1>3
  <2>2. ASSUME NEW m \in N, NEW n \in N, f[m] = f[n] PROVE m = n
    <3>1. m \in Nat /\ n \in Nat /\ f[m] = Cardinality(Below(m)) /\ f[n] = Cardinality(Below(n))
      OBVIOUS
    <3>2. /\ m < n => Cardinality(Below(m)) < Cardinality(Below(n))
          /\ n < m => Cardinality(Below(n)) < Cardinality(Below(m))
      BY <1>4
    <3>3. Cardinality(Below(m)) = Cardinality(Below(n)) /\ Cardinality(Below(n)) \in Nat
      BY <1>2, <2>2, <3>1
    <3>4. ~ (m < n) /\ ~ (n < m)
      BY <3>2, <3>3
    <3>5. QED
      BY <3>1, <3>4
  <2>3. QED
    BY <2>1, <2>2 DEF Injection, IsInjective
<1>6. IsFiniteSet(0 .. c - 1) /\ Cardinality(0 .. c - 1) = c
  BY <1>1, FS_Interval
<1>7. f \in Surjection(N, 0 .. c - 1)
  BY <1>5, <1>6, FS_Injection DEF c
<1>8. {Cardinality(Below(n)) : n \in N} = 0 .. c - 1
  BY <1>3, <1>7 DEF Surjection
<1>9. QED
  BY <1>8 DEF Below, c

\* A row tells its payment and its number.
LEMMA RowIs ==
  ASSUME NEW k \in Kinds, NEW n \in Nat
  PROVE  \A f : f \in RowsOfKind(k, n) <=>
           \E o \in 0 .. n - 1 : f = Fingerprint(Payments[k].source, ContentOf(Payments[k]), o)
  BY DEF RowsOfKind

\* Fingerprints tell their parts.
LEMMA FingerprintIs ==
  \A s, c, o : /\ Fingerprint(s, c, o).source = s
               /\ Fingerprint(s, c, o).content = c
               /\ Fingerprint(s, c, o).occurrence = o
  BY DEF Fingerprint

\* The rows of a payment are as many as they are shown.
LEMMA KindCounts ==
  ASSUME NEW k \in Kinds, NEW n \in Nat
  PROVE  IsFiniteSet(RowsOfKind(k, n)) /\ Cardinality(RowsOfKind(k, n)) = n
<1> DEFINE row(o) == Fingerprint(Payments[k].source, ContentOf(Payments[k]), o)
           f == [o \in 0 .. n - 1 |-> row(o)]
<1>1. f \in [0 .. n - 1 -> RowsOfKind(k, n)]
  BY DEF RowsOfKind
<1>2. \A o, q \in 0 .. n - 1 : f[o] = f[q] => o = q
  BY FingerprintIs
<1>3. \A x \in RowsOfKind(k, n) : \E o \in 0 .. n - 1 : f[o] = x
  BY DEF RowsOfKind
<1> HIDE DEF f
<1>4. f \in Bijection(0 .. n - 1, RowsOfKind(k, n))
  BY <1>1, <1>2, <1>3 DEF Bijection, Injection, Surjection, IsInjective
<1>5. IsFiniteSet(0 .. n - 1) /\ Cardinality(0 .. n - 1) = n
  BY FS_Interval
<1>6. QED
  BY <1>4, <1>5, FS_Bijection DEF ExistsBijection

\* Rows of two payments are apart.
LEMMA KindsApart ==
  ASSUME NEW k \in Kinds, NEW l \in Kinds, NEW n \in Nat, NEW f \in RowsOfKind(k, n),
         f.source = Payments[l].source, f.content = ContentOf(Payments[l])
  PROVE  k = l
<1>1. f.source = Payments[k].source /\ f.content = ContentOf(Payments[k])
  BY FingerprintIs DEF RowsOfKind
<1>2. QED
  BY <1>1, RowTellsPayment

\* The lines of a file are finitely many, also those that show a payment.
LEMMA ShownIsNat ==
  ASSUME NEW S, NEW lines \in Seq(S)
  PROVE  /\ ShownIn(lines) \in [Kinds -> Nat]
         /\ IsFiniteSet(DOMAIN lines) /\ DOMAIN lines \in SUBSET Nat
         /\ IsFiniteSet(Showing(lines))
<1>1. Len(lines) \in Nat /\ DOMAIN lines = 1 .. Len(lines)
  BY LenProperties
<1>2. IsFiniteSet(DOMAIN lines) /\ DOMAIN lines \in SUBSET Nat
  BY <1>1, FS_Interval
<1>3. ASSUME NEW k \in Kinds PROVE Cardinality({n \in DOMAIN lines : lines[n] = LineOf(Payments[k])}) \in Nat
  BY <1>2, FS_Subset, FS_CardinalityType
<1>4. Showing(lines) \in SUBSET DOMAIN lines
  BY DEF Showing
<1>5. QED
  BY <1>2, <1>3, <1>4, FS_Subset DEF ShownIn

\* What Parse makes of the lines that show one payment.
LEMMA ParseOfKind ==
  ASSUME NEW source \in Sources, NEW lines \in Seq(LinesOf(source)), NEW k \in Kinds
  PROVE  {Parse(source, lines)[n] : n \in {m \in DOMAIN lines : lines[m] = LineOf(Payments[k])}}
           = RowsOfKind(k, ShownIn(lines)[k])
<1> DEFINE N == {m \in DOMAIN lines : lines[m] = LineOf(Payments[k])}
<1>1. /\ Len(lines) \in Nat /\ DOMAIN lines = 1 .. Len(lines)
      /\ \A n \in DOMAIN lines : lines[n] \in LinesOf(source)
  BY LenProperties, ElementOfSeq
<1>2. N \in SUBSET Nat /\ IsFiniteSet(N) /\ ShownIn(lines)[k] = Cardinality(N)
  BY ShownIsNat, FS_Subset DEF ShownIn
<1>3. CASE Payments[k].source # source
  <2>1. N = {}
    BY <1>1, <1>3, LinesAre
  <2>2. ShownIn(lines)[k] = 0
    BY <1>2, <2>1, FS_EmptySet
  <2>3. RowsOfKind(k, 0) = {}
    BY DEF RowsOfKind
  <2>4. QED
    BY <2>1, <2>2, <2>3
<1>4. CASE Payments[k].source = source
  <2>1. \A n \in DOMAIN lines : n \in N <=> RowOf(source, lines[n]) = ContentOf(Payments[k])
    BY <1>1, <1>4, LinesAre
  <2>2. ASSUME NEW n \in N
        PROVE  Parse(source, lines)[n]
                 = Fingerprint(source, ContentOf(Payments[k]), Cardinality({m \in N : m < n}))
    <3>1. n \in 1 .. Len(lines) /\ RowOf(source, lines[n]) = ContentOf(Payments[k])
      BY <1>1, <2>1
    <3>2. {m \in 1 .. n - 1 : RowOf(source, lines[m]) = RowOf(source, lines[n])} = {m \in N : m < n}
      <4>1. ASSUME NEW m \in 1 .. n - 1 PROVE m \in DOMAIN lines /\ m < n
        BY <1>1, <3>1
      <4>2. ASSUME NEW m \in N, m < n PROVE m \in 1 .. n - 1
        BY <1>1, <3>1, <4>2
      <4>3. QED
        BY <2>1, <3>1, <4>1, <4>2
    <3>3. n \in Moving(source, lines)
      BY <1>1, <3>1, LineMakesRow DEF Moving
    <3>4. QED
      BY <3>1, <3>2, <3>3 DEF Parse, Occurrence
  <2>3. {Cardinality({m \in N : m < n}) : n \in N} = 0 .. Cardinality(N) - 1
    BY <1>2, CountBelow
  <2> HIDE DEF N
  <2>4. {Parse(source, lines)[n] : n \in N}
          = {Fingerprint(source, ContentOf(Payments[k]), o) : o \in {Cardinality({m \in N : m < n}) : n \in N}}
    BY <2>2
  <2>5. QED
    BY <1>2, <1>4, <2>3, <2>4 DEF N, RowsOfKind
<1>5. QED
  BY <1>3, <1>4

\* Parse makes of a file the rows of its payments, one of each line that shows one.
LEMMA ParseIs ==
  ASSUME NEW source \in Sources, NEW lines \in Seq(LinesOf(source))
  PROVE  /\ DOMAIN Parse(source, lines) = Showing(lines)
         /\ Range(Parse(source, lines)) = RowsOf(lines)
<1>1. \A n \in DOMAIN lines : lines[n] \in LinesOf(source)
  BY LenProperties, ElementOfSeq
<1>2. DOMAIN Parse(source, lines) = Showing(lines)
  BY <1>1, LinesAre DEF Parse, Moving, Showing
<1>3. Range(Parse(source, lines)) = {Parse(source, lines)[n] : n \in Showing(lines)}
  BY <1>2 DEF Range
<1>4. {Parse(source, lines)[n] : n \in Showing(lines)}
        = UNION {{Parse(source, lines)[n] : n \in {m \in DOMAIN lines : lines[m] = LineOf(Payments[k])}}
                   : k \in Kinds}
  BY DEF Showing
<1>5. ASSUME NEW x
      PROVE  x \in {Parse(source, lines)[n] : n \in Showing(lines)} <=> x \in RowsOf(lines)
  <2>1. x \in {Parse(source, lines)[n] : n \in Showing(lines)} <=>
          \E k \in Kinds : x \in {Parse(source, lines)[n] :
                                   n \in {m \in DOMAIN lines : lines[m] = LineOf(Payments[k])}}
    BY <1>4
  <2>2. x \in RowsOf(lines) <=> \E k \in Kinds : x \in RowsOfKind(k, ShownIn(lines)[k])
    BY DEF RowsOf
  <2>3. QED
    BY <2>1, <2>2, ParseOfKind
<1>6. QED
  BY <1>2, <1>3, <1>5

-----------------------------------------------------------------------------
(* What is handed in.                                                      *)

\* A statement is a sequence of its source's lines, and shows at least one.
LEMMA StatementsAreLines ==
  ASSUME NEW source \in Sources, NEW s \in Statements(source)
  PROVE  s \in Seq(LinesOf(source)) /\ Len(s) >= 1
<1> DEFINE lines == {LineOf(Payments[k]) : k \in {l \in Kinds : Payments[l].source = source}}
<1>1. lines \subseteq LinesOf(source)
  BY DEF LinesOf
<1>2. \A t \in Bookings(source) : t \in Seq(LinesOf(source)) /\ Len(t) \in Nat /\ Len(t) >= 1
  <2>1. SUFFICES ASSUME NEW t \in Bookings(source)
                 PROVE  t \in Seq(LinesOf(source)) /\ Len(t) \in Nat /\ Len(t) >= 1
    OBVIOUS
  <2>2. PICK n \in 1 .. Cardinality(UNION {{k} \X (1 .. Booked[k]) : k \in Kinds}) : t \in [1 .. n -> lines]
    BY DEF Bookings
  <2>3. n \in Nat /\ n >= 1
    BY <2>2
  <2> HIDE DEF lines
  <2>4. t \in [1 .. n -> LinesOf(source)]
    BY <1>1, <2>2
  <2>5. t \in Seq(LinesOf(source)) /\ Len(t) = n
    BY <2>3, <2>4, IsASeq, LenProperties
  <2>6. QED
    BY <2>3, <2>5
<1>3. CASE source = "bank"
  <2>1. PICK t \in Bookings(source) : s = <<CarriedOver>> \o t
    BY <1>3 DEF Statements
  <2>2. CarriedOver \in LinesOf(source)
    BY <1>3 DEF LinesOf
  <2>3. <<CarriedOver>> \in Seq(LinesOf(source)) /\ Len(<<CarriedOver>>) = 1
    BY <2>2
  <2>4. QED
    BY <1>2, <2>1, <2>3, ConcatProperties
<1>4. CASE source # "bank"
  BY <1>2, <1>4 DEF Statements
<1>5. QED
  BY <1>3, <1>4

\* Read backwards it still is.
LEMMA ReversedIsSeq ==
  ASSUME NEW S, NEW s \in Seq(S)
  PROVE  Reverse(s) \in Seq(S)
<1>1. Len(s) \in Nat /\ \A n \in 1 .. Len(s) : s[n] \in S
  BY LenProperties, ElementOfSeq
<1>2. \A n \in 1 .. Len(s) : (Len(s) - n) + 1 \in 1 .. Len(s)
  BY <1>1
<1>3. Reverse(s) \in [1 .. Len(s) -> S]
  BY <1>1, <1>2 DEF Reverse
<1>4. QED
  BY <1>1, <1>3, IsASeq

\* What can be read is made of lines its source prints.
LEMMA ReadableIsLines ==
  ASSUME NEW source \in Sources, NEW lines \in HandedIn[source], Readable(source, lines)
  PROVE  lines \in Seq(LinesOf(source))
<1>1. PICK s \in Statements(source) : lines \in {s, Reverse(s), Damaged(s)}
  BY DEF HandedIn, Files
<1>2. s \in Seq(LinesOf(source)) /\ Len(s) >= 1 /\ Len(s) \in Nat
  BY StatementsAreLines, LenProperties
<1>3. CASE lines = Damaged(s)
  <2> DEFINE n == Len(s)
  <2>1. n \in DOMAIN s
    BY <1>2, LenProperties
  <2>2. s[n] \in LinesOf(source)
    BY <1>2, <2>1, ElementOfSeq
  <2>3. \A line \in LinesOf(source) : [line EXCEPT !.day = Unreadable].day = Unreadable
    <3>1. \A p : [BankLine(p) EXCEPT !.day = Unreadable].day = Unreadable
      BY DEF BankLine
    <3>2. \A p : [CardLine(p) EXCEPT !.day = Unreadable].day = Unreadable
      BY DEF CardLine
    <3>3. [CarriedOver EXCEPT !.day = Unreadable].day = Unreadable
      BY DEF CarriedOver
    <3>4. QED
      BY <3>1, <3>2, <3>3 DEF LinesOf, LineOf
  <2>4. lines[n].day = Unreadable /\ n \in DOMAIN lines
    <3>1. lines = [s EXCEPT ![n] = [s[n] EXCEPT !.day = Unreadable]]
      BY <1>3 DEF Damaged
    <3>2. QED
      BY <2>1, <2>2, <2>3, <3>1
  <2>5. QED
    BY <2>4 DEF Readable
<1>4. QED
  BY <1>1, <1>2, <1>3, ReversedIsSeq

\* Of a set of numbers one is the least.
LEMMA LeastIsOne ==
  ASSUME NEW S \in SUBSET Nat, S # {}
  PROVE  Min(S) \in S
<1> DEFINE Below == OpToRel(<, Nat)
<1>1. IsWellFoundedOn(Below, Nat)
  BY NatLessThanWellFounded
<1>2. \A x, y \in Nat : x < y => <<x, y>> \in Below
  BY DEF OpToRel
<1> HIDE DEF Below
<1>3. PICK x \in S : \A y \in S : ~ (<<y, x>> \in Below)
  BY <1>1, WFMin
<1>4. \A y \in S : ~ (y < x)
  BY <1>2, <1>3, Zenon
<1>5. \A y \in S : x =< y
  BY <1>4
<1>6. QED
  BY <1>5 DEF Min

-----------------------------------------------------------------------------
(* The inductive invariant.                                                *)

\* Rows of a file are fingerprints.
LEMMA RowsAreFingerprints ==
  ASSUME NEW lines, ShownIn(lines) \in [Kinds -> Nat]
  PROVE  RowsOf(lines) \subseteq Fingerprints
<1>1. ASSUME NEW k \in Kinds, NEW o \in Nat
      PROVE  Fingerprint(Payments[k].source, ContentOf(Payments[k]), o) \in Fingerprints
  BY LineMakesRow DEF Fingerprint, Fingerprints, RowContents
<1>2. QED
  BY <1>1 DEF RowsOf, RowsOfKind

\* No step of one importer changes what another is doing.
OthersKeep(i) ==
  \A j \in Importers \ {i} :
    /\ pc'[j] = pc[j] /\ file'[j] = file[j] /\ todo'[j] = todo[j]
    /\ mine'[j] = mine[j] /\ skipped'[j] = skipped[j] /\ answer'[j] = answer[j]

\* What holds of one importer alone.
Own(i) ==
  /\ pc[i] # "idle" => \E source \in Sources : file[i] \in Seq(LinesOf(source))
  /\ pc[i] # "idle" => Underway(i)
  /\ pc[i] # "insert" => mine[i] = {} /\ skipped[i] = 0
  /\ answer[i] \in {"imported", "duplicate"} => file[i] \in Imported

\* It holds of all of them together when it holds of each.
LEMMA OwnOfAll == (FilesAreLines /\ RowsUnderway /\ ToldOfImported) <=> \A i \in Importers : Own(i)
  BY DEF FilesAreLines, RowsUnderway, ToldOfImported, Own

\* While the ledger only grows, the others go on as before.
LEMMA OthersGoOn ==
  ASSUME IndInv, NEW i \in Importers, OthersKeep(i), ledger \subseteq ledger', Imported \subseteq Imported',
         Own(i)'
  PROVE  (FilesAreLines /\ RowsUnderway /\ ToldOfImported)'
<1>1. \A j \in Importers : Own(j)
  BY OwnOfAll DEF IndInv
<1>2. ASSUME NEW j \in Importers \ {i} PROVE Own(j)'
  <2>1. Own(j)
    BY <1>1
  <2>2. /\ pc'[j] = pc[j] /\ file'[j] = file[j] /\ todo'[j] = todo[j]
        /\ mine'[j] = mine[j] /\ skipped'[j] = skipped[j] /\ answer'[j] = answer[j]
    BY DEF OthersKeep
  <2>3. Underway(j) => Underway(j)'
    BY <2>2 DEF Underway
  <2>4. QED
    BY <2>1, <2>2, <2>3 DEF Own
<1>3. \A j \in Importers : Own(j)'
  BY <1>2
<1>4. QED
  BY <1>3 DEF FilesAreLines, RowsUnderway, ToldOfImported, Own

\* Nothing is handed in at first.
LEMMA Initially == Init => IndInv
<1> SUFFICES ASSUME Init PROVE IndInv
  OBVIOUS
<1> USE DEF Init
<1>1. DOMAIN <<>> = {} /\ Range(<<>>) = {}
  BY DEF Range
<1>2. TypeOK
  BY <1>1, MaxUploadsIsCount DEF TypeOK
<1>3. FilesAreLines /\ RowsUnderway /\ RowsApart /\ FilesApart /\ ToldOfImported
  BY DEF FilesAreLines, RowsUnderway, RowsApart, FilesApart, ToldOfImported
<1>4. LedgerIsWhole
  <2>1. \A k \in Kinds : InLedger(k) = {} /\ Counted(k) = 0 /\ RowsOfKind(k, 0) = {}
    BY FS_EmptySet DEF InLedger, Counted, RowsOfKind
  <2>2. ledger = {} /\ batches = {}
    OBVIOUS
  <2> HIDE DEF Init
  <2>3. \A k \in Kinds : Counted(k) \in Nat /\ InLedger(k) = RowsOfKind(k, Counted(k))
    BY <2>1
  <2>4. QED
    BY <2>2, <2>3, FS_EmptySet DEF LedgerIsWhole
<1>5. InsertedIsCounted
  <2>1. Receipts = {}
    BY DEF Receipts
  <2>2. QED
    BY <2>1, FS_EmptySet DEF InsertedIsCounted
<1>6. QED
  BY <1>2, <1>3, <1>4, <1>5 DEF IndInv

\* The committed tables keep their part while they are not written.
LEMMA TablesKept ==
  ASSUME LedgerIsWhole, InsertedIsCounted, UNCHANGED <<batches, ledger>>
  PROVE  (LedgerIsWhole /\ InsertedIsCounted)'
  BY DEF LedgerIsWhole, InsertedIsCounted, InLedger, Counted, Receipts

\* Upload hands in a file nobody is importing yet: all its rows are still to do.
LEMMA UploadKeeps ==
  ASSUME IndInv, NEW i \in Importers, NEW source \in Sources, NEW lines \in HandedIn[source],
         Upload(i, source, lines)
  PROVE  IndInv'
<1> USE DEF IndInv
<1>1. UNCHANGED <<batches, ledger, mine, skipped>> /\ pc[i] = "idle"
  BY DEF Upload
<1>2. mine[i] = {} /\ skipped[i] = 0
  BY <1>1 DEF RowsUnderway
<1>3. OthersKeep(i)
  BY DEF Upload, OthersKeep, TypeOK
<1>4. CASE Readable(source, lines)
  <2>1. lines \in Seq(LinesOf(source))
    BY <1>4, ReadableIsLines
  <2>2. /\ pc' = [pc EXCEPT ![i] = "register"] /\ todo' = [todo EXCEPT ![i] = Parse(source, lines)]
        /\ answer' = [answer EXCEPT ![i] = "none"] /\ file' = [file EXCEPT ![i] = lines]
        /\ uploads < MaxUploads /\ uploads' = uploads + 1
    BY <1>4 DEF Upload
  <2>3. pc'[i] = "register" /\ todo'[i] = Parse(source, lines) /\ answer'[i] = "none" /\ file'[i] = lines
    BY <2>2 DEF TypeOK
  <2>4. /\ DOMAIN Parse(source, lines) = Showing(lines) /\ Range(Parse(source, lines)) = RowsOf(lines)
        /\ IsFiniteSet(Showing(lines)) /\ Showing(lines) \subseteq Nat
        /\ RowsOf(lines) \subseteq Fingerprints
    BY <2>1, ParseIs, ShownIsNat, RowsAreFingerprints DEF Showing
  <2>5. TypeOK'
    <3>1. \A j \in Importers : DOMAIN todo'[j] \subseteq Nat /\ Range(todo'[j]) \subseteq Fingerprints
      BY <1>3, <2>3, <2>4 DEF TypeOK, OthersKeep
    <3>2. QED
      BY <1>1, <2>2, <3>1, MaxUploadsIsCount DEF TypeOK
  <2>6. Own(i)'
    <3>1. Underway(i)'
      <4>1. Cardinality(Showing(lines)) \in Nat
        BY <2>4, FS_CardinalityType
      <4>2. QED
        BY <1>1, <1>2, <2>3, <2>4, <4>1, FS_EmptySet DEF Underway
    <3>2. QED
      BY <1>1, <1>2, <2>1, <2>3, <3>1 DEF Own
  <2>7. (FilesAreLines /\ RowsUnderway /\ ToldOfImported)'
    BY <1>1, <1>3, <2>6, OthersGoOn DEF Imported
  <2>8. (RowsApart /\ FilesApart)'
    BY <1>1, <1>3, <2>3 DEF RowsApart, FilesApart, OthersKeep, Imported
  <2>9. QED
    BY <1>1, <2>5, <2>7, <2>8, TablesKept
<1>5. CASE ~ Readable(source, lines)
  <2>1. /\ answer' = [answer EXCEPT ![i] = "unreadable"] /\ file' = [file EXCEPT ![i] = lines]
        /\ UNCHANGED <<pc, todo>> /\ uploads < MaxUploads /\ uploads' = uploads + 1
    BY <1>5 DEF Upload
  <2>2. TypeOK'
    BY <1>1, <2>1, MaxUploadsIsCount DEF TypeOK
  <2>3. Own(i)'
    BY <1>1, <1>2, <2>1 DEF Own, TypeOK
  <2>4. (FilesAreLines /\ RowsUnderway /\ ToldOfImported)'
    BY <1>1, <1>3, <2>3, OthersGoOn DEF Imported
  <2>5. (RowsApart /\ FilesApart)'
    BY <1>1, <1>3, <2>1 DEF RowsApart, FilesApart, OthersKeep, Imported
  <2>6. QED
    BY <1>1, <2>2, <2>4, <2>5, TablesKept
<1>6. QED
  BY <1>4, <1>5

\* Register lets one importer at a time into a file, and none into a file that is committed.
LEMMA RegisterKeeps ==
  ASSUME IndInv, NEW i \in Importers, Register(i)
  PROVE  IndInv'
<1> USE DEF IndInv
<1>1. /\ UNCHANGED <<batches, ledger, file, todo, mine, skipped, answer, uploads>>
      /\ pc[i] = "register" /\ pc' = [pc EXCEPT ![i] = "insert"]
      /\ file[i] \notin Imported /\ WaitsFor(i) = {}
  BY DEF Register
<1>2. OthersKeep(i)
  BY <1>1 DEF OthersKeep, TypeOK
<1>3. TypeOK'
  BY <1>1 DEF TypeOK
<1>4. Own(i)'
  <2>1. Own(i) /\ pc'[i] = "insert"
    BY <1>1, OwnOfAll DEF TypeOK
  <2>2. Underway(i) => Underway(i)'
    BY <1>1 DEF Underway
  <2>3. QED
    BY <1>1, <2>1, <2>2 DEF Own, Imported
<1>5. (FilesAreLines /\ RowsUnderway /\ ToldOfImported)'
  BY <1>1, <1>2, <1>4, OthersGoOn DEF Imported
<1>6. RowsApart'
  BY <1>1 DEF RowsApart
<1>7. FilesApart'
  <2>1. \A j \in Importers \ {i} : pc[j] = "insert" => file[j] # file[i]
    BY <1>1 DEF WaitsFor
  <2>2. QED
    BY <1>1, <1>2, <2>1 DEF FilesApart, OthersKeep, Imported
<1>8. QED
  BY <1>1, <1>3, <1>5, <1>6, <1>7, TablesKept

\* Refuse and Abort give up what is not committed.
LEMMA EndingKeeps ==
  ASSUME IndInv, NEW i \in Importers, NEW told \in {"duplicate", "failed"}, Ends(i, told),
         UNCHANGED <<batches, ledger>>, told = "duplicate" => file[i] \in Imported
  PROVE  IndInv'
<1> USE DEF IndInv
<1>1. /\ UNCHANGED <<file, uploads>>
      /\ pc' = [pc EXCEPT ![i] = "idle"] /\ todo' = [todo EXCEPT ![i] = <<>>]
      /\ mine' = [mine EXCEPT ![i] = {}] /\ skipped' = [skipped EXCEPT ![i] = 0]
      /\ answer' = [answer EXCEPT ![i] = told]
  BY DEF Ends
<1>2. pc'[i] = "idle" /\ todo'[i] = <<>> /\ mine'[i] = {} /\ skipped'[i] = 0 /\ answer'[i] = told
  BY <1>1 DEF TypeOK
<1>3. OthersKeep(i)
  BY <1>1 DEF OthersKeep, TypeOK
<1>4. TypeOK'
  <2>1. DOMAIN <<>> = {} /\ Range(<<>>) = {}
    BY DEF Range
  <2>2. \A j \in Importers : DOMAIN todo'[j] \subseteq Nat /\ Range(todo'[j]) \subseteq Fingerprints
    BY <1>2, <1>3, <2>1 DEF TypeOK, OthersKeep
  <2>3. QED
    BY <1>1, <2>2 DEF TypeOK
<1>5. Own(i)'
  BY <1>1, <1>2 DEF Own, Imported
<1>6. (FilesAreLines /\ RowsUnderway /\ ToldOfImported)'
  BY <1>3, <1>5, OthersGoOn DEF Imported
<1>7. (RowsApart /\ FilesApart)'
  BY <1>1, <1>2, <1>3 DEF RowsApart, FilesApart, OthersKeep, Imported
<1>8. QED
  BY <1>4, <1>6, <1>7, TablesKept

\* Insert moves a row from what is to be done to what is there, and its line to one count.
LEMMA InsertKeeps ==
  ASSUME IndInv, NEW i \in Importers, Insert(i)
  PROVE  IndInv'
<1> USE DEF IndInv
<1> DEFINE n == NextLine(i)
           row == NextRow(i)
           D == DOMAIN todo[i]
<1>1. /\ pc[i] = "insert" /\ D # {} /\ WaitsFor(i) = {}
      /\ todo' = [todo EXCEPT ![i] = Restrict(todo[i], D \ {n})]
      /\ UNCHANGED <<batches, ledger, pc, file, answer, uploads>>
  BY DEF Insert
<1>2. /\ row \in ledger \cup mine[i] =>
           skipped' = [skipped EXCEPT ![i] = skipped[i] + 1] /\ UNCHANGED mine
      /\ row \notin ledger \cup mine[i] =>
           mine' = [mine EXCEPT ![i] = mine[i] \cup {row}] /\ UNCHANGED skipped
  BY DEF Insert
<1>3. /\ Underway(i) /\ D \in SUBSET Nat /\ Range(todo[i]) \subseteq Fingerprints
      /\ mine[i] \subseteq Fingerprints /\ skipped[i] \in Nat
  BY <1>1 DEF RowsUnderway, TypeOK
<1>4. n \in D
  BY <1>1, <1>3, LeastIsOne DEF NextLine
<1>5. todo'[i] = Restrict(todo[i], D \ {n})
  BY <1>1 DEF TypeOK
<1>6. /\ DOMAIN todo'[i] = D \ {n}
      /\ Range(todo[i]) = Range(todo'[i]) \cup {row}
  <2>1. \A m \in D \ {n} : todo'[i][m] = todo[i][m]
    BY <1>5 DEF Restrict
  <2>2. DOMAIN todo'[i] = D \ {n}
    BY <1>5 DEF Restrict
  <2>3. row = todo[i][n]
    BY DEF NextRow
  <2> HIDE DEF n, row
  <2>4. QED
    BY <1>4, <2>1, <2>2, <2>3 DEF Range
<1>7. OthersKeep(i)
  <2>1. \A j \in Importers \ {i} : todo'[j] = todo[j]
    BY <1>1 DEF TypeOK
  <2>2. \A j \in Importers \ {i} : mine'[j] = mine[j] /\ skipped'[j] = skipped[j]
    BY <1>2 DEF TypeOK
  <2>3. QED
    BY <1>1, <2>1, <2>2 DEF OthersKeep
<1> HIDE DEF n, row
<1>8. /\ IsFiniteSet(D \ {n}) /\ Cardinality(D \ {n}) = Cardinality(D) - 1
      /\ Cardinality(D) \in Nat
  BY <1>3, <1>4, FS_RemoveElement, FS_CardinalityType DEF Underway
<1>9. row \in Range(todo[i]) /\ row \in Fingerprints
  BY <1>3, <1>6
<1>10. /\ mine'[i] \subseteq Fingerprints /\ skipped'[i] \in Nat
       /\ IsFiniteSet(mine'[i])
       /\ skipped'[i] + Cardinality(mine'[i]) = skipped[i] + Cardinality(mine[i]) + 1
       /\ ledger \cup mine'[i] = ledger \cup mine[i] \cup {row}
       /\ mine'[i] \subseteq mine[i] \cup {row}
       /\ (mine'[i] = mine[i] \/ row \notin ledger \cup mine[i])
       /\ mine' \in [Importers -> SUBSET Fingerprints] /\ skipped' \in [Importers -> Nat]
  <2>1. CASE row \in ledger \cup mine[i]
    <3>1. skipped' = [skipped EXCEPT ![i] = skipped[i] + 1] /\ mine' = mine
      BY <1>2, <2>1
    <3>2. skipped'[i] = skipped[i] + 1
      BY <3>1 DEF TypeOK
    <3>3. IsFiniteSet(mine[i]) /\ Cardinality(mine[i]) \in Nat
      BY <1>3, FS_CardinalityType DEF Underway
    <3>4. skipped' \in [Importers -> Nat] /\ mine' \in [Importers -> SUBSET Fingerprints]
      BY <3>1 DEF TypeOK
    <3>5. skipped'[i] + Cardinality(mine'[i]) = skipped[i] + Cardinality(mine[i]) + 1
      BY <1>3, <3>1, <3>2, <3>3
    <3>6. QED
      BY <1>3, <2>1, <3>1, <3>2, <3>3, <3>4, <3>5
  <2>2. CASE row \notin ledger \cup mine[i]
    <3>1. mine' = [mine EXCEPT ![i] = mine[i] \cup {row}] /\ skipped' = skipped
      BY <1>2, <2>2
    <3>2. mine'[i] = mine[i] \cup {row}
      BY <3>1 DEF TypeOK
    <3>3. /\ IsFiniteSet(mine[i]) /\ Cardinality(mine[i]) \in Nat
          /\ IsFiniteSet(mine'[i]) /\ Cardinality(mine'[i]) = Cardinality(mine[i]) + 1
      BY <1>3, <2>2, <3>2, FS_CardinalityType, FS_AddElement DEF Underway
    <3>4. skipped' \in [Importers -> Nat] /\ mine' \in [Importers -> SUBSET Fingerprints]
      BY <1>9, <3>1 DEF TypeOK
    <3>5. skipped'[i] + Cardinality(mine'[i]) = skipped[i] + Cardinality(mine[i]) + 1
      BY <1>3, <3>1, <3>3
    <3>6. QED
      BY <1>3, <1>9, <2>2, <3>1, <3>2, <3>3, <3>4, <3>5
  <2>3. QED
    BY <2>1, <2>2
<1>11. TypeOK'
  <2>1. DOMAIN todo'[i] \subseteq Nat /\ Range(todo'[i]) \subseteq Fingerprints
    BY <1>3, <1>6
  <2>2. \A j \in Importers : DOMAIN todo'[j] \subseteq Nat /\ Range(todo'[j]) \subseteq Fingerprints
    BY <1>7, <2>1 DEF TypeOK, OthersKeep
  <2>3. DOMAIN todo' = Importers
    BY <1>1 DEF TypeOK
  <2>4. QED
    BY <1>1, <1>10, <2>2, <2>3 DEF TypeOK
<1>12. Underway(i)'
  <2>1. /\ RowsOf(file[i]) \subseteq ledger \cup mine[i] \cup Range(todo[i])
        /\ mine[i] \cup Range(todo[i]) \subseteq RowsOf(file[i])
        /\ IsFiniteSet(mine[i])
        /\ skipped[i] + Cardinality(mine[i]) + Cardinality(D) = Cardinality(Showing(file[i]))
    BY <1>3 DEF Underway
  <2>2. RowsOf(file[i]) \subseteq ledger \cup mine'[i] \cup Range(todo'[i])
    BY <1>6, <1>10, <2>1
  <2>3. mine'[i] \cup Range(todo'[i]) \subseteq RowsOf(file[i])
    BY <1>6, <1>10, <2>1
  <2>4. skipped'[i] + Cardinality(mine'[i]) + Cardinality(D \ {n}) = Cardinality(Showing(file[i]))
    <3>1. Cardinality(mine[i]) \in Nat /\ Cardinality(mine'[i]) \in Nat
      BY <1>10, <2>1, FS_CardinalityType
    <3>2. \A s, m, d, t, u, e, c :
            s \in Nat /\ m \in Nat /\ d \in Nat /\ t \in Nat /\ u \in Nat
            /\ s + m + d = c /\ t + u = s + m + 1 /\ e = d - 1 => t + u + e = c
      OBVIOUS
    <3>3. QED
      BY <1>3, <1>8, <1>10, <2>1, <3>1, <3>2
  <2>5. file' = file /\ ledger' = ledger
    BY <1>1
  <2>6. QED
    BY <1>6, <1>8, <1>10, <2>2, <2>3, <2>4, <2>5 DEF Underway
<1>13. Own(i)'
  <2>1. Own(i)
    BY OwnOfAll
  <2>2. QED
    BY <1>1, <1>12, <2>1 DEF Own, Imported
<1>14. (FilesAreLines /\ RowsUnderway /\ ToldOfImported)'
  BY <1>1, <1>7, <1>13, OthersGoOn DEF Imported
<1>15. RowsApart'
  <2>1. \A j \in Importers \ {i} : row \notin mine[j]
    BY <1>1 DEF WaitsFor, row
  <2>2. mine'[i] \cap ledger = {} /\ \A j \in Importers \ {i} : mine'[i] \cap mine[j] = {}
    BY <1>10, <2>1 DEF RowsApart
  <2>3. QED
    BY <1>1, <1>7, <2>2 DEF RowsApart, OthersKeep
<1>16. FilesApart'
  BY <1>1 DEF FilesApart, Imported
<1>17. QED
  BY <1>1, <1>11, <1>14, <1>15, <1>16, TablesKept

-----------------------------------------------------------------------------
(* Commit.                                                                 *)

\* What is left when every line is done: each row of the file is there or in the open
\* transaction, and the counts add up to the lines.
LEMMA AllIsDone ==
  ASSUME IndInv, NEW i \in Importers, pc[i] = "insert", DOMAIN todo[i] = {}
  PROVE  /\ \E source \in Sources : file[i] \in Seq(LinesOf(source))
         /\ ShownIn(file[i]) \in [Kinds -> Nat]
         /\ RowsOf(file[i]) \subseteq ledger \cup mine[i] /\ mine[i] \subseteq RowsOf(file[i])
         /\ IsFiniteSet(mine[i]) /\ Cardinality(mine[i]) \in Nat /\ skipped[i] \in Nat
         /\ Cardinality(mine[i]) + skipped[i] = Cardinality(Showing(file[i]))
         /\ file[i] \notin Imported
<1> USE DEF IndInv
<1>1. Underway(i) /\ file[i] \notin Imported /\ skipped[i] \in Nat
  BY DEF RowsUnderway, FilesApart, TypeOK
<1>2. PICK source \in Sources : file[i] \in Seq(LinesOf(source))
  BY DEF FilesAreLines
<1>3. ShownIn(file[i]) \in [Kinds -> Nat]
  BY <1>2, ShownIsNat
<1>4. Range(todo[i]) = {}
  BY DEF Range
<1>5. IsFiniteSet(mine[i]) /\ Cardinality(mine[i]) \in Nat
  BY <1>1, FS_CardinalityType DEF Underway
<1>6. Cardinality(mine[i]) + skipped[i] = Cardinality(Showing(file[i]))
  <2>1. skipped[i] + Cardinality(mine[i]) + Cardinality(DOMAIN todo[i]) = Cardinality(Showing(file[i]))
    BY <1>1 DEF Underway
  <2>2. Cardinality(DOMAIN todo[i]) = 0
    BY FS_EmptySet
  <2>3. QED
    BY <1>1, <1>5, <2>1, <2>2
<1>7. RowsOf(file[i]) \subseteq ledger \cup mine[i] /\ mine[i] \subseteq RowsOf(file[i])
  BY <1>1, <1>4 DEF Underway
<1>8. QED
  BY <1>1, <1>2, <1>3, <1>5, <1>6, <1>7

\* A file's rows of one payment are numbered from 0 to the number of lines that show it.
LEMMA RowsOfOneKind ==
  ASSUME NEW lines, ShownIn(lines) \in [Kinds -> Nat], NEW k \in Kinds
  PROVE  \A f \in RowsOf(lines) :
           f.source = Payments[k].source /\ f.content = ContentOf(Payments[k])
             <=> f \in RowsOfKind(k, ShownIn(lines)[k])
<1>1. ASSUME NEW f \in RowsOf(lines), f.source = Payments[k].source, f.content = ContentOf(Payments[k])
      PROVE  f \in RowsOfKind(k, ShownIn(lines)[k])
  <2>1. PICK l \in Kinds : f \in RowsOfKind(l, ShownIn(lines)[l])
    BY DEF RowsOf
  <2>2. ShownIn(lines)[l] \in Nat
    OBVIOUS
  <2>3. l = k
    BY <1>1, <2>1, <2>2, KindsApart
  <2>4. QED
    BY <2>1, <2>3
<1>2. \A f \in RowsOfKind(k, ShownIn(lines)[k]) :
        f.source = Payments[k].source /\ f.content = ContentOf(Payments[k])
  BY FingerprintIs DEF RowsOfKind
<1>3. QED
  BY <1>1, <1>2

\* The ledger takes up a file: a payment counts as often as it did, or as the file shows
\* it if that is more.
LEMMA CommitCounts ==
  ASSUME IndInv, NEW i \in Importers, Commit(i), NEW k \in Kinds
  PROVE  /\ InLedger(k)' = RowsOfKind(k, Counted(k)')
         /\ Counted(k) \in Nat /\ ShownIn(file[i])[k] \in Nat
         /\ Counted(k)' = Promise!AtLeast(Counted(k), ShownIn(file[i])[k])
<1> DEFINE c == Counted(k)
           s == ShownIn(file[i])[k]
           m == Promise!AtLeast(c, s)
           ofKind(f) == f.source = Payments[k].source /\ f.content = ContentOf(Payments[k])
<1>1. /\ ledger' = ledger \cup mine[i]
      /\ pc[i] = "insert" /\ DOMAIN todo[i] = {}
  BY DEF Commit
<1>2. /\ ShownIn(file[i]) \in [Kinds -> Nat]
      /\ RowsOf(file[i]) \subseteq ledger \cup mine[i] /\ mine[i] \subseteq RowsOf(file[i])
  BY <1>1, AllIsDone
<1>3. c \in Nat /\ s \in Nat /\ InLedger(k) = RowsOfKind(k, c)
  BY <1>2 DEF IndInv, LedgerIsWhole
<1>4. InLedger(k)' = RowsOfKind(k, c) \cup RowsOfKind(k, s)
  <2>1. InLedger(k)' = {f \in ledger \cup mine[i] : ofKind(f)}
    BY <1>1 DEF InLedger
  <2>2. RowsOfKind(k, c) = {f \in ledger : ofKind(f)}
    BY <1>3 DEF InLedger
  <2>3. RowsOfKind(k, s) \subseteq RowsOf(file[i])
    BY DEF RowsOf
  <2>4. \A f \in RowsOf(file[i]) : ofKind(f) <=> f \in RowsOfKind(k, s)
    BY <1>2, RowsOfOneKind
  <2> HIDE DEF ofKind, s
  <2>5. QED
    BY <1>2, <2>1, <2>2, <2>3, <2>4
<1>5. RowsOfKind(k, c) \cup RowsOfKind(k, s) = RowsOfKind(k, m) /\ m \in Nat
  <2> HIDE DEF c, s
  <2>1. CASE c >= s
    <3>1. m = c /\ 0 .. s - 1 \subseteq 0 .. c - 1
      BY <1>3, <2>1 DEF Promise!AtLeast
    <3>2. QED
      BY <1>3, <3>1 DEF RowsOfKind
  <2>2. CASE ~ (c >= s)
    <3>1. m = s /\ 0 .. c - 1 \subseteq 0 .. s - 1
      BY <1>3, <2>2 DEF Promise!AtLeast
    <3>2. QED
      BY <1>3, <3>1 DEF RowsOfKind
  <2>3. QED
    BY <2>1, <2>2
<1>6. Counted(k)' = Cardinality(InLedger(k)')
  BY DEF Counted
<1>7. Cardinality(RowsOfKind(k, m)) = m
  BY <1>5, KindCounts
<1>8. QED
  BY <1>3, <1>4, <1>5, <1>6, <1>7

\* The receipts of a file count its new rows.
LEMMA CommitReceipts ==
  ASSUME IndInv, NEW i \in Importers, Commit(i)
  PROVE  InsertedIsCounted'
<1> DEFINE n == Cardinality(mine[i])
           b == [lines |-> file[i], inserted |-> n, skipped |-> skipped[i]]
           new == {b} \X (1 .. n)
<1>1. /\ ledger' = ledger \cup mine[i] /\ batches' = batches \cup {b}
      /\ pc[i] = "insert" /\ DOMAIN todo[i] = {}
  BY DEF Commit
<1>2. /\ file[i] \notin Imported /\ IsFiniteSet(mine[i]) /\ n \in Nat
  BY <1>1, AllIsDone
<1>3. b \notin batches
  <2>1. b.lines = file[i]
    OBVIOUS
  <2> HIDE DEF b
  <2>2. QED
    BY <1>2, <2>1 DEF Imported
<1>4. IsFiniteSet(new) /\ Cardinality(new) = n
  <2>1. IsFiniteSet(1 .. n) /\ Cardinality(1 .. n) = n
    BY <1>2, FS_Interval
  <2> DEFINE f == [q \in 1 .. n |-> <<b, q>>]
  <2> HIDE DEF b, n
  <2>2. f \in [1 .. n -> new] /\ \A p, q \in 1 .. n : f[p] = f[q] => p = q
    OBVIOUS
  <2>3. \A x \in new : \E q \in 1 .. n : f[q] = x
    OBVIOUS
  <2> HIDE DEF f, new
  <2>4. f \in Bijection(1 .. n, new)
    BY <2>2, <2>3 DEF Bijection, Injection, Surjection, IsInjective
  <2>5. QED
    BY <2>1, <2>4, FS_Bijection DEF ExistsBijection
<1>5. b.inserted = n
  OBVIOUS
<1>6. Receipts' = Receipts \cup new
  <2>1. Receipts' = UNION {{a} \X (1 .. a.inserted) : a \in batches'}
    BY DEF Receipts
  <2>2. Receipts = UNION {{a} \X (1 .. a.inserted) : a \in batches}
    BY DEF Receipts
  <2>3. {b} \X (1 .. b.inserted) = new
    BY <1>5
  <2> HIDE DEF b, n, new
  <2>4. QED
    BY <1>1, <2>1, <2>2, <2>3
<1>7. Receipts \cap new = {}
  <2>1. \A x \in Receipts : x[1] \in batches
    BY DEF Receipts
  <2> HIDE DEF b, n
  <2>2. \A x \in new : x[1] = b
    OBVIOUS
  <2>3. QED
    BY <1>3, <2>1, <2>2
<1> HIDE DEF b, new
<1>8. /\ IsFiniteSet(Receipts) /\ Cardinality(Receipts) = Cardinality(ledger)
      /\ IsFiniteSet(ledger) /\ mine[i] \cap ledger = {}
  BY DEF IndInv, InsertedIsCounted, LedgerIsWhole, RowsApart
<1>9. Cardinality(ledger) \in Nat /\ Cardinality({}) = 0
  BY <1>8, FS_CardinalityType, FS_EmptySet
<1>10. /\ IsFiniteSet(Receipts \cup new)
       /\ Cardinality(Receipts \cup new) = Cardinality(Receipts) + n - Cardinality(Receipts \cap new)
  BY <1>4, <1>8, FS_Union
<1>11. Cardinality(ledger \cup mine[i]) = Cardinality(ledger) + n - Cardinality(ledger \cap mine[i])
  BY <1>2, <1>8, FS_Union
<1>12. ledger \cap mine[i] = {}
  BY <1>8
<1>13. Cardinality(Receipts \cup new) = Cardinality(ledger \cup mine[i])
  BY <1>7, <1>8, <1>10, <1>11, <1>12
<1>14. QED
  BY <1>1, <1>6, <1>10, <1>13 DEF InsertedIsCounted

\* What is committed stays whole.
LEMMA CommitIsWhole ==
  ASSUME IndInv, NEW i \in Importers, Commit(i)
  PROVE  LedgerIsWhole'
<1> DEFINE b == [lines |-> file[i], inserted |-> Cardinality(mine[i]), skipped |-> skipped[i]]
<1>1. /\ ledger' = ledger \cup mine[i] /\ batches' = batches \cup {b}
      /\ pc[i] = "insert" /\ DOMAIN todo[i] = {}
  BY DEF Commit
<1>2. /\ RowsOf(file[i]) \subseteq ledger \cup mine[i] /\ mine[i] \subseteq RowsOf(file[i])
      /\ ShownIn(file[i]) \in [Kinds -> Nat] /\ IsFiniteSet(mine[i])
      /\ Cardinality(mine[i]) + skipped[i] = Cardinality(Showing(file[i]))
  BY <1>1, AllIsDone
<1>3. LedgerIsWhole
  BY DEF IndInv
<1>4. IsFiniteSet(ledger')
  BY <1>1, <1>2, <1>3, FS_Union DEF LedgerIsWhole
<1>5. b.lines = file[i] /\ b.inserted + b.skipped = Cardinality(Showing(file[i]))
  BY <1>2
<1> HIDE DEF b
<1>6. \A a \in batches' : /\ ShownIn(a.lines) \in [Kinds -> Nat] /\ RowsOf(a.lines) \subseteq ledger'
                          /\ a.inserted + a.skipped = Cardinality(Showing(a.lines))
  BY <1>1, <1>2, <1>3, <1>5 DEF LedgerIsWhole
<1>7. \A k \in Kinds : Counted(k)' \in Nat /\ InLedger(k)' = RowsOfKind(k, Counted(k)')
  BY CommitCounts DEF Promise!AtLeast
<1>8. ASSUME NEW f \in ledger' PROVE \E k \in Kinds : f \in InLedger(k)'
  <2>1. CASE f \in ledger
    BY <1>1, <1>3, <2>1 DEF LedgerIsWhole, InLedger
  <2>2. CASE f \in mine[i]
    <3>1. PICK k \in Kinds : f \in RowsOfKind(k, ShownIn(file[i])[k])
      BY <1>2, <2>2 DEF RowsOf
    <3>2. f.source = Payments[k].source /\ f.content = ContentOf(Payments[k])
      BY <1>2, <2>2, <3>1, RowsOfOneKind
    <3>3. QED
      BY <1>1, <2>2, <3>2 DEF InLedger
  <2>3. QED
    BY <1>1, <2>1, <2>2
<1>9. QED
  BY <1>4, <1>6, <1>7, <1>8 DEF LedgerIsWhole

\* Commit brings the rest of the file into the ledger.
LEMMA CommitKeeps ==
  ASSUME IndInv, NEW i \in Importers, Commit(i)
  PROVE  IndInv'
<1> USE DEF IndInv
<1> DEFINE b == [lines |-> file[i], inserted |-> Cardinality(mine[i]), skipped |-> skipped[i]]
<1>1. /\ ledger' = ledger \cup mine[i] /\ batches' = batches \cup {b}
      /\ pc[i] = "insert" /\ DOMAIN todo[i] = {}
      /\ UNCHANGED <<file, uploads>>
      /\ pc' = [pc EXCEPT ![i] = "idle"] /\ todo' = [todo EXCEPT ![i] = <<>>]
      /\ mine' = [mine EXCEPT ![i] = {}] /\ skipped' = [skipped EXCEPT ![i] = 0]
      /\ answer' = [answer EXCEPT ![i] = "imported"]
  BY DEF Commit, Ends
<1>2. pc'[i] = "idle" /\ todo'[i] = <<>> /\ mine'[i] = {} /\ skipped'[i] = 0 /\ answer'[i] = "imported"
  BY <1>1 DEF TypeOK
<1>3. OthersKeep(i)
  BY <1>1 DEF OthersKeep, TypeOK
<1>4. /\ b.lines = file[i] /\ b.inserted \in Nat /\ b.skipped \in Nat
  BY <1>1, AllIsDone
<1> HIDE DEF b
<1>5. Imported' = Imported \cup {file[i]}
  BY <1>1, <1>4 DEF Imported
<1>6. TypeOK'
  <2>1. DOMAIN <<>> = {} /\ Range(<<>>) = {}
    BY DEF Range
  <2>2. \A j \in Importers : DOMAIN todo'[j] \subseteq Nat /\ Range(todo'[j]) \subseteq Fingerprints
    BY <1>2, <1>3, <2>1 DEF TypeOK, OthersKeep
  <2>3. ledger' \subseteq Fingerprints
    BY <1>1 DEF TypeOK
  <2>4. \A a \in batches' : a.inserted \in Nat /\ a.skipped \in Nat
    BY <1>1, <1>4 DEF TypeOK
  <2>5. /\ pc' \in [Importers -> {"idle", "register", "insert"}]
        /\ DOMAIN file' = Importers /\ DOMAIN todo' = Importers
        /\ mine' \in [Importers -> SUBSET Fingerprints] /\ skipped' \in [Importers -> Nat]
        /\ answer' \in [Importers -> {"none", "unreadable", "duplicate", "failed", "imported"}]
        /\ uploads' \in 0 .. MaxUploads
    BY <1>1 DEF TypeOK
  <2>6. QED
    BY <2>2, <2>3, <2>4, <2>5 DEF TypeOK
<1>7. Own(i)'
  BY <1>1, <1>2, <1>5 DEF Own
<1>8. (FilesAreLines /\ RowsUnderway /\ ToldOfImported)'
  BY <1>1, <1>3, <1>5, <1>7, OthersGoOn
<1>9. RowsApart'
  <2>1. ASSUME NEW j \in Importers, NEW l \in Importers \ {j}
        PROVE  mine'[j] \cap ledger' = {} /\ mine'[j] \cap mine'[l] = {}
    <3>1. mine'[j] = (IF j = i THEN {} ELSE mine[j]) /\ mine'[l] = (IF l = i THEN {} ELSE mine[l])
      BY <1>2, <1>3 DEF OthersKeep
    <3>2. mine[j] \cap ledger = {} /\ mine[j] \cap mine[l] = {} /\ (j # i => mine[j] \cap mine[i] = {})
      BY DEF RowsApart
    <3>3. QED
      BY <1>1, <3>1, <3>2
  <2>2. ASSUME NEW j \in Importers PROVE mine'[j] \cap ledger' = {}
    <3>1. mine'[j] = (IF j = i THEN {} ELSE mine[j])
      BY <1>2, <1>3 DEF OthersKeep
    <3>2. mine[j] \cap ledger = {} /\ (j # i => mine[j] \cap mine[i] = {})
      BY DEF RowsApart
    <3>3. QED
      BY <1>1, <3>1, <3>2
  <2>3. QED
    BY <2>1, <2>2 DEF RowsApart
<1>10. FilesApart'
  <2>1. ASSUME NEW j \in Importers, pc'[j] = "insert"
        PROVE  /\ j # i /\ pc[j] = "insert" /\ file'[j] = file[j]
               /\ file[j] \notin Imported /\ file[j] # file[i]
    <3>1. j # i
      BY <1>2, <2>1
    <3>2. pc[j] = "insert" /\ file'[j] = file[j]
      BY <1>3, <2>1, <3>1 DEF OthersKeep
    <3>3. QED
      BY <1>1, <3>1, <3>2 DEF FilesApart
  <2>2. \A j \in Importers : pc'[j] = "insert" => file'[j] \notin Imported'
    BY <1>5, <2>1
  <2>3. \A j \in Importers : \A l \in Importers \ {j} :
          pc'[j] = "insert" /\ pc'[l] = "insert" => file'[l] # file'[j]
    BY <2>1 DEF FilesApart
  <2>4. QED
    BY <2>2, <2>3 DEF FilesApart
<1>11. QED
  BY <1>6, <1>8, <1>9, <1>10, CommitIsWhole, CommitReceipts

-----------------------------------------------------------------------------
(* Theorems.                                                               *)

LEMMA StepKeepsInv == IndInv /\ [Next]_vars => IndInv'
<1> SUFFICES ASSUME IndInv, [Next]_vars PROVE IndInv'
  OBVIOUS
<1>1. ASSUME NEW i \in Importers, NEW source \in Sources, NEW lines \in HandedIn[source],
             Upload(i, source, lines)
      PROVE  IndInv'
  BY <1>1, UploadKeeps
<1>2. ASSUME NEW i \in Importers, ImportStep(i) PROVE IndInv'
  <2>1. CASE Register(i)
    BY <2>1, RegisterKeeps
  <2>2. CASE Refuse(i)
    BY <2>2, EndingKeeps DEF Refuse
  <2>3. CASE Insert(i)
    BY <2>3, InsertKeeps
  <2>4. CASE Commit(i)
    BY <2>4, CommitKeeps
  <2>5. QED
    BY <1>2, <2>1, <2>2, <2>3, <2>4 DEF ImportStep
<1>3. ASSUME NEW i \in Importers, Abort(i) PROVE IndInv'
  BY <1>3, EndingKeeps DEF Abort
<1>4. CASE UNCHANGED vars
  BY <1>4 DEF vars, IndInv, TypeOK, FilesAreLines, RowsUnderway, Underway, RowsApart, FilesApart,
     ToldOfImported, Imported, LedgerIsWhole, InsertedIsCounted, InLedger, Counted, Receipts
<1>5. QED
  BY <1>1, <1>2, <1>3, <1>4 DEF Next

\* However imports interleave, wait for each other, fail and are aborted, no row of a
\* file is lost or doubled on its way to the ledger, and what is committed is whole.
THEOREM Invariance == Spec => []IndInv
  BY Initially, StepKeepsInv, PTL DEF Spec

\* Every variable keeps its type: what reaches the ledger is a fingerprint with a day, a
\* direction and an amount above zero, whatever sign the statement printed.
THEOREM TypeCorrect == Spec => []TypeOK
<1>1. IndInv => TypeOK
  BY DEF IndInv
<1>2. QED
  BY <1>1, Invariance, PTL

\* A file whose rows are in the ledger is counted there in full.
LEMMA WholeCounts ==
  ASSUME IndInv, NEW lines, ShownIn(lines) \in [Kinds -> Nat], RowsOf(lines) \subseteq ledger, NEW k \in Kinds
  PROVE  Counted(k) \in Nat /\ Counted(k) >= ShownIn(lines)[k]
<1> DEFINE s == ShownIn(lines)[k]
<1>1. s \in Nat /\ Counted(k) \in Nat /\ IsFiniteSet(ledger)
  BY DEF IndInv, LedgerIsWhole
<1>2. RowsOfKind(k, s) \subseteq InLedger(k)
  <2>1. RowsOfKind(k, s) \subseteq RowsOf(lines)
    BY DEF RowsOf
  <2>2. QED
    BY <2>1, RowsOfOneKind DEF InLedger
<1> HIDE DEF s
<1>3. IsFiniteSet(InLedger(k))
  BY <1>1, FS_Subset DEF InLedger
<1>4. Cardinality(RowsOfKind(k, s)) <= Cardinality(InLedger(k))
  BY <1>2, <1>3, FS_Subset
<1>5. Cardinality(RowsOfKind(k, s)) = s
  BY <1>1, KindCounts
<1>6. QED
  BY <1>1, <1>4, <1>5 DEF Counted, s

LEMMA InvTellsTruth == IndInv => AnswersAreTrue
<1> SUFFICES ASSUME IndInv PROVE AnswersAreTrue
  OBVIOUS
<1>1. ASSUME NEW i \in Importers, answer[i] \in {"imported", "duplicate"}
      PROVE  file[i] \in Imported /\ \A k \in Kinds : Counted(k) >= ShownIn(file[i])[k]
  <2>1. file[i] \in Imported
    BY <1>1 DEF IndInv, ToldOfImported
  <2>2. ShownIn(file[i]) \in [Kinds -> Nat] /\ RowsOf(file[i]) \subseteq ledger
    BY <2>1 DEF IndInv, LedgerIsWhole, Imported
  <2>3. QED
    BY <2>1, <2>2, WholeCounts
<1>2. \A b \in batches : b.inserted + b.skipped = Cardinality(Showing(b.lines))
  BY DEF IndInv, LedgerIsWhole
<1>3. Cardinality(Receipts) = Cardinality(ledger)
  BY DEF IndInv, InsertedIsCounted
<1>4. \A f \in ledger : \E k \in Kinds : f.source = Payments[k].source /\ f.content = ContentOf(Payments[k])
  BY DEF IndInv, LedgerIsWhole, InLedger
<1>5. QED
  BY <1>1, <1>2, <1>3, <1>4 DEF AnswersAreTrue

\* What requests are told is true: "imported" and "duplicate" only of files whose every
\* moving line is in the ledger, counts that add up line by line and over all files, and
\* a ledger of nothing but payments.
THEOREM AnswersTrue == Spec => []AnswersAreTrue
  BY Invariance, InvTellsTruth, PTL

\* An empty ledger promises nothing.
LEMMA InitPromises == Init => Promise!Init
<1> SUFFICES ASSUME Init PROVE Promise!Init
  OBVIOUS
<1>1. batches = {} /\ ledger = {}
  BY DEF Init
<1>2. \A k \in Kinds : Counted(k) = 0
  BY <1>1, FS_EmptySet DEF Counted, InLedger
<1>3. QED
  BY <1>1, <1>2 DEF Promise!Init

\* Commit takes up the file's payments, or leaves every count alone if a file that shows
\* the same was taken up before; nothing else moves the committed tables.
LEMMA StepPromises ==
  ASSUME IndInv, [Next]_vars
  PROVE  [Promise!Next]_Promise!vars
<1> DEFINE absorbed == {ShownIn(b.lines) : b \in batches}
           counted  == [k \in Kinds |-> Counted(k)]
<1>1. CASE UNCHANGED <<batches, ledger>>
  <2>1. UNCHANGED absorbed /\ UNCHANGED counted
    BY <1>1 DEF Counted, InLedger
  <2>2. QED
    BY <2>1 DEF Promise!vars
<1>2. ASSUME NEW i \in Importers, Commit(i)
      PROVE  [Promise!Next]_Promise!vars
  <2> DEFINE shown == ShownIn(file[i])
             b == [lines |-> file[i], inserted |-> Cardinality(mine[i]), skipped |-> skipped[i]]
  <2>1. batches' = batches \cup {b} /\ pc[i] = "insert" /\ DOMAIN todo[i] = {}
    BY <1>2 DEF Commit
  <2>2. b.lines = file[i]
    OBVIOUS
  <2> HIDE DEF b
  <2>3. absorbed' = absorbed \cup {shown}
    BY <2>1, <2>2
  <2>4. \A k \in Kinds : Counted(k)' = Promise!AtLeast(Counted(k), shown[k])
    BY <1>2, CommitCounts
  <2>5. counted' = [k \in Kinds |-> Promise!AtLeast(counted[k], shown[k])]
    BY <2>4
  <2>6. CASE shown \notin absorbed
    BY <2>3, <2>5, <2>6 DEF Promise!Next, Promise!Absorb
  <2>7. CASE shown \in absorbed
    <3>1. PICK a \in batches : ShownIn(a.lines) = shown
      BY <2>7
    <3>2. ShownIn(a.lines) \in [Kinds -> Nat] /\ RowsOf(a.lines) \subseteq ledger
      BY DEF IndInv, LedgerIsWhole
    <3>3. \A k \in Kinds : Counted(k) \in Nat /\ Counted(k) >= shown[k]
      BY <3>1, <3>2, WholeCounts
    <3>4. \A k \in Kinds : Counted(k)' = Counted(k)
      BY <2>4, <3>3 DEF Promise!AtLeast
    <3>5. counted' = counted /\ absorbed' = absorbed
      BY <2>3, <2>7, <3>4
    <3>6. QED
      BY <3>5 DEF Promise!vars
  <2>8. QED
    BY <2>6, <2>7
<1>3. CASE UNCHANGED vars
  BY <1>1, <1>3 DEF vars
<1>4. ASSUME NEW i \in Importers, NEW source \in Sources, NEW lines \in HandedIn[source],
             Upload(i, source, lines)
      PROVE  UNCHANGED <<batches, ledger>>
  BY <1>4 DEF Upload
<1>5. ASSUME NEW i \in Importers, ImportStep(i), ~ Commit(i)
      PROVE  UNCHANGED <<batches, ledger>>
  BY <1>5 DEF ImportStep, Register, Refuse, Insert
<1>6. ASSUME NEW i \in Importers, Abort(i) PROVE UNCHANGED <<batches, ledger>>
  BY <1>6 DEF Abort
<1>7. CASE Next
  <2>1. PICK i \in Importers :
          \/ \E source \in Sources : \E lines \in HandedIn[source] : Upload(i, source, lines)
          \/ ImportStep(i)
          \/ Abort(i)
    BY <1>7 DEF Next
  <2>2. UNCHANGED <<batches, ledger>> \/ Commit(i)
    BY <1>4, <1>5, <1>6, <2>1
  <2>3. QED
    BY <1>1, <1>2, <2>2
<1>8. QED
  BY <1>3, <1>7

\* Imports store statements whole or not at all, and payments that look the same as
\* often as the statement that shows them most often: LedgerImport implements LedgerPromise.
THEOREM ImportsImplement == Spec => ImportsAreWhole
<1>1. Spec => [][Promise!Next]_Promise!vars
  BY Invariance, StepPromises, PTL DEF Spec
<1>2. Spec => Promise!Init
  BY InitPromises DEF Spec
<1>3. QED
  BY <1>1, <1>2, PTL DEF ImportsAreWhole, Promise!Spec

-----------------------------------------------------------------------------
(* Waiting.                                                                *)

\* Who waits in the end for j also waits in the end for all that j does.
LEMMA WaitingGoesOn ==
  ASSUME NEW i \in Importers, NEW j \in WaitsInTheEndFor(i)
  PROVE  WaitsFor(j) \subseteq WaitsInTheEndFor(i) /\ WaitsInTheEndFor(j) \subseteq WaitsInTheEndFor(i)
<1>1. \A l \in Importers : WaitsFor(l) \subseteq Importers
  BY DEF WaitsFor
<1>2. ASSUME NEW l \in WaitsInTheEndFor(i) PROVE WaitsFor(l) \subseteq WaitsInTheEndFor(i)
  BY <1>1 DEF WaitsInTheEndFor
<1>3. WaitsInTheEndFor(i) \in SUBSET Importers
  BY DEF WaitsInTheEndFor
<1> DEFINE S == WaitsInTheEndFor(i)
<1>4. WaitsFor(j) \subseteq S /\ \A l \in S : WaitsFor(l) \subseteq S
  BY <1>2
<1> HIDE DEF S
<1>5. \A l \in WaitsInTheEndFor(j) : l \in S
  BY <1>3, <1>4 DEF WaitsInTheEndFor, S
<1>6. QED
  BY <1>2, <1>5 DEF S

\* Of subsets of a finite set some one has no other inside.
LEMMA SomeIsSmallest ==
  ASSUME NEW U, IsFiniteSet(U), NEW F \in SUBSET (SUBSET U), F # {}
  PROVE  \E A \in F : \A B \in F : ~ (B \subseteq A /\ B # A)
<1>1. IsWellFoundedOn(StrictSubsetOrdering(U), FiniteSubsetsOf(U))
  BY FS_StrictSubsetOrderingWellFounded
<1>2. F \subseteq FiniteSubsetsOf(U)
  BY FS_Subset DEF FiniteSubsetsOf
<1>3. PICK A \in F : \A B \in F : ~ (<<B, A>> \in StrictSubsetOrdering(U))
  BY <1>1, <1>2, WFMin
<1>4. \A B \in F : B \subseteq A /\ B # A => <<B, A>> \in StrictSubsetOrdering(U)
  BY DEF StrictSubsetOrdering
<1>5. \A B \in F : ~ (B \subseteq A /\ B # A)
  BY <1>3, <1>4, Zenon
<1>6. QED
  BY <1>5, Zenon

\* However many requests wait for one another, one of them can go on or waits, in a circle,
\* for itself: waiting leads to open transactions only, and there are finitely many.
THEOREM SomeoneAlwaysGoesOn == Spec => []SomeoneGoesOn
<1>1. IndInv => SomeoneGoesOn
  <2> SUFFICES ASSUME IndInv, NEW a \in Importers, pc[a] # "idle",
                      \A i \in Importers : pc[i] # "idle" => WaitsFor(i) # {} /\ ~ Deadlocked(i)
               PROVE  FALSE
    BY DEF SomeoneGoesOn
  <2> DEFINE Open == {i \in Importers : pc[i] # "idle"}
             F == {WaitsInTheEndFor(i) : i \in Open}
  <2>1. a \in Open /\ \A i \in Open : WaitsInTheEndFor(i) \in F
    OBVIOUS
  <2>2. \A i \in Importers : WaitsInTheEndFor(i) \in SUBSET Importers
    BY DEF WaitsInTheEndFor
  <2>3. F \in SUBSET (SUBSET Importers) /\ F # {}
    BY <2>1, <2>2
  <2> HIDE DEF F
  <2>4. PICK A \in F : \A B \in F : ~ (B \subseteq A /\ B # A)
    BY <2>3, ImportersAreFinite, SomeIsSmallest
  <2>5. PICK i \in Open : A = WaitsInTheEndFor(i)
    BY DEF F
  <2>6. PICK j \in Importers : j \in WaitsFor(i)
    BY <2>5 DEF WaitsFor
  <2>7. j \in Open
    BY <2>6 DEF WaitsFor, IndInv, RowsUnderway
  <2>8. j \in WaitsInTheEndFor(i)
    BY <2>6 DEF WaitsInTheEndFor
  <2>9. WaitsInTheEndFor(j) \subseteq A
    BY <2>5, <2>8, WaitingGoesOn
  <2>10. WaitsInTheEndFor(j) = A
    BY <2>1, <2>4, <2>7, <2>9
  <2>11. Deadlocked(j)
    BY <2>5, <2>8, <2>10 DEF Deadlocked
  <2>12. QED
    BY <2>7, <2>11
<1>2. QED
  BY <1>1, Invariance, PTL
=============================================================================
