---------------------------- MODULE ReadingProofs ----------------------------
(***************************************************************************)
(* What Reading keeps for any number of documents and workers, whatever    *)
(* the papers show, however alike names are, and whatever people teach.    *)
(***************************************************************************)
EXTENDS Reading, WellFoundedInduction, TLAPS

-----------------------------------------------------------------------------
(* What the check digit of a registration number finds, for every number.  *)
(* The sum changes by the error times 1 or 2; where the check digit stays  *)
(* right, that is a multiple of 9, and so is the error.                    *)

\* Sums that give the same check digit differ by a multiple of 9.
LEMMA SameRemainder ==
  ASSUME NEW a \in Nat, NEW b \in Nat, a % 9 = b % 9
  PROVE  \E k \in Int : a - b = 9 * k
PROOF
  <1>1. a - b = 9 * ((a \div 9) - (b \div 9)) OBVIOUS
  <1>2. (a \div 9) - (b \div 9) \in Int OBVIOUS
  <1> QED BY <1>1, <1>2

\* The check digit and the first digit it counts, x and y, change places.
LEMMA CheckedSwap ==
  ASSUME NEW a \in Nat, NEW b \in Nat, NEW x \in Nat, NEW y \in Nat,
         a % 9 = 9 - x, b % 9 = 9 - y, b - a = 2 * (x - y)
  PROVE  \E k \in Int : 9 * k = x - y
PROOF
  <1> DEFINE m == a \div 9
             n == b \div 9
  <1>1. a = 9 * m + (a % 9) /\ b = 9 * n + (b % 9) OBVIOUS
  <1>2. m \in Int /\ n \in Int OBVIOUS
  <1> HIDE DEF m, n
  <1>3. a = 9 * m + (9 - x) /\ b = 9 * n + (9 - y) BY <1>1
  <1>4. 9 * (n - m) = x - y BY <1>2, <1>3
  <1>5. n - m \in Int BY <1>2
  <1> QED BY <1>4, <1>5

\* A difference of digits that is a multiple of 9, doubled or not, is 0 or that of 0 and 9.
LEMMA DigitsApart ==
  ASSUME NEW x \in Digit, NEW y \in Digit, x # y, NEW k \in Int,
         9 * k = x - y \/ 9 * k = 2 * (x - y) \/ 9 * k = y - x
  PROVE  Indistinct(x, y)
PROOF
  <1>1. x \in 0 .. 9 /\ y \in 0 .. 9 BY DEF Digit
  <1>2. k \in -2 .. 2 BY <1>1
  <1>3. (x = 0 /\ y = 9) \/ (x = 9 /\ y = 0)
    <2>1. CASE 9 * k = x - y BY <1>1, <1>2, <2>1
    <2>2. CASE 9 * k = 2 * (x - y) BY <1>1, <1>2, <2>2
    <2>3. CASE 9 * k = y - x BY <1>1, <1>2, <2>3
    <2> QED BY <2>1, <2>2, <2>3
  <1> QED BY <1>3 DEF Indistinct

\* The digits of a number are integers, and so is its sum.
LEMMA WeightedIsNat ==
  ASSUME NEW d \in Digits13
  PROVE  /\ Weighted(d) \in Nat
         /\ \A j \in 1 .. 13 : d[j] \in Digit /\ d[j] \in Nat
PROOF
  <1>1. \A j \in 1 .. 13 : d[j] \in Digit /\ d[j] \in Nat BY DEF Digits13, Digit
  <1> QED BY <1>1 DEF Weighted

\* One digit after the first changes the sum by the difference, once or twice.
LEMMA WeightedMisread ==
  ASSUME NEW d \in Digits13, NEW e \in Digits13, NEW i \in 2 .. 13,
         \A j \in 1 .. 13 : j # i => e[j] = d[j]
  PROVE  Weighted(e) - Weighted(d) \in {e[i] - d[i], 2 * (e[i] - d[i])}
PROOF
  <1>1. \A j \in 1 .. 13 : d[j] \in Nat /\ e[j] \in Nat BY WeightedIsNat
  <1>2. i \in 2 .. 13 OBVIOUS
  <1>3. CASE i = 2 BY <1>1, <1>3 DEF Weighted
  <1>4. CASE i = 3 BY <1>1, <1>4 DEF Weighted
  <1>5. CASE i = 4 BY <1>1, <1>5 DEF Weighted
  <1>6. CASE i = 5 BY <1>1, <1>6 DEF Weighted
  <1>7. CASE i = 6 BY <1>1, <1>7 DEF Weighted
  <1>8. CASE i = 7 BY <1>1, <1>8 DEF Weighted
  <1>9. CASE i = 8 BY <1>1, <1>9 DEF Weighted
  <1>10. CASE i = 9 BY <1>1, <1>10 DEF Weighted
  <1>11. CASE i = 10 BY <1>1, <1>11 DEF Weighted
  <1>12. CASE i = 11 BY <1>1, <1>12 DEF Weighted
  <1>13. CASE i = 12 BY <1>1, <1>13 DEF Weighted
  <1>14. CASE i = 13 BY <1>1, <1>14 DEF Weighted
  <1> QED BY <1>2, <1>3, <1>4, <1>5, <1>6, <1>7, <1>8, <1>9, <1>10, <1>11, <1>12, <1>13, <1>14

\* Two neighbours after the first digit that change places change the sum by their
\* difference.
LEMMA WeightedSwapped ==
  ASSUME NEW d \in Digits13, NEW e \in Digits13, NEW i \in 2 .. 12,
         e[i] = d[i + 1], e[i + 1] = d[i],
         \A j \in 1 .. 13 : j \notin {i, i + 1} => e[j] = d[j]
  PROVE  Weighted(e) - Weighted(d) \in {d[i] - d[i + 1], d[i + 1] - d[i]}
PROOF
  <1>1. \A j \in 1 .. 13 : d[j] \in Nat /\ e[j] \in Nat BY WeightedIsNat
  <1>2. i \in 2 .. 12 OBVIOUS
  <1>3. CASE i = 2 BY <1>1, <1>3 DEF Weighted
  <1>4. CASE i = 3 BY <1>1, <1>4 DEF Weighted
  <1>5. CASE i = 4 BY <1>1, <1>5 DEF Weighted
  <1>6. CASE i = 5 BY <1>1, <1>6 DEF Weighted
  <1>7. CASE i = 6 BY <1>1, <1>7 DEF Weighted
  <1>8. CASE i = 7 BY <1>1, <1>8 DEF Weighted
  <1>9. CASE i = 8 BY <1>1, <1>9 DEF Weighted
  <1>10. CASE i = 9 BY <1>1, <1>10 DEF Weighted
  <1>11. CASE i = 10 BY <1>1, <1>11 DEF Weighted
  <1>12. CASE i = 11 BY <1>1, <1>12 DEF Weighted
  <1>13. CASE i = 12 BY <1>1, <1>13 DEF Weighted
  <1> QED BY <1>2, <1>3, <1>4, <1>5, <1>6, <1>7, <1>8, <1>9, <1>10, <1>11, <1>12, <1>13

\* A valid number with one digit misread passes only if 0 was read as 9 or 9 as 0:
\* the single misreading that Evaluate cannot see.
THEOREM MisreadDigitIsSeen ==
  ASSUME NEW d \in Digits13, NEW i \in 1 .. 13, NEW c \in Digit,
         CheckDigit(d), CheckDigit(Misread(d, i, c)), c # d[i]
  PROVE  Indistinct(c, d[i])
PROOF
  <1> DEFINE e == Misread(d, i, c)
  <1>1. e \in Digits13 /\ e[i] = c /\ \A j \in 1 .. 13 : j # i => e[j] = d[j]
    BY DEF Misread, Digits13
  <1>2. d[1] = 9 - (Weighted(d) % 9) /\ e[1] = 9 - (Weighted(e) % 9)
    BY DEF CheckDigit
  <1> HIDE DEF e
  <1>3. /\ Weighted(d) \in Nat /\ Weighted(e) \in Nat
        /\ d[1] \in Nat /\ e[1] \in Nat /\ d[i] \in Digit
    BY <1>1, WeightedIsNat
  <1>4. CASE i = 1
    <2>1. Weighted(e) = Weighted(d) BY <1>1, <1>4, WeightedIsNat DEF Weighted
    <2> QED BY <1>1, <1>2, <1>3, <1>4, <2>1
  <1>5. CASE i # 1
    <2>1. i \in 2 .. 13 /\ e[1] = d[1] BY <1>1, <1>5
    <2>2. Weighted(e) % 9 = Weighted(d) % 9
      <3> DEFINE we == Weighted(e) % 9
                 wd == Weighted(d) % 9
      <3>1. we \in Int /\ wd \in Int BY <1>3
      <3>2. 9 - we = 9 - wd BY <1>2, <2>1
      <3> QED BY <3>1, <3>2
    <2>3. PICK k \in Int : Weighted(e) - Weighted(d) = 9 * k BY <1>3, <2>2, SameRemainder
    <2>4. 9 * k = c - d[i] \/ 9 * k = 2 * (c - d[i]) BY <1>1, <2>1, <2>3, WeightedMisread
    <2> QED BY <1>3, <2>4, DigitsApart
  <1> QED BY <1>4, <1>5

\* A valid number whose neighbouring digits i and i + 1 changed places passes only if
\* they are 0 and 9.
THEOREM SwapIsSeen ==
  ASSUME NEW d \in Digits13, NEW i \in 1 .. 12,
         CheckDigit(d), CheckDigit(Swapped(d, i)), d[i] # d[i + 1]
  PROVE  Indistinct(d[i], d[i + 1])
PROOF
  <1> DEFINE e == Swapped(d, i)
  <1>1. /\ e \in Digits13 /\ e[i] = d[i + 1] /\ e[i + 1] = d[i]
        /\ \A j \in 1 .. 13 : j \notin {i, i + 1} => e[j] = d[j]
    BY DEF Swapped, Digits13
  <1>2. d[1] = 9 - (Weighted(d) % 9) /\ e[1] = 9 - (Weighted(e) % 9)
    BY DEF CheckDigit
  <1> HIDE DEF e
  <1>3. /\ Weighted(d) \in Nat /\ Weighted(e) \in Nat
        /\ d[1] \in Nat /\ e[1] \in Nat /\ d[i] \in Digit /\ d[i + 1] \in Digit
    BY <1>1, WeightedIsNat
  <1>4. CASE i = 1
    <2>1. Weighted(e) - Weighted(d) = 2 * (d[1] - d[2]) BY <1>1, <1>4, WeightedIsNat DEF Weighted
    <2>4. Weighted(d) % 9 = 9 - d[1] /\ Weighted(e) % 9 = 9 - d[2]
      <3> DEFINE we == Weighted(e) % 9
                 wd == Weighted(d) % 9
      <3>1. we \in Int /\ wd \in Int /\ d[2] \in Nat BY <1>3, <1>4, WeightedIsNat
      <3>2. d[1] = 9 - wd /\ d[2] = 9 - we BY <1>1, <1>2, <1>4
      <3> QED BY <1>3, <3>1, <3>2
    <2>5. d[1] \in Nat /\ d[2] \in Nat BY WeightedIsNat
    <2>6. PICK k \in Int : 9 * k = d[1] - d[2] BY <1>3, <2>1, <2>4, <2>5, CheckedSwap
    <2> QED BY <1>3, <1>4, <2>6, DigitsApart
  <1>5. CASE i # 1
    <2>1. i \in 2 .. 12 /\ e[1] = d[1] BY <1>1, <1>5
    <2>2. Weighted(e) % 9 = Weighted(d) % 9
      <3> DEFINE we == Weighted(e) % 9
                 wd == Weighted(d) % 9
      <3>1. we \in Int /\ wd \in Int BY <1>3
      <3>2. 9 - we = 9 - wd BY <1>2, <2>1
      <3> QED BY <3>1, <3>2
    <2>3. PICK k \in Int : Weighted(e) - Weighted(d) = 9 * k BY <1>3, <2>2, SameRemainder
    <2>4. 9 * k = d[i] - d[i + 1] \/ 9 * k = d[i + 1] - d[i] BY <1>1, <2>1, <2>3, WeightedSwapped
    <2> QED BY <1>3, <2>4, DigitsApart
  <1> QED BY <1>4, <1>5

-----------------------------------------------------------------------------
(* Names and scores.                                                       *)

\* A partner has a name, and names that are taught are added to it.
LEMMA NamesGrow ==
  ASSUME NEW p \in Partners, NEW few, NEW more, few \subseteq more
  PROVE  /\ NamesOf(p, few) \in SUBSET Names /\ Canonical[p] \in NamesOf(p, few)
         /\ NamesOf(p, few) \subseteq NamesOf(p, more)
  BY NamesOfPartners DEF NamesOf

\* A set of numbers that is not empty has a least one.
LEMMA LeastOf ==
  ASSUME NEW S, S \subseteq Nat, S # {}
  PROVE  \E x \in S : \A y \in S : x <= y
<1> DEFINE Less == OpToRel(<, Nat)
<1>1. IsWellFoundedOn(Less, Nat)
  BY NatLessThanWellFounded
<1>2. \A x, y \in Nat : x < y => <<x, y>> \in Less
  BY DEF OpToRel
<1> HIDE DEF Less
<1>3. PICK x \in S : \A y \in S : ~ (<<y, x>> \in Less)
  BY <1>1, WFMin
<1>4. \A y \in S : ~ (y < x)
  BY <1>2, <1>3, Zenon
<1>5. QED
  BY <1>4

\* The score of a result is that of one of its names.
LEMMA ScoreIsOfAName ==
  ASSUME NEW name \in Names, NEW c \in Found, Shared(name, c) # {}
  PROVE  /\ Score(name, c) \in 0 .. 100
         /\ \E n \in c.names : Score(name, c) = Alike[name, n]
<1> DEFINE scores == {Alike[name, n] : n \in Shared(name, c)}
           short == {100 - s : s \in scores}
<1>1. Shared(name, c) \subseteq Names /\ Shared(name, c) \subseteq c.names
  BY DEF Found, Shared
<1>2. \A n \in Shared(name, c) : Alike[name, n] \in 0 .. 100
  BY <1>1, AlikeIsPercent
<1>3. scores \subseteq 0 .. 100 /\ scores # {}
  BY <1>1, <1>2
<1> HIDE DEF scores
<1>4. short \subseteq Nat /\ short # {}
  <2>1. \A s \in scores : 100 - s \in Nat
    BY <1>3
  <2>2. QED
    BY <1>3, <2>1
<1>5. PICK s \in scores : \A o \in scores : 100 - s <= 100 - o
  <2>1. PICK x \in short : \A y \in short : x <= y
    BY <1>4, LeastOf
  <2>2. PICK s \in scores : x = 100 - s
    BY <2>1
  <2>3. \A o \in scores : x <= 100 - o
    BY <2>1
  <2>4. QED
    BY <2>2, <2>3
<1>6. \A o \in scores : o <= s
  BY <1>3, <1>5
<1>7. \A n \in Shared(name, c) : Alike[name, n] <= s
  BY <1>6 DEF scores
<1>8. Score(name, c) \in scores
  BY <1>7 DEF Score, scores
<1>9. QED
  BY <1>1, <1>3, <1>8 DEF scores

\* Candidates are partners with names they have now, and nobody whose own name comes near
\* is missing.
LEMMA CandidatesAreFound ==
  ASSUME TypeOK, NEW name \in Names
  PROVE  /\ Candidates(name) \in SUBSET Found
         /\ Known(Candidates(name), everTaught)
         /\ Complete(Candidates(name), name)
<1>1. taught \subseteq everTaught
  BY DEF TypeOK
<1>2. ASSUME NEW c \in Candidates(name)
      PROVE  c \in Found /\ c.names \subseteq NamesOf(c.partner, everTaught)
  <2>1. PICK p \in Partners : c = [partner |-> p, names |-> NamesOf(p, taught)]
    BY <1>2 DEF Candidates
  <2>2. /\ NamesOf(p, taught) \in SUBSET Names /\ Canonical[p] \in NamesOf(p, taught)
        /\ NamesOf(p, taught) \subseteq NamesOf(p, everTaught)
    BY <1>1, NamesGrow
  <2>3. QED
    BY <2>1, <2>2 DEF Found
<1>3. ASSUME NEW p \in Partners, <<name, Canonical[p]>> \in Near
      PROVE  \E c \in Candidates(name) : c.partner = p /\ Canonical[p] \in c.names
  <2> DEFINE c == [partner |-> p, names |-> NamesOf(p, taught)]
  <2>1. Canonical[p] \in NamesOf(p, taught)
    BY DEF NamesOf
  <2>2. c \in Candidates(name)
    BY <1>3, <2>1 DEF Candidates
  <2>3. c.partner = p /\ c.names = NamesOf(p, taught)
    OBVIOUS
  <2>4. QED
    BY <2>1, <2>2, <2>3
<1>4. QED
  BY <1>2, <1>3 DEF Known, Complete

\* A name without results on a list of its own is useless.
LEMMA WithoutResults ==
  ASSUME NEW name, NEW cs, Complete(cs, name), Results(name, cs) = {}
  PROVE  Useless(name)
<1> SUFFICES ASSUME NEW p \in Partners, <<name, Canonical[p]>> \in Near
             PROVE  <<name, Canonical[p]>> \notin Common
  BY DEF Useless
<1>1. PICK c \in cs : c.partner = p /\ Canonical[p] \in c.names
  BY DEF Complete
<1>2. Shared(name, c) = {}
  BY DEF Results
<1>3. QED
  BY <1>1, <1>2 DEF Shared

\* A useless original lets the processed image in, and so do two different ones.
LEMMA UselessLetsIn ==
  ASSUME NEW x, NEW originals, NEW i \in originals,
         Useless(x.shows[i].name) \/ \E j \in originals : x.shows[j].name # x.shows[i].name
  PROVE  LetsIn(x, originals)
  BY DEF LetsIn

\* What fits, still does when more names were taught.
LEMMA FitsStays ==
  ASSUME NEW match \in Matches, NEW x, NEW name, NEW few, NEW more, few \subseteq more,
         Fits(match, x, name, few)
  PROVE  Fits(match, x, name, more)
<1> SUFFICES ASSUME match.partner # Unset PROVE Fits(match, x, name, more)
  BY DEF Fits
<1>1. match.partner \in Partners
  BY DEF Matches
<1>2. NamesOf(match.partner, few) \subseteq NamesOf(match.partner, more)
  BY <1>1, NamesGrow
<1>3. QED
  BY <1>2 DEF Fits

LEMMA KnownStays ==
  ASSUME NEW cs \in SUBSET Found, NEW few, NEW more, few \subseteq more, Known(cs, few)
  PROVE  Known(cs, more)
<1> SUFFICES ASSUME NEW c \in cs PROVE c.names \subseteq NamesOf(c.partner, more)
  BY DEF Known
<1>1. c.partner \in Partners
  BY DEF Found
<1>2. QED
  BY <1>1, NamesGrow DEF Known

LEMMA SoundStays ==
  ASSUME NEW m \in Memories, NEW x, NEW few, NEW more, few \subseteq more,
         NEW before, NEW after, before \subseteq after, Sound(m, x, before, few)
  PROVE  Sound(m, x, after, more)
<1>1. m.match \in Matches /\ m.found \in SUBSET Found
  BY DEF Memories
<1>2. Known(m.found, more)
  BY <1>1, KnownStays DEF Sound
<1>3. m.pc = "remove" => Fits(m.match, x, x.shows[m.trial].name, more)
  BY <1>1, FitsStays DEF Sound
<1>4. m.pc = "save" => Fits(m.match, x, x.shows[m.kept].name, more)
  BY <1>1, FitsStays DEF Sound
<1>5. LetsIn(x, before) => LetsIn(x, after)
  BY DEF LetsIn
<1>6. QED
  BY <1>2, <1>3, <1>4, <1>5 DEF Sound

LEMMA NoMatchFits ==
  ASSUME NEW x, NEW name, NEW ever
  PROVE  NoMatch \in Matches /\ NoMatch.partner = Unset /\ Fits(NoMatch, x, name, ever)
  BY DEF NoMatch, Matches, Fits

-----------------------------------------------------------------------------
(* The memory of a run after each of its steps.                            *)

\* A busy run has a document before it, and knows what it is.
LEMMA Busy ==
  ASSUME IndInv, NEW r \in Runs, run[r].pc # "idle"
  PROVE  LET m == run[r]
             x == paper[m.doc]
         IN  /\ m \in Memories /\ m.doc \in Docs /\ m.doc # Unset
             /\ x \in Papers /\ x.shows \in [Images -> Views]
             /\ \A i \in Images : x.shows[i].name \in Names \cup {Unset}
             /\ Sound(m, x, viewed[m.doc], everTaught) /\ m.rule <= Len(rules)
<1>1. run[r] \in Memories /\ run[r].doc # Unset /\ run[r].rule <= Len(rules)
  BY DEF IndInv, TypeOK
<1>2. run[r].doc \in Docs
  BY <1>1 DEF Memories
<1>3. paper[run[r].doc] \in Papers
  BY <1>2 DEF IndInv, TypeOK
<1>4. paper[run[r].doc].shows \in [Images -> Views]
  BY <1>3, PapersShowViews
<1>5. \A i \in Images : paper[run[r].doc].shows[i].name \in Names \cup {Unset}
  BY <1>4 DEF Views
<1>6. Sound(run[r], paper[run[r].doc], viewed[run[r].doc], everTaught)
  BY DEF IndInv
<1>7. QED
  BY <1>1, <1>2, <1>3, <1>4, <1>5, <1>6

\* A run goes on with m, which fits its document.
Moves(r, m) ==
  /\ Goes(r, m)
  /\ m \in Memories /\ m.rule <= Len(rules)
  /\ m.doc = Unset <=> m.pc = "idle"
  /\ m.pc # "idle" => Sound(m, paper[m.doc], viewed'[m.doc], everTaught)

LEMMA IdleIsMemory ==
  /\ Idle \in Memories /\ Idle.pc = "idle" /\ Idle.doc = Unset /\ Idle.rule = 0
  /\ Idle.kept = "original" /\ Idle.trial = "original" /\ Idle.match = NoMatch /\ Idle.found = {}
  /\ ~ Idle.failed
<1>1. NoMatch \in Matches
  BY NoMatchFits
<1>2. QED
  BY <1>1 DEF Idle, Memories, Steps, Images

LEMMA EndMoves ==
  ASSUME IndInv, NEW r \in Runs, Ends(r)
  PROVE  Moves(r, Idle)
<1>1. Len(rules) \in Nat
  BY DEF IndInv, TypeOK
<1>2. QED
  BY <1>1, IdleIsMemory DEF Ends, Moves

\* A run that has no match goes to another step.
LEMMA AtMoves ==
  ASSUME IndInv, NEW r \in Runs, run[r].pc \notin {"idle", "read"}, UNCHANGED viewed,
         NEW step \in {"retry", "match", "save"}, Goes(r, At(r, step)),
         step # "save" => Name(r) # Unset,
         step = "retry" => /\ run[r].kept # "processed" /\ run[r].trial = run[r].kept
                           /\ LetsIn(paper[run[r].doc], viewed[run[r].doc]),
         run[r].match = NoMatch, ~ run[r].failed
  PROVE  Moves(r, At(r, step))
<1> DEFINE m == At(r, step)
           x == paper[run[r].doc]
           o == viewed[run[r].doc]
<1>1. /\ run[r] \in Memories /\ run[r].doc \in Docs /\ run[r].doc # Unset
      /\ Sound(run[r], x, o, everTaught) /\ run[r].rule <= Len(rules)
  BY Busy
<1>2. step \in Steps
  BY DEF Steps
<1>3. /\ m \in Memories /\ m.pc = step /\ m.doc = run[r].doc /\ m.rule = run[r].rule
      /\ m.kept = run[r].kept /\ m.trial = run[r].trial /\ m.match = NoMatch /\ m.found = run[r].found
      /\ ~ m.failed
  BY <1>1, <1>2 DEF At, Memories
<1> HIDE DEF m
<1>4. Name(r) = x.shows[m.trial].name
  BY <1>3 DEF Name, Seen
<1>5. /\ Known(m.found, everTaught) /\ ("processed" \in {m.kept, m.trial} => LetsIn(x, o))
      /\ m.trial \in {m.kept, "processed"} /\ m.kept \in o \cup {"processed"}
  BY <1>1, <1>3 DEF Sound
<1>6. Sound(m, x, o, everTaught)
  BY <1>3, <1>4, <1>5, NoMatchFits DEF Sound
<1>7. Goes(r, m) /\ viewed' = viewed
  BY DEF m
<1>8. Moves(r, m)
  BY <1>1, <1>2, <1>3, <1>6, <1>7 DEF Moves
<1>9. QED
  BY <1>8 DEF m

LEMMA StartMoves ==
  ASSUME IndInv, NEW r \in Runs, NEW d \in Docs, Start(r, d)
  PROVE  \E m : Moves(r, m)
<1> DEFINE m == [Idle EXCEPT !.pc = "read", !.doc = d, !.rule = Len(rules)]
<1>1. Len(rules) \in Nat /\ Unset \notin Docs
  BY UnsetIsNothing DEF IndInv, TypeOK
<1>2. /\ m \in Memories /\ m.pc = "read" /\ m.doc = d /\ m.rule = Len(rules)
      /\ m.kept = "original" /\ m.trial = "original" /\ m.match = NoMatch /\ m.found = {}
      /\ ~ m.failed
  BY <1>1, IdleIsMemory DEF Memories, Steps
<1>3. Goes(r, m)
  BY DEF Start
<1> HIDE DEF m
<1>4. Sound(m, paper[d], viewed'[d], everTaught)
  BY <1>2 DEF Sound, Known
<1>5. QED
  BY <1>1, <1>2, <1>3, <1>4 DEF Moves

LEMMA ReadMoves ==
  ASSUME IndInv, NEW r \in Runs, Read(r)
  PROVE  \E m : Moves(r, m)
<1> DEFINE d == run[r].doc
           x == paper[d]
<1>1. run[r].pc = "read"
  BY DEF Read
<1>2. /\ run[r] \in Memories /\ d \in Docs /\ d # Unset
      /\ Sound(run[r], x, viewed[d], everTaught) /\ run[r].rule <= Len(rules)
  BY <1>1, Busy
<1>3. /\ run[r].match = NoMatch /\ ~ run[r].failed /\ Known(run[r].found, everTaught)
  BY <1>1, <1>2 DEF Sound
<1>4. PICK image \in Originals(x) :
        /\ Goes(r, [run[r] EXCEPT !.pc = IF Seen(r, image).name = Unset THEN "read_again" ELSE "lookup",
                                  !.kept = image, !.trial = image])
        /\ viewed' = [viewed EXCEPT ![d] = @ \cup {image}]
  BY DEF Read
<1> DEFINE step == IF Seen(r, image).name = Unset THEN "read_again" ELSE "lookup"
           m == [run[r] EXCEPT !.pc = step, !.kept = image, !.trial = image]
<1>5. image \in Images /\ image # "processed"
  BY <1>4 DEF Originals, Images
<1>6. /\ step \in {"read_again", "lookup"} /\ step \in Steps
      /\ step = "read_again" <=> x.shows[image].name = Unset
  BY DEF Steps, Seen
<1>7. viewed \in [Docs -> SUBSET (Images \ {"processed"})]
  BY DEF IndInv, TypeOK
<1>8. image \in viewed'[d]
  BY <1>2, <1>4, <1>7
<1>9. Goes(r, m)
  BY <1>4
<1> HIDE DEF step
<1>10. /\ m \in Memories /\ m.pc = step /\ m.doc = d /\ m.rule = run[r].rule
       /\ m.kept = image /\ m.trial = image /\ m.match = NoMatch /\ m.found = run[r].found
       /\ ~ m.failed
  BY <1>2, <1>3, <1>5, <1>6 DEF Memories
<1> HIDE DEF m
<1>11. step = "read_again" => LetsIn(x, viewed'[d])
  BY <1>6, <1>8, UselessLetsIn DEF Useless
<1>12. Sound(m, x, viewed'[d], everTaught)
  BY <1>3, <1>5, <1>6, <1>8, <1>10, <1>11 DEF Sound
<1>13. QED
  BY <1>2, <1>6, <1>9, <1>10, <1>12 DEF Moves

LEMMA ReadAgainMoves ==
  ASSUME IndInv, NEW r \in Runs, ReadAgain(r)
  PROVE  \E m : Moves(r, m)
<1> DEFINE x == paper[run[r].doc]
           o == viewed[run[r].doc]
<1>1. run[r].pc = "read_again" /\ viewed' = viewed
  BY DEF ReadAgain
<1>2. /\ run[r] \in Memories /\ run[r].doc \in Docs /\ run[r].doc # Unset
      /\ Sound(run[r], x, o, everTaught) /\ run[r].rule <= Len(rules)
  BY <1>1, Busy
<1>3. run[r].match = NoMatch /\ ~ run[r].failed /\ LetsIn(x, o) /\ Known(run[r].found, everTaught)
  BY <1>1, <1>2 DEF Sound
<1>4. CASE Goes(r, At(r, "save"))
  BY <1>1, <1>3, <1>4, AtMoves
<1>5. CASE /\ Seen(r, "processed").name # Unset
           /\ Goes(r, [run[r] EXCEPT !.pc = "lookup", !.kept = "processed", !.trial = "processed"])
  <2> DEFINE m == [run[r] EXCEPT !.pc = "lookup", !.kept = "processed", !.trial = "processed"]
  <2>1. /\ m \in Memories /\ m.pc = "lookup" /\ m.doc = run[r].doc /\ m.rule = run[r].rule
        /\ m.kept = "processed" /\ m.trial = "processed" /\ m.match = NoMatch /\ m.found = run[r].found
        /\ ~ m.failed
    BY <1>2, <1>3 DEF Memories, Steps, Images
  <2>2. Goes(r, m)
    BY <1>5
  <2> HIDE DEF m
  <2>3. Sound(m, x, o, everTaught)
    BY <1>3, <1>5, <2>1 DEF Sound, Seen
  <2>4. QED
    BY <1>1, <1>2, <2>1, <2>2, <2>3 DEF Moves
<1>6. QED
  BY <1>4, <1>5 DEF ReadAgain

\* A run that looked up a name, or had it matched, goes on with what came of it.
LEMMA TriedMoves ==
  ASSUME IndInv, NEW r \in Runs, run[r].pc \in {"lookup", "remove"}, UNCHANGED viewed,
         ~ run[r].failed, Goes(r, Tried(r, run[r].match)),
         Fits(run[r].match, paper[run[r].doc], Name(r), everTaught),
         \/ run[r].match.partner # Unset
         \/ run[r].match = NoMatch /\ LetsIn(paper[run[r].doc], viewed[run[r].doc])
  PROVE  \E m : Moves(r, m)
<1> DEFINE x == paper[run[r].doc]
           o == viewed[run[r].doc]
<1>1. /\ run[r] \in Memories /\ run[r].doc \in Docs /\ run[r].doc # Unset
      /\ Sound(run[r], x, o, everTaught) /\ run[r].rule <= Len(rules)
  BY Busy
<1>2. /\ x.shows[run[r].trial].name # Unset /\ Known(run[r].found, everTaught)
      /\ run[r].trial \in {run[r].kept, "processed"} /\ run[r].kept \in o \cup {"processed"}
      /\ ("processed" \in {run[r].kept, run[r].trial} => LetsIn(x, o))
  BY <1>1 DEF Sound
<1>3. CASE run[r].match.partner # Unset
  <2> DEFINE m == [run[r] EXCEPT !.pc = "save", !.match = run[r].match, !.kept = run[r].trial]
  <2>1. /\ m \in Memories /\ m.pc = "save" /\ m.doc = run[r].doc /\ m.rule = run[r].rule
        /\ m.kept = run[r].trial /\ m.trial = run[r].trial /\ m.match = run[r].match
        /\ m.found = run[r].found /\ ~ m.failed
    BY <1>1 DEF Memories, Steps
  <2>2. Goes(r, m)
    BY <1>3 DEF Tried
  <2> HIDE DEF m
  <2>3. Fits(m.match, x, x.shows[m.kept].name, everTaught)
    BY <2>1 DEF Name, Seen
  <2>4. Sound(m, x, o, everTaught)
    BY <1>2, <2>1, <2>3 DEF Sound
  <2>5. QED
    BY <1>1, <2>1, <2>2, <2>4 DEF Moves
<1>4. CASE run[r].match = NoMatch /\ LetsIn(x, o)
  <2>1. run[r].match.partner = Unset
    BY <1>4, NoMatchFits
  <2>2. CASE run[r].kept # "processed" /\ ~SecondTry(r)
    <3>1. Goes(r, At(r, "retry"))
      BY <2>1, <2>2 DEF Tried, At
    <3>2. run[r].trial = run[r].kept /\ Name(r) # Unset
      BY <1>2, <2>2 DEF SecondTry, Name, Seen
    <3>3. QED
      BY <1>4, <2>2, <3>1, <3>2, AtMoves
  <2>3. CASE ~ (run[r].kept # "processed" /\ ~SecondTry(r))
    <3>1. Goes(r, At(r, "save"))
      BY <2>1, <2>3 DEF Tried, At
    <3>2. QED
      BY <1>4, <3>1, AtMoves
  <2>4. QED
    BY <2>2, <2>3
<1>5. QED
  BY <1>3, <1>4

LEMMA LookupMoves ==
  ASSUME IndInv, NEW r \in Runs, Lookup(r)
  PROVE  \E m : Moves(r, m)
<1> DEFINE x == paper[run[r].doc]
           o == viewed[run[r].doc]
           cs == Candidates(Name(r))
<1>1. run[r].pc = "lookup" /\ viewed' = viewed
  BY DEF Lookup
<1>2. /\ run[r] \in Memories /\ run[r].doc \in Docs /\ run[r].doc # Unset
      /\ Sound(run[r], x, o, everTaught) /\ run[r].rule <= Len(rules)
      /\ \A i \in Images : x.shows[i].name \in Names \cup {Unset}
  BY <1>1, Busy
<1>3. /\ run[r].match = NoMatch /\ ~ run[r].failed /\ x.shows[run[r].trial].name # Unset
      /\ run[r].trial \in {run[r].kept, "processed"} /\ run[r].kept \in o \cup {"processed"}
      /\ ("processed" \in {run[r].kept, run[r].trial} => LetsIn(x, o))
  BY <1>1, <1>2 DEF Sound
<1>4. Name(r) = x.shows[run[r].trial].name /\ Name(r) \in Names
  BY <1>2, <1>3 DEF Name, Seen, Memories
<1>5. cs \in SUBSET Found /\ Known(cs, everTaught) /\ Complete(cs, Name(r))
  BY <1>4, CandidatesAreFound DEF IndInv
<1> HIDE DEF cs
<1>6. CASE cs = {} /\ Goes(r, Tried(r, NoMatch))
  <2>1. Results(Name(r), cs) = {}
    BY <1>6 DEF Results
  <2>2. Useless(Name(r))
    BY <1>5, <2>1, WithoutResults
  <2>3. LetsIn(x, o)
    <3>1. CASE "processed" \in {run[r].kept, run[r].trial}
      BY <1>3, <3>1
    <3>2. CASE "processed" \notin {run[r].kept, run[r].trial}
      BY <1>3, <1>4, <2>2, <3>2, UselessLetsIn
    <3>3. QED
      BY <3>1, <3>2
  <2>4. QED
    BY <1>1, <1>3, <1>6, <2>3, NoMatchFits, TriedMoves
<1>7. CASE Goes(r, [run[r] EXCEPT !.pc = "write", !.found = cs])
  <2> DEFINE m == [run[r] EXCEPT !.pc = "write", !.found = cs]
  <2>1. /\ m \in Memories /\ m.pc = "write" /\ m.doc = run[r].doc /\ m.rule = run[r].rule
        /\ m.kept = run[r].kept /\ m.trial = run[r].trial /\ m.match = NoMatch /\ m.found = cs
        /\ ~ m.failed
    BY <1>2, <1>3, <1>5 DEF Memories, Steps
  <2>2. Goes(r, m)
    BY <1>7
  <2> HIDE DEF m
  <2>3. Sound(m, x, o, everTaught)
    BY <1>3, <1>4, <1>5, <2>1 DEF Sound
  <2>4. QED
    BY <1>1, <1>2, <2>1, <2>2, <2>3 DEF Moves
<1>8. QED
  BY <1>6, <1>7 DEF Lookup, cs

LEMMA RetryMoves ==
  ASSUME IndInv, NEW r \in Runs, Retry(r)
  PROVE  \E m : Moves(r, m)
<1> DEFINE x == paper[run[r].doc]
           o == viewed[run[r].doc]
<1>1. run[r].pc = "retry" /\ viewed' = viewed
  BY DEF Retry
<1>2. /\ run[r] \in Memories /\ run[r].doc \in Docs /\ run[r].doc # Unset
      /\ Sound(run[r], x, o, everTaught) /\ run[r].rule <= Len(rules)
  BY <1>1, Busy
<1>3. /\ run[r].match = NoMatch /\ ~ run[r].failed /\ LetsIn(x, o) /\ Known(run[r].found, everTaught)
      /\ run[r].kept \in o \cup {"processed"}
  BY <1>1, <1>2 DEF Sound
<1>4. CASE Goes(r, At(r, "save"))
  BY <1>1, <1>3, <1>4, AtMoves
<1>5. CASE /\ Seen(r, "processed").name \notin {Unset, Name(r)}
           /\ Goes(r, [run[r] EXCEPT !.pc = "lookup", !.trial = "processed"])
  <2> DEFINE m == [run[r] EXCEPT !.pc = "lookup", !.trial = "processed"]
  <2>1. /\ m \in Memories /\ m.pc = "lookup" /\ m.doc = run[r].doc /\ m.rule = run[r].rule
        /\ m.kept = run[r].kept /\ m.trial = "processed" /\ m.match = NoMatch /\ m.found = run[r].found
        /\ ~ m.failed
    BY <1>2, <1>3 DEF Memories, Steps, Images
  <2>2. Goes(r, m)
    BY <1>5
  <2> HIDE DEF m
  <2>3. Sound(m, x, o, everTaught)
    BY <1>3, <1>5, <2>1 DEF Sound, Seen
  <2>4. QED
    BY <1>1, <1>2, <2>1, <2>2, <2>3 DEF Moves
<1>6. QED
  BY <1>4, <1>5 DEF Retry

LEMMA WriteMoves ==
  ASSUME IndInv, NEW r \in Runs, WriteList(r)
  PROVE  \E m : Moves(r, m)
<1>1. run[r].pc = "write" /\ Goes(r, At(r, "match")) /\ viewed' = viewed
  BY DEF WriteList
<1>2. Name(r) # Unset /\ run[r].match = NoMatch /\ ~ run[r].failed
  BY <1>1, Busy DEF Sound, Name, Seen
<1>3. QED
  BY <1>1, <1>2, AtMoves

\* After dm_match a run is about to remove the list, with a match or without.
LEMMA MatchedMoves ==
  ASSUME IndInv, NEW r \in Runs, run[r].pc = "match", UNCHANGED viewed,
         NEW match \in Matches, NEW failed \in BOOLEAN,
         Goes(r, [run[r] EXCEPT !.pc = "remove", !.match = match, !.failed = failed]),
         Fits(match, paper[run[r].doc], Name(r), everTaught),
         failed => match = NoMatch,
         match.partner # Unset \/ match = NoMatch,
         match.partner # Unset \/ failed \/ LetsIn(paper[run[r].doc], viewed[run[r].doc])
  PROVE  \E m : Moves(r, m)
<1> DEFINE x == paper[run[r].doc]
           o == viewed[run[r].doc]
           m == [run[r] EXCEPT !.pc = "remove", !.match = match, !.failed = failed]
<1>1. /\ run[r] \in Memories /\ run[r].doc \in Docs /\ run[r].doc # Unset
      /\ Sound(run[r], x, o, everTaught) /\ run[r].rule <= Len(rules)
  BY Busy
<1>2. /\ x.shows[run[r].trial].name # Unset /\ Known(run[r].found, everTaught)
      /\ run[r].trial \in {run[r].kept, "processed"} /\ run[r].kept \in o \cup {"processed"}
      /\ ("processed" \in {run[r].kept, run[r].trial} => LetsIn(x, o))
  BY <1>1 DEF Sound
<1>3. /\ m \in Memories /\ m.pc = "remove" /\ m.doc = run[r].doc /\ m.rule = run[r].rule
      /\ m.kept = run[r].kept /\ m.trial = run[r].trial /\ m.match = match /\ m.found = run[r].found
      /\ m.failed = failed
  BY <1>1 DEF Memories, Steps
<1>4. Goes(r, m)
  OBVIOUS
<1> HIDE DEF m
<1>5. Fits(m.match, x, x.shows[m.trial].name, everTaught)
  BY <1>3 DEF Name, Seen
<1>6. Sound(m, x, o, everTaught)
  BY <1>2, <1>3, <1>5 DEF Sound
<1>7. QED
  BY <1>1, <1>3, <1>4, <1>6 DEF Moves

\* After dm_match has failed, in whichever way.
LEMMA FailedMoves ==
  ASSUME IndInv, NEW r \in Runs, run[r].pc = "match", UNCHANGED viewed,
         Goes(r, [run[r] EXCEPT !.pc = "remove", !.failed = TRUE])
  PROVE  \E m : Moves(r, m)
<1>1. run[r] \in Memories /\ run[r].match = NoMatch
  BY Busy DEF Sound
<1>2. [run[r] EXCEPT !.pc = "remove", !.failed = TRUE]
        = [run[r] EXCEPT !.pc = "remove", !.match = NoMatch, !.failed = TRUE]
  BY <1>1 DEF Memories
<1>3. NoMatch \in Matches /\ Fits(NoMatch, paper[run[r].doc], Name(r), everTaught)
  BY NoMatchFits
<1>4. QED
  BY <1>2, <1>3, MatchedMoves

\* What a list on disk holds.
LEMMA ListFields ==
  ASSUME IndInv, NEW d \in Docs, list[File(d)] # Unset
  PROVE  /\ list[File(d)].cands \in SUBSET Found /\ list[File(d)].for \in Names
         /\ SoundList(list[File(d)], paper[d], viewed[d], everTaught)
         /\ list[File(d)].for \in {paper[d].shows[i].name : i \in Images}
         /\ Known(list[File(d)].cands, everTaught)
<1>1. File(d) \in Files
  BY DEF Files
<1>2. list[File(d)] \in {Unset} \cup [cands : SUBSET Found, for : Names]
  BY <1>1 DEF IndInv, TypeOK
<1>3. list[File(d)] \in [cands : SUBSET Found, for : Names]
  BY <1>2
<1>4. list[File(d)].cands \in SUBSET Found /\ list[File(d)].for \in Names
  BY <1>3
<1>5. SoundList(list[File(d)], paper[d], viewed[d], everTaught)
  BY DEF IndInv, ListsAreSound
<1>6. QED
  BY <1>4, <1>5 DEF SoundList

LEMMA MatchMoves ==
  ASSUME IndInv, NEW r \in Runs, Match(r)
  PROVE  \E m : Moves(r, m)
<1> DEFINE d == run[r].doc
           x == paper[d]
           o == viewed[d]
           file == list[File(d)]
<1>1. run[r].pc = "match" /\ viewed' = viewed
  BY DEF Match
<1>2. /\ run[r] \in Memories /\ d \in Docs /\ d # Unset
      /\ Sound(run[r], x, o, everTaught) /\ run[r].rule <= Len(rules)
      /\ \A i \in Images : x.shows[i].name \in Names \cup {Unset}
  BY <1>1, Busy
<1>3. /\ x.shows[run[r].trial].name # Unset /\ run[r].match = NoMatch /\ run[r].failed = FALSE
      /\ run[r].trial \in {run[r].kept, "processed"} /\ run[r].kept \in o \cup {"processed"}
      /\ ("processed" \in {run[r].kept, run[r].trial} => LetsIn(x, o))
  BY <1>1, <1>2 DEF Sound, Memories
<1>4. Name(r) = x.shows[run[r].trial].name /\ Name(r) \in Names
  BY <1>2, <1>3 DEF Name, Seen, Memories
<1>5. CASE file = Unset
  <2>1. Goes(r, [run[r] EXCEPT !.pc = "remove", !.failed = TRUE])
    BY <1>5 DEF Match
  <2>2. QED
    BY <1>1, <2>1, FailedMoves
<1>6. ASSUME file # Unset, Results(Name(r), file.cands) = {}, Goes(r, At(r, "remove"))
      PROVE  \E m : Moves(r, m)
  <2>1. SoundList(file, x, o, everTaught)
    BY <1>2, <1>6, ListFields
  <2>2. ASSUME "processed" \in {run[r].kept, run[r].trial} PROVE LetsIn(x, o)
    BY <1>3, <2>2
  <2>3. ASSUME "processed" \notin {run[r].kept, run[r].trial}, ~LetsIn(x, o) PROVE FALSE
    <3>1. PICK i \in o : file.for = x.shows[i].name /\ Complete(file.cands, file.for)
      BY <1>6, <2>1, <2>3 DEF SoundList
    <3>2. run[r].trial = run[r].kept /\ run[r].kept \in o
      BY <1>3, <2>3
    <3>3. x.shows[i].name = Name(r)
      BY <1>4, <2>3, <3>1, <3>2 DEF LetsIn
    <3>4. Complete(file.cands, Name(r))
      BY <3>1, <3>3
    <3>5. Useless(Name(r))
      BY <1>6, <3>4, WithoutResults
    <3>6. LetsIn(x, o)
      BY <1>4, <3>2, <3>5, UselessLetsIn
    <3>7. QED
      BY <2>3, <3>6
  <2>4. LetsIn(x, o)
    BY <2>2, <2>3
  <2>5. At(r, "remove") = [run[r] EXCEPT !.pc = "remove", !.match = NoMatch, !.failed = FALSE]
    BY <1>2, <1>3 DEF At, Memories
  <2>6. NoMatch \in Matches /\ Fits(NoMatch, x, Name(r), everTaught)
    BY NoMatchFits
  <2>7. QED
    BY <1>1, <1>6, <2>4, <2>5, <2>6, MatchedMoves
<1>7. ASSUME file # Unset, NEW c \in BestOf(Name(r), file.cands),
             Goes(r, [run[r] EXCEPT
                        !.pc = "remove",
                        !.match = [partner |-> c.partner, score |-> Score(Name(r), c), for |-> file.for]])
      PROVE  \E m : Moves(r, m)
  <2> DEFINE match == [partner |-> c.partner, score |-> Score(Name(r), c), for |-> file.for]
  <2>1. /\ file.cands \in SUBSET Found /\ file.for \in Names
        /\ file.for \in {x.shows[i].name : i \in Images} /\ Known(file.cands, everTaught)
    BY <1>2, <1>7, ListFields
  <2>2. c \in file.cands /\ c \in Found /\ Shared(Name(r), c) # {}
    BY <1>7, <2>1 DEF BestOf, Results
  <2>3. c.partner \in Partners /\ c.names \subseteq NamesOf(c.partner, everTaught)
    BY <2>1, <2>2 DEF Found, Known
  <2>4. Score(Name(r), c) \in 0 .. 100 /\ \E n \in c.names : Score(Name(r), c) = Alike[Name(r), n]
    BY <1>4, <2>2, ScoreIsOfAName
  <2>5. /\ match \in Matches /\ match.partner = c.partner /\ match.score = Score(Name(r), c)
        /\ match.for = file.for
    BY <2>1, <2>3, <2>4 DEF Matches
  <2>6. c.partner # Unset
    BY <2>3, UnsetIsNothing
  <2>7. Goes(r, [run[r] EXCEPT !.pc = "remove", !.match = match])
    BY <1>7
  <2> HIDE DEF match
  <2>8. Fits(match, x, Name(r), everTaught)
    BY <2>1, <2>3, <2>4, <2>5 DEF Fits
  <2>9. [run[r] EXCEPT !.pc = "remove", !.match = match]
          = [run[r] EXCEPT !.pc = "remove", !.match = match, !.failed = FALSE]
    BY <1>2, <1>3 DEF Memories
  <2>10. QED
    BY <1>1, <2>5, <2>6, <2>7, <2>8, <2>9, MatchedMoves
<1>8. QED
  BY <1>5, <1>6, <1>7 DEF Match

LEMMA RemoveMoves ==
  ASSUME IndInv, NEW r \in Runs, RemoveList(r)
  PROVE  \E m : Moves(r, m)
<1> DEFINE x == paper[run[r].doc]
           o == viewed[run[r].doc]
<1>1. run[r].pc = "remove" /\ (Ends(r) \/ Goes(r, Adopted(r))) /\ viewed' = viewed
  BY DEF RemoveList, Requeue
<1>2. /\ run[r] \in Memories /\ run[r].doc \in Docs /\ run[r].doc # Unset
      /\ Sound(run[r], x, o, everTaught) /\ run[r].rule <= Len(rules)
  BY <1>1, Busy
<1>3. /\ Fits(run[r].match, x, Name(r), everTaught) /\ Known(run[r].found, everTaught)
      /\ run[r].match.partner # Unset \/ run[r].match = NoMatch
      /\ run[r].match.partner # Unset \/ run[r].failed \/ LetsIn(x, o)
      /\ run[r].failed => run[r].match = NoMatch
      /\ run[r].trial \in {run[r].kept, "processed"} /\ run[r].kept \in o \cup {"processed"}
      /\ ("processed" \in {run[r].kept, run[r].trial} => LetsIn(x, o))
  BY <1>1, <1>2 DEF Sound, Name, Seen
<1>4. CASE run[r].failed /\ Goes(r, Adopted(r))
  <2> DEFINE m == [run[r] EXCEPT !.pc = "save", !.failed = FALSE]
  <2>1. /\ m \in Memories /\ m.pc = "save" /\ m.doc = run[r].doc /\ m.rule = run[r].rule
        /\ m.kept = run[r].kept /\ m.trial = run[r].trial /\ m.match = NoMatch /\ m.found = run[r].found
        /\ ~ m.failed
    BY <1>2, <1>3, <1>4 DEF Memories, Steps
  <2>2. Goes(r, m)
    BY <1>4 DEF Adopted
  <2> HIDE DEF m
  <2>3. Sound(m, x, o, everTaught)
    BY <1>3, <2>1, NoMatchFits DEF Sound
  <2>4. QED
    BY <1>1, <1>2, <2>1, <2>2, <2>3 DEF Moves
<1>5. CASE ~ run[r].failed /\ Goes(r, Adopted(r))
  <2>1. Goes(r, Tried(r, run[r].match))
    BY <1>5 DEF Adopted
  <2>2. QED
    BY <1>1, <1>3, <1>5, <2>1, TriedMoves
<1>6. QED
  BY <1>1, <1>4, <1>5, EndMoves

LEMMA FailMoves ==
  ASSUME IndInv, NEW r \in Runs, Fails(r)
  PROVE  \E m : Moves(r, m)
<1>1. run[r].pc \in {"read", "lookup", "write", "save"} /\ viewed' = viewed
  BY DEF Fails
<1>2. CASE SecondTry(r) /\ run[r].pc # "save" /\ Goes(r, At(r, "save"))
  <2>1. /\ run[r].match = NoMatch /\ ~ run[r].failed /\ run[r].pc # "read"
    BY <1>1, <1>2, Busy DEF Sound, SecondTry
  <2>2. QED
    BY <1>1, <1>2, <2>1, AtMoves
<1>3. CASE Ends(r)
  BY <1>3, EndMoves
<1>4. QED
  BY <1>2, <1>3 DEF Fails, Requeue

\* Whatever a worker does, it goes on with a memory that fits its document.
LEMMA StepMoves ==
  ASSUME IndInv, NEW r \in Runs, Step(r)
  PROVE  \E m : Moves(r, m)
<1>1. ASSUME Save(r) \/ Dies(r) PROVE \E m : Moves(r, m)
  <2>1. Ends(r)
    BY <1>1 DEF Save, Dies, Requeue
  <2>2. QED
    BY <2>1, EndMoves
<1>2. ASSUME MatchFails(r) PROVE \E m : Moves(r, m)
  BY <1>2, FailedMoves DEF MatchFails
<1>3. QED
  BY <1>1, <1>2, StartMoves, ReadMoves, ReadAgainMoves, LookupMoves, RetryMoves, WriteMoves, MatchMoves,
     RemoveMoves, FailMoves DEF Step

-----------------------------------------------------------------------------
(* The masters, the memories, the files and the rows.                      *)

\* What people teach and set is added to; a step of a worker leaves it alone.
LEMMA MastersGrow ==
  ASSUME TypeOK, [Next]_vars
  PROVE  /\ paper' = paper
         /\ everTaught \subseteq everTaught' /\ everTaught' \subseteq Partners \X Names
         /\ taught' \subseteq everTaught'
         /\ rules' \in Seq(Rules \cup {Default}) /\ Len(rules) <= Len(rules')
         /\ \A i \in 1 .. Len(rules) : rules'[i] = rules[i]
<1>1. ASSUME UNCHANGED masters
      PROVE  /\ everTaught \subseteq everTaught' /\ everTaught' \subseteq Partners \X Names
             /\ taught' \subseteq everTaught'
             /\ rules' \in Seq(Rules \cup {Default}) /\ Len(rules) <= Len(rules')
             /\ \A i \in 1 .. Len(rules) : rules'[i] = rules[i]
  BY <1>1 DEF masters, TypeOK
<1>2. ASSUME NEW r \in Runs, Step(r) PROVE UNCHANGED masters /\ paper' = paper
  BY <1>2 DEF Step, Start, Read, ReadAgain, Lookup, Retry, WriteList, Match, RemoveList, Save, Fails,
              MatchFails, Dies
<1>3. CASE UNCHANGED vars
  BY <1>1, <1>3 DEF vars
<1>4. ASSUME NEW p \in Partners, NEW n \in Names, Teach(p, n) \/ Forget(p, n)
      PROVE  /\ paper' = paper /\ rules' = rules
             /\ everTaught \subseteq everTaught' /\ everTaught' \subseteq Partners \X Names
             /\ taught' \subseteq everTaught'
  BY <1>4 DEF Teach, Forget, TypeOK
<1>5. ASSUME rules' = rules
      PROVE  /\ rules' \in Seq(Rules \cup {Default}) /\ Len(rules) <= Len(rules')
             /\ \A i \in 1 .. Len(rules) : rules'[i] = rules[i]
  BY <1>5 DEF TypeOK
<1>6. ASSUME NEW t \in Rules, SetRule(t)
      PROVE  /\ paper' = paper /\ UNCHANGED <<taught, everTaught>>
             /\ rules' \in Seq(Rules \cup {Default}) /\ Len(rules) <= Len(rules')
             /\ \A i \in 1 .. Len(rules) : rules'[i] = rules[i]
  BY <1>6 DEF SetRule, TypeOK
<1>7. taught \subseteq everTaught /\ everTaught \subseteq Partners \X Names
  BY DEF TypeOK
<1>8. QED
  BY <1>1, <1>2, <1>3, <1>4, <1>5, <1>6, <1>7 DEF Next

\* Workers may read an original again, and differently.
LEMMA ViewedGrows ==
  ASSUME IndInv, [Next]_vars
  PROVE  /\ viewed' \in [Docs -> SUBSET (Images \ {"processed"})]
         /\ \A d \in Docs : viewed[d] \subseteq viewed'[d]
<1>1. viewed \in [Docs -> SUBSET (Images \ {"processed"})]
  BY DEF IndInv, TypeOK
<1>2. ASSUME NEW r \in Runs, Read(r)
      PROVE  \E d \in Docs, image \in Images \ {"processed"} :
                viewed' = [viewed EXCEPT ![d] = @ \cup {image}]
  <2>1. run[r].doc \in Docs
    BY <1>2, Busy DEF Read
  <2>2. Originals(paper[run[r].doc]) \subseteq Images \ {"processed"}
    BY DEF Originals, Images
  <2>3. PICK image \in Originals(paper[run[r].doc]) :
          viewed' = [viewed EXCEPT ![run[r].doc] = @ \cup {image}]
    BY <1>2 DEF Read
  <2>4. QED
    BY <2>1, <2>2, <2>3
<1>3. ASSUME NEW r \in Runs, Step(r) PROVE Read(r) \/ viewed' = viewed
  BY <1>3 DEF Step, Start, ReadAgain, Lookup, Retry, WriteList, Match, RemoveList, Save, Fails,
              MatchFails, Dies
<1>4. ASSUME UNCHANGED vars PROVE viewed' = viewed
  BY <1>4 DEF vars
<1>5. ASSUME NEW p \in Partners, NEW n \in Names, Teach(p, n) \/ Forget(p, n) PROVE viewed' = viewed
  BY <1>5 DEF Teach, Forget
<1>6. ASSUME NEW t \in Rules, SetRule(t) PROVE viewed' = viewed
  BY <1>6 DEF SetRule
<1>7. viewed' = viewed \/ \E d \in Docs, image \in Images \ {"processed"} :
                            viewed' = [viewed EXCEPT ![d] = @ \cup {image}]
  BY <1>2, <1>3, <1>4, <1>5, <1>6 DEF Next
<1>8. CASE viewed' = viewed
  BY <1>1, <1>8
<1>9. ASSUME NEW d \in Docs, NEW image \in Images \ {"processed"},
             viewed' = [viewed EXCEPT ![d] = @ \cup {image}]
      PROVE  /\ viewed' \in [Docs -> SUBSET (Images \ {"processed"})]
             /\ \A e \in Docs : viewed[e] \subseteq viewed'[e]
  BY <1>1, <1>9
<1>10. QED
  BY <1>7, <1>8, <1>9

\* Only workers' steps change what workers know, one at a time.
LEMMA OthersStay ==
  ASSUME IndInv, [Next]_vars
  PROVE  UNCHANGED run \/ \E r \in Runs : \E m : Moves(r, m) /\ UNCHANGED masters
<1>1. ASSUME NEW r \in Runs, Step(r) PROVE \E m : Moves(r, m) /\ UNCHANGED masters
  <2>1. UNCHANGED masters
    BY <1>1 DEF Step, Start, Read, ReadAgain, Lookup, Retry, WriteList, Match, RemoveList, Save, Fails,
                MatchFails, Dies
  <2>2. QED
    BY <1>1, <2>1, StepMoves
<1>2. CASE UNCHANGED vars
  BY <1>2 DEF vars
<1>3. ASSUME NEW p \in Partners, NEW n \in Names, Teach(p, n) \/ Forget(p, n) PROVE UNCHANGED run
  BY <1>3 DEF Teach, Forget
<1>4. ASSUME NEW t \in Rules, SetRule(t) PROVE UNCHANGED run
  BY <1>4 DEF SetRule
<1>5. QED
  BY <1>1, <1>2, <1>3, <1>4 DEF Next

LEMMA RunsStaySound ==
  ASSUME IndInv, [Next]_vars
  PROVE  /\ run' \in [Runs -> Memories]
         /\ \A r \in Runs : /\ run'[r].doc = Unset <=> run'[r].pc = "idle"
                            /\ run'[r].rule <= Len(rules')
                            /\ run'[r].pc # "idle" =>
                                 Sound(run'[r], paper'[run'[r].doc], viewed'[run'[r].doc], everTaught')
<1>1. /\ run \in [Runs -> Memories] /\ rules \in Seq(Rules \cup {Default})
      /\ \A r \in Runs : (run[r].doc = Unset <=> run[r].pc = "idle") /\ run[r].rule <= Len(rules)
      /\ \A r \in Runs : run[r].pc # "idle" =>
           Sound(run[r], paper[run[r].doc], viewed[run[r].doc], everTaught)
  BY DEF IndInv, TypeOK
<1>2. /\ paper' = paper /\ everTaught \subseteq everTaught' /\ Len(rules) <= Len(rules')
      /\ rules' \in Seq(Rules \cup {Default})
  BY MastersGrow DEF IndInv
<1> DEFINE Fit(m) == Sound(m, paper'[m.doc], viewed'[m.doc], everTaught')
<1>0. ASSUME NEW r \in Runs, run[r].pc # "idle" PROVE Fit(run[r])
  <2>1. run[r] \in Memories /\ run[r].doc \in Docs
    BY <1>0, Busy
  <2>2. viewed[run[r].doc] \subseteq viewed'[run[r].doc]
    BY <2>1, ViewedGrows
  <2>3. Sound(run[r], paper[run[r].doc], viewed[run[r].doc], everTaught)
    BY <1>0, <1>1
  <2>4. QED
    BY <1>2, <2>1, <2>2, <2>3, SoundStays
<1>3. CASE UNCHANGED run
  <2>1. \A r \in Runs : run[r].rule <= Len(rules')
    <3>1. \A r \in Runs : run[r].rule \in Nat
      BY <1>1 DEF Memories
    <3>2. Len(rules) \in Nat /\ Len(rules') \in Nat
      BY <1>1, <1>2
    <3>3. QED
      BY <1>1, <1>2, <3>1, <3>2
  <2>2. QED
    BY <1>0, <1>1, <1>3, <2>1
<1>4. ASSUME NEW s \in Runs, NEW m, Moves(s, m), UNCHANGED masters
      PROVE  /\ run' \in [Runs -> Memories]
             /\ \A r \in Runs : /\ run'[r].doc = Unset <=> run'[r].pc = "idle"
                                /\ run'[r].rule <= Len(rules')
                                /\ run'[r].pc # "idle" =>
                                     Sound(run'[r], paper'[run'[r].doc], viewed'[run'[r].doc], everTaught')
  <2>1. run' = [run EXCEPT ![s] = m] /\ m \in Memories /\ everTaught' = everTaught /\ rules' = rules
    BY <1>4 DEF Moves, Goes, masters
  <2>2. run' \in [Runs -> Memories] /\ run'[s] = m /\ \A r \in Runs : r # s => run'[r] = run[r]
    BY <1>1, <2>1
  <2>3. /\ m.doc = Unset <=> m.pc = "idle"
        /\ m.rule <= Len(rules)
        /\ m.pc # "idle" => Fit(m)
    BY <1>2, <1>4, <2>1 DEF Moves
  <2>4. QED
    BY <1>0, <1>1, <1>2, <2>1, <2>2, <2>3
<1>5. QED
  BY <1>3, <1>4, OthersStay

\* Files of different documents have different names.
LEMMA FilesApart ==
  ASSUME NEW d \in Docs, NEW e \in Docs, File(d) = File(e)
  PROVE  d = e
  BY DEF File

\* Only two steps of workers touch a file.
LEMMA FilesTouched ==
  ASSUME [Next]_vars
  PROVE  list' = list \/ \E r \in Runs : WriteList(r) \/ RemoveList(r)
<1>1. ASSUME NEW r \in Runs, Step(r) PROVE list' = list \/ WriteList(r) \/ RemoveList(r)
  BY <1>1 DEF Step, Start, Read, ReadAgain, Lookup, Retry, Match, Save, Fails, MatchFails, Dies
<1>2. CASE UNCHANGED vars
  BY <1>2 DEF vars
<1>3. ASSUME NEW p \in Partners, NEW n \in Names, Teach(p, n) \/ Forget(p, n) PROVE list' = list
  BY <1>3 DEF Teach, Forget
<1>4. ASSUME NEW t \in Rules, SetRule(t) PROVE list' = list
  BY <1>4 DEF SetRule
<1>5. QED
  BY <1>1, <1>2, <1>3, <1>4 DEF Next

LEMMA ListsStaySound ==
  ASSUME IndInv, [Next]_vars
  PROVE  /\ list' \in [Files -> {Unset} \cup [cands : SUBSET Found, for : Names]]
         /\ ListsAreSound'
<1> DEFINE Lists == {Unset} \cup [cands : SUBSET Found, for : Names]
           Fit(l, d) == SoundList(l, paper[d], viewed'[d], everTaught')
<1>1. /\ paper' = paper /\ everTaught \subseteq everTaught'
      /\ \A d \in Docs : viewed[d] \subseteq viewed'[d]
  BY MastersGrow, ViewedGrows DEF IndInv
<1>2. list \in [Files -> Lists]
  BY DEF IndInv, TypeOK
<1>3. \A d \in Docs : File(d) \in Files
  BY DEF Files
<1>4. ASSUME NEW d \in Docs PROVE Fit(list[File(d)], d)
  <2>1. CASE list[File(d)] = Unset
    BY <2>1 DEF SoundList
  <2>2. CASE list[File(d)] # Unset
    <3>1. /\ list[File(d)].cands \in SUBSET Found /\ Known(list[File(d)].cands, everTaught)
          /\ SoundList(list[File(d)], paper[d], viewed[d], everTaught)
      BY <2>2, ListFields
    <3>2. Known(list[File(d)].cands, everTaught')
      BY <1>1, <3>1, KnownStays
    <3>3. LetsIn(paper[d], viewed[d]) => LetsIn(paper[d], viewed'[d])
      BY <1>1 DEF LetsIn
    <3>4. QED
      BY <1>1, <3>1, <3>2, <3>3 DEF SoundList
  <2>3. QED
    BY <2>1, <2>2
<1>5. CASE list' = list
  BY <1>1, <1>2, <1>4, <1>5 DEF ListsAreSound
<1>6. ASSUME NEW r \in Runs, NEW l \in Lists, run[r].doc \in Docs, Fit(l, run[r].doc),
             list' = [list EXCEPT ![File(run[r].doc)] = l]
      PROVE  list' \in [Files -> Lists] /\ ListsAreSound'
  <2>1. list' \in [Files -> Lists]
    BY <1>2, <1>3, <1>6
  <2>2. ASSUME NEW d \in Docs PROVE Fit(list'[File(d)], d)
    <3>1. CASE d = run[r].doc
      BY <1>2, <1>3, <1>6, <3>1
    <3>2. CASE d # run[r].doc
      <4>1. File(d) # File(run[r].doc)
        BY <1>6, <3>2, FilesApart
      <4>2. list'[File(d)] = list[File(d)]
        BY <1>2, <1>3, <1>6, <4>1
      <4>3. QED
        BY <1>4, <4>2
    <3>3. QED
      BY <3>1, <3>2
  <2>3. QED
    BY <1>1, <2>1, <2>2 DEF ListsAreSound
<1>7. ASSUME NEW r \in Runs, RemoveList(r) PROVE list' \in [Files -> Lists] /\ ListsAreSound'
  <2>1. run[r].pc # "idle" /\ list' = [list EXCEPT ![File(run[r].doc)] = Unset]
    BY <1>7 DEF RemoveList
  <2>2. run[r].doc \in Docs
    BY <2>1, Busy
  <2>3. Unset \in Lists /\ Fit(Unset, run[r].doc)
    BY DEF SoundList
  <2>4. QED
    BY <1>6, <2>1, <2>2, <2>3
<1>8. ASSUME NEW r \in Runs, WriteList(r) PROVE list' \in [Files -> Lists] /\ ListsAreSound'
  <2> DEFINE l == [cands |-> run[r].found, for |-> Name(r)]
             d == run[r].doc
             x == paper[d]
  <2>1. run[r].pc = "write" /\ list' = [list EXCEPT ![File(d)] = l] /\ viewed' = viewed
    BY <1>8 DEF WriteList
  <2>2. /\ run[r] \in Memories /\ d \in Docs
        /\ Sound(run[r], x, viewed[d], everTaught)
        /\ \A i \in Images : x.shows[i].name \in Names \cup {Unset}
    BY <2>1, Busy
  <2>3. run[r].trial \in Images /\ run[r].found \in SUBSET Found
    BY <2>2 DEF Memories
  <2>4. Name(r) = x.shows[run[r].trial].name /\ Name(r) \in Names
    BY <2>1, <2>2, <2>3 DEF Sound, Name, Seen
  <2>5. Known(run[r].found, everTaught')
    BY <1>1, <2>2, <2>3, KnownStays DEF Sound
  <2>6. l \in Lists /\ l.for = Name(r) /\ l.cands = run[r].found
    BY <2>3, <2>4
  <2> HIDE DEF l
  <2>7. LetsIn(x, viewed[d]) \/ (run[r].trial \in viewed[d] /\ Complete(run[r].found, Name(r)))
    BY <2>1, <2>2, <2>4 DEF Sound
  <2>8. Fit(l, d)
    BY <2>1, <2>3, <2>4, <2>5, <2>6, <2>7 DEF SoundList
  <2>9. QED
    BY <1>6, <2>1, <2>2, <2>6, <2>8
<1>9. QED
  BY <1>5, <1>7, <1>8, FilesTouched

\* An evaluation has one of four outcomes.
LEMMA NumberIsKind ==
  ASSUME NEW text
  PROVE  Evaluate(text) \in {"missing", "bad_format", "bad_check", "format_ok"}
<1> DEFINE n == Normalize(text)
           odd == Head(n) # T \/ Len(n) # 14
<1>1. CASE n = <<>>
  BY <1>1 DEF Evaluate
<1>2. CASE n # <<>> /\ odd
  BY <1>2 DEF Evaluate
<1>3. CASE n # <<>> /\ ~odd
  BY <1>3 DEF Evaluate
<1>4. QED
  BY <1>1, <1>2, <1>3

\* The row that is saved: its match is the one in the run's memory, and only a score that
\* reaches the upper bound of a row of thresholds approves.
LEMMA SavedIsSound ==
  ASSUME IndInv, NEW r \in Runs, run[r].pc = "save",
         ~ (Conclusion(r) = "AutoApprove" /\ run[r].rule = 0)
  PROVE  /\ Saved(r) \in Rows /\ Saved(r).rule <= Len(rules)
         /\ SoundRow(Saved(r), paper[run[r].doc], viewed[run[r].doc], everTaught, rules)
<1> DEFINE x == paper[run[r].doc]
           o == viewed[run[r].doc]
           row == Saved(r)
           partner == IF Conclusion(r) = "Reject" THEN Unset ELSE run[r].match.partner
           number == Evaluate(Seen(r, run[r].kept).text)
<1>1. /\ run[r] \in Memories /\ Sound(run[r], x, o, everTaught) /\ run[r].rule <= Len(rules)
  BY Busy
<1>2. /\ run[r].kept \in Images /\ run[r].match \in Matches /\ run[r].rule \in Nat
      /\ run[r].match.partner \in Partners \cup {Unset}
  BY <1>1 DEF Memories, Matches
<1>3. Conclusion(r) \in {"AutoApprove", "NeedsReview", "Reject"}
  BY DEF Conclusion, Decide
<1>4. /\ DbDecision(Conclusion(r)) \in {"auto_approve", "needs_review", "reject"}
      /\ DbDecision(Conclusion(r)) = "auto_approve" => Conclusion(r) = "AutoApprove"
  BY <1>3 DEF DbDecision
<1>5. number \in {"missing", "bad_format", "bad_check", "format_ok"}
  BY NumberIsKind
<1>6. partner \in Partners \cup {Unset}
  BY <1>2
<1>7. row = [decision |-> DbDecision(Conclusion(r)), kept |-> run[r].kept, number |-> number,
             match |-> run[r].match, partner |-> partner, rule |-> run[r].rule]
  BY DEF Saved
<1> HIDE DEF row, number
<1>8. /\ row \in Rows /\ row.decision = DbDecision(Conclusion(r)) /\ row.kept = run[r].kept
      /\ row.match = run[r].match /\ row.partner = partner /\ row.rule = run[r].rule
      /\ row.number = number
  BY <1>2, <1>4, <1>5, <1>6, <1>7 DEF Rows
<1>9. ASSUME Conclusion(r) = "AutoApprove"
      PROVE  /\ run[r].rule > 0 /\ partner \in Partners
             /\ run[r].match.score >= rules[run[r].rule].upper
  <2>1. run[r].rule # 0 /\ run[r].rule > 0
    BY <1>2, <1>9
  <2>2. Rule(run[r].rule) = rules[run[r].rule]
    BY <2>1 DEF Rule
  <2>3. run[r].match.partner # Unset /\ run[r].match.score >= Rule(run[r].rule).upper
    BY <1>9 DEF Conclusion, Decide
  <2>4. QED
    BY <1>2, <1>9, <2>1, <2>2, <2>3
<1>10. SoundRow(row, x, o, everTaught, rules)
  <2>1. row.number = Evaluate(x.shows[row.kept].text)
    BY <1>8 DEF number, Seen
  <2>2. QED
    BY <1>1, <1>4, <1>8, <1>9, <2>1 DEF SoundRow, Sound
<1>11. QED
  BY <1>1, <1>8, <1>10 DEF row

\* Only SaveResult writes a row.
LEMMA RowsWritten ==
  ASSUME [Next]_vars
  PROVE  \/ result' = result
         \/ \E r \in Runs :
              /\ run[r].pc = "save" /\ ~ (Conclusion(r) = "AutoApprove" /\ run[r].rule = 0)
              /\ result' = [result EXCEPT ![run[r].doc] = Saved(r)]
              /\ UNCHANGED masters /\ viewed' = viewed
<1>1. ASSUME NEW r \in Runs, Step(r)
      PROVE  \/ result' = result
             \/ /\ run[r].pc = "save" /\ ~ (Conclusion(r) = "AutoApprove" /\ run[r].rule = 0)
                /\ result' = [result EXCEPT ![run[r].doc] = Saved(r)]
                /\ UNCHANGED masters /\ viewed' = viewed
  BY <1>1 DEF Step, Start, Read, ReadAgain, Lookup, Retry, WriteList, Match, RemoveList, Save, Fails,
              MatchFails, Dies
<1>2. CASE UNCHANGED vars
  BY <1>2 DEF vars
<1>3. ASSUME NEW p \in Partners, NEW n \in Names, Teach(p, n) \/ Forget(p, n) PROVE result' = result
  BY <1>3 DEF Teach, Forget
<1>4. ASSUME NEW t \in Rules, SetRule(t) PROVE result' = result
  BY <1>4 DEF SetRule
<1>5. QED
  BY <1>1, <1>2, <1>3, <1>4 DEF Next

\* What is stored once stays as sound as it was while thresholds are added.
LEMMA RowStays ==
  ASSUME NEW row \in Rows, NEW x, NEW few, NEW more, few \subseteq more,
         NEW before, NEW after, before \subseteq after, NEW old, NEW new,
         \A i \in 1 .. Len(old) : new[i] = old[i], row.rule <= Len(old), Len(old) \in Nat,
         SoundRow(row, x, before, few, old)
  PROVE  SoundRow(row, x, after, more, new)
<1>1. row.match \in Matches /\ row.rule \in Nat
  BY DEF Rows
<1>2. Fits(row.match, x, x.shows[row.kept].name, more)
  BY <1>1, FitsStays DEF SoundRow
<1>3. row.rule > 0 => new[row.rule] = old[row.rule]
  BY <1>1
<1>4. LetsIn(x, before) => LetsIn(x, after)
  BY DEF LetsIn
<1>5. QED
  BY <1>2, <1>3, <1>4 DEF SoundRow

LEMMA RowsStaySound ==
  ASSUME IndInv, [Next]_vars
  PROVE  /\ result' \in [Docs -> {NoResult} \cup Rows]
         /\ \A d \in Docs : result'[d] # NoResult =>
              /\ result'[d].rule <= Len(rules')
              /\ SoundRow(result'[d], paper'[d], viewed'[d], everTaught', rules')
<1>1. /\ paper' = paper /\ everTaught \subseteq everTaught' /\ Len(rules) <= Len(rules')
      /\ rules' \in Seq(Rules \cup {Default}) /\ Len(rules) \in Nat /\ Len(rules') \in Nat
      /\ \A i \in 1 .. Len(rules) : rules'[i] = rules[i]
  BY MastersGrow DEF IndInv, TypeOK
<1>2. result \in [Docs -> {NoResult} \cup Rows]
  BY DEF IndInv, TypeOK
<1>3. ASSUME NEW d \in Docs, result[d] # NoResult
      PROVE  /\ result[d] \in Rows /\ result[d].rule \in Nat /\ result[d].rule <= Len(rules)
             /\ SoundRow(result[d], paper[d], viewed[d], everTaught, rules)
  <2>1. result[d] \in Rows
    BY <1>2, <1>3
  <2>2. QED
    BY <1>3, <2>1 DEF IndInv, TypeOK, Rows
<1>4. ASSUME NEW d \in Docs, result[d] # NoResult
      PROVE  /\ result[d].rule <= Len(rules')
             /\ SoundRow(result[d], paper'[d], viewed'[d], everTaught', rules')
  <2>1. /\ result[d] \in Rows /\ result[d].rule \in Nat /\ result[d].rule <= Len(rules)
        /\ SoundRow(result[d], paper[d], viewed[d], everTaught, rules)
    BY <1>3, <1>4
  <2>2. result[d].rule <= Len(rules')
    BY <1>1, <2>1
  <2>3. viewed[d] \subseteq viewed'[d]
    BY ViewedGrows
  <2>4. SoundRow(result[d], paper[d], viewed'[d], everTaught', rules')
    BY <1>1, <2>1, <2>3, RowStays
  <2>5. QED
    BY <1>1, <2>2, <2>4
<1>5. CASE result' = result
  BY <1>2, <1>4, <1>5
<1>6. ASSUME NEW r \in Runs, run[r].pc = "save", ~ (Conclusion(r) = "AutoApprove" /\ run[r].rule = 0),
             result' = [result EXCEPT ![run[r].doc] = Saved(r)], UNCHANGED masters, viewed' = viewed
      PROVE  /\ result' \in [Docs -> {NoResult} \cup Rows]
             /\ \A d \in Docs : result'[d] # NoResult =>
                  /\ result'[d].rule <= Len(rules')
                  /\ SoundRow(result'[d], paper'[d], viewed'[d], everTaught', rules')
  <2>1. run[r].doc \in Docs
    BY <1>6, Busy
  <2>2. /\ Saved(r) \in Rows /\ Saved(r).rule <= Len(rules)
        /\ SoundRow(Saved(r), paper[run[r].doc], viewed[run[r].doc], everTaught, rules)
    BY <1>6, SavedIsSound
  <2>3. rules' = rules /\ everTaught' = everTaught
    BY <1>6 DEF masters
  <2>4. result' \in [Docs -> {NoResult} \cup Rows]
    BY <1>2, <1>6, <2>2
  <2>5. ASSUME NEW d \in Docs, result'[d] # NoResult
        PROVE  /\ result'[d].rule <= Len(rules')
               /\ SoundRow(result'[d], paper'[d], viewed'[d], everTaught', rules')
    <3>1. CASE d = run[r].doc
      <4>1. result'[d] = Saved(r)
        BY <1>2, <1>6, <3>1
      <4>2. QED
        BY <1>1, <1>6, <2>2, <2>3, <3>1, <4>1
    <3>2. CASE d # run[r].doc
      <4>1. result'[d] = result[d]
        BY <1>2, <1>6, <3>2
      <4>2. QED
        BY <1>4, <2>5, <4>1
    <3>3. QED
      BY <3>1, <3>2
  <2>6. QED
    BY <2>4, <2>5
<1>7. QED
  BY <1>5, <1>6, RowsWritten

\* A job is waiting, done, or somebody's.
LEMMA OwnersStay ==
  ASSUME IndInv, [Next]_vars
  PROVE  owner' \in [Docs -> Runs \cup {Unset, "done"}]
<1>1. owner \in [Docs -> Runs \cup {Unset, "done"}]
  BY DEF IndInv, TypeOK
<1>2. ASSUME NEW r \in Runs, Step(r)
      PROVE  \/ owner' = owner
             \/ \E d, o : /\ o \in Runs \cup {Unset, "done"} /\ owner' = [owner EXCEPT ![d] = o]
  <2>1. ASSUME NEW d \in Docs, Start(r, d) PROVE owner' = [owner EXCEPT ![d] = r]
    BY <2>1 DEF Start
  <2>2. ASSUME Requeue(r) PROVE owner' = [owner EXCEPT ![run[r].doc] = Unset]
    BY <2>2 DEF Requeue
  <2>3. ASSUME RemoveList(r) \/ Fails(r) PROVE owner' = owner \/ Requeue(r)
    BY <2>3 DEF RemoveList, Fails
  <2>4. ASSUME Save(r)
        PROVE  owner' = owner \/ Requeue(r) \/ owner' = [owner EXCEPT ![run[r].doc] = "done"]
    BY <2>4 DEF Save
  <2>5. ASSUME Read(r) \/ ReadAgain(r) \/ Lookup(r) \/ Retry(r) \/ WriteList(r) \/ Match(r)
                 \/ MatchFails(r) \/ Dies(r)
        PROVE  owner' = owner
    BY <2>5 DEF Read, ReadAgain, Lookup, Retry, WriteList, Match, MatchFails, Dies
  <2>6. QED
    BY <1>2, <2>1, <2>2, <2>3, <2>4, <2>5 DEF Step
<1>3. CASE UNCHANGED vars
  BY <1>1, <1>3 DEF vars
<1>4. ASSUME NEW p \in Partners, NEW n \in Names, Teach(p, n) \/ Forget(p, n) PROVE owner' = owner
  BY <1>4 DEF Teach, Forget
<1>5. ASSUME NEW t \in Rules, SetRule(t) PROVE owner' = owner
  BY <1>5 DEF SetRule
<1>6. ASSUME NEW d, NEW o \in Runs \cup {Unset, "done"}, owner' = [owner EXCEPT ![d] = o]
      PROVE  owner' \in [Docs -> Runs \cup {Unset, "done"}]
  BY <1>1, <1>6
<1>7. QED
  BY <1>1, <1>2, <1>3, <1>4, <1>5, <1>6 DEF Next

-----------------------------------------------------------------------------
(* The specification.                                                      *)

LEMMA Stays ==
  IndInv /\ [Next]_vars => IndInv'
<1> SUFFICES ASSUME IndInv, [Next]_vars PROVE IndInv'
  OBVIOUS
<1>1. /\ paper' = paper /\ taught' \subseteq everTaught' /\ everTaught' \subseteq Partners \X Names
      /\ rules' \in Seq(Rules \cup {Default})
  BY MastersGrow DEF IndInv
<1>2. paper \in [Docs -> Papers]
  BY DEF IndInv, TypeOK
<1>3. TypeOK'
  BY <1>1, <1>2, OwnersStay, ViewedGrows, ListsStaySound, RunsStaySound, RowsStaySound DEF TypeOK
<1>4. QED
  BY <1>3, ListsStaySound, RunsStaySound, RowsStaySound DEF IndInv

LEMMA Initially ==
  Init => IndInv
<1> SUFFICES ASSUME Init PROVE IndInv
  OBVIOUS
<1>1. rules \in Seq(Rules \cup {Default}) /\ Len(rules) \in Nat
  <2> DEFINE Bounds == Rules \cup {Default}
  <2>1. Default \in Bounds
    OBVIOUS
  <2> HIDE DEF Bounds
  <2>2. <<>> \in Seq(Bounds) /\ <<Default>> \in Seq(Bounds)
    BY <2>1
  <2>3. rules \in Seq(Bounds)
    BY <2>2 DEF Init
  <2>4. QED
    BY <2>3 DEF Bounds
<1>2. \A r \in Runs : run[r] = Idle
  BY DEF Init
<1>3. \A f \in Files : list[f] = Unset
  BY DEF Init
<1>4. \A d \in Docs : result[d] = NoResult
  BY DEF Init
<1>5. TypeOK
  BY <1>1, <1>2, <1>4, IdleIsMemory, TaughtToPartners DEF Init, TypeOK
<1>6. ListsAreSound
  BY <1>3 DEF ListsAreSound, SoundList, Files
<1>7. QED
  BY <1>2, <1>4, <1>5, <1>6, IdleIsMemory DEF IndInv

\* What Reading keeps, whoever works on which document, whatever lapses, fails or dies, and
\* whatever people teach: what a run has in its memory, what stands in the files, and what
\* is stored belong to the paper, and to names that were taught at some time.
THEOREM Invariance == Spec => []IndInv
<1>1. Init => IndInv
  BY Initially
<1>2. IndInv /\ [Next]_vars => IndInv'
  BY Stays
<1>3. QED
  BY <1>1, <1>2, PTL DEF Spec

\* Memories, files and rows have their types; a run that is idle, and no other, has no document.
THEOREM TypeCorrect == Spec => []TypeOK
<1>1. IndInv => TypeOK
  BY DEF IndInv
<1>2. QED
  BY <1>1, Invariance, PTL

\* A stored match was made for this document, and its score is that of the name in the row
\* (candidates, Match, SaveResult), although workers write and remove files of one name.
THEOREM MatchIsOfTheReading == Spec => []MatchIsOfThisReading
<1>1. IndInv => MatchIsOfThisReading
  BY DEF IndInv, SoundRow, Fits, MatchIsOfThisReading, Stored, KeptName
<1>2. QED
  BY <1>1, Invariance, PTL

\* The processed image is kept only where the original gave no name or one no partner's own
\* name can be a result for, or where workers read it differently (Worker.process).
THEOREM OriginalTrusted == Spec => []OriginalIsTrusted
<1>1. IndInv => OriginalIsTrusted
  BY DEF IndInv, SoundRow, OriginalIsTrusted, Stored
<1>2. QED
  BY <1>1, Invariance, PTL

\* An automatic approval names a row of thresholds whose upper bound its score reaches, and
\* a partner (Decide, SaveResult).
THEOREM AutoTraceable == Spec => []AutoIsTraceable
<1>1. IndInv => AutoIsTraceable
  BY DEF IndInv, SoundRow, AutoIsTraceable, Stored
<1>2. QED
  BY <1>1, Invariance, PTL

\* The number printed on paper x has the check digit of a corporate number.  Numbers of
\* individuals need not have it, and of those nothing is shown: a misread one may get it.
Corporate(x) == x.printed \in Digits13 /\ CheckDigit(x.printed)

\* What an image gives of the number on paper x, if it passes, has at most one digit misread
\* or one pair of neighbours swapped.
OneError(x) ==
  \A i \in Images :
    LET read == Tail(Normalize(x.shows[i].text))
    IN  Evaluate(x.shows[i].text) = "format_ok" =>
          \/ read = x.printed
          \/ \E j \in 1 .. 13, c \in Digit : read = Misread(x.printed, j, c)
          \/ \E j \in 1 .. 12 : read = Swapped(x.printed, j)

\* Only a number whose check digit fits passes.
LEMMA PassingIsChecked ==
  ASSUME NEW text, Evaluate(text) = "format_ok"
  PROVE  CheckDigit(Tail(Normalize(text)))
<1> DEFINE n == Normalize(text)
           odd == Head(n) # T \/ Len(n) # 14
<1>1. CASE n = <<>>
  BY <1>1 DEF Evaluate
<1>2. CASE n # <<>> /\ odd
  BY <1>2 DEF Evaluate
<1>3. CASE n # <<>> /\ ~odd
  BY <1>3 DEF Evaluate
<1>4. QED
  BY <1>1, <1>2, <1>3

\* A valid number that differs from the printed one by one error differs in noughts and nines.
LEMMA ErrorsAreSeen ==
  ASSUME NEW x \in Papers, Corporate(x), OneError(x), NEW i \in Images,
         Evaluate(x.shows[i].text) = "format_ok", NEW k \in 1 .. 13
  PROVE  LET read == Tail(Normalize(x.shows[i].text))
         IN  read[k] = x.printed[k] \/ Indistinct(read[k], x.printed[k])
<1> DEFINE read == Tail(Normalize(x.shows[i].text))
           printed == x.printed
<1>1. /\ printed \in Digits13 /\ CheckDigit(printed) /\ CheckDigit(read)
      /\ \/ read = printed
         \/ \E j \in 1 .. 13, c \in Digit : read = Misread(printed, j, c)
         \/ \E j \in 1 .. 12 : read = Swapped(printed, j)
  BY PassingIsChecked DEF Corporate, OneError
<1> HIDE DEF read, printed
<1>2. ASSUME NEW j \in 1 .. 13, NEW c \in Digit, read = Misread(printed, j, c)
      PROVE  read[k] = printed[k] \/ Indistinct(read[k], printed[k])
  <2>1. c = printed[j] \/ Indistinct(c, printed[j])
    BY <1>1, <1>2, MisreadDigitIsSeen
  <2>2. read[k] = IF k = j THEN c ELSE printed[k]
    BY <1>1, <1>2 DEF Misread, Digits13
  <2>3. QED
    BY <2>1, <2>2
<1>3. ASSUME NEW j \in 1 .. 12, read = Swapped(printed, j)
      PROVE  read[k] = printed[k] \/ Indistinct(read[k], printed[k])
  <2>1. printed[j] = printed[j + 1] \/ Indistinct(printed[j], printed[j + 1])
    BY <1>1, <1>3, SwapIsSeen
  <2>2. read[k] = IF k = j + 1 THEN printed[j] ELSE IF k = j THEN printed[j + 1] ELSE printed[k]
    BY <1>1, <1>3 DEF Swapped, Digits13
  <2>3. Indistinct(printed[j], printed[j + 1]) => Indistinct(printed[j + 1], printed[j])
    BY DEF Indistinct
  <2>4. QED
    BY <2>1, <2>2, <2>3
<1>4. QED
  BY <1>1, <1>2, <1>3 DEF read, printed

\* Where the printed numbers are corporate ones and an image has no more than one error, a
\* stored number that passes is the printed one, but for noughts and nines (Evaluate, CheckDigit,
\* save).
THEOREM MisreadSeen ==
  ASSUME \A x \in Papers : Corporate(x) /\ OneError(x)
  PROVE  Spec => []MisreadIsSeen
<1>1. IndInv => MisreadIsSeen
  <2>1. SUFFICES ASSUME IndInv, NEW d \in Docs, Stored(d), result[d].number = "format_ok", NEW k \in 1 .. 13
                 PROVE  LET read == Tail(Normalize(paper[d].shows[result[d].kept].text))
                        IN  read[k] = paper[d].printed[k] \/ Indistinct(read[k], paper[d].printed[k])
    BY DEF MisreadIsSeen
  <2>2. /\ paper[d] \in Papers /\ result[d] \in Rows
        /\ result[d].number = Evaluate(paper[d].shows[result[d].kept].text)
    BY <2>1 DEF IndInv, TypeOK, SoundRow, Stored
  <2>3. result[d].kept \in Images
    BY <2>2 DEF Rows
  <2>4. QED
    BY <2>1, <2>2, <2>3, ErrorsAreSeen
<1>2. QED
  BY <1>1, Invariance, PTL
=============================================================================
