-------------------------------- MODULE RegNo --------------------------------
(***************************************************************************)
(* Registration numbers of qualified invoice issuers: T and 13 digits, the *)
(* first of which checks the others (package invoice).  A text is a        *)
(* sequence of characters: a digit, the letter T in any of its forms, or   *)
(* something else.                                                         *)
(***************************************************************************)
EXTENDS Integers, Sequences

Digit == 0 .. 9
T     == 10   \* T or t, full or half width
Other == 11   \* blanks, hyphens, and what was read as some other character

Normalize(text) == SelectSeq(text, LAMBDA c : c # Other)

\* Mutant: weights that ignore the position.
Unweighted(d) ==
  (d[13] + d[11] + d[9] + d[7] + d[5] + d[3]) + (d[12] + d[10] + d[8] + d[6] + d[4] + d[2])

\* The sum of the digits after the first, from the last one on times 1, 2, 1, 2 ...
Weighted(d) ==
  (d[13] + d[11] + d[9] + d[7] + d[5] + d[3]) + 2 * (d[12] + d[10] + d[8] + d[6] + d[4] + d[2])

CheckDigit(d) ==
  /\ Len(d) = 13
  /\ \A i \in 1 .. 13 : d[i] \in Digit
  /\ d[1] = 9 - (Weighted(d) % 9)

Evaluate(text) ==
  LET n == Normalize(text)
  IN  CASE n = <<>> -> "missing"
        [] n # <<>> /\ (Head(n) # T \/ Len(n) # 14) -> "bad_format"
        [] n # <<>> /\ Head(n) = T /\ Len(n) = 14 ->
             IF CheckDigit(Tail(n)) THEN "format_ok" ELSE "bad_check"

-----------------------------------------------------------------------------
(* What may come of a printed number in reading.                           *)

Digits13 == [1 .. 13 -> Digit]

\* One digit is read as another one.
Misread(d, i, c) == [d EXCEPT ![i] = c]

\* Two neighbouring digits change places.
Swapped(d, i) == [d EXCEPT ![i] = d[i + 1], ![i + 1] = d[i]]

\* What the check digit cannot tell apart: 0 and 9 differ by the modulus.
Indistinct(a, b) == {a, b} = {0, 9}
=============================================================================
