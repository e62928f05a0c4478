----------------------------- MODULE MCReading -----------------------------
(* Instances of Reading for TLC.  Two companies are called "harta_284" and *)
(* "harta", which is what processing may leave of the former's name, a     *)
(* third one "maruni"; "harta_234" and "smudge" are misreadings.  For the  *)
(* nickname pg_trgm also finds "maruni", with which it shares no two       *)
(* characters in a row.                                                    *)
EXTENDS Reading, TLC

MCCanonical ==
  [p \in Partners |-> CASE p = "p1" -> "harta_284" [] p = "p2" -> "harta" [] OTHER -> "maruni"]

Hartas   == {"harta_284", "harta", "harta_234"}
MCCommon == Hartas \X Hartas \cup {<<n, n>> : n \in Names}
MCNear   == MCCommon \cup {<<"nickname", "maruni">>, <<"maruni", "nickname">>}
MCAlike  == [pair \in Names \X Names |-> IF pair[1] = pair[2] THEN 100 ELSE 80]

MCAlreadyTaught == {<<"p1", "nickname">>}

MCRules == {[upper |-> 95, lower |-> 55], [upper |-> 75, lower |-> 55]}

\* A valid number, and what reading makes of it.
Printed == <<7, 1, 0, 9, 0, 4, 0, 1, 0, 5, 6, 7, 5>>

Text(digits) == <<T>> \o digits
Sees(name, text) == [name |-> name, text |-> text]
Paper(turned, original, fallen, processed) ==
  [printed |-> Printed, turned |-> turned,
   shows |-> [i \in Images |->
     CASE i = "original" -> original [] i = "fallen" -> fallen [] i = "processed" -> processed]]

MCPapers == {
  \* read well, with a blank; lying on its side it gives the addressee's name and no
  \* number; the processed image loses the end of the name
  Paper(TRUE, Sees("harta_284", <<T, Other>> \o Printed), Sees("maruni", <<>>),
        Sees("harta", Text(Misread(Printed, 3, 5)))),
  \* a nickname, and a digit that passes; lying on its side it gives no name, and two
  \* neighbours swapped; the processed image gives another name, and a digit misread
  Paper(TRUE, Sees("nickname", Text(Misread(Printed, 4, 0))), Sees(Unset, Text(Swapped(Printed, 9))),
        Sees("harta_234", Text(Misread(Printed, 8, 7)))),
  \* nothing but a smudge, and no number; the processed image gives the end of a line
  Paper(FALSE, Sees("smudge", <<>>), Sees("smudge", <<>>), Sees("harta", <<Other, 7, 1>>))}

ASSUME PrintedIsValid == CheckDigit(Printed)

Symmetry == Permutations(Runs) \cup Permutations(Docs)
=============================================================================
