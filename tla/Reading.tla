------------------------------- MODULE Reading -------------------------------
(***************************************************************************)
(* What a worker does with a document between claiming its job and saving  *)
(* the result: read it, look up candidates for the name, have them scored, *)
(* decide (package pipeline, Worker.process and Worker.save).              *)
(*                                                                         *)
(* The original image is read first, turned upright if that works.  The    *)
(* processed one is read only if the original gives no name or a name      *)
(* without results.  Candidates come from the masters, to which people add *)
(* names they teach the system, and go to dm_match through a file that is  *)
(* named after the document: two workers on one document, after a lease    *)
(* lapsed, write and remove the same file.                                 *)
(* Of the job queue only the owner of the job is kept; JobQueue has the    *)
(* rest.                                                                   *)
(***************************************************************************)
EXTENDS Integers, Sequences, RegNo

CONSTANTS
  Docs, Runs,
  Names,       \* names as they are printed, read and taught
  Partners, Canonical,   \* the client's partners and their names
  AlreadyTaught,         \* names taught before: <<partner, name>>
  Near,        \* pairs of names of which pg_trgm finds the one for the other
  Common,      \* pairs of names that share two characters in a row
  Alike,       \* the score dm_match gives a pair of names, 0 .. 100
  Papers,      \* documents: the number printed on them, whether the original lies on
               \* its side, and what each image shows
  Rules,       \* thresholds administrators may set: [upper, lower]
  Unset,       \* no name, no partner, no run, no file
  MaxStarts, MaxLapses, MaxChanges   \* bounds: claims, lapsed leases, changes by people

ASSUME NamesOfPartners == Canonical \in [Partners -> Names]
ASSUME TaughtToPartners == AlreadyTaught \subseteq Partners \X Names
ASSUME AlikeIsPercent  == Alike \in [Names \X Names -> 0 .. 100]
ASSUME UnsetIsNothing  == Unset \notin Docs \cup Names \cup Partners \cup Runs

\* The original upright, the original as it came, and the processed image.
Images == {"original", "fallen", "processed"}
Views  == [name : Names \cup {Unset}, text : Seq(Digit \cup {T, Other})]

ASSUME PapersShowViews == \A x \in Papers : x.turned \in BOOLEAN /\ x.shows \in [Images -> Views]
ASSUME RulesAreValid   == \A t \in Rules : t.lower <= t.upper

VARIABLES
  paper,       \* per document: what its images give when they can be read
  taught,      \* table partner_aliases: <<partner, name>>
  rules,       \* table thresholds, oldest first; the last one is in force
  owner,       \* jobs.locked_by: a run, Unset (waiting) or "done"
  list,        \* the files cand_<document>.json: Unset, or partners with their names
  run,         \* per worker: where it is in which document, and what it has
  result,      \* what SaveResult stored, per document
  viewed,      \* history, per document: how workers have read the original
  everTaught,  \* history: names that were ever taught
  starts, lapses, changes   \* budgets

budgets == <<starts, lapses, changes>>
masters == <<taught, rules, everTaught>>
vars    == <<paper, viewed, owner, list, run, result, masters, budgets>>

\* Mutant: one file for all documents.
FileForAll(d) == "cand.json"

\* The name of the candidate file.
File(d) == <<"cand", d>>

Files == {File(d) : d \in Docs}

-----------------------------------------------------------------------------
(* Candidates and scores.                                                  *)

NamesOf(p, aliases) == {Canonical[p]} \cup {n \in Names : <<p, n>> \in aliases}

\* Store.Candidates: partners of which some name comes near, with all their names.
Candidates(name) ==
  {[partner |-> p, names |-> NamesOf(p, taught)] :
     p \in {q \in Partners : \E n \in NamesOf(q, taught) : <<name, n>> \in Near}}

\* dm_match: names that share nothing with the one in question are not looked at, and a
\* candidate counts by the nearest of the others.
Shared(name, c)   == {n \in c.names : <<name, n>> \in Common}
Results(name, cs) == {c \in cs : Shared(name, c) # {}}

Score(name, c) == CHOOSE s \in {Alike[name, n] : n \in Shared(name, c)} :
                    \A n \in Shared(name, c) : Alike[name, n] <= s

BestOf(name, cs) ==
  {c \in Results(name, cs) : \A o \in Results(name, cs) : Score(name, o) <= Score(name, c)}

NoMatch == [partner |-> Unset, score |-> 0, for |-> Unset]

-----------------------------------------------------------------------------
(* The decision.                                                           *)

Default == [upper |-> 95, lower |-> 55]

\* Mutant: the thresholds as they are when the decision is made.
RuleByNow(id) == IF rules = <<>> THEN Default ELSE rules[Len(rules)]

\* The thresholds read at the start; row 0: there was none.
Rule(id) == IF id = 0 THEN Default ELSE rules[id]

\* decide.Decide: without a candidate nothing is approved, whatever the score.
Decide(score, has, t) ==
  IF ~has THEN "Reject"
  ELSE IF score >= t.upper THEN "AutoApprove"
  ELSE IF score >= t.lower THEN "NeedsReview" ELSE "Reject"

\* Mutant: the numbers of package decide go to the table as they are, where 2 and 3
\* are a person's approval and correction.
DbDecisionAsIs(d) ==
  CASE d = "AutoApprove" -> "auto_approve" [] d = "NeedsReview" -> "approve" [] d = "Reject" -> "update"

DbDecision(d) ==
  CASE d = "AutoApprove" -> "auto_approve" [] d = "NeedsReview" -> "needs_review" [] d = "Reject" -> "reject"

-----------------------------------------------------------------------------
(* The state.                                                              *)

Steps == {"idle", "read", "read_again", "lookup", "retry", "write", "match", "remove", "save"}

Idle == [pc |-> "idle", doc |-> Unset, rule |-> 0, kept |-> "original", trial |-> "original",
         found |-> {}, failed |-> FALSE, match |-> NoMatch]

NoResult == [decision |-> "none"]

Matches == [partner : Partners \cup {Unset}, score : 0 .. 100, for : Names \cup {Unset}]

Found == [partner : Partners, names : (SUBSET Names) \ {{}}]

Memories ==
  [pc : Steps, doc : Docs \cup {Unset}, rule : Nat, kept : Images, trial : Images,
   found : SUBSET Found, failed : BOOLEAN, match : Matches]

Rows ==
  [decision : {"auto_approve", "needs_review", "reject"}, kept : Images,
   number : {"missing", "bad_format", "bad_check", "format_ok"},
   match : Matches, partner : Partners \cup {Unset}, rule : Nat]

TypeOK ==
  /\ paper \in [Docs -> Papers]
  /\ viewed \in [Docs -> SUBSET (Images \ {"processed"})]
  /\ taught \subseteq everTaught /\ everTaught \subseteq Partners \X Names
  /\ rules \in Seq(Rules \cup {Default})
  /\ owner \in [Docs -> Runs \cup {Unset, "done"}]
  /\ list \in [Files -> {Unset} \cup [cands : SUBSET Found, for : Names]]
  /\ run \in [Runs -> Memories]
  /\ \A r \in Runs : /\ run[r].doc = Unset <=> run[r].pc = "idle"
                     /\ run[r].rule <= Len(rules)
  /\ result \in [Docs -> {NoResult} \cup Rows]
  /\ \A d \in Docs : result[d] # NoResult => result[d].rule <= Len(rules)

Init ==
  /\ paper \in [Docs -> Papers]
  /\ viewed = [d \in Docs |-> {}]
  /\ taught = AlreadyTaught /\ everTaught = AlreadyTaught
  /\ rules \in {<<>>, <<Default>>}
  /\ owner = [d \in Docs |-> Unset]
  /\ list = [f \in Files |-> Unset]
  /\ run = [r \in Runs |-> Idle]
  /\ result = [d \in Docs |-> NoResult]
  /\ starts = 0 /\ lapses = 0 /\ changes = 0

-----------------------------------------------------------------------------
(* The steps of a worker.                                                  *)

Goes(r, to)  == run' = [run EXCEPT ![r] = to]
At(r, step)  == [run[r] EXCEPT !.pc = step]
Ends(r)      == Goes(r, Idle)

Seen(r, image) == paper[run[r].doc].shows[image]
Name(r) == Seen(r, run[r].trial).name
SecondTry(r) == run[r].trial # run[r].kept

\* Claim, and the threshold as it is now.  A run whose lease lapsed works on.
Start(r, d) ==
  /\ run[r].pc = "idle" /\ starts < MaxStarts
  /\ \/ owner[d] = Unset /\ UNCHANGED lapses
     \/ owner[d] \in Runs \ {r} /\ lapses < MaxLapses /\ lapses' = lapses + 1
  /\ starts' = starts + 1
  /\ owner' = [owner EXCEPT ![d] = r]
  /\ Goes(r, [Idle EXCEPT !.pc = "read", !.doc = d, !.rule = Len(rules)])
  /\ UNCHANGED <<paper, viewed, masters, list, result, changes>>

\* Upright may fail, which leaves the image as it came.
Originals(x) == IF x.turned THEN {"original", "fallen"} ELSE {"original"}

\* OCR and extraction of the original image.
Read(r) ==
  /\ run[r].pc = "read"
  /\ \E image \in Originals(paper[run[r].doc]) :
       /\ Goes(r, [run[r] EXCEPT !.pc = IF Seen(r, image).name = Unset THEN "read_again" ELSE "lookup",
                                !.kept = image, !.trial = image])
       /\ viewed' = [viewed EXCEPT ![run[r].doc] = @ \cup {image}]
  /\ UNCHANGED <<paper, masters, owner, list, result, budgets>>

\* No name: the processed image is read.  If that fails too, a person has to look.
ReadAgain(r) ==
  /\ run[r].pc = "read_again"
  /\ \/ /\ Seen(r, "processed").name # Unset
        /\ Goes(r, [run[r] EXCEPT !.pc = "lookup", !.kept = "processed", !.trial = "processed"])
     \/ Goes(r, At(r, "save"))
  /\ UNCHANGED <<paper, viewed, masters, owner, list, result, budgets>>

\* Mutant: the other image is tried whatever this one gave, and taken if it has results.
TriedAnyway(r, m) ==
  IF run[r].kept # "processed" /\ ~SecondTry(r) THEN [run[r] EXCEPT !.pc = "retry"]
  ELSE IF m.partner # Unset THEN [run[r] EXCEPT !.pc = "save", !.match = m, !.kept = run[r].trial]
  ELSE [run[r] EXCEPT !.pc = "save"]

\* What a run goes on with after match m.  The reading that gave results is kept.  Without
\* results the processed image is tried, unless it has been read already.
Tried(r, m) ==
  IF m.partner # Unset THEN [run[r] EXCEPT !.pc = "save", !.match = m, !.kept = run[r].trial]
  ELSE IF run[r].kept # "processed" /\ ~SecondTry(r) THEN [run[r] EXCEPT !.pc = "retry"]
  ELSE [run[r] EXCEPT !.pc = "save"]

\* Worker.candidates: without candidates dm_match is not called.
Lookup(r) ==
  /\ run[r].pc = "lookup"
  /\ LET cs == Candidates(Name(r))
     IN  \/ cs = {} /\ Goes(r, Tried(r, NoMatch))
         \/ cs # {} /\ Goes(r, [run[r] EXCEPT !.pc = "write", !.found = cs])
  /\ UNCHANGED <<paper, viewed, masters, owner, list, result, budgets>>

\* The processed image once more for a name without results: only another name is worth
\* looking up, and an error leaves things as they are.
Retry(r) ==
  /\ run[r].pc = "retry"
  /\ \/ /\ Seen(r, "processed").name \notin {Unset, Name(r)}
        /\ Goes(r, [run[r] EXCEPT !.pc = "lookup", !.trial = "processed"])
     \/ Goes(r, At(r, "save"))
  /\ UNCHANGED <<paper, viewed, masters, owner, list, result, budgets>>

WriteList(r) ==
  /\ run[r].pc = "write"
  /\ list' = [list EXCEPT ![File(run[r].doc)] = [cands |-> run[r].found, for |-> Name(r)]]
  /\ Goes(r, At(r, "match"))
  /\ UNCHANGED <<paper, viewed, masters, owner, result, budgets>>

\* dm_match scores the partners of the file against the name; there may be none that shares
\* anything with it.  Without a file it fails.
Match(r) ==
  /\ run[r].pc = "match"
  /\ LET file == list[File(run[r].doc)]
     IN  \/ file = Unset /\ Goes(r, [run[r] EXCEPT !.pc = "remove", !.failed = TRUE])
         \/ /\ file # Unset /\ Results(Name(r), file.cands) = {}
            /\ Goes(r, At(r, "remove"))
         \/ /\ file # Unset
            /\ \E c \in BestOf(Name(r), file.cands) :
                 Goes(r, [run[r] EXCEPT
                            !.pc = "remove",
                            !.match = [partner |-> c.partner, score |-> Score(Name(r), c), for |-> file.for]])
  /\ UNCHANGED <<paper, viewed, masters, owner, list, result, budgets>>

\* Fail is not fenced: the job waits again, whoever has it now.
Requeue(r) ==
  /\ Ends(r)
  /\ owner' = [owner EXCEPT ![run[r].doc] = Unset]

\* Mutant: the match of the second try is kept, but not the reading it belongs to.
AdoptedAlone(r) ==
  IF run[r].failed THEN [run[r] EXCEPT !.pc = "save", !.failed = FALSE]
  ELSE [Tried(r, run[r].match) EXCEPT !.kept = run[r].kept]

\* What a run goes on with after dm_match.  An error of the second try is dropped, and the
\* document has no results.
Adopted(r) ==
  IF run[r].failed THEN [run[r] EXCEPT !.pc = "save", !.failed = FALSE]
  ELSE Tried(r, run[r].match)

\* The deferred Remove takes whatever file has that name.
RemoveList(r) ==
  /\ run[r].pc = "remove"
  /\ list' = [list EXCEPT ![File(run[r].doc)] = Unset]
  /\ IF run[r].failed /\ ~SecondTry(r)
       THEN Requeue(r)
       ELSE Goes(r, Adopted(r)) /\ UNCHANGED owner
  /\ UNCHANGED <<paper, viewed, masters, result, budgets>>

Conclusion(r) ==
  IF Seen(r, run[r].kept).name = Unset THEN "NeedsReview"
  ELSE Decide(run[r].match.score, run[r].match.partner # Unset, Rule(run[r].rule))

\* The row: the kept reading's fields and number, the match, and why.
Saved(r) ==
  [decision |-> DbDecision(Conclusion(r)),
   kept     |-> run[r].kept,
   number   |-> Evaluate(Seen(r, run[r].kept).text),
   match    |-> run[r].match,
   partner  |-> IF Conclusion(r) = "Reject" THEN Unset ELSE run[r].match.partner,
   rule     |-> run[r].rule]

\* SaveResult: refused for a run that lost its job; an automatic approval without a
\* row of thresholds violates a constraint.
Save(r) ==
  /\ run[r].pc = "save"
  /\ IF owner[run[r].doc] # r
       THEN Ends(r) /\ UNCHANGED <<owner, result>>
     ELSE IF Conclusion(r) = "AutoApprove" /\ run[r].rule = 0
       THEN Requeue(r) /\ UNCHANGED result
     ELSE /\ result' = [result EXCEPT ![run[r].doc] = Saved(r)]
          /\ owner' = [owner EXCEPT ![run[r].doc] = "done"]
          /\ Ends(r)
  /\ UNCHANGED <<paper, viewed, masters, list, budgets>>

\* Preprocessing, reading, normalizing or a query fails: in the second try only the
\* try is given up.
Fails(r) ==
  /\ run[r].pc \in {"read", "lookup", "write", "save"}
  /\ IF SecondTry(r) /\ run[r].pc # "save"
       THEN Goes(r, At(r, "save")) /\ UNCHANGED owner
       ELSE Requeue(r)
  /\ UNCHANGED <<paper, viewed, masters, list, result, budgets>>

\* dm_match fails.
MatchFails(r) ==
  /\ run[r].pc = "match"
  /\ Goes(r, [run[r] EXCEPT !.pc = "remove", !.failed = TRUE])
  /\ UNCHANGED <<paper, viewed, masters, owner, list, result, budgets>>

\* The process ends in the middle: the job stays locked, the file stays.
Dies(r) ==
  /\ run[r].pc # "idle"
  /\ Ends(r)
  /\ UNCHANGED <<paper, viewed, masters, owner, list, result, budgets>>

-----------------------------------------------------------------------------
(* People.                                                                 *)

Teach(p, n) ==
  /\ changes < MaxChanges /\ changes' = changes + 1
  /\ n \notin NamesOf(p, taught)
  /\ taught' = taught \cup {<<p, n>>} /\ everTaught' = everTaught \cup {<<p, n>>}
  /\ UNCHANGED <<paper, viewed, rules, owner, list, run, result, starts, lapses>>

Forget(p, n) ==
  /\ changes < MaxChanges /\ changes' = changes + 1
  /\ <<p, n>> \in taught
  /\ taught' = taught \ {<<p, n>>}
  /\ UNCHANGED <<paper, viewed, rules, everTaught, owner, list, run, result, starts, lapses>>

SetRule(t) ==
  /\ changes < MaxChanges /\ changes' = changes + 1
  /\ rules' = Append(rules, t)
  /\ UNCHANGED <<paper, viewed, taught, everTaught, owner, list, run, result, starts, lapses>>

Step(r) ==
  \/ \E d \in Docs : Start(r, d)
  \/ Read(r) \/ ReadAgain(r) \/ Lookup(r) \/ Retry(r)
  \/ WriteList(r) \/ Match(r) \/ RemoveList(r) \/ Save(r)
  \/ Fails(r) \/ MatchFails(r) \/ Dies(r)

Next ==
  \/ \E r \in Runs : Step(r)
  \/ \E p \in Partners, n \in Names : Teach(p, n) \/ Forget(p, n)
  \/ \E t \in Rules : SetRule(t)

Spec == Init /\ [][Next]_vars

-----------------------------------------------------------------------------

Stored(d) == result[d] # NoResult
KeptName(d) == paper[d].shows[result[d].kept].name

\* A stored match belongs to the reading it is stored with, although workers whose
\* leases lapsed write and remove files of the same name all the time: its list of
\* candidates had been looked up for a name on this very document, and its score is that
\* of the name the row shows, against a name the partner has or had.
MatchIsOfThisReading ==
  \A d \in Docs : Stored(d) /\ result[d].match.partner # Unset =>
    /\ result[d].match.for \in {paper[d].shows[i].name : i \in Images}
    /\ \E n \in NamesOf(result[d].match.partner, everTaught) :
         result[d].match.score = Alike[KeptName(d), n]

\* No partner's own name can be a result for this one.
Useless(name) == name # Unset => \A p \in Partners : <<name, Canonical[p]>> \notin Near \cap Common

\* What lets the processed image in on paper x, of which workers have read these originals:
\* one of them was useless, or they differ, and one worker's name may have been matched
\* with the list of the other.
LetsIn(x, originals) ==
  \E i, j \in originals : Useless(x.shows[i].name) \/ x.shows[i].name # x.shows[j].name

\* The original image is trusted: a name the processed image gave, which may have lost
\* its ending and be another company's, is kept only if the original was useless as some
\* worker read it, or two workers read it differently.
OriginalIsTrusted ==
  \A d \in Docs : Stored(d) /\ result[d].kept = "processed" => LetsIn(paper[d], viewed[d])

\* An automatic approval can be traced: it names the row of thresholds whose upper
\* bound its score reaches, and a partner, however the thresholds change meanwhile.
AutoIsTraceable ==
  \A d \in Docs : Stored(d) /\ result[d].decision = "auto_approve" =>
    /\ result[d].rule > 0
    /\ result[d].match.score >= rules[result[d].rule].upper
    /\ result[d].partner \in Partners

\* A registration number that passes is the printed one, but for digits that cannot
\* be told apart: one misread digit and one pair of swapped neighbours are seen.  That is
\* so for papers whose printed number has the check digit of a corporate one, and for no
\* more than one error an image.
MisreadIsSeen ==
  \A d \in Docs : Stored(d) /\ result[d].number = "format_ok" =>
    LET read    == Tail(Normalize(paper[d].shows[result[d].kept].text))
        printed == paper[d].printed
    IN  \A i \in 1 .. 13 : read[i] = printed[i] \/ Indistinct(read[i], printed[i])
-----------------------------------------------------------------------------
(* The inductive invariant of the proofs in ReadingProofs.                 *)

\* Candidates stand under names they have or had.
Known(cs, ever) == \A c \in cs : c.names \subseteq NamesOf(c.partner, ever)

\* A match is for a name on paper x, and its score that of the given name.
Fits(match, x, name, ever) ==
  match.partner # Unset =>
    /\ match.for \in {x.shows[i].name : i \in Images}
    /\ \E n \in NamesOf(match.partner, ever) : match.score = Alike[name, n]

\* All partners whose own names come near this one are on the list.
Complete(cs, name) ==
  \A p \in Partners : <<name, Canonical[p]>> \in Near =>
    \E c \in cs : c.partner = p /\ Canonical[p] \in c.names

\* What a run has in its memory, m, fits the paper in front of it.
Sound(m, x, originals, ever) ==
  /\ m.pc \in {"lookup", "retry", "write", "match", "remove"} => x.shows[m.trial].name # Unset
  /\ m.pc \in {"read", "read_again", "retry"} => m.kept # "processed" /\ m.trial = m.kept
  /\ m.pc # "read" => m.kept \in originals \cup {"processed"}
  /\ m.trial \in {m.kept, "processed"}
  /\ m.pc \in {"read_again", "retry"} => LetsIn(x, originals)
  /\ "processed" \in {m.kept, m.trial} => LetsIn(x, originals)
  /\ m.pc \notin {"remove", "save"} => m.match = NoMatch
  /\ m.failed => m.pc = "remove" /\ m.match = NoMatch
  /\ m.pc = "write" => Complete(m.found, x.shows[m.trial].name)
  /\ m.pc = "remove" => /\ Fits(m.match, x, x.shows[m.trial].name, ever)
                        /\ m.match.partner # Unset \/ m.match = NoMatch
                        /\ m.match.partner # Unset \/ m.failed \/ LetsIn(x, originals)
  /\ m.pc = "save" => Fits(m.match, x, x.shows[m.kept].name, ever)
  /\ Known(m.found, ever)

\* A list was made for a name on the paper: for one the original gave, and then it is
\* complete, or for another one that was let in.
SoundList(file, x, originals, ever) ==
  file # Unset =>
    /\ file.for \in {x.shows[i].name : i \in Images}
    /\ Known(file.cands, ever)
    /\ \/ LetsIn(x, originals)
       \/ \E i \in originals : file.for = x.shows[i].name /\ Complete(file.cands, file.for)

ListsAreSound ==
  \A d \in Docs : SoundList(list[File(d)], paper[d], viewed[d], everTaught)

\* A stored row and the thresholds rs.
SoundRow(row, x, originals, ever, rs) ==
  /\ Fits(row.match, x, x.shows[row.kept].name, ever)
  /\ row.number = Evaluate(x.shows[row.kept].text)
  /\ row.kept = "processed" => LetsIn(x, originals)
  /\ row.decision = "auto_approve" =>
       row.rule > 0 /\ row.match.score >= rs[row.rule].upper /\ row.partner \in Partners

IndInv ==
  /\ TypeOK
  /\ \A r \in Runs : run[r].pc # "idle" =>
       Sound(run[r], paper[run[r].doc], viewed[run[r].doc], everTaught)
  /\ ListsAreSound
  /\ \A d \in Docs : result[d] # NoResult =>
       SoundRow(result[d], paper[d], viewed[d], everTaught, rules)
=============================================================================
