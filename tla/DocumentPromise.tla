--------------------------- MODULE DocumentPromise ---------------------------
(***************************************************************************)
(* What the queue promises to the people who upload documents: a document  *)
(* that was handed in is judged by the machine once, or given up; from     *)
(* then on only people change the verdict; and every document gets there.  *)
(* Workers, leases and retries do not appear.                              *)
(***************************************************************************)
CONSTANTS
  Docs, Users,
  NoOne,             \* the decider of a machine verdict
  MachineDecisions,  \* what the machine may decide
  HumanDecisions     \* what a person may decide

VARIABLES
  phase,    \* "absent", "queued", "judged" or "abandoned"
  verdict   \* the decision in force and who took it

vars == <<phase, verdict>>

Undecided == [decision |-> "none", by |-> NoOne]

Init ==
  /\ phase = [d \in Docs |-> "absent"]
  /\ verdict = [d \in Docs |-> Undecided]

Submit(batch) ==
  /\ \A d \in batch : phase[d] = "absent"
  /\ phase' = [d \in Docs |-> IF d \in batch THEN "queued" ELSE phase[d]]
  /\ UNCHANGED verdict

Judge(d, decision) ==
  /\ phase[d] = "queued"
  /\ phase' = [phase EXCEPT ![d] = "judged"]
  /\ verdict' = [verdict EXCEPT ![d] = [decision |-> decision, by |-> NoOne]]

GiveUp(d) ==
  /\ phase[d] = "queued"
  /\ phase' = [phase EXCEPT ![d] = "abandoned"]
  /\ UNCHANGED verdict

Decide(d, u, decision) ==
  /\ phase[d] = "judged"
  /\ verdict' = [verdict EXCEPT ![d] = [decision |-> decision, by |-> u]]
  /\ UNCHANGED phase

Settle(d) == GiveUp(d) \/ \E decision \in MachineDecisions : Judge(d, decision)

Next ==
  \/ \E batch \in SUBSET Docs : Submit(batch)
  \/ \E d \in Docs : Settle(d)
  \/ \E d \in Docs, u \in Users, decision \in HumanDecisions : Decide(d, u, decision)

Spec == Init /\ [][Next]_vars /\ \A d \in Docs : WF_vars(Settle(d))
=============================================================================
