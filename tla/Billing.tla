------------------------------- MODULE Billing -------------------------------
(***************************************************************************)
(* The subscriptions of one organization, as Stripe's webhooks report them *)
(* and as the upload of documents asks for them.                           *)
(*                                                                         *)
(* Stripe keeps the true state of each subscription and announces every    *)
(* change.  Announcements arrive in any order, several times, and again    *)
(* after a 5xx answer.  The handler records the event's ID (SeenEvent,     *)
(* committed at once), reads the stored row, and upserts it together with  *)
(* an audit row; handlers of different events run side by side.            *)
(***************************************************************************)
EXTENDS Integers, Sequences, FiniteSets

CONSTANTS
  Subs,       \* stripe_subscription_id
  GraceDays,  \* billing.GraceDays, in ticks of the clock
  MaxEvents,  \* bound: announcements that arrive in any order
  MaxOrdered, \* bound: announcements while each is handled before the next arrives
  MaxTime,    \* bound: ticks of the clock
  MaxFaults   \* bound: handlings that fail although the database would accept them

ASSUME GraceIsADuration == GraceDays \in Nat \ {0}
ASSUME BoundsAreNaturals == {MaxEvents, MaxOrdered, MaxTime, MaxFaults} \subseteq Nat

VARIABLES
  \* Stripe
  real,       \* the state of each subscription
  events,     \* announcements, in the order in which they came about
  \* one handler per event: SeenEvent lets no second one begin
  step,       \* how far the handling of each event has come
  before,     \* the status the handler has read
  \* tables subscriptions, organizations, audit_logs
  row,
  customerKnown,  \* organizations.stripe_customer_id is set
  logged,     \* the status in the last audit row of each subscription
  times,      \* audit rows per event
  \* history, clock, budget
  delivery,   \* "ordered" while every event has come in its turn and none has failed
  now,
  faults

stripeVars == <<real, events>>
dbVars     == <<row, customerKnown, logged, times>>
vars       == <<stripeVars, step, before, dbVars, delivery, now, faults>>

Entitled == {"active", "trialing"}
Owing    == {"past_due", "unpaid"}
Over     == {"canceled", "incomplete_expired"}
Statuses == Entitled \cup Owing \cup Over \cup {"incomplete"}
NoGrace  == -1
NoRow    == [status |-> "no_row", grace |-> NoGrace]

\* subscription.created, .updated and .deleted carry a status, invoices do not.
Kinds   == {"status", "failed", "paid"}
Event   == [sub : Subs, kind : {"status"}, status : Statuses]
             \cup [sub : Subs, kind : Kinds \ {"status"}, status : {""}]
Handled == {"applied", "unidentified", "dropped"}
Steps   == {"sent", "seen", "read", "failed"} \cup Handled

Grace == {NoGrace} \cup Nat

TypeOK ==
  /\ real \in [Subs -> Statuses \cup {"none"}]
  /\ events \in Seq(Event)
  /\ step \in [DOMAIN events -> Steps]
  /\ before \in [DOMAIN events -> Statuses \cup {"no_row"}]
  /\ row \in [Subs -> [status : Statuses, grace : Grace] \cup {NoRow}]
  /\ customerKnown \in BOOLEAN
  /\ logged \in [Subs -> Statuses \cup {"no_row"}]
  /\ times \in [DOMAIN events -> Nat]
  /\ delivery \in {"ordered", "disordered"}
  /\ now \in Nat /\ faults \in Nat

Init ==
  /\ real = [s \in Subs |-> "none"]
  /\ events = <<>> /\ step = <<>> /\ before = <<>> /\ times = <<>>
  /\ row = [s \in Subs |-> NoRow]
  /\ customerKnown = FALSE
  /\ logged = [s \in Subs |-> "no_row"]
  /\ delivery = "ordered"
  /\ now = 0 /\ faults = 0

-----------------------------------------------------------------------------
(* Stripe and the customer.                                                *)

StatusEvent(s, status) == [sub |-> s, kind |-> "status", status |-> status]
InvoiceEvent(s, kind)  == [sub |-> s, kind |-> kind, status |-> ""]

\* What is known per event, extended to the new events.
Extended(f, initially) ==
  [e \in DOMAIN events' |-> IF e \in DOMAIN events THEN f[e] ELSE initially]

Announce(new) ==
  /\ Len(events) + Len(new) <= IF delivery = "ordered" THEN MaxOrdered ELSE MaxEvents
  /\ events' = events \o new
  /\ step' = Extended(step, "sent")
  /\ before' = Extended(before, "no_row")
  /\ times' = Extended(times, 0)

Becomes(s, status) ==
  /\ real' = [real EXCEPT ![s] = status]
  /\ UNCHANGED <<row, logged, delivery, now>>

\* The organization's page offers the checkout while there is no live contract.
\* billingCheckout stores the customer; if that fails it is only logged.
Subscribe(s, status) ==
  /\ real[s] = "none"
  /\ \A o \in Subs \ {s} : real[o] \in Over \cup {"none"}
  /\ Becomes(s, status)
  /\ Announce(<<StatusEvent(s, status)>>)
  /\ \/ customerKnown' = TRUE /\ UNCHANGED faults
     \/ faults < MaxFaults /\ faults' = faults + 1 /\ UNCHANGED customerKnown

\* An invoice is paid; a change of state is announced before or after the invoice.
Pays(s) ==
  /\ real[s] \notin Over \cup {"none"}
  /\ Becomes(s, "active")
  /\ \/ Announce(<<InvoiceEvent(s, "paid"), StatusEvent(s, "active")>>)
     \/ Announce(<<StatusEvent(s, "active"), InvoiceEvent(s, "paid")>>)
  /\ UNCHANGED <<customerKnown, faults>>

\* A payment or the retry of one fails; an incomplete or unpaid contract stays so.
FailsToPay(s) ==
  /\ real[s] \notin Over \cup {"none"}
  /\ IF real[s] \in Entitled
     THEN /\ Becomes(s, "past_due")
          /\ \/ Announce(<<InvoiceEvent(s, "failed"), StatusEvent(s, "past_due")>>)
             \/ Announce(<<StatusEvent(s, "past_due"), InvoiceEvent(s, "failed")>>)
     ELSE /\ Becomes(s, real[s])
          /\ Announce(<<InvoiceEvent(s, "failed")>>)
  /\ UNCHANGED <<customerKnown, faults>>

\* The customer cancels, or Stripe gives up collecting.
Ends(s, status) ==
  /\ \/ status = "canceled" /\ real[s] \notin Over \cup {"none"}
     \/ status = "unpaid" /\ real[s] = "past_due"
     \/ status = "incomplete_expired" /\ real[s] = "incomplete"
  /\ Becomes(s, status)
  /\ Announce(<<StatusEvent(s, status)>>)
  /\ UNCHANGED <<customerKnown, faults>>

Tick ==
  /\ now < MaxTime
  /\ now' = now + 1
  /\ UNCHANGED <<stripeVars, step, before, dbVars, delivery, faults>>

-----------------------------------------------------------------------------
(* The webhook.                                                            *)

ReceivableAgain(e) == step[e] \in {"sent", "applied"}

\* INSERT INTO stripe_events ... ON CONFLICT DO NOTHING lets an event in once.
Receivable(e) == step[e] = "sent"

Finished == {"failed"} \cup Handled
InTurn(e) == \A f \in 1 .. e - 1 : step[f] \in Finished

\* SeenEvent, a transaction of its own.
Receive(e) ==
  /\ Receivable(e)
  /\ IF InTurn(e) THEN UNCHANGED delivery
     ELSE Len(events) <= MaxEvents /\ delivery' = "disordered"
  /\ step' = [step EXCEPT ![e] = "seen"]
  /\ UNCHANGED <<stripeVars, before, dbVars, now, faults>>

\* Stripe sends an event again that was answered with a 5xx, and gets a 200.
Resent(e) ==
  /\ step[e] = "failed"
  /\ step' = [step EXCEPT ![e] = "dropped"]
  /\ UNCHANGED <<stripeVars, before, dbVars, delivery, now, faults>>

\* Subscriptions carry the organization in their metadata; for an invoice the
\* customer must be known, from the organization or from an earlier contract.
Identified(e) ==
  events[e].kind = "status" \/ customerKnown \/ \E s \in Subs : row[s] # NoRow

Unidentified(e) ==
  /\ step[e] = "seen" /\ ~Identified(e)
  /\ step' = [step EXCEPT ![e] = "unidentified"]
  /\ UNCHANGED <<stripeVars, before, dbVars, delivery, now, faults>>

\* ApplySubscription begins: the row is read without a lock.
ReadBefore(e) ==
  /\ step[e] = "seen" /\ Identified(e)
  /\ step' = [step EXCEPT ![e] = "read"]
  /\ before' = [before EXCEPT ![e] = row[events[e].sub].status]
  /\ UNCHANGED <<stripeVars, dbVars, delivery, now, faults>>

FromInvoiceAlways(e) == IF events[e].kind = "failed" THEN "past_due" ELSE "active"

\* The stored status as the invoice found it, then what the invoice says of it.
Known(e) == IF before[e] = "no_row" THEN "active" ELSE before[e]

FromInvoiceKeepingActive(e) ==
  IF events[e].kind = "paid" /\ Known(e) \in Owing THEN "active" ELSE Known(e)

FromInvoice(e) ==
  CASE events[e].kind = "failed" /\ Known(e) \in Entitled -> "past_due"
    [] events[e].kind = "paid"   /\ Known(e) \in Owing    -> "active"
    [] OTHER                                              -> Known(e)

AnnouncedAsSent(e) == events[e].status

Announced(e) == IF events[e].kind = "status" THEN events[e].status ELSE FromInvoice(e)

StatusOverwritten(s, announced) == announced

\* A canceled contract stays canceled.
NewStatus(s, announced) == IF row[s].status = "canceled" THEN "canceled" ELSE announced

\* A payment ends the grace, a failure begins it unless it has begun.
NewGrace(e) ==
  LET old == row[events[e].sub].grace IN
  CASE events[e].kind = "paid" \/ events[e].status = "active" -> NoGrace
    [] events[e].kind = "failed" /\ old = NoGrace             -> now + GraceDays
    [] OTHER                                                  -> old

Live(status) == status \notin Over \cup {"no_row"}

\* subscriptions_one_active_per_org
Conflicts(s, status) == Live(status) /\ \E o \in Subs \ {s} : Live(row[o].status)

\* The upsert and the audit row, in one transaction.
Apply(e) ==
  LET s == events[e].sub IN
  /\ step[e] = "read"
  /\ ~Conflicts(s, NewStatus(s, Announced(e)))
  /\ row' = [row EXCEPT ![s] = [status |-> NewStatus(s, Announced(e)), grace |-> NewGrace(e)]]
  /\ logged' = [logged EXCEPT ![s] = Announced(e)]
  /\ times' = [times EXCEPT ![e] = @ + 1]
  /\ step' = [step EXCEPT ![e] = "applied"]
  /\ UNCHANGED <<stripeVars, before, customerKnown, delivery, now, faults>>

\* The unique index refuses the row: 500.
Refused(e) ==
  /\ step[e] = "read"
  /\ Conflicts(events[e].sub, NewStatus(events[e].sub, Announced(e)))
  /\ step' = [step EXCEPT ![e] = "failed"]
  /\ UNCHANGED <<stripeVars, before, dbVars, delivery, now, faults>>

\* The server dies or the database fails between SeenEvent and the commit.
Fault(e) ==
  /\ step[e] \in {"seen", "read"}
  /\ Len(events) <= MaxEvents
  /\ faults < MaxFaults
  /\ faults' = faults + 1
  /\ delivery' = "disordered"
  /\ step' = [step EXCEPT ![e] = "failed"]
  /\ UNCHANGED <<stripeVars, before, dbVars, now>>

-----------------------------------------------------------------------------

Handle(e) ==
  \/ Receive(e) \/ Resent(e) \/ Unidentified(e) \/ ReadBefore(e)
  \/ Apply(e) \/ Refused(e) \/ Fault(e)

Next ==
  \/ \E s \in Subs, status \in Entitled \cup {"incomplete"} : Subscribe(s, status)
  \/ \E s \in Subs : Pays(s) \/ FailsToPay(s)
  \/ \E s \in Subs, status \in {"canceled", "unpaid", "incomplete_expired"} : Ends(s, status)
  \/ Tick
  \/ \E e \in DOMAIN events : Handle(e)

Spec == Init /\ [][Next]_vars

-----------------------------------------------------------------------------
(* The decision about uploads.                                             *)

\* billing.Evaluate of a row at the present time, for an organization that is not
\* exempt; a paused contract and one in an unknown state are not among Statuses.
Evaluate(sub) ==
  \/ sub.status \in Entitled
  \/ sub.status \in Owing /\ sub.grace # NoGrace /\ now < sub.grace

\* LoadBilling takes the live contract; checkCanUpload asks Evaluate about it.
CanUpload == \E s \in Subs : Live(row[s].status) /\ Evaluate(row[s])

-----------------------------------------------------------------------------
(* What holds in whatever order announcements come, and however often.     *)

\* ApplySubscription: a canceled contract is not revived by older news, so an
\* office that has canceled cannot go on uploading.
CanceledForGood ==
  [][\A s \in Subs : row[s].status = "canceled" => row'[s].status = "canceled"]_vars

\* ApplySubscription: there is no row that is active and has a grace, which would
\* pass Evaluate for ever once the grace is over.
ActiveHasNoGrace == \A s \in Subs : row[s].status = "active" => row[s].grace = NoGrace

\* Retries of a failed payment do not move the end of the grace: it only ends.
GraceNotExtended ==
  [][\A s \in Subs : row[s].grace # NoGrace => row'[s].grace \in {row[s].grace, NoGrace}]_vars

\* SeenEvent: however often an event is sent, it leaves at most one audit row.
OneAuditRowPerEvent == \A e \in DOMAIN events : times[e] <= 1

-----------------------------------------------------------------------------
(* What holds if announcements arrive in order and no handling fails.      *)

\* Once everything announced is handled, the stored contract is Stripe's; who has paid
\* can upload, and who owes has been given a grace.
SettledMatchesStripe ==
  delivery = "ordered" /\ (\A e \in DOMAIN events : step[e] \in Finished) =>
    \A s \in Subs :
      /\ real[s] # "none" => row[s].status = real[s]
      /\ real[s] \in Entitled => CanUpload
      /\ real[s] = "past_due" => row[s].grace # NoGrace

-----------------------------------------------------------------------------
(* What comments say and the code does not keep.                           *)

\* billingWebhook: a 5xx makes Stripe send the event again, so that it is not lost.
FailedIsNotLost == \A e \in DOMAIN events : step[e] # "dropped"

-----------------------------------------------------------------------------
(* The inductive invariant of the proofs in BillingProofs.                 *)

\* An event that is still to be received or applied has left no audit row.
UnappliedUnlogged ==
  \A e \in DOMAIN events : times[e] = (IF step[e] = "applied" THEN 1 ELSE 0)

IndInv == TypeOK /\ ActiveHasNoGrace /\ UnappliedUnlogged
=============================================================================
