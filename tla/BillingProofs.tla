---------------------------- MODULE BillingProofs ----------------------------
(***************************************************************************)
(* What Billing keeps for any number of contracts, announcements and       *)
(* faults, any length of the grace, and any order of the handlers.         *)
(***************************************************************************)
EXTENDS Billing, SequenceTheorems, TLAPS

\* Announcements are appended unhandled; what is known of earlier ones stays.
LEMMA Announcing ==
  ASSUME TypeOK, NEW new \in Seq(Event), Announce(new)
  PROVE  /\ events' \in Seq(Event)
         /\ step' \in [DOMAIN events' -> Steps]
         /\ before' \in [DOMAIN events' -> Statuses \cup {"no_row"}]
         /\ times' \in [DOMAIN events' -> Nat]
         /\ \A e \in DOMAIN events' : IF e \in DOMAIN events
              THEN step'[e] = step[e] /\ times'[e] = times[e]
              ELSE step'[e] = "sent" /\ times'[e] = 0
<1>1. events' \in Seq(Event)
  BY ConcatProperties DEF TypeOK, Announce
<1>2. /\ step' \in [DOMAIN events' -> Steps]
      /\ before' \in [DOMAIN events' -> Statuses \cup {"no_row"}]
      /\ times' \in [DOMAIN events' -> Nat]
  BY DEF TypeOK, Announce, Extended, Steps
<1>3. QED
  BY <1>1, <1>2 DEF Announce, Extended
\* What Stripe and the customer do announces events and writes no row.
OnlyAnnounces ==
  /\ \E new \in Seq(Event) : Announce(new)
  /\ real' \in [Subs -> Statuses \cup {"none"}]
  /\ customerKnown' \in BOOLEAN /\ faults' \in Nat
  /\ UNCHANGED <<row, logged, delivery, now>>

\* The announcements of Stripe are events.
LEMMA EventsAreEvents ==
  ASSUME NEW s \in Subs
  PROVE  /\ \A status \in Statuses : StatusEvent(s, status) \in Event
         /\ \A kind \in {"failed", "paid"} : InvoiceEvent(s, kind) \in Event
  BY DEF StatusEvent, InvoiceEvent, Event, Kinds

\* One event, or two, make a sequence of events.
LEMMA PairsAreSequences ==
  \A x, y \in Event : <<x>> \in Seq(Event) /\ <<x, y>> \in Seq(Event)
  OBVIOUS

\* The states of a contract, listed.
LEMMA StatusesAreStatuses ==
  {"active", "trialing", "past_due", "unpaid", "canceled", "incomplete_expired", "incomplete"}
    = Statuses
  BY DEF Statuses, Entitled, Owing, Over

\* A subscription announces one event.
LEMMA Subscribing ==
  ASSUME TypeOK, NEW s \in Subs, NEW status \in Entitled \cup {"incomplete"}, Subscribe(s, status)
  PROVE  OnlyAnnounces
<1>1. status \in Statuses
  BY DEF Statuses
<1>2. <<StatusEvent(s, status)>> \in Seq(Event)
  BY <1>1, EventsAreEvents, PairsAreSequences
<1>3. \E new \in Seq(Event) : Announce(new)
  BY <1>2 DEF Subscribe
<1>4. customerKnown' \in BOOLEAN /\ faults' \in Nat
  <2>1. customerKnown' \in BOOLEAN
    BY Zenon DEF Subscribe, TypeOK
  <2>2. faults' \in Nat
    BY DEF Subscribe, TypeOK
  <2>3. QED
    BY <2>1, <2>2
<1>5. real' \in [Subs -> Statuses \cup {"none"}] /\ UNCHANGED <<row, logged, delivery, now>>
  BY <1>1 DEF Subscribe, Becomes, TypeOK
<1>6. QED
  BY <1>3, <1>4, <1>5 DEF OnlyAnnounces

\* A paid invoice announces itself and the new state, in either order.
LEMMA Paying ==
  ASSUME TypeOK, NEW s \in Subs, Pays(s)
  PROVE  OnlyAnnounces
<1>1. /\ <<InvoiceEvent(s, "paid"), StatusEvent(s, "active")>> \in Seq(Event)
      /\ <<StatusEvent(s, "active"), InvoiceEvent(s, "paid")>> \in Seq(Event)
  BY EventsAreEvents, PairsAreSequences, StatusesAreStatuses
<1>2. QED
  BY <1>1, StatusesAreStatuses DEF OnlyAnnounces, Pays, Becomes, TypeOK

\* A failed payment announces itself and, if it changes, the new state.
LEMMA FailingToPay ==
  ASSUME TypeOK, NEW s \in Subs, FailsToPay(s)
  PROVE  OnlyAnnounces
<1>1. /\ <<InvoiceEvent(s, "failed"), StatusEvent(s, "past_due")>> \in Seq(Event)
      /\ <<StatusEvent(s, "past_due"), InvoiceEvent(s, "failed")>> \in Seq(Event)
      /\ <<InvoiceEvent(s, "failed")>> \in Seq(Event)
  BY EventsAreEvents, PairsAreSequences, StatusesAreStatuses
<1>2. QED
  BY <1>1, StatusesAreStatuses DEF OnlyAnnounces, FailsToPay, Becomes, TypeOK

\* The end of a contract announces one event.
LEMMA Ending ==
  ASSUME TypeOK, NEW s \in Subs, NEW status \in {"canceled", "unpaid", "incomplete_expired"},
         Ends(s, status)
  PROVE  OnlyAnnounces
<1>1. <<StatusEvent(s, status)>> \in Seq(Event)
  BY EventsAreEvents, PairsAreSequences, StatusesAreStatuses
<1>2. QED
  BY <1>1, StatusesAreStatuses DEF OnlyAnnounces, Ends, Becomes, TypeOK

-----------------------------------------------------------------------------

\* Nothing is announced and nothing stored.
LEMMA Initially == Init => IndInv
<1> SUFFICES ASSUME Init PROVE IndInv
  OBVIOUS
<1> USE DEF Init
<1>1. events \in Seq(Event) /\ DOMAIN events = 1 .. 0
  BY EmptySeq, LenProperties
<1>2. \A S : <<>> \in [1 .. 0 -> S]
  BY EmptySeq, LenProperties
<1>3. TypeOK
  <2>1. /\ step \in [DOMAIN events -> Steps]
        /\ before \in [DOMAIN events -> Statuses \cup {"no_row"}]
        /\ times \in [DOMAIN events -> Nat]
    BY <1>1, <1>2
  <2>2. QED
    BY <1>1, <2>1 DEF TypeOK, NoRow
<1>4. ActiveHasNoGrace
  BY DEF ActiveHasNoGrace, NoRow
<1>5. UnappliedUnlogged
  BY <1>1 DEF UnappliedUnlogged
<1>6. QED
  BY <1>3, <1>4, <1>5 DEF IndInv

\* Announcements leave rows and audit rows alone.
LEMMA AnnouncingKeepsInv ==
  ASSUME IndInv, OnlyAnnounces
  PROVE  IndInv'
<1> USE DEF IndInv, OnlyAnnounces
<1>1. PICK new \in Seq(Event) : Announce(new)
  OBVIOUS
<1>2. TypeOK'
  BY <1>1, Announcing DEF TypeOK
<1>3. ActiveHasNoGrace'
  BY DEF ActiveHasNoGrace
<1>4. UnappliedUnlogged'
  BY <1>1, Announcing DEF UnappliedUnlogged
<1>5. QED
  BY <1>2, <1>3, <1>4

\* The status an event is taken to announce, and when that is active.
LEMMA Announcements ==
  ASSUME TypeOK, NEW e \in DOMAIN events
  PROVE  /\ events[e] \in Event /\ events[e].sub \in Subs
         /\ Announced(e) \in Statuses
         /\ Announced(e) = "active" => events[e].kind = "paid" \/ events[e].status = "active"
<1>1. events[e] \in Event
  BY ElementOfSeq, LenProperties DEF TypeOK
<1>2. before[e] \in Statuses \cup {"no_row"}
  BY DEF TypeOK
<1>3. QED
  BY <1>1, <1>2 DEF Event, Kinds, Announced, FromInvoice, Known, Statuses, Entitled, Owing, Over

\* The steps of a handler that write nothing but how far it has come.
LEMMA HandlingKeepsInv ==
  ASSUME IndInv, NEW e \in DOMAIN events,
         \/ Receive(e) \/ Resent(e) \/ Unidentified(e) \/ ReadBefore(e)
         \/ Refused(e) \/ Fault(e)
  PROVE  IndInv'
<1> USE DEF IndInv, Receive, Receivable, Resent, Unidentified, ReadBefore, Refused, Fault,
            stripeVars, dbVars
<1>1. row[events[e].sub].status \in Statuses \cup {"no_row"}
  BY Announcements DEF TypeOK, NoRow
<1>2. /\ step' \in [DOMAIN events' -> Steps]
      /\ before' \in [DOMAIN events' -> Statuses \cup {"no_row"}]
      /\ faults' \in Nat
  <2>1. CASE ReadBefore(e)
    BY <1>1, <2>1 DEF TypeOK, Steps, Handled
  <2>2. CASE ~ReadBefore(e)
    <3>1. before' = before /\ faults' \in Nat
      BY <2>2 DEF TypeOK
    <3>2. \E to \in Steps : step' = [step EXCEPT ![e] = to]
      BY DEF Steps, Handled
    <3>3. QED
      BY <3>1, <3>2 DEF TypeOK
  <2>3. QED
    BY <2>1, <2>2
<1>3. TypeOK'
  BY <1>2 DEF TypeOK
<1>4. ActiveHasNoGrace'
  BY DEF ActiveHasNoGrace
<1>5. UnappliedUnlogged'
  BY DEF UnappliedUnlogged, TypeOK
<1>6. QED
  BY <1>3, <1>4, <1>5

\* Apply writes an active row without a grace and logs its event once.
LEMMA ApplyingKeepsInv ==
  ASSUME IndInv, NEW e \in DOMAIN events, Apply(e)
  PROVE  IndInv'
<1> DEFINE s == events[e].sub
<1> USE DEF IndInv
<1>1. s \in Subs /\ Announced(e) \in Statuses
  BY Announcements
<1>2. NewStatus(s, Announced(e)) \in Statuses
  BY <1>1 DEF NewStatus, Statuses, Over
<1>3. NewGrace(e) \in Grace
  BY <1>1, GraceIsADuration DEF NewGrace, Grace, TypeOK, NoRow
<1>4. TypeOK'
  <2>1. e \in Nat
    BY LenProperties DEF TypeOK
  <2>2. row' \in [Subs -> [status : Statuses, grace : Grace] \cup {NoRow}]
    BY <1>1, <1>2, <1>3 DEF Apply, TypeOK
  <2>3. QED
    BY <1>1, <2>1, <2>2 DEF Apply, TypeOK, stripeVars, Steps, Handled
<1>5. ActiveHasNoGrace'
  <2>1. NewStatus(s, Announced(e)) = "active" => NewGrace(e) = NoGrace
    <3>1. events[e].kind = "paid" \/ events[e].status = "active" => NewGrace(e) = NoGrace
      BY Announcements DEF NewGrace, Event, Kinds
    <3>2. NewStatus(s, Announced(e)) = "active" => Announced(e) = "active"
      BY DEF NewStatus
    <3>3. QED
      BY <3>1, <3>2, Announcements
  <2>2. QED
    BY <1>1, <2>1 DEF Apply, ActiveHasNoGrace, TypeOK
<1>6. UnappliedUnlogged'
  BY DEF Apply, UnappliedUnlogged, TypeOK, stripeVars
<1>7. QED
  BY <1>4, <1>5, <1>6

\* Every step keeps the invariant.
LEMMA StepKeepsInv == IndInv /\ [Next]_vars => IndInv'
<1> SUFFICES ASSUME IndInv, [Next]_vars PROVE IndInv'
  OBVIOUS
<1>1. CASE \E s \in Subs, status \in Entitled \cup {"incomplete"} : Subscribe(s, status)
  BY <1>1, Subscribing, AnnouncingKeepsInv DEF IndInv
<1>2. CASE \E s \in Subs : Pays(s) \/ FailsToPay(s)
  BY <1>2, Paying, FailingToPay, AnnouncingKeepsInv DEF IndInv
<1>3. CASE \E s \in Subs, status \in {"canceled", "unpaid", "incomplete_expired"} : Ends(s, status)
  BY <1>3, Ending, AnnouncingKeepsInv DEF IndInv
<1>4. CASE Tick
  BY <1>4 DEF Tick, IndInv, TypeOK, ActiveHasNoGrace, UnappliedUnlogged, stripeVars, dbVars
<1>5. CASE \E e \in DOMAIN events : Handle(e)
  BY <1>5, HandlingKeepsInv, ApplyingKeepsInv DEF Handle
<1>6. CASE UNCHANGED vars
  BY <1>6 DEF vars, IndInv, TypeOK, ActiveHasNoGrace, UnappliedUnlogged, stripeVars, dbVars
<1>7. QED
  BY <1>1, <1>2, <1>3, <1>4, <1>5, <1>6 DEF Next

\* The inductive invariant: types, no grace on an active contract, and an audit row
\* exactly for the events that were applied.
THEOREM Invariance == Spec => []IndInv
<1>1. QED
  BY Initially, StepKeepsInv, PTL DEF Spec

\* Every variable of the webhook and its tables keeps its type.
THEOREM TypeCorrect == Spec => []TypeOK
<1>1. IndInv => TypeOK
  BY DEF IndInv
<1>2. QED
  BY <1>1, Invariance, PTL

\* However announcements are ordered and handled, no active contract has a grace.
THEOREM ActiveIsUngraced == Spec => []ActiveHasNoGrace
<1>1. IndInv => ActiveHasNoGrace
  BY DEF IndInv
<1>2. QED
  BY <1>1, Invariance, PTL

\* However often an event is sent, it leaves at most one audit row.
THEOREM LoggedOnce == Spec => []OneAuditRowPerEvent
<1>1. IndInv => OneAuditRowPerEvent
  BY DEF IndInv, UnappliedUnlogged, OneAuditRowPerEvent
<1>2. QED
  BY <1>1, Invariance, PTL

-----------------------------------------------------------------------------

\* Only Apply writes rows.
LEMMA RowsChangeByApply ==
  ASSUME IndInv, [Next]_vars
  PROVE  row' = row \/ \E e \in DOMAIN events : Apply(e)
<1>1. CASE \E s \in Subs, status \in Entitled \cup {"incomplete"} : Subscribe(s, status)
  BY <1>1 DEF Subscribe, Becomes
<1>2. CASE \E s \in Subs : Pays(s) \/ FailsToPay(s)
  BY <1>2 DEF Pays, FailsToPay, Becomes
<1>3. CASE \E s \in Subs, status \in {"canceled", "unpaid", "incomplete_expired"} : Ends(s, status)
  BY <1>3 DEF Ends, Becomes
<1>4. CASE Tick
  BY <1>4 DEF Tick, dbVars
<1>5. CASE \E e \in DOMAIN events : Handle(e)
  BY <1>5 DEF Handle, Receive, Resent, Unidentified, ReadBefore, Refused, Fault, dbVars
<1>6. CASE UNCHANGED vars
  BY <1>6 DEF vars, dbVars
<1>7. QED
  BY <1>1, <1>2, <1>3, <1>4, <1>5, <1>6 DEF Next

\* No announcement revives a canceled contract.
THEOREM CanceledStays == Spec => CanceledForGood
<1>1. ASSUME IndInv, [Next]_vars, NEW s \in Subs, row[s].status = "canceled"
      PROVE  row'[s].status = "canceled"
  <2>1. CASE row' = row
    BY <1>1, <2>1
  <2>2. ASSUME NEW e \in DOMAIN events, Apply(e)
        PROVE  row'[s].status = "canceled"
    BY <1>1, <2>2, Announcements DEF IndInv, Apply, NewStatus, TypeOK
  <2>3. QED
    BY <1>1, <2>1, <2>2, RowsChangeByApply
<1>2. IndInv /\ [Next]_vars
      => [\A s \in Subs : row[s].status = "canceled" => row'[s].status = "canceled"]_vars
  BY <1>1
<1>3. QED
  BY <1>2, Invariance, PTL DEF Spec, CanceledForGood

\* A grace that has begun ends with a payment or keeps its end; it is never moved.
THEOREM GraceStays == Spec => GraceNotExtended
<1>1. ASSUME IndInv, [Next]_vars, NEW s \in Subs, row[s].grace # NoGrace
      PROVE  row'[s].grace \in {row[s].grace, NoGrace}
  <2>1. CASE row' = row
    BY <1>1, <2>1
  <2>2. ASSUME NEW e \in DOMAIN events, Apply(e)
        PROVE  row'[s].grace \in {row[s].grace, NoGrace}
    BY <1>1, <2>2, Announcements DEF IndInv, Apply, NewGrace, TypeOK
  <2>3. QED
    BY <1>1, <2>1, <2>2, RowsChangeByApply
<1>2. IndInv /\ [Next]_vars
      => [\A s \in Subs : row[s].grace # NoGrace
                           => row'[s].grace \in {row[s].grace, NoGrace}]_vars
  BY <1>1
<1>3. QED
  BY <1>2, Invariance, PTL DEF Spec, GraceNotExtended

-----------------------------------------------------------------------------
(* Announcements in order.                                                 *)

\* A row, of whose grace only matters that there is one.
Sketch(r) == [status |-> r.status, grace |-> IF r.grace = NoGrace THEN "none" ELSE "some"]
Sketches  == [status : Statuses \cup {"no_row"}, grace : {"none", "some"}]

\* What an announcement makes of a row when it is handled in its turn.
Effect(c, event) ==
  [status |-> IF event.kind = "status" /\ c.status # "canceled" THEN event.status
              ELSE IF event.kind = "failed" /\ c.status \in Entitled THEN "past_due"
              ELSE IF event.kind = "paid" /\ c.status \in Owing THEN "active" ELSE c.status,
   grace  |-> IF event.kind = "paid" \/ event.status = "active" THEN "none"
              ELSE IF event.kind = "failed" THEN "some" ELSE c.grace]

\* h is what the rows should be after each of the announcements evs: invoices come for
\* contracts that are known, and there is never more than one live contract.
Foretells(h, evs) ==
  /\ h \in [0 .. Len(evs) -> [Subs -> Sketches]]
  /\ \A e \in 1 .. Len(evs) :
       /\ evs[e].kind # "status" => h[e - 1][evs[e].sub].status # "no_row"
       /\ h[e] = [h[e - 1] EXCEPT ![evs[e].sub] = Effect(h[e - 1][evs[e].sub], evs[e])]
  /\ \A p \in 0 .. Len(evs) : \A s, o \in Subs :
       Live(h[p][s].status) /\ Live(h[p][o].status) => s = o

\* In the end they are what Stripe says.
EndsWith(c, r) ==
  \A s \in Subs : /\ c[s].status = (IF r[s] = "none" THEN "no_row" ELSE r[s])
                  /\ r[s] = "past_due" => c[s].grace = "some"

\* The first n announcements are handled and the next may be on its way; the rows are as
\* foretold.
HandledTo(n, h) ==
  /\ \A e \in 1 .. n : step[e] = "applied"
  /\ \A e \in n + 1 .. Len(events) : step[e] = "sent" \/ (e = n + 1 /\ step[e] \in {"seen", "read"})
  /\ n < Len(events) /\ step[n + 1] = "read" => before[n + 1] = row[events[n + 1].sub].status
  /\ \A s \in Subs : Sketch(row[s]) = h[n][s]

OrderedAsForetold ==
  delivery = "ordered" =>
    \E h \in [0 .. Len(events) -> [Subs -> Sketches]], n \in 0 .. Len(events) :
      Foretells(h, events) /\ EndsWith(h[Len(events)], real) /\ HandledTo(n, h)

\* What an announcement makes of a row, by its kind.
LEMMA Effects ==
  ASSUME NEW c \in Sketches, NEW event \in Event
  PROVE  /\ Effect(c, event) \in Sketches
         /\ event.kind \in Kinds /\ event.sub \in Subs
         /\ event.kind = "status" =>
              /\ Effect(c, event).status = IF c.status = "canceled" THEN "canceled" ELSE event.status
              /\ Effect(c, event).grace = IF event.status = "active" THEN "none" ELSE c.grace
         /\ event.kind = "failed" =>
              /\ Effect(c, event).status = IF c.status \in Entitled THEN "past_due" ELSE c.status
              /\ Effect(c, event).grace = "some"
         /\ event.kind = "paid" =>
              /\ Effect(c, event).status = IF c.status \in Owing THEN "active" ELSE c.status
              /\ Effect(c, event).grace = "none"
<1>1. /\ event.kind \in Kinds /\ event.sub \in Subs
      /\ event.kind = "status" => event.status \in Statuses
      /\ event.kind # "status" => event.status = ""
  BY DEF Event, Kinds
<1>2. c.status \in Statuses \cup {"no_row"} /\ c.grace \in {"none", "some"}
  BY DEF Sketches
<1>3. {"active", "past_due", "canceled"} \subseteq Statuses /\ "canceled" \notin Entitled \cup Owing
  BY DEF Statuses, Entitled, Owing, Over
<1>4. CASE event.kind = "status"
  BY <1>1, <1>2, <1>3, <1>4 DEF Effect, Sketches
<1>5. CASE event.kind = "failed"
  BY <1>1, <1>2, <1>3, <1>5 DEF Effect, Sketches
<1>6. CASE event.kind = "paid"
  BY <1>1, <1>2, <1>3, <1>6 DEF Effect, Sketches
<1>7. QED
  BY <1>1, <1>4, <1>5, <1>6 DEF Kinds

\* The rows c after one more announcement, and when it may come.
After(c, event) == [c EXCEPT ![event.sub] = Effect(c[event.sub], event)]

May(c, event) ==
  /\ event.kind # "status" => c[event.sub].status # "no_row"
  /\ \A o \in Subs \ {event.sub} : Live(After(c, event)[event.sub].status) => ~ Live(c[o].status)

OneLive(c) == \A s, o \in Subs : Live(c[s].status) /\ Live(c[o].status) => s = o

\* One announcement changes the row of its contract only.
LEMMA AfterIs ==
  ASSUME NEW c \in [Subs -> Sketches], NEW event \in Event
  PROVE  /\ After(c, event) \in [Subs -> Sketches]
         /\ After(c, event)[event.sub] = Effect(c[event.sub], event)
         /\ \A o \in Subs \ {event.sub} : After(c, event)[o] = c[o]
<1>1. event.sub \in Subs
  BY DEF Event
<1>2. Effect(c[event.sub], event) \in Sketches
  BY <1>1, Effects
<1>3. QED
  BY <1>1, <1>2 DEF After

\* A story is continued by an announcement that may come.
LEMMA OneMore ==
  ASSUME NEW evs \in Seq(Event), NEW h, Foretells(h, evs),
         NEW event \in Event, May(h[Len(evs)], event)
  PROVE  \E g : /\ Foretells(g, Append(evs, event))
                /\ \A p \in 0 .. Len(evs) : g[p] = h[p]
                /\ g[Len(evs) + 1] = After(h[Len(evs)], event)
<1> DEFINE n == Len(evs)
           more == Append(evs, event)
           next == After(h[n], event)
           g == [p \in 0 .. n + 1 |-> IF p = n + 1 THEN next ELSE h[p]]
<1>1. n \in Nat /\ Len(more) = n + 1 /\ more[n + 1] = event /\ \A e \in 1 .. n : more[e] = evs[e]
  BY AppendProperties, LenProperties
<1>2. h \in [0 .. n -> [Subs -> Sketches]] /\ h[n] \in [Subs -> Sketches]
  BY <1>1 DEF Foretells
<1>3. /\ next \in [Subs -> Sketches] /\ event.sub \in Subs
      /\ \A o \in Subs \ {event.sub} : next[o] = h[n][o]
  BY <1>2, AfterIs, Effects DEF Event
<1>4. OneLive(next)
  <2>1. OneLive(h[n])
    BY <1>1 DEF Foretells, OneLive
  <2>2. QED
    BY <1>3, <2>1 DEF OneLive, May
<1> HIDE DEF n, more, next
<1>5. /\ g \in [0 .. n + 1 -> [Subs -> Sketches]] /\ g[n + 1] = next
      /\ \A p \in 0 .. n : g[p] = h[p]
  BY <1>1, <1>2, <1>3
<1> HIDE DEF g
<1>6. ASSUME NEW e \in 1 .. n + 1
      PROVE  /\ more[e].kind # "status" => g[e - 1][more[e].sub].status # "no_row"
             /\ g[e] = [g[e - 1] EXCEPT ![more[e].sub] = Effect(g[e - 1][more[e].sub], more[e])]
  <2>1. CASE e \in 1 .. n
    <3>1. e - 1 \in 0 .. n /\ e \in 0 .. n
      BY <1>1, <2>1
    <3>2. g[e] = h[e] /\ g[e - 1] = h[e - 1] /\ more[e] = evs[e]
      BY <1>1, <1>5, <2>1, <3>1
    <3>3. QED
      BY <2>1, <3>2 DEF Foretells, n
  <2>2. CASE e = n + 1
    <3>1. g[e] = next /\ g[e - 1] = h[n] /\ more[e] = event
      BY <1>1, <1>5, <2>2
    <3>2. QED
      BY <3>1 DEF May, After, next, n
  <2>3. QED
    BY <1>1, <2>1, <2>2
<1>7. ASSUME NEW p \in 0 .. n + 1 PROVE OneLive(g[p])
  <2>1. CASE p \in 0 .. n
    BY <1>5, <2>1 DEF Foretells, OneLive, n
  <2>2. CASE p = n + 1
    BY <1>4, <1>5, <2>2
  <2>3. QED
    BY <1>1, <2>1, <2>2
<1>8. Foretells(g, more)
  BY <1>1, <1>5, <1>6, <1>7 DEF Foretells, OneLive
<1>9. QED
  BY <1>5, <1>8 DEF n, more, next

\* One or two announcements are appended one after the other.
LEMMA Appending ==
  ASSUME NEW evs \in Seq(Event), NEW a \in Event, NEW b \in Event
  PROVE  /\ evs \o <<a>> = Append(evs, a)
         /\ evs \o <<a, b>> = Append(Append(evs, a), b)
         /\ Append(evs, a) \in Seq(Event)
<1>1. /\ <<a>> \in Seq(Event) /\ <<b>> \in Seq(Event) /\ Append(<<a>>, b) = <<a, b>>
  <2>1. <<a>> \in Seq(Event) /\ <<b>> \in Seq(Event) /\ <<a, b>> \in Seq(Event)
    BY PairsAreSequences
  <2>2. /\ Append(<<a>>, b) \in Seq(Event) /\ Len(Append(<<a>>, b)) = 2 /\ Len(<<a, b>>) = 2
        /\ Append(<<a>>, b)[1] = a /\ Append(<<a>>, b)[2] = b
    BY <2>1
  <2>3. \A i \in 1 .. 2 : Append(<<a>>, b)[i] = <<a, b>>[i]
    BY <2>2
  <2>4. QED
    BY <2>1, <2>2, <2>3, SeqEqual
<1>2. evs \o <<a>> = Append(evs, a) /\ Append(evs, a) \in Seq(Event)
  BY AppendIsConcat, AppendProperties
<1>3. Append(Append(evs, a), b) = (evs \o <<a>>) \o <<b>>
  BY <1>2, AppendIsConcat
<1>4. <<a, b>> = <<a>> \o <<b>>
  BY <1>1, AppendIsConcat
<1>5. (evs \o <<a>>) \o <<b>> = evs \o (<<a>> \o <<b>>)
  BY <1>1, ConcatAssociative
<1>6. QED
  BY <1>2, <1>3, <1>4, <1>5

\* What is announced is foretold too; nothing that was handled changes.
LEMMA AnnouncingAsForetold ==
  ASSUME IndInv, NEW h, Foretells(h, events), NEW n \in 0 .. Len(events), HandledTo(n, h),
         NEW g, NEW new \in Seq(Event), Announce(new), Foretells(g, events'),
         \A p \in 0 .. Len(events) : g[p] = h[p],
         EndsWith(g[Len(events')], real'), UNCHANGED row
  PROVE  OrderedAsForetold'
<1>1. /\ events \in Seq(Event) /\ Len(events) \in Nat /\ DOMAIN events = 1 .. Len(events)
      /\ events' \in Seq(Event) /\ Len(events') \in Nat /\ DOMAIN events' = 1 .. Len(events')
  BY Announcing, LenProperties DEF IndInv, TypeOK
<1>2. Len(events) <= Len(events') /\ \A e \in 1 .. Len(events) : events'[e] = events[e]
  BY <1>1, ConcatProperties, LenProperties DEF Announce
<1>3. /\ \A e \in 1 .. Len(events) : step'[e] = step[e] /\ before'[e] = before[e]
      /\ \A e \in Len(events) + 1 .. Len(events') : step'[e] = "sent"
  BY <1>1, <1>2 DEF Announce, Extended
<1>4. n \in 0 .. Len(events')
  BY <1>1, <1>2
<1>5. HandledTo(n, g)'
  <2>1. \A e \in 1 .. n : step'[e] = "applied"
    BY <1>1, <1>3 DEF HandledTo
  <2>2. ASSUME NEW e \in n + 1 .. Len(events')
        PROVE  step'[e] = "sent" \/ (e = n + 1 /\ step'[e] \in {"seen", "read"})
    <3>1. CASE e \in n + 1 .. Len(events)
      BY <1>1, <1>3, <3>1 DEF HandledTo
    <3>2. CASE e \in Len(events) + 1 .. Len(events')
      BY <1>3, <3>2
    <3>3. QED
      BY <1>1, <1>2, <3>1, <3>2
  <2>3. n < Len(events') /\ step'[n + 1] = "read" => before'[n + 1] = row'[events'[n + 1].sub].status
    <3>1. CASE n < Len(events)
      <4>1. n + 1 \in 1 .. Len(events)
        BY <1>1, <3>1
      <4>2. /\ step'[n + 1] = step[n + 1] /\ before'[n + 1] = before[n + 1]
            /\ events'[n + 1] = events[n + 1]
        BY <1>2, <1>3, <4>1
      <4>3. QED
        BY <3>1, <4>2 DEF HandledTo
    <3>2. CASE ~ (n < Len(events)) /\ n < Len(events')
      <4>1. n + 1 \in Len(events) + 1 .. Len(events')
        BY <1>1, <3>2
      <4>2. QED
        BY <1>3, <4>1
    <3>3. QED
      BY <3>1, <3>2
  <2>4. \A s \in Subs : Sketch(row'[s]) = g[n][s]
    BY <1>1 DEF HandledTo
  <2>5. QED
    BY <2>1, <2>2, <2>3, <2>4 DEF HandledTo
<1>6. g \in [0 .. Len(events') -> [Subs -> Sketches]]
  BY DEF Foretells
<1>7. QED
  BY <1>4, <1>5, <1>6 DEF OrderedAsForetold

\* It is enough that what is announced may come, and ends with what is so at Stripe.
LEMMA TellingAsForetold ==
  ASSUME IndInv, OrderedAsForetold, UNCHANGED <<row, delivery>>,
         \A c \in [Subs -> Sketches] : EndsWith(c, real) /\ OneLive(c) =>
           \/ \E a \in Event : /\ Announce(<<a>>) /\ May(c, a)
                               /\ EndsWith(After(c, a), real')
           \/ \E a, b \in Event : /\ Announce(<<a, b>>) /\ May(c, a) /\ May(After(c, a), b)
                                  /\ EndsWith(After(After(c, a), b), real')
  PROVE  OrderedAsForetold'
<1> SUFFICES ASSUME delivery = "ordered" PROVE OrderedAsForetold'
  BY DEF OrderedAsForetold
<1>1. PICK h \in [0 .. Len(events) -> [Subs -> Sketches]], n \in 0 .. Len(events) :
        Foretells(h, events) /\ EndsWith(h[Len(events)], real) /\ HandledTo(n, h)
  BY DEF OrderedAsForetold
<1> DEFINE c == h[Len(events)]
<1>2. events \in Seq(Event) /\ Len(events) \in Nat
  BY LenProperties DEF IndInv, TypeOK
<1>3. c \in [Subs -> Sketches] /\ EndsWith(c, real) /\ OneLive(c)
  BY <1>1, <1>2 DEF Foretells, OneLive
<1>4. ASSUME NEW a \in Event, Announce(<<a>>), May(c, a), EndsWith(After(c, a), real')
      PROVE  OrderedAsForetold'
  <2>1. events' = Append(events, a) /\ Len(events') = Len(events) + 1 /\ <<a>> \in Seq(Event)
    BY <1>2, <1>4, Appending, AppendProperties, PairsAreSequences DEF Announce
  <2>2. PICK g : /\ Foretells(g, Append(events, a)) /\ \A p \in 0 .. Len(events) : g[p] = h[p]
                 /\ g[Len(events) + 1] = After(c, a)
    BY <1>1, <1>2, <1>4, OneMore
  <2>3. QED
    BY <1>1, <1>4, <2>1, <2>2, AnnouncingAsForetold
<1>5. ASSUME NEW a \in Event, NEW b \in Event, Announce(<<a, b>>), May(c, a), May(After(c, a), b),
             EndsWith(After(After(c, a), b), real')
      PROVE  OrderedAsForetold'
  <2> DEFINE half == Append(events, a)
  <2>1. /\ half \in Seq(Event) /\ Len(half) = Len(events) + 1
        /\ events' = Append(half, b) /\ Len(events') = Len(half) + 1 /\ <<a, b>> \in Seq(Event)
    BY <1>2, <1>5, Appending, AppendProperties, PairsAreSequences DEF Announce
  <2>2. PICK f : /\ Foretells(f, half) /\ \A p \in 0 .. Len(events) : f[p] = h[p]
                 /\ f[Len(events) + 1] = After(c, a)
    BY <1>1, <1>2, <1>5, OneMore
  <2> HIDE DEF half
  <2>3. f[Len(half)] = After(c, a) /\ May(f[Len(half)], b)
    BY <1>5, <2>1, <2>2
  <2>4. PICK g : /\ Foretells(g, events') /\ \A p \in 0 .. Len(half) : g[p] = f[p]
                 /\ g[Len(half) + 1] = After(f[Len(half)], b)
    BY <2>1, <2>2, <2>3, OneMore
  <2>5. \A p \in 0 .. Len(events) : g[p] = h[p]
    BY <1>2, <2>1, <2>2, <2>4
  <2>6. EndsWith(g[Len(events')], real')
    BY <1>5, <2>1, <2>3, <2>4
  <2>7. QED
    BY <1>1, <1>5, <2>1, <2>4, <2>5, <2>6, AnnouncingAsForetold
<1>6. QED
  BY <1>3, <1>4, <1>5

\* A contract that changes at Stripe changes in the story.
LEMMA ChangeEnds ==
  ASSUME TypeOK, NEW c \in [Subs -> Sketches], EndsWith(c, real), NEW d \in [Subs -> Sketches],
         NEW s \in Subs, \A o \in Subs \ {s} : d[o] = c[o],
         NEW status \in Statuses, real' = [real EXCEPT ![s] = status], d[s].status = status,
         status = "past_due" => d[s].grace = "some"
  PROVE  EndsWith(d, real')
<1>1. real \in [Subs -> Statuses \cup {"none"}] /\ "none" \notin Statuses
  BY DEF TypeOK, Statuses, Entitled, Owing, Over
<1>2. real'[s] = status /\ \A o \in Subs \ {s} : real'[o] = real[o]
  BY <1>1
<1>3. QED
  BY <1>1, <1>2 DEF EndsWith

\* The events of Stripe, field by field.
LEMMA EventsSay ==
  ASSUME NEW s \in Subs
  PROVE  /\ \A status \in Statuses : LET a == StatusEvent(s, status) IN
              a \in Event /\ a.sub = s /\ a.kind = "status" /\ a.status = status
         /\ \A kind \in {"failed", "paid"} : LET a == InvoiceEvent(s, kind) IN
              a \in Event /\ a.sub = s /\ a.kind = kind /\ a.status = ""
  BY EventsAreEvents DEF StatusEvent, InvoiceEvent

\* While a contract lives, no other does, and its announcements may come.
LEMMA LiveMay ==
  ASSUME NEW c \in [Subs -> Sketches], OneLive(c), NEW a \in Event, Live(c[a.sub].status)
  PROVE  May(c, a)
<1>1. a.sub \in Subs /\ c[a.sub].status # "no_row"
  BY DEF Event, Live
<1>2. QED
  BY <1>1 DEF May, OneLive

\* One live contract stays the one.
LEMMA StillOneLive ==
  ASSUME NEW c \in [Subs -> Sketches], OneLive(c), NEW a \in Event, May(c, a)
  PROVE  OneLive(After(c, a))
<1>1. a.sub \in Subs
  BY DEF Event
<1>2. \A o \in Subs \ {a.sub} : After(c, a)[o] = c[o]
  BY AfterIs
<1>3. QED
  BY <1>1, <1>2 DEF OneLive, May

\* A new contract is announced by its state, while no other lives.
LEMMA SubscribingAsForetold ==
  ASSUME IndInv, OrderedAsForetold, NEW s \in Subs, NEW status \in Entitled \cup {"incomplete"},
         Subscribe(s, status)
  PROVE  OrderedAsForetold'
<1>1. /\ status \in Statuses /\ status \notin {"canceled", "past_due"}
      /\ UNCHANGED <<row, delivery>> /\ real' = [real EXCEPT ![s] = status]
  BY DEF Subscribe, Becomes, Statuses, Entitled
<1> DEFINE a == StatusEvent(s, status)
<1>2. a \in Event /\ a.sub = s /\ a.kind = "status" /\ a.status = status /\ Announce(<<a>>)
  BY <1>1, EventsSay DEF Subscribe
<1> HIDE DEF a
<1>3. ASSUME NEW c \in [Subs -> Sketches], EndsWith(c, real), OneLive(c)
      PROVE  May(c, a) /\ EndsWith(After(c, a), real')
  <2>1. c[s].status = "no_row" /\ \A o \in Subs \ {s} : ~ Live(c[o].status)
    BY <1>3 DEF Subscribe, EndsWith, Live
  <2>2. Effect(c[s], a).status = status
    BY <1>2, <2>1, Effects
  <2>3. May(c, a)
    BY <1>2, <2>1 DEF May
  <2>4. /\ After(c, a) \in [Subs -> Sketches] /\ After(c, a)[s].status = status
        /\ \A o \in Subs \ {s} : After(c, a)[o] = c[o]
    BY <1>2, <2>2, AfterIs
  <2>5. EndsWith(After(c, a), real')
    BY <1>1, <1>3, <2>4, ChangeEnds DEF IndInv
  <2>6. QED
    BY <2>3, <2>5
<1>4. QED
  BY <1>1, <1>2, <1>3, TellingAsForetold

\* The end of a contract, or of its collection, is announced by its state.
LEMMA EndingAsForetold ==
  ASSUME IndInv, OrderedAsForetold, NEW s \in Subs,
         NEW status \in {"canceled", "unpaid", "incomplete_expired"}, Ends(s, status)
  PROVE  OrderedAsForetold'
<1>1. /\ status \in Statuses /\ status # "past_due"
      /\ UNCHANGED <<row, delivery>> /\ real' = [real EXCEPT ![s] = status]
      /\ real[s] \notin Over \cup {"none"}
  BY StatusesAreStatuses DEF Ends, Becomes, Over
<1> DEFINE a == StatusEvent(s, status)
<1>2. a \in Event /\ a.sub = s /\ a.kind = "status" /\ a.status = status /\ Announce(<<a>>)
  BY <1>1, EventsSay DEF Ends
<1> HIDE DEF a
<1>3. ASSUME NEW c \in [Subs -> Sketches], EndsWith(c, real), OneLive(c)
      PROVE  May(c, a) /\ EndsWith(After(c, a), real')
  <2>1. c[s].status = real[s]
    BY <1>1, <1>3 DEF EndsWith
  <2>2. Live(c[s].status) /\ c[s].status # "canceled"
    <3>1. real[s] \in Statuses /\ "no_row" \notin Statuses
      BY <1>1, StatusesAreStatuses DEF IndInv, TypeOK
    <3>2. QED
      BY <1>1, <2>1, <3>1 DEF Live, Over
  <2>3. Effect(c[s], a).status = status
    BY <1>2, <2>2, Effects
  <2>4. May(c, a)
    BY <1>2, <1>3, <2>2, LiveMay
  <2>5. /\ After(c, a) \in [Subs -> Sketches] /\ After(c, a)[s].status = status
        /\ \A o \in Subs \ {s} : After(c, a)[o] = c[o]
    BY <1>2, <2>3, AfterIs
  <2>6. EndsWith(After(c, a), real')
    BY <1>1, <1>3, <2>5, ChangeEnds DEF IndInv
  <2>7. QED
    BY <2>4, <2>6
<1>4. QED
  BY <1>1, <1>2, <1>3, TellingAsForetold

\* Two announcements about a live contract that keep it alive and bring it to status.
LEMMA TwoAnnouncements ==
  ASSUME TypeOK, NEW c \in [Subs -> Sketches], EndsWith(c, real), OneLive(c), NEW s \in Subs,
         Live(c[s].status), NEW status \in Statuses, real' = [real EXCEPT ![s] = status],
         NEW a \in Event, NEW b \in Event, a.sub = s, b.sub = s,
         Live(Effect(c[s], a).status),
         Effect(Effect(c[s], a), b).status = status,
         status = "past_due" => Effect(Effect(c[s], a), b).grace = "some"
  PROVE  May(c, a) /\ May(After(c, a), b) /\ EndsWith(After(After(c, a), b), real')
<1> DEFINE d == After(c, a)
           f == After(d, b)
<1>1. May(c, a)
  BY LiveMay
<1>2. OneLive(d)
  BY <1>1, StillOneLive
<1>3. d \in [Subs -> Sketches] /\ d[s] = Effect(c[s], a) /\ \A o \in Subs \ {s} : d[o] = c[o]
  BY AfterIs
<1> HIDE DEF d
<1>4. May(d, b)
  BY <1>2, <1>3, LiveMay
<1>5. f \in [Subs -> Sketches] /\ f[s] = Effect(d[s], b) /\ \A o \in Subs \ {s} : f[o] = d[o]
  BY <1>3, AfterIs
<1> HIDE DEF f
<1>6. EndsWith(f, real')
  <2>1. \A o \in Subs \ {s} : f[o] = c[o]
    BY <1>3, <1>5
  <2>2. f[s].status = status /\ (status = "past_due" => f[s].grace = "some")
    BY <1>3, <1>5
  <2>3. QED
    BY <1>5, <2>1, <2>2, ChangeEnds
<1>7. May(After(c, a), b) /\ EndsWith(After(d, b), real')
  BY <1>4, <1>6 DEF d, f
<1>8. QED
  BY <1>1, <1>7 DEF d

\* A payment leads to "active" whichever of its two announcements comes first.
LEMMA PayingAsForetold ==
  ASSUME IndInv, OrderedAsForetold, NEW s \in Subs, Pays(s)
  PROVE  OrderedAsForetold'
<1>1. /\ UNCHANGED <<row, delivery>> /\ real' = [real EXCEPT ![s] = "active"]
      /\ real[s] \notin Over \cup {"none"} /\ "active" \in Statuses
  BY StatusesAreStatuses DEF Pays, Becomes
<1> DEFINE paid == InvoiceEvent(s, "paid")
           upd  == StatusEvent(s, "active")
<1>2. /\ upd \in Event /\ upd.sub = s /\ upd.kind = "status" /\ upd.status = "active"
      /\ paid \in Event /\ paid.sub = s /\ paid.kind = "paid"
  <2>1. upd \in Event /\ upd.sub = s /\ upd.kind = "status" /\ upd.status = "active"
    BY <1>1, EventsSay
  <2>2. paid \in Event /\ paid.sub = s /\ paid.kind = "paid"
    BY EventsSay
  <2>3. QED
    BY <2>1, <2>2
<1>3. Announce(<<paid, upd>>) \/ Announce(<<upd, paid>>)
  BY DEF Pays
<1> HIDE DEF paid, upd
<1>4. ASSUME NEW c \in [Subs -> Sketches], EndsWith(c, real), OneLive(c)
      PROVE  /\ May(c, paid) /\ May(After(c, paid), upd)
             /\ EndsWith(After(After(c, paid), upd), real')
             /\ May(c, upd) /\ May(After(c, upd), paid)
             /\ EndsWith(After(After(c, upd), paid), real')
  <2>1. Live(c[s].status) /\ c[s].status # "canceled" /\ c[s] \in Sketches
    <3>1. c[s].status = real[s] /\ real[s] \in Statuses /\ "no_row" \notin Statuses
      BY <1>1, <1>4, StatusesAreStatuses DEF EndsWith, IndInv, TypeOK
    <3>2. QED
      BY <1>1, <3>1 DEF Live, Over
  <2>2. Live("active") /\ "active" \notin Owing
    BY DEF Live, Over, Owing
  <2>3. /\ Effect(c[s], paid) \in Sketches /\ Live(Effect(c[s], paid).status)
        /\ Effect(c[s], paid).status # "canceled"
    BY <1>2, <2>1, <2>2, Effects
  <2>4. Effect(Effect(c[s], paid), upd).status = "active"
    BY <1>2, <2>3, Effects
  <2>5. Effect(c[s], upd) \in Sketches /\ Effect(c[s], upd).status = "active"
    BY <1>2, <2>1, Effects
  <2>6. Effect(Effect(c[s], upd), paid).status = "active"
    BY <1>2, <2>2, <2>5, Effects
  <2>7. /\ May(c, paid) /\ May(After(c, paid), upd)
        /\ EndsWith(After(After(c, paid), upd), real')
    BY <1>1, <1>2, <1>4, <2>1, <2>3, <2>4, TwoAnnouncements DEF IndInv
  <2>8. /\ May(c, upd) /\ May(After(c, upd), paid)
        /\ EndsWith(After(After(c, upd), paid), real')
    BY <1>1, <1>2, <1>4, <2>1, <2>2, <2>5, <2>6, TwoAnnouncements DEF IndInv
  <2>9. QED
    BY <2>7, <2>8
<1>5. QED
  <2>1. CASE Announce(<<paid, upd>>)
    BY <1>1, <1>2, <1>4, <2>1, TellingAsForetold
  <2>2. CASE Announce(<<upd, paid>>)
    BY <1>1, <1>2, <1>4, <2>2, TellingAsForetold
  <2>3. QED
    BY <1>3, <2>1, <2>2

\* So does a failed payment to "past_due" with a grace; one that was owed before keeps its state.
LEMMA FailingAsForetold ==
  ASSUME IndInv, OrderedAsForetold, NEW s \in Subs, FailsToPay(s)
  PROVE  OrderedAsForetold'
<1>1. UNCHANGED <<row, delivery>> /\ real[s] \notin Over \cup {"none"} /\ "past_due" \in Statuses
  BY StatusesAreStatuses DEF FailsToPay, Becomes
<1> DEFINE failed == InvoiceEvent(s, "failed")
           upd    == StatusEvent(s, "past_due")
<1>2. /\ upd \in Event /\ upd.sub = s /\ upd.kind = "status" /\ upd.status = "past_due"
      /\ failed \in Event /\ failed.sub = s /\ failed.kind = "failed"
  <2>1. upd \in Event /\ upd.sub = s /\ upd.kind = "status" /\ upd.status = "past_due"
    BY <1>1, EventsSay
  <2>2. failed \in Event /\ failed.sub = s /\ failed.kind = "failed"
    BY EventsSay
  <2>3. QED
    BY <2>1, <2>2
<1>3. real[s] \in Entitled => /\ Announce(<<failed, upd>>) \/ Announce(<<upd, failed>>)
                              /\ real' = [real EXCEPT ![s] = "past_due"]
  BY DEF FailsToPay, Becomes
<1>4. real[s] \notin Entitled => Announce(<<failed>>) /\ real' = [real EXCEPT ![s] = real[s]]
  BY DEF FailsToPay, Becomes
<1> HIDE DEF failed, upd
<1>5. ASSUME NEW c \in [Subs -> Sketches], EndsWith(c, real)
      PROVE  /\ Live(c[s].status) /\ c[s].status # "canceled" /\ c[s] \in Sketches
             /\ c[s].status = real[s] /\ real[s] \in Statuses
  <2>1. c[s].status = real[s] /\ real[s] \in Statuses /\ "no_row" \notin Statuses
    BY <1>1, <1>5, StatusesAreStatuses DEF EndsWith, IndInv, TypeOK
  <2>2. QED
    BY <1>1, <2>1 DEF Live, Over
<1>6. CASE real[s] \in Entitled
  <2>1. ASSUME NEW c \in [Subs -> Sketches], EndsWith(c, real), OneLive(c)
        PROVE  /\ May(c, failed) /\ May(After(c, failed), upd)
               /\ EndsWith(After(After(c, failed), upd), real')
               /\ May(c, upd) /\ May(After(c, upd), failed)
               /\ EndsWith(After(After(c, upd), failed), real')
    <3>1. Live("past_due") /\ "past_due" \notin Entitled
      BY DEF Live, Over, Entitled
    <3>2. /\ Effect(c[s], failed) \in Sketches
          /\ Effect(c[s], failed).status = "past_due" /\ Effect(c[s], failed).grace = "some"
      BY <1>2, <1>5, <1>6, <2>1, Effects
    <3>3. /\ Effect(Effect(c[s], failed), upd).status = "past_due"
          /\ Effect(Effect(c[s], failed), upd).grace = "some"
      BY <1>2, <3>2, Effects
    <3>4. Effect(c[s], upd) \in Sketches /\ Effect(c[s], upd).status = "past_due"
      BY <1>2, <1>5, <2>1, Effects
    <3>5. /\ Effect(Effect(c[s], upd), failed).status = "past_due"
          /\ Effect(Effect(c[s], upd), failed).grace = "some"
      BY <1>2, <3>1, <3>4, Effects
    <3>6. Live(c[s].status) /\ real' = [real EXCEPT ![s] = "past_due"]
      BY <1>3, <1>5, <1>6, <2>1
    <3>7. /\ May(c, failed) /\ May(After(c, failed), upd)
          /\ EndsWith(After(After(c, failed), upd), real')
      BY <1>1, <1>2, <2>1, <3>1, <3>2, <3>3, <3>6, TwoAnnouncements DEF IndInv
    <3>8. /\ May(c, upd) /\ May(After(c, upd), failed)
          /\ EndsWith(After(After(c, upd), failed), real')
      BY <1>1, <1>2, <2>1, <3>1, <3>4, <3>5, <3>6, TwoAnnouncements DEF IndInv
    <3>9. QED
      BY <3>7, <3>8
  <2>2. CASE Announce(<<failed, upd>>)
    BY <1>1, <1>2, <2>1, <2>2, TellingAsForetold
  <2>3. CASE Announce(<<upd, failed>>)
    BY <1>1, <1>2, <2>1, <2>3, TellingAsForetold
  <2>4. QED
    BY <1>3, <1>6, <2>2, <2>3
<1>7. CASE real[s] \notin Entitled
  <2>1. ASSUME NEW c \in [Subs -> Sketches], EndsWith(c, real), OneLive(c)
        PROVE  May(c, failed) /\ EndsWith(After(c, failed), real')
    <3>1. /\ Effect(c[s], failed).status = real[s] /\ Effect(c[s], failed).grace = "some"
      BY <1>2, <1>5, <1>7, <2>1, Effects
    <3>2. /\ After(c, failed) \in [Subs -> Sketches] /\ After(c, failed)[s] = Effect(c[s], failed)
          /\ \A o \in Subs \ {s} : After(c, failed)[o] = c[o]
      BY <1>2, AfterIs
    <3>3. May(c, failed)
      BY <1>2, <1>5, <2>1, LiveMay
    <3>4. EndsWith(After(c, failed), real')
      BY <1>4, <1>5, <1>7, <2>1, <3>1, <3>2, ChangeEnds DEF IndInv
    <3>5. QED
      BY <3>3, <3>4
  <2>2. QED
    BY <1>1, <1>2, <1>4, <1>7, <2>1, TellingAsForetold
<1>8. QED
  BY <1>6, <1>7

\* What Apply stores is the effect of the announcement on the row it has read.
LEMMA ApplyHasEffect ==
  ASSUME IndInv, NEW e \in DOMAIN events, before[e] = row[events[e].sub].status,
         events[e].kind # "status" => row[events[e].sub].status # "no_row"
  PROVE  LET s == events[e].sub
             r == [status |-> NewStatus(s, Announced(e)), grace |-> NewGrace(e)]
         IN  Sketch(row[s]) \in Sketches /\ Sketch(r) = Effect(Sketch(row[s]), events[e])
<1> DEFINE s == events[e].sub
           r == [status |-> NewStatus(s, Announced(e)), grace |-> NewGrace(e)]
           c == Sketch(row[s])
<1>1. events[e] \in Event /\ s \in Subs
  BY Announcements DEF IndInv
<1>2. /\ row[s].status \in Statuses \cup {"no_row"} /\ row[s].grace \in Grace
      /\ c.status = row[s].status /\ c.grace = IF row[s].grace = NoGrace THEN "none" ELSE "some"
      /\ c \in Sketches
  BY <1>1 DEF IndInv, TypeOK, NoRow, Grace, Sketch, Sketches
<1>3. /\ Sketch(r).status = NewStatus(s, Announced(e))
      /\ Sketch(r).grace = IF NewGrace(e) = NoGrace THEN "none" ELSE "some"
      /\ Sketch(r) = [status |-> Sketch(r).status, grace |-> Sketch(r).grace]
  BY DEF Sketch
<1>4. Effect(c, events[e])
        = [status |-> Effect(c, events[e]).status, grace |-> Effect(c, events[e]).grace]
  BY DEF Effect
<1>5. now + GraceDays # NoGrace
  BY GraceIsADuration DEF IndInv, TypeOK, NoGrace
<1>6. events[e].kind # "status" => Known(e) = row[s].status
  BY DEF Known
<1>7. "canceled" \notin Entitled /\ "canceled" \notin Owing /\ Entitled \cap Owing = {}
  BY DEF Entitled, Owing
<1> HIDE DEF c, r
<1>8. CASE events[e].kind = "status"
  <2>1. NewStatus(s, Announced(e)) = Effect(c, events[e]).status
    BY <1>1, <1>2, <1>8, Effects DEF NewStatus, Announced
  <2>2. NewGrace(e) = IF events[e].status = "active" THEN NoGrace ELSE row[s].grace
    BY <1>8 DEF NewGrace
  <2>3. Effect(c, events[e]).grace = IF events[e].status = "active" THEN "none" ELSE c.grace
    BY <1>1, <1>2, <1>8, Effects
  <2>4. QED
    BY <1>2, <1>3, <1>4, <2>1, <2>2, <2>3 DEF c, r
<1>9. CASE events[e].kind = "failed"
  <2>1. events[e].status # "active"
    BY <1>1, <1>9 DEF Event
  <2>2. Announced(e) = IF row[s].status \in Entitled THEN "past_due" ELSE row[s].status
    BY <1>6, <1>9 DEF Announced, FromInvoice
  <2>3. NewStatus(s, Announced(e)) = Effect(c, events[e]).status
    BY <1>1, <1>2, <1>7, <1>9, <2>2, Effects DEF NewStatus
  <2>4. NewGrace(e) = IF row[s].grace = NoGrace THEN now + GraceDays ELSE row[s].grace
    BY <1>9, <2>1 DEF NewGrace
  <2>5. NewGrace(e) # NoGrace /\ Effect(c, events[e]).grace = "some"
    BY <1>1, <1>2, <1>5, <1>9, <2>4, Effects
  <2>6. QED
    BY <1>2, <1>3, <1>4, <2>3, <2>5 DEF c, r
<1>10. CASE events[e].kind = "paid"
  <2>1. Announced(e) = IF row[s].status \in Owing THEN "active" ELSE row[s].status
    BY <1>6, <1>10 DEF Announced, FromInvoice
  <2>2. NewStatus(s, Announced(e)) = Effect(c, events[e]).status
    BY <1>1, <1>2, <1>7, <1>10, <2>1, Effects DEF NewStatus
  <2>3. NewGrace(e) = NoGrace /\ Effect(c, events[e]).grace = "none"
    BY <1>1, <1>2, <1>10, Effects DEF NewGrace
  <2>4. QED
    BY <1>2, <1>3, <1>4, <2>2, <2>3 DEF c, r
<1>11. QED
  BY <1>1, <1>2, <1>8, <1>9, <1>10 DEF Event, Kinds, c, r

\* Handling goes on in the story when each handler comes in its turn.
LEMMA HandlingAsForetold ==
  ASSUME IndInv, OrderedAsForetold, NEW e \in DOMAIN events, Handle(e)
  PROVE  OrderedAsForetold'
<1> SUFFICES ASSUME delivery' = "ordered" PROVE OrderedAsForetold'
  BY DEF OrderedAsForetold
<1> DEFINE s == events[e].sub
<1>1. UNCHANGED <<real, events>> /\ ~ Fault(e)
  BY DEF Handle, Receive, Resent, Unidentified, ReadBefore, Apply, Refused, Fault, stripeVars
<1>2. delivery = "ordered"
  BY <1>1 DEF Handle, Receive, Resent, Unidentified, ReadBefore, Apply, Refused
<1>3. PICK h \in [0 .. Len(events) -> [Subs -> Sketches]], n \in 0 .. Len(events) :
        Foretells(h, events) /\ EndsWith(h[Len(events)], real) /\ HandledTo(n, h)
  BY <1>2 DEF OrderedAsForetold
<1>4. /\ events \in Seq(Event) /\ Len(events) \in Nat /\ DOMAIN events = 1 .. Len(events)
      /\ e \in 1 .. Len(events) /\ events[e] \in Event /\ s \in Subs
      /\ step \in [1 .. Len(events) -> Steps]
      /\ before \in [1 .. Len(events) -> Statuses \cup {"no_row"}]
  BY LenProperties, Announcements DEF IndInv, TypeOK
<1>5. ASSUME NEW m \in 0 .. Len(events), HandledTo(m, h)'
      PROVE  OrderedAsForetold'
  BY <1>1, <1>3, <1>5 DEF OrderedAsForetold
<1>6. /\ step[e] \in {"sent", "seen", "read", "applied"}
      /\ step[e] \in {"seen", "read"} => e = n + 1
      /\ step[e] = "sent" => e \in n + 1 .. Len(events)
  <2>1. CASE e \in 1 .. n
    BY <1>3, <2>1 DEF HandledTo
  <2>2. CASE e \in n + 1 .. Len(events)
    BY <1>3, <2>2 DEF HandledTo
  <2>3. QED
    BY <1>4, <2>1, <2>2
<1>7. ASSUME e = n + 1
      PROVE  /\ e - 1 = n /\ n + 1 \in 1 .. Len(events) /\ n < Len(events)
             /\ events[e].kind # "status" => row[s].status # "no_row"
             /\ h[e] = [h[n] EXCEPT ![s] = Effect(h[n][s], events[e])]
             /\ h[n] \in [Subs -> Sketches]
  <2>1. e - 1 = n /\ n + 1 \in 1 .. Len(events) /\ n < Len(events)
    BY <1>4, <1>7
  <2>2. events[e].kind # "status" => h[n][s].status # "no_row"
    BY <1>3, <1>4, <2>1 DEF Foretells
  <2>3. h[n][s].status = row[s].status
    <3>1. h[n][s] = Sketch(row[s])
      BY <1>3, <1>4 DEF HandledTo
    <3>2. QED
      BY <3>1 DEF Sketch
  <2>4. h[e] = [h[n] EXCEPT ![s] = Effect(h[n][s], events[e])]
    BY <1>3, <1>4, <2>1 DEF Foretells
  <2>5. QED
    BY <1>3, <2>1, <2>2, <2>3, <2>4
<1>8. CASE Receive(e)
  <2>1. InTurn(e) /\ step[e] = "sent"
    BY <1>8 DEF Receive, Receivable
  <2>2. e = n + 1
    <3>1. SUFFICES ASSUME e # n + 1 PROVE FALSE
      OBVIOUS
    <3>2. n + 1 \in 1 .. e - 1 /\ n + 1 \in n + 1 .. Len(events)
      BY <1>4, <1>6, <2>1, <3>1
    <3>3. step[n + 1] \in {"sent", "seen", "read"}
      BY <1>3, <3>2 DEF HandledTo
    <3>4. QED
      BY <2>1, <3>2, <3>3 DEF InTurn, Finished, Handled
  <2>3. step' = [step EXCEPT ![e] = "seen"] /\ UNCHANGED <<before, row>>
    BY <1>8 DEF Receive, dbVars
  <2>4. HandledTo(n, h)'
    <3>1. \A f \in 1 .. n : step'[f] = "applied"
      BY <1>3, <1>4, <2>2, <2>3 DEF HandledTo
    <3>2. \A f \in n + 1 .. Len(events) :
            step'[f] = "sent" \/ (f = n + 1 /\ step'[f] \in {"seen", "read"})
      BY <1>3, <1>4, <2>2, <2>3 DEF HandledTo
    <3>3. step'[n + 1] = "seen"
      BY <1>4, <2>2, <2>3
    <3>4. QED
      BY <1>1, <1>3, <2>3, <3>1, <3>2, <3>3 DEF HandledTo
  <2>5. QED
    BY <1>5, <2>4
<1>9. CASE Resent(e)
  BY <1>6, <1>9 DEF Resent
<1>10. CASE Unidentified(e)
  <2>1. e = n + 1 /\ ~ Identified(e)
    BY <1>6, <1>10 DEF Unidentified
  <2>2. events[e].kind # "status" /\ row[s] = NoRow
    BY <1>4, <2>1 DEF Identified
  <2>3. QED
    BY <1>7, <2>1, <2>2 DEF NoRow
<1>11. CASE ReadBefore(e)
  <2>1. e = n + 1
    BY <1>6, <1>11 DEF ReadBefore
  <2>2. /\ step' = [step EXCEPT ![e] = "read"] /\ before' = [before EXCEPT ![e] = row[s].status]
        /\ UNCHANGED row
    BY <1>11 DEF ReadBefore, dbVars
  <2>3. HandledTo(n, h)'
    <3>1. \A f \in 1 .. n : step'[f] = "applied"
      BY <1>3, <1>4, <2>1, <2>2 DEF HandledTo
    <3>2. \A f \in n + 1 .. Len(events) :
            step'[f] = "sent" \/ (f = n + 1 /\ step'[f] \in {"seen", "read"})
      BY <1>3, <1>4, <2>1, <2>2 DEF HandledTo
    <3>3. before'[n + 1] = row'[events'[n + 1].sub].status
      BY <1>1, <1>4, <2>1, <2>2
    <3>4. \A o \in Subs : Sketch(row'[o]) = h[n][o]
      BY <1>3, <2>2 DEF HandledTo
    <3>5. QED
      BY <1>1, <3>1, <3>2, <3>3, <3>4 DEF HandledTo
  <2>4. QED
    BY <1>5, <2>3
<1>12. ASSUME step[e] = "read"
       PROVE  /\ e = n + 1
              /\ Sketch([status |-> NewStatus(s, Announced(e)), grace |-> NewGrace(e)]) = h[e][s]
              /\ \A o \in Subs \ {s} : h[e][o] = Sketch(row[o])
  <2>1. e = n + 1 /\ n < Len(events)
    BY <1>6, <1>7, <1>12
  <2>2. before[e] = row[s].status
    BY <1>3, <1>12, <2>1 DEF HandledTo
  <2>3. \A o \in Subs : Sketch(row[o]) = h[n][o]
    BY <1>3 DEF HandledTo
  <2>4. Sketch([status |-> NewStatus(s, Announced(e)), grace |-> NewGrace(e)])
          = Effect(Sketch(row[s]), events[e])
    BY <1>7, <2>1, <2>2, ApplyHasEffect
  <2>5. h[e][s] = Effect(h[n][s], events[e]) /\ \A o \in Subs \ {s} : h[e][o] = h[n][o]
    BY <1>4, <1>7, <2>1
  <2>6. QED
    BY <1>4, <2>1, <2>3, <2>4, <2>5
<1>13. CASE Apply(e)
  <2>1. step[e] = "read" /\ e = n + 1 /\ n + 1 \in 1 .. Len(events)
    BY <1>7, <1>12, <1>13 DEF Apply
  <2>2. /\ row' = [row EXCEPT ![s] = [status |-> NewStatus(s, Announced(e)), grace |-> NewGrace(e)]]
        /\ step' = [step EXCEPT ![e] = "applied"] /\ UNCHANGED before
    BY <1>13 DEF Apply
  <2>3. ASSUME NEW o \in Subs PROVE Sketch(row'[o]) = h[n + 1][o]
    <3>1. row \in [Subs -> [status : Statuses, grace : Grace] \cup {NoRow}]
      BY DEF IndInv, TypeOK
    <3>2. CASE o = s
      <4>1. row'[o] = [status |-> NewStatus(s, Announced(e)), grace |-> NewGrace(e)]
        BY <2>2, <3>1, <3>2
      <4>2. QED
        BY <1>12, <2>1, <3>2, <4>1
    <3>3. CASE o # s
      BY <1>12, <2>1, <2>2, <3>1, <3>3
    <3>4. QED
      BY <3>2, <3>3
  <2>4. HandledTo(n + 1, h)'
    <3>1. \A f \in 1 .. n + 1 : step'[f] = "applied"
      BY <1>3, <1>4, <2>1, <2>2 DEF HandledTo
    <3>2. \A f \in n + 2 .. Len(events) : step'[f] = "sent"
      BY <1>3, <1>4, <2>1, <2>2 DEF HandledTo
    <3>3. (n + 1) + 1 = n + 2 /\ (n + 1 < Len(events) => n + 2 \in n + 2 .. Len(events))
      BY <1>4
    <3>4. QED
      BY <1>1, <2>3, <3>1, <3>2, <3>3 DEF HandledTo
  <2>5. n + 1 \in 0 .. Len(events)
    BY <2>1
  <2>6. QED
    BY <1>5, <2>4, <2>5
<1>14. CASE Refused(e)
  <2>1. step[e] = "read" /\ Conflicts(s, NewStatus(s, Announced(e)))
    BY <1>14 DEF Refused
  <2>2. PICK o \in Subs \ {s} : Live(row[o].status) /\ Live(NewStatus(s, Announced(e)))
    BY <2>1 DEF Conflicts
  <2>3. h[e][o].status = row[o].status /\ h[e][s].status = NewStatus(s, Announced(e))
    <3>1. h[e][o] = Sketch(row[o])
      BY <1>12, <2>1, <2>2
    <3>2. h[e][s] = Sketch([status |-> NewStatus(s, Announced(e)), grace |-> NewGrace(e)])
      BY <1>12, <2>1
    <3>3. QED
      BY <3>1, <3>2 DEF Sketch
  <2>4. e \in 0 .. Len(events)
    BY <1>4
  <2>5. QED
    BY <1>3, <1>4, <2>2, <2>3, <2>4 DEF Foretells
<1>15. QED
  BY <1>1, <1>8, <1>9, <1>10, <1>11, <1>13, <1>14 DEF Handle

\* At first the story is empty.
LEMMA InitiallyAsForetold == Init => OrderedAsForetold
<1> SUFFICES ASSUME Init PROVE OrderedAsForetold
  OBVIOUS
<1> DEFINE none == [s \in Subs |-> Sketch(NoRow)]
           h == [p \in 0 .. 0 |-> none]
<1>1. /\ events = <<>> /\ Len(events) = 0
      /\ row = [s \in Subs |-> NoRow] /\ real = [s \in Subs |-> "none"]
  BY DEF Init
<1>2. /\ Sketch(NoRow) \in Sketches /\ Sketch(NoRow).status = "no_row" /\ ~ Live("no_row")
  BY DEF Sketch, Sketches, NoRow, Live
<1>3. none \in [Subs -> Sketches] /\ \A s \in Subs : none[s] = Sketch(NoRow) /\ row[s] = NoRow
  BY <1>1, <1>2
<1> HIDE DEF none
<1>4. h \in [0 .. 0 -> [Subs -> Sketches]] /\ h[0] = none
  BY <1>3
<1> HIDE DEF h
<1>5. Foretells(h, events)
  <2>1. \A p \in 0 .. 0 : \A s, o \in Subs : ~ Live(h[p][s].status)
    BY <1>2, <1>3, <1>4
  <2>2. QED
    BY <1>1, <1>4, <2>1 DEF Foretells
<1>6. EndsWith(h[0], real)
  BY <1>1, <1>2, <1>3, <1>4 DEF EndsWith
<1>7. HandledTo(0, h)
  BY <1>1, <1>3, <1>4 DEF HandledTo
<1>8. QED
  BY <1>1, <1>4, <1>5, <1>6, <1>7 DEF OrderedAsForetold

\* Every step keeps to the story.
LEMMA StepAsForetold == IndInv /\ OrderedAsForetold /\ [Next]_vars => OrderedAsForetold'
<1> SUFFICES ASSUME IndInv, OrderedAsForetold, [Next]_vars PROVE OrderedAsForetold'
  OBVIOUS
<1>1. CASE \E s \in Subs, status \in Entitled \cup {"incomplete"} : Subscribe(s, status)
  BY <1>1, SubscribingAsForetold
<1>2. CASE \E s \in Subs : Pays(s) \/ FailsToPay(s)
  BY <1>2, PayingAsForetold, FailingAsForetold
<1>3. CASE \E s \in Subs, status \in {"canceled", "unpaid", "incomplete_expired"} : Ends(s, status)
  BY <1>3, EndingAsForetold
<1>4. ASSUME UNCHANGED <<real, events, step, before, row, delivery>> PROVE OrderedAsForetold'
  BY <1>4 DEF OrderedAsForetold, HandledTo
<1>5. CASE Tick
  BY <1>4, <1>5 DEF Tick, stripeVars, dbVars
<1>6. CASE \E e \in DOMAIN events : Handle(e)
  BY <1>6, HandlingAsForetold
<1>7. CASE UNCHANGED vars
  BY <1>4, <1>7 DEF vars, stripeVars, dbVars
<1>8. QED
  BY <1>1, <1>2, <1>3, <1>5, <1>6, <1>7 DEF Next

\* Once all is handled in order the story is at its end, and says what Stripe says.
LEMMA ForetoldMatches ==
  ASSUME IndInv, OrderedAsForetold
  PROVE  SettledMatchesStripe
<1> SUFFICES ASSUME delivery = "ordered", \A e \in DOMAIN events : step[e] \in Finished,
                    NEW s \in Subs
             PROVE  /\ real[s] # "none" => row[s].status = real[s]
                    /\ real[s] \in Entitled => CanUpload
                    /\ real[s] = "past_due" => row[s].grace # NoGrace
  BY DEF SettledMatchesStripe
<1>1. PICK h \in [0 .. Len(events) -> [Subs -> Sketches]], n \in 0 .. Len(events) :
        Foretells(h, events) /\ EndsWith(h[Len(events)], real) /\ HandledTo(n, h)
  BY DEF OrderedAsForetold
<1>2. events \in Seq(Event) /\ Len(events) \in Nat /\ DOMAIN events = 1 .. Len(events)
  BY LenProperties DEF IndInv, TypeOK
<1>3. n = Len(events)
  <2> SUFFICES ASSUME n # Len(events) PROVE FALSE
    OBVIOUS
  <2>1. Len(events) \in Nat /\ n \in 0 .. Len(events) /\ n # Len(events)
    BY <1>2
  <2>2. n + 1 \in n + 1 .. Len(events) /\ n + 1 \in DOMAIN events
    <3>1. n \in Nat /\ n < Len(events)
      BY <2>1
    <3>2. \A i, j \in Nat : i < j => i + 1 \in i + 1 .. j /\ i + 1 \in 1 .. j
      OBVIOUS
    <3>3. QED
      BY <1>2, <3>1, <3>2
  <2>3. step[n + 1] \in {"sent", "seen", "read"}
    BY <1>1, <2>2 DEF HandledTo
  <2>4. QED
    BY <2>2, <2>3 DEF Finished, Handled
<1>4. h[n][s] = Sketch(row[s])
  BY <1>1 DEF HandledTo
<1>5. real[s] # "none" => row[s].status = real[s]
  BY <1>1, <1>3, <1>4 DEF EndsWith, Sketch
<1>6. real[s] = "past_due" => row[s].grace # NoGrace
  BY <1>1, <1>3, <1>4 DEF EndsWith, Sketch
<1>7. real[s] \in Entitled => CanUpload
  BY <1>5 DEF CanUpload, Evaluate, Live, Entitled, Over
<1>8. QED
  BY <1>5, <1>6, <1>7

\* For any number of contracts, announcements and clock ticks: when announcements come in
\* order and no handling fails, the stored contract is Stripe's once all are handled,
\* who has paid can upload, and who owes has a grace.
THEOREM StripeIsMatched == Spec => []SettledMatchesStripe
<1>1. Init => IndInv /\ OrderedAsForetold
  BY Initially, InitiallyAsForetold
<1>2. IndInv /\ OrderedAsForetold /\ [Next]_vars => (IndInv /\ OrderedAsForetold)'
  BY StepKeepsInv, StepAsForetold
<1>3. IndInv /\ OrderedAsForetold => SettledMatchesStripe
  BY ForetoldMatches
<1>4. QED
  BY <1>1, <1>2, <1>3, PTL DEF Spec
=============================================================================
