---------------------------- MODULE SettledRouter ----------------------------
(***************************************************************************)
(* The reconciliation record of one settled Spark checkout, as pure        *)
(* operators: the state that checkout-spark-settled-router.ts freezes, the *)
(* transitions it allows, and the order between two copies of the record   *)
(* that checkout-spark-settled-router-repository.ts demands of every save  *)
(* and every import.                                                       *)
(*                                                                         *)
(* One checkout plan is modelled.  Its recipients are the legs 1..NumLegs, *)
(* the Conduit fee leg last, as the plan freezer requires.  Amounts are    *)
(* left out: an attempt is identified by the device that issued its        *)
(* invoice, because a device never issues two invoices for one generation. *)
(***************************************************************************)
EXTENDS Integers

CONSTANTS
  NumLegs,      \* recipients of the plan
  Devices,      \* browsers that keep a copy of the record
  NoDevice,     \* "no invoice yet"
  TakeoverAt,   \* plan.takeoverAt
  InvoiceLife   \* how long a payout invoice may be sent after its issue

ASSUME NumLegsAssumption == NumLegs \in Nat \ {0}
ASSUME NoDeviceAssumption == NoDevice \notin Devices
ASSUME TimeAssumption == TakeoverAt \in Nat /\ InvoiceLife \in Nat \ {0}

Legs == 1 .. NumLegs
Conduit == NumLegs
Generations == 0 .. 1

PossibleSend == {"submitted", "ambiguous", "lookup_unavailable",
                 "conflicting_evidence"}
EvidenceStatuses == PossibleSend \cup {"paid", "terminal_failure"}
Statuses == EvidenceStatuses \cup {"unprepared", "prepared"}

-----------------------------------------------------------------------------
(* The record.                                                             *)

Attempt == [issuer : Devices \cup {NoDevice}, preparedAt : Nat,
            status : Statuses, observedAt : Nat]

\* intent = null, status = "unprepared", observedAt = null.
NoAttempt == [issuer |-> NoDevice, preparedAt |-> 0,
              status |-> "unprepared", observedAt |-> 0]

\* attempts[0] of a leg whose generation is 1 is its closed generation.
Leg == [generation : Generations, attempts : [Generations -> Attempt]]

\* The funding credit is told by the time it was observed, or absent.
NoCredit == -1
Credits == Nat \cup {NoCredit}

Reconciliation == [credit : Credits, legs : [Legs -> Leg], updatedAt : Nat]

NewLeg == [generation |-> 0, attempts |-> [g \in Generations |-> NoAttempt]]

CreateReconciliation(createdAt) ==
  [credit |-> NoCredit, legs |-> [l \in Legs |-> NewLeg], updatedAt |-> createdAt]

Generation(s, l) == s.legs[l].generation
Current(s, l) == s.legs[l].attempts[Generation(s, l)]
Status(s, l) == Current(s, l).status
Frozen(s, l) == Status(s, l) # "unprepared"
Credited(s) == s.credit # NoCredit

Later(a, b) == IF a >= b THEN a ELSE b

-----------------------------------------------------------------------------
(* Transitions.  Each one comes with the condition under which the code    *)
(* does not throw.                                                         *)

\* Mutant of SetCurrent: the record's time is left behind.
SetCurrentUntimed(s, l, attempt, at) ==
  [s EXCEPT !.legs[l].attempts[Generation(s, l)] = attempt]

SetCurrent(s, l, attempt, at) ==
  [s EXCEPT !.legs[l].attempts[Generation(s, l)] = attempt,
            !.updatedAt = Later(@, at)]

\* Idempotent: a second credit, observed later, leaves the first one alone.
RecordCredit(s, at) ==
  IF Credited(s) THEN s
  ELSE [s EXCEPT !.credit = at, !.updatedAt = Later(@, at)]

\* The exclusive send deadline of an invoice issued at preparedAt.
SendWindowEndsAt(attempt) == attempt.preparedAt + InvoiceLife
HasSendWindow(attempt, now) == now < SendWindowEndsAt(attempt)

FreshAttempt(d, at) == [issuer |-> d, preparedAt |-> at,
                        status |-> "prepared", observedAt |-> at]

CanPrepareLeg(s, l, at) == Credited(s) /\ ~Frozen(s, l) /\ at >= s.credit

\* Freezes one invoice and transfer id; a frozen intent is never replaced.
PrepareLeg(s, l, d, at) == SetCurrent(s, l, FreshAttempt(d, at), at)

\* The full-return proof of the closed generation is the caller's guard.
CanRenewLeg(s, l, now) ==
  /\ Credited(s)
  /\ Frozen(s, l)
  /\ Status(s, l) # "paid"
  /\ Generation(s, l) = 0
  /\ now >= TakeoverAt
  /\ now >= s.updatedAt
  /\ SendWindowEndsAt(Current(s, l)) <= now

RenewLeg(s, l, d, now) ==
  [s EXCEPT !.legs[l] = [generation |-> 1,
                         attempts |-> [@.attempts EXCEPT ![1] = FreshAttempt(d, now)]],
            !.updatedAt = now]

\* Which evidence may follow which status: nothing follows paid but paid,
\* nothing follows a terminal failure but itself or paid, and only a prepared
\* leg may become submitted.
MayFollow(old, new) ==
  /\ old = "paid" => new = "paid"
  /\ old = "terminal_failure" => new \in {"terminal_failure", "paid"}
  /\ new = "submitted" => old \in {"prepared", "submitted"}

CanRecordLegStatus(s, l, status, at) ==
  /\ Frozen(s, l)
  /\ at >= Current(s, l).preparedAt
  /\ at >= Current(s, l).observedAt
  /\ MayFollow(Status(s, l), status)

RecordLegStatus(s, l, status, at) ==
  IF Status(s, l) = status THEN s
  ELSE SetCurrent(s, l, [Current(s, l) EXCEPT !.status = status,
                                              !.observedAt = at], at)

\* The record a live cancellation retries from: the leg as if its terminal
\* failure were still `status`.
Reopened(s, l, status) ==
  [s EXCEPT !.legs[l].attempts[Generation(s, l)].status = status]

\* observedAt() of the outgoing step: strictly after everything recorded.
ObservedAt(s, now) == Later(now, s.updatedAt + 1)

-----------------------------------------------------------------------------
(* The order between two copies of the record.                             *)

AttemptProgression(before, after) ==
  /\ before.issuer # NoDevice =>
       after.issuer = before.issuer /\ after.preparedAt = before.preparedAt
  /\ before.status # "unprepared" =>
       /\ after.status # "unprepared"
       /\ after.observedAt >= before.observedAt
       /\ after.observedAt = before.observedAt => after.status = before.status
  /\ before.status \notin {"unprepared", "prepared"} => after.status # "prepared"
  /\ before.status = "paid" => after.status = "paid"
  /\ before.status = "terminal_failure" =>
       after.status \in {"terminal_failure", "paid"}
  /\ before.status \in PossibleSend =>
       after.status \in PossibleSend \cup {"paid", "terminal_failure"}

LegProgression(before, after) ==
  /\ before.generation <= after.generation
  /\ before.generation = 1 => after.attempts[0] = before.attempts[0]
  /\ AttemptProgression(before.attempts[before.generation],
                        after.attempts[before.generation])

RecoveryProgression(before, after) ==
  /\ after.updatedAt >= before.updatedAt
  /\ Credited(before) => after.credit = before.credit
  /\ \A l \in Legs : LegProgression(before.legs[l], after.legs[l])

-----------------------------------------------------------------------------
(* What loading demands of a saved record; every operation loads first.    *)

RestorableAttempt(attempt) ==
  IF attempt.issuer = NoDevice
  THEN attempt = NoAttempt
  ELSE attempt.status # "unprepared" /\ attempt.observedAt >= attempt.preparedAt

\* A closed generation was frozen and unpaid, and the renewal came after
\* takeover and after the old invoice could no longer be sent.
RestorableRenewal(leg) ==
  LET old == leg.attempts[0]
      new == leg.attempts[1]
  IN IF leg.generation = 0
     THEN new = NoAttempt
     ELSE /\ old.issuer # NoDevice /\ new.issuer # NoDevice
          /\ old.status # "paid"
          /\ old.observedAt <= new.preparedAt
          /\ TakeoverAt <= new.preparedAt
          /\ SendWindowEndsAt(old) <= new.preparedAt

Restorable(s) ==
  /\ Credited(s) => s.updatedAt >= s.credit
  /\ \A l \in Legs :
       /\ \A g \in Generations : RestorableAttempt(s.legs[l].attempts[g])
       /\ RestorableRenewal(s.legs[l])
       /\ Frozen(s, l) => Credited(s)
       /\ s.updatedAt >= Current(s, l).observedAt

-----------------------------------------------------------------------------
(* What the financial workflow asks of a record.                           *)

Unpaid(s) == {l \in Legs : Status(s, l) # "paid"}

\* legs.find(leg => leg.status # "paid"): payouts go out one at a time, in order.
NextUnpaid(s, l) == l \in Unpaid(s) /\ \A m \in Unpaid(s) : l <= m

\* The buyer may still watch an admitted attempt after takeover.
CanInspectSubmittedAttempt(s, l) ==
  /\ Credited(s)
  /\ NextUnpaid(s, l)
  /\ Status(s, l) \in {"submitted", "ambiguous", "lookup_unavailable"}
=============================================================================
