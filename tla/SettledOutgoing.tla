--------------------------- MODULE SettledOutgoing ---------------------------
(***************************************************************************)
(* Paying the legs of one settled checkout from several browsers.          *)
(*                                                                         *)
(* The shopper's device and any number of merchant devices each keep a     *)
(* copy of the reconciliation record in their own database, written by     *)
(* compare-and-swap on a revision.  Tabs of a device run invocations of    *)
(* runCheckoutSparkFinancialWorkflow and of the outgoing step in it.  An   *)
(* invocation is cut at its awaits: between two actions of a tab other     *)
(* tabs, other devices, the relays, the provider and the clock may move.   *)
(* Every await may also throw (Abort), and a tab may be closed (Crash).    *)
(*                                                                         *)
(* Devices share nothing but snapshots stored on the relays and the        *)
(* provider's history of transfers, which is keyed by transfer id.         *)
(***************************************************************************)
EXTENDS SettledRouter, FiniteSets

CONSTANTS
  Tabs,         \* open pages
  DeviceOf,     \* the browser profile a tab belongs to
  Shopper,      \* the buyer's device; every other device is a merchant's
  Skew,         \* how far a device's clock runs ahead
  MaxTime,      \* bound on the clock
  MaxRevision,  \* bound on a database's revision
  MaxSnapshots  \* bound on the snapshots the relays store

ASSUME DeviceAssumption == Shopper \in Devices /\ DeviceOf \in [Tabs -> Devices]
ASSUME SkewAssumption == Skew \in [Devices -> Nat]
ASSUME BoundAssumption ==
  MaxTime \in Nat /\ MaxRevision \in Nat \ {0} /\ MaxSnapshots \in Nat

VARIABLES
  now,      \* real time
  db,       \* each device's row: revision (0: absent) and state
  relays,   \* recovery snapshots some relay stores
  job,      \* each tab's invocation
  caps,     \* each tab's live cancellations: the revision one is bound to, or 0
  history,  \* the provider's record of each transfer id
  wire,     \* payment requests on their way to the provider
  calls     \* how often a device has called the provider's send, per attempt

vars == <<now, db, relays, job, caps, history, wire, calls>>

-----------------------------------------------------------------------------
(* State.                                                                  *)

\* One id per leg and generation, derived from the plan: the same on every
\* device, whatever invoice the device has frozen.
TransferId(l, g, issuer) == <<l, g>>
TransferIds == {TransferId(l, g, d) : l \in Legs, g \in Generations, d \in Devices}

Transfer == [status : {"none", "pending", "paid", "failed", "returned"},
             issuer : Devices \cup {NoDevice}]
NoTransfer == [status |-> "none", issuer |-> NoDevice]

\* A payment names its invoice (leg, generation, issuer); the id rides along.
Payments == [leg : Legs, generation : Generations, issuer : Devices \cup {NoDevice}]

Steps == {"idle", "attest", "attest_ack", "begin", "prepare", "retain",
          "prepare_ack", "handoff", "observe", "observed", "submitted_ack", "cancel",
          "readback", "recheck", "send", "calling", "sent", "paid_ack"}
Modes == {"advance", "inspect", "prepare", "renew"}
Observations == {"none", "not_found", "pending", "paid", "terminal_failure",
                 "conflicting_evidence", "not_sent"}

Job == [step : Steps, mode : Modes, leg : Legs, todo : SUBSET Legs,
        revision : Nat, state : Reconciliation, cancelled : BOOLEAN,
        publishes : BOOLEAN, closed : BOOLEAN, seen : Observations]

IdleJob == [step |-> "idle", mode |-> "advance", leg |-> 1, todo |-> {},
            revision |-> 0, state |-> CreateReconciliation(0),
            cancelled |-> FALSE, publishes |-> FALSE, closed |-> FALSE,
            seen |-> "none"]

Snapshots == [author : {"shopper", "merchant"}, state : Reconciliation]

IsShopper(t) == DeviceOf[t] = Shopper
Author(t) == IF IsShopper(t) THEN "shopper" ELSE "merchant"
Row(t) == db[DeviceOf[t]]
Clock(d) == now + Skew[d]
Now(t) == Clock(DeviceOf[t])

At(t, step) == job[t].step = step
Goto(t, step) == job' = [job EXCEPT ![t].step = step]
Finish(t) == job' = [job EXCEPT ![t] = IdleJob]

Init ==
  /\ now = 0
  /\ db = [d \in Devices |->
             [revision |-> IF d = Shopper THEN 1 ELSE 0,
              state |-> CreateReconciliation(0)]]
  /\ relays = {[author |-> "shopper", state |-> CreateReconciliation(0)]}
  /\ job = [t \in Tabs |-> IdleJob]
  /\ caps = [t \in Tabs |-> [l \in Legs |-> 0]]
  /\ history = [id \in TransferIds |-> NoTransfer]
  /\ wire = {}
  /\ calls = [d \in Devices |-> [p \in Legs \X Generations |-> 0]]

-----------------------------------------------------------------------------
(* Authority and guards shared by the steps.                               *)

\* Shoppers may act before takeover, merchants from takeover on.
HasAuthority(t, at) ==
  IF IsShopper(t) THEN at < TakeoverAt ELSE at >= TakeoverAt

\* assertCurrent around every port: a shopper past takeover may only finish
\* watching an attempt it has already handed to the provider, or inspect one.
MayContinue(t) ==
  \/ HasAuthority(t, Now(t))
  \/ /\ IsShopper(t)
     /\ \/ job[t].mode = "inspect"
        \/ job[t].step \in {"sent", "paid_ack"}

\* The row is still the one this invocation last loaded or wrote.
Unchanged(t) ==
  Row(t) = [revision |-> job[t].revision, state |-> job[t].state]

\* Every load of a merchant demands a row that progresses from the signed
\* snapshot.  Rows only progress, except when a cancelled leg is submitted again:
\* that one no longer fits a snapshot which already shows its failure.
FitsSigned(t) ==
  job[t].closed => Status(Row(t).state, job[t].leg) \in {"terminal_failure", "paid"}

\* assertDurableState of a merchant's continuation; a shopper has no such check.
Durable(t) == IsShopper(t) \/ (Unchanged(t) /\ FitsSigned(t))

\* Mutant of CanSave: no compare-and-swap, no progression check.
CanSaveBlindly(t, s) == MayContinue(t) /\ Row(t).revision < MaxRevision

\* store.save under the revision the invocation holds.
CanSave(t, s) ==
  /\ MayContinue(t)
  /\ Row(t).revision = job[t].revision
  /\ Row(t).revision < MaxRevision
  /\ RecoveryProgression(Row(t).state, s)

Written(t, s) == [revision |-> Row(t).revision + 1, state |-> s]
Save(t, s) == db' = [db EXCEPT ![DeviceOf[t]] = Written(t, s)]

\* The job after a load or a save.
Holding(t, row, step) ==
  [job[t] EXCEPT !.revision = row.revision, !.state = row.state, !.step = step]

\* A cancellation is live for exactly the row it was granted for.
LiveCancellation(t, l, row) ==
  /\ Status(row.state, l) = "terminal_failure"
  /\ caps[t][l] = row.revision

Forget(t, l) == caps' = [caps EXCEPT ![t][l] = 0]

\* Mutants of ExactHistory: a pending transfer is taken for a paid one; the
\* transfer found under the id is not compared with the invoice.
HistoryTooEarly(s, l) ==
  LET transfer == history[TransferId(l, Generation(s, l), Current(s, l).issuer)]
  IN IF transfer.status = "none" THEN "not_found"
     ELSE IF transfer.issuer # Current(s, l).issuer THEN "conflicting_evidence"
     ELSE IF transfer.status \in {"pending", "paid"} THEN "paid"
     ELSE "terminal_failure"
HistoryOfAnyInvoice(s, l) ==
  LET transfer == history[TransferId(l, Generation(s, l), Current(s, l).issuer)]
  IN IF transfer.status = "none" THEN "not_found"
     ELSE IF transfer.status \in {"pending", "paid"} THEN transfer.status
     ELSE "terminal_failure"

\* What the exact-id history says of the invoice that device state s froze.
ExactHistory(s, l) ==
  LET issuer == Current(s, l).issuer
      transfer == history[TransferId(l, Generation(s, l), issuer)]
  IN IF transfer.status = "none" THEN "not_found"
     ELSE IF transfer.issuer # issuer THEN "conflicting_evidence"
     ELSE IF transfer.status \in {"pending", "paid"} THEN transfer.status
     ELSE "terminal_failure"

\* Mutant of FullyReturned: a failed transfer passes for a returned one.
FailedOrReturned(attempt, l) ==
  LET transfer == history[TransferId(l, 0, attempt.issuer)]
  IN transfer.status \in {"failed", "returned"} /\ transfer.issuer = attempt.issuer

\* A generation-0 debit of this exact invoice came back in full.
FullyReturned(attempt, l) ==
  history[TransferId(l, 0, attempt.issuer)]
    = [status |-> "returned", issuer |-> attempt.issuer]

\* A renewed leg may be sent only by a merchant who can still prove the return.
ParentReturned(t, s, l) ==
  Generation(s, l) = 1 =>
    ~IsShopper(t) /\ FullyReturned(s.legs[l].attempts[0], l)

\* Publication of a snapshot: acknowledged; stored though the acknowledgement
\* was lost; or not stored.  The last two look the same to the tab.
Publish(t, s) ==
  /\ relays' = IF job[t].publishes
               THEN relays \cup {[author |-> Author(t), state |-> s]}
               ELSE relays
  /\ relays' = relays \/ Cardinality(relays) < MaxSnapshots

-----------------------------------------------------------------------------
(* An invocation: load, and re-attest every frozen leg.                    *)

\* A continuing merchant's store throws unless the row holds the state expected.
MayLoad(t) ==
  /\ MayContinue(t)
  /\ FitsSigned(t)
  /\ IsShopper(t) \/ job[t].mode # "advance" \/ Row(t).state = job[t].state

\* The financial workflow: load, and attest every frozen leg first.
Attest(t, mode, l) ==
  [IdleJob EXCEPT !.step = "attest", !.mode = mode, !.leg = l,
                  !.todo = {m \in Legs : Frozen(Row(t).state, m)},
                  !.revision = Row(t).revision, !.state = Row(t).state,
                  !.publishes = TRUE]

\* Straight to a step that loads for itself.
Enter(step, mode, l) ==
  [IdleJob EXCEPT !.step = step, !.mode = mode, !.leg = l, !.publishes = TRUE]

StartShopper(t) ==
  /\ IsShopper(t) /\ At(t, "idle")
  /\ Credited(Row(t).state)
  /\ \E l \in Legs, mode \in {"advance", "inspect"} :
       /\ NextUnpaid(Row(t).state, l)
       /\ IF mode = "inspect" THEN CanInspectSubmittedAttempt(Row(t).state, l)
                              ELSE HasAuthority(t, Now(t))
       /\ job' = [job EXCEPT ![t] = Attest(t, mode, l)]
  /\ UNCHANGED <<now, db, relays, caps, history, wire, calls>>

\* runWithCheckoutSparkMerchantRecoveryLock: one tab per browser profile.
LockFree(t) ==
  \A u \in Tabs : (u # t /\ DeviceOf[u] = DeviceOf[t]) => At(u, "idle")

\* What every merchant operation asks before it touches anything.
MayRecover(t, signed) ==
  /\ ~IsShopper(t) /\ At(t, "idle") /\ LockFree(t)
  /\ HasAuthority(t, Now(t))
  /\ Row(t).revision > 0
  /\ RecoveryProgression(signed.state, Row(t).state)

\* Sending needs the exact payout in a signed snapshot, still to be sent.
Reviewed(signed, s, l) ==
  /\ Frozen(signed, l)
  /\ Generation(signed, l) = Generation(s, l)
  /\ Current(signed, l).issuer = Current(s, l).issuer
  /\ Current(signed, l).preparedAt = Current(s, l).preparedAt

\* Only a merchant that continues another merchant's progress publishes its own.
StartContinuation(t) ==
  /\ \E signed \in relays, l \in Legs :
       /\ MayRecover(t, signed)
       /\ NextUnpaid(Row(t).state, l)
       /\ Reviewed(signed.state, Row(t).state, l)
       /\ HasSendWindow(Current(Row(t).state, l), Now(t))
       /\ job' = [job EXCEPT ![t] =
                    [Attest(t, "advance", l)
                       EXCEPT !.publishes = (signed.author = "merchant"),
                              !.closed = (Status(signed.state, l) = "terminal_failure")]]
  /\ UNCHANGED <<now, db, relays, caps, history, wire, calls>>

\* allowRenewal, and the first invoice of the leg can no longer be sent.
Renewing(s, l, at) ==
  /\ Frozen(s, l)
  /\ Generation(s, l) = 0
  /\ ~HasSendWindow(Current(s, l), at)

\* A frozen intent that is not renewed is only published again.
StartPreparation(t) ==
  /\ \E signed \in relays, l \in Legs, mode \in {"prepare", "renew"} :
       /\ MayRecover(t, signed)
       /\ Credited(Row(t).state)
       /\ NextUnpaid(Row(t).state, l)
       /\ mode = "renew" => Renewing(Row(t).state, l, Now(t))
       /\ job' = [job EXCEPT ![t] =
            IF mode = "prepare" /\ Frozen(Row(t).state, l)
            THEN Enter("retain", mode, l) ELSE Attest(t, mode, l)]
  /\ UNCHANGED <<now, db, relays, caps, history, wire, calls>>

\* A history check runs the outgoing step, inspection only, on each frozen leg.
StartInspection(t) ==
  /\ \E signed \in relays, l \in Unpaid(Row(t).state) :
       /\ MayRecover(t, signed)
       /\ Frozen(Row(t).state, l)
       /\ job' = [job EXCEPT ![t] = Enter("begin", "inspect", l)]
  /\ UNCHANGED <<now, db, relays, caps, history, wire, calls>>

\* The first funding observation stores the exact credit and the allocations.
ObserveCredit(t) ==
  /\ At(t, "idle")
  /\ IsShopper(t) \/ \E signed \in relays : MayRecover(t, signed)
  /\ Row(t).revision \in 1 .. MaxRevision - 1
  /\ ~Credited(Row(t).state)
  /\ Save(t, RecordCredit(Row(t).state, Now(t)))
  /\ UNCHANGED <<now, relays, job, caps, history, wire, calls>>

Attesting(t, l) ==
  /\ At(t, "attest")
  /\ l \in job[t].todo
  /\ \A m \in job[t].todo : l <= m

Attested(t, l) == job' = [job EXCEPT ![t].todo = @ \ {l}]

Preparing(t) == job[t].mode \in {"prepare", "renew"}

\* Returned in full, whatever generation is current.
Returned(s, l) ==
  history[TransferId(l, Generation(s, l), Current(s, l).issuer)]
    = [status |-> "returned", issuer |-> Current(s, l).issuer]

\* The fresh exact history agrees with the saved leg: go on.  Anything else
\* that is not paid ends the invocation in a wait (Abort).
AttestAgrees(t) ==
  \E l \in Legs :
    /\ Attesting(t, l) /\ MayContinue(t)
    /\ LET s == job[t].state
           seen == ExactHistory(s, l)
       IN \/ /\ seen = "not_found"
             /\ \/ Status(s, l) = "prepared"
                \/ /\ job[t].mode = "advance"
                   /\ LiveCancellation(t, l, [revision |-> job[t].revision, state |-> s])
          \/ seen = "paid" /\ Status(s, l) = "paid"
          \/ /\ seen # "paid"
             /\ job[t].mode = "renew" /\ l = job[t].leg
             /\ Returned(s, l)
    /\ Attested(t, l)
    /\ UNCHANGED <<now, db, relays, caps, history, wire, calls>>

\* A positive fact finishes a leg that was still open in the saved state.
AttestPaid(t) ==
  \E l \in Legs :
    /\ Attesting(t, l) /\ MayLoad(t)
    /\ Status(job[t].state, l) # "paid"
    /\ ExactHistory(job[t].state, l) = "paid"
    /\ LET fresh == Row(t).state
           at == ObservedAt(fresh, Now(t))
           paid == RecordLegStatus(fresh, l, "paid", at)
       IN /\ Current(fresh, l).issuer = Current(job[t].state, l).issuer
          /\ Generation(fresh, l) = Generation(job[t].state, l)
          /\ CanRecordLegStatus(fresh, l, "paid", at)
          /\ Row(t).revision < MaxRevision
          /\ Save(t, paid)
          /\ job' = [job EXCEPT ![t] =
                       [Holding(t, Written(t, paid), "attest_ack")
                          EXCEPT !.todo = @ \ {l}]]
    /\ UNCHANGED <<now, relays, caps, history, wire, calls>>

\* A lost acknowledgement pauses the invocation, it never undoes the payment.
\* A merchant's preparation acknowledges nothing here.
AttestAck(t) ==
  /\ At(t, "attest_ack") /\ MayContinue(t)
  /\ \/ Preparing(t) /\ UNCHANGED relays /\ Goto(t, "attest")
     \/ ~Preparing(t) /\ Durable(t) /\ Publish(t, job[t].state) /\ Goto(t, "attest")
     \/ ~Preparing(t) /\ (Publish(t, job[t].state) \/ UNCHANGED relays) /\ Finish(t)
  /\ UNCHANGED <<now, db, caps, history, wire, calls>>

-----------------------------------------------------------------------------
(* Choosing the next obligation, and freezing its invoice.                 *)

\* A live cancellation owns its invoice; the prepare port of a shopper and the
\* outgoing step both load again.
Select(t) ==
  /\ At(t, "attest") /\ job[t].todo = {} /\ ~Preparing(t) /\ MayLoad(t)
  /\ LET row == Row(t)
         l == job[t].leg
         frozen == Frozen(row.state, l)
         live == job[t].mode = "advance" /\ LiveCancellation(t, l, row)
     IN /\ Credited(row.state)
        /\ NextUnpaid(row.state, l)
        /\ Status(row.state, l) \in {"terminal_failure", "conflicting_evidence"} => live
        /\ frozen \/ (IsShopper(t) /\ job[t].mode = "advance")
        /\ job' = [job EXCEPT ![t] = Holding(t, row, IF frozen THEN "begin" ELSE "prepare")]
  /\ UNCHANGED <<now, db, relays, caps, history, wire, calls>>

\* Another writer may have frozen the leg meanwhile.  Otherwise the transfer id
\* to be frozen must be unknown to the provider, whatever invoice it was for.
SelectPreparation(t) ==
  /\ At(t, "attest") /\ job[t].todo = {} /\ Preparing(t) /\ MayLoad(t)
  /\ LET row == Row(t)
         l == job[t].leg
         renewing == job[t].mode = "renew"
     IN \/ /\ Frozen(row.state, l)
           /\ ~renewing \/ Status(row.state, l) = "paid"
           /\ job' = [job EXCEPT ![t] = Holding(t, row, "retain")]
        \/ /\ Frozen(row.state, l) => renewing
           /\ NextUnpaid(row.state, l)
           /\ history[TransferId(l, IF renewing THEN 1 ELSE 0, DeviceOf[t])] = NoTransfer
           /\ job' = [job EXCEPT ![t] = Holding(t, row, "prepare")]
  /\ UNCHANGED <<now, db, relays, caps, history, wire, calls>>

\* assertPreparedState: since the selection only the leg itself may have moved.
SameSiblings(t) ==
  \A m \in Legs \ {job[t].leg} : Row(t).state.legs[m] = job[t].state.legs[m]
MayPrepare(t) ==
  /\ MayLoad(t)
  /\ HasAuthority(t, Now(t))
  /\ IsShopper(t) \/ (SameSiblings(t) /\ RecoveryProgression(job[t].state, Row(t).state))

\* Freeze a new invoice, or append a renewed generation behind a fresh proof
\* that the old one came back.  Another tab may have won the compare-and-swap.
Prepare(t) ==
  /\ At(t, "prepare") /\ MayPrepare(t)
  /\ LET row == Row(t)
         s == row.state
         l == job[t].leg
         next == IF Frozen(s, l) THEN RenewLeg(s, l, DeviceOf[t], Now(t))
                                 ELSE PrepareLeg(s, l, DeviceOf[t], Now(t))
     IN /\ IF Frozen(s, l)
           THEN /\ job[t].mode = "renew"
                /\ CanRenewLeg(s, l, Now(t))
                /\ FullyReturned(Current(s, l), l)
           ELSE CanPrepareLeg(s, l, Now(t))
        /\ row.revision < MaxRevision
        /\ RecoveryProgression(s, next)
        /\ Save(t, next)
        /\ job' = [job EXCEPT ![t] = Holding(t, Written(t, next), "prepare_ack")]
  /\ UNCHANGED <<now, relays, caps, history, wire, calls>>

\* An intent that is already frozen is only acknowledged again.
PrepareExisting(t) ==
  /\ At(t, "prepare") /\ MayPrepare(t)
  /\ Frozen(Row(t).state, job[t].leg)
  /\ job[t].mode # "renew" \/ Generation(Row(t).state, job[t].leg) = 1
  /\ job' = [job EXCEPT ![t] = Holding(t, Row(t), "prepare_ack")]
  /\ UNCHANGED <<now, db, relays, caps, history, wire, calls>>

\* retainExisting: a record last written before the takeover is saved once more
\* with a later time, so that it counts as the merchant's progress.
RetainExisting(t) ==
  /\ At(t, "retain") /\ MayLoad(t)
  /\ LET row == Row(t)
         late == [row.state EXCEPT !.updatedAt = Later(Now(t), TakeoverAt)]
         kept == IF row.state.updatedAt < TakeoverAt THEN Written(t, late) ELSE row
     IN /\ Frozen(row.state, job[t].leg)
        /\ kept.revision <= MaxRevision
        /\ db' = [db EXCEPT ![DeviceOf[t]] = kept]
        /\ job' = [job EXCEPT ![t] = Holding(t, kept, "prepare_ack")]
  /\ UNCHANGED <<now, relays, caps, history, wire, calls>>

PrepareAck(t) ==
  /\ At(t, "prepare_ack") /\ MayContinue(t) /\ Durable(t)
  /\ Publish(t, job[t].state) \/ UNCHANGED relays
  /\ Finish(t)
  /\ UNCHANGED <<now, db, caps, history, wire, calls>>

-----------------------------------------------------------------------------
(* The outgoing step: load and hand off, look, write ahead, hand off again,*)
(* look again, send.                                                       *)

PrerequisitesPaid(s, l) ==
  l = Conduit => \A m \in Legs \ {Conduit} : Status(s, m) = "paid"

SiblingPossiblySent(s, l) ==
  \E m \in Legs \ {l} : Status(s, m) \in PossibleSend

Begin(t) ==
  /\ At(t, "begin") /\ MayLoad(t)
  /\ LET row == Row(t)
         s == row.state
         l == job[t].leg
         inspecting == job[t].mode = "inspect"
         cancelled == ~inspecting /\ LiveCancellation(t, l, row)
     IN IF Status(s, l) = "paid"
        THEN Finish(t) /\ Forget(t, l)
        ELSE /\ Credited(s) /\ Frozen(s, l)
             /\ inspecting \/ (PrerequisitesPaid(s, l) /\ ~SiblingPossiblySent(s, l))
             /\ job' = [job EXCEPT ![t] =
                          [Holding(t, row, IF inspecting \/ cancelled
                                           THEN "observe" ELSE "handoff")
                             EXCEPT !.cancelled = cancelled]]
             /\ UNCHANGED caps
  /\ UNCHANGED <<now, db, relays, history, wire, calls>>

\* The merchant must hold the exact intent before anything irreversible.
Handoff(t) ==
  /\ At(t, "handoff") /\ MayContinue(t)
  /\ \/ Durable(t) /\ Publish(t, job[t].state) /\ Goto(t, "observe")
     \/ (Publish(t, job[t].state) \/ UNCHANGED relays) /\ Finish(t)
  /\ UNCHANGED <<now, db, caps, history, wire, calls>>

\* provider.reconcile; an adapter that cannot classify what it read reports a
\* conflict, one that cannot read makes the step wait (Abort).
Observe(t) ==
  /\ At(t, "observe") /\ MayContinue(t)
  /\ \E seen \in {ExactHistory(job[t].state, job[t].leg), "conflicting_evidence"} :
       /\ job' = [job EXCEPT ![t].step = "observed", ![t].seen = seen]
       /\ IF seen = "not_found" THEN UNCHANGED caps ELSE Forget(t, job[t].leg)
  /\ UNCHANGED <<now, db, relays, history, wire, calls>>

\* Mutant of RecordedAs: the provider's word is stored as it is.
RecordedVerbatim(seen) == seen

RecordedAs(seen) == IF seen = "pending" THEN "ambiguous" ELSE seen

\* Record a status under the held revision; the code throws where it cannot.
Recorded(t, status) ==
  RecordLegStatus(job[t].state, job[t].leg, status,
                  ObservedAt(job[t].state, Now(t)))
CanRecord(t, status) ==
  /\ CanRecordLegStatus(job[t].state, job[t].leg, status,
                        ObservedAt(job[t].state, Now(t)))
  /\ CanSave(t, Recorded(t, status))

RecordObserved(t) ==
  /\ At(t, "observed") /\ job[t].seen # "not_found"
  /\ CanRecord(t, RecordedAs(job[t].seen))
  /\ Save(t, Recorded(t, RecordedAs(job[t].seen)))
  /\ Finish(t)
  /\ UNCHANGED <<now, relays, caps, history, wire, calls>>

\* saveOutgoingPreProviderRetry: a cancelled leg alone may leave its terminal
\* failure, as if it were still prepared.
CanResubmit(t, s) ==
  /\ MayContinue(t)
  /\ Unchanged(t)
  /\ Row(t).revision < MaxRevision
  /\ LiveCancellation(t, job[t].leg, Row(t))
  /\ RecoveryProgression(Reopened(Row(t).state, job[t].leg, "submitted"), s)

\* Mutant of WriteAhead: no marker is written.
NoWriteAhead(t) ==
  /\ At(t, "observed") /\ job[t].seen = "not_found"
  /\ job[t].mode = "advance"
  /\ Status(job[t].state, job[t].leg) = "prepared"
  /\ Goto(t, "send")
  /\ UNCHANGED <<now, db, relays, caps, history, wire, calls>>

\* The possible-send marker is durable before the provider can be reached.
WriteAhead(t) ==
  /\ At(t, "observed") /\ job[t].seen = "not_found"
  /\ job[t].mode = "advance"
  /\ LET l == job[t].leg
         s == job[t].state
         cancelled == job[t].cancelled
         from == IF cancelled THEN Reopened(s, l, "prepared") ELSE s
         at == ObservedAt(s, Now(t))
         next == RecordLegStatus(from, l, "submitted", at)
     IN /\ Status(s, l) = "prepared" \/ cancelled
        /\ HasAuthority(t, Now(t))
        /\ HasSendWindow(Current(s, l), Now(t))
        /\ ParentReturned(t, s, l)
        /\ CanRecordLegStatus(from, l, "submitted", at)
        /\ IF cancelled THEN CanResubmit(t, next) ELSE CanSave(t, next)
        /\ Save(t, next)
        /\ job' = [job EXCEPT ![t] =
                     [Holding(t, Written(t, next), "submitted_ack")
                        EXCEPT !.cancelled = FALSE]]
        /\ IF cancelled THEN Forget(t, l) ELSE UNCHANGED caps
  /\ UNCHANGED <<now, relays, history, wire, calls>>

\* Mutant of HandoffSubmitted: goes on without the acknowledgement.
HandoffUnacknowledged(t) ==
  /\ At(t, "submitted_ack")
  /\ Publish(t, job[t].state) \/ UNCHANGED relays
  /\ Goto(t, "recheck")
  /\ UNCHANGED <<now, db, caps, history, wire, calls>>

HandoffSubmitted(t) ==
  /\ At(t, "submitted_ack")
  /\ \/ /\ MayContinue(t) /\ Durable(t)
        /\ Publish(t, job[t].state)
        /\ Goto(t, "recheck")
     \/ (Publish(t, job[t].state) \/ UNCHANGED relays) /\ Goto(t, "cancel")
  /\ UNCHANGED <<now, db, caps, history, wire, calls>>

\* The provider was never called: take the marker back, and remember so.
Cancel(t) ==
  /\ At(t, "cancel") /\ CanRecord(t, "terminal_failure")
  /\ LET next == Recorded(t, "terminal_failure")
     IN /\ Save(t, next)
        /\ job' = [job EXCEPT ![t] = Holding(t, Written(t, next), "readback")]
  /\ UNCHANGED <<now, relays, caps, history, wire, calls>>

RememberCancellation(t) ==
  /\ At(t, "readback") /\ MayLoad(t) /\ Unchanged(t)
  /\ caps' = [caps EXCEPT ![t][job[t].leg] = job[t].revision]
  /\ Finish(t)
  /\ UNCHANGED <<now, db, relays, history, wire, calls>>

\* The last look before the provider: proof, row, authority, window.
Recheck(t) ==
  /\ At(t, "recheck")
  /\ LET s == job[t].state
         l == job[t].leg
         ready == /\ ParentReturned(t, s, l)
                  /\ HasAuthority(t, Now(t))
                  /\ HasSendWindow(Current(s, l), Now(t))
     IN IF ready THEN Unchanged(t) /\ FitsSigned(t) /\ Goto(t, "send")
                 ELSE Goto(t, "cancel")
  /\ UNCHANGED <<now, db, relays, caps, history, wire, calls>>

\* The adapter finds the transfer id in use: no call, the history answers.
SendFindsHistory(t) ==
  /\ At(t, "send") /\ MayContinue(t)
  /\ LET seen == ExactHistory(job[t].state, job[t].leg)
     IN /\ seen # "not_found"
        /\ job' = [job EXCEPT ![t].step = "sent", ![t].seen = seen]
  /\ UNCHANGED <<now, db, relays, caps, history, wire, calls>>

\* Fee over the cap, reserve gone, invoice expired: refused before the call.
SendRefused(t) ==
  /\ At(t, "send") /\ MayContinue(t)
  /\ job' = [job EXCEPT ![t].step = "sent", ![t].seen = "not_sent"]
  /\ UNCHANGED <<now, db, relays, caps, history, wire, calls>>

CallProvider(t) ==
  /\ At(t, "send")
  /\ LET s == job[t].state
         l == job[t].leg
         g == Generation(s, l)
     IN /\ ExactHistory(s, l) = "not_found"
        /\ HasAuthority(t, Now(t))
        /\ HasSendWindow(Current(s, l), Now(t))
        /\ ParentReturned(t, s, l)
        /\ Durable(t)
        /\ wire' = wire \cup {[leg |-> l, generation |-> g,
                               issuer |-> Current(s, l).issuer]}
        /\ calls' = [calls EXCEPT ![DeviceOf[t]][<<l, g>>] = @ + 1]
  /\ Goto(t, "calling")
  /\ UNCHANGED <<now, db, relays, caps, history>>

\* The answer of the call is not evidence: the exact history is read again,
\* and an empty read after a call means "pending".
SendReturns(t) ==
  /\ At(t, "calling")
  /\ LET seen == ExactHistory(job[t].state, job[t].leg)
     IN job' = [job EXCEPT ![t].step = "sent",
                           ![t].seen = IF seen = "not_found" THEN "pending" ELSE seen]
  /\ UNCHANGED <<now, db, relays, caps, history, wire, calls>>

\* A doubtful result leaves the marker where it is.
SendAmbiguous(t) ==
  /\ At(t, "sent") /\ job[t].seen \in {"pending", "conflicting_evidence"}
  /\ Finish(t)
  /\ UNCHANGED <<now, db, relays, caps, history, wire, calls>>

RecordSent(t) ==
  /\ At(t, "sent") /\ job[t].seen \in {"paid", "terminal_failure", "not_sent"}
  /\ LET status == IF job[t].seen = "paid" THEN "paid" ELSE "terminal_failure"
         next == Recorded(t, status)
     IN /\ CanRecord(t, status)
        /\ Save(t, next)
        /\ IF status = "paid"
           THEN job' = [job EXCEPT ![t] = Holding(t, Written(t, next), "paid_ack")]
           ELSE Finish(t)
  /\ UNCHANGED <<now, relays, caps, history, wire, calls>>

PaidAck(t) ==
  /\ At(t, "paid_ack")
  /\ Publish(t, job[t].state) \/ UNCHANGED relays
  /\ Finish(t)
  /\ UNCHANGED <<now, db, caps, history, wire, calls>>

-----------------------------------------------------------------------------
(* Everything around the invocations.                                      *)

\* A wait, a thrown error, a revoked session: the invocation is over.
Abort(t) ==
  /\ ~At(t, "idle")
  /\ Finish(t)
  /\ UNCHANGED <<now, db, relays, caps, history, wire, calls>>

\* The page is closed or reloaded: its cancellations are gone with it.
Crash(t) ==
  /\ Finish(t)
  /\ caps' = [caps EXCEPT ![t] = [l \in Legs |-> 0]]
  /\ UNCHANGED <<now, db, relays, history, wire, calls>>

\* Mutant of Import: any signed snapshot overwrites the row.
ImportUnchecked(d, snapshot) ==
  /\ d # Shopper
  /\ db[d].revision < MaxRevision
  /\ db[d].state # snapshot.state \/ db[d].revision = 0
  /\ db' = [db EXCEPT ![d] = [revision |-> @.revision + 1, state |-> snapshot.state]]
  /\ UNCHANGED <<now, relays, job, caps, history, wire, calls>>

\* A merchant stores a signed snapshot, new or old, if it is not behind.
Import(d, snapshot) ==
  /\ d # Shopper
  /\ LET row == db[d]
     IN /\ row.revision < MaxRevision
        /\ row.state # snapshot.state \/ row.revision = 0
        /\ row.revision > 0 => RecoveryProgression(row.state, snapshot.state)
        /\ db' = [db EXCEPT ![d] = [revision |-> row.revision + 1,
                                    state |-> snapshot.state]]
  /\ UNCHANGED <<now, relays, job, caps, history, wire, calls>>

\* The provider takes a transfer id once; what it has seen it refuses.
ProviderReceives(p) ==
  LET id == TransferId(p.leg, p.generation, p.issuer)
  IN /\ wire' = wire \ {p}
     /\ history' = IF history[id] = NoTransfer
                   THEN [history EXCEPT ![id] = [status |-> "pending",
                                                 issuer |-> p.issuer]]
                   ELSE history
     /\ UNCHANGED <<now, db, relays, job, caps, calls>>

RequestLost(p) ==
  /\ wire' = wire \ {p}
  /\ UNCHANGED <<now, db, relays, job, caps, history, calls>>

ProviderMoves(id) ==
  /\ \E step \in {<<"pending", "paid">>, <<"pending", "failed">>,
                  <<"failed", "returned">>} :
       /\ history[id].status = step[1]
       /\ history' = [history EXCEPT ![id].status = step[2]]
  /\ UNCHANGED <<now, db, relays, job, caps, wire, calls>>

Tick ==
  /\ now < MaxTime
  /\ now' = now + 1
  /\ UNCHANGED <<db, relays, job, caps, history, wire, calls>>

TabStep(t) ==
  \/ StartShopper(t) \/ StartContinuation(t) \/ StartPreparation(t)
  \/ StartInspection(t) \/ ObserveCredit(t)
  \/ AttestAgrees(t) \/ AttestPaid(t) \/ AttestAck(t)
  \/ Select(t) \/ SelectPreparation(t) \/ Prepare(t) \/ PrepareExisting(t)
  \/ RetainExisting(t) \/ PrepareAck(t)
  \/ Begin(t) \/ Handoff(t) \/ Observe(t) \/ RecordObserved(t)
  \/ WriteAhead(t) \/ HandoffSubmitted(t) \/ Cancel(t)
  \/ RememberCancellation(t) \/ Recheck(t)
  \/ SendFindsHistory(t) \/ SendRefused(t) \/ CallProvider(t)
  \/ SendReturns(t) \/ SendAmbiguous(t) \/ RecordSent(t) \/ PaidAck(t)

ProviderStep ==
  \/ \E p \in wire : ProviderReceives(p) \/ RequestLost(p)
  \/ \E id \in TransferIds : ProviderMoves(id)

Next ==
  \/ \E t \in Tabs : TabStep(t) \/ Abort(t) \/ Crash(t)
  \/ \E d \in Devices, snapshot \in relays : Import(d, snapshot)
  \/ ProviderStep
  \/ Tick

Spec == Init /\ [][Next]_vars

-----------------------------------------------------------------------------
(* Properties.                                                             *)

Rows == [revision : Nat, state : Reconciliation]

\* Every variable keeps the shape the code gives it.
TypeOK ==
  /\ now \in Nat
  /\ db \in [Devices -> Rows]
  /\ relays \subseteq Snapshots
  /\ job \in [Tabs -> Job]
  /\ caps \in [Tabs -> [Legs -> Nat]]
  /\ history \in [TransferIds -> Transfer]
  /\ wire \subseteq Payments
  /\ calls \in [Devices -> [Legs \X Generations -> Nat]]

\* The device has frozen leg l in generation g and says so in a status that
\* no crash, reload or second tab can mistake for "never sent".
MarkedSent(s, l, g) ==
  \/ Generation(s, l) > g
  \/ Generation(s, l) = g /\ Status(s, l) \notin {"unprepared", "prepared"}

\* Write-ahead: once a device has called the provider for an attempt, its own
\* database never again shows that attempt as merely prepared
\* (runCheckoutSparkSettledOutgoingStep, the "submitted" marker).
SentIsMarked ==
  \A d \in Devices, l \in Legs, g \in Generations :
    calls[d][<<l, g>>] > 0 => MarkedSent(db[d].state, l, g)

\* One device never calls the provider twice for one attempt, over all its
\* tabs, crashes, cancellations and retries.
AtMostOneCall ==
  \A d \in Devices, l \in Legs, g \in Generations : calls[d][<<l, g>>] <= 1

\* A leg takes money at most once: two transfers of one leg are never both
\* unreturned, over all devices, invoices and generations.
LegPaidOnce ==
  \A i, j \in TransferIds :
    (i # j /\ i[1] = j[1] /\ history[i] # NoTransfer /\ history[j] # NoTransfer)
      => "returned" \in {history[i].status, history[j].status}

\* Every copy of the record that says paid - a row or a snapshot on a relay -
\* names an invoice the provider has paid.
PaidAtProvider(s, l) ==
  Status(s, l) = "paid" =>
    history[TransferId(l, Generation(s, l), Current(s, l).issuer)]
      = [status |-> "paid", issuer |-> Current(s, l).issuer]
PaidIsProven ==
  \A l \in Legs :
    /\ \A d \in Devices : PaidAtProvider(db[d].state, l)
    /\ \A snapshot \in relays : PaidAtProvider(snapshot.state, l)

\* Before the shopper's money can move, some relay holds the exact intent
\* with its possible-send marker, so that a merchant can ask the provider.
HandedOffBeforeCall ==
  \A l \in Legs : calls[Shopper][<<l, 0>>] > 0 =>
    \E snapshot \in relays :
      /\ Current(snapshot.state, l).issuer = Shopper
      /\ MarkedSent(snapshot.state, l, 0)

\* Every row and every published snapshot can be loaded again: no sequence of
\* operations saves a record that restoreCheckoutSparkSettledReconciliation
\* rejects, which would leave the checkout stuck for good.
RowsRestorable ==
  /\ \A d \in Devices : Restorable(db[d].state)
  /\ \A snapshot \in relays : Restorable(snapshot.state)

\* A database only ever moves forward in the recovery order, except that a
\* live cancellation may be retried; a paid leg stays paid even then.
RowsGoForward ==
  \A d \in Devices :
    db[d].revision > 0 =>
      \/ RecoveryProgression(db[d].state, db'[d].state)
      \/ \E t \in Tabs, l \in Legs :
           /\ DeviceOf[t] = d
           /\ LiveCancellation(t, l, db[d])
           /\ RecoveryProgression(Reopened(db[d].state, l, "submitted"), db'[d].state)
RowsProgress == [][RowsGoForward]_vars

\* The provider's history, forgetting who asked for what: the money of a leg is
\* where its last transfer is.  The whole system - every device, tab, crash and
\* lost answer - implements Payouts: legs go out in order and once
\* (settled-router's plan order, the workflow's first unpaid leg, the outgoing
\* step's sibling checks), and again only after a full return.
Retried(l) == history[TransferId(l, 1, Shopper)] # NoTransfer
Promise == INSTANCE Payouts WITH
  money <- [l \in Legs |->
    history[TransferId(l, IF Retried(l) THEN 1 ELSE 0, Shopper)].status],
  retried <- [l \in Legs |-> Retried(l)]
ImplementsPayouts == Promise!Spec
=============================================================================
