----------------------------- MODULE NativeTreasury -----------------------------
(***************************************************************************)
(* The last payment of a settled checkout: once every commerce leg is      *)
(* paid, the rest of the credit goes to the treasury's native invoice.     *)
(*                                                                         *)
(* The shopper's device, until takeover, and merchants' devices, from      *)
(* takeover on, run runCheckoutSparkNativeTreasuryStep.  The invoice names *)
(* no transfer in advance: a sender learns the transfer's id from the      *)
(* provider, and may not take the invoice's absence from the provider's    *)
(* history for a proof that nothing was sent.  A send that was certainly   *)
(* not made can be retried, but only by the page that saw it not be made.  *)
(*                                                                         *)
(* Each device keeps a row, written by compare-and-swap on a revision.     *)
(* The commerce legs, and the proof of them, are a condition that may      *)
(* fail; SettledOutgoing models their payment.                             *)
(***************************************************************************)
EXTENDS Naturals

CONSTANTS
  Devices,      \* browser profiles
  Shopper,      \* the buyer's; every other device is a merchant's
  NoDevice,     \* no intent yet
  Tabs,         \* open pages
  DeviceOf,     \* the profile of a page
  MaxRevision,  \* bound on a row's revision
  MaxAttempts   \* bound on how often a row is marked as submitted

DeviceAssumption ==
  /\ Shopper \in Devices /\ NoDevice \notin Devices
  /\ DeviceOf \in [Tabs -> Devices]
BoundAssumption == MaxRevision \in Nat \ {0} /\ MaxAttempts \in Nat

VARIABLES
  late,      \* the devices whose clock has passed takeover
  db,        \* each device's row: revision (0: absent) and state
  relays,    \* the recovery snapshots relays store
  job,       \* each page's invocation
  caps,      \* each page's cancellation: the revision it is bound to, or 0
  admitted,  \* pages whose wallet session has handed the invoice to the SDK
  transfer,  \* the provider's transfer for the invoice
  wire,      \* the devices with a fulfilment on its way to the provider
  calls      \* how often a device has handed the invoice to the SDK

vars == <<late, db, relays, job, caps, admitted, transfer, wire, calls>>

-----------------------------------------------------------------------------
(* State.                                                                  *)

Statuses == {"unprepared", "prepared", "submitted", "ambiguous",
             "conflicting_evidence", "paid", "terminal_failure"}
Uncertain == {"ambiguous", "conflicting_evidence"}
Outcomes == {"none", "pending", "paid", "failed"}
Observations == {"none", "not_found", "pending", "paid", "terminal_failure",
                 "conflicting_evidence"}
Steps == {"idle", "prepare", "reconcile", "observed", "prepared_ack", "preflight",
          "mark", "submitted_ack", "reprove", "recheck", "inspect_send", "calling",
          "reference", "observe_sent", "cancel", "readback", "paid_ack"}

\* treasuryFinalization: intent by the device that froze it, ref whether the
\* transfer's id is stored, attempt for the observedAt of the submission.
Finalization == [status : Statuses, intent : Devices \cup {NoDevice},
                 ref : BOOLEAN, attempt : 0 .. MaxAttempts]
Unprepared == [status |-> "unprepared", intent |-> NoDevice, ref |-> FALSE,
               attempt |-> 0]

Row == [revision : Nat, state : Finalization]
Job == [step : Steps, revision : Nat, state : Finalization,
        retry : BOOLEAN, sent : BOOLEAN, inspect : BOOLEAN, seen : Observations]
Idle == [step |-> "idle", revision |-> 0, state |-> Unprepared,
         retry |-> FALSE, sent |-> FALSE, inspect |-> FALSE, seen |-> "none"]

IsShopper(t) == DeviceOf[t] = Shopper
RowOf(t) == db[DeviceOf[t]]
At(t, step) == job[t].step = step
Goto(t, step) == job' = [job EXCEPT ![t].step = step]
Finish(t) == job' = [job EXCEPT ![t] = Idle]

Init ==
  /\ late = {}
  /\ db = [d \in Devices |-> [revision |-> IF d = Shopper THEN 1 ELSE 0,
                              state |-> Unprepared]]
  /\ relays = {Unprepared}
  /\ job = [t \in Tabs |-> Idle]
  /\ caps = [t \in Tabs |-> 0]
  /\ admitted = {}
  /\ transfer = "none"
  /\ wire = {}
  /\ calls = [d \in Devices |-> 0]

-----------------------------------------------------------------------------
(* The row.                                                                *)

\* Mutant of Progression: a snapshot without the transfer's id may replace a
\* row that has it.
ProgressionWithoutReference(before, after) ==
  /\ before.intent # NoDevice => after.intent = before.intent
  /\ after.attempt >= before.attempt
  /\ CASE before.status = "unprepared"       -> TRUE
       [] before.status = "prepared"         -> after.status # "unprepared"
       [] before.status = "submitted"        -> after.status \notin {"unprepared", "prepared"}
       [] before.status = "terminal_failure" -> after.status \in {"terminal_failure", "paid"}
       [] before.status \in Uncertain        ->
            after.status \in Uncertain \cup {"paid", "terminal_failure"}
       [] before.status = "paid"             -> after.status = "paid"

\* assertCheckoutSparkSettledRecoveryProgression: what a row may become.
Progression(before, after) ==
  /\ before.intent # NoDevice => after.intent = before.intent
  /\ before.ref => after.ref
  /\ after.attempt >= before.attempt
  /\ CASE before.status = "unprepared"       -> TRUE
       [] before.status = "prepared"         -> after.status # "unprepared"
       [] before.status = "submitted"        -> after.status \notin {"unprepared", "prepared"}
       [] before.status = "terminal_failure" -> after.status \in {"terminal_failure", "paid"}
       [] before.status \in Uncertain        ->
            after.status \in Uncertain \cup {"paid", "terminal_failure"}
       [] before.status = "paid"             -> after.status = "paid"

\* A merchant acts from takeover on, a shopper before it.
HasAuthority(t) == IsShopper(t) <=> DeviceOf[t] \notin late

\* What the ports ask before and after: a buyer past takeover may only look at
\* an attempt that may have been sent.
MayContinue(t) == HasAuthority(t) \/ job[t].inspect

\* assertDurable around a merchant's ports: the row is the one last seen.
Durable(t) ==
  \/ IsShopper(t)
  \/ RowOf(t).state = job[t].state

SameRow(t) == RowOf(t) = [revision |-> job[t].revision, state |-> job[t].state]

\* Mutant of CanSave: no compare-and-swap.
CanSaveBlindly(t) == MayContinue(t) /\ RowOf(t).revision < MaxRevision

\* saveState under the revision the invocation holds.
CanSave(t) ==
  /\ MayContinue(t)
  /\ RowOf(t).revision = job[t].revision
  /\ RowOf(t).revision < MaxRevision

\* The row and the invocation after a save.
Saved(t, s, step) ==
  /\ db' = [db EXCEPT ![DeviceOf[t]] = [revision |-> @.revision + 1, state |-> s]]
  /\ job' = [job EXCEPT ![t] = [@ EXCEPT !.revision = RowOf(t).revision + 1,
                                        !.state = s, !.step = step]]

\* One page of a merchant's profile at a time.
LockFree(t) ==
  IsShopper(t) \/ \A u \in Tabs \ {t} : DeviceOf[u] = DeviceOf[t] => At(u, "idle")

-----------------------------------------------------------------------------
(* One step of the treasury payment.                                       *)

\* The row as loaded.
Loaded(t, step, inspect) ==
  job' = [job EXCEPT ![t] =
    [Idle EXCEPT !.step = step, !.inspect = inspect,
                 !.revision = RowOf(t).revision, !.state = RowOf(t).state]]

\* Load.  A merchant opens the wallet anew; a buyer's stays open.  A merchant's row must progress from the signed snapshot selected.
Start(t) ==
  /\ At(t, "idle") /\ LockFree(t) /\ HasAuthority(t)
  /\ RowOf(t).revision > 0
  /\ IsShopper(t) \/ \E signed \in relays : Progression(signed, RowOf(t).state)
  /\ RowOf(t).state.status # "paid"
  /\ Loaded(t, IF RowOf(t).state.intent = NoDevice THEN "prepare" ELSE "reconcile", FALSE)
  /\ admitted' = IF IsShopper(t) THEN admitted ELSE admitted \ {t}
  /\ UNCHANGED <<late, db, relays, caps, transfer, wire, calls>>

\* The buyer's history check of an attempt that may have been sent, at any time.
StartInspection(t) ==
  /\ At(t, "idle") /\ IsShopper(t)
  /\ RowOf(t).state.status \in {"submitted", "ambiguous"}
  /\ Loaded(t, "reconcile", TRUE)
  /\ UNCHANGED <<late, db, relays, caps, admitted, transfer, wire, calls>>

\* Commerce is proven and the exact amount frozen.
Prepare(t) ==
  /\ At(t, "prepare") /\ HasAuthority(t) /\ CanSave(t)
  /\ Saved(t, [Unprepared EXCEPT !.status = "prepared", !.intent = DeviceOf[t]],
           "reconcile")
  /\ UNCHANGED <<late, relays, caps, admitted, transfer, wire, calls>>

\* inspectCheckoutTreasury: the invoice's status and its exact transfer, or an
\* answer that fits neither.  An absent invoice whose transfer id is stored is an
\* unavailable lookup (Abort), not an absence.
Inspect(s) ==
  {"conflicting_evidence"} \cup
  CASE transfer = "none"    -> IF s.ref THEN {} ELSE {"not_found"}
    [] transfer = "pending" -> {"pending"}
    [] transfer = "paid"    -> {"paid"}
    [] transfer = "failed"  -> {"terminal_failure"}

Reconcile(t) ==
  /\ At(t, "reconcile") \/ At(t, "observe_sent")
  /\ MayContinue(t)
  /\ \E seen \in Inspect(RowOf(t).state) :
       job' = [job EXCEPT ![t] = [@ EXCEPT !.step = "observed", !.seen = seen]]
  /\ UNCHANGED <<late, db, relays, caps, admitted, transfer, wire, calls>>

\* Mutant of RecordedAs: the provider's own word is stored.
RecordedVerbatim(seen) == seen

RecordedAs(seen) == IF seen = "pending" THEN "ambiguous" ELSE seen

\* recordCheckoutSparkNativeTreasuryStatus: the evidence that names the transfer
\* adds its id, no evidence removes it, and a paid record stays paid.
Recorded(s, seen) ==
  [s EXCEPT !.status = RecordedAs(seen),
            !.ref = s.ref \/ seen \in {"pending", "paid", "terminal_failure"}]

RecordObserved(t) ==
  LET next == Recorded(job[t].state, job[t].seen)
      paid == job[t].seen = "paid"
  IN /\ At(t, "observed") /\ job[t].seen # "not_found"
     /\ CanSave(t) /\ Progression(RowOf(t).state, next)
     /\ db' = [db EXCEPT ![DeviceOf[t]] = [revision |-> @.revision + 1, state |-> next]]
     /\ job' = [job EXCEPT ![t] =
          IF paid /\ job[t].sent
          THEN [job[t] EXCEPT !.revision = RowOf(t).revision + 1, !.state = next,
                              !.step = "paid_ack"]
          ELSE Idle]
     /\ caps' = IF paid THEN [caps EXCEPT ![t] = 0] ELSE caps
     /\ UNCHANGED <<late, relays, admitted, transfer, wire, calls>>

\* A cancellation is live for exactly the row it was granted for.
LiveCancellation(t) ==
  /\ job[t].state.status = "terminal_failure"
  /\ caps[t] = job[t].revision

\* "prior_possible_send": only a prepared payment, or one this page took back.
Admissible(t) == job[t].state.status = "prepared" \/ LiveCancellation(t)

\* Nothing is found: commerce is proven again.  What this page took back is not
\* published, the fresh mark will be.
Admit(t) ==
  /\ At(t, "observed") /\ job[t].seen = "not_found" /\ ~job[t].sent
  /\ HasAuthority(t) /\ ~job[t].inspect
  /\ Admissible(t)
  /\ LET retry == job[t].state.status # "prepared"
     IN job' = [job EXCEPT ![t] =
          [@ EXCEPT !.retry = retry, !.seen = "none",
                    !.step = IF retry THEN "preflight" ELSE "prepared_ack"]]
  /\ UNCHANGED <<late, db, relays, caps, admitted, transfer, wire, calls>>

\* A relay stores the snapshot; the acknowledgement arrives, or is lost (Abort
\* and GiveUp).
Store(t) ==
  /\ job[t].step \in {"prepared_ack", "submitted_ack", "paid_ack"}
  /\ Durable(t) /\ HasAuthority(t)
  /\ job[t].state \notin relays
  /\ relays' = relays \cup {job[t].state}
  /\ UNCHANGED <<late, db, job, caps, admitted, transfer, wire, calls>>

Acknowledged(t) == Durable(t) /\ HasAuthority(t) /\ job[t].state \in relays

PreparedAck(t) ==
  /\ At(t, "prepared_ack") /\ Acknowledged(t)
  /\ Goto(t, "preflight")
  /\ UNCHANGED <<late, db, relays, caps, admitted, transfer, wire, calls>>

\* The adapter admits the exact target: a row prepared, or taken back by us.
Preflight(t) ==
  /\ At(t, "preflight") /\ Durable(t) /\ HasAuthority(t)
  /\ RowOf(t).state.intent = job[t].state.intent
  /\ \/ RowOf(t).state.status = "prepared"
     \/ RowOf(t).state.status = "terminal_failure" /\ job[t].retry
  /\ Goto(t, "mark")
  /\ UNCHANGED <<late, db, relays, caps, admitted, transfer, wire, calls>>

Marked(s) == [s EXCEPT !.status = "submitted", !.attempt = @ + 1]

\* The marker is written ahead of the send.  A retry's save checks its
\* cancellation against the stored row and uses it up.
Mark(t) ==
  /\ At(t, "mark") /\ HasAuthority(t) /\ CanSave(t)
  /\ job[t].state.attempt < MaxAttempts
  /\ IF job[t].retry
     THEN LiveCancellation(t) /\ SameRow(t) /\ ~job[t].state.ref
     ELSE Progression(RowOf(t).state, Marked(job[t].state))
  /\ Saved(t, Marked(job[t].state), "submitted_ack")
  /\ caps' = IF job[t].retry THEN [caps EXCEPT ![t] = 0] ELSE caps
  /\ UNCHANGED <<late, relays, admitted, transfer, wire, calls>>

SubmittedAck(t) ==
  /\ At(t, "submitted_ack") /\ Acknowledged(t)
  /\ Goto(t, "reprove")
  /\ UNCHANGED <<late, db, relays, caps, admitted, transfer, wire, calls>>

Reprove(t) ==
  /\ At(t, "reprove") /\ Durable(t) /\ HasAuthority(t)
  /\ Goto(t, "recheck")
  /\ UNCHANGED <<late, db, relays, caps, admitted, transfer, wire, calls>>

\* The load right before the send, and the last look at the clock: without the
\* authority, the store would refuse the cancellation too (Abort).
Recheck(t) ==
  /\ At(t, "recheck") /\ SameRow(t) /\ HasAuthority(t)
  /\ Goto(t, "inspect_send")
  /\ UNCHANGED <<late, db, relays, caps, admitted, transfer, wire, calls>>

\* No acknowledgement or no proof, before the send: certainly not sent.
GiveUp(t) ==
  /\ job[t].step \in {"submitted_ack", "reprove"}
  /\ Goto(t, "cancel")
  /\ UNCHANGED <<late, db, relays, caps, admitted, transfer, wire, calls>>

\* sendCheckoutTreasury looks once more, before the SDK: another's transfer, or
\* an admission of this wallet session, ends the step as a possible send.
InspectSend(t) ==
  /\ At(t, "inspect_send") /\ Durable(t) /\ HasAuthority(t)
  /\ RowOf(t).state.status = "submitted"
  /\ \E seen \in Inspect(RowOf(t).state) :
       Goto(t, IF seen # "not_found" \/ t \in admitted
               THEN "observe_sent" ELSE "calling")
  /\ UNCHANGED <<late, db, relays, caps, admitted, transfer, wire, calls>>

\* Its own preflight or proof fails: a positive "not_sent".
NotSent(t) ==
  /\ At(t, "calling") /\ t \notin admitted
  /\ Goto(t, "cancel")
  /\ UNCHANGED <<late, db, relays, caps, admitted, transfer, wire, calls>>

\* assertBeforeSend has held, and the invoice is handed to the SDK.
Call(t) ==
  /\ At(t, "calling") /\ t \notin admitted
  /\ Durable(t) /\ HasAuthority(t)
  /\ RowOf(t).state.intent = job[t].state.intent
  /\ admitted' = admitted \cup {t}
  /\ wire' = wire \cup {DeviceOf[t]}
  /\ calls' = [calls EXCEPT ![DeviceOf[t]] = @ + 1]
  /\ UNCHANGED <<late, db, relays, job, caps, transfer>>

\* The SDK answers: with the transfer, or with any error, which proves nothing.
Answer(t) ==
  /\ At(t, "calling") /\ t \in admitted
  /\ \E step \in {"reference", "observe_sent"} :
       /\ step = "reference" => transfer \in {"pending", "paid"}
       /\ job' = [job EXCEPT ![t] = [@ EXCEPT !.step = step, !.sent = TRUE]]
  /\ UNCHANGED <<late, db, relays, caps, admitted, transfer, wire, calls>>

\* cancelPreProviderAdmission runs only where the SDK was certainly not called.
CancelledFrom(t) == At(t, "cancel")

\* saveTreasurySubmittedReference: the returned id, over the exact marked row.
\* Its guard is the account's, not the authority to send.
KeepReference(t) ==
  /\ At(t, "reference") /\ SameRow(t) /\ RowOf(t).revision < MaxRevision
  /\ job[t].state.status = "submitted" /\ ~job[t].state.ref
  /\ Saved(t, [job[t].state EXCEPT !.ref = TRUE], "observe_sent")
  /\ UNCHANGED <<late, relays, caps, admitted, transfer, wire, calls>>

Cancel(t) ==
  LET next == [job[t].state EXCEPT !.status = "terminal_failure"]
  IN /\ CancelledFrom(t) /\ CanSave(t)
     /\ job[t].state.status = "submitted" /\ ~job[t].state.ref
     /\ Progression(RowOf(t).state, next)
     /\ Saved(t, next, "readback")
     /\ UNCHANGED <<late, relays, caps, admitted, transfer, wire, calls>>

\* Read back, then remembered, by this page only, for exactly this row.
Remember(t) ==
  /\ At(t, "readback") /\ SameRow(t)
  /\ caps' = [caps EXCEPT ![t] = job[t].revision]
  /\ Finish(t)
  /\ UNCHANGED <<late, db, relays, admitted, transfer, wire, calls>>

PaidAck(t) ==
  /\ At(t, "paid_ack") /\ Acknowledged(t)
  /\ Finish(t)
  /\ UNCHANGED <<late, db, relays, caps, admitted, transfer, wire, calls>>

\* Any wait, and any await that throws.
Abort(t) ==
  /\ ~At(t, "idle")
  /\ ~(At(t, "calling") /\ t \in admitted)
  /\ Finish(t)
  /\ UNCHANGED <<late, db, relays, caps, admitted, transfer, wire, calls>>

\* The page is reloaded: cancellations and the wallet session are gone.
Crash(t) ==
  /\ job[t] # Idle \/ caps[t] # 0 \/ t \in admitted
  /\ Finish(t)
  /\ caps' = [caps EXCEPT ![t] = 0]
  /\ admitted' = admitted \ {t}
  /\ UNCHANGED <<late, db, relays, transfer, wire, calls>>

-----------------------------------------------------------------------------
(* Around the pages.                                                       *)

\* importRecoveryState: a merchant stores a signed snapshot that is not behind.
Import(d, snapshot) ==
  /\ d # Shopper
  /\ db[d].revision < MaxRevision
  /\ db[d].state # snapshot \/ db[d].revision = 0
  /\ db[d].revision > 0 => Progression(db[d].state, snapshot)
  /\ db' = [db EXCEPT ![d] = [revision |-> @.revision + 1, state |-> snapshot]]
  /\ UNCHANGED <<late, relays, job, caps, admitted, transfer, wire, calls>>

\* One active transfer per invoice; a fulfilment may also be refused or lost.
Fulfil(d) ==
  /\ d \in wire
  /\ wire' = wire \ {d}
  /\ transfer' \in {transfer, IF transfer = "none" THEN "pending" ELSE transfer}
  /\ UNCHANGED <<late, db, relays, job, caps, admitted, calls>>

\* The transfer is committed, or it is returned or expires.
Move ==
  /\ transfer = "pending"
  /\ transfer' \in {"paid", "failed"}
  /\ UNCHANGED <<late, db, relays, job, caps, admitted, wire, calls>>

TakeOver(d) ==
  /\ d \notin late
  /\ late' = late \cup {d}
  /\ UNCHANGED <<db, relays, job, caps, admitted, transfer, wire, calls>>

Page(t) ==
  \/ Start(t) \/ StartInspection(t) \/ Prepare(t) \/ Reconcile(t) \/ RecordObserved(t)
  \/ Admit(t) \/ Store(t) \/ PreparedAck(t) \/ Preflight(t) \/ Mark(t) \/ SubmittedAck(t)
  \/ Reprove(t) \/ Recheck(t) \/ GiveUp(t) \/ InspectSend(t) \/ NotSent(t)
  \/ Call(t) \/ Answer(t) \/ KeepReference(t) \/ Cancel(t) \/ Remember(t)
  \/ PaidAck(t) \/ Abort(t) \/ Crash(t)

Next ==
  \/ \E t \in Tabs : Page(t)
  \/ \E d \in Devices : Fulfil(d) \/ TakeOver(d)
  \/ \E d \in Devices, snapshot \in relays : Import(d, snapshot)
  \/ Move

Spec == Init /\ [][Next]_vars

-----------------------------------------------------------------------------
(* Properties.                                                             *)

\* Every variable keeps the shape the code gives it.
TypeOK ==
  /\ late \subseteq Devices
  /\ db \in [Devices -> Row]
  /\ relays \subseteq Finalization
  /\ job \in [Tabs -> Job]
  /\ caps \in [Tabs -> Nat]
  /\ admitted \subseteq Tabs
  /\ transfer \in Outcomes
  /\ wire \subseteq Devices
  /\ calls \in [Devices -> Nat]

\* A device hands the treasury's invoice to the SDK once, whatever fails and
\* whichever of its pages tries again: absence never clears a durable send
\* (runCheckoutSparkNativeTreasuryStep).
AtMostOneCall == \A d \in Devices : calls[d] <= 1

\* A row shows a failure only if the provider's transfer failed or the row's
\* device has never called the SDK: no possible send is taken back
\* (cancelPreProviderAdmission).
TakenBackUnsent ==
  \A d \in Devices :
    db[d].state.status = "terminal_failure" => transfer = "failed" \/ calls[d] = 0

\* Whenever a device has called the SDK, some relay stores a snapshot that shows
\* the payment as submitted: a merchant who recovers from the relays can know.
MarkedAhead ==
  \A d \in Devices : calls[d] > 0 =>
    \E s \in relays : s.status = "submitted" /\ s.intent = db[d].state.intent
                        /\ s.attempt >= db[d].state.attempt

\* A row is paid only if the provider has committed the invoice's transfer.
PaidIsProven ==
  \A d \in Devices : db[d].state.status = "paid" => transfer = "paid"

\* Once a device knows the transfer's id it never loses it, whatever it imports,
\* observes or saves late.
KeepsReference == \A d \in Devices : db[d].state.ref => db'[d].state.ref
ReferenceKept == [][KeepsReference]_vars
=============================================================================
