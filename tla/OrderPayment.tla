---------------------------- MODULE OrderPayment ----------------------------
(* The payment of one delivered order: the lifecycle row that several tabs    *)
(* of the shopper's browser share, the run that asks for an invoice and has a *)
(* wallet pay it, the couriers that look for the public receipt and publish   *)
(* the proof, and the recovery of what a closed or frozen tab left behind.    *)
(*                                                                            *)
(* Each IndexedDB transaction is one action; between two of them any tab may  *)
(* act, freeze or close.  A lease is live until it lapses: it lapses whenever *)
(* its holder does not renew it in time, because the tab is gone or because   *)
(* the browser froze it.                                                      *)
EXTENDS Naturals, FiniteSets

CONSTANTS
  Tabs,         \* documents of the shopper's browser with this order
  Claims,       \* payment and proof claim ids
  Invoices,     \* invoices the merchant's provider can still return
  Zaps,         \* signed zap requests; {} when every order pays privately
  Targets,      \* the payment targets the buyer may choose
  MaxPrior,     \* MAX_PRIOR_EXPIRED_MANUAL_INVOICES
  MaxCloses,    \* bound: tabs closed in the middle of something
  None

PaymentAssumption ==
  /\ Targets \subseteq {"wallet", "manual"} /\ Targets # {}
  /\ MaxPrior \in Nat /\ MaxCloses \in Nat
  /\ None \notin Tabs \cup Claims \cup Invoices \cup Zaps

VARIABLES
  row,        \* the order's lifecycle row
  attempt,    \* its payment-attempt row
  run,        \* what each tab's payment run is doing
  courier,    \* what each tab's receipt observer or resend is doing
  wallet,     \* what became of each invoice
  asked,      \* invoices some tab handed to a wallet
  shown,      \* invoices shown to the buyer for an outside wallet
  reported,   \* invoices the buyer said were paid outside
  expired,    \* invoices past their expiry
  published,  \* invoices whose proof of payment a relay accepted
  closes,     \* tabs closed so far
  slept       \* claims whose lease lapsed although nobody had given them up

vars == <<row, attempt, run, courier, wallet, asked, shown, reported, expired,
          published, closes, slept>>

rowVars   == <<row, attempt>>
worldVars == <<wallet, asked, shown, reported, expired, published>>
tabVars   == <<closes, slept>>

Maybe(S) == S \cup {None}

Idle == [st |-> "idle", id |-> None, invoice |-> None, zap |-> None,
         result |-> "pending", before |-> None, moved |-> FALSE]

-----------------------------------------------------------------------------
(* The row, and the patches every transaction makes to it.                    *)

\* The order as it was placed: p, with a public zap, to be paid from k.
NewRow(p, k) ==
  [pay |-> "not_started", inv |-> "not_requested", proof |-> "not_started",
   claim |-> None, live |-> FALSE, pclaim |-> None, plive |-> FALSE,
   invoice |-> None, proved |-> FALSE, zap |-> None, receipt |-> "na",
   public |-> p, prior |-> {}, target |-> k]

NoAttempt == [invoice |-> None, proved |-> FALSE, receipt |-> None,
              proof |-> "not_started"]

\* A patch that names another proof status than pending drops the proof claim.
WithProof(r, p) ==
  IF p = "pending" THEN [r EXCEPT !.proof = p]
  ELSE [r EXCEPT !.proof = p, !.pclaim = None, !.plive = FALSE]

Released(r) == [r EXCEPT !.claim = None, !.live = FALSE]

HoldProof(r, c) ==
  [r EXCEPT !.proof = "pending", !.pclaim = c, !.plive = TRUE]

CanStart(r) ==
  \/ r.pay = "not_started" /\ r.inv = "not_requested"
  \/ r.pay = "failed"

\* The claim clears what the previous attempt left, evidence apart.
Claimed(r, c) ==
  [WithProof(r, "not_started") EXCEPT
     !.claim = c, !.live = TRUE, !.inv = "requesting", !.pay = "not_started",
     !.receipt = "na", !.invoice = None, !.proved = FALSE, !.zap = None]

\* What an owner may still patch: a paid order stays paid, a sent proof sent.
MayPatch(r, c, pay, proof) ==
  /\ r.claim = c
  /\ r.pay = "paid" => pay \in {None, "paid"}
  /\ r.proof = "sent" => proof \in {None, "sent"}

Fenced(r, c) == r.claim = c /\ r.pay # "paid" /\ r.proof # "sent"

\* A private manual invoice that expired unreported may be renewed.
Renewable(r) ==
  /\ r.pay = "manual_required" /\ r.inv = "manual_required"
  /\ ~ r.public /\ r.target = "manual" /\ r.proof = "not_started"
  /\ r.receipt = "na" /\ r.claim = None /\ r.pclaim = None
  /\ ~ r.proved /\ r.invoice \in expired

InUse == {row.claim, row.pclaim} \cup {run[t].id : t \in Tabs}
           \cup {courier[t].id : t \in Tabs}

Fresh(c) == c \in Claims \ InUse

-----------------------------------------------------------------------------
(* Starting a payment.                                                        *)

Begin(t, c, r) ==
  /\ row' = r
  /\ run' = [run EXCEPT ![t] = [Idle EXCEPT !.st = "claimed", !.id = c,
                                            !.before = row]]
  /\ slept' = slept \ {c}
  /\ UNCHANGED <<attempt, courier, closes>> /\ UNCHANGED worldVars

Start(t) ==
  /\ run[t].st = "idle" /\ row.claim = None /\ CanStart(row)
  /\ \E c \in Claims : Fresh(c) /\ Begin(t, c, Claimed(row, c))

\* Mutant: the claim drops the expired invoice instead of keeping it.
ForgetfulRenew(t) ==
  /\ run[t].st = "idle" /\ Renewable(row) /\ attempt.invoice = None
  /\ \E c \in Claims : Fresh(c) /\ Begin(t, c, Claimed(row, c))

Renew(t) ==
  /\ run[t].st = "idle" /\ Renewable(row) /\ attempt.invoice = None
  /\ row.invoice \in row.prior \/ Cardinality(row.prior) < MaxPrior
  /\ \E c \in Claims :
       /\ Fresh(c)
       /\ Begin(t, c, [Claimed(row, c) EXCEPT
                         !.prior = @ \cup {row.invoice}])

\* A failed anonymous zap may be paid privately instead.
FallBackPrivately(t) ==
  /\ run[t].st = "idle" /\ row.claim = None /\ row.public
  /\ row.inv = "failed" /\ row.pay = "failed"
  /\ \E c \in Claims :
       Fresh(c) /\ Begin(t, c, [Claimed(row, c) EXCEPT !.public = FALSE])

ChooseTarget ==
  /\ CanStart(row)
  /\ \E k \in Targets : k # row.target /\ row' = [row EXCEPT !.target = k]
  /\ UNCHANGED <<attempt, run, courier>>
  /\ UNCHANGED worldVars /\ UNCHANGED tabVars

-----------------------------------------------------------------------------
(* The run.                                                                   *)

Stop(t) == run' = [run EXCEPT ![t] = Idle]

\* A patch by the run: refused when the claim was superseded, and then the
\* run ends without writing.
Patch(t, ok, r) ==
  IF ok THEN row' = r ELSE UNCHANGED row

\* The contract of before the claim, restored when authority is withdrawn.
Contract(r, b) ==
  [Released(WithProof(r, b.proof)) EXCEPT
     !.pay = b.pay, !.inv = b.inv, !.invoice = b.invoice, !.zap = b.zap,
     !.proved = b.proved, !.receipt = b.receipt, !.public = b.public]

Veto(t) ==
  /\ run[t].st \in {"claimed", "received"}
  /\ LET b == run[t].before
     IN Patch(t, MayPatch(row, run[t].id, b.pay, b.proof), Contract(row, b))
  /\ Stop(t)
  /\ UNCHANGED <<attempt, courier>> /\ UNCHANGED worldVars /\ UNCHANGED tabVars

Superseded(t) ==
  /\ run[t].st \in {"claimed", "received"} /\ ~ Fenced(row, run[t].id)
  /\ Stop(t)
  /\ UNCHANGED <<row, attempt, courier>>
  /\ UNCHANGED worldVars /\ UNCHANGED tabVars

RequestInvoice(t) ==
  /\ run[t].st = "claimed" /\ Fenced(row, run[t].id)
  /\ row' = [row EXCEPT !.live = TRUE]
  /\ run' = [run EXCEPT ![t].st = "requesting"]
  /\ UNCHANGED <<attempt, courier>> /\ UNCHANGED worldVars /\ UNCHANGED tabVars

\* The provider's invoice is stored, as being paid, before any wallet sees it.
InvoiceArrives(t) ==
  /\ run[t].st = "requesting"
  /\ \E i \in Invoices, z \in IF row.public THEN Zaps ELSE {None} :
       /\ wallet[i] = "unknown"
       /\ wallet' = [wallet EXCEPT ![i] = "issued"]
       /\ LET ok == MayPatch(row, run[t].id, "paying", None)
          IN /\ Patch(t, ok,
                  [row EXCEPT !.inv = "received", !.pay = "paying",
                     !.invoice = i, !.zap = z, !.live = TRUE,
                     !.receipt = IF z = None THEN @ ELSE "waiting"])
             /\ IF ok
                  THEN run' = [run EXCEPT ![t].st = "received",
                                          ![t].invoice = i, ![t].zap = z]
                  ELSE Stop(t)
  /\ UNCHANGED <<attempt, courier, asked, shown, reported, expired, published>>
  /\ UNCHANGED tabVars

\* An anonymous zap that cannot be had is replaced by a private invoice.
ZapFallsBack(t) ==
  /\ run[t].st = "requesting" /\ row.public
  /\ LET ok == MayPatch(row, run[t].id, None, None)
     IN /\ Patch(t, ok, [row EXCEPT !.public = FALSE, !.receipt = "na",
                                    !.zap = None, !.live = TRUE])
        /\ IF ok THEN run' = [run EXCEPT ![t].st = "claimed"] ELSE Stop(t)
  /\ UNCHANGED <<attempt, courier>> /\ UNCHANGED worldVars /\ UNCHANGED tabVars

InvoiceFails(t) ==
  /\ run[t].st \in {"claimed", "requesting"}
  /\ Patch(t, MayPatch(row, run[t].id, "failed", None),
           [Released(row) EXCEPT !.pay = "failed", !.inv = "failed"])
  /\ Stop(t)
  /\ UNCHANGED <<attempt, courier>> /\ UNCHANGED worldVars /\ UNCHANGED tabVars

\* With no wallet to pay it the invoice is shown to the buyer.
ShowInvoice(t) ==
  /\ run[t].st = "received" /\ row.target = "manual"
  /\ Fenced(row, run[t].id) /\ run[t].invoice \notin expired
  /\ row' = [Released(row) EXCEPT !.inv = "manual_required",
               !.pay = "manual_required",
               !.receipt = IF run[t].zap = None THEN "na" ELSE "waiting"]
  /\ shown' = shown \cup {run[t].invoice}
  /\ wallet' = [wallet EXCEPT ![run[t].invoice] = "calling"]
  /\ Stop(t)
  /\ UNCHANGED <<attempt, courier, asked, reported, expired, published>>
  /\ UNCHANGED tabVars

\* beforeSend: the last fence before the provider is called.
Approve(t) ==
  /\ run[t].st = "received" /\ row.target = "wallet"
  /\ Fenced(row, run[t].id) /\ run[t].invoice \notin expired
  /\ row' = [row EXCEPT !.live = TRUE]
  /\ run' = [run EXCEPT ![t].st = "approved"]
  /\ UNCHANGED <<attempt, courier>> /\ UNCHANGED worldVars /\ UNCHANGED tabVars

\* The tab may have frozen since the fence: nothing is read again.
CallWallet(t) ==
  /\ run[t].st = "approved"
  /\ asked' = asked \cup {run[t].invoice}
  /\ wallet' = [wallet EXCEPT ![run[t].invoice] = "calling"]
  /\ run' = [run EXCEPT ![t].st = "calling", ![t].before = None]
  /\ UNCHANGED <<shown, reported, expired, published, courier>>
  /\ UNCHANGED rowVars /\ UNCHANGED tabVars

\* The answer: a proof, a definite refusal, or nothing that settles it.
Hear(t) ==
  /\ run[t].st = "calling"
  /\ \E a \in {"paid", "refused", "ambiguous"} :
       /\ a = "paid" => wallet[run[t].invoice] = "settled"
       /\ a = "refused" => wallet[run[t].invoice] = "refused"
       /\ run' = [run EXCEPT ![t].st = a, ![t].moved = (a = "paid")]
  /\ UNCHANGED courier
  /\ UNCHANGED rowVars /\ UNCHANGED worldVars /\ UNCHANGED tabVars

RecordRefusal(t) ==
  /\ run[t].st = "refused"
  /\ Patch(t, MayPatch(row, run[t].id, "failed", None),
           [Released(row) EXCEPT !.pay = "failed", !.inv = "failed",
                                 !.receipt = "na", !.invoice = run[t].invoice])
  /\ Stop(t)
  /\ UNCHANGED <<attempt, courier>> /\ UNCHANGED worldVars /\ UNCHANGED tabVars

\* Mutant: a timeout is taken for a failure.
TimeoutIsFailure(t) ==
  /\ run[t].st = "ambiguous"
  /\ Patch(t, MayPatch(row, run[t].id, "failed", None),
           [Released(row) EXCEPT !.pay = "failed"])
  /\ Stop(t)
  /\ UNCHANGED <<attempt, courier>> /\ UNCHANGED worldVars /\ UNCHANGED tabVars

RecordAmbiguity(t) ==
  /\ run[t].st = "ambiguous"
  /\ Patch(t, MayPatch(row, run[t].id, "ambiguous", None),
           [Released(row) EXCEPT !.pay = "ambiguous"])
  /\ Stop(t)
  /\ UNCHANGED <<attempt, courier>> /\ UNCHANGED worldVars /\ UNCHANGED tabVars

\* The attempt row accumulates evidence; its proof never leaves sent.
Attempted(a, i, proved, z, p) ==
  [invoice |-> i, proved |-> proved \/ a.proved,
   receipt |-> IF z = None THEN a.receipt ELSE z,
   proof |-> IF a.proof = "sent" THEN "sent" ELSE p]

\* The wallet's proof is stored first, or the save fails and is logged.
SaveAttempt(t) ==
  /\ run[t].st \in {"paid", "reported"}
  /\ \/ attempt' = Attempted(attempt, run[t].invoice, run[t].st = "paid",
                             None, "pending")
     \/ UNCHANGED attempt
  /\ run' = [run EXCEPT ![t].st = IF @ = "paid" THEN "saved" ELSE "publishing"]
  /\ UNCHANGED <<row, courier>> /\ UNCHANGED worldVars /\ UNCHANGED tabVars

RecordPaid(t) ==
  /\ run[t].st = "saved"
  /\ \/ /\ MayPatch(row, run[t].id, "paid", "pending")
        /\ row' = [HoldProof(row, run[t].id) EXCEPT !.pay = "paid",
                     !.invoice = run[t].invoice, !.proved = TRUE,
                     !.live = TRUE, !.zap = run[t].zap]
        /\ run' = [run EXCEPT ![t].st = "publishing"]
     \/ /\ run' = [run EXCEPT ![t].st = "recovering"]
        /\ UNCHANGED row
  /\ UNCHANGED <<attempt, courier>> /\ UNCHANGED worldVars /\ UNCHANGED tabVars

\* A wallet success is recorded even when recovery took the claim away.
RecoveredProof(r, j) ==
  IF r.proof = "sent" \/ j.result = "sent" THEN "sent"
  ELSE IF r.pclaim \notin {None, j.id} THEN r.proof
  ELSE IF /\ j.result = "pending" /\ r.proof = "pending"
          /\ r.receipt = "observed" /\ r.plive /\ r.pclaim # None
       THEN "pending" ELSE "retry_needed"

RecoverSuccess(t) ==
  /\ run[t].st = "recovering"
  /\ \/ row' = [Released(WithProof(row, RecoveredProof(row, run[t]))) EXCEPT
                  !.inv = "received", !.pay = "paid", !.proved = TRUE,
                  !.invoice = run[t].invoice, !.zap = run[t].zap]
     \/ UNCHANGED row
  /\ Stop(t)
  /\ UNCHANGED <<attempt, courier>> /\ UNCHANGED worldVars /\ UNCHANGED tabVars

-----------------------------------------------------------------------------
(* Publishing the proof: by the run that paid, or by a courier.               *)

\* Mutant: the last writer's outcome wins.
LastDelivered(r, result, c) == WithProof(r, result)

\* recordOrderPaymentProofDelivery: a sent proof is kept, and only the
\* holder of the proof claim may record that a retry is needed.
Delivered(r, result, c) ==
  IF \/ r.proof = "sent" /\ result # "sent"
     \/ result # "sent" /\ r.pclaim \notin {None, c}
  THEN r ELSE WithProof(r, result)

Publish(t) ==
  /\ run[t].st = "publishing"
  /\ \/ /\ published' = published \cup {run[t].invoice}
        /\ run' = [run EXCEPT ![t].st = "told", ![t].result = "sent"]
     \/ /\ run' = [run EXCEPT ![t].st = "told", ![t].result = "retry_needed"]
        /\ UNCHANGED published
  /\ UNCHANGED <<courier, wallet, asked, shown, reported, expired>>
  /\ UNCHANGED rowVars /\ UNCHANGED tabVars

NoteAttempt(job, a) ==
  \/ /\ a.invoice # None
     /\ attempt' = [a EXCEPT !.proof = IF @ = "sent" THEN @ ELSE job.result]
  \/ attempt' = a

NotePublished(t) ==
  /\ run[t].st = "told" /\ NoteAttempt(run[t], attempt)
  /\ run' = [run EXCEPT ![t].st = "noted"]
  /\ UNCHANGED <<row, courier>> /\ UNCHANGED worldVars /\ UNCHANGED tabVars

\* The run's claim ends with the outcome; superseded, it records the outcome
\* under its proof claim; a failed write goes through the recovery.
EndRun(t) ==
  /\ run[t].st = "noted"
  /\ \/ /\ row' = IF MayPatch(row, run[t].id, None, run[t].result)
                    THEN Released(WithProof(row, run[t].result))
                    ELSE Delivered(row, run[t].result, run[t].id)
        /\ Stop(t)
     \/ /\ IF run[t].moved THEN run' = [run EXCEPT ![t].st = "recovering"]
           ELSE Stop(t)
        /\ UNCHANGED row
  /\ UNCHANGED <<attempt, courier>> /\ UNCHANGED worldVars /\ UNCHANGED tabVars

\* The buyer says an invoice was paid outside: the current one, or an expired
\* one that a renewal kept as evidence.
Reportable(r, i) ==
  /\ r.proof = "not_started"
  /\ \/ r.invoice = i /\ r.pay = "manual_required"
     \/ /\ i \in r.prior /\ r.invoice # i /\ attempt.invoice = None
        /\ ~ r.public /\ r.target = "manual" /\ r.claim = None
        /\ r.pclaim = None /\ ~ r.proved /\ r.zap = None /\ r.receipt = "na"
        /\ \/ r.pay = "failed" /\ r.inv = "failed" /\ r.invoice = None
           \/ r.pay = "manual_required" /\ r.inv = "manual_required"

Report(t) ==
  /\ run[t].st = "idle"
  /\ \E i \in Invoices, c \in Claims :
       /\ Reportable(row, i) /\ Fresh(c)
       /\ row' = [HoldProof(row, c) EXCEPT !.pay = "paid", !.invoice = i]
       /\ reported' = reported \cup {i}
       /\ run' = [run EXCEPT ![t] = [Idle EXCEPT !.st = "reported", !.id = c,
                                                 !.invoice = i]]
       /\ slept' = slept \ {c}
  /\ UNCHANGED <<attempt, courier, wallet, asked, shown, expired, published,
                 closes>>

-----------------------------------------------------------------------------
(* Couriers: the observer of the public receipt, and a resend.                *)

Go(t, st, c, r) ==
  courier' = [courier EXCEPT ![t] =
    [Idle EXCEPT !.st = st, !.id = c, !.invoice = r.invoice, !.zap = r.zap,
                 !.result = r.proof]]

Scan(t) ==
  /\ courier[t].st = "idle" /\ row.public
  /\ row.invoice # None /\ row.zap # None
  /\ row.receipt \in {"waiting", "missed"}
  /\ Go(t, "scanning", None, row)
  /\ UNCHANGED run
  /\ UNCHANGED rowVars /\ UNCHANGED worldVars /\ UNCHANGED tabVars

ScanEnds(t) ==
  /\ courier[t].st = "scanning"
  /\ courier' = [courier EXCEPT ![t] = Idle]
  /\ UNCHANGED run
  /\ UNCHANGED rowVars /\ UNCHANGED worldVars /\ UNCHANGED tabVars

\* Exact receipt evidence supersedes any owner, and takes the proof over
\* unless a live claim is already publishing it.
Observed(r, c) ==
  LET busy == r.proof = "pending" /\ r.pclaim # None /\ r.plive
      take == r.proof # "sent" /\ c # None /\ ~ busy
      told == IF r.proof = "sent" THEN r
              ELSE IF take THEN HoldProof(r, c)
              ELSE IF busy THEN r ELSE WithProof(r, "retry_needed")
  IN [Released(told) EXCEPT !.inv = "received", !.pay = "paid",
                            !.receipt = "observed"]

ReceiptFound(t) ==
  /\ courier[t].st = "scanning" /\ wallet[courier[t].invoice] = "settled"
  /\ \E c \in Maybe(Claims) :
       /\ c # None => Fresh(c)
       /\ IF row.zap = courier[t].zap
            THEN /\ row' = Observed(row, c)
                 /\ Go(t, "observed", IF row'.pclaim = c THEN c ELSE None, row')
                 /\ slept' = slept \ {c}
            ELSE /\ courier' = [courier EXCEPT ![t] = Idle]
                 /\ UNCHANGED <<row, slept>>
  /\ UNCHANGED <<attempt, run, closes>> /\ UNCHANGED worldVars

SaveReceipt(t) ==
  /\ courier[t].st = "observed"
  /\ \/ attempt' = Attempted(attempt, courier[t].invoice, FALSE,
                             courier[t].zap, courier[t].result)
     \/ UNCHANGED attempt
  /\ IF courier[t].id = None THEN courier' = [courier EXCEPT ![t] = Idle]
     ELSE courier' = [courier EXCEPT ![t].st = "publishing"]
  /\ UNCHANGED <<row, run>> /\ UNCHANGED worldVars /\ UNCHANGED tabVars

ReceiptTimeout(t) ==
  /\ courier[t].st = "scanning" /\ courier[t].invoice \in expired
  /\ IF row.zap = courier[t].zap /\ row.receipt # "observed"
       THEN row' = [row EXCEPT !.receipt = "missed",
                               !.pay = IF @ = "paid" THEN @ ELSE "ambiguous"]
       ELSE UNCHANGED row
  /\ courier' = [courier EXCEPT ![t] = Idle]
  /\ UNCHANGED <<attempt, run>> /\ UNCHANGED worldVars /\ UNCHANGED tabVars

\* Proof work is claimed when nobody's live claim covers it.
ClaimProof(t) ==
  /\ courier[t].st = "idle"
  /\ \/ row.pay = "paid" /\ row.invoice # None /\ row.proof = "retry_needed"
     \/ row.public /\ row.zap # None /\ row.receipt = "observed"
  /\ row.proof # "sent"
  /\ row.proof = "pending" => ~ row.plive
  /\ \E c \in Claims :
       /\ Fresh(c) /\ row' = HoldProof(row, c)
       /\ Go(t, "publishing", c, row')
       /\ slept' = slept \ {c}
  /\ UNCHANGED <<attempt, run, closes>> /\ UNCHANGED worldVars

CarryProof(t) ==
  /\ courier[t].st = "publishing"
  /\ \/ /\ published' = published \cup {courier[t].invoice}
        /\ courier' = [courier EXCEPT ![t].st = "told", ![t].result = "sent"]
     \/ /\ courier' = [courier EXCEPT ![t].st = "told",
                                      ![t].result = "retry_needed"]
        /\ UNCHANGED published
  /\ UNCHANGED <<run, wallet, asked, shown, reported, expired>>
  /\ UNCHANGED rowVars /\ UNCHANGED tabVars

NoteCarried(t) ==
  /\ courier[t].st = "told" /\ NoteAttempt(courier[t], attempt)
  /\ courier' = [courier EXCEPT ![t].st = "noted"]
  /\ UNCHANGED <<row, run>> /\ UNCHANGED worldVars /\ UNCHANGED tabVars

\* The outcome is recorded, or the write fails and the claim is left behind.
EndCarry(t) ==
  /\ courier[t].st = "noted"
  /\ row' \in {Delivered(row, courier[t].result, courier[t].id), row}
  /\ courier' = [courier EXCEPT ![t] = Idle]
  /\ UNCHANGED <<attempt, run>> /\ UNCHANGED worldVars /\ UNCHANGED tabVars

-----------------------------------------------------------------------------
(* Recovery, by any tab in which no run of this order is under way.           *)

ReceiptKnown(r) == r.receipt = "observed" /\ r.zap # None

AttemptProves(a, r) ==
  /\ r.invoice # None /\ a.invoice = r.invoice
  /\ a.proved \/ (a.receipt # None /\ a.receipt = r.zap)

\* Mutant: only an attempt that left an invoice is recovered.
PartlyReconciled(r, a) ==
  IF r.invoice = None THEN r
  ELSE [Released(r) EXCEPT !.inv = "received", !.pay = "ambiguous"]

Reconciled(r, a) ==
  IF AttemptProves(a, r) THEN
    [Released(WithProof(r, IF a.proof = "sent" THEN "sent"
                           ELSE "retry_needed")) EXCEPT
       !.inv = "received", !.pay = "paid", !.proved = a.proved,
       !.receipt = IF a.receipt = None THEN @ ELSE "observed"]
  ELSE IF r.invoice # None /\ (r.proved \/ ReceiptKnown(r)) THEN
    [Released(WithProof(r, IF r.proof = "sent" THEN "sent"
                           ELSE "retry_needed")) EXCEPT
       !.inv = "received", !.pay = "paid"]
  ELSE IF /\ r.inv = "requesting" /\ r.pay \in {"not_started", "paying"}
          /\ r.invoice = None /\ a.invoice = None THEN
    [Released(WithProof(r, "not_started")) EXCEPT
       !.inv = "failed", !.pay = "failed", !.receipt = "na", !.zap = None]
  ELSE IF /\ r.invoice # None /\ r.inv \in {"requesting", "received"}
          /\ r.pay \in {"not_started", "paying"} THEN
    [Released(r) EXCEPT !.inv = "received", !.pay = "ambiguous"]
  ELSE r

\* A tab may act on a row it read earlier: the transaction asks only that the
\* payment claim is the one it read and that its lease is over.
ReconcilePayment(t) ==
  /\ run[t].st = "idle" /\ row.claim # None /\ ~ row.live
  /\ Reconciled(row, attempt) # row
  /\ row' = Reconciled(row, attempt)
  /\ attempt' = IF AttemptProves(attempt, row)
                  THEN [attempt EXCEPT !.proof = row'.proof] ELSE attempt
  /\ UNCHANGED <<run, courier>> /\ UNCHANGED worldVars /\ UNCHANGED tabVars

ReconcileProof(t) ==
  /\ run[t].st = "idle" /\ row.pay = "paid" /\ row.proof = "pending"
  /\ row.pclaim # None /\ ~ row.plive
  /\ row.claim = row.pclaim => ~ row.live
  /\ row' = Released(WithProof(row,
              IF attempt.invoice = row.invoice /\ attempt.proof = "sent"
              THEN "sent" ELSE "retry_needed"))
  /\ UNCHANGED <<attempt, run, courier>>
  /\ UNCHANGED worldVars /\ UNCHANGED tabVars

-----------------------------------------------------------------------------
(* Leases, tabs and the world.                                                *)

LeaseLapses ==
  /\ \/ /\ row.claim # None /\ row.live
        /\ row' = [row EXCEPT !.live = FALSE]
        /\ slept' = slept \cup {row.claim}
     \/ /\ row.pclaim # None /\ row.plive
        /\ row' = [row EXCEPT !.plive = FALSE]
        /\ slept' = slept \cup {row.pclaim}
  /\ UNCHANGED <<attempt, run, courier, closes>> /\ UNCHANGED worldVars

\* A thawed tab's timer renews the lease it still holds.
Heartbeat(t) ==
  /\ \/ /\ row.claim # None /\ row.claim = run[t].id /\ ~ row.live
        /\ row' = [row EXCEPT !.live = TRUE]
     \/ /\ row.proof = "pending" /\ row.pclaim # None /\ ~ row.plive
        /\ row.pclaim \in {run[t].id, courier[t].id}
        /\ row' = [row EXCEPT !.plive = TRUE]
  /\ UNCHANGED <<attempt, run, courier>>
  /\ UNCHANGED worldVars /\ UNCHANGED tabVars

Close(t) ==
  /\ closes < MaxCloses /\ (run[t].st # "idle" \/ courier[t].st # "idle")
  /\ run' = [run EXCEPT ![t] = Idle]
  /\ courier' = [courier EXCEPT ![t] = Idle]
  /\ closes' = closes + 1
  /\ UNCHANGED slept /\ UNCHANGED rowVars /\ UNCHANGED worldVars

\* A wallet that was given an invoice settles it or refuses it for good; the
\* buyer's own wallet pays a shown invoice only before it expires.
Settle(i) ==
  /\ wallet[i] = "calling"
  /\ i \in asked \/ i \notin expired
  /\ \E o \in {"settled", "refused"} :
       /\ o = "refused" => i \in asked
       /\ wallet' = [wallet EXCEPT ![i] = o]
  /\ UNCHANGED <<run, courier, asked, shown, reported, expired, published>>
  /\ UNCHANGED rowVars /\ UNCHANGED tabVars

Expire(i) ==
  /\ wallet[i] # "unknown" /\ i \notin expired
  /\ expired' = expired \cup {i}
  /\ UNCHANGED <<run, courier, wallet, asked, shown, reported, published>>
  /\ UNCHANGED rowVars /\ UNCHANGED tabVars

-----------------------------------------------------------------------------
Init ==
  /\ \E p \in BOOLEAN, k \in Targets : (p => Zaps # {}) /\ row = NewRow(p, k)
  /\ attempt = NoAttempt
  /\ run = [t \in Tabs |-> Idle] /\ courier = [t \in Tabs |-> Idle]
  /\ wallet = [i \in Invoices |-> "unknown"]
  /\ asked = {} /\ shown = {} /\ reported = {} /\ expired = {}
  /\ published = {} /\ closes = 0 /\ slept = {}

Pay(t) ==
  \/ Start(t) \/ Renew(t) \/ FallBackPrivately(t) \/ Report(t)

Continue(t) ==
  \/ Veto(t) \/ Superseded(t) \/ RequestInvoice(t) \/ InvoiceArrives(t)
  \/ InvoiceFails(t) \/ ShowInvoice(t) \/ Approve(t) \/ CallWallet(t)
  \/ Hear(t) \/ RecordRefusal(t) \/ RecordAmbiguity(t) \/ SaveAttempt(t)
  \/ RecordPaid(t) \/ RecoverSuccess(t) \/ Publish(t) \/ NotePublished(t)
  \/ EndRun(t)

Carry(t) ==
  \/ ReceiptFound(t) \/ SaveReceipt(t) \/ ReceiptTimeout(t) \/ ScanEnds(t)
  \/ CarryProof(t) \/ NoteCarried(t) \/ EndCarry(t)

Recover(t) == ReconcilePayment(t) \/ ReconcileProof(t)

Next ==
  \/ \E t \in Tabs : \/ Pay(t) \/ Continue(t) \/ Carry(t) \/ Recover(t)
                     \/ ZapFallsBack(t) \/ Scan(t) \/ ClaimProof(t)
                     \/ Heartbeat(t) \/ Close(t)
  \/ \E i \in Invoices : Settle(i) \/ Expire(i)
  \/ ChooseTarget \/ LeaseLapses

Spec == Init /\ [][Next]_vars
-----------------------------------------------------------------------------
(* What the payment of an order promises.                                     *)

Row ==
  [pay : {"not_started", "paying", "manual_required", "failed", "ambiguous", "paid"},
   inv : {"not_requested", "requesting", "received", "manual_required", "failed"},
   proof : {"not_started", "pending", "retry_needed", "sent"},
   claim : Maybe(Claims), live : BOOLEAN, pclaim : Maybe(Claims), plive : BOOLEAN,
   invoice : Maybe(Invoices), proved : BOOLEAN, zap : Maybe(Zaps),
   receipt : {"na", "waiting", "missed", "observed"},
   public : BOOLEAN, prior : SUBSET Invoices, target : Targets]

Attempt ==
  [invoice : Maybe(Invoices), proved : BOOLEAN, receipt : Maybe(Zaps),
   proof : {"not_started", "pending", "retry_needed", "sent"}]

RunSteps == {"idle", "claimed", "requesting", "received", "approved", "calling", "paid",
             "refused", "ambiguous", "saved", "recovering", "reported", "publishing",
             "told", "noted"}
CourierSteps == {"idle", "scanning", "observed", "publishing", "told", "noted"}

Job(steps) ==
  [st : steps, id : Maybe(Claims), invoice : Maybe(Invoices), zap : Maybe(Zaps),
   result : {"not_started", "pending", "retry_needed", "sent"}, before : Maybe(Row),
   moved : BOOLEAN]

\* Type correctness; a lease has a claim, and a proof claim exists exactly while its
\* proof is pending.
TypeOK ==
  /\ row \in Row /\ Cardinality(row.prior) <= MaxPrior
  /\ row.claim = None => ~ row.live
  /\ row.pclaim # None <=> row.proof = "pending"
  /\ attempt \in Attempt
  /\ run \in [Tabs -> Job(RunSteps)] /\ courier \in [Tabs -> Job(CourierSteps)]
  /\ \A t \in Tabs : run[t].st # "idle" => run[t].id # None
  /\ wallet \in [Invoices -> {"unknown", "issued", "calling", "settled", "refused"}]
  /\ asked \cup shown \cup reported \cup expired \cup published
       \subseteq Invoices
  /\ closes \in 0 .. MaxCloses /\ slept \subseteq Claims

\* An invoice by which the buyer's money may still go, or has gone.
Open(i) ==
  \/ i \in asked /\ wallet[i] # "refused"
  \/ i \in shown /\ i \notin expired

\* The order is never paid twice by the program: whatever tabs freeze, close,
\* recover and retry, at most one invoice is in the hands of a wallet or
\* payable by the buyer.
OnePayment == Cardinality({i \in Invoices : Open(i)}) <= 1

\* Once a wallet may have paid, no interleaving makes the order look unpaid:
\* the row offers a retry only when the wallet refused for good.
NeverRetriedAfterSend ==
  (\E i \in asked : wallet[i] # "refused")
    => row.pay \in {"paying", "ambiguous", "paid"}

\* What the row calls paid, and what a proof told the merchant, was settled by
\* a wallet or reported by the buyer: a late owner, observer or recovery never
\* credits the payment of another attempt.
ProofsAreTrue ==
  \A i \in published \cup {j \in Invoices : row.pay = "paid" /\ row.invoice = j}
    : wallet[i] = "settled" \/ i \in reported \cap shown

\* The proof is published twice at once only when a publisher missed its lease.
OnePublisher ==
  LET jobs == {j \in {run[t] : t \in Tabs} \cup {courier[t] : t \in Tabs} :
                 j.st = "publishing"}
  IN \A j, k \in jobs : j.id # k.id => j.id \in slept \/ k.id \in slept

\* An invoice shown to the buyer stays reportable evidence until the order is
\* paid: no retry, restored contract or recovery forgets it.
EvidenceKept ==
  \A i \in shown : i = row.invoice \/ i \in row.prior \/ row.pay = "paid"

\* At most one invoice is in the hands of a wallet or payable by the buyer, and
\* no retry is offered once a wallet may have paid (with the types of the rows).
PaidOnce == TypeOK /\ OnePayment /\ NeverRetriedAfterSend

\* What is called paid, and told to the merchant, was paid; an invoice that was
\* shown to the buyer stays evidence; two tabs publish a proof at once only if
\* one of them missed its lease.
TrueProofs == ProofsAreTrue /\ EvidenceKept /\ OnePublisher

\* No late writer takes back a payment or a delivered proof.
OnlyForward ==
  [][/\ row.pay = "paid" => row'.pay = "paid"
     /\ row.proof = "sent" => row'.proof = "sent"]_vars

\* A shopper who is there: the open tabs go on, recovery runs on refresh, the
\* proof is sent again, leases lapse when nobody renews them, and neither the
\* relays nor the local store fail every time.
Fairness ==
  /\ \A t \in Tabs : /\ WF_vars(Continue(t)) /\ WF_vars(Carry(t))
                     /\ WF_vars(ReconcilePayment(t))
                     /\ WF_vars(ReconcileProof(t)) /\ WF_vars(ClaimProof(t))
                     /\ SF_vars(CarryProof(t) /\ courier'[t].result = "sent")
                     /\ SF_vars(EndCarry(t) /\ row'.proof = "sent")
  /\ WF_vars(LeaseLapses)

FairSpec == Spec /\ Fairness

\* A claim left by a closed tab does not hold the order for ever.
ClaimsEnd == row.claim # None ~> row.claim = None

\* The merchant of a paid order gets the proof of payment.
ProofArrives == row.pay = "paid" ~> row.proof = "sent"
=============================================================================
