------------------------------ MODULE SettledFunding ------------------------------
(***************************************************************************)
(* The shopper funds a checkout (createCheckoutSparkSettledFundingBridge   *)
(* of checkout-spark-settled-funding.ts): through a wallet of this         *)
(* browser, or with an invoice that is shown and paid from elsewhere.  The *)
(* reservation in localStorage is written before either, and survives the  *)
(* page; a Web Lock keeps the runs of all tabs apart.                      *)
(*                                                                         *)
(* The preparation is one that is authorized already.  The payment rails   *)
(* are external: they publish at most once per call, right after           *)
(* beforeSend, and say "before_publish" only when they did not.            *)
(***************************************************************************)
EXTENDS Integers

CONSTANTS
  Tabs,         \* one bridge per tab: the lock is exclusive
  MaxPayments   \* bound: payments a wallet may have published

FundingBoundsAssumption == MaxPayments \in Nat \ {0}

VARIABLES
  preparation,  \* fundingSubmissionState, and whether externalFundingExposedAt is set
  bridge,       \* per tab: run, or AtRest
  payments,     \* payments that a wallet published and may make
  disclosed,    \* the invoice was handed to the buyer
  received,     \* the provider can attest the credit
  credit,       \* state.credit is recorded
  expired       \* plan.funding.expiresAt has passed

vars == <<preparation, bridge, payments, disclosed, received, credit, expired>>

Preparation == [state : {"not_started", "provisional"}, exposed : BOOLEAN]

\* look stands for inspectionOnly and for a manual target that exposes nothing; seen
\* is snapshot.state.credit.
Bridge == [step : {"idle", "loading", "attesting", "showing", "disclosing", "reserving",
                   "reserved", "refused", "sent"},
           mode : {"pay", "show", "look"}, seen : BOOLEAN]
AtRest == [step |-> "idle", mode |-> "look", seen |-> FALSE]

Goto(t, step) == bridge' = [bridge EXCEPT ![t].step = step]
Ends(t) == bridge' = [bridge EXCEPT ![t] = AtRest]

\* A reservation that did not come from showing the invoice: whatever it paid is
\* only found by reconciling.
Submitted == preparation.state = "provisional" /\ ~preparation.exposed

-----------------------------------------------------------------------------
\* fund: the lock is taken, or the call is rejected.
Fund(t) ==
  /\ \A u \in Tabs : bridge[u].step = "idle"
  /\ \E mode \in {"pay", "show", "look"} :
       bridge' = [bridge EXCEPT ![t] = [step |-> "loading", mode |-> mode, seen |-> FALSE]]
  /\ UNCHANGED <<preparation, payments, disclosed, received, credit, expired>>

\* repository.load.
Load(t) ==
  /\ bridge[t].step = "loading"
  /\ bridge' = [bridge EXCEPT ![t].step = "attesting", ![t].seen = credit]
  /\ UNCHANGED <<preparation, payments, disclosed, received, credit, expired>>

\* The proof of the credit is recorded: funded.
Credited(t) ==
  /\ bridge[t].step \in {"attesting", "sent"}
  /\ received
  /\ credit' = TRUE
  /\ Ends(t)
  /\ UNCHANGED <<preparation, payments, disclosed, received, expired>>

\* attestCredit has nothing to show.  From here to the next await: what is recorded,
\* an attempt that is not known to have failed, a mere look and the expiry end the run.
NotCredited(t) ==
  /\ bridge[t].step = "attesting"
  /\ IF \/ bridge[t].seen
        \/ Submitted
        \/ preparation.state = "provisional" /\ bridge[t].mode # "show"
        \/ bridge[t].mode = "look"
        \/ expired
     THEN Ends(t)
     ELSE Goto(t, IF bridge[t].mode = "show" THEN "showing" ELSE "reserving")
  /\ UNCHANGED <<preparation, payments, disclosed, received, credit, expired>>

\* The reservation for an invoice that will be shown; again for one that was.
Expose(t) ==
  /\ bridge[t].step = "showing"
  /\ ~expired
  /\ ~Submitted
  /\ preparation' = [state |-> "provisional", exposed |-> TRUE]
  /\ Goto(t, "disclosing")
  /\ UNCHANGED <<payments, disclosed, received, credit, expired>>

\* After everything was checked again: external_ready, or funded meanwhile.
Disclose(t) ==
  /\ bridge[t].step = "disclosing"
  /\ ~expired
  /\ preparation.state = "provisional" /\ preparation.exposed
  /\ disclosed' = (disclosed \/ ~credit)
  /\ Ends(t)
  /\ UNCHANGED <<preparation, payments, received, credit, expired>>

\* The reservation for a wallet's payment.
Reserve(t) ==
  /\ bridge[t].step = "reserving"
  /\ preparation' = [preparation EXCEPT !.state = "provisional"]
  /\ Goto(t, "reserved")
  /\ UNCHANGED <<payments, disclosed, received, credit, expired>>

\* retryable_failure, before_publish: no wallet, a fee declined, beforeSend threw.
Refused(t) ==
  /\ bridge[t].step = "reserved"
  /\ Goto(t, "refused")
  /\ UNCHANGED <<preparation, payments, disclosed, received, credit, expired>>

\* beforeSend has returned at the provider's final boundary.
Publish(t) ==
  /\ bridge[t].step = "reserved"
  /\ ~expired
  /\ payments < MaxPayments
  /\ payments' = payments + 1
  /\ Goto(t, "sent")
  /\ UNCHANGED <<preparation, disclosed, received, credit, expired>>

\* Mutant of Answer: every retryable failure frees the invoice.
AnswerFrees(t) ==
  /\ bridge[t].step = "sent"
  /\ \/ UNCHANGED preparation
     \/ preparation' = [preparation EXCEPT !.state = "not_started"]
  /\ Ends(t)
  /\ UNCHANGED <<payments, disclosed, received, credit, expired>>

\* paid, a refusal after publication, an exception: nothing is attested yet.
Answer(t) ==
  /\ bridge[t].step = "sent"
  /\ Ends(t)
  /\ UNCHANGED <<preparation, payments, disclosed, received, credit, expired>>

\* The one case that takes a reservation back (allowDefinitePreSendReset).
Reset(t) ==
  /\ bridge[t].step = "refused"
  /\ preparation' = [preparation EXCEPT !.state = "not_started"]
  /\ Ends(t)
  /\ UNCHANGED <<payments, disclosed, received, credit, expired>>

\* The buyer's session is another after an await, the storage lock is busy, a save or
\* a read fails, the invoice expired, attestCredit throws, the page closes.
Fails(t) ==
  /\ bridge[t].step # "idle"
  /\ Ends(t)
  /\ UNCHANGED <<preparation, payments, disclosed, received, credit, expired>>

\* What was published or shown may be paid.
Receives ==
  /\ payments > 0 \/ disclosed
  /\ received' = TRUE
  /\ UNCHANGED <<preparation, bridge, payments, disclosed, credit, expired>>

\* The credit comes in a merchant's snapshot, which the lock does not wait for.
Imports ==
  /\ received
  /\ credit' = TRUE
  /\ UNCHANGED <<preparation, bridge, payments, disclosed, received, expired>>

Expires ==
  /\ expired' = TRUE
  /\ UNCHANGED <<preparation, bridge, payments, disclosed, received, credit>>

-----------------------------------------------------------------------------
Init ==
  /\ preparation = [state |-> "not_started", exposed |-> FALSE]
  /\ bridge = [t \in Tabs |-> AtRest]
  /\ payments = 0
  /\ disclosed = FALSE /\ received = FALSE /\ credit = FALSE /\ expired = FALSE

Next ==
  \/ \E t \in Tabs :
       \/ Fund(t) \/ Load(t) \/ Credited(t) \/ NotCredited(t)
       \/ Expose(t) \/ Disclose(t)
       \/ Reserve(t) \/ Refused(t) \/ Publish(t) \/ Answer(t) \/ Reset(t)
       \/ Fails(t)
  \/ Receives \/ Imports
  \/ Expires

Spec == Init /\ [][Next]_vars

-----------------------------------------------------------------------------
(* Properties.                                                             *)

TypeOK ==
  /\ preparation \in Preparation
  /\ bridge \in [Tabs -> Bridge]
  /\ payments \in 0 .. MaxPayments
  /\ disclosed \in BOOLEAN /\ received \in BOOLEAN /\ credit \in BOOLEAN
  /\ expired \in BOOLEAN

\* Of all the tabs, approvals and reloads of one checkout, one call of a wallet at
\* most publishes a payment of its invoice.
PaidByOneWallet == payments <= 1

\* An invoice that a wallet may have paid is never handed to the buyer to be paid
\* once more, nor is one that was handed out paid by a wallet.
OneWay == ~(payments > 0 /\ disclosed)

\* What may have been paid stays reserved, whatever crashed or failed since.
Reserved == payments > 0 \/ disclosed => preparation.state = "provisional"

\* The invoice of a checkout is put up for payment once (with the types).
FundedOnce == TypeOK /\ PaidByOneWallet /\ OneWay /\ Reserved
=============================================================================
