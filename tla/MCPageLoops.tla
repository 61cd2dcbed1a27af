------------------------------ MODULE MCPageLoops ------------------------------
(* The loops that pages run, for TLC: the merchant's scheduler and the       *)
(* outbox of its progress, the shopper's runner, and the funding that it     *)
(* enters.  The scheduler tells a reconciliation from its answer only, the   *)
(* outbox an invocation from its end only, the runner the funding from its   *)
(* result only, and the shopper's page is in another browser: they share no  *)
(* variable, so that each is explored with the others at rest.               *)
EXTENDS ReconciliationWorker, TLC

CONSTANTS
  early, bad,                                  \* versions
  Last, EventPlan, MaxRetained, MaxInterrupts, \* of ProgressOutbox
  Runners, Legs, Attempts, Window, MaxRuns,    \* of ShopperRunner
  Tabs, MaxPayments                            \* of SettledFunding

VARIABLES
  part, \* the part that moves: "scheduler", "outbox", "runner" or "funding"
  current, witnessed, outbox, wire, relays, sent, job, proceeded, interrupts,
  activePlans, epoch, run, pausing, flying, session,
  preparation, bridge, payments, disclosed, received, credit, expired

outboxVars ==
  <<current, witnessed, outbox, wire, relays, sent, job, proceeded, interrupts>>
runnerVars == <<activePlans, epoch, run, pausing, flying, session>>
fundingVars == <<preparation, bridge, payments, disclosed, received, credit, expired>>

Outbox == INSTANCE ProgressOutbox
Runner == INSTANCE ShopperRunner WITH job <- run
Funding == INSTANCE SettledFunding

ASSUME OutboxAssumption == Outbox!PlanAssumption
ASSUME RunnerAssumption == Runner!BoundsAssumption
ASSUME FundingAssumption == Funding!FundingBoundsAssumption

\* A candidate that may be taken over soon, and one without a time.
Takeovers == early :> 2 @@ bad :> 0

PageInit ==
  /\ part \in {"scheduler", "outbox", "runner", "funding"}
  /\ Init /\ Outbox!Init /\ Runner!Init /\ Funding!Init
  /\ part # "outbox" => \A s \in Outbox!Snapshots : outbox[s] = Outbox!NoRow
  /\ part # "scheduler" => active

SchedulerPart ==
  part = "scheduler" /\ UNCHANGED <<part, outboxVars, runnerVars, fundingVars>>
OutboxPart == part = "outbox" /\ UNCHANGED <<part, vars, runnerVars, fundingVars>>
RunnerPart == part = "runner" /\ UNCHANGED <<part, vars, outboxVars, fundingVars>>
FundingPart == part = "funding" /\ UNCHANGED <<part, vars, outboxVars, runnerVars>>

PageNext ==
  \/ Next /\ SchedulerPart
  \/ Outbox!Next /\ OutboxPart
  \/ Runner!Next /\ RunnerPart
  \/ Funding!Next /\ FundingPart

pageVars == <<part, vars, outboxVars, runnerVars, fundingVars>>

\* The fairness of ReconciliationWorker and of ProgressOutbox.
MerchantFairness ==
  /\ WF_pageVars(Fire /\ SchedulerPart)
  /\ WF_pageVars((\E work \in running : Settle(work)) /\ SchedulerPart)
  /\ WF_pageVars(Finally /\ SchedulerPart)
  /\ WF_pageVars(Tick /\ SchedulerPart)
  /\ WF_pageVars(Outbox!Start /\ OutboxPart)
  /\ WF_pageVars(Outbox!Page /\ OutboxPart)
  /\ WF_pageVars(Outbox!OrderAuthenticated /\ OutboxPart)
  /\ WF_pageVars((Outbox!RelayAcknowledges \/ Outbox!RelaySilent) /\ OutboxPart)
  /\ SF_pageVars(Outbox!RelayAcknowledges /\ OutboxPart)

PageSpec == PageInit /\ [][PageNext]_pageVars
LoopsSpec == PageSpec /\ MerchantFairness

-----------------------------------------------------------------------------
(* The properties of the outbox, the runner and the funding; those of the    *)
(* scheduler are its module's.                                               *)

\* No recipient is sent two encryptions of one snapshot; an acknowledgement is
\* true of exactly the bytes beside it; the merchant pays from a state only when
\* it can be read back from the relays (with the types of the outbox).
OneCiphertext ==
  /\ Outbox!TypeOK
  /\ Outbox!OneCiphertext /\ Outbox!AckIsStored /\ Outbox!ProceedsDelivered

\* A stored snapshot is delivered some day, and neither its bytes nor what was
\* acknowledged is ever taken back.
AcceptedForGood == Outbox!EventuallyAccepted /\ Outbox!NothingTakenBack

\* What is at the provider: one operation of one run that is not over, awaited by
\* pauses that are awake (with the types of the loop).
InFlightSafe == Runner!InFlightSafe

\* The funding payer is entered at most once per approval, and never by a run that
\* only resumes, however often the order still asks for the funding.
PayerOnce == Runner!PayerOnce

\* The invoice of a checkout is put up for payment once, by one wallet's call or by
\* showing it, over tabs, approvals, refusals, crashes and reloads, and stays
\* reserved from then on (with the types of the funding).
FundedOnce == Funding!FundedOnce
=============================================================================
