------------------------------ MODULE MCProgress ------------------------------
(***************************************************************************)
(* What has to get done some day, for TLC: an order's claims end and its   *)
(* proof arrives, entrusted stock is moved and returned, a wallet is       *)
(* opened, a run of a settled checkout ends.  They share no variable, so   *)
(* that each is explored with the others at rest.                          *)
(***************************************************************************)
EXTENDS Naturals, TLC

CONSTANTS
  t1, c1, c2, c3, i1, None,                     \* an order's payment
  d1, d2, g1, p1, o1, NoDevice, NoTransfer, NoGrant, \* entrusted stock
  q1, q2, w1, seed, NoPage,                     \* two pages and a wallet
  r1, r2                                        \* two runners of one plan

VARIABLES
  part,  \* what is explored
  order, attempt, payer, courier, wallet, asked, shown, reported, expired, published,
  tabCloses, slept,
  label, row, journal, handed, captured, outgoing, transfers, handouts, ledger, released,
  over, stock, alloc, hold, imported, reconciled, writer, unpublished, latest,
  committed, closedOut, delivered, messages, closes,
  registered, created, hidden, locks, client, connected, closing, op,
  activePlans, epoch, execute, pausing, flying, session

orderVars ==
  <<order, attempt, payer, courier, wallet, asked, shown, reported, expired, published,
    tabCloses, slept>>
stockVars ==
  <<label, row, journal, handed, captured, outgoing, transfers, handouts, ledger, released,
    over, stock, alloc, hold, imported, reconciled, writer, unpublished, latest,
    committed, closedOut, delivered, messages, closes>>
sessionVars == <<registered, created, hidden, locks, client, connected, closing, op>>
runnerVars == <<activePlans, epoch, execute, pausing, flying, session>>
progressVars == <<part, orderVars, stockVars, sessionVars, runnerVars>>

\* One pool of two units and an order of one; one wallet.
OneGood == p1 :> g1
TwoUnits == p1 :> 2
OneLine == o1 :> (p1 :> 1)
OneSeed == w1 :> seed

Payment == INSTANCE OrderPayment WITH
  Tabs <- {t1}, Claims <- {c1, c2, c3}, Invoices <- {i1}, Zaps <- {}, Targets <- {"wallet"},
  MaxPrior <- 1, MaxCloses <- 1, row <- order, run <- payer, closes <- tabCloses
Stock == INSTANCE StockWriter WITH
  Devices <- {d1, d2}, Goods <- {g1}, Grants <- {p1}, Good <- OneGood, Quantity <- TwoUnits,
  Orders <- {o1}, Lines <- OneLine, InitialStock <- 2, Selling <- {d1}, Recovering <- {},
  Clearable <- {}, Trading <- FALSE, sent <- messages
Session == INSTANCE WalletSession WITH
  Pages <- {q1, q2}, Wallets <- {w1}, Checkout <- {}, Identity <- OneSeed, MaxCreated <- 1
Runner == INSTANCE ShopperRunner WITH
  Runners <- {r1, r2}, Legs <- 1, Attempts <- 1, Window <- 1, MaxRuns <- 2,
  job <- execute

ASSUME ProgressAssumptions ==
  /\ Payment!PaymentAssumption
  /\ Stock!GrantAssumption /\ Stock!StockAssumption /\ Stock!DeviceAssumption
  /\ Session!WalletAssumption /\ Session!CreatedAssumption
  /\ Runner!BoundsAssumption

ProgressInit ==
  /\ part \in {"payment", "stock", "session", "runner"}
  /\ Payment!Init /\ Stock!Init /\ Session!Init /\ Runner!Init

PaymentPart ==
  part = "payment" /\ UNCHANGED <<part, stockVars, sessionVars, runnerVars>>
StockPart ==
  part = "stock" /\ UNCHANGED <<part, orderVars, sessionVars, runnerVars>>
SessionPart ==
  part = "session" /\ UNCHANGED <<part, orderVars, stockVars, runnerVars>>
RunnerPart ==
  part = "runner" /\ UNCHANGED <<part, orderVars, stockVars, sessionVars>>

ProgressNext ==
  \/ PaymentPart /\ Payment!Next
  \/ StockPart /\ Stock!Next
  \/ SessionPart /\ Session!Next
  \/ RunnerPart /\ Runner!Next

\* Of OrderPayment: an open tab goes on, looks again, and its relays accept a
\* proof some day; leases that nobody renews lapse.
PaymentFairness ==
  /\ WF_progressVars(PaymentPart /\ Payment!Continue(t1))
  /\ WF_progressVars(PaymentPart /\ Payment!Carry(t1))
  /\ WF_progressVars(PaymentPart /\ Payment!ReconcilePayment(t1))
  /\ WF_progressVars(PaymentPart /\ Payment!ReconcileProof(t1))
  /\ WF_progressVars(PaymentPart /\ Payment!ClaimProof(t1))
  /\ SF_progressVars(PaymentPart /\ Payment!CarryProof(t1) /\ courier'[t1].result = "sent")
  /\ SF_progressVars(PaymentPart /\ Payment!EndCarry(t1) /\ order'.proof = "sent")
  /\ WF_progressVars(PaymentPart /\ Payment!LeaseLapses)

\* Of StockWriter: saved work is retried; and of WalletSession: operations end,
\* and a lock that is asked for is granted in turn.
StockFairness ==
  /\ \A d \in {d1, d2} :
       /\ WF_progressVars(StockPart /\ Stock!PublishTransfer(d))
       /\ \A s \in {d1, d2} : WF_progressVars(StockPart /\ Stock!Restore(d, s))
       /\ WF_progressVars(StockPart /\ Stock!SendClose(d, p1))
       /\ WF_progressVars(StockPart /\ Stock!Send(d, p1, 1))
  /\ WF_progressVars(StockPart /\ Stock!Merchant /\ Stock!Import(o1))
  /\ WF_progressVars(StockPart /\ Stock!Merchant /\ Stock!Reconcile(p1))
SessionFairness ==
  \A q \in {q1, q2} :
    /\ WF_progressVars(SessionPart /\ Session!EndClosing(<<q, w1>>))
    /\ WF_progressVars(SessionPart /\ Session!Advance(<<q, w1>>))
    /\ SF_progressVars(SessionPart /\ Session!Granted(<<q, w1>>))

\* Of ShopperRunner: a run's promises and timers are served.
RunnerFairness ==
  \A r \in {r1, r2} : WF_progressVars(RunnerPart /\ Runner!Execute(r))

ProgressSpec ==
  ProgressInit /\ [][ProgressNext]_progressVars
    /\ PaymentFairness /\ StockFairness /\ SessionFairness /\ RunnerFairness

-----------------------------------------------------------------------------
(* The properties of the instanced modules, for the configuration.         *)

\* A claim left by a closed tab does not hold the order for ever, and the
\* merchant of a paid order gets the proof of payment.
PaymentEnds == Payment!ClaimsEnd /\ Payment!ProofArrives

\* A journal handed over to a prepared device gets there, and a pool that an
\* organizer stops selling from is released.
StockMoves == Stock!Moved /\ Stock!ClosedIsReleased

\* Whoever waits to open or remove a wallet gets an answer.
Answered == Session!Answered

\* Every run of a settled checkout ends, and with it every pause, even if the clock
\* stands still and the order always allows one more step.
Ends == Runner!Ends

=============================================================================
