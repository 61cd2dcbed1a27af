------------------------- MODULE OrderPaymentProofs -------------------------
(* What OrderPayment promises, for any number of tabs, claims and invoices.   *)
(* The argument: a run's authority is the claim on the row (Owned); every     *)
(* invoice by which money may go is the row's, or the order is paid (Money);  *)
(* what a run, a courier or the attempt row knows of an invoice is what       *)
(* became of it (Known, Proofs); an invoice that was shown is kept (Evidence, *)
(* Scans); and whoever publishes a proof has its lease or missed it (Leases). *)
EXTENDS OrderPayment, FiniteSetTheorems, TLAPS

-----------------------------------------------------------------------------
(* The inductive invariant.                                                *)

\* Runs that may still take their claim back, runs whose wallet was called, and those
\* that are at the proof; couriers past the search for a receipt.
Early == {"claimed", "requesting", "received"}
Ready == {"received", "approved"}
Called == {"calling", "paid", "refused", "ambiguous", "saved", "recovering"}
Proving == {"reported", "publishing", "told", "noted"}
Carrying == {"observed", "publishing", "told", "noted"}

Acts(j) == j.st # "idle" /\ j.id # None

\* No two runs or couriers act under one claim id.
Ids ==
  \A t, u \in Tabs :
    /\ Acts(run[t]) /\ Acts(run[u]) /\ run[t].id = run[u].id => t = u
    /\ Acts(courier[t]) /\ Acts(courier[u]) /\ courier[t].id = courier[u].id => t = u
    /\ Acts(run[t]) /\ Acts(courier[u]) => run[t].id # courier[u].id

\* The run that the row belongs to.
Holds(t) == run[t].st # "idle" /\ row.claim = run[t].id

\* What is about the proof is about a paid order.
PaidFirst ==
  /\ row.proof # "not_started" \/ row.receipt = "observed" \/ row.proved => row.pay = "paid"
  /\ \A t \in Tabs : /\ run[t].st \in Proving => row.pay = "paid"
                     /\ courier[t].st \in Carrying => row.pay = "paid"

\* A paid order that is still claimed is the one of the run that paid it.
PaidClaim ==
  /\ row.claim # None => row.pay # "manual_required" /\ row.receipt # "observed"
  /\ row.claim # None /\ row.pay = "paid" =>
       /\ row.proof = "pending" /\ row.pclaim = row.claim
       /\ \A t \in Tabs :
            /\ run[t].st \in Proving => run[t].id = row.claim
            /\ Holds(t) => run[t].st \in Proving \cup {"recovering"}
            /\ courier[t].st \notin Carrying

\* A row a claim replaced: nothing of it was paid.
Replaced(b) ==
  /\ b \in Row /\ b.pay \in {"not_started", "failed", "manual_required"}
  /\ b.proof = "not_started" /\ ~ b.proved /\ b.receipt # "observed"
  /\ b.zap # None => b.invoice # None
  /\ b.pay = "manual_required" => b.invoice \in shown
  /\ b.invoice # None => wallet[b.invoice] # "unknown"

\* What the row says while its run is on the way to the wallet and back.
Authority ==
  \A t \in Tabs :
    /\ run[t].st \in Early => Replaced(run[t].before)
    /\ run[t].st = "received" => run[t].before.invoice # run[t].invoice
    /\ Holds(t) /\ run[t].st \in Early /\ run[t].before.invoice \in row.prior
         => ~ run[t].before.public
    /\ Holds(t) /\ run[t].st \in {"claimed", "requesting"} =>
         row.pay = "not_started" /\ row.invoice = None /\ row.zap = None
    /\ Holds(t) /\ run[t].st \in Called \cup Ready /\ run[t].st # "recovering" =>
         row.invoice = run[t].invoice /\ row.pay \in {"paying", "ambiguous"}

\* Paid: settled by a wallet, or reported by the buyer it was shown to.
Good(i) == wallet[i] = "settled" \/ i \in reported \cap shown

\* Where the invoices of the row and of the tabs are with the wallets.
RowKnown ==
  /\ row.invoice # None => wallet[row.invoice] # "unknown"
  /\ row.zap # None => row.invoice # None
  /\ row.pay \in {"paying", "manual_required", "paid"} => row.invoice # None
  /\ row.pay = "manual_required" => row.invoice \in shown
  /\ row.prior \subseteq shown

WalletKnown ==
  /\ asked \cap shown = {}
  /\ \A i \in Invoices :
       /\ wallet[i] \in {"calling", "settled", "refused"} <=> i \in asked \cup shown
       /\ wallet[i] = "refused" => i \in asked

RunKnown(t) ==
  /\ run[t].st \in Ready => run[t].invoice # None /\ wallet[run[t].invoice] = "issued"
  /\ run[t].st \in Called => run[t].invoice \in asked
  /\ run[t].st = "refused" => wallet[run[t].invoice] = "refused"
  /\ run[t].st \in {"paid", "saved", "recovering"} => wallet[run[t].invoice] = "settled"
  /\ run[t].st \in Proving /\ run[t].moved =>
       run[t].invoice \in asked /\ wallet[run[t].invoice] = "settled"
  /\ run[t].st \in Proving => run[t].invoice # None /\ Good(run[t].invoice)
  /\ run[t].st \in {"told", "noted"} => run[t].result \in {"sent", "retry_needed"}

CourierKnown(t) ==
  /\ courier[t].st \in Carrying => courier[t].invoice # None /\ Good(courier[t].invoice)
  /\ courier[t].st \in Carrying \ {"observed"} => courier[t].id # None
  /\ courier[t].st \in {"told", "noted"} => courier[t].result \in {"sent", "retry_needed"}

Known ==
  /\ RowKnown /\ WalletKnown /\ \A t \in Tabs : RunKnown(t) /\ CourierKnown(t)
  /\ \A t, u \in Tabs :
       run[t].st \in Ready /\ run[u].st \in Ready /\ run[t].invoice = run[u].invoice => t = u

\* An invoice by which money may go: open, or of a run that may hand it to a wallet.
Approved(i) ==
  \E t \in Tabs : /\ run[t].invoice = i
                  /\ run[t].st = "approved" \/ (run[t].st = "received" /\ Holds(t))
Live(i) == Open(i) \/ Approved(i)

\* There is one at most, and the row has it until the order is paid.
Money ==
  /\ \A i, j \in Invoices : Live(i) /\ Live(j) => i = j
  /\ \A i \in Invoices : Live(i) =>
       \/ row.pay = "paid"
       \/ row.invoice = i /\ row.pay \in {"paying", "ambiguous", "manual_required"}
  /\ (\E i \in asked : wallet[i] # "refused") \/ (\E t \in Tabs : run[t].st = "approved")
       => row.pay \in {"paying", "ambiguous", "paid"}

\* An invoice that was shown is in the row, at hand, or kept there as expired.
Evidence ==
  \A i \in shown :
    \/ row.pay = "paid" \/ i \in row.prior
    \/ i = row.invoice /\ row.pay \in {"manual_required", "ambiguous"} /\ row.claim = None

\* What is called paid was paid.
Proofs ==
  /\ row.pay = "paid" => Good(row.invoice)
  /\ attempt.invoice # None => Good(attempt.invoice)
  /\ attempt.proved \/ attempt.receipt # None \/ attempt.proof # "not_started"
        => attempt.invoice # None
  /\ \A i \in published : Good(i)

\* A search for a receipt is about an invoice that was paid for in public, and one
\* that is kept as expired was not.
Scans ==
  /\ row.invoice \in row.prior => ~ row.public
  /\ \A t \in Tabs : courier[t].st = "scanning" =>
       /\ courier[t].invoice # None /\ courier[t].zap # None /\ courier[t].id = None
       /\ wallet[courier[t].invoice] # "unknown"
       /\ row.pay # "paid" => courier[t].invoice \notin row.prior
       /\ row.pay # "paid" /\ row.invoice = courier[t].invoice => row.public
       /\ \A u \in Tabs :
            run[u].st \in Early /\ Holds(u) /\ run[u].before.invoice = courier[t].invoice
              => run[u].before.public

\* The claims under which a proof is, or is about to be, published.
Publishes(c) ==
  \/ \E t \in Tabs : run[t].st \in {"reported", "publishing"} /\ run[t].id = c
  \/ \E t \in Tabs : courier[t].st \in {"observed", "publishing"} /\ courier[t].id = c

\* Whoever publishes has the proof's lease, or missed it, or comes behind a sent proof.
Leases ==
  /\ row.claim # None /\ ~ row.live => row.claim \in slept
  /\ row.pclaim # None /\ ~ row.plive => row.pclaim \in slept
  /\ \A c \in Claims : Publishes(c) =>
       \/ c \in slept \/ row.proof = "sent" \/ (row.pclaim = c /\ row.plive)
  /\ \A c, d \in Claims : Publishes(c) /\ Publishes(d) /\ c # d => c \in slept \/ d \in slept

Typed == TypeOK /\ IsFiniteSet(row.prior)
Owned == Ids /\ PaidFirst /\ PaidClaim /\ Authority
Inv == Typed /\ Owned /\ Known /\ Money /\ Evidence /\ Proofs /\ Scans /\ Leases

-----------------------------------------------------------------------------
(* Rows and jobs.                                                          *)

\* The statuses of a proof of payment.
ProofStatus == {"not_started", "pending", "retry_needed", "sent"}

\* A patch of the proof's status, with the claim it drops.
LEMMA WithProofType ==
  ASSUME NEW r \in Row, NEW p \in ProofStatus PROVE WithProof(r, p) \in Row
  <1>1. None \in Maybe(Claims)
    BY DEF Maybe
  <1> QED BY <1>1 DEF WithProof, Row, ProofStatus

\* The fields WithProof leaves and the one it writes.
LEMMA WithProofIs ==
  ASSUME NEW r \in Row, NEW p \in ProofStatus
  PROVE  /\ WithProof(r, p).proof = p
         /\ p = "pending" =>
              WithProof(r, p).pclaim = r.pclaim /\ WithProof(r, p).plive = r.plive
         /\ p # "pending" => WithProof(r, p).pclaim = None /\ ~ WithProof(r, p).plive
         /\ WithProof(r, p).pay = r.pay /\ WithProof(r, p).inv = r.inv
         /\ WithProof(r, p).claim = r.claim /\ WithProof(r, p).live = r.live
         /\ WithProof(r, p).invoice = r.invoice /\ WithProof(r, p).proved = r.proved
         /\ WithProof(r, p).zap = r.zap /\ WithProof(r, p).receipt = r.receipt
         /\ WithProof(r, p).public = r.public /\ WithProof(r, p).prior = r.prior
         /\ WithProof(r, p).target = r.target
  <1>1. CASE p = "pending"
    <2>1. WithProof(r, p) = [r EXCEPT !.proof = p]
      BY <1>1 DEF WithProof
    <2> QED BY <1>1, <2>1 DEF Row, ProofStatus
  <1>2. CASE p # "pending"
    <2>1. WithProof(r, p) = [r EXCEPT !.proof = p, !.pclaim = None, !.plive = FALSE]
      BY <1>2 DEF WithProof
    <2> QED BY <1>2, <2>1 DEF Row, ProofStatus
  <1> QED BY <1>1, <1>2

\* A row whose payment claim is given up.
LEMMA ReleasedType == ASSUME NEW r \in Row PROVE Released(r) \in Row
  BY DEF Released, Row, Maybe

\* The fields Released leaves and the ones it clears.
LEMMA ReleasedIs ==
  ASSUME NEW r \in Row
  PROVE  LET s == Released(r) IN
         /\ s.claim = None /\ ~ s.live
         /\ s.pay = r.pay /\ s.inv = r.inv /\ s.proof = r.proof
         /\ s.pclaim = r.pclaim /\ s.plive = r.plive /\ s.invoice = r.invoice
         /\ s.proved = r.proved /\ s.zap = r.zap /\ s.receipt = r.receipt
         /\ s.public = r.public /\ s.prior = r.prior /\ s.target = r.target
  BY DEF Released, Row, Maybe

\* Both.
LEMMA ReleasedProofType ==
  ASSUME NEW r \in Row, NEW p \in ProofStatus PROVE Released(WithProof(r, p)) \in Row
  BY WithProofType, ReleasedType, Zenon

\* The fields ReleasedProof leaves and the ones it clears.
LEMMA ReleasedProofIs ==
  ASSUME NEW r \in Row, NEW p \in ProofStatus
  PROVE  LET s == Released(WithProof(r, p)) IN
         /\ s.claim = None /\ ~ s.live /\ s.proof = p
         /\ p = "pending" => s.pclaim = r.pclaim /\ s.plive = r.plive
         /\ p # "pending" => s.pclaim = None /\ ~ s.plive
         /\ s.pay = r.pay /\ s.inv = r.inv /\ s.invoice = r.invoice
         /\ s.proved = r.proved /\ s.zap = r.zap /\ s.receipt = r.receipt
         /\ s.public = r.public /\ s.prior = r.prior /\ s.target = r.target
  <1>1. WithProof(r, p) \in Row
    BY WithProofType
  <1> QED BY <1>1, WithProofIs, ReleasedIs

\* A row whose receipt was found.
LEMMA ObservedIs ==
  ASSUME NEW r \in Row
  PROVE  LET s == [r EXCEPT !.inv = "received", !.pay = "paid", !.receipt = "observed"] IN
         /\ s \in Row /\ s.pay = "paid" /\ s.receipt = "observed"
         /\ s.proof = r.proof /\ s.claim = r.claim /\ s.live = r.live
         /\ s.pclaim = r.pclaim /\ s.plive = r.plive /\ s.invoice = r.invoice
         /\ s.zap = r.zap /\ s.public = r.public /\ s.prior = r.prior
  BY DEF Row

\* A row whose proof somebody has claimed.
LEMMA HoldProofType ==
  ASSUME NEW r \in Row, NEW c \in Claims PROVE HoldProof(r, c) \in Row
  BY DEF HoldProof, Row, Maybe

\* The fields HoldProof leaves and the ones it writes.
LEMMA HoldProofIs ==
  ASSUME NEW r \in Row, NEW c \in Claims
  PROVE  /\ HoldProof(r, c).proof = "pending" /\ HoldProof(r, c).pclaim = c
         /\ HoldProof(r, c).plive
         /\ HoldProof(r, c).pay = r.pay /\ HoldProof(r, c).inv = r.inv
         /\ HoldProof(r, c).claim = r.claim /\ HoldProof(r, c).live = r.live
         /\ HoldProof(r, c).invoice = r.invoice /\ HoldProof(r, c).proved = r.proved
         /\ HoldProof(r, c).zap = r.zap /\ HoldProof(r, c).receipt = r.receipt
         /\ HoldProof(r, c).public = r.public /\ HoldProof(r, c).prior = r.prior
         /\ HoldProof(r, c).target = r.target
  BY DEF HoldProof, Row, Maybe

\* A tab with nothing under way.
LEMMA IdleIs ==
  /\ Idle \in Job(RunSteps) /\ Idle \in Job(CourierSteps)
  /\ Idle.st = "idle" /\ Idle.id = None
  BY DEF Idle, Job, RunSteps, CourierSteps, Maybe

-----------------------------------------------------------------------------
\* The order as it was placed.
LEMMA InitInv == ASSUME PaymentAssumption, Init PROVE Inv
  <1> USE IdleIs DEF Init
  <1>0. run \in [Tabs -> Job(RunSteps)] /\ courier \in [Tabs -> Job(CourierSteps)]
        /\ \A t \in Tabs : run[t] = Idle /\ courier[t] = Idle
    OBVIOUS
  <1>1. /\ row \in Row /\ row.prior = {} /\ row.claim = None /\ row.pclaim = None
        /\ ~ row.live /\ ~ row.plive /\ row.proof = "not_started"
        /\ row.pay = "not_started" /\ row.invoice = None /\ row.zap = None
        /\ row.receipt = "na" /\ ~ row.proved
    BY DEF NewRow, Row, Maybe
  <1>2. /\ attempt \in Attempt /\ attempt.invoice = None /\ attempt.receipt = None
        /\ ~ attempt.proved /\ attempt.proof = "not_started"
    BY DEF NoAttempt, Attempt, Maybe
  <1>3. Typed
    BY <1>0, <1>1, <1>2, FS_EmptySet DEF Typed, TypeOK, PaymentAssumption
  <1>4. Owned
    BY <1>0, <1>1 DEF Owned, Ids, Acts, PaidFirst, PaidClaim, Authority, Holds, Early,
      Called, Ready, Proving, Carrying
  <1>5. Known
    BY <1>0, <1>1 DEF Known, RowKnown, WalletKnown, RunKnown, CourierKnown, Called, Ready,
      Proving, Carrying
  <1>6. Money
    BY <1>0, <1>1 DEF Money, Live, Open, Approved
  <1>7. Evidence /\ Proofs /\ Scans
    BY <1>0, <1>1, <1>2 DEF Evidence, Proofs, Scans
  <1>8. Leases
    BY <1>0, <1>1 DEF Leases, Publishes
  <1> QED BY <1>3, <1>4, <1>5, <1>6, <1>7, <1>8 DEF Inv

\* Tabs that stop, with nothing else changed.
LEMMA Rests ==
  ASSUME Inv, row' = row, attempt' = attempt, UNCHANGED worldVars, slept' = slept,
         closes' \in 0 .. MaxCloses,
         run' \in [Tabs -> Job(RunSteps)], courier' \in [Tabs -> Job(CourierSteps)],
         \A t \in Tabs : run'[t] \in {run[t], Idle} /\ courier'[t] \in {courier[t], Idle}
  PROVE  Inv'
  <1> USE IdleIs DEF worldVars
  <1>1. Typed'
    BY DEF Inv, Typed, TypeOK
  <1>2. Owned'
    <2>1. Ids' /\ PaidFirst'
      BY DEF Inv, Owned, Ids, Acts, PaidFirst, Proving, Carrying
    <2>2. PaidClaim'
      BY DEF Inv, Owned, PaidClaim, Holds, Proving, Carrying
    <2>3. Authority'
      BY DEF Inv, Owned, Authority, Replaced, Holds, Early, Called, Ready
    <2> QED BY <2>1, <2>2, <2>3 DEF Owned
  <1>3. Known'
    BY DEF Inv, Known, RowKnown, WalletKnown, RunKnown, CourierKnown, Good, Called, Ready,
      Proving, Carrying
  <1>4. Money'
    BY DEF Inv, Money, Live, Open, Approved, Holds
  <1>5. Evidence' /\ Proofs' /\ Scans'
    BY DEF Inv, Evidence, Proofs, Scans, Good, Holds, Early
  <1>6. Leases'
    BY DEF Inv, Leases, Publishes
  <1> QED BY <1>1, <1>2, <1>3, <1>4, <1>5, <1>6 DEF Inv

\* Steps of a run or a courier.
LEMMA StepsAre ==
  /\ "idle" \in RunSteps /\ "claimed" \in RunSteps /\ "requesting" \in RunSteps
  /\ "received" \in RunSteps /\ "approved" \in RunSteps /\ "calling" \in RunSteps
  /\ "paid" \in RunSteps /\ "refused" \in RunSteps /\ "ambiguous" \in RunSteps
  /\ "saved" \in RunSteps /\ "recovering" \in RunSteps /\ "reported" \in RunSteps
  /\ "publishing" \in RunSteps /\ "told" \in RunSteps /\ "noted" \in RunSteps
  /\ "scanning" \in CourierSteps /\ "observed" \in CourierSteps
  /\ "publishing" \in CourierSteps /\ "told" \in CourierSteps /\ "noted" \in CourierSteps
  BY DEF RunSteps, CourierSteps

\* Replacing what one tab is doing,
LEMMA RunSet ==
  ASSUME run \in [Tabs -> Job(RunSteps)], NEW t \in Tabs, NEW j \in Job(RunSteps),
         run' = [run EXCEPT ![t] = j]
  PROVE  /\ run' \in [Tabs -> Job(RunSteps)] /\ run'[t] = j
         /\ \A u \in Tabs \ {t} : run'[u] = run[u]
  OBVIOUS

\* A write to the courier of one tab.
LEMMA CourierSet ==
  ASSUME courier \in [Tabs -> Job(CourierSteps)], NEW t \in Tabs,
         NEW j \in Job(CourierSteps), courier' = [courier EXCEPT ![t] = j]
  PROVE  /\ courier' \in [Tabs -> Job(CourierSteps)] /\ courier'[t] = j
         /\ \A u \in Tabs \ {t} : courier'[u] = courier[u]
  OBVIOUS

\* and only its step.
LEMMA RunStep ==
  ASSUME run \in [Tabs -> Job(RunSteps)], NEW t \in Tabs, NEW st \in RunSteps,
         run' = [run EXCEPT ![t].st = st]
  PROVE  /\ run' \in [Tabs -> Job(RunSteps)] /\ \A u \in Tabs \ {t} : run'[u] = run[u]
         /\ run'[t].st = st /\ run'[t].id = run[t].id /\ run'[t].invoice = run[t].invoice
         /\ run'[t].zap = run[t].zap /\ run'[t].result = run[t].result
         /\ run'[t].before = run[t].before /\ run'[t].moved = run[t].moved
  <1> DEFINE j == [run[t] EXCEPT !.st = st]
  <1>1. run[t] \in Job(RunSteps)
    OBVIOUS
  <1>2. /\ j \in Job(RunSteps) /\ j.st = st /\ j.id = run[t].id
        /\ j.invoice = run[t].invoice /\ j.zap = run[t].zap /\ j.result = run[t].result
        /\ j.before = run[t].before /\ j.moved = run[t].moved
    BY <1>1 DEF Job
  <1>3. run' = [run EXCEPT ![t] = j]
    OBVIOUS
  <1> HIDE DEF j
  <1> QED BY <1>2, <1>3, RunSet

\* A step of the courier of one tab, at that tab and at the others.
LEMMA CourierStep ==
  ASSUME courier \in [Tabs -> Job(CourierSteps)], NEW t \in Tabs, NEW st \in CourierSteps,
         courier' = [courier EXCEPT ![t].st = st]
  PROVE  /\ courier' \in [Tabs -> Job(CourierSteps)]
         /\ \A u \in Tabs \ {t} : courier'[u] = courier[u]
         /\ courier'[t].st = st /\ courier'[t].id = courier[t].id
         /\ courier'[t].invoice = courier[t].invoice /\ courier'[t].zap = courier[t].zap
         /\ courier'[t].result = courier[t].result /\ courier'[t].moved = courier[t].moved
  <1> DEFINE j == [courier[t] EXCEPT !.st = st]
  <1>1. courier[t] \in Job(CourierSteps)
    OBVIOUS
  <1>2. /\ j \in Job(CourierSteps) /\ j.st = st /\ j.id = courier[t].id
        /\ j.invoice = courier[t].invoice /\ j.zap = courier[t].zap
        /\ j.result = courier[t].result /\ j.moved = courier[t].moved
    BY <1>1 DEF Job
  <1>3. courier' = [courier EXCEPT ![t] = j]
    OBVIOUS
  <1> HIDE DEF j
  <1> QED BY <1>2, <1>3, CourierSet

\* Renewing or missing a lease changes nothing else.
LEMMA LiveIs ==
  ASSUME NEW r \in Row, NEW b \in BOOLEAN
  PROVE  LET s == [r EXCEPT !.live = b] IN
         /\ s \in Row /\ s.live = b
         /\ s.pay = r.pay /\ s.inv = r.inv /\ s.proof = r.proof /\ s.claim = r.claim
         /\ s.pclaim = r.pclaim /\ s.plive = r.plive /\ s.invoice = r.invoice
         /\ s.proved = r.proved /\ s.zap = r.zap /\ s.receipt = r.receipt
         /\ s.public = r.public /\ s.prior = r.prior /\ s.target = r.target
  BY DEF Row

\* Asking for an invoice renews the lease of the claim.
LEMMA RequestInvoiceInv ==
  ASSUME PaymentAssumption, Inv, NEW t \in Tabs, RequestInvoice(t) PROVE Inv'
  <1>1. TypeOK /\ row \in Row /\ row.claim = run[t].id /\ row.claim # None
    BY DEF Inv, Typed, TypeOK, RequestInvoice, Fenced
  <1>2. row' = [row EXCEPT !.live = TRUE] /\ run' = [run EXCEPT ![t].st = "requesting"]
        /\ run[t].st = "claimed"
        /\ UNCHANGED <<attempt, courier, wallet, asked, shown, reported, expired, published,
                       closes, slept>>
    BY DEF RequestInvoice, worldVars, tabVars
  <1>3. /\ row' \in Row /\ row'.live
        /\ row'.pay = row.pay /\ row'.inv = row.inv /\ row'.proof = row.proof
        /\ row'.claim = row.claim /\ row'.pclaim = row.pclaim /\ row'.plive = row.plive
        /\ row'.invoice = row.invoice /\ row'.proved = row.proved /\ row'.zap = row.zap
        /\ row'.receipt = row.receipt /\ row'.public = row.public
        /\ row'.prior = row.prior /\ row'.target = row.target
    BY <1>1, <1>2, LiveIs
  <1>4. /\ run' \in [Tabs -> Job(RunSteps)] /\ \A u \in Tabs \ {t} : run'[u] = run[u]
        /\ run'[t].st = "requesting" /\ run'[t].id = run[t].id
        /\ run'[t].invoice = run[t].invoice /\ run'[t].before = run[t].before
    BY <1>1, <1>2, StepsAre, RunStep DEF TypeOK
  <1>5. Typed'
    BY <1>1, <1>2, <1>3, <1>4 DEF Inv, Typed, TypeOK
  <1>6. Ids'
    BY <1>1, <1>2, <1>3, <1>4 DEF Inv, Owned, Ids, Acts
  <1>7. PaidFirst'
    BY <1>1, <1>2, <1>3, <1>4 DEF Inv, Owned, PaidFirst, Proving, Carrying
  <1>8. PaidClaim'
    BY <1>1, <1>2, <1>3, <1>4 DEF Inv, Owned, PaidClaim, Holds, Proving, Carrying
  <1>9. Authority'
    BY <1>1, <1>2, <1>3, <1>4 DEF Inv, Owned, Authority, Replaced, Holds, Early, Ready,
      Called
  <1>10. Known'
    BY <1>1, <1>2, <1>3, <1>4 DEF Inv, Known, RowKnown, WalletKnown, RunKnown, CourierKnown,
      Good, Ready, Called, Proving, Carrying
  <1>11. Money'
    BY <1>1, <1>2, <1>3, <1>4 DEF Inv, Money, Live, Open, Approved, Holds
  <1>12. Evidence'
    BY <1>1, <1>2, <1>3, <1>4 DEF Inv, Evidence
  <1>13. Proofs'
    BY <1>1, <1>2, <1>3, <1>4 DEF Inv, Proofs, Good
  <1>14. Scans'
    BY <1>1, <1>2, <1>3, <1>4 DEF Inv, Scans, Holds, Early
  <1>15. Leases'
    BY <1>1, <1>2, <1>3, <1>4 DEF Inv, Leases, Publishes
  <1> QED BY <1>5, <1>6, <1>7, <1>8, <1>9, <1>10, <1>11, <1>12, <1>13, <1>14, <1>15 DEF Inv,
    Owned

\* The last fence: the run's invoice is the row's, and it is live already.
LEMMA ApproveInv ==
  ASSUME PaymentAssumption, Inv, NEW t \in Tabs, Approve(t) PROVE Inv'
  <1>1. /\ TypeOK /\ row \in Row /\ row.claim = run[t].id /\ row.claim # None
        /\ row.pay # "paid" /\ run[t].st = "received"
    BY DEF Inv, Typed, TypeOK, Approve, Fenced
  <1>2. row' = [row EXCEPT !.live = TRUE] /\ run' = [run EXCEPT ![t].st = "approved"]
        /\ UNCHANGED <<attempt, courier, wallet, asked, shown, reported, expired, published,
                       closes, slept>>
    BY DEF Approve, worldVars, tabVars
  <1>3. /\ row' \in Row /\ row'.pay = row.pay /\ row'.inv = row.inv
        /\ row'.proof = row.proof /\ row'.claim = row.claim /\ row'.live
        /\ row'.pclaim = row.pclaim /\ row'.plive = row.plive
        /\ row'.invoice = row.invoice /\ row'.proved = row.proved
        /\ row'.zap = row.zap /\ row'.receipt = row.receipt
        /\ row'.public = row.public /\ row'.prior = row.prior
        /\ row'.target = row.target
    BY <1>1, <1>2, LiveIs
  <1>4. /\ run' \in [Tabs -> Job(RunSteps)] /\ \A u \in Tabs \ {t} : run'[u] = run[u]
        /\ run'[t].st = "approved" /\ run'[t].id = run[t].id /\ run'[t].zap = run[t].zap
        /\ run'[t].invoice = run[t].invoice /\ run'[t].before = run[t].before
        /\ run'[t].result = run[t].result /\ run'[t].moved = run[t].moved
    BY <1>1, <1>2, StepsAre, RunStep DEF TypeOK
  <1>5. Typed'
    BY <1>1, <1>2, <1>3, <1>4 DEF Inv, Typed, TypeOK
  <1>6. Ids'
    BY <1>1, <1>2, <1>3, <1>4 DEF Inv, Owned, Ids, Acts
  <1>7. PaidFirst'
    BY <1>1, <1>2, <1>3, <1>4 DEF Inv, Owned, PaidFirst, Proving, Carrying
  <1>8. PaidClaim'
    BY <1>1, <1>2, <1>3, <1>4 DEF Inv, Owned, PaidClaim, Holds, Proving, Carrying
  <1>9. Authority'
    BY <1>1, <1>2, <1>3, <1>4 DEF Inv, Owned, Authority, Replaced, Holds, Early, Ready,
      Called
  <1>10. Known'
    BY <1>1, <1>2, <1>3, <1>4 DEF Inv, Known, RowKnown, WalletKnown, RunKnown, CourierKnown,
      Good, Ready, Called, Proving, Carrying
  <1>11. Money'
    BY <1>1, <1>2, <1>3, <1>4 DEF Inv, Money, Live, Open, Approved, Holds, Owned, Authority,
      Ready
  <1>12. Evidence'
    BY <1>1, <1>2, <1>3, <1>4 DEF Inv, Evidence
  <1>13. Proofs'
    BY <1>1, <1>2, <1>3, <1>4 DEF Inv, Proofs, Good
  <1>14. Scans'
    BY <1>1, <1>2, <1>3, <1>4 DEF Inv, Scans, Holds, Early
  <1>15. Leases'
    BY <1>1, <1>2, <1>3, <1>4 DEF Inv, Leases, Publishes
  <1> QED BY <1>5, <1>6, <1>7, <1>8, <1>9, <1>10, <1>11, <1>12, <1>13, <1>14, <1>15 DEF Inv,
    Owned

\* The invoice of an approved run, live already, is in a wallet's hands.
LEMMA CallWalletInv ==
  ASSUME PaymentAssumption, Inv, NEW t \in Tabs, CallWallet(t) PROVE Inv'
  <1> DEFINE i == run[t].invoice
  <1>1. /\ TypeOK /\ run[t].st = "approved" /\ i \in Invoices /\ wallet[i] = "issued"
        /\ run[t] \in Job(RunSteps)
    BY DEF Inv, Typed, TypeOK, CallWallet, Known, RunKnown, Ready, Job, Maybe
  <1>2. /\ asked' = asked \cup {i} /\ wallet' = [wallet EXCEPT ![i] = "calling"]
        /\ UNCHANGED <<row, attempt, courier, shown, reported, expired, published, closes,
                       slept>>
    BY DEF CallWallet, rowVars, tabVars
  <1>3. /\ wallet' \in [Invoices -> {"unknown", "issued", "calling", "settled", "refused"}]
        /\ wallet'[i] = "calling" /\ \A k \in Invoices \ {i} : wallet'[k] = wallet[k]
    BY <1>1, <1>2 DEF TypeOK
  <1>4. /\ run' \in [Tabs -> Job(RunSteps)] /\ \A u \in Tabs \ {t} : run'[u] = run[u]
        /\ run'[t].st = "calling" /\ run'[t].id = run[t].id
        /\ run'[t].invoice = i
    <2> DEFINE j == [run[t] EXCEPT !.st = "calling", !.before = None]
    <2>1. j \in Job(RunSteps) /\ j.st = "calling" /\ j.id = run[t].id /\ j.invoice = i
      BY <1>1, StepsAre DEF Job, Maybe
    <2>2. run' = [run EXCEPT ![t] = j]
      BY <1>1 DEF CallWallet, TypeOK
    <2> HIDE DEF j
    <2> QED BY <1>1, <2>1, <2>2, RunSet DEF TypeOK
  <1>5. Typed'
    BY <1>1, <1>2, <1>3, <1>4 DEF Inv, Typed, TypeOK
  <1>6. Ids'
    BY <1>1, <1>2, <1>3, <1>4 DEF Inv, Owned, Ids, Acts
  <1>7. PaidFirst'
    BY <1>1, <1>2, <1>3, <1>4 DEF Inv, Owned, PaidFirst, Proving, Carrying
  <1>8. PaidClaim'
    BY <1>1, <1>2, <1>3, <1>4 DEF Inv, Owned, PaidClaim, Holds, Proving, Carrying
  <1>9. Authority'
    BY <1>1, <1>2, <1>3, <1>4 DEF Inv, Owned, Authority, Replaced, Holds, Early, Ready,
      Called
  <1>10. Known'
    BY <1>1, <1>2, <1>3, <1>4 DEF Inv, Known, RowKnown, WalletKnown, RunKnown, CourierKnown,
      Good, Ready, Called, Proving, Carrying, Typed, TypeOK
  <1>11. Money'
    BY <1>1, <1>2, <1>3, <1>4 DEF Inv, Money, Live, Open, Approved, Holds, Known,
      WalletKnown, Typed, TypeOK
  <1>12. Evidence'
    BY <1>1, <1>2, <1>3, <1>4 DEF Inv, Evidence
  <1>13. Proofs'
    BY <1>1, <1>2, <1>3, <1>4 DEF Inv, Proofs, Good
  <1>14. Scans'
    BY <1>1, <1>2, <1>3, <1>4 DEF Inv, Scans, Holds, Early
  <1>15. Leases'
    BY <1>1, <1>2, <1>3, <1>4 DEF Inv, Leases, Publishes
  <1> QED BY <1>5, <1>6, <1>7, <1>8, <1>9, <1>10, <1>11, <1>12, <1>13, <1>14, <1>15 DEF Inv,
    Owned

\* A run that only stops.
LEMMA StopInv ==
  ASSUME PaymentAssumption, Inv, NEW t \in Tabs, Stop(t), row' = row,
         UNCHANGED <<attempt, courier>>, UNCHANGED worldVars, UNCHANGED tabVars
  PROVE  Inv'
  <1>1. TypeOK
    BY DEF Inv, Typed
  <1>2. /\ run' \in [Tabs -> Job(RunSteps)] /\ run'[t] = Idle
        /\ \A u \in Tabs \ {t} : run'[u] = run[u]
    BY <1>1, IdleIs, RunSet DEF TypeOK, Stop
  <1> QED BY <1>1, <1>2, Rests DEF TypeOK, tabVars

\* A run that finds its claim taken only stops.
LEMMA SupersededInv ==
  ASSUME PaymentAssumption, Inv, NEW t \in Tabs, Superseded(t) PROVE Inv'
  BY StopInv DEF Superseded

\* A search that is given up.
LEMMA ScanEndsInv ==
  ASSUME PaymentAssumption, Inv, NEW t \in Tabs, ScanEnds(t) PROVE Inv'
  <1>1. TypeOK
    BY DEF Inv, Typed
  <1>2. /\ courier' \in [Tabs -> Job(CourierSteps)] /\ courier'[t] = Idle
        /\ \A u \in Tabs \ {t} : courier'[u] = courier[u]
    BY <1>1, IdleIs, CourierSet DEF TypeOK, ScanEnds
  <1> QED BY <1>1, <1>2, Rests DEF TypeOK, ScanEnds, rowVars, tabVars

\* A closed tab forgets what it was doing; the row keeps the claim.
LEMMA CloseInv ==
  ASSUME PaymentAssumption, Inv, NEW t \in Tabs, Close(t) PROVE Inv'
  <1>1. TypeOK
    BY DEF Inv, Typed
  <1>2. /\ run' \in [Tabs -> Job(RunSteps)] /\ run'[t] = Idle
        /\ \A u \in Tabs \ {t} : run'[u] = run[u]
    BY <1>1, IdleIs, RunSet DEF TypeOK, Close
  <1>3. /\ courier' \in [Tabs -> Job(CourierSteps)] /\ courier'[t] = Idle
        /\ \A u \in Tabs \ {t} : courier'[u] = courier[u]
    BY <1>1, IdleIs, CourierSet DEF TypeOK, Close
  <1>4. closes' \in 0 .. MaxCloses
    BY <1>1 DEF Close, TypeOK, PaymentAssumption
  <1> QED BY <1>1, <1>2, <1>3, <1>4, Rests DEF TypeOK, Close, rowVars

\* What a run hears of a wallet's call is what became of the invoice.
LEMMA HearInv ==
  ASSUME PaymentAssumption, Inv, NEW t \in Tabs, Hear(t) PROVE Inv'
  <1>1. TypeOK /\ run[t].st = "calling" /\ run[t] \in Job(RunSteps)
    BY DEF Inv, Typed, TypeOK, Hear
  <1>2. UNCHANGED <<row, attempt, courier, wallet, asked, shown, reported, expired, published,
                    closes, slept>>
    BY DEF Hear, rowVars, worldVars, tabVars
  <1>3. PICK a \in {"paid", "refused", "ambiguous"} :
          /\ a = "paid" => wallet[run[t].invoice] = "settled"
          /\ a = "refused" => wallet[run[t].invoice] = "refused"
          /\ run' = [run EXCEPT ![t].st = a, ![t].moved = (a = "paid")]
    BY DEF Hear
  <1>4. /\ run' \in [Tabs -> Job(RunSteps)] /\ \A u \in Tabs \ {t} : run'[u] = run[u]
        /\ run'[t].st = a /\ run'[t].id = run[t].id /\ run'[t].invoice = run[t].invoice
    <2> DEFINE j == [run[t] EXCEPT !.st = a, !.moved = (a = "paid")]
    <2>1. /\ j \in Job(RunSteps) /\ j.st = a /\ j.id = run[t].id
          /\ j.invoice = run[t].invoice
      BY <1>1, StepsAre DEF Job
    <2>2. run' = [run EXCEPT ![t] = j]
      BY <1>1, <1>3 DEF TypeOK
    <2> HIDE DEF j
    <2> QED BY <1>1, <2>1, <2>2, RunSet DEF TypeOK
  <1>5. Typed'
    BY <1>1, <1>2, <1>3, <1>4 DEF Inv, Typed, TypeOK
  <1>6. Ids'
    BY <1>1, <1>2, <1>3, <1>4 DEF Inv, Owned, Ids, Acts
  <1>7. PaidFirst'
    BY <1>1, <1>2, <1>3, <1>4 DEF Inv, Owned, PaidFirst, Proving, Carrying
  <1>8. PaidClaim'
    BY <1>1, <1>2, <1>3, <1>4 DEF Inv, Owned, PaidClaim, Holds, Proving, Carrying
  <1>9. Authority'
    BY <1>1, <1>2, <1>3, <1>4 DEF Inv, Owned, Authority, Replaced, Holds, Early, Ready,
      Called
  <1>10. Known'
    BY <1>1, <1>2, <1>3, <1>4 DEF Inv, Known, RowKnown, WalletKnown, RunKnown, CourierKnown,
      Good, Ready, Called, Proving, Carrying
  <1>11. Money'
    BY <1>1, <1>2, <1>3, <1>4 DEF Inv, Money, Live, Open, Approved, Holds
  <1>12. Evidence'
    BY <1>1, <1>2, <1>3, <1>4 DEF Inv, Evidence
  <1>13. Proofs'
    BY <1>1, <1>2, <1>3, <1>4 DEF Inv, Proofs, Good
  <1>14. Scans'
    BY <1>1, <1>2, <1>3, <1>4 DEF Inv, Scans, Holds, Early
  <1>15. Leases'
    BY <1>1, <1>2, <1>3, <1>4 DEF Inv, Leases, Publishes
  <1> QED BY <1>5, <1>6, <1>7, <1>8, <1>9, <1>10, <1>11, <1>12, <1>13, <1>14, <1>15 DEF Inv,
    Owned

\* The attempt row keeps its type and names the invoice.
LEMMA AttemptedIs ==
  ASSUME attempt \in Attempt, NEW i \in Invoices, NEW proved \in BOOLEAN,
         NEW z \in Maybe(Zaps), NEW p \in ProofStatus
  PROVE  /\ Attempted(attempt, i, proved, z, p) \in Attempt
         /\ Attempted(attempt, i, proved, z, p).invoice = i
  BY DEF Attempted, Attempt, Maybe, ProofStatus

\* The proof on the attempt row is about an invoice that was paid.
LEMMA SaveAttemptInv ==
  ASSUME PaymentAssumption, Inv, NEW t \in Tabs, SaveAttempt(t) PROVE Inv'
  <1> DEFINE i == run[t].invoice
  <1>1. /\ TypeOK /\ run[t].st \in {"paid", "reported"} /\ run[t] \in Job(RunSteps)
        /\ i \in Invoices /\ Good(i) /\ attempt \in Attempt
        /\ run[t].st = "paid" => wallet[i] = "settled"
    <2>1. TypeOK /\ run[t].st \in {"paid", "reported"} /\ run[t] \in Job(RunSteps)
          /\ attempt \in Attempt
      BY DEF Inv, Typed, TypeOK, SaveAttempt
    <2>2. RunKnown(t)
      BY DEF Inv, Known
    <2> QED BY <2>1, <2>2 DEF RunKnown, Called, Proving, Good, TypeOK, Job, Maybe
  <1>2. UNCHANGED <<row, courier, wallet, asked, shown, reported, expired, published, closes,
                    slept>>
    BY DEF SaveAttempt, worldVars, tabVars
  <1>3. PICK st \in {"saved", "publishing"} :
          /\ run[t].st = "paid" <=> st = "saved"
          /\ run' = [run EXCEPT ![t].st = st]
    BY <1>1 DEF SaveAttempt, TypeOK
  <1>4. /\ run' \in [Tabs -> Job(RunSteps)] /\ \A u \in Tabs \ {t} : run'[u] = run[u]
        /\ run'[t].st = st /\ run'[t].id = run[t].id /\ run'[t].zap = run[t].zap
        /\ run'[t].invoice = i /\ run'[t].moved = run[t].moved
    <2>1. st \in RunSteps
      BY <1>3, StepsAre
    <2> QED BY <1>1, <1>3, <2>1, RunStep DEF TypeOK
  <1>5. attempt' \in Attempt /\ (attempt'.invoice # None => Good(attempt'.invoice))
        /\ (attempt'.proved \/ attempt'.receipt # None \/ attempt'.proof # "not_started"
              => attempt'.invoice # None)
    <2>1. CASE attempt' = attempt
      BY <1>1, <2>1 DEF Inv, Proofs
    <2>2. CASE attempt' = Attempted(attempt, i, run[t].st = "paid", None, "pending")
      <3>1. i # None /\ None \in Maybe(Zaps) /\ "pending" \in ProofStatus
        BY <1>1 DEF Maybe, ProofStatus, PaymentAssumption
      <3>2. attempt \in Attempt /\ i \in Invoices /\ Good(i)
        BY <1>1
      <3>3. PICK b \in BOOLEAN : b = (run[t].st = "paid")
        OBVIOUS
      <3>4. attempt' = Attempted(attempt, i, b, None, "pending")
        BY <2>2, <3>3
      <3> HIDE DEF i
      <3>5. attempt' \in Attempt /\ attempt'.invoice = i
        BY <3>1, <3>2, <3>4, AttemptedIs
      <3> QED BY <3>1, <3>2, <3>5
    <2> QED BY <2>1, <2>2 DEF SaveAttempt
  <1>6. Typed'
    BY <1>1, <1>2, <1>3, <1>4, <1>5 DEF Inv, Typed, TypeOK
  <1>7. Ids'
    BY <1>1, <1>2, <1>3, <1>4, <1>5 DEF Inv, Owned, Ids, Acts
  <1>8. PaidFirst'
    BY <1>1, <1>2, <1>3, <1>4, <1>5 DEF Inv, Owned, PaidFirst, Proving, Carrying
  <1>9. PaidClaim'
    BY <1>1, <1>2, <1>3, <1>4, <1>5 DEF Inv, Owned, PaidClaim, Holds, Proving, Carrying
  <1>10. Authority'
    BY <1>1, <1>2, <1>3, <1>4, <1>5 DEF Inv, Owned, Authority, Replaced, Holds, Early,
      Ready, Called
  <1>11. Known'
    BY <1>1, <1>2, <1>3, <1>4, <1>5 DEF Inv, Known, RowKnown, WalletKnown, RunKnown,
      CourierKnown, Good, Ready, Called, Proving, Carrying
  <1>12. Money'
    BY <1>1, <1>2, <1>3, <1>4, <1>5 DEF Inv, Money, Live, Open, Approved, Holds
  <1>13. Evidence'
    BY <1>1, <1>2, <1>3, <1>4, <1>5 DEF Inv, Evidence
  <1>14. Proofs'
    BY <1>1, <1>2, <1>3, <1>4, <1>5 DEF Inv, Proofs, Good
  <1>15. Scans'
    BY <1>1, <1>2, <1>3, <1>4, <1>5 DEF Inv, Scans, Holds, Early
  <1>16. Leases'
    BY <1>1, <1>2, <1>3, <1>4, <1>5 DEF Inv, Leases, Publishes
  <1> QED BY <1>6, <1>7, <1>8, <1>9, <1>10, <1>11, <1>12, <1>13, <1>14, <1>15, <1>16 DEF
    Inv, Owned

\* The owner calls its invoice paid and claims the proof, or it has lost its claim.
LEMMA RecordPaidInv ==
  ASSUME PaymentAssumption, Inv, NEW t \in Tabs, RecordPaid(t) PROVE Inv'
  <1> DEFINE i == run[t].invoice
  <1>1. /\ TypeOK /\ run[t].st = "saved" /\ run[t] \in Job(RunSteps) /\ row \in Row
        /\ run[t].id # None /\ run[t].id \in Claims
        /\ i \in Invoices /\ wallet[i] = "settled" /\ i \in asked /\ run[t].zap \in Maybe(Zaps)
    <2>1. TypeOK /\ run[t].st = "saved" /\ run[t] \in Job(RunSteps) /\ row \in Row
      BY DEF Inv, Typed, TypeOK, RecordPaid
    <2>2. RunKnown(t)
      BY DEF Inv, Known
    <2> QED BY <2>1, <2>2 DEF RunKnown, Called, TypeOK, Job, Maybe
  <1>2. UNCHANGED <<attempt, courier, wallet, asked, shown, reported, expired, published,
                    closes, slept>>
    BY DEF RecordPaid, worldVars, tabVars
  <1>3. CASE row' = row /\ run' = [run EXCEPT ![t].st = "recovering"]
    <2>1. /\ run' \in [Tabs -> Job(RunSteps)] /\ \A u \in Tabs \ {t} : run'[u] = run[u]
          /\ run'[t].st = "recovering" /\ run'[t].id = run[t].id /\ run'[t].invoice = i
      BY <1>1, <1>3, StepsAre, RunStep DEF TypeOK
    <2>2. Typed'
      BY <1>1, <1>2, <1>3, <2>1 DEF Inv, Typed, TypeOK
    <2>3. Ids'
      BY <1>1, <1>2, <1>3, <2>1 DEF Inv, Owned, Ids, Acts
    <2>4. PaidFirst'
      BY <1>1, <1>2, <1>3, <2>1 DEF Inv, Owned, PaidFirst, Proving, Carrying
    <2>5. PaidClaim'
      BY <1>1, <1>2, <1>3, <2>1 DEF Inv, Owned, PaidClaim, Holds, Proving, Carrying
    <2>6. Authority'
      BY <1>1, <1>2, <1>3, <2>1 DEF Inv, Owned, Authority, Replaced, Holds, Early, Ready,
        Called
    <2>7. Known'
      BY <1>1, <1>2, <1>3, <2>1 DEF Inv, Known, RowKnown, WalletKnown, RunKnown,
        CourierKnown, Good, Ready, Called, Proving, Carrying
    <2>8. Money'
      BY <1>1, <1>2, <1>3, <2>1 DEF Inv, Money, Live, Open, Approved, Holds
    <2>9. Evidence'
      BY <1>1, <1>2, <1>3, <2>1 DEF Inv, Evidence
    <2>10. Proofs'
      BY <1>1, <1>2, <1>3, <2>1 DEF Inv, Proofs, Good
    <2>11. Scans'
      BY <1>1, <1>2, <1>3, <2>1 DEF Inv, Scans, Holds, Early
    <2>12. Leases'
      BY <1>1, <1>2, <1>3, <2>1 DEF Inv, Leases, Publishes
    <2> QED BY <2>2, <2>3, <2>4, <2>5, <2>6, <2>7, <2>8, <2>9, <2>10, <2>11, <2>12 DEF Inv,
      Owned
  <1>4. CASE /\ MayPatch(row, run[t].id, "paid", "pending")
             /\ row' = [HoldProof(row, run[t].id) EXCEPT !.pay = "paid",
                          !.invoice = i, !.proved = TRUE, !.live = TRUE, !.zap = run[t].zap]
             /\ run' = [run EXCEPT ![t].st = "publishing"]
    <2>1. /\ run' \in [Tabs -> Job(RunSteps)] /\ \A u \in Tabs \ {t} : run'[u] = run[u]
          /\ run'[t].st = "publishing" /\ run'[t].id = run[t].id /\ run'[t].invoice = i
          /\ run'[t].moved = run[t].moved
      BY <1>1, <1>4, StepsAre, RunStep DEF TypeOK
    <2>2. LET r == HoldProof(row, run[t].id) IN
          /\ r \in Row /\ r.inv = row.inv /\ r.proof = "pending"
          /\ r.claim = row.claim /\ r.pclaim = run[t].id /\ r.plive
          /\ r.receipt = row.receipt /\ r.public = row.public /\ r.prior = row.prior
          /\ r.target = row.target
      <3>1. HoldProof(row, run[t].id) \in Row
        BY <1>1, HoldProofType, Zenon
      <3> QED BY <1>1, <3>1, HoldProofIs
    <2>3. /\ row' \in Row /\ row'.pay = "paid" /\ row'.inv = row.inv
          /\ row'.proof = "pending" /\ row'.claim = row.claim /\ row'.live
          /\ row'.pclaim = run[t].id /\ row'.plive /\ row'.invoice = i
          /\ row'.proved /\ row'.zap = run[t].zap /\ row'.receipt = row.receipt
          /\ row'.public = row.public /\ row'.prior = row.prior
          /\ row'.target = row.target
      <3>1. PICK r \in Row : r = HoldProof(row, run[t].id)
        BY <2>2
      <3>2. row' = [r EXCEPT !.pay = "paid", !.invoice = i, !.proved = TRUE, !.live = TRUE,
                             !.zap = run[t].zap]
        BY <1>4, <3>1
      <3>3. i \in Maybe(Invoices) /\ run[t].zap \in Maybe(Zaps)
        BY <1>1 DEF Job, Maybe
      <3> HIDE DEF i
      <3>4. row' \in Row
        BY <3>2, <3>3 DEF Row
      <3>5. /\ row'.pay = "paid" /\ row'.invoice = i /\ row'.proved
            /\ row'.live /\ row'.zap = run[t].zap
        BY <3>2 DEF Row
      <3>6. /\ row'.inv = r.inv /\ row'.proof = r.proof /\ row'.claim = r.claim
            /\ row'.pclaim = r.pclaim /\ row'.plive = r.plive
        BY <3>2 DEF Row
      <3>7. /\ row'.receipt = r.receipt /\ row'.public = r.public
            /\ row'.prior = r.prior /\ row'.target = r.target
        BY <3>2 DEF Row
      <3> QED BY <2>2, <3>1, <3>4, <3>5, <3>6, <3>7
    <2>4. row.claim = run[t].id /\ Holds(t) /\ row.pay # "paid" /\ i = row.invoice
      BY <1>1, <1>4 DEF MayPatch, Holds, Inv, Owned, PaidClaim, Authority, Called, Proving
    <2>5. Typed'
      BY <1>1, <1>2, <2>1, <2>3, <2>4 DEF Inv, Typed, TypeOK
    <2>6. Ids'
      BY <1>1, <1>2, <2>1, <2>3, <2>4 DEF Inv, Owned, Ids, Acts
    <2>7. PaidFirst'
      BY <1>1, <1>2, <2>1, <2>3, <2>4 DEF Inv, Owned, PaidFirst, Proving, Carrying
    <2>8. PaidClaim'
      BY <1>1, <1>2, <2>1, <2>3, <2>4 DEF Inv, Owned, PaidClaim, Holds, Proving, Carrying,
        PaidFirst, Ids, Acts
    <2>9. Authority'
      BY <1>1, <1>2, <2>1, <2>3, <2>4 DEF Inv, Owned, Authority, Replaced, Holds, Early,
        Ready, Called, Ids, Acts
    <2>10. Known'
      BY <1>1, <1>2, <2>1, <2>3, <2>4 DEF Inv, Known, RowKnown, WalletKnown, RunKnown,
        CourierKnown, Good, Ready, Called, Proving, Carrying, PaymentAssumption, TypeOK
    <2>11. Money'
      BY <1>1, <1>2, <2>1, <2>3, <2>4 DEF Inv, Money, Live, Open, Approved, Holds
    <2>12. Evidence'
      BY <1>1, <1>2, <2>1, <2>3, <2>4 DEF Inv, Evidence
    <2>13. Proofs'
      BY <1>1, <1>2, <2>1, <2>3, <2>4 DEF Inv, Proofs, Good
    <2>14. Scans'
      BY <1>1, <1>2, <2>1, <2>3, <2>4 DEF Inv, Scans, Holds, Early, Known, RowKnown,
        WalletKnown
    <2>15. Leases'
      BY <1>1, <1>2, <2>1, <2>3, <2>4 DEF Inv, Leases, Publishes, Owned, PaidFirst, Proving,
        Carrying, TypeOK
    <2> QED BY <2>5, <2>6, <2>7, <2>8, <2>9, <2>10, <2>11, <2>12, <2>13, <2>14, <2>15 DEF
      Inv, Owned
  <1> QED BY <1>3, <1>4 DEF RecordPaid

\* The row becomes, or stays, paid and unclaimed, by an invoice that was paid.
LEMMA PaidStep ==
  ASSUME PaymentAssumption, Inv,
         row' \in Row, row'.pay = "paid", row'.claim = None, ~ row'.live,
         row'.prior = row.prior, row'.invoice # None, Good(row'.invoice),
         row'.invoice \in row.prior => ~ row'.public,
         row'.pclaim # None <=> row'.proof = "pending",
         row'.pclaim # None /\ ~ row'.plive => row'.pclaim \in slept,
         \A c \in Claims : Publishes(c) =>
           \/ c \in slept \/ row'.proof = "sent" \/ (row'.pclaim = c /\ row'.plive),
         attempt' \in Attempt,
         attempt'.invoice # None => Good(attempt'.invoice),
         attempt'.proved \/ attempt'.receipt # None \/ attempt'.proof # "not_started"
           => attempt'.invoice # None,
         UNCHANGED worldVars, slept' = slept, closes' = closes,
         run' \in [Tabs -> Job(RunSteps)], courier' \in [Tabs -> Job(CourierSteps)],
         \A t \in Tabs : run'[t] \in {run[t], Idle} /\ courier'[t] \in {courier[t], Idle}
  PROVE  Inv'
  <1> USE IdleIs DEF worldVars
  <1>1. TypeOK /\ row.prior \subseteq Invoices /\ row'.invoice \in Invoices
        /\ wallet[row'.invoice] # "unknown"
    BY DEF Inv, Typed, TypeOK, Row, Maybe, Known, WalletKnown, Good
  <1>13. \A t \in Tabs : ~ Holds(t)'
    BY <1>1 DEF Holds, TypeOK
  <1>2. Typed'
    BY <1>1 DEF Inv, Typed, TypeOK
  <1>3. Ids'
    BY <1>1 DEF Inv, Owned, Ids, Acts
  <1>4. PaidFirst'
    BY <1>1 DEF Inv, Owned, PaidFirst, Proving, Carrying
  <1>5. PaidClaim'
    BY <1>1 DEF Inv, Owned, PaidClaim, Holds, Proving, Carrying
  <1>6. Authority'
    BY <1>1, <1>13 DEF Inv, Owned, Authority, Replaced, Early, Ready, Called
  <1>7. Known'
    BY <1>1 DEF Inv, Known, RowKnown, WalletKnown, RunKnown, CourierKnown, Good, Ready,
      Called, Proving, Carrying, TypeOK
  <1>8. Money'
    BY <1>1, <1>13 DEF Inv, Money, Live, Open, Approved
  <1>9. Evidence'
    BY <1>1 DEF Inv, Evidence, TypeOK
  <1>10. Proofs'
    BY <1>1 DEF Inv, Proofs, Good
  <1>11. Scans'
    BY <1>1, <1>13 DEF Inv, Scans, Early
  <1>12. Leases'
    BY <1>1 DEF Inv, Leases, Publishes
  <1> QED BY <1>2, <1>3, <1>4, <1>5, <1>6, <1>7, <1>8, <1>9, <1>10, <1>11, <1>12 DEF Inv,
    Owned

\* A success recorded without the claim: the proof of another owner stays.
LEMMA RecoverSuccessInv ==
  ASSUME PaymentAssumption, Inv, NEW t \in Tabs, RecoverSuccess(t) PROVE Inv'
  <1> DEFINE i == run[t].invoice
  <1>1. /\ TypeOK /\ run[t].st = "recovering" /\ run[t] \in Job(RunSteps) /\ row \in Row
        /\ run[t].id # None /\ run[t].id \in Claims
        /\ i \in Invoices /\ i # None /\ Good(i) /\ i \in asked /\ run[t].zap \in Maybe(Zaps)
    <2>1. TypeOK /\ run[t].st = "recovering" /\ run[t] \in Job(RunSteps) /\ row \in Row
      BY DEF Inv, Typed, TypeOK, RecoverSuccess
    <2>2. RunKnown(t)
      BY DEF Inv, Known
    <2> QED BY <2>1, <2>2 DEF RunKnown, Called, TypeOK, Job, Maybe, Good, PaymentAssumption
  <1>2. UNCHANGED <<attempt, courier>> /\ UNCHANGED worldVars /\ UNCHANGED tabVars /\ Stop(t)
    BY DEF RecoverSuccess
  <1>3. CASE row' = row
    BY <1>2, <1>3, StopInv
  <1>4. CASE row' = [Released(WithProof(row, RecoveredProof(row, run[t]))) EXCEPT
                       !.inv = "received", !.pay = "paid", !.proved = TRUE, !.invoice = i,
                       !.zap = run[t].zap]
    <2>1. PICK q \in ProofStatus :
          /\ q = RecoveredProof(row, run[t]) /\ (q = "pending" => row.proof = "pending")
          /\ \/ q = "sent"
             \/ q = "pending" /\ row.pclaim # None
             \/ row.proof # "sent" /\ row.pclaim \in {None, run[t].id}
      BY <1>1 DEF RecoveredProof, ProofStatus, Row, TypeOK
    <2>2. PICK r \in Row : r = Released(WithProof(row, q))
      BY <1>1, <2>1, ReleasedProofType, Zenon
    <2>3. /\ row' \in Row /\ row'.pay = "paid" /\ row'.proof = q /\ row'.claim = None
          /\ ~ row'.live /\ row'.invoice = i /\ row'.proved
          /\ row'.receipt = row.receipt /\ row'.public = row.public
          /\ row'.prior = row.prior /\ row'.target = row.target
          /\ q = "pending" => row'.pclaim = row.pclaim /\ row'.plive = row.plive
          /\ q # "pending" => row'.pclaim = None /\ ~ row'.plive
      <3>1. /\ r.proof = q /\ r.claim = None /\ ~ r.live
            /\ r.receipt = row.receipt /\ r.public = row.public
            /\ r.prior = row.prior /\ r.target = row.target
            /\ q = "pending" => r.pclaim = row.pclaim /\ r.plive = row.plive
            /\ q # "pending" => r.pclaim = None /\ ~ r.plive
        <4>1. row \in Row
          BY <1>1
        <4> QED BY <2>2, <4>1, ReleasedProofIs
      <3>2. row' = [r EXCEPT !.inv = "received", !.pay = "paid",
                       !.proved = TRUE, !.invoice = i, !.zap = run[t].zap]
        BY <1>4, <2>1, <2>2
      <3>3. i \in Maybe(Invoices)
        BY <1>1 DEF Maybe
      <3>4. run[t].zap \in Maybe(Zaps)
        BY <1>1 DEF Job
      <3> HIDE DEF i
      <3>5. row' \in Row /\ row'.pay = "paid" /\ row'.invoice = i /\ row'.proved
        BY <3>2, <3>3, <3>4 DEF Row
      <3>6. /\ row'.proof = r.proof /\ row'.claim = r.claim /\ row'.live = r.live
            /\ row'.pclaim = r.pclaim /\ row'.plive = r.plive
        BY <3>2 DEF Row
      <3>7. /\ row'.receipt = r.receipt /\ row'.public = r.public
            /\ row'.prior = r.prior /\ row'.target = r.target
        BY <3>2 DEF Row
      <3> QED BY <3>1, <3>5, <3>6, <3>7
    <2>4. i \notin row.prior
      BY <1>1 DEF Inv, Known, RowKnown, WalletKnown
    <2>5. row'.pclaim # None /\ ~ row'.plive => row'.pclaim \in slept
      BY <2>3 DEF Inv, Leases
    <2>6. ASSUME NEW c \in Claims, Publishes(c)
          PROVE  c \in slept \/ row'.proof = "sent" \/ (row'.pclaim = c /\ row'.plive)
      <3>1. c # run[t].id
        BY <1>1, <2>6 DEF Publishes, Inv, Owned, Ids, Acts
      <3>2. c \in slept \/ row.proof = "sent" \/ (row.pclaim = c /\ row.plive)
        BY <2>6 DEF Inv, Leases
      <3> QED BY <1>1, <2>1, <2>3, <3>1, <3>2 DEF PaymentAssumption, TypeOK
    <2>7. /\ run' \in [Tabs -> Job(RunSteps)] /\ run'[t] = Idle /\ Idle.st = "idle"
          /\ Idle.id = None /\ \A u \in Tabs \ {t} : run'[u] = run[u]
      BY <1>1, <1>2, IdleIs, RunSet DEF TypeOK, Stop
    <2>8. row'.pclaim # None <=> row'.proof = "pending"
      BY <1>1, <2>1, <2>3 DEF TypeOK
    <2>9. /\ attempt \in Attempt
          /\ attempt.invoice # None => Good(attempt.invoice)
          /\ attempt.proved \/ attempt.receipt # None \/ attempt.proof # "not_started"
               => attempt.invoice # None
      BY <1>1 DEF TypeOK, Inv, Proofs
    <2>10. /\ attempt' = attempt /\ courier' = courier /\ slept' = slept /\ closes' = closes
           /\ courier \in [Tabs -> Job(CourierSteps)]
      BY <1>1, <1>2 DEF tabVars, TypeOK
    <2>11. /\ row' \in Row /\ row'.pay = "paid" /\ row'.claim = None /\ ~ row'.live
           /\ row'.prior = row.prior /\ row'.invoice # None /\ Good(row'.invoice)
           /\ row'.invoice \notin row.prior
      BY <1>1, <2>3, <2>4
    <2>12. /\ attempt' \in Attempt
           /\ attempt'.invoice # None => Good(attempt'.invoice)
           /\ attempt'.proved \/ attempt'.receipt # None \/ attempt'.proof # "not_started"
                => attempt'.invoice # None
      BY <2>9, <2>10
    <2>13. \A u \in Tabs : run'[u] \in {run[u], Idle} /\ courier'[u] \in {courier[u], Idle}
      BY <2>7, <2>10
    <2> QED BY <1>2, <2>5, <2>6, <2>7, <2>8, <2>10, <2>11, <2>12, <2>13, PaidStep
  <1> QED BY <1>3, <1>4 DEF RecoverSuccess

\* A run tells the merchant of an invoice that was paid.
LEMMA PublishInv ==
  ASSUME PaymentAssumption, Inv, NEW t \in Tabs, Publish(t) PROVE Inv'
  <1> DEFINE i == run[t].invoice
  <1>1. /\ TypeOK /\ run[t].st = "publishing" /\ run[t] \in Job(RunSteps)
        /\ i \in Invoices /\ Good(i)
    <2>1. TypeOK /\ run[t].st = "publishing" /\ run[t] \in Job(RunSteps)
      BY DEF Inv, Typed, TypeOK, Publish
    <2>2. RunKnown(t)
      BY DEF Inv, Known
    <2> QED BY <2>1, <2>2 DEF RunKnown, Proving, TypeOK, Job, Maybe
  <1>2. /\ UNCHANGED <<row, attempt, courier, wallet, asked, shown, reported, expired, closes,
                       slept>>
        /\ published' \in {published, published \cup {i}}
    BY DEF Publish, rowVars, tabVars
  <1>3. PICK a \in {"sent", "retry_needed"} :
          run' = [run EXCEPT ![t].st = "told", ![t].result = a]
    BY DEF Publish
  <1>4. /\ run' \in [Tabs -> Job(RunSteps)] /\ \A u \in Tabs \ {t} : run'[u] = run[u]
        /\ run'[t].st = "told" /\ run'[t].id = run[t].id /\ run'[t].invoice = i
        /\ run'[t].moved = run[t].moved /\ run'[t].result = a
    <2> DEFINE j == [run[t] EXCEPT !.st = "told", !.result = a]
    <2>1. /\ j \in Job(RunSteps) /\ j.st = "told" /\ j.id = run[t].id
          /\ j.invoice = i /\ j.moved = run[t].moved /\ j.result = a
      BY <1>1, StepsAre DEF Job
    <2>2. run' = [run EXCEPT ![t] = j]
      BY <1>1, <1>3 DEF TypeOK
    <2> HIDE DEF j
    <2> QED BY <1>1, <2>1, <2>2, RunSet DEF TypeOK
  <1>5. Typed'
    BY <1>1, <1>2, <1>3, <1>4 DEF Inv, Typed, TypeOK
  <1>6. Ids'
    BY <1>1, <1>2, <1>3, <1>4 DEF Inv, Owned, Ids, Acts
  <1>7. PaidFirst'
    BY <1>1, <1>2, <1>3, <1>4 DEF Inv, Owned, PaidFirst, Proving, Carrying
  <1>8. PaidClaim'
    BY <1>1, <1>2, <1>3, <1>4 DEF Inv, Owned, PaidClaim, Holds, Proving, Carrying
  <1>9. Authority'
    BY <1>1, <1>2, <1>3, <1>4 DEF Inv, Owned, Authority, Replaced, Holds, Early, Ready,
      Called
  <1>10. Known'
    BY <1>1, <1>2, <1>3, <1>4 DEF Inv, Known, RowKnown, WalletKnown, RunKnown, CourierKnown,
      Good, Ready, Called, Proving, Carrying
  <1>11. Money'
    BY <1>1, <1>2, <1>3, <1>4 DEF Inv, Money, Live, Open, Approved, Holds
  <1>12. Evidence'
    BY <1>1, <1>2, <1>3, <1>4 DEF Inv, Evidence
  <1>13. Proofs'
    BY <1>1, <1>2, <1>3, <1>4 DEF Inv, Proofs, Good
  <1>14. Scans'
    BY <1>1, <1>2, <1>3, <1>4 DEF Inv, Scans, Holds, Early
  <1>15. Leases'
    BY <1>1, <1>2, <1>3, <1>4 DEF Inv, Leases, Publishes
  <1> QED BY <1>5, <1>6, <1>7, <1>8, <1>9, <1>10, <1>11, <1>12, <1>13, <1>14, <1>15 DEF Inv,
    Owned

\* So does a courier.
LEMMA CarryProofInv ==
  ASSUME PaymentAssumption, Inv, NEW t \in Tabs, CarryProof(t) PROVE Inv'
  <1> DEFINE i == courier[t].invoice
  <1>1. /\ TypeOK /\ courier[t].st = "publishing" /\ courier[t] \in Job(CourierSteps)
        /\ i \in Invoices /\ Good(i)
    <2>1. TypeOK /\ courier[t].st = "publishing" /\ courier[t] \in Job(CourierSteps)
      BY DEF Inv, Typed, TypeOK, CarryProof
    <2>2. CourierKnown(t)
      BY DEF Inv, Known
    <2> QED BY <2>1, <2>2 DEF CourierKnown, Carrying, TypeOK, Job, Maybe
  <1>2. /\ UNCHANGED <<row, attempt, run, wallet, asked, shown, reported, expired, closes,
                       slept>>
        /\ published' \in {published, published \cup {i}}
    BY DEF CarryProof, rowVars, tabVars
  <1>3. PICK a \in {"sent", "retry_needed"} :
          courier' = [courier EXCEPT ![t].st = "told", ![t].result = a]
    BY DEF CarryProof
  <1>4. /\ courier' \in [Tabs -> Job(CourierSteps)]
        /\ \A u \in Tabs \ {t} : courier'[u] = courier[u]
        /\ courier'[t].st = "told" /\ courier'[t].id = courier[t].id /\ courier'[t].invoice = i
        /\ courier'[t].moved = courier[t].moved /\ courier'[t].result = a
    <2> DEFINE j == [courier[t] EXCEPT !.st = "told", !.result = a]
    <2>1. /\ j \in Job(CourierSteps) /\ j.st = "told" /\ j.id = courier[t].id
          /\ j.invoice = i /\ j.moved = courier[t].moved /\ j.result = a
      BY <1>1, StepsAre DEF Job
    <2>2. courier' = [courier EXCEPT ![t] = j]
      BY <1>1, <1>3 DEF TypeOK
    <2> HIDE DEF j
    <2> QED BY <1>1, <2>1, <2>2, CourierSet DEF TypeOK
  <1>5. Typed'
    BY <1>1, <1>2, <1>3, <1>4 DEF Inv, Typed, TypeOK
  <1>6. Ids'
    BY <1>1, <1>2, <1>3, <1>4 DEF Inv, Owned, Ids, Acts
  <1>7. PaidFirst'
    BY <1>1, <1>2, <1>3, <1>4 DEF Inv, Owned, PaidFirst, Proving, Carrying
  <1>8. PaidClaim'
    BY <1>1, <1>2, <1>3, <1>4 DEF Inv, Owned, PaidClaim, Holds, Proving, Carrying
  <1>9. Authority'
    BY <1>1, <1>2, <1>3, <1>4 DEF Inv, Owned, Authority, Replaced, Holds, Early, Ready,
      Called
  <1>10. Known'
    BY <1>1, <1>2, <1>3, <1>4 DEF Inv, Known, RowKnown, WalletKnown, RunKnown, CourierKnown,
      Good, Ready, Called, Proving, Carrying
  <1>11. Money'
    BY <1>1, <1>2, <1>3, <1>4 DEF Inv, Money, Live, Open, Approved, Holds
  <1>12. Evidence'
    BY <1>1, <1>2, <1>3, <1>4 DEF Inv, Evidence
  <1>13. Proofs'
    BY <1>1, <1>2, <1>3, <1>4 DEF Inv, Proofs, Good
  <1>14. Scans'
    BY <1>1, <1>2, <1>3, <1>4 DEF Inv, Scans, Holds, Early
  <1>15. Leases'
    BY <1>1, <1>2, <1>3, <1>4 DEF Inv, Leases, Publishes
  <1> QED BY <1>5, <1>6, <1>7, <1>8, <1>9, <1>10, <1>11, <1>12, <1>13, <1>14, <1>15 DEF Inv,
    Owned

\* The outcome on the attempt row.
LEMMA NotePublishedInv ==
  ASSUME PaymentAssumption, Inv, NEW t \in Tabs, NotePublished(t) PROVE Inv'
  <1>1. /\ TypeOK /\ run[t].st = "told" /\ run[t] \in Job(RunSteps)
        /\ run[t].result \in {"sent", "retry_needed"} /\ attempt \in Attempt
    <2>1. RunKnown(t)
      BY DEF Inv, Known
    <2> QED BY <2>1 DEF Inv, Typed, TypeOK, NotePublished, RunKnown
  <1>2. UNCHANGED <<row, courier, wallet, asked, shown, reported, expired, published, closes,
                    slept>>
    BY DEF NotePublished, worldVars, tabVars
  <1>3. /\ run' \in [Tabs -> Job(RunSteps)] /\ \A u \in Tabs \ {t} : run'[u] = run[u]
        /\ run'[t].st = "noted" /\ run'[t].id = run[t].id
        /\ run'[t].invoice = run[t].invoice /\ run'[t].moved = run[t].moved
        /\ run'[t].result = run[t].result
    <2>1. run' = [run EXCEPT ![t].st = "noted"]
      BY DEF NotePublished
    <2> QED BY <1>1, <2>1, StepsAre, RunStep DEF TypeOK
  <1>4. /\ attempt' \in Attempt /\ attempt'.invoice = attempt.invoice
        /\ attempt'.proved = attempt.proved /\ attempt'.receipt = attempt.receipt
        /\ attempt'.proof # attempt.proof => attempt.invoice # None
    BY <1>1 DEF NotePublished, NoteAttempt, Attempt
  <1>5. Typed'
    BY <1>1, <1>2, <1>3, <1>4 DEF Inv, Typed, TypeOK
  <1>6. Ids'
    BY <1>1, <1>2, <1>3, <1>4 DEF Inv, Owned, Ids, Acts
  <1>7. PaidFirst'
    BY <1>1, <1>2, <1>3, <1>4 DEF Inv, Owned, PaidFirst, Proving, Carrying
  <1>8. PaidClaim'
    BY <1>1, <1>2, <1>3, <1>4 DEF Inv, Owned, PaidClaim, Holds, Proving, Carrying
  <1>9. Authority'
    BY <1>1, <1>2, <1>3, <1>4 DEF Inv, Owned, Authority, Replaced, Holds, Early, Ready,
      Called
  <1>10. Known'
    BY <1>1, <1>2, <1>3, <1>4 DEF Inv, Known, RowKnown, WalletKnown, RunKnown, CourierKnown,
      Good, Ready, Called, Proving, Carrying
  <1>11. Money'
    BY <1>1, <1>2, <1>3, <1>4 DEF Inv, Money, Live, Open, Approved, Holds
  <1>12. Evidence'
    BY <1>1, <1>2, <1>3, <1>4 DEF Inv, Evidence
  <1>13. Proofs'
    BY <1>1, <1>2, <1>3, <1>4 DEF Inv, Proofs, Good
  <1>14. Scans'
    BY <1>1, <1>2, <1>3, <1>4 DEF Inv, Scans, Holds, Early
  <1>15. Leases'
    BY <1>1, <1>2, <1>3, <1>4 DEF Inv, Leases, Publishes
  <1> QED BY <1>5, <1>6, <1>7, <1>8, <1>9, <1>10, <1>11, <1>12, <1>13, <1>14, <1>15 DEF Inv,
    Owned

\* The courier's, likewise.
LEMMA NoteCarriedInv ==
  ASSUME PaymentAssumption, Inv, NEW t \in Tabs, NoteCarried(t) PROVE Inv'
  <1>1. /\ TypeOK /\ courier[t].st = "told" /\ courier[t] \in Job(CourierSteps)
        /\ courier[t].result \in {"sent", "retry_needed"} /\ attempt \in Attempt
    <2>1. CourierKnown(t)
      BY DEF Inv, Known
    <2> QED BY <2>1 DEF Inv, Typed, TypeOK, NoteCarried, CourierKnown
  <1>2. UNCHANGED <<row, run, wallet, asked, shown, reported, expired, published, closes,
                    slept>>
    BY DEF NoteCarried, worldVars, tabVars
  <1>3. /\ courier' \in [Tabs -> Job(CourierSteps)]
        /\ \A u \in Tabs \ {t} : courier'[u] = courier[u]
        /\ courier'[t].st = "noted" /\ courier'[t].id = courier[t].id
        /\ courier'[t].invoice = courier[t].invoice /\ courier'[t].moved = courier[t].moved
        /\ courier'[t].result = courier[t].result
    <2>1. courier' = [courier EXCEPT ![t].st = "noted"]
      BY DEF NoteCarried
    <2> QED BY <1>1, <2>1, StepsAre, CourierStep DEF TypeOK
  <1>4. /\ attempt' \in Attempt /\ attempt'.invoice = attempt.invoice
        /\ attempt'.proved = attempt.proved /\ attempt'.receipt = attempt.receipt
        /\ attempt'.proof # attempt.proof => attempt.invoice # None
    BY <1>1 DEF NoteCarried, NoteAttempt, Attempt
  <1>5. Typed'
    BY <1>1, <1>2, <1>3, <1>4 DEF Inv, Typed, TypeOK
  <1>6. Ids'
    BY <1>1, <1>2, <1>3, <1>4 DEF Inv, Owned, Ids, Acts
  <1>7. PaidFirst'
    BY <1>1, <1>2, <1>3, <1>4 DEF Inv, Owned, PaidFirst, Proving, Carrying
  <1>8. PaidClaim'
    BY <1>1, <1>2, <1>3, <1>4 DEF Inv, Owned, PaidClaim, Holds, Proving, Carrying
  <1>9. Authority'
    BY <1>1, <1>2, <1>3, <1>4 DEF Inv, Owned, Authority, Replaced, Holds, Early, Ready,
      Called
  <1>10. Known'
    BY <1>1, <1>2, <1>3, <1>4 DEF Inv, Known, RowKnown, WalletKnown, RunKnown, CourierKnown,
      Good, Ready, Called, Proving, Carrying
  <1>11. Money'
    BY <1>1, <1>2, <1>3, <1>4 DEF Inv, Money, Live, Open, Approved, Holds
  <1>12. Evidence'
    BY <1>1, <1>2, <1>3, <1>4 DEF Inv, Evidence
  <1>13. Proofs'
    BY <1>1, <1>2, <1>3, <1>4 DEF Inv, Proofs, Good
  <1>14. Scans'
    BY <1>1, <1>2, <1>3, <1>4 DEF Inv, Scans, Holds, Early
  <1>15. Leases'
    BY <1>1, <1>2, <1>3, <1>4 DEF Inv, Leases, Publishes
  <1> QED BY <1>5, <1>6, <1>7, <1>8, <1>9, <1>10, <1>11, <1>12, <1>13, <1>14, <1>15 DEF Inv,
    Owned

\* recordOrderPaymentProofDelivery leaves the row or sets the status of its proof.
LEMMA DeliveredIs ==
  ASSUME NEW r \in Row, NEW c, NEW result \in {"sent", "retry_needed"}
  PROVE  \/ Delivered(r, result, c) = r
         \/ /\ Delivered(r, result, c) = WithProof(r, result)
            /\ result = "sent" \/ (r.proof # "sent" /\ r.pclaim \in {None, c})
  BY DEF Delivered

\* A paid order whose proof ends as sent, or is nobody's: nobody else publishes it
\* with a lease that runs.
LEMMA QuietProof ==
  ASSUME PaymentAssumption, Inv, row.pay = "paid", NEW q \in {"sent", "retry_needed"}, NEW x,
         row' \in Row, row'.pay = "paid", row'.claim = None, ~ row'.live,
         row'.invoice = row.invoice, row'.public = row.public, row'.prior = row.prior,
         row'.proof = q, row'.pclaim = None,
         \/ q = "sent"
         \/ row.proof # "sent" /\ row.pclaim \in {None, x} /\ ~ Publishes(x)
         \/ row.pclaim # None /\ ~ row.plive
         \/ row.claim # None /\ ~ Publishes(row.claim),
         UNCHANGED attempt, UNCHANGED worldVars, UNCHANGED tabVars,
         run' \in [Tabs -> Job(RunSteps)], courier' \in [Tabs -> Job(CourierSteps)],
         \A t \in Tabs : run'[t] \in {run[t], Idle} /\ courier'[t] \in {courier[t], Idle}
  PROVE  Inv'
  <1>1. /\ TypeOK /\ row.invoice # None /\ Good(row.invoice)
        /\ row.invoice \in row.prior => ~ row.public
    BY DEF Inv, Typed, Known, RowKnown, Proofs, Scans
  <1>2. row'.pclaim # None <=> row'.proof = "pending"
    OBVIOUS
  <1>3. ASSUME NEW c \in Claims, Publishes(c)
        PROVE  c \in slept \/ row'.proof = "sent" \/ (row'.pclaim = c /\ row'.plive)
    <2>1. c \in slept \/ row.proof = "sent" \/ (row.pclaim = c /\ row.plive)
      BY <1>3 DEF Inv, Leases
    <2>2. c # None /\ (~ Publishes(x) => c # x)
      BY <1>3 DEF PaymentAssumption
    <2>3. row.pclaim # None => row.proof = "pending"
      BY <1>1 DEF TypeOK
    <2>4. CASE row.claim # None /\ ~ Publishes(row.claim)
      <3>1. row.proof = "pending" /\ row.pclaim = row.claim
        BY <2>4 DEF Inv, Owned, PaidClaim
      <3> QED BY <1>3, <2>1, <2>4, <3>1
    <2> QED BY <2>1, <2>2, <2>3, <2>4
  <1>4. /\ attempt' \in Attempt
        /\ attempt'.invoice # None => Good(attempt'.invoice)
        /\ attempt'.proved \/ attempt'.receipt # None \/ attempt'.proof # "not_started"
             => attempt'.invoice # None
    BY <1>1 DEF TypeOK, Inv, Proofs
  <1>5. slept' = slept /\ closes' = closes
    BY DEF tabVars
  <1>6. /\ row'.invoice # None /\ Good(row'.invoice)
        /\ row'.invoice \in row.prior => ~ row'.public
    BY <1>1
  <1> QED BY <1>2, <1>3, <1>4, <1>5, <1>6, PaidStep

\* A run ends: with its claim, behind a newer owner, or into the recovery.
LEMMA EndRunInv ==
  ASSUME PaymentAssumption, Inv, NEW t \in Tabs, EndRun(t) PROVE Inv'
  <1> DEFINE i == run[t].invoice
             c == run[t].id
             a == run[t].result
  <1>1. /\ TypeOK /\ row \in Row /\ run[t].st = "noted" /\ run[t] \in Job(RunSteps)
        /\ a \in {"sent", "retry_needed"} /\ a \in ProofStatus
        /\ run[t].moved => i \in asked /\ wallet[i] = "settled"
        /\ c \in Claims /\ c # None /\ row.pay = "paid"
    <2>1. /\ TypeOK /\ row \in Row /\ run[t].st = "noted" /\ run[t] \in Job(RunSteps)
          /\ c # None
      BY DEF Inv, Typed, TypeOK, EndRun
    <2>2. RunKnown(t)
      BY DEF Inv, Known
    <2>3. row.pay = "paid"
      BY <2>1 DEF Inv, Owned, PaidFirst, Proving
    <2> QED BY <2>1, <2>2, <2>3 DEF RunKnown, Proving, Job, Maybe, ProofStatus
  <1>2. UNCHANGED <<attempt, courier>> /\ UNCHANGED worldVars /\ UNCHANGED tabVars
    BY DEF EndRun
  <1>3. ~ Publishes(c)
    BY <1>1 DEF Publishes, Inv, Owned, Ids, Acts
  <1>4. CASE row' = row /\ Stop(t)
    BY <1>2, <1>4, StopInv
  <1>5. CASE /\ row' = row /\ run[t].moved
             /\ run' = [run EXCEPT ![t].st = "recovering"]
    <2>1. /\ run' \in [Tabs -> Job(RunSteps)] /\ \A u \in Tabs \ {t} : run'[u] = run[u]
          /\ run'[t].st = "recovering" /\ run'[t].id = run[t].id /\ run'[t].zap = run[t].zap
          /\ run'[t].invoice = run[t].invoice /\ run'[t].before = run[t].before
          /\ run'[t].result = run[t].result /\ run'[t].moved = run[t].moved
      <3>1. run \in [Tabs -> Job(RunSteps)] /\ run' = [run EXCEPT ![t].st = "recovering"]
        BY <1>1, <1>5 DEF TypeOK
      <3> QED BY <3>1, StepsAre, RunStep
    <2>2. UNCHANGED <<row, attempt, courier, wallet, asked, shown, reported, expired,
                      published, closes, slept>>
      BY <1>2, <1>5 DEF worldVars, tabVars
    <2>3. Typed'
      BY <1>1, <2>1, <2>2, <1>5 DEF Inv, Typed, TypeOK
    <2>4. Ids'
      BY <1>1, <2>1, <2>2, <1>5 DEF Inv, Owned, Ids, Acts
    <2>5. PaidFirst'
      BY <1>1, <2>1, <2>2, <1>5 DEF Inv, Owned, PaidFirst, Proving, Carrying
    <2>6. PaidClaim'
      BY <1>1, <2>1, <2>2, <1>5 DEF Inv, Owned, PaidClaim, Holds, Proving, Carrying
    <2>7. Authority'
      BY <1>1, <2>1, <2>2, <1>5 DEF Inv, Owned, Authority, Replaced, Holds, Early, Ready,
        Called
    <2>8. Known'
      BY <1>1, <2>1, <2>2, <1>5 DEF Inv, Known, RowKnown, WalletKnown, RunKnown,
        CourierKnown, Good, Ready, Called, Proving, Carrying
    <2>9. Money'
      BY <1>1, <2>1, <2>2, <1>5 DEF Inv, Money, Live, Open, Approved, Holds
    <2>10. Evidence'
      BY <1>1, <2>1, <2>2, <1>5 DEF Inv, Evidence
    <2>11. Proofs'
      BY <1>1, <2>1, <2>2, <1>5 DEF Inv, Proofs, Good
    <2>12. Scans'
      BY <1>1, <2>1, <2>2, <1>5 DEF Inv, Scans, Holds, Early
    <2>13. Leases'
      BY <1>1, <2>1, <2>2, <1>5 DEF Inv, Leases, Publishes
    <2> QED BY <2>3, <2>4, <2>5, <2>6, <2>7, <2>8, <2>9, <2>10, <2>11, <2>12, <2>13 DEF Inv,
      Owned
  <1>6. ASSUME Stop(t), NEW p \in Row, p.proof = a, p.pclaim = None, row' = p,
               p.claim = None, ~ p.live, p.pay = row.pay, p.invoice = row.invoice,
               p.public = row.public, p.prior = row.prior,
               row.claim = c \/ a = "sent" \/ (row.proof # "sent" /\ row.pclaim \in {None, c})
        PROVE  Inv'
    <2>1. /\ run' \in [Tabs -> Job(RunSteps)] /\ run'[t] = Idle /\ Idle.st = "idle"
          /\ Idle.id = None /\ \A u \in Tabs \ {t} : run'[u] = run[u]
      BY <1>1, <1>6, IdleIs, RunSet DEF TypeOK, Stop
    <2>2. courier' = courier /\ courier \in [Tabs -> Job(CourierSteps)]
      BY <1>1, <1>2 DEF TypeOK
    <2> HIDE DEF c, a
    <2> QED BY <1>1, <1>2, <1>3, <1>6, <2>1, <2>2, QuietProof
  <1>7. CASE /\ MayPatch(row, c, None, a) /\ Stop(t)
             /\ row' = Released(WithProof(row, a))
    <2>1. PICK r \in Row : r = Released(WithProof(row, a))
      BY <1>1, ReleasedProofType, Zenon
    <2> HIDE DEF a
    <2>2. /\ r.proof = a /\ r.pclaim = None /\ r.claim = None /\ ~ r.live
          /\ r.pay = row.pay /\ r.invoice = row.invoice /\ r.public = row.public
          /\ r.prior = row.prior
      BY <1>1, <2>1, ReleasedProofIs
    <2>3. row.claim = c
      BY <1>7 DEF MayPatch
    <2> QED BY <1>6, <1>7, <2>1, <2>2, <2>3, Zenon
  <1>8. CASE /\ ~ MayPatch(row, c, None, a) /\ Stop(t)
             /\ row' = Delivered(row, a, c)
    <2>1. CASE row' = row
      BY <1>2, <1>8, <2>1, StopInv
    <2>2. CASE /\ row' = WithProof(row, a)
               /\ a = "sent" \/ (row.proof # "sent" /\ row.pclaim \in {None, c})
      <3>1. row.claim = None /\ ~ row.live
        BY <1>1, <1>8, <2>2 DEF MayPatch, Inv, Owned, PaidClaim, Proving, TypeOK
      <3>2. PICK p \in Row : p = WithProof(row, a)
        BY <1>1, WithProofType, Zenon
      <3>3. /\ p.proof = a /\ p.pclaim = None /\ p.claim = None /\ ~ p.live
            /\ p.pay = row.pay /\ p.invoice = row.invoice /\ p.public = row.public
            /\ p.prior = row.prior
        <4>1. ~ row.live
          BY <1>1, <3>1 DEF Row
        <4>2. p.claim = row.claim /\ p.live = row.live
          BY <1>1, <3>2, WithProofIs
        <4> HIDE DEF a
        <4> QED BY <1>1, <3>1, <3>2, <4>1, <4>2, WithProofIs
      <3> HIDE DEF a, c
      <3> QED BY <1>6, <1>8, <2>2, <3>2, <3>3
    <2> QED BY <1>1, <1>8, <2>1, <2>2, DeliveredIs
  <1> QED BY <1>4, <1>5, <1>7, <1>8 DEF EndRun

\* A courier ends.
LEMMA EndCarryInv ==
  ASSUME PaymentAssumption, Inv, NEW t \in Tabs, EndCarry(t) PROVE Inv'
  <1> DEFINE c == courier[t].id
             a == courier[t].result
  <1>1. /\ TypeOK /\ row \in Row /\ courier[t].st = "noted" /\ courier[t] \in Job(CourierSteps)
        /\ a \in {"sent", "retry_needed"} /\ a \in ProofStatus
        /\ c \in Claims /\ c # None /\ row.pay = "paid"
    <2>1. /\ TypeOK /\ row \in Row /\ courier[t].st = "noted"
          /\ courier[t] \in Job(CourierSteps)
      BY DEF Inv, Typed, TypeOK, EndCarry
    <2>2. CourierKnown(t)
      BY DEF Inv, Known
    <2>3. row.pay = "paid"
      BY <2>1 DEF Inv, Owned, PaidFirst, Carrying
    <2> QED BY <2>1, <2>2, <2>3 DEF CourierKnown, Carrying, Job, Maybe, ProofStatus
  <1>2. UNCHANGED <<attempt, run>> /\ UNCHANGED worldVars /\ UNCHANGED tabVars
    BY DEF EndCarry
  <1>3. ~ Publishes(c)
    BY <1>1 DEF Publishes, Inv, Owned, Ids, Acts
  <1>4. /\ courier' \in [Tabs -> Job(CourierSteps)] /\ courier'[t] = Idle
        /\ \A u \in Tabs \ {t} : courier'[u] = courier[u]
    BY <1>1, IdleIs, CourierSet DEF TypeOK, EndCarry
  <1>5. CASE row' = row
    BY <1>1, <1>2, <1>4, <1>5, Rests DEF tabVars, TypeOK
  <1>6. CASE /\ row' = WithProof(row, a)
             /\ a = "sent" \/ (row.proof # "sent" /\ row.pclaim \in {None, c})
    <2>1. row.claim = None /\ ~ row.live
      BY <1>1 DEF Inv, Owned, PaidClaim, Carrying, TypeOK, Row
    <2>2. PICK p \in Row : p = WithProof(row, a)
      BY <1>1, WithProofType, Zenon
    <2>3. /\ p.proof = a /\ p.pclaim = None /\ p.claim = None /\ ~ p.live
          /\ p.pay = row.pay /\ p.invoice = row.invoice /\ p.public = row.public
          /\ p.prior = row.prior
      <3> HIDE DEF a
      <3> QED BY <1>1, <2>1, <2>2, WithProofIs
    <2>4. run' = run /\ run \in [Tabs -> Job(RunSteps)]
      BY <1>1, <1>2 DEF TypeOK
    <2>5. row' = p
      BY <1>6, <2>2
    <2> HIDE DEF a, c
    <2> QED BY <1>1, <1>2, <1>3, <1>4, <1>6, <2>3, <2>4, <2>5, QuietProof
  <1>7. row' = row \/ row' = Delivered(row, a, c)
    BY DEF EndCarry
  <1> QED BY <1>1, <1>5, <1>6, <1>7, DeliveredIs

\* Recovery of a proof whose lease is over.
LEMMA ReconcileProofInv ==
  ASSUME PaymentAssumption, Inv, NEW t \in Tabs, ReconcileProof(t) PROVE Inv'
  <1>1. /\ TypeOK /\ row \in Row /\ row.pay = "paid" /\ row.pclaim # None /\ ~ row.plive
    BY DEF Inv, Typed, TypeOK, ReconcileProof
  <1>2. /\ UNCHANGED attempt /\ UNCHANGED worldVars /\ UNCHANGED tabVars
        /\ run' = run /\ courier' = courier
    BY DEF ReconcileProof
  <1>3. PICK q \in {"sent", "retry_needed"} : row' = Released(WithProof(row, q))
    BY DEF ReconcileProof
  <1>4. PICK p \in Row : p = Released(WithProof(row, q))
    BY <1>1, <1>3, ReleasedProofType, Zenon DEF ProofStatus
  <1>5. /\ p.proof = q /\ p.pclaim = None /\ p.claim = None /\ ~ p.live
        /\ p.pay = row.pay /\ p.invoice = row.invoice /\ p.public = row.public
        /\ p.prior = row.prior
    <2>1. q \in ProofStatus /\ q # "pending"
      BY <1>3 DEF ProofStatus
    <2> QED BY <1>1, <1>4, <2>1, ReleasedProofIs
  <1>6. /\ run \in [Tabs -> Job(RunSteps)] /\ courier \in [Tabs -> Job(CourierSteps)]
    BY <1>1 DEF TypeOK
  <1>7. row' = p
    BY <1>3, <1>4
  <1> QED BY <1>1, <1>2, <1>5, <1>6, <1>7, QuietProof

\* An owner gives up an unpaid row: it becomes ambiguous, or no money can go.
LEMMA UnpaidStep ==
  ASSUME PaymentAssumption, Inv, row.claim # None, row.pay # "paid",
         row' \in Row, row'.pay \in {"not_started", "failed", "ambiguous", "manual_required"},
         row'.claim = None, ~ row'.live, row'.prior = row.prior,
         row'.proof = "not_started", row'.pclaim = None, ~ row'.proved,
         row'.receipt # "observed",
         row'.zap # None => row'.invoice # None,
         row'.invoice # None => wallet[row'.invoice] # "unknown",
         row'.pay = "manual_required" => row'.invoice \in shown,
         row'.invoice \in row.prior => ~ row'.public,
         \A u \in Tabs : courier[u].st = "scanning" /\ row'.invoice = courier[u].invoice
                           => row'.public,
         \/ row'.pay = "ambiguous" /\ row'.invoice = row.invoice
         \/ \A i \in Invoices : ~ Live(i)',
         UNCHANGED <<attempt, courier>>, UNCHANGED worldVars, UNCHANGED tabVars,
         run' \in [Tabs -> Job(RunSteps)], \A t \in Tabs : run'[t] \in {run[t], Idle}
  PROVE  Inv'
  <1> USE IdleIs DEF worldVars, tabVars
  <1>1. /\ TypeOK /\ \A u \in Tabs : ~ Holds(u)'
        /\ \A u \in Tabs : run[u].st \notin Proving /\ courier[u].st \notin Carrying
    BY DEF Holds, Inv, Typed, TypeOK, Owned, PaidFirst
  <1>2. None \notin shown
    BY <1>1 DEF TypeOK, PaymentAssumption
  <1>3. Typed'
    BY <1>1 DEF Inv, Typed, TypeOK
  <1>4. Ids'
    BY <1>1 DEF Inv, Owned, Ids, Acts
  <1>5. PaidFirst'
    BY <1>1 DEF Inv, Owned, PaidFirst, Proving, Carrying
  <1>6. PaidClaim'
    BY <1>1 DEF PaidClaim
  <1>7. Authority'
    BY <1>1 DEF Inv, Owned, Authority, Replaced, Early, Ready, Called
  <1>8. Known'
    <2>1. RowKnown'
      BY <1>2 DEF Inv, Known, RowKnown
    <2> QED BY <1>1, <2>1 DEF Inv, Known, WalletKnown, RunKnown, CourierKnown, Good, Ready,
      Called, Proving, Carrying
  <1>9. Money'
    <2>1. \A i \in Invoices : Open(i)' <=> Open(i)
      BY DEF Open
    <2>2. \A i \in Invoices : Approved(i)' => Approved(i)
      BY <1>1 DEF Approved
    <2>3. ASSUME NEW u \in Tabs, run'[u].st = "approved" PROVE Live(run[u].invoice)'
                 /\ run[u].invoice \in Invoices /\ run[u].st = "approved"
      <3>1. run'[u] = run[u] /\ RunKnown(u) /\ run[u] \in Job(RunSteps)
        BY <1>1, <2>3 DEF Inv, Known, TypeOK
      <3>2. run[u].invoice \in Invoices
        BY <2>3, <3>1 DEF RunKnown, Ready, Job, Maybe
      <3> QED BY <2>3, <3>1, <3>2 DEF Live, Approved
    <2>4. \A i \in asked' : wallet'[i] # "refused" => Live(i)' /\ i \in Invoices
      BY <1>1 DEF Live, Open, TypeOK
    <2>5. \A i \in Invoices : Live(i)' => Live(i)
      BY <2>1, <2>2 DEF Live
    <2> QED BY <2>3, <2>4, <2>5 DEF Inv, Money
  <1>10. Evidence'
    BY <1>1 DEF Inv, Evidence
  <1>11. Proofs'
    BY <1>1 DEF Inv, Proofs, Good
  <1>12. Scans'
    BY <1>1 DEF Inv, Scans, Early
  <1>13. Leases'
    BY <1>1 DEF Inv, Leases, Publishes, Proving, Carrying
  <1> QED BY <1>3, <1>4, <1>5, <1>6, <1>7, <1>8, <1>9, <1>10, <1>11, <1>12, <1>13 DEF Inv,
    Owned

\* Nothing about the proof goes on before the order is paid.
LEMMA UnpaidRow ==
  ASSUME Inv, row.pay # "paid"
  PROVE  /\ row.proof = "not_started" /\ row.pclaim = None /\ ~ row.proved
         /\ row.receipt # "observed"
         /\ \A u \in Tabs : run[u].st \notin Proving /\ courier[u].st \notin Carrying
         /\ \A c : ~ Publishes(c)
  BY DEF Inv, Typed, TypeOK, Owned, PaidFirst, Row, Publishes, Proving, Carrying

\* A run that stops with the only live invoice, unopened, leaves none.
LEMMA NoneLive ==
  ASSUME Inv, row'.claim = None, UNCHANGED worldVars, NEW t \in Tabs, Stop(t),
         \A i \in Invoices : Live(i) => i = run[t].invoice /\ ~ Open(i),
         \A u \in Tabs \ {t} : run[u].st = "approved" => run[u].invoice # run[t].invoice
  PROVE  \A i \in Invoices : ~ Live(i)'
  <1>1. TypeOK
    BY DEF Inv, Typed
  <1>2. /\ run' \in [Tabs -> Job(RunSteps)] /\ run'[t] = Idle /\ Idle.st = "idle"
        /\ Idle.id = None /\ \A u \in Tabs \ {t} : run'[u] = run[u]
    BY <1>1, IdleIs, RunSet DEF TypeOK, Stop
  <1>3. \A u \in Tabs : ~ Holds(u)'
    BY <1>1, <1>2 DEF Holds, TypeOK
  <1>4. ASSUME NEW i \in Invoices, Live(i)' PROVE FALSE
    <2>1. Open(i)' => Open(i)
      BY DEF Open, worldVars
    <2>2. CASE Open(i)
      BY <2>2 DEF Live
    <2>3. CASE Approved(i)'
      <3>1. PICK u \in Tabs : run'[u].invoice = i /\ run'[u].st = "approved"
        BY <1>3, <2>3 DEF Approved
      <3>2. u # t /\ run'[u] = run[u]
        BY <1>2, <3>1
      <3>3. Live(i)
        BY <3>1, <3>2 DEF Live, Approved
      <3> QED BY <3>1, <3>2, <3>3
    <2> QED BY <1>4, <2>1, <2>2, <2>3 DEF Live
  <1> QED BY <1>4

\* No invoice was had.
LEMMA InvoiceFailsInv ==
  ASSUME PaymentAssumption, Inv, NEW t \in Tabs, InvoiceFails(t) PROVE Inv'
  <1>1. /\ TypeOK /\ row \in Row /\ run[t].st \in {"claimed", "requesting"}
        /\ run[t].id # None
    BY DEF Inv, Typed, TypeOK, InvoiceFails
  <1>2. UNCHANGED <<attempt, courier>> /\ UNCHANGED worldVars /\ UNCHANGED tabVars /\ Stop(t)
    BY DEF InvoiceFails
  <1>3. CASE row' = row
    BY <1>2, <1>3, StopInv
  <1>4. CASE /\ row.claim = run[t].id
             /\ row' = [Released(row) EXCEPT !.pay = "failed", !.inv = "failed"]
    <2>1. Holds(t) /\ row.pay = "not_started" /\ row.invoice = None /\ row.zap = None
      BY <1>1, <1>4 DEF Holds, Inv, Owned, Authority
    <2>2. PICK r \in Row : r = Released(row)
      BY <1>1, ReleasedType, Zenon
    <2>3. /\ r \in Row /\ r.pay = row.pay /\ r.inv = row.inv /\ r.proof = row.proof
          /\ r.claim = None /\ ~ r.live /\ r.pclaim = row.pclaim
          /\ r.plive = row.plive /\ r.invoice = row.invoice /\ r.proved = row.proved
          /\ r.zap = row.zap /\ r.receipt = row.receipt /\ r.public = row.public
          /\ r.prior = row.prior /\ r.target = row.target
      BY <1>1, <2>2, ReleasedIs
    <2>4. /\ row' \in Row /\ row'.pay = "failed" /\ row'.proof = row.proof
          /\ row'.claim = None /\ ~ row'.live /\ row'.pclaim = row.pclaim
          /\ row'.plive = row.plive /\ row'.invoice = row.invoice
          /\ row'.proved = row.proved /\ row'.zap = row.zap
          /\ row'.receipt = row.receipt /\ row'.public = row.public
          /\ row'.prior = row.prior /\ row'.target = row.target
      <3>1. row' = [r EXCEPT !.pay = "failed", !.inv = "failed"]
        BY <1>4, <2>2
      <3> QED BY <2>3, <3>1 DEF Row
    <2>5. \A i \in Invoices : ~ Live(i)'
      BY <1>2, <2>1, <2>4, NoneLive DEF Inv, Money
    <2>6. /\ run' \in [Tabs -> Job(RunSteps)] /\ run'[t] = Idle /\ Idle.st = "idle"
          /\ Idle.id = None /\ \A u \in Tabs \ {t} : run'[u] = run[u]
      BY <1>1, <1>2, IdleIs, RunSet DEF TypeOK, Stop
    <2>7. row'.invoice # None => wallet[row'.invoice] # "unknown"
      BY <2>1, <2>4
    <2>8. /\ row'.invoice \in row.prior => ~ row'.public
          /\ \A u \in Tabs : courier[u].st = "scanning" /\ row'.invoice = courier[u].invoice
                             => row'.public
      BY <2>1, <2>4 DEF Inv, Scans
    <2> QED BY <1>1, <1>2, <1>4, <2>1, <2>4, <2>5, <2>6, <2>7, <2>8, UnpaidRow, UnpaidStep
  <1> QED BY <1>1, <1>3, <1>4 DEF InvoiceFails, Patch, MayPatch

\* The wallet refused for good: the row may be retried.
LEMMA RecordRefusalInv ==
  ASSUME PaymentAssumption, Inv, NEW t \in Tabs, RecordRefusal(t) PROVE Inv'
  <1> DEFINE i == run[t].invoice
  <1>1. /\ TypeOK /\ row \in Row /\ run[t].st = "refused" /\ run[t].id # None
        /\ i \in asked /\ i \in Invoices /\ wallet[i] = "refused"
    <2>1. RunKnown(t)
      BY DEF Inv, Known
    <2> QED BY <2>1 DEF RunKnown, Called, Inv, Typed, TypeOK, RecordRefusal
  <1>2. UNCHANGED <<attempt, courier>> /\ UNCHANGED worldVars /\ UNCHANGED tabVars /\ Stop(t)
    BY DEF RecordRefusal
  <1>3. CASE row' = row
    BY <1>2, <1>3, StopInv
  <1>4. CASE /\ row.claim = run[t].id
             /\ row' = [Released(row) EXCEPT !.pay = "failed", !.inv = "failed",
                                             !.receipt = "na", !.invoice = i]
    <2>1. Holds(t) /\ row.pay \in {"paying", "ambiguous"} /\ row.invoice = i
      BY <1>1, <1>4 DEF Holds, Inv, Owned, Authority, Called
    <2>2. PICK r \in Row : r = Released(row)
      BY <1>1, ReleasedType, Zenon
    <2>3. /\ r \in Row /\ r.pay = row.pay /\ r.inv = row.inv /\ r.proof = row.proof
          /\ r.claim = None /\ ~ r.live /\ r.pclaim = row.pclaim
          /\ r.plive = row.plive /\ r.invoice = row.invoice /\ r.proved = row.proved
          /\ r.zap = row.zap /\ r.receipt = row.receipt /\ r.public = row.public
          /\ r.prior = row.prior /\ r.target = row.target
      BY <1>1, <2>2, ReleasedIs
    <2>4. /\ row' \in Row /\ row'.pay = "failed" /\ row'.proof = row.proof
          /\ row'.claim = None /\ ~ row'.live /\ row'.pclaim = row.pclaim
          /\ row'.plive = row.plive /\ row'.invoice = row.invoice
          /\ row'.proved = row.proved /\ row'.zap = row.zap /\ row'.receipt = "na"
          /\ row'.public = row.public /\ row'.prior = row.prior
          /\ row'.target = row.target
      <3>1. row' = [r EXCEPT !.pay = "failed", !.inv = "failed", !.receipt = "na",
                             !.invoice = i]
        BY <1>4, <2>2
      <3>2. i \in Maybe(Invoices) /\ row.invoice = i
        BY <1>1, <2>1 DEF Maybe
      <3> HIDE DEF i
      <3> QED BY <2>3, <3>1, <3>2 DEF Row
    <2>5. \A j \in Invoices : ~ Live(j)'
      <3>1. \A j \in Invoices : Live(j) => j = i
        BY <2>1 DEF Inv, Money
      <3>2. ~ Open(i)
        BY <1>1 DEF Open, Inv, Known, WalletKnown
      <3>3. ASSUME NEW u \in Tabs, run[u].st = "approved" PROVE run[u].invoice # i
        <4>1. RunKnown(u)
          BY DEF Inv, Known
        <4> QED BY <1>1, <3>3, <4>1 DEF RunKnown, Ready
      <3> QED BY <1>2, <2>4, <3>1, <3>2, <3>3, NoneLive
    <2>6. /\ run' \in [Tabs -> Job(RunSteps)] /\ run'[t] = Idle /\ Idle.st = "idle"
          /\ Idle.id = None /\ \A u \in Tabs \ {t} : run'[u] = run[u]
      BY <1>1, <1>2, IdleIs, RunSet DEF TypeOK, Stop
    <2>7. /\ row'.invoice # None => wallet[row'.invoice] # "unknown"
          /\ row'.zap # None => row'.invoice # None
      BY <2>4 DEF Inv, Known, RowKnown
    <2>8. /\ row'.invoice \in row.prior => ~ row'.public
          /\ \A u \in Tabs : courier[u].st = "scanning" /\ row'.invoice = courier[u].invoice
                             => row'.public
      BY <2>1, <2>4 DEF Inv, Scans
    <2> QED BY <1>1, <1>2, <1>4, <2>1, <2>4, <2>5, <2>6, <2>7, <2>8, UnpaidRow, UnpaidStep
  <1> QED BY <1>1, <1>3, <1>4 DEF RecordRefusal, Patch, MayPatch

\* Nothing settles the call: the row is not retried.
LEMMA RecordAmbiguityInv ==
  ASSUME PaymentAssumption, Inv, NEW t \in Tabs, RecordAmbiguity(t) PROVE Inv'
  <1>1. /\ TypeOK /\ row \in Row /\ run[t].st = "ambiguous" /\ run[t].id # None
    BY DEF Inv, Typed, TypeOK, RecordAmbiguity
  <1>2. UNCHANGED <<attempt, courier>> /\ UNCHANGED worldVars /\ UNCHANGED tabVars /\ Stop(t)
    BY DEF RecordAmbiguity
  <1>3. CASE row' = row
    BY <1>2, <1>3, StopInv
  <1>4. CASE row.claim = run[t].id /\ row' = [Released(row) EXCEPT !.pay = "ambiguous"]
    <2>1. Holds(t) /\ row.pay \in {"paying", "ambiguous"}
      BY <1>1, <1>4 DEF Holds, Inv, Owned, Authority, Called
    <2>2. PICK r \in Row : r = Released(row)
      BY <1>1, ReleasedType, Zenon
    <2>3. /\ r \in Row /\ r.pay = row.pay /\ r.inv = row.inv /\ r.proof = row.proof
          /\ r.claim = None /\ ~ r.live /\ r.pclaim = row.pclaim
          /\ r.plive = row.plive /\ r.invoice = row.invoice /\ r.proved = row.proved
          /\ r.zap = row.zap /\ r.receipt = row.receipt /\ r.public = row.public
          /\ r.prior = row.prior /\ r.target = row.target
      BY <1>1, <2>2, ReleasedIs
    <2>4. /\ row' \in Row /\ row'.pay = "ambiguous" /\ row'.inv = row.inv
          /\ row'.proof = row.proof /\ row'.claim = None /\ ~ row'.live
          /\ row'.pclaim = row.pclaim /\ row'.plive = row.plive
          /\ row'.invoice = row.invoice /\ row'.proved = row.proved
          /\ row'.zap = row.zap /\ row'.receipt = row.receipt
          /\ row'.public = row.public /\ row'.prior = row.prior
          /\ row'.target = row.target
      <3>1. row' = [r EXCEPT !.pay = "ambiguous"]
        BY <1>4, <2>2
      <3> QED BY <2>3, <3>1 DEF Row
    <2>5. /\ run' \in [Tabs -> Job(RunSteps)] /\ run'[t] = Idle /\ Idle.st = "idle"
          /\ Idle.id = None /\ \A u \in Tabs \ {t} : run'[u] = run[u]
      BY <1>1, <1>2, IdleIs, RunSet DEF TypeOK, Stop
    <2>6. /\ row'.invoice # None => wallet[row'.invoice] # "unknown"
          /\ row'.zap # None => row'.invoice # None
      BY <2>4 DEF Inv, Known, RowKnown
    <2>7. /\ row'.invoice \in row.prior => ~ row'.public
          /\ \A u \in Tabs : courier[u].st = "scanning" /\ row'.invoice = courier[u].invoice
                             => row'.public
      BY <2>1, <2>4 DEF Inv, Scans
    <2> QED BY <1>1, <1>2, <1>4, <2>1, <2>4, <2>5, <2>6, <2>7, UnpaidRow, UnpaidStep
  <1> QED BY <1>1, <1>3, <1>4 DEF RecordAmbiguity, Patch, MayPatch

\* The zap slot and its receipt, written together, leave a row.
LEMMA ZapSlotType ==
  ASSUME NEW u \in Row, NEW z \in Maybe(Zaps),
         NEW c \in {"na", "waiting", "missed", "observed"}
  PROVE  [u EXCEPT !.zap = z, !.receipt = c] \in Row
  BY DEF Row

\* A released row with what it had before the claim.
Patched(w, b) ==
  [w EXCEPT !.pay = b.pay, !.inv = b.inv, !.invoice = b.invoice, !.zap = b.zap,
            !.proved = b.proved, !.receipt = b.receipt, !.public = b.public]

\* The contract of before the claim, put back.
LEMMA PatchedIs ==
  ASSUME NEW w \in Row, NEW b \in Row
  PROVE  LET s == Patched(w, b) IN
         /\ s \in Row /\ s.claim = w.claim /\ s.live = w.live /\ s.proof = w.proof
         /\ s.pclaim = w.pclaim /\ s.plive = w.plive /\ s.prior = w.prior
         /\ s.target = w.target /\ s.pay = b.pay /\ s.inv = b.inv /\ s.invoice = b.invoice
         /\ s.zap = b.zap /\ s.proved = b.proved /\ s.receipt = b.receipt
         /\ s.public = b.public
  <1>1. PICK u : u = [w EXCEPT !.pay = b.pay, !.inv = b.inv, !.invoice = b.invoice]
    OBVIOUS
  <1>2. /\ u \in Row /\ u.claim = w.claim /\ u.live = w.live /\ u.proof = w.proof
        /\ u.pclaim = w.pclaim /\ u.plive = w.plive /\ u.prior = w.prior
        /\ u.target = w.target /\ u.pay = b.pay /\ u.inv = b.inv /\ u.invoice = b.invoice
    BY <1>1 DEF Row
  <1>3. PICK v : v = [u EXCEPT !.zap = b.zap, !.receipt = b.receipt]
    OBVIOUS
  <1>4. /\ v \in Row /\ v.claim = u.claim /\ v.live = u.live /\ v.proof = u.proof
        /\ v.pclaim = u.pclaim /\ v.plive = u.plive /\ v.prior = u.prior
        /\ v.target = u.target /\ v.pay = u.pay /\ v.inv = u.inv /\ v.invoice = u.invoice
        /\ v.zap = b.zap /\ v.receipt = b.receipt
    <2>1. b.zap \in Maybe(Zaps) /\ b.receipt \in {"na", "waiting", "missed", "observed"}
      BY DEF Row
    <2>2. v \in Row
      BY <1>2, <1>3, <2>1, ZapSlotType, Zenon
    <2>3. /\ v.claim = u.claim /\ v.live = u.live /\ v.proof = u.proof
          /\ v.pclaim = u.pclaim /\ v.plive = u.plive /\ v.prior = u.prior
          /\ v.target = u.target
      BY <1>2, <1>3 DEF Row
    <2>4. /\ v.pay = u.pay /\ v.inv = u.inv /\ v.invoice = u.invoice
          /\ v.zap = b.zap /\ v.receipt = b.receipt
      BY <1>2, <1>3 DEF Row
    <2> QED BY <2>2, <2>3, <2>4
  <1>5. PICK s : s = [v EXCEPT !.proved = b.proved, !.public = b.public]
    OBVIOUS
  <1>6. /\ s \in Row /\ s.claim = v.claim /\ s.live = v.live /\ s.proof = v.proof
        /\ s.pclaim = v.pclaim /\ s.plive = v.plive /\ s.prior = v.prior
        /\ s.target = v.target /\ s.pay = v.pay /\ s.inv = v.inv /\ s.invoice = v.invoice
        /\ s.zap = v.zap /\ s.receipt = v.receipt
        /\ s.proved = b.proved /\ s.public = b.public
    BY <1>4, <1>5 DEF Row
  <1>7. s = Patched(w, b)
    BY <1>1, <1>3, <1>5 DEF Patched
  <1> QED BY <1>2, <1>4, <1>6, <1>7

\* What Contract makes of the row of a run that has not sent.
LEMMA ContractIs ==
  ASSUME NEW r \in Row, NEW b \in Row
  PROVE  LET s == Contract(r, b) IN
         /\ s \in Row /\ s.claim = None /\ ~ s.live /\ s.proof = b.proof
         /\ b.proof # "pending" => s.pclaim = None
         /\ s.pay = b.pay /\ s.inv = b.inv /\ s.invoice = b.invoice /\ s.zap = b.zap
         /\ s.proved = b.proved /\ s.receipt = b.receipt /\ s.public = b.public
         /\ s.prior = r.prior /\ s.target = r.target
  <1>1. b.proof \in ProofStatus
    BY DEF Row, ProofStatus
  <1>2. PICK w \in Row : w = Released(WithProof(r, b.proof))
    BY <1>1, ReleasedProofType, Zenon
  <1>3. /\ w.claim = None /\ ~ w.live /\ w.proof = b.proof
        /\ b.proof # "pending" => w.pclaim = None
        /\ w.prior = r.prior /\ w.target = r.target
    BY <1>1, <1>2, ReleasedProofIs
  <1>5. Contract(r, b) = Patched(w, b)
    BY <1>2 DEF Contract, Patched
  <1>6. PICK s : s = Patched(w, b)
    OBVIOUS
  <1>7. /\ s \in Row /\ s.claim = w.claim /\ s.live = w.live /\ s.proof = w.proof
        /\ s.pclaim = w.pclaim /\ s.prior = w.prior /\ s.target = w.target
        /\ s.pay = b.pay /\ s.inv = b.inv /\ s.invoice = b.invoice /\ s.zap = b.zap
        /\ s.proved = b.proved /\ s.receipt = b.receipt /\ s.public = b.public
    BY <1>2, <1>6, PatchedIs
  <1> QED BY <1>3, <1>5, <1>6, <1>7

\* Authority withdrawn before the send: the replaced row comes back.
LEMMA VetoInv ==
  ASSUME PaymentAssumption, Inv, NEW t \in Tabs, Veto(t) PROVE Inv'
  <1> DEFINE b == run[t].before
  <1>1. /\ TypeOK /\ row \in Row /\ run[t].st \in {"claimed", "received"}
        /\ run[t].id # None /\ Replaced(b) /\ b \in Row
    <2>1. TypeOK /\ row \in Row /\ run[t].st \in {"claimed", "received"}
          /\ run[t].id # None
      BY DEF Inv, Typed, TypeOK, Veto
    <2>2. Replaced(b)
      BY <2>1 DEF Inv, Owned, Authority, Early
    <2> QED BY <2>1, <2>2 DEF Replaced
  <1>2. UNCHANGED <<attempt, courier>> /\ UNCHANGED worldVars /\ UNCHANGED tabVars /\ Stop(t)
    BY DEF Veto
  <1>3. CASE row' = row
    BY <1>2, <1>3, StopInv
  <1>4. CASE row.claim = run[t].id /\ row' = Contract(row, b)
    <2>1. Holds(t) /\ row.pay # "paid"
      BY <1>1, <1>4 DEF Holds, Inv, Owned, PaidClaim, Proving
    <2>2. /\ row' \in Row /\ row'.claim = None /\ ~ row'.live
          /\ row'.proof = "not_started" /\ row'.pclaim = None
          /\ row'.pay = b.pay /\ row'.invoice = b.invoice /\ row'.zap = b.zap
          /\ ~ row'.proved /\ row'.receipt # "observed" /\ row'.public = b.public
          /\ row'.prior = row.prior
      <3>1. b.proof = "not_started" /\ ~ b.proved /\ b.receipt # "observed"
        BY <1>1 DEF Replaced, Row
      <3> HIDE DEF b
      <3> QED BY <1>1, <1>4, <3>1, ContractIs
    <2>3. \A j \in Invoices : ~ Live(j)'
      <3>1. RunKnown(t)
        BY DEF Inv, Known
      <3>2. ASSUME NEW j \in Invoices, Live(j) PROVE j = run[t].invoice /\ ~ Open(j)
        <4>1. run[t].st = "received" /\ row.invoice = run[t].invoice /\ j = row.invoice
          BY <1>1, <2>1, <3>2 DEF Inv, Money, Owned, Authority, Early, Ready
        <4>2. wallet[j] = "issued"
          BY <3>1, <4>1 DEF RunKnown, Ready
        <4>3. j \notin asked /\ j \notin shown
          BY <4>2 DEF Inv, Known, WalletKnown
        <4> QED BY <4>1, <4>3 DEF Open
      <3>3. ASSUME NEW u \in Tabs \ {t}, run[u].st = "approved"
            PROVE  run[u].invoice # run[t].invoice
        <4>1. RunKnown(u) /\ run[u] \in Job(RunSteps)
          BY <1>1 DEF Inv, Known, TypeOK
        <4>2. run[u].invoice \in Invoices /\ Live(run[u].invoice)
          BY <3>3, <4>1 DEF RunKnown, Ready, Job, Maybe, Live, Approved
        <4>3. run[t].st = "received"
          BY <1>1, <2>1, <4>2 DEF Inv, Money, Owned, Authority, Early
        <4> QED BY <3>3, <4>3 DEF Inv, Known, Ready
      <3> QED BY <1>2, <2>2, <3>2, <3>3, NoneLive
    <2>4. /\ run' \in [Tabs -> Job(RunSteps)] /\ run'[t] = Idle /\ Idle.st = "idle"
          /\ Idle.id = None /\ \A u \in Tabs \ {t} : run'[u] = run[u]
      BY <1>1, <1>2, IdleIs, RunSet DEF TypeOK, Stop
    <2>5. /\ row'.pay \in {"not_started", "failed", "manual_required"}
          /\ row'.zap # None => row'.invoice # None
          /\ row'.invoice # None => wallet[row'.invoice] # "unknown"
          /\ row'.pay = "manual_required" => row'.invoice \in shown
      BY <1>1, <2>2 DEF Replaced
    <2>6. /\ row'.invoice \in row.prior => ~ row'.public
          /\ \A u \in Tabs : courier[u].st = "scanning" /\ row'.invoice = courier[u].invoice
                             => row'.public
      BY <1>1, <2>1, <2>2 DEF Inv, Scans, Owned, Authority, Early
    <2> QED BY <1>1, <1>2, <1>4, <2>1, <2>2, <2>3, <2>4, <2>5, <2>6, UnpaidStep
  <1> QED BY <1>3, <1>4 DEF Veto, Patch, MayPatch

\* Recovery of a payment whose lease is over: paid by the evidence, failed when no
\* invoice was had, ambiguous otherwise.
LEMMA ReconcilePaymentInv ==
  ASSUME PaymentAssumption, Inv, NEW t \in Tabs, ReconcilePayment(t) PROVE Inv'
  <1>1. /\ TypeOK /\ row \in Row /\ attempt \in Attempt /\ row.claim # None /\ ~ row.live
        /\ run \in [Tabs -> Job(RunSteps)] /\ courier \in [Tabs -> Job(CourierSteps)]
    BY DEF Inv, Typed, TypeOK, ReconcilePayment
  <1>2. /\ run' = run /\ courier' = courier /\ UNCHANGED worldVars /\ UNCHANGED tabVars
        /\ slept' = slept /\ closes' = closes
    BY DEF ReconcilePayment, tabVars
  <1>3. ASSUME NEW c \in Claims, Publishes(c) PROVE c \in slept
    <2>1. row.pay = "paid"
      BY <1>3, UnpaidRow
    <2>2. row.claim \in slept
      BY <1>1 DEF Inv, Leases
    <2>3. c = row.claim
      BY <1>1, <1>3, <2>1 DEF Publishes, Inv, Owned, PaidClaim, Proving, Carrying
    <2> QED BY <2>2, <2>3
  <1>4. row.invoice \in row.prior => ~ row.public
    BY DEF Inv, Scans
  <1>5. \A u \in Tabs : run'[u] \in {run[u], Idle} /\ courier'[u] \in {courier[u], Idle}
    BY <1>2
  <1>6. ASSUME NEW p \in Row, p.pclaim = None, p.proof # "pending", p.claim = None,
               ~ p.live, p.pay = "paid", p.invoice = row.invoice, p.public = row.public,
               p.prior = row.prior, row' = p, row.invoice # None, Good(row.invoice),
               NEW q \in ProofStatus,
               attempt' = attempt \/ (/\ attempt' = [attempt EXCEPT !.proof = q]
                                     /\ attempt.invoice # None)
        PROVE  Inv'
    <2>1. /\ attempt' \in Attempt
          /\ attempt'.invoice # None => Good(attempt'.invoice)
          /\ attempt'.proved \/ attempt'.receipt # None \/ attempt'.proof # "not_started"
               => attempt'.invoice # None
      <3>1. /\ attempt' \in Attempt /\ attempt'.invoice = attempt.invoice
            /\ attempt'.proved = attempt.proved /\ attempt'.receipt = attempt.receipt
            /\ attempt'.proof = attempt.proof \/ attempt.invoice # None
        BY <1>1, <1>6 DEF Attempt, ProofStatus
      <3> QED BY <3>1 DEF Inv, Proofs
    <2> QED BY <1>1, <1>2, <1>3, <1>4, <1>5, <1>6, <2>1, PaidStep
  <1>7. CASE AttemptProves(attempt, row)
    <2>1. PICK q \in ProofStatus : /\ q = IF attempt.proof = "sent" THEN "sent"
                                          ELSE "retry_needed"
                                   /\ q # "pending"
      BY DEF ProofStatus
    <2>2. PICK r \in Row : r = Released(WithProof(row, q))
      BY <1>1, <2>1, ReleasedProofType, Zenon
    <2>3. /\ r \in Row /\ r.pay = row.pay /\ r.inv = row.inv /\ r.proof = q
          /\ r.claim = None /\ ~ r.live /\ r.pclaim = None /\ ~ r.plive
          /\ r.invoice = row.invoice /\ r.proved = row.proved /\ r.zap = row.zap
          /\ r.receipt = row.receipt /\ r.public = row.public /\ r.prior = row.prior
          /\ r.target = row.target
      <3>1. q # "pending" /\ row \in Row
        BY <1>1, <2>1
      <3> QED BY <2>2, <3>1, ReleasedProofIs
    <2>4. /\ row' \in Row /\ row'.pay = "paid" /\ row'.proof = q /\ row'.claim = None
          /\ ~ row'.live /\ row'.pclaim = None /\ ~ row'.plive
          /\ row'.invoice = row.invoice /\ row'.zap = row.zap
          /\ row'.public = row.public /\ row'.prior = row.prior
          /\ row'.target = row.target
      <3>1. PICK x \in {r.receipt, "observed"} :
              row' = [r EXCEPT !.inv = "received", !.pay = "paid",
                               !.proved = attempt.proved, !.receipt = x]
        BY <1>7, <2>1, <2>2 DEF ReconcilePayment, Reconciled
      <3>2. attempt.proved \in BOOLEAN /\ x \in {"na", "waiting", "missed", "observed"}
        BY <1>1, <2>2 DEF Attempt, Row
      <3>3. PICK u : u = [r EXCEPT !.inv = "received", !.pay = "paid", !.receipt = x]
        OBVIOUS
      <3>4. /\ u \in Row /\ u.pay = "paid" /\ u.proof = r.proof /\ u.claim = r.claim
            /\ u.live = r.live /\ u.pclaim = r.pclaim /\ u.plive = r.plive
            /\ u.invoice = r.invoice /\ u.zap = r.zap /\ u.public = r.public
            /\ u.prior = r.prior /\ u.target = r.target
        BY <3>2, <3>3 DEF Row
      <3>5. row' = [u EXCEPT !.proved = attempt.proved]
        BY <3>1, <3>3, Zenon
      <3>6. /\ row' \in Row /\ row'.pay = u.pay /\ row'.proof = u.proof
            /\ row'.claim = u.claim /\ row'.live = u.live /\ row'.pclaim = u.pclaim
            /\ row'.plive = u.plive /\ row'.invoice = u.invoice /\ row'.zap = u.zap
            /\ row'.public = u.public /\ row'.prior = u.prior /\ row'.target = u.target
        BY <3>2, <3>4, <3>5 DEF Row
      <3> QED BY <2>3, <3>4, <3>6
    <2>5. row.invoice # None /\ Good(row.invoice) /\ attempt.invoice # None
      BY <1>7 DEF AttemptProves, Inv, Proofs
    <2>6. attempt' = [attempt EXCEPT !.proof = q]
      BY <1>7, <2>4 DEF ReconcilePayment
    <2> QED BY <1>6, <2>1, <2>4, <2>5, <2>6
  <1>8. CASE /\ ~ AttemptProves(attempt, row)
             /\ row.invoice # None /\ (row.proved \/ ReceiptKnown(row))
    <2>1. row.pay = "paid"
      BY <1>8 DEF ReceiptKnown, Inv, Owned, PaidFirst
    <2>2. PICK q \in ProofStatus : /\ q = IF row.proof = "sent" THEN "sent" ELSE "retry_needed"
                                   /\ q # "pending"
      BY DEF ProofStatus
    <2>3. PICK r \in Row : r = Released(WithProof(row, q))
      BY <1>1, <2>2, ReleasedProofType, Zenon
    <2>4. /\ r \in Row /\ r.pay = row.pay /\ r.inv = row.inv /\ r.proof = q
          /\ r.claim = None /\ ~ r.live /\ r.pclaim = None /\ ~ r.plive
          /\ r.invoice = row.invoice /\ r.proved = row.proved /\ r.zap = row.zap
          /\ r.receipt = row.receipt /\ r.public = row.public /\ r.prior = row.prior
          /\ r.target = row.target
      <3>1. q # "pending" /\ row \in Row
        BY <1>1, <2>2
      <3> QED BY <2>3, <3>1, ReleasedProofIs
    <2>5. /\ row' \in Row /\ row'.pay = "paid" /\ row'.proof = q /\ row'.claim = None
          /\ ~ row'.live /\ row'.pclaim = None /\ ~ row'.plive
          /\ row'.invoice = row.invoice /\ row'.proved = row.proved
          /\ row'.zap = row.zap /\ row'.receipt = row.receipt
          /\ row'.public = row.public /\ row'.prior = row.prior
          /\ row'.target = row.target
      <3>1. row' = [r EXCEPT !.inv = "received", !.pay = "paid"]
        BY <1>8, <2>2, <2>3 DEF ReconcilePayment, Reconciled
      <3> QED BY <2>4, <3>1 DEF Row
    <2>6. row.invoice # None /\ Good(row.invoice) /\ attempt' = attempt
      BY <1>8, <2>1 DEF ReconcilePayment, Inv, Proofs
    <2> QED BY <1>6, <2>2, <2>5, <2>6
  <1>9. CASE /\ ~ AttemptProves(attempt, row)
             /\ ~ (row.invoice # None /\ (row.proved \/ ReceiptKnown(row)))
    <2>1. row.pay \in {"not_started", "paying"} /\ attempt' = attempt
      BY <1>9 DEF ReconcilePayment, Reconciled
    <2>2. row.pay # "paid"
      BY <2>1
    <2>3. \/ /\ row.invoice = None
             /\ row' = [Released(WithProof(row, "not_started")) EXCEPT
                          !.inv = "failed", !.pay = "failed", !.receipt = "na", !.zap = None]
          \/ row.invoice # None
             /\ row' = [Released(row) EXCEPT !.inv = "received", !.pay = "ambiguous"]
      BY <1>9 DEF ReconcilePayment, Reconciled
    <2>4. /\ row.proof = "not_started" /\ row.pclaim = None /\ ~ row.proved
          /\ row.receipt # "observed"
      BY <2>2, UnpaidRow
    <2>5. CASE /\ row.invoice = None
               /\ row' = [Released(WithProof(row, "not_started")) EXCEPT
                            !.inv = "failed", !.pay = "failed", !.receipt = "na", !.zap = None]
      <3>1. "not_started" \in ProofStatus
        BY DEF ProofStatus
      <3>2. PICK r \in Row : r = Released(WithProof(row, "not_started"))
        BY <1>1, <3>1, ReleasedProofType, Zenon
      <3>3. /\ r \in Row /\ r.pay = row.pay /\ r.inv = row.inv
            /\ r.proof = "not_started" /\ r.claim = None /\ ~ r.live
            /\ r.pclaim = None /\ ~ r.plive /\ r.invoice = row.invoice
            /\ r.proved = row.proved /\ r.zap = row.zap /\ r.receipt = row.receipt
            /\ r.public = row.public /\ r.prior = row.prior /\ r.target = row.target
        BY <1>1, <3>1, <3>2, ReleasedProofIs
      <3>4. /\ row' \in Row /\ row'.pay = "failed" /\ row'.proof = "not_started"
            /\ row'.claim = None /\ ~ row'.live /\ row'.pclaim = None
            /\ ~ row'.plive /\ row'.invoice = row.invoice
            /\ row'.proved = row.proved /\ row'.zap = None /\ row'.receipt = "na"
            /\ row'.public = row.public /\ row'.prior = row.prior
            /\ row'.target = row.target
        <4>1. row' = [r EXCEPT !.inv = "failed", !.pay = "failed", !.receipt = "na",
                               !.zap = None]
          BY <2>5, <3>2
        <4> QED BY <3>3, <4>1 DEF Row, Maybe
      <3>5. \A i \in Invoices : ~ Live(i)'
        <4>1. \A i \in Invoices : ~ Live(i)
          BY <2>1, <2>5 DEF Inv, Money, Known, RowKnown
        <4>2. \A u \in Tabs : ~ (row'.claim = run[u].id /\ run[u].st # "idle")
          BY <1>1, <3>4 DEF TypeOK
        <4>3. \A i \in Invoices : Live(i)' => Live(i)
          BY <1>2, <4>2 DEF Live, Open, Approved, Holds, worldVars
        <4> QED BY <4>1, <4>3
      <3>6. /\ row'.invoice \in row.prior => ~ row'.public
            /\ \A u \in Tabs :
                 courier[u].st = "scanning" /\ row'.invoice = courier[u].invoice => row'.public
        BY <1>4, <2>5, <3>4 DEF Inv, Scans
      <3> QED BY <1>1, <1>2, <1>5, <2>1, <2>2, <2>4, <2>5, <3>4, <3>5, <3>6, UnpaidStep
    <2>6. CASE /\ row.invoice # None
               /\ row' = [Released(row) EXCEPT !.inv = "received", !.pay = "ambiguous"]
      <3>1. PICK r \in Row : r = Released(row)
        BY <1>1, ReleasedType, Zenon
      <3>2. /\ r \in Row /\ r.pay = row.pay /\ r.inv = row.inv /\ r.proof = row.proof
            /\ r.claim = None /\ ~ r.live /\ r.pclaim = row.pclaim
            /\ r.plive = row.plive /\ r.invoice = row.invoice /\ r.proved = row.proved
            /\ r.zap = row.zap /\ r.receipt = row.receipt /\ r.public = row.public
            /\ r.prior = row.prior /\ r.target = row.target
        BY <1>1, <3>1, ReleasedIs
      <3>3. /\ row' \in Row /\ row'.pay = "ambiguous" /\ row'.proof = row.proof
            /\ row'.claim = None /\ ~ row'.live /\ row'.pclaim = row.pclaim
            /\ row'.plive = row.plive /\ row'.invoice = row.invoice
            /\ row'.proved = row.proved /\ row'.zap = row.zap
            /\ row'.receipt = row.receipt /\ row'.public = row.public
            /\ row'.prior = row.prior /\ row'.target = row.target
        <4>1. row' = [r EXCEPT !.inv = "received", !.pay = "ambiguous"]
          BY <2>6, <3>1
        <4> QED BY <3>2, <4>1 DEF Row
      <3>4. /\ row'.invoice \in row.prior => ~ row'.public
            /\ \A u \in Tabs :
                 courier[u].st = "scanning" /\ row'.invoice = courier[u].invoice => row'.public
        BY <1>4, <2>2, <3>3 DEF Inv, Scans
      <3>5. /\ row'.invoice # None => wallet[row'.invoice] # "unknown"
            /\ row'.zap # None => row'.invoice # None
        BY <3>3 DEF Inv, Known, RowKnown
      <3> QED BY <1>1, <1>2, <1>5, <2>1, <2>2, <2>4, <2>6, <3>3, <3>4, <3>5, UnpaidStep
    <2> QED BY <2>3, <2>5, <2>6
  <1> QED BY <1>7, <1>8, <1>9

\* The wallet to pay from is chosen before a claim.
LEMMA ChooseTargetInv ==
  ASSUME PaymentAssumption, Inv, ChooseTarget PROVE Inv'
  <1>1. TypeOK /\ row \in Row
    BY DEF Inv, Typed, TypeOK
  <1>2. UNCHANGED <<attempt, run, courier, wallet, asked, shown, reported, expired, published,
                    closes, slept>>
    BY DEF ChooseTarget, worldVars, tabVars
  <1>3. PICK k \in Targets : row' = [row EXCEPT !.target = k]
    BY DEF ChooseTarget
  <1>4. /\ row' \in Row /\ row'.pay = row.pay /\ row'.inv = row.inv
        /\ row'.proof = row.proof /\ row'.claim = row.claim /\ row'.live = row.live
        /\ row'.pclaim = row.pclaim /\ row'.plive = row.plive
        /\ row'.invoice = row.invoice /\ row'.proved = row.proved /\ row'.zap = row.zap
        /\ row'.receipt = row.receipt /\ row'.public = row.public
        /\ row'.prior = row.prior
    BY <1>1, <1>3 DEF Row
  <1>5. Typed'
    BY <1>1, <1>2, <1>4 DEF Inv, Typed, TypeOK
  <1>6. Ids'
    BY <1>1, <1>2, <1>4 DEF Inv, Owned, Ids, Acts
  <1>7. PaidFirst'
    BY <1>1, <1>2, <1>4 DEF Inv, Owned, PaidFirst, Proving, Carrying
  <1>8. PaidClaim'
    BY <1>1, <1>2, <1>4 DEF Inv, Owned, PaidClaim, Holds, Proving, Carrying
  <1>9. Authority'
    BY <1>1, <1>2, <1>4 DEF Inv, Owned, Authority, Replaced, Holds, Early, Ready, Called
  <1>10. Known'
    BY <1>1, <1>2, <1>4 DEF Inv, Known, RowKnown, WalletKnown, RunKnown, CourierKnown, Good,
      Ready, Called, Proving, Carrying
  <1>11. Money'
    BY <1>1, <1>2, <1>4 DEF Inv, Money, Live, Open, Approved, Holds
  <1>12. Evidence'
    BY <1>1, <1>2, <1>4 DEF Inv, Evidence
  <1>13. Proofs'
    BY <1>1, <1>2, <1>4 DEF Inv, Proofs, Good
  <1>14. Scans'
    BY <1>1, <1>2, <1>4 DEF Inv, Scans, Holds, Early
  <1>15. Leases'
    BY <1>1, <1>2, <1>4 DEF Inv, Leases, Publishes
  <1> QED BY <1>5, <1>6, <1>7, <1>8, <1>9, <1>10, <1>11, <1>12, <1>13, <1>14, <1>15 DEF Inv,
    Owned

\* A lease that lapses marks its claim as one that slept.
LEMMA LeaseLapsesInv ==
  ASSUME PaymentAssumption, Inv, LeaseLapses PROVE Inv'
  <1>1. /\ TypeOK /\ row \in Row
        /\ row.claim \in Claims \cup {None} /\ row.pclaim \in Claims \cup {None}
    BY DEF Inv, Typed, TypeOK, Row, Maybe
  <1>2. UNCHANGED <<attempt, run, courier, wallet, asked, shown, reported, expired, published,
                    closes>>
    BY DEF LeaseLapses, worldVars, tabVars
  <1>3. CASE /\ row.claim # None /\ row' = [row EXCEPT !.live = FALSE]
             /\ slept' = slept \cup {row.claim}
    <2>1. /\ row' \in Row /\ row'.pay = row.pay /\ row'.inv = row.inv
          /\ row'.proof = row.proof /\ row'.claim = row.claim /\ ~ row'.live
          /\ row'.pclaim = row.pclaim /\ row'.plive = row.plive
          /\ row'.invoice = row.invoice /\ row'.proved = row.proved
          /\ row'.zap = row.zap /\ row'.receipt = row.receipt
          /\ row'.public = row.public /\ row'.prior = row.prior
          /\ row'.target = row.target
      BY <1>1, <1>3 DEF Row
    <2>2. Typed'
      BY <1>1, <1>2, <1>3, <2>1 DEF Inv, Typed, TypeOK, PaymentAssumption
    <2>3. Ids'
      BY <1>1, <1>2, <1>3, <2>1 DEF Inv, Owned, Ids, Acts
    <2>4. PaidFirst'
      BY <1>1, <1>2, <1>3, <2>1 DEF Inv, Owned, PaidFirst, Proving, Carrying
    <2>5. PaidClaim'
      BY <1>1, <1>2, <1>3, <2>1 DEF Inv, Owned, PaidClaim, Holds, Proving, Carrying
    <2>6. Authority'
      BY <1>1, <1>2, <1>3, <2>1 DEF Inv, Owned, Authority, Replaced, Holds, Early, Ready,
        Called
    <2>7. Known'
      BY <1>1, <1>2, <1>3, <2>1 DEF Inv, Known, RowKnown, WalletKnown, RunKnown,
        CourierKnown, Good, Ready, Called, Proving, Carrying
    <2>8. Money'
      BY <1>1, <1>2, <1>3, <2>1 DEF Inv, Money, Live, Open, Approved, Holds
    <2>9. Evidence'
      BY <1>1, <1>2, <1>3, <2>1 DEF Inv, Evidence
    <2>10. Proofs'
      BY <1>1, <1>2, <1>3, <2>1 DEF Inv, Proofs, Good
    <2>11. Scans'
      BY <1>1, <1>2, <1>3, <2>1 DEF Inv, Scans, Holds, Early
    <2>12. Leases'
      BY <1>1, <1>2, <1>3, <2>1, PaymentAssumption DEF Inv, Leases, Publishes, TypeOK
    <2> QED BY <2>2, <2>3, <2>4, <2>5, <2>6, <2>7, <2>8, <2>9, <2>10, <2>11, <2>12 DEF Inv,
      Owned
  <1>4. CASE /\ row.pclaim # None /\ row' = [row EXCEPT !.plive = FALSE]
             /\ slept' = slept \cup {row.pclaim}
    <2>1. /\ row' \in Row /\ row'.pay = row.pay /\ row'.inv = row.inv
          /\ row'.proof = row.proof /\ row'.claim = row.claim /\ row'.live = row.live
          /\ row'.pclaim = row.pclaim /\ ~ row'.plive
          /\ row'.invoice = row.invoice /\ row'.proved = row.proved
          /\ row'.zap = row.zap /\ row'.receipt = row.receipt
          /\ row'.public = row.public /\ row'.prior = row.prior
          /\ row'.target = row.target
      BY <1>1, <1>4 DEF Row
    <2>2. Typed'
      BY <1>1, <1>2, <1>4, <2>1 DEF Inv, Typed, TypeOK, PaymentAssumption
    <2>3. Ids'
      BY <1>1, <1>2, <1>4, <2>1 DEF Inv, Owned, Ids, Acts
    <2>4. PaidFirst'
      BY <1>1, <1>2, <1>4, <2>1 DEF Inv, Owned, PaidFirst, Proving, Carrying
    <2>5. PaidClaim'
      BY <1>1, <1>2, <1>4, <2>1 DEF Inv, Owned, PaidClaim, Holds, Proving, Carrying
    <2>6. Authority'
      BY <1>1, <1>2, <1>4, <2>1 DEF Inv, Owned, Authority, Replaced, Holds, Early, Ready,
        Called
    <2>7. Known'
      BY <1>1, <1>2, <1>4, <2>1 DEF Inv, Known, RowKnown, WalletKnown, RunKnown,
        CourierKnown, Good, Ready, Called, Proving, Carrying
    <2>8. Money'
      BY <1>1, <1>2, <1>4, <2>1 DEF Inv, Money, Live, Open, Approved, Holds
    <2>9. Evidence'
      BY <1>1, <1>2, <1>4, <2>1 DEF Inv, Evidence
    <2>10. Proofs'
      BY <1>1, <1>2, <1>4, <2>1 DEF Inv, Proofs, Good
    <2>11. Scans'
      BY <1>1, <1>2, <1>4, <2>1 DEF Inv, Scans, Holds, Early
    <2>12. Leases'
      BY <1>1, <1>2, <1>4, <2>1, PaymentAssumption DEF Inv, Leases, Publishes, TypeOK
    <2> QED BY <2>2, <2>3, <2>4, <2>5, <2>6, <2>7, <2>8, <2>9, <2>10, <2>11, <2>12 DEF Inv,
      Owned
  <1> QED BY <1>3, <1>4 DEF LeaseLapses, tabVars

\* A thawed holder renews.
LEMMA HeartbeatInv ==
  ASSUME PaymentAssumption, Inv, NEW t \in Tabs, Heartbeat(t) PROVE Inv'
  <1>1. /\ TypeOK /\ row \in Row
        /\ row.claim \in Claims \cup {None} /\ row.pclaim \in Claims \cup {None}
    BY DEF Inv, Typed, TypeOK, Row, Maybe
  <1>2. UNCHANGED <<attempt, run, courier, wallet, asked, shown, reported, expired, published,
                    closes>>
    BY DEF Heartbeat, worldVars, tabVars
  <1>3. CASE /\ row.claim # None /\ row' = [row EXCEPT !.live = TRUE]
             /\ slept' = slept
    <2>1. /\ row' \in Row /\ row'.pay = row.pay /\ row'.inv = row.inv
          /\ row'.proof = row.proof /\ row'.claim = row.claim /\ row'.live
          /\ row'.pclaim = row.pclaim /\ row'.plive = row.plive
          /\ row'.invoice = row.invoice /\ row'.proved = row.proved
          /\ row'.zap = row.zap /\ row'.receipt = row.receipt
          /\ row'.public = row.public /\ row'.prior = row.prior
          /\ row'.target = row.target
      BY <1>1, <1>3 DEF Row
    <2>2. Typed'
      BY <1>1, <1>2, <1>3, <2>1 DEF Inv, Typed, TypeOK, PaymentAssumption
    <2>3. Ids'
      BY <1>1, <1>2, <1>3, <2>1 DEF Inv, Owned, Ids, Acts
    <2>4. PaidFirst'
      BY <1>1, <1>2, <1>3, <2>1 DEF Inv, Owned, PaidFirst, Proving, Carrying
    <2>5. PaidClaim'
      BY <1>1, <1>2, <1>3, <2>1 DEF Inv, Owned, PaidClaim, Holds, Proving, Carrying
    <2>6. Authority'
      BY <1>1, <1>2, <1>3, <2>1 DEF Inv, Owned, Authority, Replaced, Holds, Early, Ready,
        Called
    <2>7. Known'
      BY <1>1, <1>2, <1>3, <2>1 DEF Inv, Known, RowKnown, WalletKnown, RunKnown,
        CourierKnown, Good, Ready, Called, Proving, Carrying
    <2>8. Money'
      BY <1>1, <1>2, <1>3, <2>1 DEF Inv, Money, Live, Open, Approved, Holds
    <2>9. Evidence'
      BY <1>1, <1>2, <1>3, <2>1 DEF Inv, Evidence
    <2>10. Proofs'
      BY <1>1, <1>2, <1>3, <2>1 DEF Inv, Proofs, Good
    <2>11. Scans'
      BY <1>1, <1>2, <1>3, <2>1 DEF Inv, Scans, Holds, Early
    <2>12. Leases'
      BY <1>1, <1>2, <1>3, <2>1, PaymentAssumption DEF Inv, Leases, Publishes, TypeOK
    <2> QED BY <2>2, <2>3, <2>4, <2>5, <2>6, <2>7, <2>8, <2>9, <2>10, <2>11, <2>12 DEF Inv,
      Owned
  <1>4. CASE /\ row.pclaim # None /\ row' = [row EXCEPT !.plive = TRUE]
             /\ slept' = slept
    <2>1. /\ row' \in Row /\ row'.pay = row.pay /\ row'.inv = row.inv
          /\ row'.proof = row.proof /\ row'.claim = row.claim /\ row'.live = row.live
          /\ row'.pclaim = row.pclaim /\ row'.plive /\ row'.invoice = row.invoice
          /\ row'.proved = row.proved /\ row'.zap = row.zap
          /\ row'.receipt = row.receipt /\ row'.public = row.public
          /\ row'.prior = row.prior /\ row'.target = row.target
      BY <1>1, <1>4 DEF Row
    <2>2. Typed'
      BY <1>1, <1>2, <1>4, <2>1 DEF Inv, Typed, TypeOK, PaymentAssumption
    <2>3. Ids'
      BY <1>1, <1>2, <1>4, <2>1 DEF Inv, Owned, Ids, Acts
    <2>4. PaidFirst'
      BY <1>1, <1>2, <1>4, <2>1 DEF Inv, Owned, PaidFirst, Proving, Carrying
    <2>5. PaidClaim'
      BY <1>1, <1>2, <1>4, <2>1 DEF Inv, Owned, PaidClaim, Holds, Proving, Carrying
    <2>6. Authority'
      BY <1>1, <1>2, <1>4, <2>1 DEF Inv, Owned, Authority, Replaced, Holds, Early, Ready,
        Called
    <2>7. Known'
      BY <1>1, <1>2, <1>4, <2>1 DEF Inv, Known, RowKnown, WalletKnown, RunKnown,
        CourierKnown, Good, Ready, Called, Proving, Carrying
    <2>8. Money'
      BY <1>1, <1>2, <1>4, <2>1 DEF Inv, Money, Live, Open, Approved, Holds
    <2>9. Evidence'
      BY <1>1, <1>2, <1>4, <2>1 DEF Inv, Evidence
    <2>10. Proofs'
      BY <1>1, <1>2, <1>4, <2>1 DEF Inv, Proofs, Good
    <2>11. Scans'
      BY <1>1, <1>2, <1>4, <2>1 DEF Inv, Scans, Holds, Early
    <2>12. Leases'
      BY <1>1, <1>2, <1>4, <2>1, PaymentAssumption DEF Inv, Leases, Publishes, TypeOK
    <2> QED BY <2>2, <2>3, <2>4, <2>5, <2>6, <2>7, <2>8, <2>9, <2>10, <2>11, <2>12 DEF Inv,
      Owned
  <1> QED BY <1>3, <1>4 DEF Heartbeat, tabVars

\* A wallet settles or refuses what it was given; what settled stays so.
LEMMA SettleInv ==
  ASSUME PaymentAssumption, Inv, NEW i \in Invoices, Settle(i) PROVE Inv'
  <1>1. TypeOK
    BY DEF Inv, Typed
  <1>2. /\ UNCHANGED <<row, attempt, run, courier, asked, shown, reported, expired, published,
                       closes, slept>>
        /\ wallet[i] = "calling"
    BY DEF Settle, rowVars, tabVars
  <1>3. PICK o \in {"settled", "refused"} :
          (o = "refused" => i \in asked) /\ wallet' = [wallet EXCEPT ![i] = o]
    BY DEF Settle
  <1>4. /\ wallet' \in [Invoices -> {"unknown", "issued", "calling", "settled", "refused"}]
        /\ wallet'[i] = o /\ \A k \in Invoices \ {i} : wallet'[k] = wallet[k]
    BY <1>1, <1>3 DEF TypeOK
  <1>5. Typed'
    BY <1>1, <1>2, <1>3, <1>4 DEF Inv, Typed, TypeOK
  <1>6. Ids'
    BY <1>1, <1>2, <1>3, <1>4 DEF Inv, Owned, Ids, Acts
  <1>7. PaidFirst'
    BY <1>1, <1>2, <1>3, <1>4 DEF Inv, Owned, PaidFirst, Proving, Carrying
  <1>8. PaidClaim'
    BY <1>1, <1>2, <1>3, <1>4 DEF Inv, Owned, PaidClaim, Holds, Proving, Carrying
  <1>9. Authority'
    BY <1>1, <1>2, <1>3, <1>4 DEF Inv, Owned, Authority, Replaced, Holds, Early, Ready,
      Called
  <1>10. Known'
    BY <1>1, <1>2, <1>3, <1>4, PaymentAssumption DEF Inv, Known, RowKnown, WalletKnown,
      RunKnown, CourierKnown, Good, Ready, Called, Proving, Carrying, Typed, TypeOK
  <1>11. Money'
    BY <1>1, <1>2, <1>3, <1>4 DEF Inv, Money, Live, Open, Approved, Holds, Typed, TypeOK
  <1>12. Evidence'
    BY <1>1, <1>2, <1>3, <1>4 DEF Inv, Evidence
  <1>13. Proofs'
    BY <1>1, <1>2, <1>3, <1>4 DEF Inv, Proofs, Good, Typed, TypeOK
  <1>14. Scans'
    BY <1>1, <1>2, <1>3, <1>4 DEF Inv, Scans, Holds, Early
  <1>15. Leases'
    BY <1>1, <1>2, <1>3, <1>4 DEF Inv, Leases, Publishes
  <1> QED BY <1>5, <1>6, <1>7, <1>8, <1>9, <1>10, <1>11, <1>12, <1>13, <1>14, <1>15 DEF Inv,
    Owned

\* An invoice that expires is no longer payable by hand.
LEMMA ExpireInv ==
  ASSUME PaymentAssumption, Inv, NEW i \in Invoices, Expire(i) PROVE Inv'
  <1>1. TypeOK
    BY DEF Inv, Typed
  <1>2. /\ UNCHANGED <<row, attempt, run, courier, wallet, asked, shown, reported, published,
                       closes, slept>>
        /\ expired' = expired \cup {i}
    BY DEF Expire, rowVars, tabVars
  <1>3. Typed'
    BY <1>1, <1>2 DEF Inv, Typed, TypeOK
  <1>4. Ids'
    BY <1>1, <1>2 DEF Inv, Owned, Ids, Acts
  <1>5. PaidFirst'
    BY <1>1, <1>2 DEF Inv, Owned, PaidFirst, Proving, Carrying
  <1>6. PaidClaim'
    BY <1>1, <1>2 DEF Inv, Owned, PaidClaim, Holds, Proving, Carrying
  <1>7. Authority'
    BY <1>1, <1>2 DEF Inv, Owned, Authority, Replaced, Holds, Early, Ready, Called
  <1>8. Known'
    BY <1>1, <1>2 DEF Inv, Known, RowKnown, WalletKnown, RunKnown, CourierKnown, Good,
      Ready, Called, Proving, Carrying
  <1>9. Money'
    BY <1>1, <1>2 DEF Inv, Money, Live, Open, Approved, Holds
  <1>10. Evidence'
    BY <1>1, <1>2 DEF Inv, Evidence
  <1>11. Proofs'
    BY <1>1, <1>2 DEF Inv, Proofs, Good
  <1>12. Scans'
    BY <1>1, <1>2 DEF Inv, Scans, Holds, Early
  <1>13. Leases'
    BY <1>1, <1>2 DEF Inv, Leases, Publishes
  <1> QED BY <1>3, <1>4, <1>5, <1>6, <1>7, <1>8, <1>9, <1>10, <1>11, <1>12, <1>13 DEF Inv,
    Owned

\* A receipt on the attempt row is of an invoice that was paid.
LEMMA SaveReceiptInv ==
  ASSUME PaymentAssumption, Inv, NEW t \in Tabs, SaveReceipt(t) PROVE Inv'
  <1> DEFINE i == courier[t].invoice
  <1>1. /\ TypeOK /\ courier[t].st = "observed" /\ courier[t] \in Job(CourierSteps)
        /\ attempt \in Attempt /\ i # None /\ i \in Invoices /\ Good(i)
        /\ courier[t].zap \in Maybe(Zaps) /\ courier[t].result \in ProofStatus
    <2>1. /\ TypeOK /\ courier[t].st = "observed" /\ courier[t] \in Job(CourierSteps)
          /\ attempt \in Attempt
      BY DEF Inv, Typed, TypeOK, SaveReceipt
    <2>2. CourierKnown(t)
      BY DEF Inv, Known
    <2> QED BY <2>1, <2>2 DEF CourierKnown, Carrying, Job, Maybe, ProofStatus
  <1>2. UNCHANGED <<row, run, wallet, asked, shown, reported, expired, published, closes,
                    slept>>
    BY DEF SaveReceipt, worldVars, tabVars
  <1>3. /\ attempt' \in Attempt
        /\ attempt'.invoice # None => Good(attempt'.invoice)
        /\ attempt'.proved \/ attempt'.receipt # None \/ attempt'.proof # "not_started"
             => attempt'.invoice # None
    <2>1. CASE attempt' = attempt
      BY <1>1, <2>1 DEF Inv, Proofs
    <2>2. CASE attempt' = Attempted(attempt, i, FALSE, courier[t].zap, courier[t].result)
      <3>1. FALSE \in BOOLEAN
        OBVIOUS
      <3> HIDE DEF i
      <3> QED BY <1>1, <2>2, <3>1, AttemptedIs
    <2> QED BY <2>1, <2>2 DEF SaveReceipt
  <1>4. CASE courier[t].id = None
    <2>1. /\ courier' \in [Tabs -> Job(CourierSteps)] /\ courier'[t] = Idle
          /\ Idle.st = "idle" /\ Idle.id = None
          /\ \A u \in Tabs \ {t} : courier'[u] = courier[u]
      BY <1>1, <1>4, IdleIs, CourierSet DEF TypeOK, SaveReceipt
    <2>2. Typed'
      BY <1>1, <1>2, <1>3, <1>4, <2>1 DEF Inv, Typed, TypeOK
    <2>3. Ids'
      BY <1>1, <1>2, <1>3, <1>4, <2>1 DEF Inv, Owned, Ids, Acts
    <2>4. PaidFirst'
      BY <1>1, <1>2, <1>3, <1>4, <2>1 DEF Inv, Owned, PaidFirst, Proving, Carrying
    <2>5. PaidClaim'
      BY <1>1, <1>2, <1>3, <1>4, <2>1 DEF Inv, Owned, PaidClaim, Holds, Proving, Carrying
    <2>6. Authority'
      BY <1>1, <1>2, <1>3, <1>4, <2>1 DEF Inv, Owned, Authority, Replaced, Holds, Early,
        Ready, Called
    <2>7. Known'
      BY <1>1, <1>2, <1>3, <1>4, <2>1 DEF Inv, Known, RowKnown, WalletKnown, RunKnown,
        CourierKnown, Good, Ready, Called, Proving, Carrying
    <2>8. Money'
      BY <1>1, <1>2, <1>3, <1>4, <2>1 DEF Inv, Money, Live, Open, Approved, Holds
    <2>9. Evidence'
      BY <1>1, <1>2, <1>3, <1>4, <2>1 DEF Inv, Evidence
    <2>10. Proofs'
      BY <1>1, <1>2, <1>3, <1>4, <2>1 DEF Inv, Proofs, Good
    <2>11. Scans'
      BY <1>1, <1>2, <1>3, <1>4, <2>1 DEF Inv, Scans, Holds, Early
    <2>12. Leases'
      BY <1>1, <1>2, <1>3, <1>4, <2>1, PaymentAssumption DEF Inv, Leases, Publishes
    <2> QED BY <2>2, <2>3, <2>4, <2>5, <2>6, <2>7, <2>8, <2>9, <2>10, <2>11, <2>12 DEF Inv,
      Owned
  <1>5. CASE courier[t].id # None
    <2>1. /\ courier' \in [Tabs -> Job(CourierSteps)]
          /\ \A u \in Tabs \ {t} : courier'[u] = courier[u]
          /\ courier'[t].st = "publishing" /\ courier'[t].id = courier[t].id
          /\ courier'[t].invoice = i
      <3>1. /\ courier \in [Tabs -> Job(CourierSteps)]
            /\ courier' = [courier EXCEPT ![t].st = "publishing"]
        BY <1>1, <1>5 DEF SaveReceipt, TypeOK
      <3> QED BY <3>1, StepsAre, CourierStep
    <2>2. Typed'
      BY <1>1, <1>2, <1>3, <1>5, <2>1 DEF Inv, Typed, TypeOK
    <2>3. Ids'
      BY <1>1, <1>2, <1>3, <1>5, <2>1 DEF Inv, Owned, Ids, Acts
    <2>4. PaidFirst'
      BY <1>1, <1>2, <1>3, <1>5, <2>1 DEF Inv, Owned, PaidFirst, Proving, Carrying
    <2>5. PaidClaim'
      BY <1>1, <1>2, <1>3, <1>5, <2>1 DEF Inv, Owned, PaidClaim, Holds, Proving, Carrying
    <2>6. Authority'
      BY <1>1, <1>2, <1>3, <1>5, <2>1 DEF Inv, Owned, Authority, Replaced, Holds, Early,
        Ready, Called
    <2>7. Known'
      BY <1>1, <1>2, <1>3, <1>5, <2>1 DEF Inv, Known, RowKnown, WalletKnown, RunKnown,
        CourierKnown, Good, Ready, Called, Proving, Carrying
    <2>8. Money'
      BY <1>1, <1>2, <1>3, <1>5, <2>1 DEF Inv, Money, Live, Open, Approved, Holds
    <2>9. Evidence'
      BY <1>1, <1>2, <1>3, <1>5, <2>1 DEF Inv, Evidence
    <2>10. Proofs'
      BY <1>1, <1>2, <1>3, <1>5, <2>1 DEF Inv, Proofs, Good
    <2>11. Scans'
      BY <1>1, <1>2, <1>3, <1>5, <2>1 DEF Inv, Scans, Holds, Early
    <2>12. Leases'
      BY <1>1, <1>2, <1>3, <1>5, <2>1 DEF Inv, Leases, Publishes
    <2> QED BY <2>2, <2>3, <2>4, <2>5, <2>6, <2>7, <2>8, <2>9, <2>10, <2>11, <2>12 DEF Inv,
      Owned
  <1> QED BY <1>4, <1>5

\* What a courier sets out with.
LEMMA GoIs ==
  ASSUME courier \in [Tabs -> Job(CourierSteps)], NEW t \in Tabs, NEW st \in CourierSteps,
         NEW c \in Maybe(Claims), NEW r \in Row, Go(t, st, c, r)
  PROVE  /\ courier' \in [Tabs -> Job(CourierSteps)]
         /\ \A u \in Tabs \ {t} : courier'[u] = courier[u]
         /\ courier'[t].st = st /\ courier'[t].id = c /\ courier'[t].invoice = r.invoice
         /\ courier'[t].zap = r.zap /\ courier'[t].result = r.proof
  <1> DEFINE j == [Idle EXCEPT !.st = st, !.id = c, !.invoice = r.invoice, !.zap = r.zap,
                               !.result = r.proof]
  <1>1. /\ r.invoice \in Maybe(Invoices) /\ r.zap \in Maybe(Zaps)
        /\ r.proof \in {"not_started", "pending", "retry_needed", "sent"}
    BY DEF Row
  <1>2. /\ j \in Job(CourierSteps) /\ j.st = st /\ j.id = c /\ j.invoice = r.invoice
        /\ j.zap = r.zap /\ j.result = r.proof
    BY <1>1, IdleIs DEF Job
  <1>3. courier' = [courier EXCEPT ![t] = j]
    BY DEF Go
  <1> HIDE DEF j
  <1> QED BY <1>2, <1>3, CourierSet

\* A search is about the row's public invoice.
LEMMA ScanInv ==
  ASSUME PaymentAssumption, Inv, NEW t \in Tabs, Scan(t) PROVE Inv'
  <1>1. /\ TypeOK /\ row \in Row /\ courier[t].st = "idle" /\ row.public
        /\ row.invoice # None /\ row.zap # None /\ None \in Maybe(Claims)
    BY DEF Inv, Typed, TypeOK, Scan, Maybe
  <1>2. UNCHANGED <<row, attempt, run, wallet, asked, shown, reported, expired, published,
                    closes, slept>>
    BY DEF Scan, rowVars, worldVars, tabVars
  <1>3. /\ courier' \in [Tabs -> Job(CourierSteps)]
        /\ \A u \in Tabs \ {t} : courier'[u] = courier[u]
        /\ courier'[t].st = "scanning" /\ courier'[t].id = None
        /\ courier'[t].invoice = row.invoice /\ courier'[t].zap = row.zap
    <2>1. courier \in [Tabs -> Job(CourierSteps)] /\ Go(t, "scanning", None, row)
      BY <1>1 DEF Scan, TypeOK
    <2> QED BY <1>1, <2>1, StepsAre, GoIs
  <1>4. Typed'
    BY <1>1, <1>2, <1>3 DEF Inv, Typed, TypeOK
  <1>5. Ids'
    BY <1>1, <1>2, <1>3 DEF Inv, Owned, Ids, Acts
  <1>6. PaidFirst'
    BY <1>1, <1>2, <1>3 DEF Inv, Owned, PaidFirst, Proving, Carrying
  <1>7. PaidClaim'
    BY <1>1, <1>2, <1>3 DEF Inv, Owned, PaidClaim, Holds, Proving, Carrying
  <1>8. Authority'
    BY <1>1, <1>2, <1>3 DEF Inv, Owned, Authority, Replaced, Holds, Early, Ready, Called
  <1>9. Known'
    BY <1>1, <1>2, <1>3 DEF Inv, Known, RowKnown, WalletKnown, RunKnown, CourierKnown, Good,
      Ready, Called, Proving, Carrying
  <1>10. Money'
    BY <1>1, <1>2, <1>3 DEF Inv, Money, Live, Open, Approved, Holds
  <1>11. Evidence'
    BY <1>1, <1>2, <1>3 DEF Inv, Evidence
  <1>12. Proofs'
    BY <1>1, <1>2, <1>3 DEF Inv, Proofs, Good
  <1>13. Scans'
    BY <1>1, <1>2, <1>3 DEF Inv, Scans, Holds, Early, Owned, Authority, Ready, Known,
      RowKnown
  <1>14. Leases'
    BY <1>1, <1>2, <1>3 DEF Inv, Leases, Publishes
  <1> QED BY <1>4, <1>5, <1>6, <1>7, <1>8, <1>9, <1>10, <1>11, <1>12, <1>13, <1>14 DEF Inv,
    Owned

\* No receipt before the expiry: ambiguous, unless paid.
LEMMA ReceiptTimeoutInv ==
  ASSUME PaymentAssumption, Inv, NEW t \in Tabs, ReceiptTimeout(t) PROVE Inv'
  <1>1. /\ TypeOK /\ row \in Row /\ courier[t].st = "scanning" /\ courier[t].zap # None
    BY DEF Inv, Typed, TypeOK, ReceiptTimeout, Scans
  <1>2. UNCHANGED <<attempt, run, wallet, asked, shown, reported, expired, published, closes,
                    slept>>
    BY DEF ReceiptTimeout, worldVars, tabVars
  <1>3. /\ courier' \in [Tabs -> Job(CourierSteps)] /\ courier'[t] = Idle
        /\ Idle.st = "idle" /\ Idle.id = None
        /\ \A u \in Tabs \ {t} : courier'[u] = courier[u]
    BY <1>1, IdleIs, CourierSet DEF TypeOK, ReceiptTimeout
  <1>4. CASE row' = row
    <2>1. \A u \in Tabs : courier'[u] \in {courier[u], Idle} /\ run'[u] \in {run[u], Idle}
      BY <1>2, <1>3
    <2> QED BY <1>1, <1>2, <1>3, <1>4, <2>1, Rests DEF TypeOK, worldVars
  <1>5. CASE /\ row.zap = courier[t].zap /\ row.receipt # "observed"
             /\ row' = [row EXCEPT !.receipt = "missed",
                                   !.pay = IF @ = "paid" THEN @ ELSE "ambiguous"]
    <2>1. PICK p \in {"paid", "ambiguous"} :
            /\ p = "paid" <=> row.pay = "paid"
            /\ row' = [row EXCEPT !.receipt = "missed", !.pay = p]
      BY <1>1, <1>5
    <2>2. /\ row' \in Row /\ row'.pay = p /\ row'.inv = row.inv
          /\ row'.proof = row.proof /\ row'.claim = row.claim /\ row'.live = row.live
          /\ row'.pclaim = row.pclaim /\ row'.plive = row.plive
          /\ row'.invoice = row.invoice /\ row'.proved = row.proved
          /\ row'.zap = row.zap /\ row'.receipt = "missed" /\ row'.public = row.public
          /\ row'.prior = row.prior /\ row'.target = row.target
      BY <1>1, <2>1 DEF Row
    <2>3. Typed'
      BY <1>1, <1>2, <1>3, <1>5, <2>1, <2>2 DEF Inv, Typed, TypeOK
    <2>4. Ids'
      BY <1>1, <1>2, <1>3, <1>5, <2>1, <2>2 DEF Inv, Owned, Ids, Acts
    <2>5. PaidFirst'
      BY <1>1, <1>2, <1>3, <1>5, <2>1, <2>2 DEF Inv, Owned, PaidFirst, Proving, Carrying
    <2>6. PaidClaim'
      BY <1>1, <1>2, <1>3, <1>5, <2>1, <2>2 DEF Inv, Owned, PaidClaim, Holds, Proving,
        Carrying
    <2>7. Authority'
      BY <1>1, <1>2, <1>3, <1>5, <2>1, <2>2 DEF Inv, Owned, Authority, Replaced, Holds,
        Early, Ready, Called
    <2>8. Known'
      BY <1>1, <1>2, <1>3, <1>5, <2>1, <2>2 DEF Inv, Known, RowKnown, WalletKnown, RunKnown,
        CourierKnown, Good, Ready, Called, Proving, Carrying
    <2>9. Money'
      BY <1>1, <1>2, <1>3, <1>5, <2>1, <2>2 DEF Inv, Money, Live, Open, Approved, Holds
    <2>10. Evidence'
      BY <1>1, <1>2, <1>3, <1>5, <2>1, <2>2 DEF Inv, Evidence
    <2>11. Proofs'
      BY <1>1, <1>2, <1>3, <1>5, <2>1, <2>2 DEF Inv, Proofs, Good
    <2>12. Scans'
      BY <1>1, <1>2, <1>3, <1>5, <2>1, <2>2 DEF Inv, Scans, Holds, Early
    <2>13. Leases'
      BY <1>1, <1>2, <1>3, <1>5, <2>1, <2>2 DEF Inv, Leases, Publishes
    <2> QED BY <2>3, <2>4, <2>5, <2>6, <2>7, <2>8, <2>9, <2>10, <2>11, <2>12, <2>13 DEF Inv,
      Owned
  <1> QED BY <1>4, <1>5 DEF ReceiptTimeout

\* A run that falls back to a private invoice has none yet.
LEMMA ZapFallsBackInv ==
  ASSUME PaymentAssumption, Inv, NEW t \in Tabs, ZapFallsBack(t) PROVE Inv'
  <1>1. /\ TypeOK /\ row \in Row /\ run[t].st = "requesting" /\ run[t].id # None
    BY DEF Inv, Typed, TypeOK, ZapFallsBack
  <1>2. UNCHANGED <<attempt, courier>> /\ UNCHANGED worldVars /\ UNCHANGED tabVars
    BY DEF ZapFallsBack
  <1>3. CASE row' = row /\ Stop(t)
    BY <1>2, <1>3, StopInv
  <1>4. CASE /\ row.claim = run[t].id /\ run' = [run EXCEPT ![t].st = "claimed"]
             /\ row' = [row EXCEPT !.public = FALSE, !.receipt = "na", !.zap = None,
                                   !.live = TRUE]
    <2>1. UNCHANGED <<attempt, courier, wallet, asked, shown, reported, expired, published,
                      closes, slept>>
      BY <1>2 DEF worldVars, tabVars
    <2>2. Holds(t) /\ row.pay = "not_started" /\ row.invoice = None /\ row.zap = None
      BY <1>1, <1>4 DEF Holds, Inv, Owned, Authority
    <2>3. /\ row' \in Row /\ row'.pay = row.pay /\ row'.inv = row.inv
          /\ row'.proof = row.proof /\ row'.claim = row.claim /\ row'.live
          /\ row'.pclaim = row.pclaim /\ row'.plive = row.plive
          /\ row'.invoice = row.invoice /\ row'.proved = row.proved /\ row'.zap = None
          /\ row'.receipt = "na" /\ ~ row'.public /\ row'.prior = row.prior
          /\ row'.target = row.target
      BY <1>1, <1>4 DEF Row, Maybe
    <2>4. /\ run' \in [Tabs -> Job(RunSteps)] /\ \A u \in Tabs \ {t} : run'[u] = run[u]
          /\ run'[t].st = "claimed" /\ run'[t].id = run[t].id /\ run'[t].zap = run[t].zap
          /\ run'[t].invoice = run[t].invoice /\ run'[t].before = run[t].before
          /\ run'[t].result = run[t].result /\ run'[t].moved = run[t].moved
      <3>1. run \in [Tabs -> Job(RunSteps)] /\ run' = [run EXCEPT ![t].st = "claimed"]
        BY <1>1, <1>4 DEF TypeOK
      <3> QED BY <3>1, StepsAre, RunStep
    <2>5. Typed'
      BY <1>1, <1>4, <2>1, <2>2, <2>3, <2>4 DEF Inv, Typed, TypeOK
    <2>6. Ids'
      BY <1>1, <1>4, <2>1, <2>2, <2>3, <2>4 DEF Inv, Owned, Ids, Acts
    <2>7. PaidFirst'
      BY <1>1, <1>4, <2>1, <2>2, <2>3, <2>4 DEF Inv, Owned, PaidFirst, Proving, Carrying
    <2>8. PaidClaim'
      BY <1>1, <1>4, <2>1, <2>2, <2>3, <2>4 DEF Inv, Owned, PaidClaim, Holds, Proving,
        Carrying
    <2>9. Authority'
      BY <1>1, <1>4, <2>1, <2>2, <2>3, <2>4 DEF Inv, Owned, Authority, Replaced, Holds,
        Early, Ready, Called
    <2>10. Known'
      BY <1>1, <1>4, <2>1, <2>2, <2>3, <2>4 DEF Inv, Known, RowKnown, WalletKnown, RunKnown,
        CourierKnown, Good, Ready, Called, Proving, Carrying
    <2>11. Money'
      BY <1>1, <1>4, <2>1, <2>2, <2>3, <2>4 DEF Inv, Money, Live, Open, Approved, Holds
    <2>12. Evidence'
      BY <1>1, <1>4, <2>1, <2>2, <2>3, <2>4 DEF Inv, Evidence
    <2>13. Proofs'
      BY <1>1, <1>4, <2>1, <2>2, <2>3, <2>4 DEF Inv, Proofs, Good
    <2>14. Scans'
      BY <1>1, <1>4, <2>1, <2>2, <2>3, <2>4, PaymentAssumption DEF Inv, Scans, Holds, Early,
        TypeOK
    <2>15. Leases'
      BY <1>1, <1>4, <2>1, <2>2, <2>3, <2>4 DEF Inv, Leases, Publishes
    <2> QED BY <2>5, <2>6, <2>7, <2>8, <2>9, <2>10, <2>11, <2>12, <2>13, <2>14, <2>15 DEF
      Inv, Owned
  <1> QED BY <1>1, <1>3, <1>4 DEF ZapFallsBack, Patch, MayPatch

\* The provider's new invoice is stored under the claim, or stays unopened.
LEMMA InvoiceArrivesInv ==
  ASSUME PaymentAssumption, Inv, NEW t \in Tabs, InvoiceArrives(t) PROVE Inv'
  <1>1. /\ TypeOK /\ row \in Row /\ run[t].st = "requesting" /\ run[t].id # None
        /\ run[t] \in Job(RunSteps)
    BY DEF Inv, Typed, TypeOK, InvoiceArrives
  <1>2. UNCHANGED <<attempt, courier, asked, shown, reported, expired, published, closes,
                    slept>>
    BY DEF InvoiceArrives, tabVars
  <1>3. PICK i \in Invoices, z \in IF row.public THEN Zaps ELSE {None} :
          /\ wallet[i] = "unknown" /\ wallet' = [wallet EXCEPT ![i] = "issued"]
          /\ Patch(t, MayPatch(row, run[t].id, "paying", None),
                  [row EXCEPT !.inv = "received", !.pay = "paying",
                     !.invoice = i, !.zap = z, !.live = TRUE,
                     !.receipt = IF z = None THEN @ ELSE "waiting"])
          /\ IF MayPatch(row, run[t].id, "paying", None)
               THEN run' = [run EXCEPT ![t].st = "received",
                                       ![t].invoice = i, ![t].zap = z]
               ELSE Stop(t)
    BY DEF InvoiceArrives
  <1>4. /\ wallet' \in [Invoices -> {"unknown", "issued", "calling", "settled", "refused"}]
        /\ wallet'[i] = "issued" /\ \A k \in Invoices \ {i} : wallet'[k] = wallet[k]
    BY <1>1, <1>3 DEF TypeOK
  <1>5. i # None /\ i \notin asked /\ i \notin shown /\ i \notin row.prior /\ z \in Maybe(Zaps)
    BY <1>3 DEF PaymentAssumption, Inv, Known, RowKnown, WalletKnown, Maybe
  <1>6. CASE ~ MayPatch(row, run[t].id, "paying", None)
    <2>1. row' = row /\ Stop(t)
      BY <1>3, <1>6 DEF Patch
    <2>2. /\ run' \in [Tabs -> Job(RunSteps)] /\ run'[t] = Idle /\ Idle.st = "idle"
          /\ Idle.id = None /\ \A u \in Tabs \ {t} : run'[u] = run[u]
      BY <1>1, <2>1, IdleIs, RunSet DEF TypeOK, Stop
    <2>3. Typed'
      BY <1>1, <1>2, <1>3, <1>4, <1>5, <2>1, <2>2 DEF Inv, Typed, TypeOK
    <2>4. Ids'
      BY <1>1, <1>2, <1>3, <1>4, <1>5, <2>1, <2>2 DEF Inv, Owned, Ids, Acts
    <2>5. PaidFirst'
      BY <1>1, <1>2, <1>3, <1>4, <1>5, <2>1, <2>2 DEF Inv, Owned, PaidFirst, Proving,
        Carrying
    <2>6. PaidClaim'
      BY <1>1, <1>2, <1>3, <1>4, <1>5, <2>1, <2>2 DEF Inv, Owned, PaidClaim, Holds, Proving,
        Carrying
    <2>7. Authority'
      BY <1>1, <1>2, <1>3, <1>4, <1>5, <2>1, <2>2 DEF Inv, Owned, Authority, Replaced,
        Holds, Early, Ready, Called
    <2>8. Known'
      BY <1>1, <1>2, <1>3, <1>4, <1>5, <2>1, <2>2 DEF Inv, Known, RowKnown, WalletKnown,
        RunKnown, CourierKnown, Good, Ready, Called, Proving, Carrying
    <2>9. Money'
      BY <1>1, <1>2, <1>3, <1>4, <1>5, <2>1, <2>2 DEF Inv, Money, Live, Open, Approved,
        Holds
    <2>10. Evidence'
      BY <1>1, <1>2, <1>3, <1>4, <1>5, <2>1, <2>2 DEF Inv, Evidence
    <2>11. Proofs'
      BY <1>1, <1>2, <1>3, <1>4, <1>5, <2>1, <2>2 DEF Inv, Proofs, Good
    <2>12. Scans'
      BY <1>1, <1>2, <1>3, <1>4, <1>5, <2>1, <2>2 DEF Inv, Scans, Holds, Early
    <2>13. Leases'
      BY <1>1, <1>2, <1>3, <1>4, <1>5, <2>1, <2>2 DEF Inv, Leases, Publishes
    <2> QED BY <2>3, <2>4, <2>5, <2>6, <2>7, <2>8, <2>9, <2>10, <2>11, <2>12, <2>13 DEF Inv,
      Owned
  <1>7. CASE MayPatch(row, run[t].id, "paying", None)
    <2>1. /\ Holds(t) /\ row.pay = "not_started" /\ row.invoice = None /\ row.zap = None
          /\ row.claim # None
      BY <1>1, <1>7 DEF MayPatch, Holds, Inv, Owned, Authority
    <2>2. /\ row' \in Row /\ row'.pay = "paying" /\ row'.proof = row.proof
          /\ row'.claim = row.claim /\ row'.live /\ row'.pclaim = row.pclaim
          /\ row'.plive = row.plive /\ row'.invoice = i /\ row'.proved = row.proved
          /\ row'.zap = z /\ row'.public = row.public /\ row'.prior = row.prior
          /\ row'.target = row.target
          /\ row'.receipt \in {row.receipt, "waiting"}
      <3>1. PICK x \in {row.receipt, "waiting"} :
              row' = [row EXCEPT !.inv = "received", !.pay = "paying", !.invoice = i,
                                 !.zap = z, !.live = TRUE, !.receipt = x]
        BY <1>1, <1>3, <1>7 DEF Patch
      <3>2. x \in {"na", "waiting", "missed", "observed"} /\ i \in Maybe(Invoices)
        BY <1>1, <3>1 DEF Row, Maybe
      <3> QED BY <1>1, <1>5, <3>1, <3>2 DEF Row
    <2>3. /\ run' \in [Tabs -> Job(RunSteps)] /\ \A u \in Tabs \ {t} : run'[u] = run[u]
          /\ run'[t].st = "received" /\ run'[t].id = run[t].id /\ run'[t].invoice = i
          /\ run'[t].before = run[t].before
      <3> DEFINE j == [run[t] EXCEPT !.st = "received", !.invoice = i, !.zap = z]
      <3>1. /\ j \in Job(RunSteps) /\ j.st = "received" /\ j.id = run[t].id
            /\ j.invoice = i /\ j.before = run[t].before
        BY <1>1, <1>5, StepsAre DEF Job, Maybe
      <3>2. run' = [run EXCEPT ![t] = j]
        BY <1>1, <1>3, <1>7 DEF TypeOK
      <3> HIDE DEF j
      <3> QED BY <1>1, <3>1, <3>2, RunSet DEF TypeOK
    <2>4. run[t].before.invoice # i
      BY <1>1, <1>3, <1>5 DEF Inv, Owned, Authority, Early, Replaced
    <2>5. Typed'
      BY <1>1, <1>2, <1>3, <1>4, <1>5, <2>1, <2>2, <2>3, <2>4 DEF Inv, Typed, TypeOK
    <2>6. Ids'
      BY <1>1, <1>2, <1>3, <1>4, <1>5, <2>1, <2>2, <2>3, <2>4 DEF Inv, Owned, Ids, Acts
    <2>7. PaidFirst'
      BY <1>1, <1>2, <1>3, <1>4, <1>5, <2>1, <2>2, <2>3, <2>4 DEF Inv, Owned, PaidFirst,
        Proving, Carrying
    <2>8. PaidClaim'
      BY <1>1, <1>2, <1>3, <1>4, <1>5, <2>1, <2>2, <2>3, <2>4 DEF Inv, Owned, PaidClaim,
        Holds, Proving, Carrying, PaidFirst
    <2>9. Authority'
      BY <1>1, <1>2, <1>3, <1>4, <1>5, <2>1, <2>2, <2>3, <2>4 DEF Inv, Owned, Authority,
        Replaced, Holds, Early, Ready, Called, Ids, Acts
    <2>10. Known'
      BY <1>1, <1>2, <1>3, <1>4, <1>5, <2>1, <2>2, <2>3, <2>4 DEF Inv, Known, RowKnown,
        WalletKnown, RunKnown, CourierKnown, Good, Ready, Called, Proving, Carrying
    <2>11. Money'
      BY <1>1, <1>2, <1>3, <1>4, <1>5, <2>1, <2>2, <2>3, <2>4 DEF Inv, Money, Live, Open,
        Approved, Holds
    <2>12. Evidence'
      BY <1>1, <1>2, <1>3, <1>4, <1>5, <2>1, <2>2, <2>3, <2>4 DEF Inv, Evidence
    <2>13. Proofs'
      BY <1>1, <1>2, <1>3, <1>4, <1>5, <2>1, <2>2, <2>3, <2>4 DEF Inv, Proofs, Good
    <2>14. Scans'
      BY <1>1, <1>2, <1>3, <1>4, <1>5, <2>1, <2>2, <2>3, <2>4 DEF Inv, Scans, Holds, Early
    <2>15. Leases'
      BY <1>1, <1>2, <1>3, <1>4, <1>5, <2>1, <2>2, <2>3, <2>4 DEF Inv, Leases, Publishes
    <2> QED BY <2>5, <2>6, <2>7, <2>8, <2>9, <2>10, <2>11, <2>12, <2>13, <2>14, <2>15 DEF
      Inv, Owned
  <1> QED BY <1>6, <1>7

\* The run's invoice is shown: it is the one live invoice, and becomes evidence.
LEMMA ShowInvoiceInv ==
  ASSUME PaymentAssumption, Inv, NEW t \in Tabs, ShowInvoice(t) PROVE Inv'
  <1> DEFINE i == run[t].invoice
  <1>1. /\ TypeOK /\ row \in Row /\ run[t].st = "received" /\ run[t].id # None
        /\ i \in Invoices /\ i # None /\ wallet[i] = "issued"
        /\ row.claim = run[t].id /\ row.pay # "paid" /\ i \notin expired
    <2>1. /\ TypeOK /\ row \in Row /\ run[t].st = "received" /\ run[t].id # None
          /\ run[t] \in Job(RunSteps)
          /\ row.claim = run[t].id /\ row.pay # "paid" /\ i \notin expired
      BY DEF Inv, Typed, TypeOK, ShowInvoice, Fenced
    <2>2. RunKnown(t)
      BY DEF Inv, Known
    <2> QED BY <2>1, <2>2 DEF RunKnown, Ready, Job, Maybe
  <1>2. /\ UNCHANGED <<attempt, courier, asked, reported, expired, published, closes, slept>>
        /\ shown' = shown \cup {i} /\ wallet' = [wallet EXCEPT ![i] = "calling"] /\ Stop(t)
    BY DEF ShowInvoice, tabVars
  <1>3. /\ wallet' \in [Invoices -> {"unknown", "issued", "calling", "settled", "refused"}]
        /\ wallet'[i] = "calling" /\ \A k \in Invoices \ {i} : wallet'[k] = wallet[k]
    BY <1>1, <1>2 DEF TypeOK
  <1>4. Holds(t) /\ row.invoice = i /\ i \notin asked /\ i \notin shown
    BY <1>1 DEF Holds, Inv, Owned, Authority, Ready, Known, WalletKnown
  <1>5. PICK r \in Row : r = Released(row)
    BY <1>1, ReleasedType, Zenon
  <1>6. /\ r \in Row /\ r.pay = row.pay /\ r.inv = row.inv /\ r.proof = row.proof
        /\ r.claim = None /\ ~ r.live /\ r.pclaim = row.pclaim
        /\ r.plive = row.plive /\ r.invoice = row.invoice /\ r.proved = row.proved
        /\ r.zap = row.zap /\ r.receipt = row.receipt /\ r.public = row.public
        /\ r.prior = row.prior /\ r.target = row.target
    BY <1>1, <1>5, ReleasedIs
  <1>7. /\ row' \in Row /\ row'.pay = "manual_required" /\ row'.proof = row.proof
        /\ row'.claim = None /\ ~ row'.live /\ row'.pclaim = row.pclaim
        /\ row'.plive = row.plive /\ row'.invoice = row.invoice
        /\ row'.proved = row.proved /\ row'.zap = row.zap /\ row'.public = row.public
        /\ row'.prior = row.prior /\ row'.target = row.target
        /\ row'.receipt # "observed"
    <2>1. PICK x \in {"na", "waiting"} :
            row' = [r EXCEPT !.inv = "manual_required", !.pay = "manual_required",
                             !.receipt = x]
      BY <1>5 DEF ShowInvoice
    <2> QED BY <1>6, <2>1 DEF Row
  <1>8. /\ run' \in [Tabs -> Job(RunSteps)] /\ run'[t] = Idle /\ Idle.st = "idle"
        /\ Idle.id = None /\ \A u \in Tabs \ {t} : run'[u] = run[u]
    BY <1>1, <1>2, IdleIs, RunSet DEF TypeOK, Stop
  <1>9. \A u \in Tabs : ~ Holds(u)'
    BY <1>1, <1>7, <1>8 DEF Holds, TypeOK
  <1>10. \A j \in Invoices : Live(j) => j = i
    BY <1>1, <1>4 DEF Inv, Money
  <1>11. ASSUME NEW u \in Tabs, run[u].st = "approved" PROVE FALSE
    <2>1. RunKnown(u) /\ run[u] \in Job(RunSteps)
      BY <1>1 DEF Inv, Known, TypeOK
    <2>2. run[u].invoice \in Invoices /\ Live(run[u].invoice)
      BY <1>11, <2>1 DEF RunKnown, Ready, Job, Maybe, Live, Approved
    <2>3. run[u].invoice = i
      BY <1>10, <2>2
    <2> QED BY <1>1, <1>11, <2>3 DEF Inv, Known, Ready
  <1>12. \A k \in asked : wallet[k] = "refused"
    BY <1>1, <1>4, <1>10 DEF Live, Open, TypeOK
  <1>13. Typed'
    BY <1>1, <1>2, <1>3, <1>4, <1>7, <1>8, <1>9, <1>10, <1>11, <1>12 DEF Inv, Typed, TypeOK
  <1>14. Ids'
    BY <1>1, <1>2, <1>3, <1>4, <1>7, <1>8, <1>9, <1>10, <1>11, <1>12 DEF Inv, Owned, Ids,
      Acts
  <1>15. PaidFirst'
    BY <1>1, <1>2, <1>3, <1>4, <1>7, <1>8, <1>9, <1>10, <1>11, <1>12 DEF Inv, Owned,
      PaidFirst, Proving, Carrying
  <1>16. PaidClaim'
    BY <1>1, <1>2, <1>3, <1>4, <1>7, <1>8, <1>9, <1>10, <1>11, <1>12 DEF Inv, Owned,
      PaidClaim, Holds, Proving, Carrying
  <1>17. Authority'
    BY <1>1, <1>2, <1>3, <1>4, <1>7, <1>8, <1>9, <1>10, <1>11, <1>12 DEF Inv, Owned,
      Authority, Replaced, Holds, Early, Ready, Called
  <1>18. Known'
    BY <1>1, <1>2, <1>3, <1>4, <1>7, <1>8, <1>9, <1>10, <1>11, <1>12, PaymentAssumption DEF
      Inv, Known, RowKnown, WalletKnown, RunKnown, CourierKnown, Good, Ready, Called,
      Proving, Carrying, TypeOK
  <1>19. Money'
    BY <1>1, <1>2, <1>3, <1>4, <1>7, <1>8, <1>9, <1>10, <1>11, <1>12 DEF Inv, Money, Live,
      Open, Approved, Holds
  <1>20. Evidence'
    BY <1>1, <1>2, <1>3, <1>4, <1>7, <1>8, <1>9, <1>10, <1>11, <1>12 DEF Inv, Evidence
  <1>21. Proofs'
    BY <1>1, <1>2, <1>3, <1>4, <1>7, <1>8, <1>9, <1>10, <1>11, <1>12 DEF Inv, Proofs, Good
  <1>22. Scans'
    BY <1>1, <1>2, <1>3, <1>4, <1>7, <1>8, <1>9, <1>10, <1>11, <1>12 DEF Inv, Scans, Holds,
      Early
  <1>23. Leases'
    BY <1>1, <1>2, <1>3, <1>4, <1>7, <1>8, <1>9, <1>10, <1>11, <1>12, UnpaidRow DEF Inv,
      Leases, Publishes
  <1> QED BY <1>13, <1>14, <1>15, <1>16, <1>17, <1>18, <1>19, <1>20, <1>21, <1>22, <1>23 DEF
    Inv, Owned

\* A paid order whose proof a courier takes, or leaves to its live owner.
LEMMA TakenStep ==
  ASSUME PaymentAssumption, Inv, NEW t \in Tabs, courier[t].st \in {"idle", "scanning"},
         NEW c \in Maybe(Claims), c # None => Fresh(c),
         row' \in Row, row'.pay = "paid", row'.claim = None, ~ row'.live,
         row'.invoice = row.invoice, row'.zap = row.zap, row'.public = row.public,
         row'.prior = row.prior, row.invoice # None, Good(row.invoice),
         row'.pclaim # None <=> row'.proof = "pending",
         UNCHANGED <<attempt, run, closes>>, UNCHANGED worldVars, slept' = slept \ {c},
         courier' \in [Tabs -> Job(CourierSteps)],
         \A u \in Tabs \ {t} : courier'[u] = courier[u],
         courier'[t].st \in {"observed", "publishing"}, courier'[t].invoice = row.invoice,
         courier'[t].st = "publishing" => courier'[t].id # None,
         \/ /\ courier'[t].id = None
            /\ row'.proof = row.proof /\ row'.pclaim = row.pclaim /\ row'.plive = row.plive
         \/ /\ row.proof # "sent" /\ (row.pclaim = None \/ ~ row.plive)
            /\ \/ c = None /\ courier'[t].id = None /\ row'.pclaim = None
               \/ /\ c # None /\ courier'[t].id = c
                  /\ row'.pclaim = c /\ row'.plive /\ row'.proof = "pending"
  PROVE  Inv'
  <1>1. /\ TypeOK /\ \A u \in Tabs : ~ Holds(u)'
        /\ row.invoice \in Invoices /\ wallet[row.invoice] # "unknown"
        /\ row.invoice \in row.prior => ~ row.public
    BY DEF Holds, Inv, Typed, TypeOK, Known, RowKnown, Scans, Row, Maybe
  <1>2. UNCHANGED <<attempt, run, wallet, asked, shown, reported, expired, published, closes>>
    BY DEF worldVars
  <1>3. \A d \in Claims : Publishes(d) /\ c # None => d # c
    BY DEF Publishes, Fresh, InUse
  <1>4. \A d \in Claims : Publishes(d)' => Publishes(d) \/ (d = c /\ courier'[t].id = c)
    BY <1>2 DEF Publishes, PaymentAssumption
  <1>5. \A u \in Tabs : c # None => run[u].id # c /\ courier[u].id # c
    BY DEF Fresh, InUse
  <1>6. Typed'
    BY <1>1, <1>2 DEF Inv, Typed, TypeOK
  <1>7. Ids'
    BY <1>1, <1>2, <1>5 DEF Inv, Owned, Ids, Acts
  <1>8. PaidFirst'
    BY <1>1, <1>2 DEF Inv, Owned, PaidFirst, Proving, Carrying
  <1>9. PaidClaim'
    BY <1>1 DEF PaidClaim
  <1>10. Authority'
    BY <1>1, <1>2 DEF Inv, Owned, Authority, Replaced, Early, Ready, Called
  <1>11. Known'
    BY <1>1, <1>2 DEF Inv, Known, RowKnown, WalletKnown, RunKnown, CourierKnown, Good,
      Ready, Called, Proving, Carrying
  <1>12. Money'
    BY <1>1, <1>2 DEF Inv, Money, Live, Open, Approved
  <1>13. Evidence'
    BY <1>1, <1>2 DEF Inv, Evidence
  <1>14. Proofs'
    BY <1>1, <1>2 DEF Inv, Proofs, Good
  <1>15. Scans'
    BY <1>1, <1>2 DEF Inv, Scans, Early
  <1>16. Leases'
    <2>1. row'.pclaim # None /\ ~ row'.plive => row'.pclaim \in slept'
      <3>1. CASE row'.pclaim = row.pclaim /\ row'.plive = row.plive
        <4>1. row.pclaim # None => row.pclaim # c
          BY DEF Fresh, InUse
        <4> QED BY <3>1, <4>1 DEF Inv, Leases
      <3> QED BY <3>1
    <2>2. \A d \in Claims : Publishes(d) =>
             d \in slept \/ row.proof = "sent" \/ (row.pclaim = d /\ row.plive)
      BY DEF Inv, Leases
    <2>3. ASSUME NEW d \in Claims, Publishes(d)'
          PROVE  d \in slept' \/ row'.proof = "sent" \/ (row'.pclaim = d /\ row'.plive)
      <3>1. CASE Publishes(d)
        BY <1>3, <2>2, <3>1 DEF PaymentAssumption
      <3>2. CASE d = c /\ courier'[t].id = c
        BY <3>2 DEF PaymentAssumption
      <3> QED BY <1>4, <2>3, <3>1, <3>2
    <2>4. ASSUME NEW d \in Claims, NEW e \in Claims, Publishes(d)', Publishes(e)', d # e
          PROVE  d \in slept' \/ e \in slept'
      <3>1. CASE Publishes(d) /\ Publishes(e)
        <4>1. d \in slept \/ e \in slept
          BY <2>4, <3>1 DEF Inv, Leases
        <4>2. d # c /\ e # c
          BY <1>3, <3>1 DEF PaymentAssumption
        <4> QED BY <4>1, <4>2
      <3>2. ASSUME NEW x \in Claims, NEW y \in Claims, Publishes(x), y = c, courier'[t].id = c
            PROVE  x \in slept'
        <4>1. x # c /\ c # None
          BY <1>3, <3>2 DEF PaymentAssumption
        <4>2. row.proof # "sent" /\ (row.pclaim = None \/ ~ row.plive)
          BY <3>2, <4>1
        <4> QED BY <2>2, <3>2, <4>1, <4>2 DEF PaymentAssumption
      <3> QED BY <1>4, <2>4, <3>1, <3>2
    <2> QED BY <2>1, <2>3, <2>4 DEF Leases
  <1> QED BY <1>6, <1>7, <1>8, <1>9, <1>10, <1>11, <1>12, <1>13, <1>14, <1>15, <1>16 DEF
    Inv, Owned

\* A retry takes a proof no live claim covers.
LEMMA ClaimProofInv ==
  ASSUME PaymentAssumption, Inv, NEW t \in Tabs, ClaimProof(t) PROVE Inv'
  <1>1. /\ TypeOK /\ row \in Row /\ courier[t].st = "idle" /\ row.proof # "sent"
        /\ row.pclaim = None \/ ~ row.plive
        /\ courier \in [Tabs -> Job(CourierSteps)]
    BY DEF Inv, Typed, TypeOK, ClaimProof
  <1>2. row.pay = "paid" /\ row.claim = None /\ ~ row.live
    <2>1. row.pay = "paid" /\ row.claim = None
      BY DEF ClaimProof, Inv, Owned, PaidFirst, PaidClaim
    <2> QED BY <1>1, <2>1 DEF TypeOK, Row
  <1>3. row.invoice # None /\ Good(row.invoice)
    BY <1>2 DEF Inv, Known, RowKnown, Proofs
  <1>4. UNCHANGED <<attempt, run, closes>> /\ UNCHANGED worldVars
    BY DEF ClaimProof
  <1>5. PICK c \in Claims : /\ Fresh(c) /\ row' = HoldProof(row, c)
                            /\ Go(t, "publishing", c, row') /\ slept' = slept \ {c}
    BY DEF ClaimProof
  <1>6. PICK r \in Row : r = HoldProof(row, c)
    BY <1>1, HoldProofType, Zenon
  <1>7. /\ r.proof = "pending" /\ r.pclaim = c /\ r.plive
        /\ r.pay = row.pay /\ r.claim = row.claim /\ r.live = row.live
        /\ r.invoice = row.invoice /\ r.zap = row.zap /\ r.public = row.public
        /\ r.prior = row.prior
    BY <1>1, <1>6, HoldProofIs
  <1>8. row' = r /\ c # None /\ c \in Maybe(Claims)
    BY <1>5, <1>6 DEF PaymentAssumption, Maybe
  <1>9. /\ courier' \in [Tabs -> Job(CourierSteps)]
        /\ \A u \in Tabs \ {t} : courier'[u] = courier[u]
        /\ courier'[t].st = "publishing" /\ courier'[t].id = c
        /\ courier'[t].invoice = row.invoice
    <2>1. Go(t, "publishing", c, r)
      BY <1>5, <1>8 DEF Go
    <2> QED BY <1>1, <1>7, <1>8, <2>1, StepsAre, GoIs
  <1> QED BY <1>1, <1>2, <1>3, <1>4, <1>5, <1>7, <1>8, <1>9, TakenStep

\* A receipt is evidence that the row's own invoice was paid: the zap is the row's, and
\* a searched invoice the row no longer has was never shown nor asked for.
LEMMA ReceiptFoundInv ==
  ASSUME PaymentAssumption, Inv, NEW t \in Tabs, ReceiptFound(t) PROVE Inv'
  <1>1. /\ TypeOK /\ row \in Row /\ courier[t].st = "scanning" /\ courier[t].zap # None
        /\ courier[t].invoice \in Invoices /\ wallet[courier[t].invoice] = "settled"
        /\ courier \in [Tabs -> Job(CourierSteps)]
    <2>1. /\ TypeOK /\ row \in Row /\ courier[t].st = "scanning"
          /\ wallet[courier[t].invoice] = "settled" /\ courier[t] \in Job(CourierSteps)
          /\ courier \in [Tabs -> Job(CourierSteps)]
      BY DEF Inv, Typed, TypeOK, ReceiptFound
    <2> QED BY <2>1 DEF Inv, Scans, Job, Maybe
  <1>2. UNCHANGED <<attempt, run, closes>> /\ UNCHANGED worldVars
    BY DEF ReceiptFound
  <1>3. PICK c \in Maybe(Claims) :
          /\ c # None => Fresh(c)
          /\ IF row.zap = courier[t].zap
               THEN /\ row' = Observed(row, c)
                    /\ Go(t, "observed", IF row'.pclaim = c THEN c ELSE None, row')
                    /\ slept' = slept \ {c}
               ELSE /\ courier' = [courier EXCEPT ![t] = Idle]
                    /\ UNCHANGED <<row, slept>>
    BY DEF ReceiptFound
  <1>4. CASE row.zap # courier[t].zap
    <2>1. courier' = [courier EXCEPT ![t] = Idle] /\ row' = row /\ slept' = slept
      BY <1>3, <1>4
    <2>2. /\ courier' \in [Tabs -> Job(CourierSteps)] /\ courier'[t] = Idle
          /\ \A u \in Tabs \ {t} : courier'[u] = courier[u]
      BY <1>1, <2>1, IdleIs, CourierSet
    <2>3. \A u \in Tabs : courier'[u] \in {courier[u], Idle} /\ run'[u] \in {run[u], Idle}
      BY <1>2, <2>2
    <2> QED BY <1>1, <1>2, <2>1, <2>2, <2>3, Rests DEF TypeOK
  <1>5. CASE row.zap = courier[t].zap
    <2>1. row.invoice # None
      BY <1>1, <1>5 DEF Inv, Known, RowKnown
    <2>2. Good(row.invoice)
      <3> DEFINE j == courier[t].invoice
      <3>1. CASE row.pay = "paid"
        BY <3>1 DEF Inv, Proofs
      <3>2. CASE row.pay # "paid"
        <4>1. j \in asked \/ j \in shown
          BY <1>1 DEF Inv, Known, WalletKnown
        <4>2. CASE j \in asked
          <5>1. Live(j)
            BY <1>1, <4>2 DEF Live, Open
          <5>2. row.invoice = j
            BY <1>1, <3>2, <5>1 DEF Inv, Money
          <5> QED BY <1>1, <5>2 DEF Good
        <4>3. CASE j \in shown
          <5>1. row.invoice = j
            BY <1>1, <3>2, <4>3 DEF Inv, Evidence, Scans
          <5> QED BY <1>1, <5>1 DEF Good
        <4> QED BY <4>1, <4>2, <4>3
      <3> QED BY <3>1, <3>2
    <2> DEFINE busy == row.proof = "pending" /\ row.pclaim # None /\ row.plive
               take == row.proof # "sent" /\ c # None /\ ~ busy
    <2>3. PICK told \in Row :
            /\ row' = [Released(told) EXCEPT !.inv = "received", !.pay = "paid",
                                             !.receipt = "observed"]
            /\ told.invoice = row.invoice /\ told.zap = row.zap /\ told.public = row.public
            /\ told.prior = row.prior
            /\ \/ /\ row.proof = "sent" \/ busy
                  /\ told.proof = row.proof /\ told.pclaim = row.pclaim
                  /\ told.plive = row.plive
               \/ /\ row.proof # "sent" /\ (row.pclaim = None \/ ~ row.plive)
                  /\ \/ c = None /\ told.pclaim = None /\ told.proof = "retry_needed"
                     \/ /\ c # None /\ told.pclaim = c /\ told.plive
                        /\ told.proof = "pending"
      <3>1. row' = Observed(row, c)
        BY <1>3, <1>5
      <3>2. CASE row.proof = "sent" \/ busy
        BY <1>1, <3>1, <3>2 DEF Observed
      <3>3. row.proof = "sent" \/ busy \/ row.pclaim = None \/ ~ row.plive
        BY <1>1 DEF TypeOK
      <3>4. CASE take
        <4>1. c \in Claims
          BY <3>4 DEF Maybe
        <4>2. PICK p \in Row : p = HoldProof(row, c)
          BY <1>1, <4>1, HoldProofType, Zenon
        <4>3. /\ p.invoice = row.invoice /\ p.zap = row.zap /\ p.public = row.public
              /\ p.prior = row.prior /\ p.pclaim = c /\ p.plive /\ p.proof = "pending"
          BY <1>1, <4>1, <4>2, HoldProofIs
        <4>4. row' = [Released(p) EXCEPT !.inv = "received", !.pay = "paid",
                                         !.receipt = "observed"]
          BY <3>1, <3>4, <4>2 DEF Observed
        <4> QED BY <3>3, <3>4, <4>3, <4>4
      <3>5. CASE row.proof # "sent" /\ ~ busy /\ ~ take
        <4>1. "retry_needed" \in ProofStatus
          BY DEF ProofStatus
        <4>2. PICK p \in Row : p = WithProof(row, "retry_needed")
          BY <1>1, <4>1, WithProofType, Zenon
        <4>3. /\ p.invoice = row.invoice /\ p.zap = row.zap /\ p.public = row.public
              /\ p.prior = row.prior /\ p.pclaim = None /\ p.proof = "retry_needed"
          BY <1>1, <4>1, <4>2, WithProofIs
        <4>4. row' = [Released(p) EXCEPT !.inv = "received", !.pay = "paid",
                                         !.receipt = "observed"]
          BY <3>1, <3>5, <4>2 DEF Observed
        <4> QED BY <3>3, <3>5, <4>3, <4>4
      <3> QED BY <3>2, <3>4, <3>5
    <2> HIDE DEF busy, take
    <2>4. PICK r \in Row : r = Released(told)
      BY ReleasedType, Zenon
    <2>5. /\ r \in Row /\ r.pay = told.pay /\ r.inv = told.inv /\ r.proof = told.proof
          /\ r.claim = None /\ ~ r.live /\ r.pclaim = told.pclaim
          /\ r.plive = told.plive /\ r.invoice = told.invoice /\ r.proved = told.proved
          /\ r.zap = told.zap /\ r.receipt = told.receipt /\ r.public = told.public
          /\ r.prior = told.prior /\ r.target = told.target
      BY <2>4, ReleasedIs
    <2>6. /\ row' \in Row /\ row'.pay = "paid" /\ row'.proof = told.proof
          /\ row'.claim = None /\ ~ row'.live /\ row'.pclaim = told.pclaim
          /\ row'.plive = told.plive /\ row'.invoice = told.invoice
          /\ row'.zap = told.zap /\ row'.public = told.public /\ row'.prior = told.prior
      <3>1. row' = [r EXCEPT !.inv = "received", !.pay = "paid", !.receipt = "observed"]
        BY <2>3, <2>4
      <3>2. /\ row' \in Row /\ row'.pay = "paid"
            /\ row'.proof = r.proof /\ row'.claim = r.claim /\ row'.live = r.live
            /\ row'.pclaim = r.pclaim /\ row'.plive = r.plive
            /\ row'.invoice = r.invoice /\ row'.zap = r.zap
            /\ row'.public = r.public /\ row'.prior = r.prior
        BY <3>1, ObservedIs, Zenon
      <3> QED BY <2>5, <3>2
    <2>7. PICK x \in Maybe(Claims) : /\ x = IF row'.pclaim = c THEN c ELSE None
                                     /\ Go(t, "observed", x, row')
      BY <1>3, <1>5 DEF Maybe
    <2>8. /\ courier' \in [Tabs -> Job(CourierSteps)]
          /\ \A u \in Tabs \ {t} : courier'[u] = courier[u]
          /\ courier'[t].st = "observed" /\ courier'[t].id = x
          /\ courier'[t].invoice = row.invoice
      <3>1. PICK s \in Row : s = row'
        BY <2>6
      <3>2. Go(t, "observed", x, s) /\ s.invoice = row.invoice
        BY <2>3, <2>6, <2>7, <3>1 DEF Go
      <3> QED BY <1>1, <2>7, <3>2, StepsAre, GoIs
    <2>9. row'.pclaim # None <=> row'.proof = "pending"
      BY <1>1, <2>3, <2>6 DEF TypeOK, busy
    <2>10. row.pclaim # None => row.pclaim # c
      BY <1>3 DEF Fresh, InUse
    <2>11. \/ /\ courier'[t].id = None
              /\ row'.proof = row.proof /\ row'.pclaim = row.pclaim /\ row'.plive = row.plive
           \/ /\ row.proof # "sent" /\ (row.pclaim = None \/ ~ row.plive)
              /\ \/ c = None /\ courier'[t].id = None /\ row'.pclaim = None
                 \/ /\ c # None /\ courier'[t].id = c
                    /\ row'.pclaim = c /\ row'.plive /\ row'.proof = "pending"
      BY <2>3, <2>6, <2>7, <2>8, <2>10
    <2>12. slept' = slept \ {c}
      BY <1>3, <1>5
    <2>13. /\ row' \in Row /\ row'.pay = "paid" /\ row'.claim = None /\ ~ row'.live
           /\ row'.invoice = row.invoice /\ row'.zap = row.zap
           /\ row'.public = row.public /\ row'.prior = row.prior
      BY <2>3, <2>6
    <2>14. c # None => Fresh(c)
      BY <1>3
    <2>15. /\ courier[t].st \in {"idle", "scanning"}
           /\ courier'[t].st \in {"observed", "publishing"}
           /\ courier'[t].st = "publishing" => courier'[t].id # None
      BY <1>1, <2>8
    <2> QED BY <1>2, <2>1, <2>2, <2>8, <2>9, <2>11, <2>12, <2>13, <2>14, <2>15, TakenStep
  <1> QED BY <1>4, <1>5

\* What the buyer reports was shown, and the buyer's word is the evidence.
LEMMA ReportInv ==
  ASSUME PaymentAssumption, Inv, NEW t \in Tabs, Report(t) PROVE Inv'
  <1>1. PICK i \in Invoices, c \in Claims :
          /\ Reportable(row, i) /\ Fresh(c) /\ c # None /\ i # None
          /\ row' = [HoldProof(row, c) EXCEPT !.pay = "paid", !.invoice = i]
          /\ reported' = reported \cup {i}
          /\ run' = [run EXCEPT ![t] = [Idle EXCEPT !.st = "reported", !.id = c,
                                                    !.invoice = i]]
          /\ slept' = slept \ {c}
    BY DEF Report, PaymentAssumption
  <1>2. /\ UNCHANGED <<attempt, courier, wallet, asked, shown, expired, published, closes>>
        /\ run[t].st = "idle"
    BY DEF Report
  <1>3. /\ TypeOK /\ row \in Row /\ row.claim = None /\ ~ row.live
        /\ row.pay # "paid" /\ i \in shown /\ wallet[i] # "unknown"
        /\ i \in row.prior => ~ row.public
    <2>1. TypeOK /\ row \in Row
      BY DEF Inv, Typed, TypeOK
    <2>2. row.claim = None /\ row.pay \in {"failed", "manual_required"}
      BY <1>1 DEF Reportable, Inv, Owned, PaidClaim
    <2>3. i \in shown /\ (i \in row.prior => ~ row.public)
      BY <1>1 DEF Reportable, Inv, Known, RowKnown, Scans
    <2>4. wallet[i] # "unknown"
      BY <2>3 DEF Inv, Known, WalletKnown
    <2> QED BY <2>1, <2>2, <2>3, <2>4 DEF TypeOK, Row
  <1>4. /\ row' \in Row /\ row'.pay = "paid" /\ row'.claim = None /\ ~ row'.live
        /\ row'.proof = "pending" /\ row'.pclaim = c /\ row'.plive
        /\ row'.invoice = i /\ row'.public = row.public /\ row'.prior = row.prior
    <2>1. PICK r \in Row : r = HoldProof(row, c)
      BY <1>3, HoldProofType, Zenon
    <2>2. /\ r.proof = "pending" /\ r.pclaim = c /\ r.plive /\ r.claim = None
          /\ ~ r.live /\ r.public = row.public /\ r.prior = row.prior
      BY <1>3, <2>1, HoldProofIs
    <2>3. row' = [r EXCEPT !.pay = "paid", !.invoice = i]
      BY <1>1, <2>1
    <2>4. row' \in Row /\ row'.pay = "paid" /\ row'.invoice = i
      <3>1. i \in Maybe(Invoices)
        BY DEF Maybe
      <3> QED BY <2>3, <3>1 DEF Row
    <2>5. /\ row'.proof = r.proof /\ row'.pclaim = r.pclaim /\ row'.plive = r.plive
          /\ row'.claim = r.claim /\ row'.live = r.live /\ row'.public = r.public
          /\ row'.prior = r.prior
      BY <2>1, <2>3 DEF Row
    <2> QED BY <2>2, <2>4, <2>5
  <1>5. /\ run' \in [Tabs -> Job(RunSteps)] /\ \A u \in Tabs \ {t} : run'[u] = run[u]
        /\ run'[t].st = "reported" /\ run'[t].id = c /\ run'[t].invoice = i
        /\ ~ run'[t].moved
    <2> DEFINE j == [Idle EXCEPT !.st = "reported", !.id = c, !.invoice = i]
    <2>1. /\ j \in Job(RunSteps) /\ j.st = "reported" /\ j.id = c /\ j.invoice = i
          /\ ~ j.moved
      BY StepsAre DEF Idle, Job, Maybe
    <2>2. run' = [run EXCEPT ![t] = j]
      BY <1>1
    <2> HIDE DEF j
    <2> QED BY <1>3, <2>1, <2>2, RunSet DEF TypeOK
  <1>6. /\ \A u \in Tabs : ~ Holds(u)' /\ run[u].id # c /\ courier[u].id # c
        /\ \A d : ~ Publishes(d)
        /\ \A u \in Tabs : run[u].st \notin Proving /\ courier[u].st \notin Carrying
    <2>1. \A u \in Tabs : run'[u].st # "idle" => run'[u].id # None
      BY <1>1, <1>3, <1>5 DEF TypeOK
    <2> QED BY <1>1, <1>3, <1>4, <2>1, UnpaidRow DEF Holds, Fresh, InUse
  <1>7. Good(i)' /\ \A k \in Invoices : Good(k) => Good(k)'
    BY <1>1, <1>2, <1>3 DEF Good
  <1>8. Typed'
    BY <1>1, <1>2, <1>3, <1>4, <1>5, <1>6, <1>7 DEF Inv, Typed, TypeOK
  <1>9. Ids'
    BY <1>1, <1>2, <1>3, <1>4, <1>5, <1>6, <1>7 DEF Inv, Owned, Ids, Acts
  <1>10. PaidFirst'
    BY <1>1, <1>2, <1>3, <1>4, <1>5, <1>6, <1>7 DEF Inv, Owned, PaidFirst, Proving, Carrying
  <1>11. PaidClaim'
    BY <1>1, <1>2, <1>3, <1>4, <1>5, <1>6, <1>7 DEF Inv, Owned, PaidClaim, Holds, Proving,
      Carrying
  <1>12. Authority'
    BY <1>1, <1>2, <1>3, <1>4, <1>5, <1>6, <1>7 DEF Inv, Owned, Authority, Replaced, Holds,
      Early, Ready, Called
  <1>13. Known'
    BY <1>1, <1>2, <1>3, <1>4, <1>5, <1>6, <1>7 DEF Inv, Known, RowKnown, WalletKnown,
      RunKnown, CourierKnown, Good, Ready, Called, Proving, Carrying
  <1>14. Money'
    BY <1>1, <1>2, <1>3, <1>4, <1>5, <1>6, <1>7 DEF Inv, Money, Live, Open, Approved, Holds
  <1>15. Evidence'
    BY <1>1, <1>2, <1>3, <1>4, <1>5, <1>6, <1>7 DEF Inv, Evidence
  <1>16. Proofs'
    BY <1>1, <1>2, <1>3, <1>4, <1>5, <1>6, <1>7 DEF Inv, Proofs, Good
  <1>17. Scans'
    BY <1>1, <1>2, <1>3, <1>4, <1>5, <1>6, <1>7 DEF Inv, Scans, Holds, Early
  <1>18. Leases'
    <2>1. \A d \in Claims : Publishes(d)' => d = c
      <3>1. \A u \in Tabs : courier'[u] = courier[u]
        BY <1>2
      <3> QED BY <1>5, <1>6, <3>1 DEF Publishes
    <2> QED BY <1>4, <2>1 DEF Leases, PaymentAssumption
  <1> QED BY <1>8, <1>9, <1>10, <1>11, <1>12, <1>13, <1>14, <1>15, <1>16, <1>17, <1>18 DEF
    Inv, Owned

\* The row of a new claim.
LEMMA ClaimedType ==
  ASSUME NEW r \in Row, NEW c \in Claims PROVE Claimed(r, c) \in Row
  <1> DEFINE w == WithProof(r, "not_started")
  <1>1. w \in Row
    BY WithProofType DEF ProofStatus
  <1>2. /\ c \in Maybe(Claims) /\ None \in Maybe(Invoices) /\ None \in Maybe(Zaps)
        /\ Claimed(r, c) = [w EXCEPT !.claim = c, !.live = TRUE, !.inv = "requesting",
                                     !.pay = "not_started", !.receipt = "na",
                                     !.invoice = None, !.proved = FALSE, !.zap = None]
    BY Zenon DEF Claimed, Maybe
  <1> HIDE DEF w
  <1>3. PICK u : u = [w EXCEPT !.claim = c, !.live = TRUE, !.inv = "requesting",
                               !.pay = "not_started"]
    OBVIOUS
  <1>4. u \in Row
    BY <1>1, <1>2, <1>3 DEF Row
  <1>5. PICK v : v = [u EXCEPT !.receipt = "na", !.invoice = None, !.zap = None]
    OBVIOUS
  <1>6. v \in Row
    BY <1>2, <1>4, <1>5 DEF Row
  <1>7. Claimed(r, c) = [v EXCEPT !.proved = FALSE]
    BY <1>2, <1>3, <1>5
  <1> QED BY <1>6, <1>7 DEF Row

\* The fields a claim leaves and the ones it writes.
LEMMA ClaimedIs ==
  ASSUME NEW r \in Row, NEW c \in Claims
  PROVE  LET s == Claimed(r, c) IN
         /\ s.pay = "not_started" /\ s.inv = "requesting"
         /\ s.proof = "not_started" /\ s.claim = c /\ s.live
         /\ s.pclaim = None /\ ~ s.plive /\ s.invoice = None
         /\ ~ s.proved /\ s.zap = None /\ s.receipt = "na"
         /\ s.public = r.public /\ s.prior = r.prior /\ s.target = r.target
  <1> DEFINE w == WithProof(r, "not_started")
  <1>1. w \in Row
    BY WithProofType DEF ProofStatus
  <1>2. /\ w.proof = "not_started" /\ w.pclaim = None /\ ~ w.plive
        /\ w.public = r.public /\ w.prior = r.prior /\ w.target = r.target
    BY WithProofIs DEF ProofStatus
  <1>3. Claimed(r, c) = [w EXCEPT !.claim = c, !.live = TRUE, !.inv = "requesting",
                                  !.pay = "not_started", !.receipt = "na",
                                  !.invoice = None, !.proved = FALSE, !.zap = None]
    BY Zenon DEF Claimed
  <1> HIDE DEF w
  <1> QED BY <1>1, <1>2, <1>3 DEF Row

\* A claim on an unpaid row by which no money can go.
LEMMA BeginInv ==
  ASSUME PaymentAssumption, Inv, NEW t \in Tabs, run[t].st = "idle", row.claim = None,
         row.pay \in {"not_started", "failed", "manual_required"},
         \A i \in Invoices : ~ Live(i),
         NEW c \in Claims, Fresh(c), NEW r \in Row, Begin(t, c, r),
         r.pay = "not_started", r.proof = "not_started", r.claim = c, r.live,
         r.pclaim = None, r.invoice = None, ~ r.proved, r.zap = None,
         r.receipt = "na",
         IsFiniteSet(r.prior), Cardinality(r.prior) <= MaxPrior,
         \/ r.prior = row.prior
         \/ r.prior = row.prior \cup {row.invoice} /\ row.invoice \in shown /\ ~ row.public,
         row.pay = "manual_required" => row.invoice \in r.prior
  PROVE  Inv'
  <1>1. /\ TypeOK /\ row \in Row /\ row' = r /\ slept' = slept \ {c} /\ c # None
        /\ UNCHANGED <<attempt, courier, closes, wallet, asked, shown, reported, expired,
                       published>>
    BY DEF Inv, Typed, TypeOK, Begin, worldVars, PaymentAssumption
  <1>2. /\ run' \in [Tabs -> Job(RunSteps)] /\ \A u \in Tabs \ {t} : run'[u] = run[u]
        /\ run'[t].st = "claimed" /\ run'[t].id = c /\ run'[t].before = row
    <2> DEFINE j == [Idle EXCEPT !.st = "claimed", !.id = c, !.before = row]
    <2>1. j \in Job(RunSteps) /\ j.st = "claimed" /\ j.id = c /\ j.before = row
      BY <1>1, StepsAre DEF Idle, Job, Maybe
    <2>2. run' = [run EXCEPT ![t] = j]
      BY DEF Begin
    <2> HIDE DEF j
    <2> QED BY <1>1, <2>1, <2>2, RunSet DEF TypeOK
  <1>3. /\ \A u \in Tabs : run[u].id # c /\ courier[u].id # c
        /\ \A u \in Tabs \ {t} : ~ Holds(u)'
    <2>1. \A u \in Tabs : run[u].id # c /\ courier[u].id # c
      BY DEF Fresh, InUse
    <2> QED BY <1>1, <1>2, <2>1 DEF Holds
  <1>4. /\ \A u \in Tabs : run[u].st \notin Proving /\ courier[u].st \notin Carrying
        /\ \A u \in Tabs : run[u].st # "approved"
        /\ \A d : ~ Publishes(d)
    <2>1. ASSUME NEW u \in Tabs, run[u].st = "approved" PROVE FALSE
      <3>1. RunKnown(u) /\ run[u] \in Job(RunSteps)
        BY <1>1 DEF Inv, Known, TypeOK
      <3> QED BY <2>1, <3>1 DEF RunKnown, Ready, Job, Maybe, Live, Approved
    <2> QED BY <2>1, UnpaidRow
  <1>5. Replaced(row) /\ (row.invoice \in r.prior => ~ row.public)
    <2>1. /\ row.proof = "not_started" /\ ~ row.proved /\ row.receipt # "observed"
      BY UnpaidRow
    <2>2. row.invoice \in row.prior => ~ row.public
      BY DEF Inv, Scans
    <2> QED BY <1>1, <2>1, <2>2 DEF Replaced, Inv, Known, RowKnown
  <1>6. Typed'
    BY <1>1, <1>2, <1>3, <1>4, <1>5 DEF Inv, Typed, TypeOK
  <1>7. Ids'
    BY <1>1, <1>2, <1>3, <1>4, <1>5 DEF Inv, Owned, Ids, Acts
  <1>8. PaidFirst'
    BY <1>1, <1>2, <1>3, <1>4, <1>5 DEF Inv, Owned, PaidFirst, Proving, Carrying
  <1>9. PaidClaim'
    BY <1>1, <1>2, <1>3, <1>4, <1>5 DEF Inv, Owned, PaidClaim, Holds, Proving, Carrying
  <1>10. Authority'
    BY <1>1, <1>2, <1>3, <1>4, <1>5 DEF Inv, Owned, Authority, Replaced, Holds, Early,
      Ready, Called
  <1>11. Known'
    BY <1>1, <1>2, <1>3, <1>4, <1>5 DEF Inv, Known, RowKnown, WalletKnown, RunKnown,
      CourierKnown, Good, Ready, Called, Proving, Carrying
  <1>12. Money'
    BY <1>1, <1>2, <1>3, <1>4, <1>5 DEF Inv, Money, Live, Open, Approved, Holds, Known,
      Typed, TypeOK
  <1>13. Evidence'
    BY <1>1, <1>2, <1>3, <1>4, <1>5 DEF Inv, Evidence
  <1>14. Proofs'
    BY <1>1, <1>2, <1>3, <1>4, <1>5 DEF Inv, Proofs, Good
  <1>15. Scans'
    <2>1. row'.invoice = None /\ row'.pay # "paid" /\ row'.prior = r.prior
      BY <1>1
    <2>2. row'.invoice \notin row'.prior
      BY <1>1, <2>1 DEF PaymentAssumption, TypeOK, Row
    <2>3. ASSUME NEW u \in Tabs, courier[u].st = "scanning"
          PROVE  /\ courier[u].invoice # None /\ courier[u].zap # None
                 /\ courier[u].id = None /\ wallet[courier[u].invoice] # "unknown"
                 /\ courier[u].invoice \notin r.prior
                 /\ row.invoice = courier[u].invoice => row.public
      BY <2>3 DEF Inv, Scans
    <2>4. ASSUME NEW u \in Tabs, run'[u].st \in Early, Holds(u)'
          PROVE  run'[u].before = row
      BY <1>2, <1>3, <2>4
    <2> QED BY <1>1, <2>1, <2>2, <2>3, <2>4 DEF Scans
  <1>16. Leases'
    <2>1. \A d \in Claims : ~ Publishes(d)'
      <3>1. \A u \in Tabs : courier'[u] = courier[u]
        BY <1>1
      <3> QED BY <1>2, <1>4, <3>1 DEF Publishes
    <2> QED BY <1>1, <2>1 DEF Leases
  <1> QED BY <1>6, <1>7, <1>8, <1>9, <1>10, <1>11, <1>12, <1>13, <1>14, <1>15, <1>16 DEF
    Inv, Owned

\* Claiming an order that has not started, or failed.
LEMMA StartInv ==
  ASSUME PaymentAssumption, Inv, NEW t \in Tabs, Start(t) PROVE Inv'
  <1>0. row \in Row
    BY DEF Inv, Typed, TypeOK
  <1>1. /\ run[t].st = "idle" /\ row.claim = None /\ row.pay \in {"not_started", "failed"}
        /\ row \in Row /\ IsFiniteSet(row.prior) /\ Cardinality(row.prior) <= MaxPrior
    BY DEF Start, CanStart, Inv, Typed, TypeOK
  <1>2. \A i \in Invoices : ~ Live(i)
    BY <1>1 DEF Inv, Money
  <1>3. PICK c \in Claims : Fresh(c) /\ Begin(t, c, Claimed(row, c))
    BY DEF Start
  <1>4. PICK r \in Row : r = Claimed(row, c)
    BY <1>0, ClaimedType, Zenon
  <1>f. /\ r.pay = "not_started" /\ r.proof = "not_started" /\ r.claim = c /\ r.live
        /\ r.pclaim = None /\ r.invoice = None /\ ~ r.proved /\ r.zap = None
        /\ r.receipt = "na" /\ r.prior = row.prior
    BY <1>0, <1>4, ClaimedIs
  <1>5. Begin(t, c, r)
    BY <1>3, <1>4
  <1> QED BY <1>1, <1>2, <1>3, <1>5, <1>f, BeginInv

\* A failed zap is paid in private: no invoice is live.
LEMMA FallBackPrivatelyInv ==
  ASSUME PaymentAssumption, Inv, NEW t \in Tabs, FallBackPrivately(t) PROVE Inv'
  <1>0. row \in Row
    BY DEF Inv, Typed, TypeOK
  <1>1. /\ run[t].st = "idle" /\ row.claim = None /\ row.pay = "failed"
        /\ row \in Row /\ IsFiniteSet(row.prior) /\ Cardinality(row.prior) <= MaxPrior
    BY DEF FallBackPrivately, Inv, Typed, TypeOK
  <1>2. \A i \in Invoices : ~ Live(i)
    BY <1>1 DEF Inv, Money
  <1>3. PICK c \in Claims :
          Fresh(c) /\ Begin(t, c, [Claimed(row, c) EXCEPT !.public = FALSE])
    BY DEF FallBackPrivately
  <1>4. PICK s \in Row : s = Claimed(row, c)
    BY <1>0, ClaimedType, Zenon
  <1>f. /\ s.pay = "not_started" /\ s.proof = "not_started" /\ s.claim = c /\ s.live
        /\ s.pclaim = None /\ s.invoice = None /\ ~ s.proved /\ s.zap = None
        /\ s.receipt = "na" /\ s.prior = row.prior
    BY <1>0, <1>4, ClaimedIs
  <1>5. PICK r \in Row : r = [s EXCEPT !.public = FALSE]
    BY DEF Row
  <1>6. /\ r.pay = s.pay /\ r.proof = s.proof /\ r.claim = s.claim /\ r.live = s.live
        /\ r.pclaim = s.pclaim /\ r.invoice = s.invoice /\ r.proved = s.proved
        /\ r.zap = s.zap /\ r.receipt = s.receipt /\ r.prior = s.prior
    BY <1>5 DEF Row
  <1>7. Begin(t, c, r)
    BY <1>3, <1>4, <1>5
  <1> QED BY <1>1, <1>2, <1>3, <1>6, <1>7, <1>f, BeginInv

\* Renewing an expired invoice: no money can go by it any more, and it is kept.
LEMMA RenewInv ==
  ASSUME PaymentAssumption, Inv, NEW t \in Tabs, Renew(t) PROVE Inv'
  <1>0. row \in Row
    BY DEF Inv, Typed, TypeOK
  <1>1. /\ run[t].st = "idle" /\ row.claim = None /\ row.pay = "manual_required"
        /\ ~ row.public /\ row.invoice \in expired /\ row.invoice \in shown
        /\ row.invoice \in row.prior \/ Cardinality(row.prior) < MaxPrior
        /\ row \in Row /\ IsFiniteSet(row.prior) /\ Cardinality(row.prior) <= MaxPrior
    BY DEF Renew, Renewable, Inv, Typed, TypeOK, Known, RowKnown
  <1>2. ASSUME NEW i \in Invoices, Live(i) PROVE FALSE
    <2>1. i = row.invoice
      BY <1>1, <1>2 DEF Inv, Money
    <2>2. ~ Open(i)
      BY <1>1, <2>1 DEF Open, Inv, Known, WalletKnown
    <2>3. ~ Approved(i)
      <3>1. \A u \in Tabs : run[u].st # "approved"
        BY <1>1 DEF Inv, Money
      <3>2. \A u \in Tabs : ~ Holds(u)
        BY <1>1 DEF Holds, Inv, Typed, TypeOK
      <3> QED BY <3>1, <3>2 DEF Approved
    <2> QED BY <1>2, <2>2, <2>3 DEF Live
  <1>3. PICK c \in Claims :
          /\ Fresh(c)
          /\ Begin(t, c, [Claimed(row, c) EXCEPT !.prior = @ \cup {row.invoice}])
    BY DEF Renew
  <1>4. PICK s \in Row : s = Claimed(row, c)
    BY <1>0, ClaimedType, Zenon
  <1>f. /\ s.pay = "not_started" /\ s.proof = "not_started" /\ s.claim = c /\ s.live
        /\ s.pclaim = None /\ s.invoice = None /\ ~ s.proved /\ s.zap = None
        /\ s.receipt = "na" /\ s.prior = row.prior
    BY <1>0, <1>4, ClaimedIs
  <1>5. row.invoice \in Invoices /\ s.prior \cup {row.invoice} \in SUBSET Invoices
    BY <1>1, <1>4 DEF Row, Inv, Typed, TypeOK
  <1>6. PICK r \in Row : r = [s EXCEPT !.prior = s.prior \cup {row.invoice}]
    BY <1>5 DEF Row
  <1>7. /\ r.pay = s.pay /\ r.proof = s.proof /\ r.claim = s.claim /\ r.live = s.live
        /\ r.pclaim = s.pclaim /\ r.invoice = s.invoice /\ r.proved = s.proved
        /\ r.zap = s.zap /\ r.receipt = s.receipt
        /\ r.prior = row.prior \cup {row.invoice}
    BY <1>6, <1>f DEF Row
  <1>8. Begin(t, c, r)
    BY <1>3, <1>4, <1>6
  <1>9. IsFiniteSet(r.prior) /\ Cardinality(r.prior) <= MaxPrior
    <2> DEFINE S == row.prior
    <2>1. Cardinality(S) \in Nat /\ MaxPrior \in Nat
      BY <1>1, FS_CardinalityType DEF PaymentAssumption
    <2>2. CASE row.invoice \in S
      <3>1. r.prior = S
        BY <1>7, <2>2
      <3> QED BY <1>1, <3>1
    <2>3. CASE row.invoice \notin S
      <3>1. IsFiniteSet(S)
        BY <1>1
      <3>2. IsFiniteSet(S \cup {row.invoice})
            /\ Cardinality(S \cup {row.invoice}) = Cardinality(S) + 1
        BY <2>3, <3>1, FS_AddElement
      <3>3. Cardinality(S) + 1 <= MaxPrior
        BY <1>1, <2>1, <2>3
      <3> QED BY <1>7, <3>2, <3>3
    <2> QED BY <2>2, <2>3
  <1> QED BY <1>1, <1>2, <1>3, <1>7, <1>8, <1>9, <1>f, BeginInv

-----------------------------------------------------------------------------
(* Every step, and every reachable state.                                  *)

\* A step that changes nothing.
LEMMA StutterInv == ASSUME PaymentAssumption, Inv, UNCHANGED vars PROVE Inv'
  <1>1. TypeOK
    BY DEF Inv, Typed
  <1>2. /\ row' = row /\ attempt' = attempt /\ run' = run /\ courier' = courier
        /\ slept' = slept /\ closes' = closes /\ UNCHANGED worldVars
    BY DEF vars, worldVars
  <1>3. \A t \in Tabs : run'[t] \in {run[t], Idle} /\ courier'[t] \in {courier[t], Idle}
    BY <1>2
  <1> QED BY <1>1, <1>2, <1>3, Rests DEF TypeOK

\* A tab's steps, one of its handlers at a time.
LEMMA TabInv ==
  ASSUME PaymentAssumption, Inv, NEW t \in Tabs,
         \/ Pay(t) \/ Continue(t) \/ Carry(t) \/ Recover(t)
         \/ ZapFallsBack(t) \/ Scan(t) \/ ClaimProof(t) \/ Heartbeat(t) \/ Close(t)
  PROVE  Inv'
  <1>1. CASE Pay(t)
    BY <1>1, StartInv, RenewInv, FallBackPrivatelyInv, ReportInv DEF Pay
  <1>2. CASE Continue(t)
    BY <1>2, VetoInv, SupersededInv, RequestInvoiceInv, InvoiceArrivesInv, InvoiceFailsInv,
      ShowInvoiceInv, ApproveInv, CallWalletInv, HearInv, RecordRefusalInv,
      RecordAmbiguityInv, SaveAttemptInv, RecordPaidInv, RecoverSuccessInv, PublishInv,
      NotePublishedInv, EndRunInv DEF Continue
  <1>3. CASE Carry(t)
    BY <1>3, ReceiptFoundInv, SaveReceiptInv, ReceiptTimeoutInv, ScanEndsInv, CarryProofInv,
      NoteCarriedInv, EndCarryInv DEF Carry
  <1>4. CASE Recover(t)
    BY <1>4, ReconcilePaymentInv, ReconcileProofInv DEF Recover
  <1>5. CASE ZapFallsBack(t) \/ Scan(t) \/ ClaimProof(t) \/ Heartbeat(t) \/ Close(t)
    BY <1>5, ZapFallsBackInv, ScanInv, ClaimProofInv, HeartbeatInv, CloseInv
  <1> QED BY <1>1, <1>2, <1>3, <1>4, <1>5

\* Every step keeps the invariant,
LEMMA NextInv == ASSUME PaymentAssumption, Inv, Next PROVE Inv'
  BY TabInv, SettleInv, ExpireInv, ChooseTargetInv, LeaseLapsesInv DEF Next

\* and every reachable state has it.
LEMMA AlwaysInv == ASSUME PaymentAssumption PROVE Spec => []Inv
  <1>1. Init => Inv
    BY InitInv
  <1>2. Inv /\ [Next]_vars => Inv'
    BY NextInv, StutterInv
  <1> QED BY <1>1, <1>2, PTL DEF Spec

-----------------------------------------------------------------------------
(* What holds of the payment of every order.                               *)

\* Whatever tabs freeze, close, recover and retry: at most one invoice is in the hands
\* of a wallet or payable by the buyer, and while a wallet may have paid the order is
\* never offered for a retry (startOrderPayment, recoverInterruptedOrderPayments).
THEOREM OrderPaidOnce == ASSUME PaymentAssumption PROVE Spec => []PaidOnce
  <1>1. Inv => PaidOnce
    <2> SUFFICES ASSUME Inv PROVE PaidOnce
      OBVIOUS
    <2>1. OnePayment
      <3> DEFINE S == {i \in Invoices : Open(i)}
      <3>1. \A i, j \in S : i = j
        BY DEF Inv, Money, Live
      <3>2. CASE S = {}
        BY <3>2, FS_EmptySet DEF OnePayment
      <3>3. CASE \E i \in S : S = {i}
        <4>1. PICK i \in S : S = {i}
          BY <3>3
        <4>2. Cardinality(S) = 1
          BY <4>1, FS_Singleton
        <4> QED BY <4>2 DEF OnePayment
      <3> QED BY <3>1, <3>2, <3>3
    <2>2. NeverRetriedAfterSend
      BY DEF Inv, Money, NeverRetriedAfterSend
    <2> QED BY <2>1, <2>2 DEF PaidOnce, Inv, Typed
  <1> QED BY <1>1, AlwaysInv, PTL

\* What the row calls paid and what the merchant was told was paid; an invoice shown to
\* the buyer is never forgotten before; and two tabs publish the proof at once only if
\* one of them missed its lease (recordOrderPaymentProofDelivery, the claims of proof).
THEOREM ProofsTrue == ASSUME PaymentAssumption PROVE Spec => []TrueProofs
  <1>1. Inv => TrueProofs
    <2> SUFFICES ASSUME Inv PROVE TrueProofs
      OBVIOUS
    <2>1. ProofsAreTrue
      BY DEF Inv, Proofs, ProofsAreTrue, Good
    <2>2. EvidenceKept
      BY DEF Inv, Evidence, EvidenceKept
    <2>3. OnePublisher
      <3>1. ASSUME NEW t \in Tabs, run[t].st = "publishing"
            PROVE  run[t].id \in Claims /\ Publishes(run[t].id)
        <4>1. run[t] \in Job(RunSteps) /\ run[t].id # None
          BY <3>1 DEF Inv, Typed, TypeOK
        <4> QED BY <3>1, <4>1 DEF Job, Maybe, Publishes
      <3>2. ASSUME NEW t \in Tabs, courier[t].st = "publishing"
            PROVE  courier[t].id \in Claims /\ Publishes(courier[t].id)
        <4>1. courier[t] \in Job(CourierSteps)
          BY DEF Inv, Typed, TypeOK
        <4>2. courier[t].id # None
          BY <3>2 DEF Inv, Known, CourierKnown, Carrying
        <4> QED BY <3>2, <4>1, <4>2 DEF Job, Maybe, Publishes
      <3>3. \A c, d \in Claims : Publishes(c) /\ Publishes(d) /\ c # d
                                   => c \in slept \/ d \in slept
        BY DEF Inv, Leases
      <3> DEFINE jobs == {j \in {run[t] : t \in Tabs} \cup {courier[t] : t \in Tabs} :
                            j.st = "publishing"}
      <3>4. \A j \in jobs : j.id \in Claims /\ Publishes(j.id)
        BY <3>1, <3>2
      <3> HIDE DEF jobs
      <3>5. \A j, k \in jobs : j.id # k.id => j.id \in slept \/ k.id \in slept
        BY <3>3, <3>4
      <3> QED BY <3>5 DEF OnePublisher, jobs
    <2> QED BY <2>1, <2>2, <2>3 DEF TrueProofs
  <1> QED BY <1>1, AlwaysInv, PTL

-----------------------------------------------------------------------------
(* What a late writer may not take back.                                   *)

\* A step that leaves what is paid paid, and what is sent sent.
Forward == /\ row.pay = "paid" => row'.pay = "paid"
           /\ row.proof = "sent" => row'.proof = "sent"

\* Nothing is taken back of an unpaid order,
LEMMA UnpaidForward == ASSUME Inv, row.pay # "paid" PROVE Forward
  BY UnpaidRow DEF Forward

\* or by a step that leaves both statuses.
LEMMA SameForward == ASSUME row'.pay = row.pay, row'.proof = row.proof PROVE Forward
  BY DEF Forward

\* A run that still holds its claim writes before the order is paid, or to a paid order
\* whose proof was not sent.
LEMMA HolderForward ==
  ASSUME Inv, NEW t \in Tabs, Holds(t)
  PROVE  /\ run[t].st \in Early \cup {"calling", "refused", "ambiguous", "saved"}
              => row.pay # "paid"
         /\ row.proof # "sent"
  <1>1. row.claim # None
    BY DEF Holds, Inv, Typed, TypeOK
  <1>2. row.proof # "sent"
    <2>1. CASE row.pay = "paid"
      BY <1>1, <2>1 DEF Inv, Owned, PaidClaim
    <2>2. CASE row.pay # "paid"
      BY <2>2, UnpaidRow
    <2> QED BY <2>1, <2>2
  <1>3. run[t].st \in {"claimed", "requesting"} => row.pay # "paid"
    BY DEF Inv, Owned, Authority
  <1>4. run[t].st \in Called \cup Ready /\ run[t].st # "recovering" => row.pay # "paid"
    BY DEF Inv, Owned, Authority
  <1> QED BY <1>2, <1>3, <1>4 DEF Early, Called, Ready

\* Claims, reports and the steps of a run before its wallet has paid.
LEMMA UnpaidActs ==
  ASSUME Inv, NEW t \in Tabs,
         \/ Start(t) \/ Renew(t) \/ FallBackPrivately(t) \/ Report(t)
         \/ Veto(t) \/ RequestInvoice(t) \/ InvoiceArrives(t) \/ InvoiceFails(t)
         \/ ShowInvoice(t) \/ Approve(t) \/ RecordRefusal(t) \/ RecordAmbiguity(t)
  PROVE  Forward
  <1>1. CASE Start(t) \/ Renew(t) \/ FallBackPrivately(t) \/ Report(t)
    <2>1. CASE Start(t) \/ Renew(t) \/ FallBackPrivately(t)
      <3>1. row.pay # "paid"
        BY <2>1 DEF Start, Renew, FallBackPrivately, CanStart, Renewable
      <3> QED BY <3>1, UnpaidForward
    <2>2. CASE Report(t)
      <3>1. PICK i \in Invoices : Reportable(row, i)
        BY <2>2 DEF Report
      <3>2. row.pay # "paid"
        BY <3>1 DEF Reportable
      <3> QED BY <3>2, UnpaidForward
    <2> QED BY <1>1, <2>1, <2>2
  <1>2. CASE RequestInvoice(t) \/ ShowInvoice(t) \/ Approve(t)
    <2>1. row.pay # "paid"
      BY <1>2 DEF RequestInvoice, ShowInvoice, Approve, Fenced
    <2> QED BY <2>1, UnpaidForward
  <1>3. CASE \/ Veto(t) \/ InvoiceArrives(t) \/ InvoiceFails(t) \/ RecordRefusal(t)
             \/ RecordAmbiguity(t)
    <2>1. run[t].st \in Early \cup {"calling", "refused", "ambiguous", "saved"}
          /\ run[t].st # "idle"
      BY <1>3 DEF Veto, InvoiceArrives, InvoiceFails, RecordRefusal, RecordAmbiguity, Early
    <2>2. row' = row \/ row.claim = run[t].id
      BY <1>3 DEF Veto, InvoiceArrives, InvoiceFails, RecordRefusal, RecordAmbiguity, Patch,
        MayPatch
    <2> QED BY <2>1, <2>2, HolderForward, UnpaidForward, SameForward DEF Holds
  <1> QED BY <1>1, <1>2, <1>3

\* Steps that leave the row, or touch nothing of it but a lease or the zap it asked for.
LEMMA QuietActs ==
  ASSUME Inv, NEW t \in Tabs,
         \/ Superseded(t) \/ CallWallet(t) \/ Hear(t) \/ SaveAttempt(t) \/ Publish(t)
         \/ NotePublished(t) \/ SaveReceipt(t) \/ ScanEnds(t) \/ CarryProof(t)
         \/ NoteCarried(t) \/ Scan(t) \/ Close(t) \/ Heartbeat(t) \/ ZapFallsBack(t)
         \/ ClaimProof(t)
  PROVE  Forward
  <1>0. row \in Row
    BY DEF Inv, Typed, TypeOK
  <1>1. CASE \/ Superseded(t) \/ CallWallet(t) \/ Hear(t) \/ SaveAttempt(t) \/ Publish(t)
             \/ NotePublished(t) \/ SaveReceipt(t) \/ ScanEnds(t) \/ CarryProof(t)
             \/ NoteCarried(t) \/ Scan(t) \/ Close(t)
    <2>1. row' = row
      BY <1>1 DEF Superseded, CallWallet, Hear, SaveAttempt, Publish, NotePublished,
        SaveReceipt, ScanEnds, CarryProof, NoteCarried, Scan, Close, rowVars
    <2> QED BY <2>1, SameForward
  <1>2. CASE Heartbeat(t)
    <2>1. row' = [row EXCEPT !.live = TRUE] \/ row' = [row EXCEPT !.plive = TRUE]
      BY <1>2 DEF Heartbeat
    <2> QED BY <1>0, <2>1, SameForward DEF Row
  <1>3. CASE ZapFallsBack(t)
    <2>1. \/ row' = row
          \/ row' = [row EXCEPT !.public = FALSE, !.receipt = "na", !.zap = None,
                                !.live = TRUE]
      BY <1>3 DEF ZapFallsBack, Patch
    <2> QED BY <1>0, <2>1, SameForward DEF Row
  <1>4. CASE ClaimProof(t)
    <2>1. PICK c \in Claims : row' = HoldProof(row, c)
      BY <1>4 DEF ClaimProof
    <2>2. row'.pay = row.pay /\ row.proof # "sent"
      BY <1>0, <1>4, <2>1, HoldProofIs DEF ClaimProof
    <2> QED BY <2>2 DEF Forward
  <1> QED BY <1>1, <1>2, <1>3, <1>4

\* The outcome of a delivery, whoever records it.
LEMMA DeliveredForward ==
  ASSUME row \in Row, NEW q \in ProofStatus, NEW c, row' = Delivered(row, q, c)
  PROVE  Forward
  <1>1. CASE row' = row
    BY <1>1, SameForward
  <1>2. CASE row' = WithProof(row, q) /\ ~ (row.proof = "sent" /\ q # "sent")
    <2>1. PICK w \in Row : w = WithProof(row, q) /\ w.pay = row.pay /\ w.proof = q
      BY WithProofType, WithProofIs
    <2>2. row'.pay = row.pay /\ row'.proof = q
      BY <1>2, <2>1
    <2> QED BY <1>2, <2>2 DEF Forward
  <1> QED BY <1>1, <1>2 DEF Delivered

\* The ends of runs and couriers.
LEMMA EndsForward ==
  ASSUME Inv, NEW t \in Tabs,
         RecordPaid(t) \/ RecoverSuccess(t) \/ EndRun(t) \/ EndCarry(t)
  PROVE  Forward
  <1>0. row \in Row
    BY DEF Inv, Typed, TypeOK
  <1>1. CASE RecordPaid(t)
    <2>1. row' = row \/ (row.claim = run[t].id /\ run[t].st = "saved")
      BY <1>1 DEF RecordPaid, MayPatch
    <2> QED BY <2>1, HolderForward, UnpaidForward, SameForward DEF Holds
  <1>2. CASE RecoverSuccess(t)
    <2>1. PICK q \in ProofStatus : q = RecoveredProof(row, run[t])
      BY <1>0 DEF RecoveredProof, ProofStatus, Row
    <2>2. row.proof = "sent" => q = "sent"
      BY <2>1 DEF RecoveredProof
    <2>3. PICK s \in Row : s = Released(WithProof(row, q)) /\ s.proof = q
      BY <1>0, ReleasedProofType, ReleasedProofIs
    <2>4. \/ row' = row
          \/ row' = [s EXCEPT !.inv = "received", !.pay = "paid", !.proved = TRUE,
                              !.invoice = run[t].invoice, !.zap = run[t].zap]
      BY <1>2, <2>1, <2>3 DEF RecoverSuccess
    <2>5. row' = row \/ (row'.pay = "paid" /\ row'.proof = q)
      BY <2>3, <2>4 DEF Row
    <2> QED BY <2>2, <2>5, SameForward DEF Forward
  <1>3. CASE EndRun(t)
    <2> DEFINE q == run[t].result
    <2>1. q \in ProofStatus /\ run[t].st # "idle"
      <3>1. run[t].st = "noted"
        BY <1>3 DEF EndRun
      <3>2. q \in {"sent", "retry_needed"}
        BY <3>1 DEF Inv, Known, RunKnown
      <3> QED BY <3>1, <3>2 DEF ProofStatus
    <2>2. \/ row' = row
          \/ row.claim = run[t].id /\ row' = Released(WithProof(row, q))
          \/ row' = Delivered(row, q, run[t].id)
      BY <1>3 DEF EndRun, MayPatch
    <2>3. CASE row.claim = run[t].id /\ row' = Released(WithProof(row, q))
      <3>1. row.proof # "sent"
        BY <2>1, <2>3, HolderForward DEF Holds
      <3>2. row'.pay = row.pay
        BY <1>0, <2>1, <2>3, ReleasedProofIs
      <3> QED BY <3>1, <3>2 DEF Forward
    <2> QED BY <1>0, <2>1, <2>2, <2>3, SameForward, DeliveredForward
  <1>4. CASE EndCarry(t)
    <2>1. courier[t].result \in ProofStatus
      <3>1. courier[t].st = "noted"
        BY <1>4 DEF EndCarry
      <3>2. courier[t].result \in {"sent", "retry_needed"}
        BY <3>1 DEF Inv, Known, CourierKnown
      <3> QED BY <3>2 DEF ProofStatus
    <2>2. row' = row \/ row' = Delivered(row, courier[t].result, courier[t].id)
      BY <1>4 DEF EndCarry
    <2> QED BY <1>0, <2>1, <2>2, SameForward, DeliveredForward
  <1> QED BY <1>1, <1>2, <1>3, <1>4

\* A paid order that is still claimed is only completed.
LEMMA ReconciledKeeps ==
  ASSUME Inv, NEW t \in Tabs, ReconcilePayment(t)
  PROVE  /\ row.claim # None /\ row' = Reconciled(row, attempt)
         /\ row.pay = "paid" => row.proof = "pending" /\ row'.pay = "paid"
  <1>1. row \in Row /\ row.claim # None /\ row' = Reconciled(row, attempt)
    BY DEF ReconcilePayment, Inv, Typed, TypeOK
  <1>2. ASSUME row.pay = "paid" PROVE row.proof = "pending" /\ row'.pay = "paid"
    <2>1. row.proof = "pending"
      BY <1>1, <1>2 DEF Inv, Owned, PaidClaim
    <2>2. attempt.proved \in BOOLEAN
      BY DEF Inv, Typed, TypeOK, Attempt
    <2>3. CASE AttemptProves(attempt, row)
      <3>1. PICK q \in ProofStatus :
              q = IF attempt.proof = "sent" THEN "sent" ELSE "retry_needed"
        BY DEF ProofStatus
      <3>2. PICK s \in Row : s = Released(WithProof(row, q))
        BY <1>1, ReleasedProofType, Zenon
      <3>3. PICK x : row' = [s EXCEPT !.inv = "received", !.pay = "paid",
                               !.proved = attempt.proved, !.receipt = x]
        BY <1>1, <2>3, <3>1, <3>2 DEF Reconciled
      <3> QED BY <2>1, <3>2, <3>3 DEF Row
    <2>4. CASE /\ ~ AttemptProves(attempt, row)
               /\ row.invoice # None /\ (row.proved \/ ReceiptKnown(row))
      <3>1. PICK q \in ProofStatus : q = IF row.proof = "sent" THEN "sent" ELSE "retry_needed"
        BY DEF ProofStatus
      <3>2. PICK s \in Row : s = Released(WithProof(row, q))
        BY <1>1, ReleasedProofType, Zenon
      <3>3. row' = [s EXCEPT !.inv = "received", !.pay = "paid"]
        BY <1>1, <2>4, <3>1, <3>2 DEF Reconciled
      <3> QED BY <2>1, <3>2, <3>3 DEF Row
    <2>5. CASE /\ ~ AttemptProves(attempt, row)
               /\ ~ (row.invoice # None /\ (row.proved \/ ReceiptKnown(row)))
      <3>1. row' = row
        BY <1>1, <1>2, <2>5 DEF Reconciled
      <3> QED BY <1>2, <2>1, <3>1
    <2> QED BY <2>3, <2>4, <2>5
  <1> QED BY <1>1, <1>2

\* The search for a receipt, and recovery.
LEMMA RecoverForward ==
  ASSUME Inv, NEW t \in Tabs,
         \/ ReceiptFound(t) \/ ReceiptTimeout(t) \/ ReconcilePayment(t)
         \/ ReconcileProof(t)
  PROVE  Forward
  <1>0. row \in Row
    BY DEF Inv, Typed, TypeOK
  <1>1. CASE ReceiptFound(t)
    <2>1. PICK c \in Maybe(Claims) : row' = row \/ row' = Observed(row, c)
      BY <1>1 DEF ReceiptFound
    <2>2. ASSUME row' = Observed(row, c) PROVE row'.pay = "paid"
      <3> DEFINE busy == row.proof = "pending" /\ row.pclaim # None /\ row.plive
                 take == row.proof # "sent" /\ c # None /\ ~ busy
                 told == IF row.proof = "sent" THEN row
                         ELSE IF take THEN HoldProof(row, c)
                         ELSE IF busy THEN row ELSE WithProof(row, "retry_needed")
      <3>1. told \in Row
        BY <1>0, HoldProofType, HoldProofIs, WithProofType, WithProofIs DEF Maybe, ProofStatus
      <3>2. row' = [Released(told) EXCEPT !.inv = "received", !.pay = "paid",
                                          !.receipt = "observed"]
        BY <2>2, Zenon DEF Observed
      <3> HIDE DEF told
      <3>3. PICK s \in Row : s = Released(told)
        BY <3>1, ReleasedType, Zenon
      <3> QED BY <3>2, <3>3 DEF Row
    <2>3. ASSUME row' = Observed(row, c), row.proof = "sent" PROVE row'.proof = "sent"
      <3>1. PICK s \in Row : s = Released(row) /\ s.proof = row.proof
        BY <1>0, ReleasedType, ReleasedIs
      <3>2. row' = [s EXCEPT !.inv = "received", !.pay = "paid", !.receipt = "observed"]
        BY <2>3, <3>1 DEF Observed
      <3> QED BY <2>3, <3>1, <3>2 DEF Row
    <2> QED BY <2>1, <2>2, <2>3, SameForward DEF Forward
  <1>2. CASE ReceiptTimeout(t)
    <2>1. PICK p : /\ p = IF row.pay = "paid" THEN row.pay ELSE "ambiguous"
                   /\ row' = row \/ row' = [row EXCEPT !.receipt = "missed", !.pay = p]
      BY <1>2 DEF ReceiptTimeout
    <2>2. row.pay = "paid" => p = "paid"
      BY <2>1
    <2>3. row' = row \/ (row'.pay = p /\ row'.proof = row.proof)
      BY <1>0, <2>1 DEF Row
    <2> QED BY <2>2, <2>3, SameForward DEF Forward
  <1>3. CASE ReconcilePayment(t)
    <2>1. /\ row.claim # None /\ row' = Reconciled(row, attempt)
          /\ row.pay = "paid" => row.proof = "pending" /\ row'.pay = "paid"
      BY <1>3, ReconciledKeeps
    <2> QED BY <2>1, UnpaidForward DEF Forward
  <1>4. CASE ReconcileProof(t)
    <2>1. PICK q \in ProofStatus : row' = Released(WithProof(row, q))
      BY <1>4 DEF ReconcileProof, ProofStatus
    <2>2. PICK s \in Row : s = Released(WithProof(row, q)) /\ s.pay = row.pay
      BY <1>0, ReleasedProofType, ReleasedProofIs
    <2>3. row'.pay = row.pay /\ row.proof # "sent"
      BY <1>4, <2>1, <2>2 DEF ReconcileProof
    <2> QED BY <2>3 DEF Forward
  <1> QED BY <1>1, <1>2, <1>3, <1>4

\* ChooseTarget is for an order that may start; a lapse takes no status.
LEMMA WorldForward ==
  ASSUME Inv, ChooseTarget \/ LeaseLapses \/ \E i \in Invoices : Settle(i) \/ Expire(i)
  PROVE  Forward
  <1>0. row \in Row
    BY DEF Inv, Typed, TypeOK
  <1>1. CASE ChooseTarget
    <2>1. row.pay # "paid"
      BY <1>1 DEF ChooseTarget, CanStart
    <2> QED BY <2>1, UnpaidForward
  <1>2. CASE LeaseLapses
    <2>1. row' = [row EXCEPT !.live = FALSE] \/ row' = [row EXCEPT !.plive = FALSE]
      BY <1>2 DEF LeaseLapses
    <2> QED BY <1>0, <2>1, SameForward DEF Row
  <1>3. CASE \E i \in Invoices : Settle(i) \/ Expire(i)
    <2>1. row' = row
      BY <1>3 DEF Settle, Expire, rowVars
    <2> QED BY <2>1, SameForward
  <1> QED BY <1>1, <1>2, <1>3

\* No late owner, courier, receipt or recovery takes back a payment or a delivered proof
\* (the guards of patchOrderLifecycle and of recordOrderPaymentProofDelivery).
THEOREM OnlyForwardHolds == ASSUME PaymentAssumption PROVE Spec => OnlyForward
  <1>1. Inv /\ [Next]_vars => [/\ row.pay = "paid" => row'.pay = "paid"
                               /\ row.proof = "sent" => row'.proof = "sent"]_vars
    <2> SUFFICES ASSUME Inv, Next PROVE Forward
      BY DEF Forward
    <2>1. ASSUME NEW t \in Tabs,
                 \/ Pay(t) \/ Continue(t) \/ Carry(t) \/ Recover(t)
                 \/ ZapFallsBack(t) \/ Scan(t) \/ ClaimProof(t) \/ Heartbeat(t) \/ Close(t)
          PROVE  Forward
      BY <2>1, UnpaidActs, QuietActs, EndsForward, RecoverForward DEF Pay, Continue, Carry,
        Recover
    <2> QED BY <2>1, WorldForward DEF Next
  <1> QED BY <1>1, AlwaysInv, PTL DEF Spec, OnlyForward

=============================================================================
