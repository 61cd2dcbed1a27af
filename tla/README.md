# Conduit: TLA+ models

Conduit is a marketplace on Nostr. Shoppers, merchants and event organizers each
run a browser; relays carry signed and encrypted events between them; wallets and
Lightning providers move the money. There is no server that knows the state of an
order. What keeps a payout from leaving twice, an acknowledged message from being
forgotten or an entrusted unit from being sold twice is a row in each browser's
database, a lease or a Web Lock between its tabs, and the order of a few awaits.

This directory models the parts of the repository where that order decides, checks
them with TLC on small instances, and proves for every instance what the settled
checkout, its treasury, an order's payment, the two schedulers, the outboxes and the
wallets rest on, and that no inbox a sender may still write to is given up early. The rest is
listed with the reason it is left out.

## 1. Inventory

`PROJECT.json` lists every component with its sources. The ones with a state
machine of their own, `core` standing for `src/packages/core/src`:

| Component (sources) | State | Operations | Made correct by |
|---|---|---|---|
| settled record: `core/protocol/checkout-spark-settled-router.ts` | plan, credit, per leg a generation and its attempts | create, record credit, prepare, renew, record status, restore | a frozen intent is never replaced; evidence is monotone; what an operation saves can be restored |
| settled repository: `checkout-spark-settled-router-repository.ts` | one row per checkout | create, save (compare-and-swap), pre-provider retry, import, retire | rows only progress; a lost race writes nothing |
| financial workflow, outgoing step, preparation, advance, continuation, SDK send | what an invocation holds across awaits; live cancellations, in memory | attest, select, prepare, write ahead, send, record, cancel | the marker is durable before the call; a doubtful send is never repeated; authority by time |
| native treasury: `checkout-spark-treasury-finalization.ts` | a second record beside the legs | prepare, mark, send, reconcile, cancel, import | as the outgoing step, but the id of the transfer is only learnt afterwards |
| shopper runner: `src/apps/market/src/lib/checkout-spark-settled-shopper-runner.ts` | window, step budget, epoch, `activePlans` | run, pause, execute | one operation at a time, drained before the plan is free; it ends |
| funding: `checkout-spark-settled-funding.ts` in the same directory | the reservation in localStorage, a Web Lock per checkout | fund by a wallet, show the invoice, inspect, reconcile, take back a refusal | one wallet's call or one shown invoice, never both |
| merchant's scheduler: `checkout-spark-merchant-reconciliation-worker.ts` | one timer, entries with backoff, the work in flight | list, fire, settle, pause, stop and drain | one at a time; no wake-up is lost; an answer is for what was asked |
| merchant progress outbox: `checkout-spark-merchant-progress-delivery.ts`, `-repository.ts` | staged bytes per snapshot, acknowledged roles | stage, upgrade, publish, mark, retry | the same bytes every time; payment goes on only from what is readable |
| order payment: `order-lifecycle.ts`, `src/apps/market/src/lib/order-payment-*.ts` | lifecycle row, attempt row, leases | claim, request, fence, pay, prove, publish, renew, recover | one payment in doubt per order; proofs are true |
| private message delivery: `private-message-delivery.ts` | two delivery rows with claims | stage, hold, heartbeat, publish, record, retry | one ciphertext; no acknowledgement lost |
| account network mutation: `account-network-mutation.ts`, `inbox-declaration-evidence.ts` | retained declaration, pending delivery, cutovers, removals | review, sign, stage, deliver, read back, merge | an inbox is read until senders can know better |
| event-market stock: `event-market-stock-*.ts`, `merchant-inventory.ts` | allocation and hold; journal, label, handover | entrust, sell, hand out, move, recover, close, import, reconcile | the sales of a pool are one sequence, and the units come back once |
| Spark wallet sessions: `core/wallets/spark-wallet*.ts` | Web Locks, clients, registrations | open, validate, close, remove | one client per seed; no lock leaks |
| NWC migration: `wallet-migration.ts`, `nwc-retirement.ts` | localStorage key, registered wallets | register, verify, retire, compensate | a connection is never lost |

How they interact. The runner *calls* the funding, then it and the scheduler *call*
the workflow, the workflow *calls* the outgoing step and then the treasury step, and
these call the provider. Tabs of one browser *share* rows (compare-and-swap,
transactions, leases) and Web Locks, and nothing that is in memory. Browsers exchange
*messages*: signed snapshots, declarations, grants and closing records on relays,
which arrive late, out of order, repeatedly or never. Everything that is paid meets
at a provider whose answer may be lost.

What is hard, and what a unit test hardly reaches: two tabs between two awaits of
each other; two devices that both believe to have authority; a publication that is
stored but not acknowledged; a page that dies between marker and call, or between
call and answer; an owner whose heartbeat stopped but whose publication goes on; an
undo that runs after somebody else relied on what it undoes; a second change to
what a first one was reviewed against. `PROJECT.json` lists each hazard at its line
with the properties that cover it, or why none does.

## 2. Modules

    Payouts                abstract: how the money of a checkout's legs moves
      ^ implemented by
    SettledRouter <- SettledOutgoing        <- MCSettledOutgoing, MCPages
                            <- SettledOutgoingProofs
    ReconciliationWorker, ProgressOutbox,
    ShopperRunner, SettledFunding           <- MCPageLoops <- PageProofs
    NativeTreasury <- NativeTreasuryProofs  <- MCWallets
    NwcMigration                            <- MCWallets <- WalletProofs
    WalletSession                           <- MCWallets, MCProgress
    OrderPayment                            <- MCPayment, MCProgress, OrderPaymentProofs
    PrivateDelivery, InboxCutover           <- MCMessages <- MessageProofs
    EntrustedStock         abstract: one organizer, one seller, no network
      ^ implemented by
    StockHold <- StockWriter                <- MCProgress
                     <- StockProofs         <- MCStock <- MarketStockProofs

An `MC` module instantiates the modules to its left for TLC. Some put several
instances, which share no variable, in one run: the variable `part` says which one
moves, and the others stay where they are. Nothing is lost by it, since the parts
could not influence each other, and every property names the part it is about. The
theorems of such a run are about the composition itself: its `Spec` is split by
`part`, and each part cites the theorems of its component. `MCWallets` therefore
instantiates the module of the treasury's theorems, three times, and `MCStock` that
of the stock's, six times. `MCPageLoops` has the loops that pages run, the merchant's
scheduler and outbox, the shopper's runner and the funding it enters. `MCMessages` takes its constants from
the `cfg`, and two runs explore it: two tabs are one instance of the cutover, removals
and another client are another, and the theorems are about one instance with any
constants.

### The settled checkout

A shopper funds a *checkout wallet*, a Spark wallet made for this order. The
browser pays everybody who is owed a part out of it: the recipients of the plan,
one Lightning payout ("leg") each, then the Conduit fee, and the treasury gets the
rest. If the shopper's browser goes away, a merchant's takes over from snapshots
that the relays store.

**SettledRouter** translates `checkout-spark-settled-router.ts`:
`CreateReconciliation`, `RecordCredit`, `PrepareLeg`, `RenewLeg`,
`RecordLegStatus`, each with its `Can...`, the condition under which the code does
not throw; `Restorable`, what `restoreCheckoutSparkSettledReconciliation` demands;
and `RecoveryProgression`, the order
`assertCheckoutSparkSettledRecoveryProgression` demands of every save and every
import. It has no variables.

**SettledOutgoing** is the state machine: `db[d]` is the Dexie row of a device,
`job[t]` what the invocation in tab `t` holds across its awaits, `caps[t][l]` the
page's `CheckoutSparkPreProviderCancellationRegistry`, `relays` the stored
snapshots with the kind of author, `history` Spark's transfers by id, `wire`
requests between SDK and Spark, `now` real time (device `d` reads
`now + Skew[d]`), and `calls` counts sends (history). An invocation is cut where
the code awaits:

1. `StartShopper`, `StartContinuation`, `StartPreparation`, `StartInspection`: the
   entry points with their authority, lock and review checks. `ObserveCredit` is
   the credit's own save.
2. `AttestAgrees`, `AttestPaid`, `AttestAck`: every frozen leg is looked up at the
   provider before anything else.
3. `Select` or `SelectPreparation`, then `Prepare`, `PrepareExisting` or
   `RetainExisting`, then `PrepareAck`.
4. `Begin`, `Handoff`, `Observe`, `RecordObserved` or `WriteAhead`,
   `HandoffSubmitted`, `Recheck`, the SDK's `SendFindsHistory`, `SendRefused` or
   `CallProvider` with `SendReturns`, `SendAmbiguous`, `RecordSent`, `PaidAck`.
   `Cancel` and `RememberCancellation` take an admission back before the call.
5. `Abort` (a wait, a throw, a revoked session) ends an invocation at any await;
   `Crash` also loses the page's cancellations.

Around them: `Import`, `ProviderReceives`, `RequestLost`, `ProviderMoves`, `Tick`.

**Payouts** says of each leg's money `none -> pending -> paid | failed -> returned`;
legs leave in plan order, and a leg leaves a second time, once, after all its money
came back. `SettledOutgoing` implements it under the mapping at the end of that
module: the money of a leg is where the provider's last transfer of it is.

Abstractions: amounts, fees and reserves are a wait (`Abort`) or a refusal
(`SendRefused`). An invoice is identified by issuer and `preparedAt`; a transfer id
ignores the issuer, because `deriveCheckoutSparkSettledTransferId` does not hash the
invoice. A proof of return is its verdict (`FullyReturned`); the evidence that
`checkout-spark-settled-returned.ts` sums up is not modelled. A merchant's history
check of several legs is several invocations. `job[t].closed` replaces the signed
snapshot a continuation keeps. Relays never lose a snapshot and may be read at any
time or never. Spark takes a transfer id once; this is the one promise of the
service on which all rests, and the code relies on it in `spark-sdk.ts`
(`sendCheckoutLightningObligation`).

**NativeTreasury** is `runCheckoutSparkNativeTreasuryStep` and its two callers. It
differs from a leg in what makes it safe: the treasury's invoice names no transfer
in advance, so that "no history" proves nothing once a mark is stored, and only the
page whose call was certainly not made (`caps`) may try again. `db` has the
`treasuryFinalization` of each device (status, intent, reference, attempt), `late`
the devices past takeover, `admitted` wallet sessions that handed the invoice to
the SDK, `transfer` the provider's. Abstractions: `observedAt` of a submission is
the number of the attempt; commerce proofs and attribution are conditions that may
fail; that an invoice has one active fulfilment is the provider's promise
(external). Two devices may both call the SDK, and the code does not claim
otherwise, so `TreasuryCalledOnce` is per device.

**ShopperRunner** is `createCheckoutSparkSettledShopperRunner`, one per mount of the
page: `job[r]` the execution, `epoch[r]` its generation, `activePlans` shared, and
`flying` the operations the provider has. Which step the order allows, and what it
answers, is left open: every sequence has to be survived. The wall clock may stand
still while timers fire.

**SettledFunding** is `createCheckoutSparkSettledFundingBridge`, which the runner enters
once: how the invoice of the checkout wallet is put up for payment, through a wallet of
this browser (`Reserve`, `Publish`, `Answer`) or by showing it (`Expose`, `Disclose`).
`preparation` is the row in localStorage, which survives the page; `bridge[t]` is what
the run in tab `t` holds across its awaits, and the Web Lock lets one tab run at a
time (`Fund`). A run loads (`Load`), asks the provider for the credit (`Credited`,
`NotCredited`), and reserves before anything else can happen; only a refusal that came
before the wallet published (`Refused`, `Reset`) takes the reservation back. `Fails`
is every throw between two awaits, a session that is another, a closed page.
`payments`, `disclosed` and `received` are what happened outside. Abstractions: the
preparation is authorized when a run begins, as `loadAuthorized` demands; its creation,
its resumption and its removal after the checkout are not modelled; the shared lock of
the store is a save that succeeds or fails; the expiry check of `beforeSend` and the
publication behind it are one step; the rails (external) say "before publication" only
of what they did not publish, and publish at most once per call.

**ReconciliationWorker** is the merchant's scheduler, with times relative to now so
that no clock bound is needed; `ReplaceCandidates`, `SetActive`, `Fire`, `Settle`,
`Finally`, `StopAndDrain`, `Drained`, `Restart`. The merchant's page always runs it
with `observeBeforeTakeover`, which is what the run sets.

**ProgressOutbox** is the delivery of a merchant's snapshots by one invocation under
the recovery lock: `outbox` rows of both schemas (an older row has the merchant's
copy only), `wire`, `relays`, and `sent`, every ciphertext ever handed out. Its
actions follow the steps of `Job`: list, load, sign, stage, send per role, wait,
mark, answer. `LateArrival` delivers what was given up.

### Orders and messages

**OrderPayment** is one order's lifecycle row and payment attempt, shared by the
shopper's tabs. Each IndexedDB transaction is one action. `run[t]` and `courier[t]`
are what a tab holds across awaits; a lease is live until it lapses, which
(`LeaseLapses`) happens whenever its holder did not renew it in time, dead or
frozen. `wallet[i]` is what became of an invoice. Abstractions: claim ids are fresh
and come from a finite set; a wallet's answers are honest or missing; recovery may
read stale; the buyer's report of an outside payment is accepted for invoices the
buyer was shown, as the code does. Not modelled: the merchant's pay-later invoice,
a reopened proof, replacing a Lightning address, old row versions, pruning, and the
cancelled and completed phases.

**PrivateDelivery** is one message: its row for the recipient and the one for the
sender's own copy (`row`), one worker per call of `publishPrivateMessage` or retry
pass (`job`), tabs a browser froze (`frozen`), and what relays received (`copies`).
Recording outcomes is the code's optimistic read-modify-write with its retry limit.
Not modelled: the progressive first order of `order-relay-delivery.ts`, routing.

**InboxCutover** is the private-inbox half (kind 10050) of an account's network:
`db[d]` the retained evidence (current declaration, last usable one, pending
delivery, cutover records, exclusions), `job[t]` a tab's review, delivery or
discovery, `held` and `took` what relays serve and ever accepted, `owed` the inboxes
a device's changes replaced (history). Grace ends at any time after confirmation.
What discovery fetched is merged oldest first (`Sorted`, `MergedAll`), as
`reconcileInboxDeclarationEvidenceBatch` does in one transaction.
Abstractions: the relay list (kind 10002) and its order are left out; own read
relays are folded into `Own`; malformed events count as empty declarations, and so
does an account without one; the in-memory evidence cache is not modelled.

### Stock

**StockHold** is the seller's inventory: `Reserve`, the public and private
publications, `Import` of sales and `Reconcile` of a closed pool, ordinary trade.
**StockWriter** adds the organizer's devices: accepting and handing out orders,
closing a pool, preparing a target, capturing and publishing a handover, restoring
it, recovering closed history, and a browser that clears its tables. `label[d]` is
the localStorage label, `row[d]` the writer row, `journal[d]` the pools; `ledger`
and `released` are histories. **EntrustedStock** is what both promise: the units
entrusted are sold in one order, the seller learns of them in that order, and the
rest comes back once. `StockWriter` implements it with `sold` mapped to `ledger`.
Abstractions: one market, one assignment per product; signatures and admission are
guards that may fail; merchant checkpoints are left out; tables are cleared only on
a device whose label is confirmed, and not between the two halves of `Install`, whose
transaction asks for the writer's guard and not for the whole readiness again. Jobs of
an assignment are signed in order: `latest` says whether one is newer than the hold's
and only queued (the signer failed at it, `PublishReservation`: the grant is still
delivered) or signed (it is not).

### Wallets

**WalletSession** is opening, closing, quarantining and removing a wallet with its
Web Locks in several pages: `locks`, `client` (a page's record) and `connected` (the
SDK's truth), `op` the operation of a page. Checkout wallets are never registered
and skip the operation lock. A lock's release is assumed to succeed; the fallback of
browsers without Web Locks is not modelled.

**NwcMigration** is `migrateAccountNwcConnection`: register, read back, retire the
old copy, or take the new one back, by any number of attempts. `Spec` lets them
overlap, as the code does; `SerialSpec` adds that one attempt ends before the next
begins, and only there `NeverLost` holds. `MCWallets` has one instance and explores
both, as the parts `overlapping` and `single`.

## 3. Runs

| Run | Instances | Asks |
|---|---|---|
| `takeover` | 1 leg, a shopper's tab and a merchant's, `TakeoverAt` 1, life 2 | types, write-ahead, hand-off before the call, rows only progress |
| `overlap` | 2 legs, same tabs, the merchant's clock 1 ahead | both have authority at once: paid once, implements `Payouts` |
| `pages` | 1 leg, two tabs of the shopper's device without a lock, or two merchant devices after takeover | one call per device; two invoices for one leg: paid is proven |
| `renewal` | 2 legs, one merchant tab | return, renewal, second payment; nothing unloadable is saved |
| `payment` | `wallet`: two tabs; `zap`: a public zap, two tabs one at a time; `zap_tabs`: two tabs at once on one zapped invoice, none closed; `either`: by hand or by wallet, one tab at a time | one payment in doubt, true proofs, no late writer takes anything back |
| `stock` | `chain`: three devices; `loss`, `rescue`: cleared tables and recovered history; `regrant`, `basket`: trade beside the event; `writers`: two selling devices | no forks, nothing oversold, handed out once, implements `EntrustedStock` |
| `messages` | `cutover`: two tabs of a device; `attentive`, `freezing`: the delivery | inboxes are read, one ciphertext, one owner, nothing taken back |
| `removals` | `cutover`: one tab, two shared relays, removals, another client | inboxes are read |
| `page_loops` | scheduler with 2 checkouts; outbox with 3 snapshots of an event; two runners of one plan; two tabs that fund one checkout | one check at a time, in time, for the right candidate; one ciphertext; the scheduler and the outbox make progress; one operation at a time, the payer entered once; the invoice put up for payment once |
| `progress` | payment, stock, session, runner | what has to end ends |
| `wallets` | treasury `pages`, `merchants`, `takeover`; sessions `checkouts`, `shared`; migration `overlapping`, `single` | one call, known transfer kept; one session, nothing leaked; no connection lost with one attempt at a time |
| `migration_lost` | two attempts at once | expected to fail, see section 6 |

Why the bounds are enough:

- *Time* of the checkout has two instants, before and from takeover; lives of 1 and
  2 put the end of an invoice on takeover and beyond it, the two sides of every
  comparison. Scheduler, runner and leases have no clock to bound: times are
  relative, or a lease lapses at any moment. `Late` bounds how long ago a time is
  remembered to be due, which `LateAssumption` keeps beyond what the scheduler tells
  apart.
- *Revisions and snapshots*: 5 revisions complete a leg; `pages` has 7, for a
  cancellation and its retry; `renewal` has 10, which reach a renewed first leg that
  is paid and then the second. In the treasury 4 revisions complete it and 7 fit a
  retry, with 2 attempts. Devices fall silent at the bound, which is a lost
  publication.
- *Two* tabs, devices, runners, workers or attempts suffice for a race on one row,
  as every check compares two copies; two payments of a wallet (`MaxPayments`) are one
  more than is right. A handover may be followed by another, so
  `chain` has three devices.
- *Stock*: pools of one or two units, because a wrong count shows at the last unit;
  two orders, since a fork needs two continuations.
- *Payment*: three claims and two invoices fit a lapse, a takeover and a renewal;
  one closed tab at any place, because recovery does not tell two crashes apart. One
  tab at a time means that the other one only recovers and reads; that two act at once
  on a zap or on an order paid by hand is what the proof of section 7 covers.
- *Delivery*: two relays, one that answers and one that does not; two heartbeats per
  claim, since only their order to the lapse counts; two tries, of which one fails. In
  `freezing` no own copy is sent and nobody replays to a relay that acknowledged;
  `attentive` has both.
- *Cutover*: `messages` has times 1 to 3, two replacements after the first declaration;
  `removals` has times 1 and 2, one replacement against the other client's, and two
  relays, of which one may be removed, so that a delivery plan changes. An inbox that
  is only retained (read because the newest declaration names none) is replaced
  at the earliest with time 3 beside another client, which no run reaches; the theorem
  of section 7 does not bound the times.

A run whose `cfg` says `CHECK_DEADLOCK FALSE` models something that stops: an order
that was settled, stock that was returned, a checkout that is over.

Deep starting states: the merchants of `pages` start in `ShopperLeft`, a state reached
from `Init` by ticking, importing and observing the credit, so that the depth goes into
the race. Everything else starts where the program starts. The action constraints of
`pages` are its bounds: tabs that are not open rest, and the merchants' rows have 5
revisions.

Every property also fails under a mutant of the code it is about: `PROJECT.json`
names them, and each stands before the definition it mutates.

## 4. Properties

Settled checkout. `SentIsMarked`: once a device called the provider for an attempt,
its row never again shows it as merely prepared. `AtMostOneCall`:
one device never calls twice for one attempt. `HandedOffBeforeCall`: before the
shopper's money can move, a relay holds the exact intent with its marker.
`LegPaidOnce`: two transfers of one leg never both keep their money. `PaidIsProven`:
what a row or snapshot calls paid names an invoice the provider has paid.
`RowsRestorable`: no row and no snapshot is one that loading rejects.
`RowsProgress`: rows move forward in the recovery order except for a retried live
cancellation. `ImplementsPayouts`: the refinement.

The other runs' properties are conjunctions of the named parts that their modules
state, each with its own comment there:

| Property | Parts |
|---|---|
| `InFlightSafe` | types; at most one operation of a plan at the provider; a run that is over left none; a pause does not sleep |
| `PayerOnce` | the funding payer is entered once per approval |
| `FundedOnce` | types; `PaidByOneWallet`; `OneWay`: what a wallet may have paid is not shown, nor the reverse; `Reserved`: what may have been paid stays reserved |
| `PaidOnce` | types, `OnePayment`, `NeverRetriedAfterSend` |
| `TrueProofs` | `ProofsAreTrue`, `EvidenceKept`, `OnePublisher` |
| `OnlyForward` | a payment, a receipt, a delivered proof is never taken back by a late writer |
| `NoForks` | `NoFork`: the sales of a pool are prefixes of one sequence, wherever they are kept; `OneSeller` |
| `NoneOversold`, `HandedOut` | units sold and not imported are still in stock, and of a product's pools only one has any; goods of an order are handed out once |
| `StockPromised` | the refinement of `EntrustedStock`; `KeepsSales` |
| `InboxesRead` | `ReadUntilConfirmed`, `ObservedIsHeld` |
| `OneOwner`, `MessagesSafe` | `OneHolder`, `OwnedUntilExit` while no tab freezes; types, `OneWrap`, `AckIsStored`, `SelfBehindRecipient` always |
| `OutcomesKept` | outcomes of a declaration, the retained declaration, acknowledgements of a message |
| `OneCheck`, `WakesInTime`, `RightAnswers` | `OneAtATime`, `DrainedIsQuiet`; `Armed`, `DueByTakeover`; `AnswersItsOwn`, `StartsSpaced` |
| `OneCiphertext` | one encryption per snapshot and recipient; `AckIsStored`; `ProceedsDelivered` |
| `TreasuryPaidOnce`, `ReferenceKept` | `AtMostOneCall`, `MarkedAhead`, `TakenBackUnsent`, `PaidIsProven`; the transfer's id is not lost |
| `SessionsSafe`, `RemovedWhileClosed` | types; one connected client per seed, `NothingLeaked`; removals only while closed |
| `ConnectionKept`, `OwnCopyOnly` | `OneWallet`, `NeverLost` for one attempt at a time; `OwnCopyOnly`, `RetiredBehindCopy` |

Liveness: `KeepsChecking`, `AcceptedForGood` (in `page_loops`), `PaymentEnds`,
`StockMoves`, `Answered`, `Ends` (in `progress`).

## 5. Fairness

Safety runs assume none, and neither does the settled checkout, as nothing in the
code schedules a user's next visit. The liveness properties assume what the code
schedules itself while a page is open:

- *Runner*: promises and timers of an execution are served (`Execute`, weak), which
  includes that an admitted operation settles: the code awaits it without a timeout
  of its own, so that the wallet's has to end it. Nothing is assumed about the wall
  clock; the step budget ends a run.
- *Scheduler*: the timer fires, an answer comes, the `finally` runs, time passes.
  `KeepsChecking` is claimed for a page that stays visible.
- *Outbox*: the scheduler comes back (`Start`, `Page`), a relay that is asked again
  and again answers in the end (strong), and the order is authenticated again.
- *Payment*: an open tab goes on with what it has begun and repeats its recovery on
  its 30-second refetch; a lease nobody renews lapses; a relay does not refuse a
  proof for ever and the local write does not fail for ever (strong). Closing tabs
  is not fair, and bounded.
- *Stock*: what is saved and not sent is retried by hand, from the panel: publishing
  a handover, restoring it on the target, sending sales and closing records,
  importing, reconciling. These are the only actions of users that a property
  assumes, because the code has no timer for them; the property says that nobody
  who goes on trying is stuck.
- *Session*: an operation advances or fails, a disconnect ends, and a lock that is
  asked for again and again is granted in turn (strong; the queue of Web Locks).

## 6. Where code and text disagree

`migration_lost` finds it and is expected to: `src/packages/core/src/wallets/wallet-migration.ts:93`
says "Only an explicit unchanged result proves compensation is safe." Two tabs
migrate one connection. The first registers the wallet; the second finds it, verifies
it and retires the legacy key behind it; the first now sees that the key is gone
(`shouldContinue`), its `retirement` is still the *initial* `unchanged` (line 104's
condition), and it deletes the wallet. Neither copy is left.

Five more were met while modelling. The modules do what the code does, and so the
properties are stated where they hold; these are described here and have no run:

- `private-message-delivery.ts:226`, `holdPrivateDeliveryClaim` (comment at 218:
  "Keep a staged multi-leg send owned until its entire publish attempt exits"): it
  adopts whatever claim it reads. A tab that was suspended past its claim's life
  goes on under another worker's claim and clears it at the end. Hence
  `OwnedUntilExit` and `OneHolder` are claimed while no tab freezes, and the
  properties that hold always are the ones about ciphertexts and acknowledgements.
- `event-market-stock-writer-handover.ts:1013` against
  `EventMarketStockPanel.tsx:932`: a device that was prepared as a target and then
  recovered a closed pool cannot restore the handover for ever after, while its
  source is already retired. `StockMoves` is claimed without recovering devices.
- `event-market-stock-workflow.ts:508` against `:305`: after the reservation is
  published, another revision of the assignment makes the private grant
  undeliverable as soon as it is signed, and the hold stays.
- `account-network-mutation.ts:696`: the check that an account keeps an inbox it
  reads is made when the change is reviewed and not when it is staged. A recovery
  inbox that was counted then may end its grace before; the removal is confirmed and
  no inbox is left.
- `inbox-declaration-evidence.ts:88` (comment: "Prior usable inboxes retained read-only
  until exact shared readback + grace."): `previousInboxRelayUrls` is what the review
  read and what the signature read as current (`account-network-mutation.ts:1834`).
  Staging compares the id of the current declaration only (`:871`), and while that
  one declares nothing, another tab may merge an older usable declaration in
  between: its inboxes are read at the moment of the stage, are not among
  the previous ones, and are dropped without a cutover. `ReadUntilConfirmed` therefore
  speaks of the inboxes the change was signed against.

## 7. Proofs

`SettledOutgoingProofs` begins with the lemmas about the record: what each transition
leaves alone, that evidence recorded strictly later is a progress
(`RecordLegStatusProgression`), and that each transition keeps a record restorable.
`RenewLegRestorable` is the delicate one: the renewal's guard and the loader's check
are two lists of time comparisons in different functions.

The theorems about the settled checkout follow:

| Theorem | States | Argument |
|---|---|---|
| `TypeCorrect` | `Spec => []TypeOK` | with `ObservedSeen`: `TypeOK` alone is not inductive, because a tab records what it has observed as a status |
| `PaidOnce` | `Spec => []LegPaidOnce` | `RenewedAfterReturn`: a *request or* transfer of generation 1 exists only after generation 0 came back; without the requests the fact is lost between the sender's check and the provider's receipt. `ReturnIsFinal` makes the check still true when it is used |
| `NeverStuck` | `Spec => []RowsRestorable` | `RecordsRestorable` adds the records invocations hold, since they are what is published |
| `OnlyForward` | `Spec => RowsProgress` | every step `Advances` every row; for evidence this needs that the row's `updatedAt` is no earlier than what it observed, a conjunct of `Restorable` |
| `WrittenAhead` | `Spec => []SentIsMarked` | `WriteAheadInv`: a tab between its marker and its call relies on the marker in the *row* whatever other tabs did; no progress and no retry removes it (`MarkStays`); and a row never saved has no marker, so that a first import, which is not checked, cannot remove one |
| `OnlyPaidIsCalledPaid` | `Spec => []PaidIsProven` | `PaidInv`: rows, snapshots, held records and readings not recorded yet; a paid transfer is never anything else again |
| `CalledOnce` | `Spec => []AtMostOneCall` | `OneLicence`: a device has one licence to call for an attempt, in the tab on its way there or as a live cancellation, never both; it rests on `HeldRevisions`, that an equal revision is an equal record, which makes the compare-and-swap exclude the second tab |
| `HandedOffFirst` | `Spec => []HandedOffBeforeCall` | `HandoffInv`: the shopper imports nothing, so what it holds it issued; between marker and call it holds the record a relay acknowledged |
| `KeepsThePromise` | `Spec => ImplementsPayouts` | `OrderInv`: from the choice of a leg to the provider's receipt, all earlier legs are settled; every other step is a stutter of `Payouts` |

The others, each over its own module:

| Theorem | States | Argument |
|---|---|---|
| `InFlightIsSafe`, `PayerEnteredOnce` (`PageProofs`) | `InFlightSafe`, `PayerOnce` | `OneRun`: the flag in `activePlans` stands for one run, which alone admits; `Paused`: a pause is a lost epoch and lasts to the end of the run; `PayerPending`: the payer's first entry uses up the first look at the funding |
| `InvoiceUpOnce` (`PageProofs`) | `FundedOnce` | `FundingInv`: one run holds the lock (`OneBridge`), so that from its look at the row to its last save the row says what the run relies on (`StepsFit`): a reservation precedes publication and disclosure, and is taken back only while nothing was published or shown |
| `OneReconciliation`, `NoWakeUpLost`, `AnswersAreRight` (`PageProofs`) | `OneCheck`, `WakesInTime`, `RightAnswers` | `Asked`: work still current belongs to the entry of its checkout, so that an answer after a new listing is recognised; `Paced`: the timer stays behind the gap after the last start, and so a timer that fires may start |
| `SessionsAreSafe`, `RemovedUnused` (`WalletProofs`) | `SessionsSafe`, `RemovedWhileClosed` | `Held`: whoever uses a session holds its locks, through every failure of opening and closing; `Alone`: one seed, one user; `NoLeak` is the converse, whoever holds uses |
| `OrderPaidOnce`, `ProofsTrue`, `OnlyForwardHolds` (`OrderPaymentProofs`) | `PaidOnce`, `TrueProofs`, `OnlyForward` | `Owned`: the claim on the row is a run's authority, and a paid order that is still claimed belongs to the run that paid it; `Money`: every invoice by which money may go is the row's, or the order is paid; `Known`, `Proofs`: what a run, a courier or the attempt row knows of an invoice is what became of it; `Evidence`, `Scans`: a shown invoice is kept, and one that is searched for was paid in public; `Leases`: whoever publishes has the proof's lease, missed it, or comes behind a proof that was sent |
| `MessagesAreSafe`, `AcksAreKept`, `OwnedToTheEnd`, `OneOwnerInAll` (`MessageProofs`) | `MessagesSafe`, `AckKept`, `OneHolder` with `OwnedUntilExit` of `AttentiveSpec`, and for the run `OneOwner` | `Fits`: what a worker holds agrees with its row and the relays, and an equal revision means that the row has what it read; `Owns`: the claim's term is full but for the heartbeat that is due, so that no tick can end it |
| `InboxesAreRead`, `DeclarationsMoveForward`; for the run `InboxesReadInAll`, `OutcomesKeptInAll` (`MessageProofs`) | `InboxesRead`; `OutcomesKept` | `OwedOK`: a replaced inbox has its cutover, unless the owner removed it; `CutoverOK`: grace begins when a relay had the replacement; `EvidenceOK`: the pending delivery is of the current declaration, every cutover of one that was current once, and what is recorded as read back a relay had; `JobOK`: what a tab holds across awaits was true when it was read and stays so. `Follows` says what a merge may change, for lists of any length by the least element that breaks it |
| `TreasuryTypes`, `TreasuryCalledOnce`, `CalledBehindMark`, `NoSendTakenBack`, `TreasuryPaidIsProven`, `TreasuryKeepsReference` (`NativeTreasuryProofs`); for the three instances of the run `TreasuryIsPaidOnce`, `ReferencesAreKept` (`WalletProofs`) | `TreasuryPaidOnce`, `ReferenceKept` | `OneLicence`: at most one page of a device is on its way to the SDK: past its last look at the row (`Committed`), with the row still the one it wrote (`Pending`), or with a live cancellation of the row as it is (`Free`); every save and every import moves the row on and so ends the other pages' `Pending` and `Free` |
| `PageSealsOnce`, `AcknowledgedIsStored`, `PaidFromDelivered`, `SnapshotSealedOnce`, `OutboxOnlyGrows` (`PageProofs`) | `OneCiphertext`, its parts, and that an outbox row is never replaced or forgets a role | `SentAreStored`: whatever was handed out is, byte for byte, in the row; `Completes`: what an invocation means to store completes the row it read and changes nothing of it, and `Versioned`: a row of the older schema has the merchant's copy only; `Acknowledged`: a role that is marked has its bytes on a relay |
| `ConnectionsAreKept`, `CopiesAreOwn`, `OneConnectionOneWallet`, `NothingLost` (`WalletProofs`) | `ConnectionKept`, `OwnCopyOnly`; `NeverLost` of `SerialSpec` | `CreatedIsOwn`: the id of an attempt that created a wallet is that wallet's or used up, so that a compensation removes nobody else's; `OldCopyStays`, which two attempts break: while a copy may still be taken back, the old place has the connection |
| `SalesAreOneSequence`, `StockCoversSales`, `NoSecondHandout`, `NoSaleForgotten`, `KeepsItsPromise` (`StockProofs`); for the six parts of the run `SalesNeverFork`, `SellerCoversSales`, `GoodsHandedOutOnce`, `PartsKeepThePromise` (`MarketStockProofs`) | `NoForks`, `NoneOversold`, `HandedOut`, `StockPromised` | see below |

The stock's inductive invariant is worth a paragraph, because `NoFork` says nothing of
why two devices do not sell from one pool. `OneHolder` does: whoever may write for a
writer is one device with the current row, or one handover whose target has not taken
it yet, and never one of each. `Holders` says that this one has every sale of the
writer's pools (`CurrentCopy`) and every decision on its orders; so the sale it adds
next extends the one sequence, and the handout it decides is the first. `Origins`
keeps a second holder from coming into being: the device that named the writer keeps its label, and the
label lists the pools as soon as one was begun, so that losing the tables leads to
recovery and never to a fresh start. `Handovers` says what a captured, a saved and a
published handover carry. `Sales` says that an order was sold from all of its pools or
none and that a closing record is final, `Decisions` that what is handed out was sold
and decided before, `Holds` that the seller's hold is on the pool granted last and
covered by the stock. The proofs need lemmas about the sums over a pool's sales: that
a running sum exists and is unique, that it grows by what is appended, and that of a
list and its prefix the prefix has the smaller. They come from the least element of a
set of natural numbers (`Least`, `Induct`), which is first-order.

Some of these proofs changed a model. `ExactHistory` was a `CASE` with overlapping
guards, whose value is not determined, and is an `IF` now. `DueByTakeover` said that
what waits for its takeover is due by then; a progress answer that comes less than the
step gap before takeover is due that gap after the answer
(`Math.max(takeoverAt, checkedAt + MIN_STEP_GAP_MS)`), and the property allows for it.
The units a list of sales takes were a fold, which the provers cannot expand, and are
a recursive function now; and `NoneOversold`, which summed the pools of a product,
says more of each: only one pool of a product has units that are not imported. The
scheduler's proofs need that the step gap (750 ms) is shorter than the longest
timer (`GapAssumption`), and that the bound on overdue times leaves alone what is not
overdue (`LateAssumption`). `ReadUntilConfirmed` was once about what is read at the
moment of the stage. The runs agreed with it, at their bounds; the proof did not, and a larger
instance showed the step that section 6 describes last. `Merge` was a fold from the
newest declaration on; it is the list the code goes through, the oldest first.

Assumed: the named `ASSUME`s of each module, which say that the constants are what
their comments say. No assumption bounds the number of devices, tabs, workers, pages,
legs, the skew or the bounds. Modules of which a run has several instances, or whose
parameters a run defines, state their assumptions as definitions: the theorems then
name them as hypotheses, and the `MC` module assumes them, so that TLC evaluates them.

Only model-checked:

- liveness under fairness (`Ends`, `KeepsChecking`, `AcceptedForGood`, `PaymentEnds`,
  `StockMoves`, `Answered`), which is out of the prover's reach. The safety halves of
  `AcceptedForGood` and of the session are proved (`OutboxOnlyGrows`,
  `SessionsAreSafe`).

## 8. Not modelled, and why

- *Settled allocation, preparation of the funding, retirement, merchant settlement, recovery hand-off,
  organizer execution, supplier notifications*: arithmetic, or further callers of the
  steps modelled here. Retirement and abandonment (of a record and its wallet) would
  be the next to model, over `SettledOutgoing` and `NativeTreasury`; after it the
  publication of products, which is one more outbox, and the relay list.
- *Portable wallet sync, NWC sessions, relay fan-out, commerce inbox, event-market
  parsing, products, cart, sessions and signers*: mostly reading, parsing and I/O with
  little state of their own.
- *Workers* (`address-gateway`, `anon-zap-signer`, `posthog-proxy`, market functions):
  nearly stateless.
- *The retired router chain*: restored for history only, as
  `src/docs/knowledge/checkout-router-cleanup-boundary.md` says.
- *User interface, database schema, scripts*: presentation and declarations. They are
  the larger part of the repository's lines.
- Cryptography is assumed: a signature or a decryption is a guard that may fail.
