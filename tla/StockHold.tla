-------------------------------- MODULE StockHold --------------------------------
(***************************************************************************)
(* A seller's inventory of goods that are sold at an event by its          *)
(* organizer.  Every product has one assignment to the event, with its own *)
(* allocation; a part of the allocation is entrusted to the organizer as a *)
(* pool, and the hold on the pool's units ends only when the organizer's   *)
(* closing record and every sale before it have been imported.             *)
(*                                                                         *)
(* An accepted sale names its predecessor by hash, so an entry is the      *)
(* sequence of the sales up to and including it.  Each operation is one    *)
(* database transaction of the seller's browser; publishing an inventory   *)
(* revision is a step of its own that may come much later or never.        *)
(***************************************************************************)
EXTENDS Naturals, Sequences, SequencesExt, FiniteSetsExt

CONSTANTS
  Devices,       \* the organizer's browsers
  NoDevice,      \* a pool that is not granted, a handout that is not decided
  Goods,         \* the seller's products, each with its assignment
  Grants,        \* pools, by the grant that makes each
  NoGrant,       \* an assignment without a hold
  Good,          \* the product of a pool
  Quantity,      \* the units of a pool
  Orders,        \* buyers' orders
  Lines,         \* the units an order takes of each of its pools
  InitialStock   \* units of every product, also the bound on edits

GrantAssumption ==
  /\ NoDevice \notin Devices /\ NoGrant \notin Grants
  /\ \A p \in Grants : Good[p] \in Goods /\ Quantity[p] \in Nat \ {0}
  /\ \A o \in Orders :
       /\ DOMAIN Lines[o] \subseteq Grants /\ DOMAIN Lines[o] # {}
       /\ \A p \in DOMAIN Lines[o] : Lines[o][p] \in Nat \ {0}
StockAssumption == InitialStock \in Nat

VARIABLES
  over,        \* the event has ended, and with it every grant
  stock,       \* product.stock
  alloc,       \* assignment.inventory.quantity
  hold,        \* assignment.organizerStockHold: its pool
  imported,    \* the imported entries of a pool
  reconciled,  \* pools whose hold is closed
  writer,      \* the device a granted pool designates
  unpublished, \* kinds of publication job that are not delivered
  latest,      \* "reservation": no assignment job is newer than the hold's own;
               \* "unsigned": one is, but only queued; "other": one was signed
  committed,   \* pools whose public commitment was published
  closedOut,   \* pools whose closed projection was published
  delivered,   \* pools whose private grant was sent
  sent,        \* accepted entries the organizer sent
  closes       \* closing records the organizer sent

shopVars == <<over, stock, alloc, hold, imported, reconciled, writer, unpublished,
              latest, committed, closedOut, delivered>>
wireVars == <<sent, closes>>

-----------------------------------------------------------------------------
(* State.                                                                  *)

\* The units a list of sales takes of pool p.
Units(p, list) ==
  LET sum[i \in 0 .. Len(list)] ==
        IF i = 0 THEN 0 ELSE sum[i - 1] + Lines[list[i].order][p]
  IN  sum[Len(list)]

Outstanding(g) ==
  IF hold[g] = NoGrant \/ hold[g] \in reconciled THEN 0
  ELSE Quantity[hold[g]] - Units(hold[g], imported[hold[g]])

Effective(g) == Max({IF over THEN 0 ELSE alloc[g], Outstanding(g)})

ShopInit ==
  /\ over = FALSE
  /\ stock = [g \in Goods |-> InitialStock]
  /\ alloc = [g \in Goods |-> InitialStock]
  /\ hold = [g \in Goods |-> NoGrant]
  /\ imported = [p \in Grants |-> <<>>]
  /\ reconciled = {}
  /\ writer = [p \in Grants |-> NoDevice]
  /\ unpublished = [g \in Goods |-> {}]
  /\ latest = [g \in Goods |-> "other"]
  /\ committed = {} /\ closedOut = {} /\ delivered = {}

-----------------------------------------------------------------------------
(* Entrusting.                                                             *)

\* prepareMerchantOrganizerStockPool, for the device the organizer named.
Reserve(p, w) ==
  LET g == Good[p]
  IN  /\ writer[p] = NoDevice /\ ~over
      /\ Quantity[p] <= alloc[g] /\ Quantity[p] <= stock[g]
      /\ hold[g] = NoGrant \/ hold[g] \in reconciled
      /\ unpublished[g] = {}
      /\ hold' = [hold EXCEPT ![g] = p]
      /\ writer' = [writer EXCEPT ![p] = w]
      /\ unpublished' = [unpublished EXCEPT ![g] = {"assignment"}]
      /\ latest' = [latest EXCEPT ![g] = "reservation"]
      /\ UNCHANGED <<over, stock, alloc, imported, reconciled, committed, closedOut,
                     delivered, wireVars>>

\* The queue of a product and its assignment is signed and published in order, all of it
\* or, when the signer fails at a later revision, the reservation alone.
Publish(g) ==
  /\ unpublished[g] # {}
  /\ unpublished' = [unpublished EXCEPT ![g] = {}]
  /\ committed' = committed \cup (IF "assignment" \in unpublished[g]
                                  THEN {hold[g]} \cap Grants ELSE {})
  /\ closedOut' = closedOut \cup (IF "assignment" \in unpublished[g]
                                  THEN {hold[g]} \cap reconciled ELSE {})
  /\ latest' = [latest EXCEPT ![g] = IF @ = "unsigned" THEN "other" ELSE @]
  /\ UNCHANGED <<over, stock, alloc, hold, imported, reconciled, writer, delivered,
                 wireVars>>

PublishReservation(g) ==
  /\ latest[g] = "unsigned"
  /\ hold[g] \in Grants \ committed
  /\ committed' = committed \cup {hold[g]}
  /\ UNCHANGED <<over, stock, alloc, hold, imported, reconciled, writer, unpublished,
                 latest, closedOut, delivered, wireVars>>

\* The grant follows its commitment, as long as that is the newest signed revision.
DeliverGrant(g) ==
  /\ hold[g] \in committed \ delivered /\ ~over
  /\ latest[g] \in {"reservation", "unsigned"}
  /\ delivered' = delivered \cup {hold[g]}
  /\ UNCHANGED <<over, stock, alloc, hold, imported, reconciled, writer, unpublished,
                 latest, committed, closedOut, wireVars>>

-----------------------------------------------------------------------------
(* Sales and edits of the seller.                                          *)

\* A job is queued behind the newest one.
Behind(newest) == IF newest = "reservation" THEN "unsigned" ELSE newest

Queue(g, kinds) ==
  /\ unpublished' = [unpublished EXCEPT ![g] = @ \cup kinds]
  /\ latest' = IF "assignment" \in kinds THEN [latest EXCEPT ![g] = Behind(@)] ELSE latest

\* Mutant of SellOrdinary: it leaves the allocation, but not the entrusted units.
SellOrdinaryLive(g) ==
  /\ stock[g] > (IF over THEN 0 ELSE alloc[g])
  /\ stock' = [stock EXCEPT ![g] = @ - 1]
  /\ Queue(g, {"product"})
  /\ UNCHANGED <<over, alloc, hold, imported, reconciled, writer, committed,
                 closedOut, delivered, wireVars>>

\* A unit sold outside the event.
SellOrdinary(g) ==
  /\ stock[g] > Effective(g)
  /\ stock' = [stock EXCEPT ![g] = @ - 1]
  /\ Queue(g, {"product"})
  /\ UNCHANGED <<over, alloc, hold, imported, reconciled, writer, committed,
                 closedOut, delivered, wireVars>>

\* A unit sold by the seller itself for pickup at the event.
SellPickup(g) ==
  /\ ~over
  /\ Effective(g) <= stock[g] /\ Effective(g) - Outstanding(g) >= 1
  /\ stock' = [stock EXCEPT ![g] = @ - 1]
  /\ alloc' = [alloc EXCEPT ![g] = @ - 1]
  /\ Queue(g, {"product", "assignment"})
  /\ UNCHANGED <<over, hold, imported, reconciled, writer, committed, closedOut,
                 delivered, wireVars>>

\* A pickup that was paid in time and settles after the event.
SettlePickup(g) ==
  /\ over
  /\ stock[g] > Effective(g)
  /\ stock' = [stock EXCEPT ![g] = @ - 1]
  /\ alloc' = [alloc EXCEPT ![g] = IF @ = 0 THEN 0 ELSE @ - 1]
  /\ Queue(g, {"product", "assignment"})
  /\ UNCHANGED <<over, hold, imported, reconciled, writer, committed, closedOut,
                 delivered, wireVars>>

\* Another allocation; none when the assignment is removed, which alone is still done
\* when the event is over.
EditAllocation(g, n) ==
  /\ n # alloc[g] /\ (over => n = 0)
  /\ Max({n, Outstanding(g)}) <= stock[g]
  /\ alloc' = [alloc EXCEPT ![g] = n]
  /\ Queue(g, {"assignment"})
  /\ UNCHANGED <<over, stock, hold, imported, reconciled, writer, committed,
                 closedOut, delivered, wireVars>>

EditStock(g, n) ==
  /\ n # stock[g] /\ n >= Effective(g)
  /\ stock' = [stock EXCEPT ![g] = n]
  /\ Queue(g, {"product"})
  /\ UNCHANGED <<over, alloc, hold, imported, reconciled, writer, committed,
                 closedOut, delivered, wireVars>>

-----------------------------------------------------------------------------
(* Importing what the organizer sold.                                      *)

\* The entry of order o that pool p waits for, among what was sent.
NextEntries(p, o) ==
  {c \in sent[p] : c # <<>> /\ Front(c) = imported[p] /\ Last(c).order = o}

\* The units of product g that order o takes, from the pool on hold.
Taken(o, g) == IF hold[g] \in DOMAIN Lines[o] THEN Lines[o][hold[g]] ELSE 0

\* Every pool of the order in one transaction, or none.
Import(o) ==
  /\ \A p \in DOMAIN Lines[o] :
       LET g == Good[p]
       IN  /\ hold[g] = p /\ p \notin reconciled
           /\ NextEntries(p, o) # {}
           /\ Lines[o][p] <= Outstanding(g)
           /\ Lines[o][p] <= stock[g]
           /\ stock[g] - Lines[o][p] >= Max({IF over \/ alloc[g] < Lines[o][p] THEN 0
                                             ELSE alloc[g] - Lines[o][p],
                                             Outstanding(g) - Lines[o][p]})
  /\ imported' = [p \in Grants |-> IF p \in DOMAIN Lines[o]
                                   THEN CHOOSE c \in NextEntries(p, o) : TRUE
                                   ELSE imported[p]]
  /\ stock' = [g \in Goods |-> stock[g] - Taken(o, g)]
  /\ alloc' = [g \in Goods |-> IF alloc[g] < Taken(o, g) THEN 0 ELSE alloc[g] - Taken(o, g)]
  /\ unpublished' = [g \in Goods |-> IF Taken(o, g) = 0 THEN unpublished[g]
                                     ELSE {"product", "assignment"}]
  /\ latest' = [g \in Goods |-> IF Taken(o, g) = 0 THEN latest[g] ELSE Behind(latest[g])]
  /\ UNCHANGED <<over, hold, reconciled, writer, committed, closedOut, delivered,
                 wireVars>>

\* The closing record's frontier is what was imported: the rest is released.
Reconcile(p) ==
  LET g == Good[p]
  IN  /\ hold[g] = p /\ p \notin reconciled
      /\ imported[p] \in closes[p]
      /\ reconciled' = reconciled \cup {p}
      /\ Queue(g, {"assignment"})
      /\ UNCHANGED <<over, stock, alloc, hold, imported, writer, committed, closedOut,
                     delivered, wireVars>>

End ==
  /\ ~over
  /\ over' = TRUE
  /\ UNCHANGED <<stock, alloc, hold, imported, reconciled, writer, unpublished,
                 latest, committed, closedOut, delivered, wireVars>>

Trade ==
  \E g \in Goods :
    \/ SellOrdinary(g) \/ SellPickup(g) \/ SettlePickup(g)
    \/ \E n \in 0 .. InitialStock : EditAllocation(g, n) \/ EditStock(g, n)

\* Whom a grant designates is an identifier the organizer handed over.
Shop(named) ==
  \/ \E p \in Grants, w \in named : Reserve(p, w)
  \/ \E g \in Goods : Publish(g) \/ PublishReservation(g) \/ DeliverGrant(g)
  \/ \E o \in Orders : Import(o)
  \/ \E p \in Grants : Reconcile(p)
=============================================================================
