-------------------------------- MODULE MCStock --------------------------------
(***************************************************************************)
(* StockWriter for TLC: a journal that moves twice; a browser that loses   *)
(* its tables, with two orders and with a second device that recovers;     *)
(* trade beside the event, with a product that is entrusted twice and with *)
(* an order of two products; and two selling devices.  One of them is      *)
(* explored at a time.                                                     *)
(***************************************************************************)
EXTENDS Naturals, TLC

CONSTANTS
  d1, d2, d3, g1, g2, p1, p2, o1, o2, NoDevice, NoTransfer, NoGrant

VARIABLES
  part,  \* what is explored
  over, stock, alloc, hold, imported, reconciled, writer, unpublished, latest,
  committed, closedOut, delivered, sent, closes, label, row, journal, handed,
  captured, outgoing, transfers, handouts, ledger, released

vars == <<over, stock, alloc, hold, imported, reconciled, writer, unpublished, latest,
          committed, closedOut, delivered, sent, closes, label, row, journal, handed,
          captured, outgoing, transfers, handouts, ledger, released>>
stockVars == <<part, vars>>

\* Unless a part says otherwise: one pool of two units, and two orders of one,
\* on one selling device beside another; nothing is lost.
Devices == {d1, d2}
Goods == {g1}
Grants == {p1}
Good == p1 :> g1
Quantity == p1 :> 2
Orders == {o1, o2}
Lines == o1 :> (p1 :> 1) @@ o2 :> (p1 :> 1)
InitialStock == 2
Selling == {d1}
Recovering == {}
Clearable == {}
Trading == FALSE

\* One order; a product that is entrusted a second time; an order of two products.
OneOrder == o1 :> (p1 :> 1)
RegrantGood == p1 :> g1 @@ p2 :> g1
RegrantQuantity == p1 :> 2 @@ p2 :> 1
RegrantLines == o1 :> (p1 :> 1) @@ o2 :> (p2 :> 1)
TwoGood == p1 :> g1 @@ p2 :> g2
TwoQuantity == p1 :> 1 @@ p2 :> 2
OneOfEach == p1 :> 1 @@ p2 :> 1
TwoLines == o1 :> (p1 :> 1 @@ p2 :> 1)

Chain == INSTANCE StockProofs WITH Devices <- {d1, d2, d3}, Orders <- {o1}, Lines <- OneOrder
Loss == INSTANCE StockProofs WITH Recovering <- {d1}, Clearable <- {d1}
Rescue == INSTANCE StockProofs WITH
  Orders <- {o1}, Lines <- OneOrder, Recovering <- {d1, d2}, Clearable <- {d1}
Regrant == INSTANCE StockProofs WITH
  Devices <- {d1}, Grants <- {p1, p2}, Good <- RegrantGood, Quantity <- RegrantQuantity,
  Lines <- RegrantLines, InitialStock <- 3, Trading <- TRUE
Basket == INSTANCE StockProofs WITH
  Devices <- {d1}, Goods <- {g1, g2}, Grants <- {p1, p2}, Good <- TwoGood,
  Quantity <- OneOfEach, Orders <- {o1}, Lines <- TwoLines, InitialStock <- 1,
  Trading <- TRUE
Writers == INSTANCE StockProofs WITH
  Goods <- {g1, g2}, Grants <- {p1, p2}, Good <- TwoGood, Quantity <- TwoQuantity,
  Orders <- {o1}, Lines <- TwoLines, Selling <- {d1, d2}

ASSUME StockAssumptions ==
  /\ Chain!GrantAssumption /\ Chain!StockAssumption /\ Chain!DeviceAssumption
  /\ Loss!GrantAssumption /\ Loss!StockAssumption /\ Loss!DeviceAssumption
  /\ Rescue!GrantAssumption /\ Rescue!StockAssumption /\ Rescue!DeviceAssumption
  /\ Regrant!GrantAssumption /\ Regrant!StockAssumption /\ Regrant!DeviceAssumption
  /\ Basket!GrantAssumption /\ Basket!StockAssumption /\ Basket!DeviceAssumption
  /\ Writers!GrantAssumption /\ Writers!StockAssumption /\ Writers!DeviceAssumption

StockInit ==
  \/ part = "chain" /\ Chain!Init
  \/ part = "loss" /\ Loss!Init
  \/ part = "rescue" /\ Rescue!Init
  \/ part = "regrant" /\ Regrant!Init
  \/ part = "basket" /\ Basket!Init
  \/ part = "writers" /\ Writers!Init

StockNext ==
  /\ UNCHANGED part
  /\ \/ part = "chain" /\ Chain!Next
     \/ part = "loss" /\ Loss!Next
     \/ part = "rescue" /\ Rescue!Next
     \/ part = "regrant" /\ Regrant!Next
     \/ part = "basket" /\ Basket!Next
     \/ part = "writers" /\ Writers!Next

StockSpec == StockInit /\ [][StockNext]_stockVars

-----------------------------------------------------------------------------
(* The properties of StockWriter, of the part that is explored.            *)

OfPart(chain, loss, rescue, regrant, basket, writers) ==
  /\ part = "chain" => chain
  /\ part = "loss" => loss
  /\ part = "rescue" => rescue
  /\ part = "regrant" => regrant
  /\ part = "basket" => basket
  /\ part = "writers" => writers

\* The sales of a pool are one sequence, wherever they are kept, and two devices
\* are never able to sell from one pool (with the types of all the tables).
NoForks ==
  /\ OfPart(Chain!TypeOK, Loss!TypeOK, Rescue!TypeOK,
            Regrant!TypeOK, Basket!TypeOK, Writers!TypeOK)
  /\ OfPart(Chain!NoFork, Loss!NoFork, Rescue!NoFork,
            Regrant!NoFork, Basket!NoFork, Writers!NoFork)
  /\ OfPart(Chain!OneSeller, Loss!OneSeller, Rescue!OneSeller,
            Regrant!OneSeller, Basket!OneSeller, Writers!OneSeller)

\* Units sold and not yet imported are still in the seller's stock.
NoneOversold ==
  OfPart(Chain!NeverOversold, Loss!NeverOversold, Rescue!NeverOversold,
         Regrant!NeverOversold, Basket!NeverOversold, Writers!NeverOversold)

\* An order's goods are handed out at most once, by one device.
HandedOut ==
  OfPart(Chain!HandedOutOnce, Loss!HandedOutOnce, Rescue!HandedOutOnce,
         Regrant!HandedOutOnce, Basket!HandedOutOnce, Writers!HandedOutOnce)

\* However many devices, moves, losses and edits there are, entrusted stock keeps
\* the promise of one organizer selling from one place (EntrustedStock), and no
\* restore, retry or recovery puts older history in the place of newer.
StockPromised ==
  /\ OfPart(Chain!Promise!Init, Loss!Promise!Init, Rescue!Promise!Init,
            Regrant!Promise!Init, Basket!Promise!Init, Writers!Promise!Init)
  /\ [][OfPart(Chain!KeepsPromise, Loss!KeepsPromise, Rescue!KeepsPromise,
               Regrant!KeepsPromise, Basket!KeepsPromise, Writers!KeepsPromise)]_stockVars
  /\ [][OfPart(Chain!KeepsSales, Loss!KeepsSales, Rescue!KeepsSales,
               Regrant!KeepsSales, Basket!KeepsSales, Writers!KeepsSales)]_stockVars

=============================================================================
