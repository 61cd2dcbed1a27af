--------------------------- MODULE MarketStockProofs ---------------------------
(***************************************************************************)
(* The theorems of StockWriter (StockProofs), for the six parts of MCStock *)
(* together: what each invariant and property of that run says is true of  *)
(* the part that is explored, whichever it is.                             *)
(***************************************************************************)
EXTENDS MCStock, TLAPS

LEMMA PartAssumptions ==
  /\ Chain!Assumptions
  /\ Loss!Assumptions
  /\ Rescue!Assumptions
  /\ Regrant!Assumptions
  /\ Basket!Assumptions
  /\ Writers!Assumptions
  BY StockAssumptions
  DEF Chain!Assumptions, Loss!Assumptions, Rescue!Assumptions,
      Regrant!Assumptions, Basket!Assumptions, Writers!Assumptions

\* One of the parts is explored.
LEMMA OneOfTheParts ==
  StockInit => \/ part = "chain" \/ part = "loss" \/ part = "rescue"
               \/ part = "regrant" \/ part = "basket" \/ part = "writers"
  BY DEF StockInit

LEMMA SamePart == [StockNext]_stockVars => part' = part
  BY DEF StockNext, stockVars

\* The part that is explored runs to its own specification.
LEMMA ChainSpec == StockSpec /\ part = "chain" => Chain!Spec /\ [](part = "chain")
  <1>1. StockInit /\ part = "chain" => Chain!Init
    BY DEF StockInit
  <1>2. [StockNext]_stockVars /\ part = "chain" => [Chain!Next]_(Chain!vars)
    BY DEF StockNext, stockVars, vars, Chain!vars
  <1>3. part = "chain" /\ part' = part => (part = "chain")'
    OBVIOUS
  <1> QED BY <1>1, <1>2, <1>3, SamePart, PTL DEF StockSpec, Chain!Spec

LEMMA LossSpec == StockSpec /\ part = "loss" => Loss!Spec /\ [](part = "loss")
  <1>1. StockInit /\ part = "loss" => Loss!Init
    BY DEF StockInit
  <1>2. [StockNext]_stockVars /\ part = "loss" => [Loss!Next]_(Loss!vars)
    BY DEF StockNext, stockVars, vars, Loss!vars
  <1>3. part = "loss" /\ part' = part => (part = "loss")'
    OBVIOUS
  <1> QED BY <1>1, <1>2, <1>3, SamePart, PTL DEF StockSpec, Loss!Spec

LEMMA RescueSpec == StockSpec /\ part = "rescue" => Rescue!Spec /\ [](part = "rescue")
  <1>1. StockInit /\ part = "rescue" => Rescue!Init
    BY DEF StockInit
  <1>2. [StockNext]_stockVars /\ part = "rescue" => [Rescue!Next]_(Rescue!vars)
    BY DEF StockNext, stockVars, vars, Rescue!vars
  <1>3. part = "rescue" /\ part' = part => (part = "rescue")'
    OBVIOUS
  <1> QED BY <1>1, <1>2, <1>3, SamePart, PTL DEF StockSpec, Rescue!Spec

LEMMA RegrantSpec == StockSpec /\ part = "regrant" => Regrant!Spec /\ [](part = "regrant")
  <1>1. StockInit /\ part = "regrant" => Regrant!Init
    BY DEF StockInit
  <1>2. [StockNext]_stockVars /\ part = "regrant" => [Regrant!Next]_(Regrant!vars)
    BY DEF StockNext, stockVars, vars, Regrant!vars
  <1>3. part = "regrant" /\ part' = part => (part = "regrant")'
    OBVIOUS
  <1> QED BY <1>1, <1>2, <1>3, SamePart, PTL DEF StockSpec, Regrant!Spec

LEMMA BasketSpec == StockSpec /\ part = "basket" => Basket!Spec /\ [](part = "basket")
  <1>1. StockInit /\ part = "basket" => Basket!Init
    BY DEF StockInit
  <1>2. [StockNext]_stockVars /\ part = "basket" => [Basket!Next]_(Basket!vars)
    BY DEF StockNext, stockVars, vars, Basket!vars
  <1>3. part = "basket" /\ part' = part => (part = "basket")'
    OBVIOUS
  <1> QED BY <1>1, <1>2, <1>3, SamePart, PTL DEF StockSpec, Basket!Spec

LEMMA WritersSpec == StockSpec /\ part = "writers" => Writers!Spec /\ [](part = "writers")
  <1>1. StockInit /\ part = "writers" => Writers!Init
    BY DEF StockInit
  <1>2. [StockNext]_stockVars /\ part = "writers" => [Writers!Next]_(Writers!vars)
    BY DEF StockNext, stockVars, vars, Writers!vars
  <1>3. part = "writers" /\ part' = part => (part = "writers")'
    OBVIOUS
  <1> QED BY <1>1, <1>2, <1>3, SamePart, PTL DEF StockSpec, Writers!Spec

-----------------------------------------------------------------------------
(* What the run checks.                                                    *)

\* The sales of a pool are one sequence, wherever they are kept, and two devices are
\* never able to sell from one pool, in every part.
THEOREM SalesNeverFork == StockSpec => []NoForks
  <1> USE PartAssumptions
  <1>1. StockSpec /\ part = "chain" => []NoForks
    <2>1. part = "chain" /\ Chain!TypeOK /\ Chain!NoFork /\ Chain!OneSeller => NoForks
      BY DEF NoForks, OfPart
    <2> QED BY <2>1, ChainSpec, Chain!SalesAreOneSequence, PTL
  <1>2. StockSpec /\ part = "loss" => []NoForks
    <2>1. part = "loss" /\ Loss!TypeOK /\ Loss!NoFork /\ Loss!OneSeller => NoForks
      BY DEF NoForks, OfPart
    <2> QED BY <2>1, LossSpec, Loss!SalesAreOneSequence, PTL
  <1>3. StockSpec /\ part = "rescue" => []NoForks
    <2>1. part = "rescue" /\ Rescue!TypeOK /\ Rescue!NoFork /\ Rescue!OneSeller => NoForks
      BY DEF NoForks, OfPart
    <2> QED BY <2>1, RescueSpec, Rescue!SalesAreOneSequence, PTL
  <1>4. StockSpec /\ part = "regrant" => []NoForks
    <2>1. part = "regrant" /\ Regrant!TypeOK /\ Regrant!NoFork /\ Regrant!OneSeller => NoForks
      BY DEF NoForks, OfPart
    <2> QED BY <2>1, RegrantSpec, Regrant!SalesAreOneSequence, PTL
  <1>5. StockSpec /\ part = "basket" => []NoForks
    <2>1. part = "basket" /\ Basket!TypeOK /\ Basket!NoFork /\ Basket!OneSeller => NoForks
      BY DEF NoForks, OfPart
    <2> QED BY <2>1, BasketSpec, Basket!SalesAreOneSequence, PTL
  <1>6. StockSpec /\ part = "writers" => []NoForks
    <2>1. part = "writers" /\ Writers!TypeOK /\ Writers!NoFork /\ Writers!OneSeller => NoForks
      BY DEF NoForks, OfPart
    <2> QED BY <2>1, WritersSpec, Writers!SalesAreOneSequence, PTL
  <1> QED BY <1>1, <1>2, <1>3, <1>4, <1>5, <1>6, OneOfTheParts, PTL DEF StockSpec

\* Sales that were not imported are still in the seller's stock, in every part.
THEOREM SellerCoversSales == StockSpec => []NoneOversold
  <1> USE PartAssumptions
  <1>1. StockSpec /\ part = "chain" => []NoneOversold
    <2>1. part = "chain" /\ Chain!NeverOversold => NoneOversold
      BY DEF NoneOversold, OfPart
    <2> QED BY <2>1, ChainSpec, Chain!StockCoversSales, PTL
  <1>2. StockSpec /\ part = "loss" => []NoneOversold
    <2>1. part = "loss" /\ Loss!NeverOversold => NoneOversold
      BY DEF NoneOversold, OfPart
    <2> QED BY <2>1, LossSpec, Loss!StockCoversSales, PTL
  <1>3. StockSpec /\ part = "rescue" => []NoneOversold
    <2>1. part = "rescue" /\ Rescue!NeverOversold => NoneOversold
      BY DEF NoneOversold, OfPart
    <2> QED BY <2>1, RescueSpec, Rescue!StockCoversSales, PTL
  <1>4. StockSpec /\ part = "regrant" => []NoneOversold
    <2>1. part = "regrant" /\ Regrant!NeverOversold => NoneOversold
      BY DEF NoneOversold, OfPart
    <2> QED BY <2>1, RegrantSpec, Regrant!StockCoversSales, PTL
  <1>5. StockSpec /\ part = "basket" => []NoneOversold
    <2>1. part = "basket" /\ Basket!NeverOversold => NoneOversold
      BY DEF NoneOversold, OfPart
    <2> QED BY <2>1, BasketSpec, Basket!StockCoversSales, PTL
  <1>6. StockSpec /\ part = "writers" => []NoneOversold
    <2>1. part = "writers" /\ Writers!NeverOversold => NoneOversold
      BY DEF NoneOversold, OfPart
    <2> QED BY <2>1, WritersSpec, Writers!StockCoversSales, PTL
  <1> QED BY <1>1, <1>2, <1>3, <1>4, <1>5, <1>6, OneOfTheParts, PTL DEF StockSpec

\* An order's goods are handed out at most once, by one device, in every part.
THEOREM GoodsHandedOutOnce == StockSpec => []HandedOut
  <1> USE PartAssumptions
  <1>1. StockSpec /\ part = "chain" => []HandedOut
    <2>1. part = "chain" /\ Chain!HandedOutOnce => HandedOut
      BY DEF HandedOut, OfPart
    <2> QED BY <2>1, ChainSpec, Chain!NoSecondHandout, PTL
  <1>2. StockSpec /\ part = "loss" => []HandedOut
    <2>1. part = "loss" /\ Loss!HandedOutOnce => HandedOut
      BY DEF HandedOut, OfPart
    <2> QED BY <2>1, LossSpec, Loss!NoSecondHandout, PTL
  <1>3. StockSpec /\ part = "rescue" => []HandedOut
    <2>1. part = "rescue" /\ Rescue!HandedOutOnce => HandedOut
      BY DEF HandedOut, OfPart
    <2> QED BY <2>1, RescueSpec, Rescue!NoSecondHandout, PTL
  <1>4. StockSpec /\ part = "regrant" => []HandedOut
    <2>1. part = "regrant" /\ Regrant!HandedOutOnce => HandedOut
      BY DEF HandedOut, OfPart
    <2> QED BY <2>1, RegrantSpec, Regrant!NoSecondHandout, PTL
  <1>5. StockSpec /\ part = "basket" => []HandedOut
    <2>1. part = "basket" /\ Basket!HandedOutOnce => HandedOut
      BY DEF HandedOut, OfPart
    <2> QED BY <2>1, BasketSpec, Basket!NoSecondHandout, PTL
  <1>6. StockSpec /\ part = "writers" => []HandedOut
    <2>1. part = "writers" /\ Writers!HandedOutOnce => HandedOut
      BY DEF HandedOut, OfPart
    <2> QED BY <2>1, WritersSpec, Writers!NoSecondHandout, PTL
  <1> QED BY <1>1, <1>2, <1>3, <1>4, <1>5, <1>6, OneOfTheParts, PTL DEF StockSpec

\* Whatever moves, is lost or is edited, entrusted stock keeps its promise and a
\* device its sales, in every part.
THEOREM PartsKeepThePromise == StockSpec => StockPromised
  <1> USE PartAssumptions
  <1> DEFINE Starts == OfPart(Chain!Promise!Init, Loss!Promise!Init, Rescue!Promise!Init,
                              Regrant!Promise!Init, Basket!Promise!Init, Writers!Promise!Init)
             Promises == OfPart(Chain!KeepsPromise, Loss!KeepsPromise, Rescue!KeepsPromise,
                                Regrant!KeepsPromise, Basket!KeepsPromise, Writers!KeepsPromise)
             Keeps == OfPart(Chain!KeepsSales, Loss!KeepsSales, Rescue!KeepsSales,
                             Regrant!KeepsSales, Basket!KeepsSales, Writers!KeepsSales)
  <1>1. StockSpec /\ part = "chain"
          => Starts /\ [][Promises]_stockVars /\ [][Keeps]_stockVars
    <2>1. part = "chain" /\ Chain!Promise!Init => Starts
      BY DEF OfPart
    <2>2. part = "chain" /\ Chain!KeepsPromise => [Promises]_stockVars
      BY DEF OfPart
    <2>3. part = "chain" /\ part' = part /\ [Chain!KeepsSales]_(Chain!vars)
          => [Keeps]_stockVars
      BY DEF OfPart, stockVars, vars, Chain!vars
    <2> QED BY <2>1, <2>2, <2>3, SamePart, ChainSpec, Chain!KeepsItsPromise,
        Chain!NoSaleForgotten, PTL
        DEF StockSpec, Chain!Promised, Chain!Promise!Spec, Chain!KeepsPromise, Chain!SalesAreKept
  <1>2. StockSpec /\ part = "loss"
          => Starts /\ [][Promises]_stockVars /\ [][Keeps]_stockVars
    <2>1. part = "loss" /\ Loss!Promise!Init => Starts
      BY DEF OfPart
    <2>2. part = "loss" /\ Loss!KeepsPromise => [Promises]_stockVars
      BY DEF OfPart
    <2>3. part = "loss" /\ part' = part /\ [Loss!KeepsSales]_(Loss!vars)
          => [Keeps]_stockVars
      BY DEF OfPart, stockVars, vars, Loss!vars
    <2> QED BY <2>1, <2>2, <2>3, SamePart, LossSpec, Loss!KeepsItsPromise,
        Loss!NoSaleForgotten, PTL
        DEF StockSpec, Loss!Promised, Loss!Promise!Spec, Loss!KeepsPromise, Loss!SalesAreKept
  <1>3. StockSpec /\ part = "rescue"
          => Starts /\ [][Promises]_stockVars /\ [][Keeps]_stockVars
    <2>1. part = "rescue" /\ Rescue!Promise!Init => Starts
      BY DEF OfPart
    <2>2. part = "rescue" /\ Rescue!KeepsPromise => [Promises]_stockVars
      BY DEF OfPart
    <2>3. part = "rescue" /\ part' = part /\ [Rescue!KeepsSales]_(Rescue!vars)
          => [Keeps]_stockVars
      BY DEF OfPart, stockVars, vars, Rescue!vars
    <2> QED BY <2>1, <2>2, <2>3, SamePart, RescueSpec, Rescue!KeepsItsPromise,
        Rescue!NoSaleForgotten, PTL
        DEF StockSpec, Rescue!Promised, Rescue!Promise!Spec, Rescue!KeepsPromise, Rescue!SalesAreKept
  <1>4. StockSpec /\ part = "regrant"
          => Starts /\ [][Promises]_stockVars /\ [][Keeps]_stockVars
    <2>1. part = "regrant" /\ Regrant!Promise!Init => Starts
      BY DEF OfPart
    <2>2. part = "regrant" /\ Regrant!KeepsPromise => [Promises]_stockVars
      BY DEF OfPart
    <2>3. part = "regrant" /\ part' = part /\ [Regrant!KeepsSales]_(Regrant!vars)
          => [Keeps]_stockVars
      BY DEF OfPart, stockVars, vars, Regrant!vars
    <2> QED BY <2>1, <2>2, <2>3, SamePart, RegrantSpec, Regrant!KeepsItsPromise,
        Regrant!NoSaleForgotten, PTL
        DEF StockSpec, Regrant!Promised, Regrant!Promise!Spec, Regrant!KeepsPromise, Regrant!SalesAreKept
  <1>5. StockSpec /\ part = "basket"
          => Starts /\ [][Promises]_stockVars /\ [][Keeps]_stockVars
    <2>1. part = "basket" /\ Basket!Promise!Init => Starts
      BY DEF OfPart
    <2>2. part = "basket" /\ Basket!KeepsPromise => [Promises]_stockVars
      BY DEF OfPart
    <2>3. part = "basket" /\ part' = part /\ [Basket!KeepsSales]_(Basket!vars)
          => [Keeps]_stockVars
      BY DEF OfPart, stockVars, vars, Basket!vars
    <2> QED BY <2>1, <2>2, <2>3, SamePart, BasketSpec, Basket!KeepsItsPromise,
        Basket!NoSaleForgotten, PTL
        DEF StockSpec, Basket!Promised, Basket!Promise!Spec, Basket!KeepsPromise, Basket!SalesAreKept
  <1>6. StockSpec /\ part = "writers"
          => Starts /\ [][Promises]_stockVars /\ [][Keeps]_stockVars
    <2>1. part = "writers" /\ Writers!Promise!Init => Starts
      BY DEF OfPart
    <2>2. part = "writers" /\ Writers!KeepsPromise => [Promises]_stockVars
      BY DEF OfPart
    <2>3. part = "writers" /\ part' = part /\ [Writers!KeepsSales]_(Writers!vars)
          => [Keeps]_stockVars
      BY DEF OfPart, stockVars, vars, Writers!vars
    <2> QED BY <2>1, <2>2, <2>3, SamePart, WritersSpec, Writers!KeepsItsPromise,
        Writers!NoSaleForgotten, PTL
        DEF StockSpec, Writers!Promised, Writers!Promise!Spec, Writers!KeepsPromise, Writers!SalesAreKept
  <1> QED BY <1>1, <1>2, <1>3, <1>4, <1>5, <1>6, OneOfTheParts, PTL
      DEF StockSpec, StockPromised
=============================================================================
