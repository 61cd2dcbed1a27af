------------------------------- MODULE MCPages -------------------------------
(***************************************************************************)
(* Pages that pay one leg beside one another, for TLC: two tabs of the     *)
(* shopper's device, or a tab each of two merchant devices after the       *)
(* shopper has left.                                                       *)
(***************************************************************************)
EXTENDS SettledOutgoing, TLC

CONSTANTS s1, m1, m2, t1, t2

ThreeDevices == {s1, m1, m2}
BuyerTabs == {t1, t2}
MerchantTabs == {m1, m2}
FourTabs == BuyerTabs \cup MerchantTabs
OnDevice == [t \in FourTabs |-> IF t \in BuyerTabs THEN s1 ELSE t]
NoSkew == [d \in Devices |-> 0]

\* The shopper funded the checkout and never came back; at takeover two merchant
\* devices have saved the first snapshot and observed the credit.  Reached from
\* Init by Tick, Import and ObserveCredit.
ShopperLeft ==
  LET created == CreateReconciliation(0)
  IN /\ now = TakeoverAt
     /\ db = [d \in Devices |->
                IF d = Shopper
                THEN [revision |-> 1, state |-> created]
                ELSE [revision |-> 2, state |-> RecordCredit(created, Clock(d))]]
     /\ relays = {[author |-> "shopper", state |-> created]}
     /\ job = [t \in Tabs |-> IdleJob]
     /\ caps = [t \in Tabs |-> [l \in Legs |-> 0]]
     /\ history = [id \in TransferIds |-> NoTransfer]
     /\ wire = {}
     /\ calls = [d \in Devices |-> [p \in Legs \X Generations |-> 0]]

PagesInit == Init \/ ShopperLeft

PagesSpec == PagesInit /\ [][Next]_vars

\* The tabs that are open: the merchants', where they have a row.
Acting == IF \A d \in MerchantTabs : db[d].revision > 0 THEN MerchantTabs ELSE BuyerTabs

\* The others take no step, and the rows of their devices stay.
OthersRest ==
  /\ \A t \in Tabs \ Acting : job'[t] = job[t]
  /\ \A d \in Devices \ {DeviceOf[t] : t \in Acting} : db'[d] = db[d]

\* The merchants' rows and the relays have a smaller bound.
MerchantBounds ==
  Acting = MerchantTabs => /\ \A d \in Devices : db'[d].revision <= 5
                           /\ Cardinality(relays') <= 5

MerchantSymmetry == Permutations(MerchantTabs)
=============================================================================
