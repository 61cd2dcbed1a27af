-------------------------- MODULE MCSettledOutgoing --------------------------
(* Small instances of SettledOutgoing for TLC.                             *)
EXTENDS SettledOutgoing, TLC

CONSTANTS s1, m1

\* One shopper tab and one merchant tab, each on its own device.
TwoDevices == {s1, m1}
OneTabEach == [t \in {s1, m1} |-> t]

\* One tab of one merchant.
OneMerchantTab == {m1}
OnMerchant == [t \in {m1} |-> t]

NoSkew == [d \in Devices |-> 0]
\* The merchants' clocks run ahead of the shopper's.
MerchantAhead == [d \in Devices |-> IF d = Shopper THEN 0 ELSE 1]
=============================================================================
