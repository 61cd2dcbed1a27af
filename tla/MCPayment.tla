------------------------------- MODULE MCPayment -------------------------------
(* The payment of an order for TLC, safety: two tabs with a wallet; a tab    *)
(* and two tabs with a public zap; a tab whose buyer may pay by hand, or     *)
(* both ways.                                                                *)
EXTENDS OrderPayment, TLC

VARIABLE part  \* which of them
paymentVars == <<part, vars>>

ASSUME PaymentAssumptions == PaymentAssumption

PaymentInit ==
  /\ Init
  /\ \/ part = "wallet" /\ ~ row.public /\ row.target = "wallet"
     \/ part \in {"zap", "zap_tabs"} /\ row.public /\ row.target = "wallet"
     \/ part = "either" /\ ~ row.public

\* One of the two tabs at a time does something with this order but recover it.
OneTab == \E t \in Tabs : run[t] = Idle /\ courier[t] = Idle

InPart ==
  /\ part # "either" => row.target = "wallet"
  /\ part \in {"zap", "either"} => OneTab
  /\ part = "zap_tabs" => /\ Cardinality({i \in Invoices : wallet[i] # "unknown"}) <= 1
                          /\ closes = 0

PaymentNext == Next /\ UNCHANGED part /\ InPart'

PaymentSpec == PaymentInit /\ [][PaymentNext]_paymentVars

Symmetry == Permutations(Tabs) \cup Permutations(Claims) \cup Permutations(Invoices)
===============================================================================
