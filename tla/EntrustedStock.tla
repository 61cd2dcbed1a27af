------------------------------ MODULE EntrustedStock ------------------------------
(***************************************************************************)
(* What entrusting stock to an organizer promises, as if there were one    *)
(* organizer, one seller and no network.  Units a seller entrusts may be   *)
(* sold at the event, up to the quantity entrusted and never after they    *)
(* are given back; the seller learns of the sales in the order they were   *)
(* made; the rest goes back only when it has learnt of all of them.        *)
(***************************************************************************)
EXTENDS Naturals, Sequences

CONSTANTS
  Grants,    \* entrusted pools of units
  Quantity,  \* the units of a pool
  Orders,    \* buyers' orders
  Lines      \* the units an order takes of each of its pools

VARIABLES
  entrusted,  \* pools that were entrusted
  sold,       \* the orders sold from a pool, in order
  learnt,     \* those the seller knows of
  returned    \* pools whose rest went back to the seller

vars == <<entrusted, sold, learnt, returned>>

\* The units a list of orders takes of pool p.
UnitsOf(p, list) ==
  LET sum[i \in 0 .. Len(list)] == IF i = 0 THEN 0 ELSE sum[i - 1] + Lines[list[i]][p]
  IN  sum[Len(list)]

SoldFrom(p) == {sold[p][i] : i \in DOMAIN sold[p]}

Init ==
  /\ entrusted = {} /\ returned = {}
  /\ sold = [p \in Grants |-> <<>>]
  /\ learnt = [p \in Grants |-> <<>>]

Entrust(p) ==
  /\ p \notin entrusted
  /\ entrusted' = entrusted \cup {p}
  /\ UNCHANGED <<sold, learnt, returned>>

\* An order is sold from all its pools at once.
Sell(o) ==
  /\ \A p \in DOMAIN Lines[o] :
       /\ p \in entrusted \ returned
       /\ o \notin SoldFrom(p)
       /\ UnitsOf(p, Append(sold[p], o)) <= Quantity[p]
  /\ sold' = [p \in Grants |-> IF p \in DOMAIN Lines[o] THEN Append(sold[p], o) ELSE sold[p]]
  /\ UNCHANGED <<entrusted, learnt, returned>>

Learn(o) ==
  /\ \A p \in DOMAIN Lines[o] :
       /\ p \notin returned
       /\ Len(learnt[p]) < Len(sold[p]) /\ sold[p][Len(learnt[p]) + 1] = o
  /\ learnt' = [p \in Grants |->
                  IF p \in DOMAIN Lines[o] THEN Append(learnt[p], o) ELSE learnt[p]]
  /\ UNCHANGED <<entrusted, sold, returned>>

Return(p) ==
  /\ p \in entrusted \ returned /\ learnt[p] = sold[p]
  /\ returned' = returned \cup {p}
  /\ UNCHANGED <<entrusted, sold, learnt>>

Next ==
  \/ \E p \in Grants : Entrust(p) \/ Return(p)
  \/ \E o \in Orders : Sell(o) \/ Learn(o)

Spec == Init /\ [][Next]_vars
=============================================================================
