------------------------------- MODULE Payouts -------------------------------
(***************************************************************************)
(* What paying out a settled checkout promises, with no devices, tabs,     *)
(* databases or relays: the money of each leg leaves the wallet at most    *)
(* once at a time, in the order of the plan - so the Conduit fee, the last *)
(* leg, leaves only after everybody else was paid - and leaves a second    *)
(* time only after all of it came back, once.                              *)
(***************************************************************************)
EXTENDS Integers

CONSTANT NumLegs   \* the recipients of the plan, at least one

VARIABLES
  money,    \* where the money of each leg is
  retried   \* whether it left a second time

payoutVars == <<money, retried>>

Payees == 1 .. NumLegs

Init ==
  /\ money = [l \in Payees |-> "none"]
  /\ retried = [l \in Payees |-> FALSE]

EarlierPaid(l) == \A m \in 1 .. l - 1 : money[m] = "paid"

Moves(l, from, to) == money[l] = from /\ money' = [money EXCEPT ![l] = to]

Release(l) ==
  /\ EarlierPaid(l)
  /\ Moves(l, "none", "pending")
  /\ UNCHANGED retried

Settle(l) == Moves(l, "pending", "paid") /\ UNCHANGED retried
Fail(l) == Moves(l, "pending", "failed") /\ UNCHANGED retried
Return(l) == Moves(l, "failed", "returned") /\ UNCHANGED retried

Retry(l) ==
  /\ EarlierPaid(l)
  /\ ~retried[l]
  /\ Moves(l, "returned", "pending")
  /\ retried' = [retried EXCEPT ![l] = TRUE]

Next == \E l \in Payees :
  Release(l) \/ Settle(l) \/ Fail(l) \/ Return(l) \/ Retry(l)

Spec == Init /\ [][Next]_payoutVars
=============================================================================
