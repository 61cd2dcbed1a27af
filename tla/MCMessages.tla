------------------------------ MODULE MCMessages ------------------------------
(* Private messages for TLC: where an account receives them, and how one is *)
(* delivered.  The two share no variable, so that each is explored with the *)
(* other at rest: the cutover with tabs that run on, the delivery with tabs *)
(* that run on and with one that may be frozen.                             *)
EXTENDS PrivateDelivery, TLC

CONSTANTS
  Parts,                                       \* the parts to explore
  Devices, Tabs, DeviceOf, Order, Shared, Own, \* of InboxCutover
  Inboxes, Removable, First, Other, MaxAt, MaxOther

VARIABLES
  part,  \* what is explored
  db, plan, held, took, owed

cutoverVars == <<db, plan, held, took, owed>>
messageVars == <<part, cutoverVars, vars>>

Inbox == INSTANCE InboxCutover WITH job <- plan

\* One device; at equal times its declarations give way to another client's.
OneDevice == [t \in Tabs |-> CHOOSE d \in Devices : TRUE]
OtherFirst == [a \in Devices \cup {Other} |-> IF a = Other THEN 0 ELSE 1]

\* Its tabs are alike.
Symmetry == Permutations(Tabs)

ASSUME MessageAssumptions ==
  Inbox!CutoverAssumption /\ NoneAssumption /\ ParameterAssumption

CutoverMoves == UNCHANGED <<part, vars>>
DeliveryMoves == UNCHANGED <<part, cutoverVars>>

MessagesInit == part \in Parts /\ Inbox!Init /\ Init

\* A tab may freeze: then the sender wants no copy, and nobody sends again to a relay
\* that has acknowledged.
MainRowOnly ==
  \A w \in Workers :
    /\ job'[w].row = "main"
    /\ job[w].step = "idle" => job'[w].targets \cap row["main"].acked = {}

MessagesNext ==
  \/ part = "cutover" /\ Inbox!Next /\ CutoverMoves
  \/ part = "attentive" /\ AttentiveNext /\ DeliveryMoves
  \/ part = "freezing" /\ Next /\ MainRowOnly /\ DeliveryMoves

MessagesSpec == MessagesInit /\ [][MessagesNext]_messageVars

-----------------------------------------------------------------------------
(* The properties.                                                         *)

\* A replaced inbox is read until the replacement is confirmed, and what is
\* recorded as read back had reached the relay (with the types of the cutover).
InboxesRead == Inbox!TypeOK /\ Inbox!ReadUntilConfirmed /\ Inbox!ObservedIsHeld

\* While no tab freezes, one worker at a time is on a row, and a send owns its
\* row until it has ended.
OneOwner == part = "attentive" => OneHolder /\ OwnedUntilExit

\* No late result of a tab takes back what another one recorded: not an outcome
\* of a pending declaration, not a newer declaration, not an acknowledgement.
OutcomesKept ==
  /\ Inbox!OutcomesKept /\ Inbox!FrontierForward
  /\ AckKept

=============================================================================
