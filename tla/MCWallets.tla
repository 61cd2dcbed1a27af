------------------------------- MODULE MCWallets -------------------------------
(***************************************************************************)
(* The wallets for TLC: the native transfer of a checkout to the treasury, *)
(* with two pages of the shopper, two merchants, and a shopper and a       *)
(* merchant; live wallet sessions of two pages, of a registration beside a *)
(* checkout's wallet and of two registrations of one seed; the migration   *)
(* of an NWC connection, with attempts that overlap and one at a time.     *)
(* They share no variable: one is explored with the others at rest.        *)
(***************************************************************************)
EXTENDS WalletSession, TLC

CONSTANTS
  q1, q2,                          \* two pages, merchants, or attempts
  s1, m3, NoDevice,                \* the shopper, and a merchant who takes over
  w1, w2, c1, seed, other,         \* registrations, a checkout's wallet, their seeds
  Attempts, Uris, NoUri, MaxWallets \* of NwcMigration

VARIABLES
  part,  \* what is explored
  late, db, relays, spend, caps, admitted, transfer, wire, calls,
  legacy, wallets, job, entrusted

treasuryVars == <<late, db, relays, spend, caps, admitted, transfer, wire, calls>>
migrationVars == <<legacy, wallets, job, entrusted>>
walletVars == <<part, treasuryVars, vars, migrationVars>>

TwoPages == {q1, q2}
ThreeWallets == {w1, w2, c1}
CheckoutWallet == {c1}
Seeds == [w \in ThreeWallets |-> IF w = c1 THEN other ELSE seed]

\* Which device a page is of.
OfShopper == [t \in {q1, q2} |-> s1]
OfMerchants == [t \in {q1, q2} |-> t]
OfEither == [t \in {s1, m3} |-> t]

\* The native treasury with its theorems, which hold of each of the three.
Buyer == INSTANCE NativeTreasuryProofs WITH
  Devices <- {s1}, Shopper <- s1, Tabs <- {q1, q2}, DeviceOf <- OfShopper,
  MaxRevision <- 7, MaxAttempts <- 2, job <- spend
Merchants == INSTANCE NativeTreasuryProofs WITH
  Devices <- {s1, q1, q2}, Shopper <- s1, Tabs <- {q1, q2}, DeviceOf <- OfMerchants,
  MaxRevision <- 4, MaxAttempts <- 2, job <- spend
Takeover == INSTANCE NativeTreasuryProofs WITH
  Devices <- {s1, m3}, Shopper <- s1, Tabs <- {s1, m3}, DeviceOf <- OfEither,
  MaxRevision <- 4, MaxAttempts <- 2, job <- spend

Migration == INSTANCE NwcMigration

ASSUME PartAssumptions ==
  /\ WalletAssumption /\ CreatedAssumption
  /\ Buyer!DeviceAssumption /\ Buyer!BoundAssumption
  /\ Merchants!DeviceAssumption /\ Merchants!BoundAssumption
  /\ Takeover!DeviceAssumption /\ Takeover!BoundAssumption
  /\ Migration!NoUriAssumption /\ Migration!BoundAssumption

TreasuryAtRest == Buyer!Init
SessionAtRest == Init
MigrationAtRest == Migration!Init /\ legacy = NoUri /\ Migration!Registered = {}

WalletsInit ==
  \/ part = "pages" /\ Buyer!Init /\ SessionAtRest /\ MigrationAtRest
  \/ part = "merchants" /\ Merchants!Init /\ SessionAtRest /\ MigrationAtRest
  \/ part = "takeover" /\ Takeover!Init /\ SessionAtRest /\ MigrationAtRest
  \/ part = "checkouts" /\ Init /\ TreasuryAtRest /\ MigrationAtRest
  \/ part = "shared" /\ Init /\ TreasuryAtRest /\ MigrationAtRest
  \/ part \in {"overlapping", "single"} /\ Migration!Init /\ TreasuryAtRest /\ SessionAtRest

TreasuryMoves == UNCHANGED <<part, vars, migrationVars>>
SessionMoves == UNCHANGED <<part, treasuryVars, migrationVars>>
MigrationMoves == UNCHANGED <<part, treasuryVars, vars>>

\* Nobody asks for the wallet.
Rests(w) ==
  /\ registered'[w] = registered[w] /\ w \notin hidden'
  /\ \A q \in TwoPages : op'[<<q, w>>] = NoOp

WalletsNext ==
  \/ part = "pages" /\ Buyer!Next /\ TreasuryMoves
  \/ part = "merchants" /\ Merchants!Next /\ TreasuryMoves
  \/ part = "takeover" /\ Takeover!Next /\ TreasuryMoves
  \/ part = "checkouts" /\ Next /\ Rests(w2) /\ SessionMoves
  \/ part = "shared" /\ Next /\ Rests(c1) /\ created' = 1 /\ SessionMoves
  \/ part = "overlapping" /\ Migration!Next /\ MigrationMoves
  \/ part = "single" /\ Migration!Next /\ Migration!OneAtATime' /\ MigrationMoves

WalletsSpec == WalletsInit /\ [][WalletsNext]_walletVars

\* In every part the two are alike.
Symmetry == Permutations(TwoPages)

-----------------------------------------------------------------------------
(* The properties, of the part that is explored.                           *)

OfTreasury(pages, merchants, takeover) ==
  CASE part = "pages" -> pages
    [] part = "merchants" -> merchants
    [] part = "takeover" -> takeover
    [] OTHER -> TRUE

\* A device hands the treasury's invoice to the SDK once, when the relays already
\* show that it may; no possible send is taken back; and what a row calls paid the
\* provider has committed (with the types of the rows and pages).
TreasuryPaidOnce ==
  /\ OfTreasury(Buyer!TypeOK, Merchants!TypeOK, Takeover!TypeOK)
  /\ OfTreasury(Buyer!AtMostOneCall, Merchants!AtMostOneCall, Takeover!AtMostOneCall)
  /\ OfTreasury(Buyer!MarkedAhead, Merchants!MarkedAhead, Takeover!MarkedAhead)
  /\ OfTreasury(Buyer!TakenBackUnsent, Merchants!TakenBackUnsent, Takeover!TakenBackUnsent)
  /\ OfTreasury(Buyer!PaidIsProven, Merchants!PaidIsProven, Takeover!PaidIsProven)

\* Once a device knows the transfer's id it never loses it.
ReferenceKept ==
  [][OfTreasury(Buyer!KeepsReference, Merchants!KeepsReference, Takeover!KeepsReference)]_walletVars

\* However many tabs migrate, one connection becomes one wallet, and one attempt at
\* a time loses no connection (with the types of the migration).
ConnectionKept ==
  /\ Migration!TypeOK /\ Migration!OneWallet
  /\ part = "single" => Migration!NeverLost

\* A migration takes back no wallet but the one it registered, and the old copy
\* goes only while a verified new one exists.
OwnCopyOnly == Migration!OwnCopyOnly /\ Migration!RetiredBehindCopy

=============================================================================
