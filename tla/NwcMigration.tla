------------------------------- MODULE NwcMigration -------------------------------
(***************************************************************************)
(* Moving a merchant's NWC connection from the place an older version kept *)
(* it (localStorage, one key per account) to a Connected Wallet in         *)
(* IndexedDB (wallet-migration.ts: migrateAccountNwcConnection, called by  *)
(* useMerchantPaymentAutomation.tsx).  Storage without transactions over   *)
(* both places: register, read back, retire the old copy, or take the new  *)
(* one back.                                                               *)
(*                                                                         *)
(* An attempt is one call of migrateAccountNwcConnection.  A page makes a  *)
(* new one whenever the account, its session or the URI changes, and every *)
(* open tab makes its own.                                                 *)
(***************************************************************************)
EXTENDS Naturals, FiniteSets

CONSTANTS
  Attempts,     \* calls of migrateAccountNwcConnection that may run
  Uris,         \* NWC connections, told apart by their fingerprint
  NoUri,
  MaxWallets    \* bound: Connected Wallets ever registered

NoUriAssumption == NoUri \notin Uris
BoundAssumption == MaxWallets \in Nat \ {0}

VARIABLES
  legacy,       \* the account's key in localStorage
  wallets,      \* per wallet id its credential and who registered it
  job,          \* per attempt
  entrusted     \* what the merchant entered and did not take away (history)

vars == <<legacy, wallets, job, entrusted>>

Ids == 1 .. MaxWallets
Hand == "hand"       \* connected by hand, before
Wallet == [uri : Uris, by : Attempts \cup {Hand}]
NoWallet == [uri |-> NoUri, by |-> Hand]
Removed == [uri |-> NoUri, by |-> "removed"]      \* an id is used once

Steps == {"idle", "connect", "registered", "verify", "compensate"}
Job == [step : Steps, uri : Uris \cup {NoUri}, id : Ids \cup {0}, created : BOOLEAN,
        current : BOOLEAN]     \* the signer and the session it began with are current
Idle == [step |-> "idle", uri |-> NoUri, id |-> 0, created |-> FALSE, current |-> TRUE]

Registered == {i \in Ids : wallets[i] \notin {NoWallet, Removed}}
Unused == {i \in Ids : wallets[i] = NoWallet}
Copies == {wallets[i].uri : i \in Registered} \cup ({legacy} \ {NoUri})

\* shouldContinue: the session is the same and the old place still has the URI.
ShouldContinue(a) == job[a].current /\ legacy = job[a].uri

Goto(a, step) == job' = [job EXCEPT ![a].step = step]
End(a) == job' = [job EXCEPT ![a] = Idle]

-----------------------------------------------------------------------------
(* One attempt.                                                            *)

\* The page's effect finds a URI in the old place.
Start(a) ==
  /\ job[a].step = "idle"
  /\ legacy # NoUri
  /\ job' = [job EXCEPT ![a] = [Idle EXCEPT !.step = "connect", !.uri = legacy]]
  /\ UNCHANGED <<legacy, wallets, entrusted>>

\* findWalletIdsByUri.
Matching(uri) == {i \in Registered : wallets[i].uri = uri}

\* connectNwc: after the wallet has answered, one transaction finds a wallet of
\* this connection or registers one.
Connect(a) ==
  /\ job[a].step = "connect"
  /\ \/ /\ ~ShouldContinue(a)
        /\ End(a)
        /\ UNCHANGED wallets
     \/ /\ ShouldContinue(a)
        /\ \E i \in Matching(job[a].uri) :
             job' = [job EXCEPT ![a].step = "registered", ![a].id = i]
        /\ UNCHANGED wallets
     \/ /\ ShouldContinue(a)
        /\ Matching(job[a].uri) = {}
        /\ \E i \in Unused :
             /\ \A k \in Unused : i <= k
             /\ wallets' = [wallets EXCEPT ![i] = [uri |-> job[a].uri, by |-> a]]
             /\ job' = [job EXCEPT ![a].step = "registered", ![a].id = i,
                                   ![a].created = TRUE]
  /\ UNCHANGED <<legacy, entrusted>>

\* The connection fails or the transaction is rolled back.
ConnectFails(a) ==
  /\ job[a].step = "connect"
  /\ End(a)
  /\ UNCHANGED <<legacy, wallets, entrusted>>

\* connectNwc asks once more, then reloads the list.
ConnectReturns(a) ==
  /\ job[a].step = "registered"
  /\ Goto(a, IF ShouldContinue(a) THEN "verify" ELSE "compensate")
  /\ UNCHANGED <<legacy, wallets, entrusted>>

\* The copy is read back.
Verified(a) == job[a].id \in Registered /\ wallets[job[a].id].uri = job[a].uri

\* Mutant of Retire: after a removal that threw, the copy is taken back.
RetireUnsure(a) ==
  /\ legacy' \in {legacy, NoUri}
  /\ End(a) \/ Goto(a, "compensate")

\* retireLegacy.  Storage may refuse before anything was removed (unchanged), or
\* throw in the removal (uncertain: it may have happened, the copy is kept).
Retire(a) ==
  \/ /\ legacy = job[a].uri
     /\ legacy' = NoUri
     /\ End(a)
  \/ /\ legacy' = legacy
     /\ End(a)
  \/ /\ legacy' = legacy
     /\ Goto(a, "compensate")

\* The transaction that verifies and retires.
VerifyAndRetire(a) ==
  /\ job[a].step = "verify"
  /\ IF ShouldContinue(a) /\ Verified(a)
     THEN Retire(a)
     ELSE Goto(a, "compensate") /\ UNCHANGED legacy
  /\ UNCHANGED <<wallets, entrusted>>

\* Mutant of Compensable: a wallet that was there before is taken back too.
CompensableAny(a) ==
  job[a].id \in Registered /\ wallets[job[a].id].uri = job[a].uri

\* The old place is unchanged: only a wallet this attempt registered is taken
\* back, and only if it still is what was registered.
Compensable(a) ==
  /\ job[a].created
  /\ job[a].id \in Registered
  /\ wallets[job[a].id].uri = job[a].uri

Compensate(a) ==
  /\ job[a].step = "compensate"
  /\ wallets' = IF Compensable(a)
                THEN [wallets EXCEPT ![job[a].id] = Removed] ELSE wallets
  /\ End(a)
  /\ UNCHANGED <<legacy, entrusted>>

\* The page goes away in the middle.
Crash(a) ==
  /\ job[a].step # "idle"
  /\ End(a)
  /\ UNCHANGED <<legacy, wallets, entrusted>>

-----------------------------------------------------------------------------
(* The merchant.                                                           *)

\* Another sign-in: what runs is no longer current.
SessionChanges ==
  /\ job' = [a \in Attempts |->
               IF job[a].step = "idle" THEN job[a] ELSE [job[a] EXCEPT !.current = FALSE]]
  /\ UNCHANGED <<legacy, wallets, entrusted>>

\* setUri: another connection takes the old place.
SetUri(uri) ==
  /\ uri \notin Copies
  /\ legacy' = uri
  /\ entrusted' = (entrusted \ {legacy}) \cup {uri}
  /\ UNCHANGED <<wallets, job>>

\* disconnect.
Disconnect ==
  /\ legacy # NoUri
  /\ legacy' = NoUri
  /\ entrusted' = entrusted \ {legacy}
  /\ UNCHANGED <<wallets, job>>

\* removeWallet.
RemoveWallet(i) ==
  /\ i \in Registered
  /\ wallets' = [wallets EXCEPT ![i] = Removed]
  /\ entrusted' = IF wallets[i].uri = legacy THEN entrusted ELSE entrusted \ {wallets[i].uri}
  /\ UNCHANGED <<legacy, job>>

-----------------------------------------------------------------------------
\* Perhaps the merchant had connected one by hand before.
Init ==
  /\ legacy \in Uris \cup {NoUri}
  /\ wallets \in {[i \in Ids |-> NoWallet]} \cup
       {[i \in Ids |-> IF i = 1 THEN [uri |-> u, by |-> Hand] ELSE NoWallet] : u \in Uris}
  /\ job = [a \in Attempts |-> Idle]
  /\ entrusted = Copies

Attempt(a) ==
  \/ Start(a) \/ Connect(a) \/ ConnectFails(a) \/ ConnectReturns(a)
  \/ VerifyAndRetire(a) \/ Compensate(a) \/ Crash(a)

Merchant ==
  \/ SessionChanges \/ Disconnect
  \/ \E uri \in Uris : SetUri(uri)
  \/ \E i \in Ids : RemoveWallet(i)

Next == (\E a \in Attempts : Attempt(a)) \/ Merchant

Spec == Init /\ [][Next]_vars

\* Only one tab migrates at a time.
OneAtATime ==
  \A a, b \in Attempts : job[a].step # "idle" /\ job[b].step # "idle" => a = b

SerialSpec == Init /\ [][Next /\ OneAtATime']_vars

-----------------------------------------------------------------------------
(* Properties.                                                             *)

TypeOK ==
  /\ legacy \in Uris \cup {NoUri}
  /\ wallets \in [Ids -> Wallet \cup {NoWallet, Removed}]
  /\ job \in [Attempts -> Job]
  /\ entrusted \subseteq Uris

\* Whatever fails, ends or changes in the middle, a connection the merchant entered
\* and did not take away is in the old place or in a Connected Wallet: "Only an
\* explicit unchanged result proves compensation is safe".  True of SerialSpec.
NeverLost == entrusted \subseteq Copies

\* However many tabs migrate, one connection becomes one wallet.
OneWallet ==
  \A i, k \in Registered : wallets[i].uri = wallets[k].uri => i = k

\* The old copy goes only while a verified new one exists.
RetiredBehindCopy ==
  [][\A uri \in Uris :
       (legacy = uri /\ legacy' = NoUri /\ uri \in entrusted')
         => \E i \in Registered : wallets[i].uri = uri]_vars

\* A migration, whatever it undoes, takes back no wallet but the one it registered:
\* not the merchant's own, not the one another tab migrated to.
OwnCopyOnly ==
  [][\A i \in Registered :
       (wallets'[i] = Removed /\ job' # job)
         => \E a \in Attempts : wallets[i].by = a /\ job'[a] # job[a]]_vars

=============================================================================
