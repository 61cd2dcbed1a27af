------------------------------ MODULE WalletSession ------------------------------
(***************************************************************************)
(* One live session per portable wallet, in a browser with many pages.     *)
(*                                                                         *)
(* A session holds two Web Locks, of its registration and of the identity  *)
(* its seed derives: two registrations may share a seed.  They are asked   *)
(* for if available, one after the other.  Opening and removing a          *)
(* registration are serialised by a third lock, which is waited for.       *)
(* Closing needs no lock: the lock button, a sign-out, and the refresh     *)
(* that closes what is no longer registered may close at any moment.       *)
(* Registrations come and go underneath, by recovery sync.  The SDK may    *)
(* fail to open, and its disconnect may fail.                              *)
(***************************************************************************)
EXTENDS Naturals

CONSTANTS
  Pages,       \* open tabs
  Wallets,     \* registrations
  Checkout,    \* wallets of checkouts: never registered, opened without the lock
  Identity,    \* the identity a wallet's seed derives
  NoPage,      \* a free lock
  MaxCreated   \* bound on how often a wallet is registered

WalletAssumption == Checkout \subseteq Wallets /\ NoPage \notin Pages
CreatedAssumption == MaxCreated \in Nat

VARIABLES
  registered,   \* createdAt of a wallet's registration, 0: none
  created,      \* the last createdAt
  hidden,       \* registrations the account has removed: accountRemoved
  locks,        \* who holds each lock
  client,       \* a page's record of its SDK client for a wallet
  connected,    \* SDK clients that are connected
  closing,      \* a page's close attempts
  op            \* a page's operation on a wallet

vars == <<registered, created, hidden, locks, client, connected, closing, op>>

-----------------------------------------------------------------------------
(* State.                                                                  *)

RegistrationLock(w) == <<"registration", w>>
IdentityLock(w) == <<"identity", Identity[w]>>
OperationLock(w) == <<"operation", w>>
LockNames == {RegistrationLock(w) : w \in Wallets}
               \cup {IdentityLock(w) : w \in Wallets}
               \cup {OperationLock(w) : w \in Wallets}

Sessions == Pages \X Wallets

Clients == {"none", "open", "quarantined"}
Closings == {"none", "disconnect", "release"}
OpenSteps == {"queued", "list", "resolve", "close_own", "registration", "identity",
              "unlock", "factory", "attach", "undo", "validate", "after_open",
              "revalidate", "commit", "cleanup", "verify", "abandon"}
RemoveSteps == {"queued", "check", "cleanup", "verify", "sync", "remove"}
NoOp == [kind |-> "none", step |-> "idle", expected |-> 0]
Ops == {NoOp} \cup [kind : {"open", "checkout"}, step : OpenSteps, expected : 0 .. MaxCreated]
              \cup [kind : {"remove"}, step : RemoveSteps, expected : 0 .. MaxCreated]

At(x, kind, step) == op[x].kind = kind /\ op[x].step = step
Opening(x, step) == op[x].kind \in {"open", "checkout"} /\ op[x].step = step
Goto(x, step) == op' = [op EXCEPT ![x].step = step]
Free(lock) == locks[lock] = NoPage

\* listVisible: the createdAt of what the account still has.
Visible(w) == IF w \in hidden THEN 0 ELSE registered[w]

\* Mutant of Ended: a failed operation keeps its lock.
EndedLocked(x, held) == op' = [op EXCEPT ![x] = NoOp] /\ locks' = held

\* The operation ends, well or by throwing: its lock's callback returns.
Ended(x, held) ==
  /\ op' = [op EXCEPT ![x] = NoOp]
  /\ locks' = IF held[OperationLock(x[2])] = x[1] /\ op[x].kind \in {"open", "remove"}
              THEN [held EXCEPT ![OperationLock(x[2])] = NoPage] ELSE held

\* Both locks of a session are given back, whichever release fails.
Released(x) == [locks EXCEPT ![IdentityLock(x[2])] = NoPage,
                             ![RegistrationLock(x[2])] = NoPage]

Init ==
  /\ registered = [w \in Wallets |-> IF w \in Checkout \/ MaxCreated = 0 THEN 0 ELSE 1]
  /\ created = IF MaxCreated = 0 THEN 0 ELSE 1
  /\ hidden = {}
  /\ locks = [l \in LockNames |-> NoPage]
  /\ client = [x \in Sessions |-> "none"]
  /\ connected = {}
  /\ closing = [x \in Sessions |-> "none"]
  /\ op = [x \in Sessions |-> NoOp]

-----------------------------------------------------------------------------
(* Closing.                                                                *)

Close(x) ==
  IF client[x] = "none" \/ closing[x] # "none"
  THEN UNCHANGED <<client, closing>>
  ELSE /\ client' = [client EXCEPT ![x] = "quarantined"]
       /\ closing' = [closing EXCEPT ![x] = "disconnect"]

\* The lock button, a sign-out, the refresh of the visible wallets.  An operation
\* that awaits a close joins it, and goes on as soon as it has ended.
CloseOutside(x) ==
  /\ client[x] # "none" /\ closing[x] = "none"
  /\ op[x].step \notin {"close_own", "cleanup", "abandon"}
  /\ Close(x)
  /\ UNCHANGED <<registered, created, hidden, locks, connected, op>>

\* Disconnect: what is not confirmed stays locked and quarantined.
Disconnect(x) ==
  /\ closing[x] = "disconnect"
  /\ \/ /\ connected' = connected \ {x}
        /\ closing' = [closing EXCEPT ![x] = "release"]
     \/ /\ closing' = [closing EXCEPT ![x] = "none"]
        /\ UNCHANGED connected
  /\ UNCHANGED <<registered, created, hidden, locks, client, op>>

ReleaseSession(x) ==
  /\ closing[x] = "release"
  /\ locks' = Released(x)
  /\ client' = [client EXCEPT ![x] = "none"]
  /\ closing' = [closing EXCEPT ![x] = "none"]
  /\ UNCHANGED <<registered, created, hidden, connected, op>>

\* What awaits a close goes on when it has ended, and throws if it failed.
Closed(x) == closing[x] = "none" /\ client[x] = "none"
CloseFailed(x) == closing[x] = "none" /\ client[x] = "quarantined"

-----------------------------------------------------------------------------
(* Opening a registered wallet, and a checkout's own.                      *)

Queue(x, kind) ==
  /\ op[x] = NoOp
  /\ x[2] \notin Checkout
  /\ kind = "remove" => Visible(x[2]) # 0
  /\ op' = [op EXCEPT ![x] = [kind |-> kind, step |-> "queued",
                              expected |-> IF kind = "remove" THEN registered[x[2]] ELSE 0]]
  /\ UNCHANGED <<registered, created, hidden, locks, client, connected, closing>>

\* runWithSparkWalletOperationLock: the lock is waited for.
Granted(x) ==
  /\ op[x].step = "queued"
  /\ Free(OperationLock(x[2]))
  /\ locks' = [locks EXCEPT ![OperationLock(x[2])] = x[1]]
  /\ Goto(x, IF op[x].kind = "open" THEN "list" ELSE "check")
  /\ UNCHANGED <<registered, created, hidden, client, connected, closing>>

\* The registration must still be there; its createdAt is remembered.
List(x) ==
  /\ At(x, "open", "list")
  /\ IF Visible(x[2]) = 0
     THEN Ended(x, locks)
     ELSE /\ op' = [op EXCEPT ![x].step = "resolve", ![x].expected = Visible(x[2])]
          /\ UNCHANGED locks
  /\ UNCHANGED <<registered, created, hidden, client, connected, closing>>

\* The recovery is decrypted; a session that is open already is reused.
Resolve(x) ==
  /\ At(x, "open", "resolve")
  /\ IF client[x] = "open"
     THEN Goto(x, "validate") /\ UNCHANGED <<client, closing>>
     ELSE Close(x) /\ Goto(x, "close_own")
  /\ UNCHANGED <<registered, created, hidden, locks, connected>>

\* A checkout opens its wallet straight through the manager.
StartCheckout(x) ==
  /\ op[x] = NoOp
  /\ x[2] \in Checkout
  /\ op' = [op EXCEPT ![x] = [NoOp EXCEPT !.kind = "checkout", !.step = "close_own"]]
  /\ Close(x)
  /\ UNCHANGED <<registered, created, hidden, locks, connected>>

OwnClosed(x) ==
  /\ Opening(x, "close_own")
  /\ \/ Closed(x) /\ Goto(x, "registration") /\ UNCHANGED locks
     \/ CloseFailed(x) /\ Ended(x, locks)
  /\ UNCHANGED <<registered, created, hidden, client, connected, closing>>

\* acquireSparkWalletManagerSessionLease: if available, or not at all.
LockRegistration(x) ==
  /\ Opening(x, "registration")
  /\ IF Free(RegistrationLock(x[2]))
     THEN /\ locks' = [locks EXCEPT ![RegistrationLock(x[2])] = x[1]]
          /\ Goto(x, "identity")
     ELSE Ended(x, locks)
  /\ UNCHANGED <<registered, created, hidden, client, connected, closing>>

LockIdentity(x) ==
  /\ Opening(x, "identity")
  /\ IF Free(IdentityLock(x[2]))
     THEN /\ locks' = [locks EXCEPT ![IdentityLock(x[2])] = x[1]]
          /\ Goto(x, "factory")
     ELSE Goto(x, "unlock") /\ UNCHANGED locks
  /\ UNCHANGED <<registered, created, hidden, client, connected, closing>>

\* The identity is refused: the registration's lock goes back first.
Unlock(x) ==
  /\ Opening(x, "unlock")
  /\ Ended(x, [locks EXCEPT ![RegistrationLock(x[2])] = NoPage])
  /\ UNCHANGED <<registered, created, hidden, client, connected, closing>>

\* The SDK opens a client, or fails with none.
Factory(x) ==
  /\ Opening(x, "factory")
  /\ \/ /\ connected' = connected \cup {x}
        /\ Goto(x, "attach") /\ UNCHANGED locks
     \/ Ended(x, Released(x)) /\ UNCHANGED connected
  /\ UNCHANGED <<registered, created, hidden, client, closing>>

\* The listener is added and the sign-in is still current: the session is kept.
Attach(x) ==
  /\ Opening(x, "attach")
  /\ \/ /\ client' = [client EXCEPT ![x] = "open"]
        /\ IF op[x].kind = "open"
           THEN Goto(x, "validate") /\ UNCHANGED locks ELSE Ended(x, locks)
     \/ Goto(x, "undo") /\ UNCHANGED <<client, locks>>
  /\ UNCHANGED <<registered, created, hidden, connected, closing>>

\* Mutant of Undo: the locks go back though the client is still connected.
UndoReleasing(x) ==
  /\ Opening(x, "undo")
  /\ \/ /\ connected' = connected \ {x}
        /\ Ended(x, Released(x)) /\ UNCHANGED client
     \/ /\ client' = [client EXCEPT ![x] = "quarantined"]
        /\ Ended(x, Released(x)) /\ UNCHANGED connected
  /\ UNCHANGED <<registered, created, hidden, closing>>

\* A client that could not be attached is disconnected, or kept in quarantine
\* with its locks.
Undo(x) ==
  /\ Opening(x, "undo")
  /\ \/ /\ connected' = connected \ {x}
        /\ Ended(x, Released(x)) /\ UNCHANGED client
     \/ /\ client' = [client EXCEPT ![x] = "quarantined"]
        /\ Ended(x, locks) /\ UNCHANGED connected
  /\ UNCHANGED <<registered, created, hidden, closing>>

\* validateOpenRegistration, before and after afterOpen: a registration that is
\* gone, or is another one by now, ends the session.
Validate(x) ==
  /\ At(x, "open", "validate") \/ At(x, "open", "revalidate")
  /\ IF Visible(x[2]) = op[x].expected
     THEN /\ Goto(x, IF op[x].step = "validate" THEN "after_open" ELSE "commit")
          /\ UNCHANGED <<client, closing>>
     ELSE Close(x) /\ Goto(x, "cleanup")
  /\ UNCHANGED <<registered, created, hidden, locks, connected>>

\* The list could not be read: the session is closed, unverified.
ValidateThrows(x) ==
  /\ At(x, "open", "validate") \/ At(x, "open", "revalidate")
  /\ Close(x) /\ Goto(x, "abandon")
  /\ UNCHANGED <<registered, created, hidden, locks, connected>>

Abandon(x) ==
  /\ At(x, "open", "abandon") /\ closing[x] = "none"
  /\ Ended(x, locks)
  /\ UNCHANGED <<registered, created, hidden, client, connected, closing>>

\* afterOpen refreshes the balance; it may throw, and the session stays.
AfterOpen(x) ==
  /\ At(x, "open", "after_open")
  /\ \/ Goto(x, "revalidate") /\ UNCHANGED locks
     \/ Ended(x, locks)
  /\ UNCHANGED <<registered, created, hidden, client, connected, closing>>

Commit(x) ==
  /\ At(x, "open", "commit")
  /\ Ended(x, locks)
  /\ UNCHANGED <<registered, created, hidden, client, connected, closing>>

-----------------------------------------------------------------------------
(* Cleaning up, and removing a registration.                               *)

\* Another registration by now is left alone; of one that is gone the page's
\* session is still closed.
Check(x) ==
  /\ At(x, "remove", "check")
  /\ IF registered[x[2]] \notin {0, op[x].expected}
     THEN Ended(x, locks) /\ UNCHANGED <<client, closing>>
     ELSE /\ op' = [op EXCEPT ![x].step = "cleanup", ![x].expected = registered[x[2]]]
          /\ Close(x)
          /\ UNCHANGED locks
  /\ UNCHANGED <<registered, created, hidden, connected>>

Cleanup(x) ==
  /\ op[x].step = "cleanup"
  /\ \/ Closed(x) /\ Goto(x, "verify") /\ UNCHANGED locks
     \/ CloseFailed(x) /\ Ended(x, locks)
  /\ UNCHANGED <<registered, created, hidden, client, connected, closing>>

\* Mutant of Verify: other pages are not asked.
VerifyOwnOnly(x) ==
  /\ op[x].step = "verify"
  /\ IF op[x].kind = "remove" /\ op[x].expected # 0
     THEN Goto(x, "sync") /\ UNCHANGED locks ELSE Ended(x, locks)
  /\ UNCHANGED <<registered, created, hidden, client, connected, closing>>

\* assertSparkWalletRegistrationSessionAvailable: no page has a session.
Verify(x) ==
  /\ op[x].step = "verify"
  /\ IF Free(RegistrationLock(x[2])) /\ op[x].kind = "remove" /\ op[x].expected # 0
     THEN Goto(x, "sync") /\ UNCHANGED locks ELSE Ended(x, locks)
  /\ UNCHANGED <<registered, created, hidden, client, connected, closing>>

\* The removal is written to the account's record, and published; either may fail.
Sync(x) ==
  /\ At(x, "remove", "sync")
  /\ \/ /\ hidden' = hidden \cup {x[2]}
        /\ \/ Goto(x, "remove") /\ UNCHANGED locks
           \/ Ended(x, locks)
     \/ Ended(x, locks) /\ UNCHANGED hidden
  /\ UNCHANGED <<registered, created, client, connected, closing>>

Remove(x) ==
  /\ At(x, "remove", "remove")
  /\ registered' = [registered EXCEPT ![x[2]] = 0]
  /\ hidden' = hidden \ {x[2]}
  /\ Ended(x, locks)
  /\ UNCHANGED <<created, client, connected, closing>>

-----------------------------------------------------------------------------
(* Around.                                                                 *)

\* Recovery sync of any page, under no lock, adds a wallet the account has and
\* hides one the account has removed elsewhere.
Register(w) ==
  /\ w \notin Checkout /\ registered[w] = 0 /\ created < MaxCreated
  /\ created' = created + 1
  /\ registered' = [registered EXCEPT ![w] = created + 1]
  /\ UNCHANGED <<hidden, locks, client, connected, closing, op>>

Hide(w) ==
  /\ Visible(w) # 0
  /\ hidden' = hidden \cup {w}
  /\ UNCHANGED <<registered, created, locks, client, connected, closing, op>>

\* A page goes away, with its locks, clients and operations.
Unload(p) ==
  /\ \E x \in Sessions : x[1] = p /\ (op[x] # NoOp \/ client[x] # "none")
  /\ locks' = [l \in LockNames |-> IF locks[l] = p THEN NoPage ELSE locks[l]]
  /\ client' = [x \in Sessions |-> IF x[1] = p THEN "none" ELSE client[x]]
  /\ connected' = {x \in connected : x[1] # p}
  /\ closing' = [x \in Sessions |-> IF x[1] = p THEN "none" ELSE closing[x]]
  /\ op' = [x \in Sessions |-> IF x[1] = p THEN NoOp ELSE op[x]]
  /\ UNCHANGED <<registered, created, hidden>>

EndClosing(x) == Disconnect(x) \/ ReleaseSession(x)

Advance(x) ==
  \/ List(x) \/ Resolve(x) \/ OwnClosed(x) \/ LockRegistration(x) \/ LockIdentity(x)
  \/ Unlock(x) \/ Factory(x) \/ Attach(x) \/ Undo(x)
  \/ Validate(x) \/ ValidateThrows(x) \/ Abandon(x) \/ AfterOpen(x) \/ Commit(x)
  \/ Check(x) \/ Cleanup(x) \/ Verify(x) \/ Sync(x) \/ Remove(x)

Next ==
  \/ \E x \in Sessions : Queue(x, "open") \/ Queue(x, "remove") \/ StartCheckout(x)
                           \/ Granted(x) \/ CloseOutside(x) \/ EndClosing(x) \/ Advance(x)
  \/ \E w \in Wallets : Register(w) \/ Hide(w)
  \/ \E p \in Pages : Unload(p)

Spec == Init /\ [][Next]_vars

\* Promises settle, and Web Locks are granted in the order they were asked for.
Fairness ==
  \A x \in Sessions : WF_vars(EndClosing(x)) /\ WF_vars(Advance(x)) /\ SF_vars(Granted(x))
FairSpec == Spec /\ Fairness

-----------------------------------------------------------------------------
(* Properties.                                                             *)

\* Every variable keeps the shape the code gives it.
TypeOK ==
  /\ registered \in [Wallets -> 0 .. MaxCreated] /\ created \in 0 .. MaxCreated
  /\ hidden \subseteq Wallets
  /\ locks \in [LockNames -> Pages \cup {NoPage}]
  /\ client \in [Sessions -> Clients]
  /\ connected \subseteq Sessions
  /\ closing \in [Sessions -> Closings]
  /\ op \in [Sessions -> Ops]

\* At most one SDK client is connected per seed, in all pages, whatever
\* registrations share it and whichever disconnects fail: two would spend the
\* same leaves (acquireSparkWalletManagerSessionLease).
OneSession ==
  \A x, y \in connected : Identity[x[2]] = Identity[y[2]] => x = y

\* A session lock is held only by a page that is opening that wallet or still
\* has its client to close: no failure path leaves a wallet locked until reload.
NothingLeaked ==
  \A w \in Wallets, p \in Pages :
    LET inUse(v) == client[<<p, v>>] # "none"
                      \/ Opening(<<p, v>>, "identity") \/ Opening(<<p, v>>, "unlock")
                      \/ Opening(<<p, v>>, "factory") \/ Opening(<<p, v>>, "attach")
                      \/ Opening(<<p, v>>, "undo")
    IN /\ locks[RegistrationLock(w)] = p => inUse(w)
       /\ locks[IdentityLock(w)] = p =>
            \E v \in Wallets : Identity[v] = Identity[w] /\ inUse(v)

\* What a page connects and locks, whatever fails (with the types of the sessions).
SessionsSafe == TypeOK /\ OneSession /\ NothingLeaked

\* When a removal takes a registration away no page has a client of it
\* connected (runSparkWalletRemoval, cleanupSparkWalletState).
RemovesClosed ==
  \A x \in Sessions : Remove(x) =>
    \A p \in Pages : <<p, x[2]>> \notin connected
RemovedWhileClosed == [][RemovesClosed]_vars

\* Whoever waits to open or remove a wallet gets an answer, though other
\* operations fail, throw or lose their page.
Answered ==
  \A x \in Sessions : op[x].step = "queued" ~> op[x] = NoOp
=============================================================================
