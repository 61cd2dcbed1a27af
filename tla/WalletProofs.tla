----------------------------- MODULE WalletProofs -----------------------------
(***************************************************************************)
(* Theorems about the wallets.  Of WalletSession: for any number of pages  *)
(* and wallets.  Of NwcMigration, here Migration: for any number of        *)
(* attempts, connections and wallets, what an attempt takes back it        *)
(* registered itself, the old copy goes behind a verified new one, one     *)
(* connection becomes one wallet, and attempts one at a time lose none.    *)
(* Of MCWallets, every part of it: those of the migration, and those of    *)
(* the native treasury, whose theorems are NativeTreasuryProofs.           *)
(***************************************************************************)
EXTENDS MCWallets, TLAPS

-----------------------------------------------------------------------------
(* Sessions, locks and operations.                                         *)

\* A session is a page and a wallet.
LEMMA SessionParts ==
  /\ \A x \in Sessions : x[1] \in Pages /\ x[2] \in Wallets /\ x = <<x[1], x[2]>>
  /\ \A x, y \in Sessions : x[1] = y[1] /\ x[2] = y[2] => x = y
  /\ \A p \in Pages, w \in Wallets :
       <<p, w>> \in Sessions /\ <<p, w>>[1] = p /\ <<p, w>>[2] = w
  BY DEF Sessions

\* The locks of wallets are told apart by their kind, by the wallet, and by the
\* identity of its seed.
LEMMA LockKinds ==
  /\ \A w \in Wallets : /\ RegistrationLock(w) \in LockNames
                        /\ IdentityLock(w) \in LockNames
                        /\ OperationLock(w) \in LockNames
  /\ \A v, w \in Wallets : /\ RegistrationLock(v) # IdentityLock(w)
                           /\ RegistrationLock(v) # OperationLock(w)
                           /\ IdentityLock(v) # OperationLock(w)
  /\ \A v, w \in Wallets : /\ RegistrationLock(v) = RegistrationLock(w) => v = w
                           /\ OperationLock(v) = OperationLock(w) => v = w
                           /\ IdentityLock(v) = IdentityLock(w) <=> Identity[v] = Identity[w]
  <1>1. "registration" # "identity" /\ "registration" # "operation" /\ "identity" # "operation"
    OBVIOUS
  <1> QED BY <1>1 DEF RegistrationLock, IdentityLock, OperationLock, LockNames

\* The record every operation is, whatever its kind.
OpShape == [kind : {"none", "open", "checkout", "remove"},
            step : {"idle"} \cup OpenSteps \cup RemoveSteps, expected : 0 .. MaxCreated]

\* The operations a page can run on a wallet, as records.
LEMMA OpsShape ==
  ASSUME CreatedAssumption
  PROVE  /\ NoOp \in Ops /\ NoOp.kind = "none" /\ NoOp.step = "idle"
         /\ \A o \in Ops :
              /\ o \in OpShape
              /\ o.kind \in {"open", "checkout"} => o.step \in OpenSteps
              /\ o.kind = "remove" => o.step \in RemoveSteps
              /\ o.kind = "none" => o = NoOp
         /\ \A o \in OpShape :
              \/ o.kind \in {"open", "checkout"} /\ o.step \in OpenSteps
              \/ o.kind = "remove" /\ o.step \in RemoveSteps
              => o \in Ops
  <1>1. NoOp \in Ops /\ NoOp.kind = "none" /\ NoOp.step = "idle"
    BY DEF NoOp, Ops
  <1>2. ASSUME NEW o \in Ops
        PROVE  /\ o \in OpShape
               /\ o.kind \in {"open", "checkout"} => o.step \in OpenSteps
               /\ o.kind = "remove" => o.step \in RemoveSteps
               /\ o.kind = "none" => o = NoOp
    <2>1. CASE o = NoOp
      BY <2>1 DEF NoOp, OpShape, CreatedAssumption
    <2>2. CASE o \in [kind : {"open", "checkout"}, step : OpenSteps, expected : 0 .. MaxCreated]
      BY <2>2 DEF OpShape
    <2>3. CASE o \in [kind : {"remove"}, step : RemoveSteps, expected : 0 .. MaxCreated]
      BY <2>3 DEF OpShape
    <2> QED BY <2>1, <2>2, <2>3 DEF Ops
  <1>3. ASSUME NEW o \in OpShape,
               \/ o.kind \in {"open", "checkout"} /\ o.step \in OpenSteps
               \/ o.kind = "remove" /\ o.step \in RemoveSteps
        PROVE  o \in Ops
    <2>1. CASE o.kind \in {"open", "checkout"} /\ o.step \in OpenSteps
      BY <2>1 DEF OpShape, Ops
    <2>2. CASE o.kind = "remove" /\ o.step \in RemoveSteps
      BY <2>2 DEF OpShape, Ops
    <2> QED BY <1>3, <2>1, <2>2
  <1> QED BY <1>1, <1>2, <1>3

\* An operation's next record, of its kind.
LEMMA NextOp ==
  ASSUME CreatedAssumption, TypeOK, NEW x \in Sessions, NEW step, NEW e \in 0 .. MaxCreated,
         op' = [op EXCEPT ![x].step = step, ![x].expected = e],
         \/ op[x].kind \in {"open", "checkout"} /\ step \in OpenSteps
         \/ op[x].kind = "remove" /\ step \in RemoveSteps
  PROVE  /\ op' \in [Sessions -> Ops]
         /\ op'[x].kind = op[x].kind /\ op'[x].step = step /\ op'[x].expected = e
         /\ \A y \in Sessions : y # x => op'[y] = op[y]
  <1> DEFINE o == [op[x] EXCEPT !.step = step, !.expected = e]
  <1>1. op \in [Sessions -> Ops]
    BY DEF TypeOK
  <1>2. op[x] \in OpShape
    BY <1>1, OpsShape
  <1>3. op' = [op EXCEPT ![x] = o]
    OBVIOUS
  <1>4. step \in {"idle"} \cup OpenSteps \cup RemoveSteps
    OBVIOUS
  <1>5. o \in OpShape /\ o.kind = op[x].kind /\ o.step = step /\ o.expected = e
    BY <1>2, <1>4 DEF OpShape
  <1>6. o \in Ops
    BY <1>5, OpsShape
  <1> HIDE DEF o
  <1> QED BY <1>1, <1>3, <1>5, <1>6

\* A step of an operation.
LEMMA GotoOp ==
  ASSUME CreatedAssumption, TypeOK, NEW x \in Sessions, NEW step, Goto(x, step),
         \/ op[x].kind \in {"open", "checkout"} /\ step \in OpenSteps
         \/ op[x].kind = "remove" /\ step \in RemoveSteps
  PROVE  /\ op' \in [Sessions -> Ops]
         /\ op'[x].kind = op[x].kind /\ op'[x].step = step
         /\ \A y \in Sessions : y # x => op'[y] = op[y]
  <1> DEFINE o == [op[x] EXCEPT !.step = step]
  <1>1. op \in [Sessions -> Ops]
    BY DEF TypeOK
  <1>2. op[x] \in OpShape
    BY <1>1, OpsShape
  <1>3. op' = [op EXCEPT ![x] = o]
    BY DEF Goto
  <1>4. step \in {"idle"} \cup OpenSteps \cup RemoveSteps
    OBVIOUS
  <1>5. o \in OpShape /\ o.kind = op[x].kind /\ o.step = step
    BY <1>2, <1>4 DEF OpShape
  <1>6. o \in Ops
    BY <1>5, OpsShape
  <1> HIDE DEF o
  <1> QED BY <1>1, <1>3, <1>5, <1>6

\* What an operation is before its step, by its kind.
LEMMA OpKinds ==
  ASSUME CreatedAssumption, TypeOK, NEW x \in Sessions
  PROVE  /\ op[x].kind \in {"open", "checkout"} => op[x].step \in OpenSteps
         /\ op[x].kind = "remove" => op[x].step \in RemoveSteps
         /\ op[x].kind \notin {"open", "checkout", "remove"} => op[x] = NoOp
         /\ op[x] # NoOp => op[x].kind \in {"open", "checkout", "remove"}
         /\ op[x].expected \in 0 .. MaxCreated
  <1>1. op[x] \in Ops
    BY DEF TypeOK
  <1>2. op[x] \in OpShape
    BY <1>1, OpsShape
  <1>3. op[x].kind \in {"none", "open", "checkout", "remove"} /\ op[x].expected \in 0 .. MaxCreated
    BY <1>2 DEF OpShape
  <1> QED BY <1>1, <1>3, OpsShape

\* The end of an operation: it is idle, and of the locks it changes at most the
\* operation's own.
LEMMA EndedOp ==
  ASSUME CreatedAssumption, WalletAssumption, TypeOK, NEW x \in Sessions,
         NEW held \in [LockNames -> Pages \cup {NoPage}], Ended(x, held)
  PROVE  /\ op' \in [Sessions -> Ops]
         /\ op'[x] = NoOp
         /\ \A y \in Sessions : y # x => op'[y] = op[y]
         /\ locks' \in [LockNames -> Pages \cup {NoPage}]
         /\ \A l \in LockNames : l # OperationLock(x[2]) => locks'[l] = held[l]
         /\ held[OperationLock(x[2])] # x[1] =>
              locks'[OperationLock(x[2])] = held[OperationLock(x[2])]
  <1>1. op' \in [Sessions -> Ops] /\ op'[x] = NoOp /\ \A y \in Sessions : y # x => op'[y] = op[y]
    BY OpsShape DEF Ended, TypeOK
  <1>2. \/ locks' = held
        \/ /\ locks' = [held EXCEPT ![OperationLock(x[2])] = NoPage]
           /\ held[OperationLock(x[2])] = x[1]
    BY DEF Ended
  <1> QED BY <1>1, <1>2

\* Giving a session's locks back.
LEMMA ReleasedLocks ==
  ASSUME TypeOK, NEW x \in Sessions
  PROVE  /\ Released(x) \in [LockNames -> Pages \cup {NoPage}]
         /\ \A w \in Wallets :
              /\ Released(x)[OperationLock(w)] = locks[OperationLock(w)]
              /\ Released(x)[RegistrationLock(w)] =
                   IF w = x[2] THEN NoPage ELSE locks[RegistrationLock(w)]
              /\ Released(x)[IdentityLock(w)] =
                   IF Identity[w] = Identity[x[2]] THEN NoPage ELSE locks[IdentityLock(w)]
  <1>1. x[2] \in Wallets
    BY SessionParts
  <1>2. locks \in [LockNames -> Pages \cup {NoPage}]
    BY DEF TypeOK
  <1> QED BY <1>1, <1>2, LockKinds DEF Released

\* Closing a session keeps its client's record, and begins with a disconnect.
LEMMA CloseSession ==
  ASSUME TypeOK, NEW x \in Sessions, Close(x)
  PROVE  /\ client' \in [Sessions -> Clients] /\ closing' \in [Sessions -> Closings]
         /\ \A y \in Sessions : y # x => client'[y] = client[y] /\ closing'[y] = closing[y]
         /\ client'[x] = "none" <=> client[x] = "none"
         /\ closing'[x] = closing[x] \/ (closing'[x] = "disconnect" /\ client[x] # "none")
  BY DEF Close, TypeOK, Clients, Closings

-----------------------------------------------------------------------------
(* The inductive invariant.                                                *)

\* A page opens a client: it asks for its locks, holds them, or has a client that
\* is not kept yet.
EarlySteps == {"registration", "identity", "unlock", "factory", "attach", "undo"}
Early(x) == op[x].kind \in {"open", "checkout"} /\ op[x].step \in EarlySteps

\* It has the locks of its session: both, or the registration's already.
Using(x) == client[x] # "none" \/ (Early(x) /\ op[x].step \in {"factory", "attach", "undo"})
InUse(x) == client[x] # "none" \/ (Early(x) /\ op[x].step # "registration")
Locked(x) == op[x].kind \in {"open", "remove"} /\ op[x].step # "queued"
Removing(x) == op[x].kind = "remove" /\ op[x].step \in {"sync", "remove"}

\* Who uses a session holds its locks, who runs an operation its lock.
Held ==
  \A x \in Sessions :
    /\ InUse(x) => locks[RegistrationLock(x[2])] = x[1]
    /\ Using(x) => locks[IdentityLock(x[2])] = x[1]
    /\ Locked(x) => locks[OperationLock(x[2])] = x[1]

\* One page uses a seed, through one registration.
Alone ==
  \A x, y \in Sessions :
    Using(x) /\ Using(y) /\ Identity[x[2]] = Identity[y[2]] => x = y

\* A connected client is kept, or about to be.
Attached ==
  \A x \in connected :
    client[x] # "none" \/ (Early(x) /\ op[x].step \in {"attach", "undo"})

\* What the stages of opening, closing and removing say of one another.
Stages ==
  \A x \in Sessions :
    /\ Early(x) => client[x] = "none"
    /\ closing[x] # "none" => client[x] # "none"
    /\ closing[x] = "release" => x \notin connected
    /\ op[x].kind \in {"open", "remove"} => x[2] \notin Checkout
    /\ op[x].kind = "checkout" => x[2] \in Checkout /\ op[x].step # "queued"
    /\ Removing(x) => Free(RegistrationLock(x[2]))

\* Whoever holds a session's lock uses it.
NoLeak ==
  \A p \in Pages, w \in Wallets :
    /\ locks[RegistrationLock(w)] = p => InUse(<<p, w>>)
    /\ locks[IdentityLock(w)] = p =>
         \E v \in Wallets : Identity[v] = Identity[w] /\ Using(<<p, v>>)

IInv == TypeOK /\ Held /\ Alone /\ Attached /\ Stages /\ NoLeak

\* Nothing of the other sessions changes.
OthersKept(x) ==
  \A y \in Sessions :
    y # x => op'[y] = op[y] /\ client'[y] = client[y] /\ closing'[y] = closing[y]

\* A step of a session that opens nothing: its client, if it has one, stays, and so
\* do the locks of sessions.
Quiet(x) ==
  /\ OthersKept(x)
  /\ client'[x] = "none" <=> client[x] = "none"
  /\ closing'[x] = closing[x] \/ (closing'[x] = "disconnect" /\ client[x] # "none")
  /\ ~Early(x) /\ ~Early(x)'
  /\ connected' = connected
  /\ \A w \in Wallets : /\ locks'[RegistrationLock(w)] = locks[RegistrationLock(w)]
                        /\ locks'[IdentityLock(w)] = locks[IdentityLock(w)]
  /\ \A w \in Wallets : \/ locks'[OperationLock(w)] = locks[OperationLock(w)]
                        \/ w = x[2] /\ locks[OperationLock(w)] \in {x[1], NoPage}

\* What a session is to the invariant depends on its operation and client.
LEMMA Unaffected ==
  ASSUME NEW y \in Sessions, op'[y] = op[y], client'[y] = client[y]
  PROVE  /\ Early(y)' <=> Early(y)
         /\ Using(y)' <=> Using(y)
         /\ InUse(y)' <=> InUse(y)
         /\ Locked(y)' <=> Locked(y)
         /\ Removing(y)' <=> Removing(y)
  BY DEF Early, Using, InUse, Locked, Removing

\* A quiet step keeps the invariant.
LEMMA QuietInv ==
  ASSUME WalletAssumption, IInv, NEW x \in Sessions, Quiet(x), TypeOK',
         Locked(x)' => locks'[OperationLock(x[2])] = x[1],
         op'[x].kind \in {"open", "remove"} => x[2] \notin Checkout,
         op'[x].kind = "checkout" => x[2] \in Checkout /\ op'[x].step # "queued",
         Removing(x)' => Free(RegistrationLock(x[2]))
  PROVE  IInv'
  <1>1. \A y \in Sessions : y # x => op'[y] = op[y] /\ client'[y] = client[y]
                                       /\ closing'[y] = closing[y]
    BY DEF Quiet, OthersKept
  <1>2. \A y \in Sessions : /\ Using(y)' <=> Using(y)
                            /\ InUse(y)' <=> InUse(y)
                            /\ Early(y)' <=> Early(y)
                            /\ client'[y] = "none" <=> client[y] = "none"
    <2>1. ASSUME NEW y \in Sessions, y # x
          PROVE  /\ Using(y)' <=> Using(y)
                 /\ InUse(y)' <=> InUse(y)
                 /\ Early(y)' <=> Early(y)
                 /\ client'[y] = "none" <=> client[y] = "none"
      BY <1>1, <2>1, Unaffected
    <2>2. /\ Using(x)' <=> Using(x)
          /\ InUse(x)' <=> InUse(x)
          /\ Early(x)' <=> Early(x)
          /\ client'[x] = "none" <=> client[x] = "none"
      BY DEF Quiet, Using, InUse
    <2> QED BY <2>1, <2>2
  <1>3. Held'
    <2> SUFFICES ASSUME NEW y \in Sessions
                 PROVE  /\ InUse(y)' => locks'[RegistrationLock(y[2])] = y[1]
                        /\ Using(y)' => locks'[IdentityLock(y[2])] = y[1]
                        /\ Locked(y)' => locks'[OperationLock(y[2])] = y[1]
      BY DEF Held
    <2>1. y[2] \in Wallets /\ y[1] \in Pages
      BY SessionParts
    <2>2. InUse(y)' => locks'[RegistrationLock(y[2])] = y[1]
      BY <1>2, <2>1 DEF IInv, Held, Quiet
    <2>3. Using(y)' => locks'[IdentityLock(y[2])] = y[1]
      BY <1>2, <2>1 DEF IInv, Held, Quiet
    <2>4. ASSUME y # x, Locked(y)'
          PROVE  locks'[OperationLock(y[2])] = y[1]
      <3>1. locks[OperationLock(y[2])] = y[1]
        BY <1>1, <2>4, Unaffected DEF IInv, Held
      <3>2. ~(y[2] = x[2] /\ y[1] \in {x[1], NoPage})
        BY <2>1, <2>4, SessionParts DEF WalletAssumption
      <3> QED BY <2>1, <3>1, <3>2 DEF Quiet
    <2> QED BY <2>2, <2>3, <2>4
  <1>4. Alone'
    BY <1>2 DEF IInv, Alone
  <1>5. Attached'
    <2> SUFFICES ASSUME NEW y \in connected'
                 PROVE  client'[y] # "none" \/ (Early(y)' /\ op'[y].step \in {"attach", "undo"})
      BY DEF Attached
    <2>1. y \in connected /\ y \in Sessions
      BY DEF Quiet, IInv, TypeOK
    <2> QED BY <1>1, <1>2, <2>1 DEF IInv, Attached, Quiet
  <1>6. Stages'
    <2> SUFFICES ASSUME NEW y \in Sessions
                 PROVE  /\ Early(y)' => client'[y] = "none"
                        /\ closing'[y] # "none" => client'[y] # "none"
                        /\ closing'[y] = "release" => y \notin connected'
                        /\ op'[y].kind \in {"open", "remove"} => y[2] \notin Checkout
                        /\ op'[y].kind = "checkout" =>
                             y[2] \in Checkout /\ op'[y].step # "queued"
                        /\ Removing(y)' => Free(RegistrationLock(y[2]))'
      BY DEF Stages
    <2>1. y[2] \in Wallets
      BY SessionParts
    <2>2. Early(y)' => client'[y] = "none"
      BY <1>2 DEF IInv, Stages
    <2>3. /\ closing'[y] # "none" => client'[y] # "none"
          /\ closing'[y] = "release" => y \notin connected'
      BY <1>1, <1>2 DEF IInv, Stages, Quiet
    <2>4. /\ op'[y].kind \in {"open", "remove"} => y[2] \notin Checkout
          /\ op'[y].kind = "checkout" => y[2] \in Checkout /\ op'[y].step # "queued"
      BY <1>1 DEF IInv, Stages
    <2>5. Removing(y)' => Free(RegistrationLock(y[2]))
      BY <1>1, Unaffected DEF IInv, Stages
    <2>6. Removing(y)' => Free(RegistrationLock(y[2]))'
      BY <2>1, <2>5 DEF Free, Quiet
    <2> QED BY <2>2, <2>3, <2>4, <2>6
  <1>7. NoLeak'
    <2> SUFFICES ASSUME NEW p \in Pages, NEW w \in Wallets
                 PROVE  /\ locks'[RegistrationLock(w)] = p => InUse(<<p, w>>)'
                        /\ locks'[IdentityLock(w)] = p =>
                             \E v \in Wallets : Identity[v] = Identity[w] /\ Using(<<p, v>>)'
      BY DEF NoLeak
    <2>1. \A v \in Wallets : <<p, v>> \in Sessions
      BY SessionParts
    <2> QED BY <1>2, <2>1 DEF IInv, NoLeak, Quiet
  <1> QED BY <1>3, <1>4, <1>5, <1>6, <1>7 DEF IInv

-----------------------------------------------------------------------------
(* Steps that open nothing.                                                *)

\* An operation that has no client of its own yet ends.
LEMMA EndsInv ==
  ASSUME CreatedAssumption, WalletAssumption, IInv, NEW x \in Sessions,
         Ended(x, locks), ~Early(x), UNCHANGED <<client, connected, closing>>,
         registered' \in [Wallets -> 0 .. MaxCreated], created' \in 0 .. MaxCreated,
         hidden' \subseteq Wallets
  PROVE  IInv'
  <1>1. locks \in [LockNames -> Pages \cup {NoPage}] /\ x[2] \in Wallets
    BY SessionParts DEF IInv, TypeOK
  <1>2. /\ op' \in [Sessions -> Ops] /\ op'[x] = NoOp
        /\ \A y \in Sessions : y # x => op'[y] = op[y]
        /\ locks' \in [LockNames -> Pages \cup {NoPage}]
        /\ \A l \in LockNames : l # OperationLock(x[2]) => locks'[l] = locks[l]
        /\ locks[OperationLock(x[2])] # x[1] =>
             locks'[OperationLock(x[2])] = locks[OperationLock(x[2])]
    BY <1>1, EndedOp DEF IInv
  <1>3. TypeOK'
    BY <1>2 DEF IInv, TypeOK
  <1>4. op'[x].kind = "none" /\ op'[x].step = "idle"
    BY <1>2, OpsShape
  <1>5. Quiet(x)
    <2>1. OthersKept(x)
      BY <1>2 DEF OthersKept
    <2>2. ~Early(x)'
      BY <1>4 DEF Early
    <2>3. \A w \in Wallets : \/ locks'[OperationLock(w)] = locks[OperationLock(w)]
                             \/ w = x[2] /\ locks[OperationLock(w)] \in {x[1], NoPage}
      BY <1>1, <1>2, LockKinds
    <2>4. \A w \in Wallets : /\ locks'[RegistrationLock(w)] = locks[RegistrationLock(w)]
                             /\ locks'[IdentityLock(w)] = locks[IdentityLock(w)]
      BY <1>1, <1>2, LockKinds
    <2> QED BY <2>1, <2>2, <2>3, <2>4 DEF Quiet
  <1>6. ~Locked(x)' /\ ~Removing(x)'
    BY <1>4 DEF Locked, Removing
  <1> QED BY <1>3, <1>4, <1>5, <1>6, QuietInv

\* An operation that holds its lock goes to a step that opens nothing, and perhaps
\* closes the session it had.
LEMMA GoesInv ==
  ASSUME CreatedAssumption, WalletAssumption, IInv, NEW x \in Sessions, NEW step,
         op' \in [Sessions -> Ops], op'[x].kind = op[x].kind, op'[x].step = step,
         \A y \in Sessions : y # x => op'[y] = op[y],
         ~Early(x), step \notin EarlySteps, step # "queued", op[x].step # "queued",
         Close(x) \/ UNCHANGED <<client, closing>>,
         op[x].kind = "remove" /\ step \in {"sync", "remove"} => Free(RegistrationLock(x[2])),
         UNCHANGED <<locks, connected>>,
         registered' \in [Wallets -> 0 .. MaxCreated], created' \in 0 .. MaxCreated,
         hidden' \subseteq Wallets
  PROVE  IInv'
  <1>1. /\ client' \in [Sessions -> Clients] /\ closing' \in [Sessions -> Closings]
        /\ \A y \in Sessions : y # x => client'[y] = client[y] /\ closing'[y] = closing[y]
        /\ client'[x] = "none" <=> client[x] = "none"
        /\ closing'[x] = closing[x] \/ (closing'[x] = "disconnect" /\ client[x] # "none")
    <2>1. CASE Close(x)
      BY <2>1, CloseSession DEF IInv
    <2>2. CASE UNCHANGED <<client, closing>>
      BY <2>2 DEF IInv, TypeOK
    <2> QED BY <2>1, <2>2
  <1>2. TypeOK'
    BY <1>1 DEF IInv, TypeOK
  <1>3. ~Early(x)'
    BY DEF Early
  <1>4. Quiet(x)
    BY <1>1, <1>3 DEF Quiet, OthersKept
  <1>5. Locked(x)' => Locked(x)
    BY DEF Locked
  <1>6. Locked(x)' => locks'[OperationLock(x[2])] = x[1]
    BY <1>5 DEF IInv, Held
  <1>7. Removing(x)' => Free(RegistrationLock(x[2]))
    BY DEF Removing
  <1>8. /\ op'[x].kind \in {"open", "remove"} => x[2] \notin Checkout
        /\ op'[x].kind = "checkout" => x[2] \in Checkout /\ op'[x].step # "queued"
    BY DEF IInv, Stages
  <1> QED BY <1>2, <1>4, <1>6, <1>7, <1>8, QuietInv

\* An operation is asked for: it waits for its lock.
LEMMA QueueInv ==
  ASSUME CreatedAssumption, WalletAssumption, IInv, NEW x \in Sessions,
         Queue(x, "open") \/ Queue(x, "remove")
  PROVE  IInv'
  <1>1. PICK kind \in {"open", "remove"} : Queue(x, kind)
    OBVIOUS
  <1> DEFINE e == IF kind = "remove" THEN registered[x[2]] ELSE 0
             o == [kind |-> kind, step |-> "queued", expected |-> e]
  <1>2. x[2] \in Wallets
    BY SessionParts
  <1>3. e \in 0 .. MaxCreated
    BY <1>2 DEF IInv, TypeOK, CreatedAssumption
  <1>4. op' = [op EXCEPT ![x] = o]
    BY <1>1 DEF Queue
  <1> HIDE DEF e
  <1>5. o \in OpShape /\ o.kind = kind /\ o.step = "queued"
    BY <1>3 DEF OpShape, OpenSteps
  <1>6. o \in Ops
    BY <1>5, OpsShape DEF OpenSteps, RemoveSteps
  <1> HIDE DEF o
  <1>7. /\ op' \in [Sessions -> Ops] /\ op'[x] = o
        /\ \A y \in Sessions : y # x => op'[y] = op[y]
    BY <1>4, <1>6 DEF IInv, TypeOK
  <1>8. UNCHANGED <<registered, created, hidden, locks, client, connected, closing>>
    BY <1>1 DEF Queue
  <1>9. TypeOK'
    BY <1>7, <1>8 DEF IInv, TypeOK
  <1>10. op[x] = NoOp /\ x[2] \notin Checkout
    BY <1>1 DEF Queue
  <1>11. Quiet(x)
    <2>1. ~Early(x) /\ ~Early(x)'
      BY <1>5, <1>7, <1>10, OpsShape DEF Early, EarlySteps
    <2> QED BY <2>1, <1>7, <1>8 DEF Quiet, OthersKept
  <1>12. ~Locked(x)' /\ ~Removing(x)'
    BY <1>5, <1>7 DEF Locked, Removing
  <1> QED BY <1>5, <1>7, <1>9, <1>10, <1>11, <1>12, QuietInv

\* Its lock is granted.
LEMMA GrantedInv ==
  ASSUME CreatedAssumption, WalletAssumption, IInv, NEW x \in Sessions, Granted(x)
  PROVE  IInv'
  <1> DEFINE step == IF op[x].kind = "open" THEN "list" ELSE "check"
  <1>1. /\ op[x].step = "queued" /\ locks[OperationLock(x[2])] = NoPage
        /\ locks' = [locks EXCEPT ![OperationLock(x[2])] = x[1]]
        /\ Goto(x, step)
        /\ UNCHANGED <<registered, created, hidden, client, connected, closing>>
    BY DEF Granted, Free
  <1>2. op[x].kind \in {"open", "remove"}
    <2>1. op[x] # NoOp
      BY <1>1, OpsShape
    <2> QED BY <1>1, <2>1, OpKinds DEF IInv, Stages
  <1>3. /\ op' \in [Sessions -> Ops] /\ op'[x].kind = op[x].kind /\ op'[x].step = step
        /\ \A y \in Sessions : y # x => op'[y] = op[y]
    BY <1>1, <1>2, GotoOp DEF IInv, OpenSteps, RemoveSteps
  <1>4. x[1] \in Pages /\ x[2] \in Wallets
    BY SessionParts
  <1>5. /\ locks' \in [LockNames -> Pages \cup {NoPage}]
        /\ \A w \in Wallets :
             /\ locks'[RegistrationLock(w)] = locks[RegistrationLock(w)]
             /\ locks'[IdentityLock(w)] = locks[IdentityLock(w)]
             /\ w # x[2] => locks'[OperationLock(w)] = locks[OperationLock(w)]
        /\ locks'[OperationLock(x[2])] = x[1]
    BY <1>1, <1>4, LockKinds DEF IInv, TypeOK
  <1>6. TypeOK'
    BY <1>1, <1>3, <1>5 DEF IInv, TypeOK
  <1>7. Quiet(x)
    <2>1. ~Early(x) /\ ~Early(x)'
      BY <1>1, <1>3 DEF Early, EarlySteps
    <2>2. OthersKept(x)
      BY <1>1, <1>3 DEF OthersKept
    <2> QED BY <1>1, <1>5, <2>1, <2>2 DEF Quiet
  <1>8. ~Removing(x)'
    BY <1>3 DEF Removing
  <1>9. op'[x].kind \in {"open", "remove"} /\ x[2] \notin Checkout
    BY <1>2, <1>3 DEF IInv, Stages
  <1> QED BY <1>5, <1>6, <1>7, <1>8, <1>9, QuietInv


\* The steps of an operation around its session: what it reads and what it awaits.
LEMMA AroundSessionInv ==
  ASSUME CreatedAssumption, WalletAssumption, IInv, NEW x \in Sessions,
         \/ List(x) \/ Resolve(x) \/ Validate(x) \/ ValidateThrows(x) \/ Abandon(x)
         \/ AfterOpen(x) \/ Commit(x)
  PROVE  IInv'
  <1>1. /\ registered \in [Wallets -> 0 .. MaxCreated] /\ created \in 0 .. MaxCreated
        /\ hidden \subseteq Wallets
        /\ TypeOK
    BY DEF IInv, TypeOK
  <1>2. CASE List(x)
    <2>1. op[x].kind = "open" /\ op[x].step = "list"
      BY <1>2 DEF List, At
    <2>2. UNCHANGED <<registered, created, hidden, client, connected, closing>> /\ ~Early(x)
      BY <1>2, <2>1 DEF List, Early, EarlySteps
    <2>3. CASE Ended(x, locks)
      BY <1>1, <2>2, <2>3, EndsInv
    <2>4. CASE /\ op' = [op EXCEPT ![x].step = "resolve", ![x].expected = Visible(x[2])]
               /\ UNCHANGED locks
      <3>1. Visible(x[2]) \in 0 .. MaxCreated
        BY <1>1, SessionParts DEF Visible, CreatedAssumption
      <3>2. /\ op' \in [Sessions -> Ops] /\ op'[x].kind = op[x].kind /\ op'[x].step = "resolve"
            /\ \A y \in Sessions : y # x => op'[y] = op[y]
        BY <1>1, <2>1, <2>4, <3>1, NextOp DEF OpenSteps
      <3> QED BY <1>1, <2>1, <2>2, <2>4, <3>2, GoesInv DEF EarlySteps
    <2> QED BY <1>2, <2>3, <2>4 DEF List
  <1>3. CASE Resolve(x)
    <2>1. op[x].kind = "open" /\ op[x].step = "resolve"
      BY <1>3 DEF Resolve, At
    <2>2. UNCHANGED <<registered, created, hidden, locks, connected>> /\ ~Early(x)
      BY <1>3, <2>1 DEF Resolve, Early, EarlySteps
    <2>3. PICK step \in {"validate", "close_own"} :
            Goto(x, step) /\ (Close(x) \/ UNCHANGED <<client, closing>>)
      BY <1>3 DEF Resolve
    <2>4. /\ op' \in [Sessions -> Ops] /\ op'[x].kind = op[x].kind /\ op'[x].step = step
          /\ \A y \in Sessions : y # x => op'[y] = op[y]
      BY <1>1, <2>1, <2>3, GotoOp DEF OpenSteps
    <2> QED BY <1>1, <2>1, <2>2, <2>3, <2>4, GoesInv DEF EarlySteps
  <1>4. CASE Validate(x) \/ ValidateThrows(x)
    <2>1. op[x].kind = "open" /\ op[x].step \in {"validate", "revalidate"}
      BY <1>4 DEF Validate, ValidateThrows, At
    <2>2. UNCHANGED <<registered, created, hidden, locks, connected>> /\ ~Early(x)
      BY <1>4, <2>1 DEF Validate, ValidateThrows, Early, EarlySteps
    <2>3. PICK step \in {"after_open", "commit", "cleanup", "abandon"} :
            Goto(x, step) /\ (Close(x) \/ UNCHANGED <<client, closing>>)
      BY <1>4 DEF Validate, ValidateThrows
    <2>4. /\ op' \in [Sessions -> Ops] /\ op'[x].kind = op[x].kind /\ op'[x].step = step
          /\ \A y \in Sessions : y # x => op'[y] = op[y]
      BY <1>1, <2>1, <2>3, GotoOp DEF OpenSteps
    <2> QED BY <1>1, <2>1, <2>2, <2>3, <2>4, GoesInv DEF EarlySteps
  <1>5. CASE Abandon(x) \/ Commit(x) \/ AfterOpen(x)
    <2>1. op[x].kind = "open" /\ op[x].step \in {"abandon", "commit", "after_open"}
      BY <1>5 DEF Abandon, Commit, AfterOpen, At
    <2>2. UNCHANGED <<registered, created, hidden, client, connected, closing>> /\ ~Early(x)
      BY <1>5, <2>1 DEF Abandon, Commit, AfterOpen, Early, EarlySteps
    <2>3. CASE Ended(x, locks)
      BY <1>1, <2>2, <2>3, EndsInv
    <2>4. CASE Goto(x, "revalidate") /\ UNCHANGED locks
      <3>1. /\ op' \in [Sessions -> Ops] /\ op'[x].kind = op[x].kind
            /\ op'[x].step = "revalidate"
            /\ \A y \in Sessions : y # x => op'[y] = op[y]
        BY <1>1, <2>1, <2>4, GotoOp DEF OpenSteps
      <3> QED BY <1>1, <2>1, <2>2, <2>4, <3>1, GoesInv DEF EarlySteps
    <2> QED BY <1>5, <2>3, <2>4 DEF Abandon, Commit, AfterOpen
  <1> QED BY <1>2, <1>3, <1>4, <1>5

\* The steps of a removal, and of the clean-up after an opening.
LEMMA RemovalInv ==
  ASSUME CreatedAssumption, WalletAssumption, IInv, NEW x \in Sessions,
         Check(x) \/ Cleanup(x) \/ Verify(x) \/ Sync(x) \/ Remove(x)
  PROVE  IInv'
  <1>1. /\ registered \in [Wallets -> 0 .. MaxCreated] /\ created \in 0 .. MaxCreated
        /\ hidden \subseteq Wallets /\ x[2] \in Wallets
        /\ TypeOK
    BY SessionParts DEF IInv, TypeOK
  <1>2. CASE Check(x)
    <2>1. op[x].kind = "remove" /\ op[x].step = "check"
      BY <1>2 DEF Check, At
    <2>2. UNCHANGED <<registered, created, hidden, connected>> /\ ~Early(x)
      BY <1>2, <2>1 DEF Check, Early
    <2>3. CASE Ended(x, locks) /\ UNCHANGED <<client, closing>>
      BY <1>1, <2>2, <2>3, EndsInv
    <2>4. CASE /\ op' = [op EXCEPT ![x].step = "cleanup", ![x].expected = registered[x[2]]]
               /\ Close(x)
               /\ UNCHANGED locks
      <3>1. /\ op' \in [Sessions -> Ops] /\ op'[x].kind = op[x].kind /\ op'[x].step = "cleanup"
            /\ \A y \in Sessions : y # x => op'[y] = op[y]
        BY <1>1, <2>1, <2>4, NextOp DEF RemoveSteps
      <3> QED BY <1>1, <2>1, <2>2, <2>4, <3>1, GoesInv DEF EarlySteps
    <2> QED BY <1>2, <2>3, <2>4 DEF Check
  <1>3. CASE Cleanup(x) \/ Verify(x)
    <2>1. op[x].step \in {"cleanup", "verify"}
      BY <1>3 DEF Cleanup, Verify
    <2>2. op[x].kind \in {"open", "checkout", "remove"}
      BY <1>1, <2>1, OpKinds, OpsShape
    <2>3. UNCHANGED <<registered, created, hidden, client, connected, closing>> /\ ~Early(x)
      BY <1>3, <2>1 DEF Cleanup, Verify, Early, EarlySteps
    <2>4. CASE Ended(x, locks)
      BY <1>1, <2>3, <2>4, EndsInv
    <2>5. CASE Cleanup(x) /\ Goto(x, "verify") /\ UNCHANGED locks
      <3>1. /\ op' \in [Sessions -> Ops] /\ op'[x].kind = op[x].kind /\ op'[x].step = "verify"
            /\ \A y \in Sessions : y # x => op'[y] = op[y]
        BY <1>1, <2>2, <2>5, GotoOp DEF OpenSteps, RemoveSteps
      <3> QED BY <1>1, <2>1, <2>3, <2>5, <3>1, GoesInv DEF EarlySteps
    <2>6. CASE /\ Free(RegistrationLock(x[2])) /\ op[x].kind = "remove"
               /\ Goto(x, "sync") /\ UNCHANGED locks
      <3>1. /\ op' \in [Sessions -> Ops] /\ op'[x].kind = op[x].kind /\ op'[x].step = "sync"
            /\ \A y \in Sessions : y # x => op'[y] = op[y]
        BY <1>1, <2>2, <2>6, GotoOp DEF OpenSteps, RemoveSteps
      <3> QED BY <1>1, <2>1, <2>3, <2>6, <3>1, GoesInv DEF EarlySteps
    <2> QED BY <1>3, <2>4, <2>5, <2>6 DEF Cleanup, Verify
  <1>4. CASE Sync(x)
    <2>1. op[x].kind = "remove" /\ op[x].step = "sync"
      BY <1>4 DEF Sync, At
    <2>2. /\ UNCHANGED <<registered, created, client, connected, closing>> /\ ~Early(x)
          /\ hidden' \subseteq Wallets
      BY <1>1, <1>4, <2>1 DEF Sync, Early
    <2>3. CASE Ended(x, locks)
      BY <1>1, <2>2, <2>3, EndsInv
    <2>4. CASE Goto(x, "remove") /\ UNCHANGED locks
      <3>1. /\ op' \in [Sessions -> Ops] /\ op'[x].kind = op[x].kind /\ op'[x].step = "remove"
            /\ \A y \in Sessions : y # x => op'[y] = op[y]
        BY <1>1, <2>1, <2>4, GotoOp DEF RemoveSteps
      <3>2. Free(RegistrationLock(x[2]))
        BY <2>1 DEF IInv, Stages, Removing
      <3> QED BY <1>1, <2>1, <2>2, <2>4, <3>1, <3>2, GoesInv DEF EarlySteps
    <2> QED BY <1>4, <2>3, <2>4 DEF Sync
  <1>5. CASE Remove(x)
    <2>1. op[x].kind = "remove" /\ ~Early(x)
      BY <1>5 DEF Remove, At, Early
    <2>2. /\ Ended(x, locks) /\ UNCHANGED <<created, client, connected, closing>>
          /\ hidden' \subseteq Wallets
      BY <1>1, <1>5 DEF Remove
    <2>3. registered' \in [Wallets -> 0 .. MaxCreated]
      <3>1. 0 \in 0 .. MaxCreated
        BY DEF CreatedAssumption
      <3> QED BY <1>1, <1>5, <3>1 DEF Remove
    <2> QED BY <1>1, <2>1, <2>2, <2>3, EndsInv
  <1> QED BY <1>2, <1>3, <1>4, <1>5

\* A close from outside: the lock button, a sign-out, the refresh.
LEMMA CloseOutsideInv ==
  ASSUME WalletAssumption, IInv, NEW x \in Sessions, CloseOutside(x)
  PROVE  IInv'
  <1>1. /\ Close(x) /\ client[x] # "none"
        /\ UNCHANGED <<registered, created, hidden, locks, connected, op>>
    BY DEF CloseOutside
  <1>2. /\ client' \in [Sessions -> Clients] /\ closing' \in [Sessions -> Closings]
        /\ \A y \in Sessions : y # x => client'[y] = client[y] /\ closing'[y] = closing[y]
        /\ client'[x] = "none" <=> client[x] = "none"
        /\ closing'[x] = closing[x] \/ (closing'[x] = "disconnect" /\ client[x] # "none")
    BY <1>1, CloseSession DEF IInv
  <1>3. TypeOK'
    BY <1>1, <1>2 DEF IInv, TypeOK
  <1>4. ~Early(x) /\ ~Early(x)'
    BY <1>1 DEF IInv, Stages, Early
  <1>5. Quiet(x)
    BY <1>1, <1>2, <1>4 DEF Quiet, OthersKept
  <1>6. (Locked(x)' <=> Locked(x)) /\ (Removing(x)' <=> Removing(x))
    BY <1>1 DEF Locked, Removing
  <1>7. /\ Locked(x)' => locks'[OperationLock(x[2])] = x[1]
        /\ op'[x].kind \in {"open", "remove"} => x[2] \notin Checkout
        /\ op'[x].kind = "checkout" => x[2] \in Checkout /\ op'[x].step # "queued"
        /\ Removing(x)' => Free(RegistrationLock(x[2]))
    BY <1>1, <1>6 DEF IInv, Held, Stages
  <1> QED BY <1>3, <1>5, <1>7, QuietInv

\* A checkout begins to open its wallet.
LEMMA StartCheckoutInv ==
  ASSUME CreatedAssumption, WalletAssumption, IInv, NEW x \in Sessions, StartCheckout(x)
  PROVE  IInv'
  <1> DEFINE o == [NoOp EXCEPT !.kind = "checkout", !.step = "close_own"]
  <1>1. /\ op[x] = NoOp /\ x[2] \in Checkout /\ Close(x)
        /\ UNCHANGED <<registered, created, hidden, locks, connected>>
    BY DEF StartCheckout
  <1>2. op' = [op EXCEPT ![x] = o]
    BY DEF StartCheckout
  <1>3. o \in OpShape /\ o.kind = "checkout" /\ o.step = "close_own"
    <2>1. 0 \in 0 .. MaxCreated
      BY DEF CreatedAssumption
    <2>2. "close_own" \in {"idle"} \cup OpenSteps \cup RemoveSteps
      BY DEF OpenSteps
    <2> QED BY <2>1, <2>2 DEF OpShape, NoOp
  <1>4. o \in Ops
    BY <1>3, OpsShape DEF OpenSteps
  <1> HIDE DEF o
  <1>5. /\ op' \in [Sessions -> Ops] /\ op'[x] = o
        /\ \A y \in Sessions : y # x => op'[y] = op[y]
    BY <1>2, <1>4 DEF IInv, TypeOK
  <1>6. /\ client' \in [Sessions -> Clients] /\ closing' \in [Sessions -> Closings]
        /\ \A y \in Sessions : y # x => client'[y] = client[y] /\ closing'[y] = closing[y]
        /\ client'[x] = "none" <=> client[x] = "none"
        /\ closing'[x] = closing[x] \/ (closing'[x] = "disconnect" /\ client[x] # "none")
    BY <1>1, CloseSession DEF IInv
  <1>7. TypeOK'
    BY <1>1, <1>5, <1>6 DEF IInv, TypeOK
  <1>8. ~Early(x) /\ ~Early(x)'
    BY <1>1, <1>3, <1>5, OpsShape DEF Early, EarlySteps
  <1>9. Quiet(x)
    BY <1>1, <1>5, <1>6, <1>8 DEF Quiet, OthersKept
  <1>10. ~Locked(x)' /\ ~Removing(x)'
    BY <1>3, <1>5 DEF Locked, Removing
  <1> QED BY <1>1, <1>3, <1>5, <1>7, <1>9, <1>10, QuietInv

-----------------------------------------------------------------------------
(* Steps that take locks, connect a client, or give both back.             *)

\* A page changes only locks that are free or its own: the registration's, the
\* seed's if it uses the seed, the operation's.
OwnLocks(x) ==
  \A w \in Wallets :
    /\ \/ locks'[RegistrationLock(w)] = locks[RegistrationLock(w)]
       \/ /\ w = x[2] /\ locks[RegistrationLock(w)] \in {x[1], NoPage}
          /\ locks'[RegistrationLock(w)] \in {x[1], NoPage}
    /\ \/ locks'[IdentityLock(w)] = locks[IdentityLock(w)]
       \/ /\ Identity[w] = Identity[x[2]] /\ (Using(x) \/ Free(IdentityLock(w)))
          /\ locks'[IdentityLock(w)] \in {x[1], NoPage}
    /\ \/ locks'[OperationLock(w)] = locks[OperationLock(w)]
       \/ w = x[2] /\ locks[OperationLock(w)] \in {x[1], NoPage}

\* What holds of the session after its step: it holds the locks of what it does, and
\* no others.
HoldsOwn(x) ==
  /\ InUse(x) => locks[RegistrationLock(x[2])] = x[1]
  /\ Using(x) => locks[IdentityLock(x[2])] = x[1]
  /\ Locked(x) => locks[OperationLock(x[2])] = x[1]
  /\ locks[RegistrationLock(x[2])] = x[1] => InUse(x)

StageOf(x) ==
  /\ Early(x) => client[x] = "none"
  /\ closing[x] # "none" => client[x] # "none"
  /\ closing[x] = "release" => x \notin connected
  /\ op[x].kind \in {"open", "remove"} => x[2] \notin Checkout
  /\ op[x].kind = "checkout" => x[2] \in Checkout /\ op[x].step # "queued"
  /\ Removing(x) => Free(RegistrationLock(x[2]))
  /\ x \in connected => client[x] # "none" \/ (Early(x) /\ op[x].step \in {"attach", "undo"})

\* A step of one session that keeps what it holds in order keeps the invariant.
LEMMA SessionInv ==
  ASSUME WalletAssumption, IInv, NEW x \in Sessions, OthersKept(x), OwnLocks(x),
         TypeOK', HoldsOwn(x)', StageOf(x)',
         connected' \ {x} = connected \ {x},
         Using(x)' /\ ~Using(x) => Free(IdentityLock(x[2])),
         locks'[IdentityLock(x[2])] = x[1] =>
           Using(x)' \/ (~Using(x) /\ locks[IdentityLock(x[2])] = x[1]),
         \/ locks'[RegistrationLock(x[2])] \in {locks[RegistrationLock(x[2])], NoPage}
         \/ \A y \in Sessions : y[2] = x[2] => ~Removing(y)
  PROVE  IInv'
  <1>1. \A y \in Sessions : y # x =>
          /\ op'[y] = op[y] /\ client'[y] = client[y] /\ closing'[y] = closing[y]
          /\ Early(y)' <=> Early(y)
          /\ Using(y)' <=> Using(y)
          /\ InUse(y)' <=> InUse(y)
          /\ Locked(y)' <=> Locked(y)
          /\ Removing(y)' <=> Removing(y)
    BY Unaffected DEF OthersKept
  <1>2. x[1] \in Pages /\ x[2] \in Wallets /\ x[1] # NoPage
    BY SessionParts DEF WalletAssumption
  <1>3. ASSUME NEW y \in Sessions, y # x, Using(y), Identity[y[2]] = Identity[x[2]]
        PROVE  ~Using(x) /\ ~Using(x)'
    <2>1. y[2] \in Wallets /\ y[1] \in Pages /\ y[1] # NoPage
      BY SessionParts DEF WalletAssumption
    <2>2. ~Using(x)
      BY <1>3 DEF IInv, Alone
    <2>3. locks[IdentityLock(x[2])] = y[1]
      BY <1>2, <1>3, <2>1, LockKinds DEF IInv, Held
    <2> QED BY <2>1, <2>2, <2>3 DEF Free
  <1>4. Held'
    <2> SUFFICES ASSUME NEW y \in Sessions, y # x
                 PROVE  /\ InUse(y) => locks'[RegistrationLock(y[2])] = y[1]
                        /\ Using(y) => locks'[IdentityLock(y[2])] = y[1]
                        /\ Locked(y) => locks'[OperationLock(y[2])] = y[1]
      BY <1>1 DEF Held, HoldsOwn
    <2>1. y[2] \in Wallets /\ y[1] \in Pages /\ y[1] # NoPage /\ (y[2] = x[2] => y[1] # x[1])
      BY SessionParts DEF WalletAssumption
    <2>2. InUse(y) => locks'[RegistrationLock(y[2])] = y[1]
      BY <2>1 DEF IInv, Held, OwnLocks
    <2>3. Using(y) => locks'[IdentityLock(y[2])] = y[1]
      <3> SUFFICES ASSUME Using(y) PROVE locks'[IdentityLock(y[2])] = y[1]
        OBVIOUS
      <3>1. locks[IdentityLock(y[2])] = y[1]
        BY DEF IInv, Held
      <3> QED BY <1>3, <2>1, <3>1 DEF OwnLocks, Free
    <2>4. Locked(y) => locks'[OperationLock(y[2])] = y[1]
      BY <2>1 DEF IInv, Held, OwnLocks
    <2> QED BY <2>2, <2>3, <2>4
  <1>5. Alone'
    <2> SUFFICES ASSUME NEW y \in Sessions, NEW z \in Sessions, Using(y)', Using(z)',
                        Identity[y[2]] = Identity[z[2]]
                 PROVE  y = z
      BY DEF Alone
    <2>1. CASE y # x /\ z # x
      BY <1>1, <2>1 DEF IInv, Alone
    <2>2. CASE y = x \/ z = x
      BY <1>1, <1>3, <2>2
    <2> QED BY <2>1, <2>2
  <1>6. Attached'
    <2> SUFFICES ASSUME NEW y \in connected', y # x
                 PROVE  client'[y] # "none" \/ (Early(y)' /\ op'[y].step \in {"attach", "undo"})
      BY DEF Attached, StageOf
    <2>1. y \in connected /\ y \in Sessions
      BY DEF IInv, TypeOK
    <2> QED BY <1>1, <2>1 DEF IInv, Attached
  <1>7. Stages'
    <2> SUFFICES ASSUME NEW y \in Sessions, y # x
                 PROVE  /\ Early(y)' => client'[y] = "none"
                        /\ closing'[y] # "none" => client'[y] # "none"
                        /\ closing'[y] = "release" => y \notin connected'
                        /\ op'[y].kind \in {"open", "remove"} => y[2] \notin Checkout
                        /\ op'[y].kind = "checkout" =>
                             y[2] \in Checkout /\ op'[y].step # "queued"
                        /\ Removing(y)' => Free(RegistrationLock(y[2]))'
      BY DEF Stages, StageOf
    <2>1. y[2] \in Wallets
      BY SessionParts
    <2>2. /\ Early(y)' => client'[y] = "none"
          /\ closing'[y] # "none" => client'[y] # "none"
          /\ closing'[y] = "release" => y \notin connected'
          /\ op'[y].kind \in {"open", "remove"} => y[2] \notin Checkout
          /\ op'[y].kind = "checkout" => y[2] \in Checkout /\ op'[y].step # "queued"
      BY <1>1 DEF IInv, Stages
    <2>3. Removing(y) => Free(RegistrationLock(y[2]))'
      BY <2>1 DEF IInv, Stages, Free, OwnLocks
    <2> QED BY <1>1, <2>2, <2>3
  <1>8. NoLeak'
    <2> SUFFICES ASSUME NEW p \in Pages, NEW w \in Wallets
                 PROVE  /\ locks'[RegistrationLock(w)] = p => InUse(<<p, w>>)'
                        /\ locks'[IdentityLock(w)] = p =>
                             \E v \in Wallets : Identity[v] = Identity[w] /\ Using(<<p, v>>)'
      BY DEF NoLeak
    <2>1. \A v \in Wallets : /\ <<p, v>> \in Sessions
                             /\ <<p, v>> = x <=> (p = x[1] /\ v = x[2])
      BY SessionParts
    <2>2. p # NoPage
      BY DEF WalletAssumption
    <2>3. locks'[RegistrationLock(w)] = p => InUse(<<p, w>>)'
      <3>1. CASE <<p, w>> = x
        BY <2>1, <3>1 DEF HoldsOwn
      <3>2. CASE <<p, w>> # x
        BY <1>1, <2>1, <2>2, <3>2 DEF IInv, NoLeak, OwnLocks
      <3> QED BY <3>1, <3>2
    <2>4. ASSUME locks'[IdentityLock(w)] = p
          PROVE  \E v \in Wallets : Identity[v] = Identity[w] /\ Using(<<p, v>>)'
      <3>1. CASE Using(x)' /\ p = x[1] /\ Identity[w] = Identity[x[2]]
        <4>1. x = <<p, x[2]>>
          BY <1>2, <2>1, <3>1
        <4> QED BY <1>2, <3>1, <4>1
      <3>2. CASE ~(Using(x)' /\ p = x[1] /\ Identity[w] = Identity[x[2]])
        <4>1. locks[IdentityLock(w)] = p
          BY <1>2, <2>2, <2>4, <3>2, LockKinds DEF OwnLocks
        <4>2. PICK v \in Wallets : Identity[v] = Identity[w] /\ Using(<<p, v>>)
          BY <4>1 DEF IInv, NoLeak
        <4>3. <<p, v>> # x
          <5> SUFFICES ASSUME <<p, v>> = x PROVE FALSE
            OBVIOUS
          <5>1. p = x[1] /\ v = x[2] /\ Using(x)
            BY <2>1, <4>2
          <5>2. IdentityLock(w) = IdentityLock(x[2])
            BY <1>2, <4>2, <5>1, LockKinds
          <5> QED BY <2>4, <3>2, <4>2, <5>1, <5>2
        <4> QED BY <1>1, <2>1, <4>2, <4>3
      <3> QED BY <3>1, <3>2
    <2> QED BY <2>3, <2>4
  <1> QED BY <1>4, <1>5, <1>6, <1>7, <1>8 DEF IInv


\* Opening goes on to a step at which the locks are asked for, or ends: what changes
\* of the locks is in the hypotheses.
LEMMA OpeningType ==
  ASSUME CreatedAssumption, IInv, NEW x \in Sessions, NEW step \in OpenSteps, Goto(x, step),
         op[x].kind \in {"open", "checkout"}
  PROVE  /\ op' \in [Sessions -> Ops]
         /\ op'[x].kind = op[x].kind /\ op'[x].step = step
         /\ \A y \in Sessions : y # x => op'[y] = op[y]
  BY GotoOp DEF IInv

\* The page's own session is closed: its locks are asked for next.
LEMMA OwnClosedInv ==
  ASSUME CreatedAssumption, WalletAssumption, IInv, NEW x \in Sessions, OwnClosed(x)
  PROVE  IInv'
  <1>1. /\ op[x].kind \in {"open", "checkout"} /\ op[x].step = "close_own" /\ ~Early(x)
        /\ UNCHANGED <<registered, created, hidden, client, connected, closing>>
    BY DEF OwnClosed, Opening, Early, EarlySteps
  <1>2. CASE Ended(x, locks)
    BY <1>1, <1>2, EndsInv DEF IInv, TypeOK
  <1>3. CASE Closed(x) /\ Goto(x, "registration") /\ UNCHANGED locks
    <2>1. /\ op' \in [Sessions -> Ops] /\ op'[x].kind = op[x].kind
          /\ op'[x].step = "registration"
          /\ \A y \in Sessions : y # x => op'[y] = op[y]
      BY <1>1, <1>3, OpeningType DEF OpenSteps
    <2>2. TypeOK'
      BY <1>1, <1>3, <2>1 DEF IInv, TypeOK
    <2>3. client[x] = "none" /\ closing[x] = "none"
      BY <1>3 DEF Closed
    <2>4. ~Using(x) /\ ~Using(x)' /\ ~InUse(x) /\ ~InUse(x)'
      BY <1>1, <2>1, <2>3 DEF Using, InUse, Early, EarlySteps
    <2>5. Locked(x)' => Locked(x)
      BY <1>1, <2>1 DEF Locked
    <2>6. x[1] \in Pages /\ x[2] \in Wallets /\ x = <<x[1], x[2]>>
      BY SessionParts
    <2>7. locks[RegistrationLock(x[2])] # x[1]
      BY <2>4, <2>6 DEF IInv, NoLeak
    <2>8. HoldsOwn(x)'
      BY <1>3, <2>4, <2>5, <2>7 DEF HoldsOwn, IInv, Held
    <2>9. StageOf(x)'
      <3>1. ~Removing(x)' /\ x \notin connected
        BY <1>1, <2>1, <2>3 DEF Removing, IInv, Attached, Early, EarlySteps
      <3> QED BY <1>1, <2>1, <2>3, <3>1 DEF StageOf, IInv, Stages
    <2>10. OwnLocks(x) /\ OthersKept(x)
      BY <1>1, <1>3, <2>1 DEF OwnLocks, OthersKept
    <2> QED BY <1>1, <1>3, <2>2, <2>4, <2>8, <2>9, <2>10, SessionInv
  <1> QED BY <1>2, <1>3 DEF OwnClosed

\* What the invariant says of a session whose locks are asked for.
LEMMA EarlySession ==
  ASSUME WalletAssumption, IInv, NEW x \in Sessions, Early(x)
  PROVE  /\ client[x] = "none" /\ closing[x] = "none"
         /\ x[1] \in Pages /\ x[2] \in Wallets /\ x[1] # NoPage /\ x = <<x[1], x[2]>>
         /\ x \in connected => op[x].step \in {"attach", "undo"}
         /\ op[x].kind \in {"open", "checkout"}
         /\ op[x].kind = "open" =>
              x[2] \notin Checkout /\ locks[OperationLock(x[2])] = x[1]
         /\ op[x].kind = "checkout" => x[2] \in Checkout
         /\ locks[RegistrationLock(x[2])] = x[1] <=> op[x].step # "registration"
         /\ op[x].step \in {"factory", "attach", "undo"} => locks[IdentityLock(x[2])] = x[1]
  <1>1. x[1] \in Pages /\ x[2] \in Wallets /\ x[1] # NoPage /\ x = <<x[1], x[2]>>
    BY SessionParts DEF WalletAssumption
  <1>2. client[x] = "none" /\ closing[x] = "none"
    BY DEF IInv, Stages
  <1>3. InUse(x) <=> op[x].step # "registration"
    BY <1>2 DEF InUse
  <1>4. locks[RegistrationLock(x[2])] = x[1] <=> InUse(x)
    BY <1>1 DEF IInv, Held, NoLeak
  <1>5. Locked(x) <=> op[x].kind = "open"
    BY DEF Early, EarlySteps, Locked
  <1>6. x \in connected => op[x].step \in {"attach", "undo"}
    BY <1>2 DEF IInv, Attached
  <1>7. Using(x) <=> op[x].step \in {"factory", "attach", "undo"}
    BY <1>2 DEF Using
  <1> QED BY <1>1, <1>2, <1>3, <1>4, <1>5, <1>6, <1>7 DEF IInv, Held, Stages, Early

\* An opening that asks for its locks goes to a later step; it has the registration's
\* lock from then on, and keeps or takes the seed's before it connects.
LEMMA AsksInv ==
  ASSUME CreatedAssumption, WalletAssumption, IInv, NEW x \in Sessions, Early(x),
         NEW step \in {"identity", "unlock", "factory", "attach", "undo"}, Goto(x, step),
         UNCHANGED <<registered, created, hidden, client, closing>>,
         locks' \in [LockNames -> Pages \cup {NoPage}],
         OwnLocks(x),
         locks'[RegistrationLock(x[2])] = x[1],
         locks'[OperationLock(x[2])] = locks[OperationLock(x[2])],
         step \in {"factory", "attach", "undo"} => locks'[IdentityLock(x[2])] = x[1],
         step \in {"factory", "attach", "undo"} /\ ~Using(x) => Free(IdentityLock(x[2])),
         step \notin {"factory", "attach", "undo"} =>
           /\ op[x].step \in {"registration", "identity"}
           /\ locks'[IdentityLock(x[2])] = locks[IdentityLock(x[2])],
         \/ connected' = connected
         \/ connected' = connected \cup {x} /\ step \in {"attach", "undo"},
         x \in connected => step \in {"attach", "undo"}
  PROVE  IInv'
  <1>1. op[x].kind \in {"open", "checkout"} /\ step \in OpenSteps
    BY EarlySession DEF OpenSteps
  <1>2. /\ op' \in [Sessions -> Ops] /\ op'[x].kind = op[x].kind /\ op'[x].step = step
        /\ \A y \in Sessions : y # x => op'[y] = op[y]
    BY <1>1, OpeningType
  <1>3. TypeOK'
    BY <1>2 DEF IInv, TypeOK
  <1>4. client[x] = "none" /\ closing[x] = "none"
    BY EarlySession
  <1>5. /\ Early(x)' /\ InUse(x)' /\ ~Removing(x)'
        /\ Using(x)' <=> step \in {"factory", "attach", "undo"}
        /\ Locked(x)' => op[x].kind = "open"
    BY <1>1, <1>2, <1>4 DEF Early, EarlySteps, InUse, Using, Removing, Locked
  <1>6. HoldsOwn(x)'
    BY <1>5, EarlySession DEF HoldsOwn
  <1>7. StageOf(x)'
    BY <1>1, <1>2, <1>4, <1>5, EarlySession DEF StageOf
  <1>8. OthersKept(x) /\ connected' \ {x} = connected \ {x}
    BY <1>2 DEF OthersKept
  <1>9. Using(x)' \/ (~Using(x) /\ locks'[IdentityLock(x[2])] = locks[IdentityLock(x[2])])
    BY <1>4, <1>5 DEF Using
  <1>10. \A y \in Sessions : y[2] = x[2] => ~Removing(y)
    <2> SUFFICES ASSUME NEW y \in Sessions, y[2] = x[2], Removing(y) PROVE FALSE
      OBVIOUS
    <2>1. op[y].kind = "remove" /\ y[2] \notin Checkout /\ Locked(y)
      BY DEF Removing, Locked, IInv, Stages
    <2>2. locks[OperationLock(x[2])] = y[1]
      BY <2>1 DEF IInv, Held
    <2>3. op[x].kind = "open" /\ y[1] = x[1]
      BY <2>1, <2>2, EarlySession
    <2>4. y = x
      BY <2>3, SessionParts
    <2> QED BY <2>1, <2>3, <2>4
  <1> QED BY <1>3, <1>5, <1>6, <1>7, <1>8, <1>9, <1>10, SessionInv


\* The registration's lock, if it is free.
LEMMA LockRegistrationInv ==
  ASSUME CreatedAssumption, WalletAssumption, IInv, NEW x \in Sessions, LockRegistration(x)
  PROVE  IInv'
  <1>1. /\ op[x].step = "registration" /\ Early(x)
        /\ UNCHANGED <<registered, created, hidden, client, connected, closing>>
    BY DEF LockRegistration, Opening, Early, EarlySteps
  <1>2. /\ locks \in [LockNames -> Pages \cup {NoPage}]
        /\ x[1] \in Pages /\ x[2] \in Wallets /\ client[x] = "none"
    BY <1>1, EarlySession DEF IInv, TypeOK
  <1>3. ~Using(x)
    BY <1>1, <1>2 DEF Using
  <1>4. CASE /\ Free(RegistrationLock(x[2])) /\ Goto(x, "identity")
             /\ locks' = [locks EXCEPT ![RegistrationLock(x[2])] = x[1]]
    <2>1. /\ locks' \in [LockNames -> Pages \cup {NoPage}]
          /\ locks'[RegistrationLock(x[2])] = x[1]
          /\ \A w \in Wallets :
               /\ w # x[2] => locks'[RegistrationLock(w)] = locks[RegistrationLock(w)]
               /\ locks'[IdentityLock(w)] = locks[IdentityLock(w)]
               /\ locks'[OperationLock(w)] = locks[OperationLock(w)]
      BY <1>2, <1>4, LockKinds
    <2>2. OwnLocks(x)
      BY <1>2, <1>4, <2>1 DEF OwnLocks, Free
    <2>3. x \notin connected
      BY <1>1, EarlySession
    <2> QED BY <1>1, <1>2, <1>4, <2>1, <2>2, <2>3, AsksInv
  <1>5. CASE Ended(x, locks)
    <2>1. /\ op' \in [Sessions -> Ops] /\ op'[x] = NoOp
          /\ \A y \in Sessions : y # x => op'[y] = op[y]
          /\ locks' \in [LockNames -> Pages \cup {NoPage}]
          /\ \A l \in LockNames : l # OperationLock(x[2]) => locks'[l] = locks[l]
          /\ locks[OperationLock(x[2])] # x[1] =>
               locks'[OperationLock(x[2])] = locks[OperationLock(x[2])]
      BY <1>2, <1>5, EndedOp DEF IInv
    <2>2. TypeOK'
      BY <1>1, <2>1 DEF IInv, TypeOK
    <2>3. op'[x].kind = "none" /\ client'[x] = "none"
      BY <1>1, <1>2, <2>1, OpsShape
    <2>4. ~Early(x)' /\ ~Using(x)' /\ ~InUse(x)' /\ ~Locked(x)' /\ ~Removing(x)'
      BY <2>3 DEF Early, Using, InUse, Locked, Removing
    <2>5. /\ \A w \in Wallets :
               /\ locks'[RegistrationLock(w)] = locks[RegistrationLock(w)]
               /\ locks'[IdentityLock(w)] = locks[IdentityLock(w)]
               /\ w # x[2] => locks'[OperationLock(w)] = locks[OperationLock(w)]
      BY <1>2, <2>1, LockKinds
    <2>6. OwnLocks(x) /\ OthersKept(x)
      BY <1>1, <1>2, <2>1, <2>5 DEF OwnLocks, OthersKept
    <2>7. HoldsOwn(x)'
      BY <1>1, <1>2, <2>4, <2>5, EarlySession DEF HoldsOwn
    <2>8. StageOf(x)'
      BY <1>1, <2>3, <2>4, EarlySession DEF StageOf
    <2> QED BY <1>1, <1>2, <1>3, <2>2, <2>4, <2>5, <2>6, <2>7, <2>8, SessionInv
  <1> QED BY <1>1, <1>4, <1>5 DEF LockRegistration

\* The lock of its seed, if it is free; if not, the opening is undone.
LEMMA LockIdentityInv ==
  ASSUME CreatedAssumption, WalletAssumption, IInv, NEW x \in Sessions, LockIdentity(x)
  PROVE  IInv'
  <1>1. /\ op[x].step = "identity" /\ Early(x)
        /\ UNCHANGED <<registered, created, hidden, client, connected, closing>>
    BY DEF LockIdentity, Opening, Early, EarlySteps
  <1>2. /\ locks \in [LockNames -> Pages \cup {NoPage}]
        /\ x[1] \in Pages /\ x[2] \in Wallets /\ x \notin connected
        /\ locks[RegistrationLock(x[2])] = x[1]
    BY <1>1, EarlySession DEF IInv, TypeOK
  <1>3. CASE /\ Free(IdentityLock(x[2])) /\ Goto(x, "factory")
             /\ locks' = [locks EXCEPT ![IdentityLock(x[2])] = x[1]]
    <2>1. /\ locks' \in [LockNames -> Pages \cup {NoPage}]
          /\ \A w \in Wallets :
               /\ locks'[RegistrationLock(w)] = locks[RegistrationLock(w)]
               /\ Identity[w] # Identity[x[2]] => locks'[IdentityLock(w)] = locks[IdentityLock(w)]
               /\ Identity[w] = Identity[x[2]] =>
                    locks'[IdentityLock(w)] = x[1] /\ Free(IdentityLock(w))
               /\ locks'[OperationLock(w)] = locks[OperationLock(w)]
      BY <1>2, <1>3, LockKinds DEF Free
    <2>2. OwnLocks(x)
      BY <1>2, <2>1 DEF OwnLocks
    <2> QED BY <1>1, <1>2, <1>3, <2>1, <2>2, AsksInv
  <1>4. CASE Goto(x, "unlock") /\ UNCHANGED locks
    <2>1. OwnLocks(x)
      BY <1>4 DEF OwnLocks
    <2> QED BY <1>1, <1>2, <1>4, <2>1, AsksInv
  <1> QED BY <1>1, <1>3, <1>4 DEF LockIdentity

\* An opening that gives up, its client not connected or disconnected: what it has of
\* its session's locks goes back.
LEMMA GivesUpInv ==
  ASSUME CreatedAssumption, WalletAssumption, IInv, NEW x \in Sessions, Early(x),
         NEW held \in [LockNames -> Pages \cup {NoPage}], Ended(x, held),
         UNCHANGED <<registered, created, hidden, client, closing>>,
         connected' = connected \ {x},
         held[RegistrationLock(x[2])] = NoPage,
         op[x].step # "registration",
         \A w \in Wallets : w # x[2] => held[RegistrationLock(w)] = locks[RegistrationLock(w)],
         \A w \in Wallets : held[OperationLock(w)] = locks[OperationLock(w)],
         \A w \in Wallets : held[IdentityLock(w)] =
           IF Using(x) /\ Identity[w] = Identity[x[2]] THEN NoPage ELSE locks[IdentityLock(w)]
  PROVE  IInv'
  <1>1. /\ x[1] \in Pages /\ x[2] \in Wallets /\ x[1] # NoPage
        /\ client[x] = "none" /\ closing[x] = "none"
        /\ locks[RegistrationLock(x[2])] = x[1]
    BY EarlySession
  <1>2. /\ op' \in [Sessions -> Ops] /\ op'[x] = NoOp
        /\ \A y \in Sessions : y # x => op'[y] = op[y]
        /\ locks' \in [LockNames -> Pages \cup {NoPage}]
        /\ \A l \in LockNames : l # OperationLock(x[2]) => locks'[l] = held[l]
        /\ held[OperationLock(x[2])] # x[1] =>
             locks'[OperationLock(x[2])] = held[OperationLock(x[2])]
    BY EndedOp DEF IInv
  <1>3. TypeOK'
    BY <1>2 DEF IInv, TypeOK
  <1>4. op'[x].kind = "none" /\ client'[x] = "none"
    BY <1>1, <1>2, OpsShape
  <1>5. ~Early(x)' /\ ~Using(x)' /\ ~InUse(x)' /\ ~Locked(x)' /\ ~Removing(x)'
    BY <1>4 DEF Early, Using, InUse, Locked, Removing
  <1>6. /\ \A w \in Wallets :
             /\ locks'[RegistrationLock(w)] = held[RegistrationLock(w)]
             /\ locks'[IdentityLock(w)] = held[IdentityLock(w)]
             /\ w # x[2] => locks'[OperationLock(w)] = held[OperationLock(w)]
    BY <1>1, <1>2, LockKinds
  <1>7. OwnLocks(x)
    BY <1>1, <1>2, <1>6 DEF OwnLocks
  <1>8. OthersKept(x) /\ connected' \ {x} = connected \ {x}
    BY <1>2 DEF OthersKept
  <1>9. HoldsOwn(x)'
    BY <1>1, <1>5, <1>6 DEF HoldsOwn
  <1>10. StageOf(x)'
    BY <1>1, <1>4, <1>5 DEF StageOf
  <1>11. locks'[IdentityLock(x[2])] = x[1] => ~Using(x) /\ locks[IdentityLock(x[2])] = x[1]
    BY <1>1, <1>6
  <1>12. locks'[RegistrationLock(x[2])] = NoPage
    BY <1>1, <1>6
  <1> QED BY <1>3, <1>5, <1>7, <1>8, <1>9, <1>10, <1>11, <1>12, SessionInv

\* The identity was refused, or the SDK opened no client.
LEMMA UnlockFactoryInv ==
  ASSUME CreatedAssumption, WalletAssumption, IInv, NEW x \in Sessions, Unlock(x) \/ Factory(x)
  PROVE  IInv'
  <1>1. /\ op[x].step \in {"unlock", "factory"} /\ Early(x)
        /\ UNCHANGED <<registered, created, hidden, client, closing>>
    BY DEF Unlock, Factory, Opening, Early, EarlySteps
  <1>2. /\ locks \in [LockNames -> Pages \cup {NoPage}]
        /\ x[1] \in Pages /\ x[2] \in Wallets /\ x \notin connected /\ client[x] = "none"
        /\ connected \subseteq Sessions
        /\ locks[RegistrationLock(x[2])] = x[1]
        /\ op[x].step = "factory" => locks[IdentityLock(x[2])] = x[1]
    BY <1>1, EarlySession DEF IInv, TypeOK
  <1>3. Using(x) <=> op[x].step = "factory"
    BY <1>1, <1>2 DEF Using
  <1>4. CASE Unlock(x)
    <2> DEFINE held == [locks EXCEPT ![RegistrationLock(x[2])] = NoPage]
    <2>1. op[x].step = "unlock" /\ Ended(x, held) /\ connected' = connected \ {x}
      BY <1>2, <1>4 DEF Unlock, Opening
    <2>2. /\ held \in [LockNames -> Pages \cup {NoPage}]
          /\ held[RegistrationLock(x[2])] = NoPage
          /\ \A w \in Wallets :
               /\ w # x[2] => held[RegistrationLock(w)] = locks[RegistrationLock(w)]
               /\ held[IdentityLock(w)] = locks[IdentityLock(w)]
               /\ held[OperationLock(w)] = locks[OperationLock(w)]
      BY <1>2, LockKinds
    <2> HIDE DEF held
    <2> QED BY <1>1, <1>3, <2>1, <2>2, GivesUpInv
  <1>5. CASE Factory(x) /\ Ended(x, Released(x)) /\ UNCHANGED connected
    <2>1. op[x].step = "factory" /\ connected' = connected \ {x}
      BY <1>2, <1>5 DEF Factory, Opening
    <2> QED BY <1>1, <1>2, <1>3, <1>5, <2>1, ReleasedLocks, GivesUpInv DEF IInv
  <1>6. CASE /\ Factory(x) /\ connected' = connected \cup {x}
             /\ Goto(x, "attach") /\ UNCHANGED locks
    <2>1. op[x].step = "factory"
      BY <1>6 DEF Factory, Opening
    <2>2. OwnLocks(x)
      BY <1>6 DEF OwnLocks
    <2> QED BY <1>1, <1>2, <1>3, <1>6, <2>1, <2>2, AsksInv
  <1> QED BY <1>1, <1>4, <1>5, <1>6 DEF Factory


\* The client is kept: as the session, or in quarantine.
LEMMA KeepsClientInv ==
  ASSUME CreatedAssumption, WalletAssumption, IInv, NEW x \in Sessions, Early(x),
         op[x].step \in {"attach", "undo"},
         NEW kept \in {"open", "quarantined"}, client' = [client EXCEPT ![x] = kept],
         \/ Goto(x, "validate") /\ UNCHANGED locks
         \/ Ended(x, locks),
         UNCHANGED <<registered, created, hidden, connected, closing>>
  PROVE  IInv'
  <1>1. /\ x[1] \in Pages /\ x[2] \in Wallets /\ x[1] # NoPage
        /\ client[x] = "none" /\ closing[x] = "none"
        /\ locks[RegistrationLock(x[2])] = x[1]
        /\ locks[IdentityLock(x[2])] = x[1]
        /\ op[x].kind \in {"open", "checkout"}
        /\ op[x].kind = "open" =>
             x[2] \notin Checkout /\ locks[OperationLock(x[2])] = x[1]
        /\ op[x].kind = "checkout" => x[2] \in Checkout
    BY EarlySession
  <1>2. /\ locks \in [LockNames -> Pages \cup {NoPage}] /\ client \in [Sessions -> Clients]
    BY DEF IInv, TypeOK
  <1>3. /\ client' \in [Sessions -> Clients] /\ client'[x] = kept
        /\ \A y \in Sessions : y # x => client'[y] = client[y]
    BY <1>2 DEF Clients
  <1>4. /\ op' \in [Sessions -> Ops]
        /\ \A y \in Sessions : y # x => op'[y] = op[y]
        /\ locks' \in [LockNames -> Pages \cup {NoPage}]
        /\ \A l \in LockNames : l # OperationLock(x[2]) => locks'[l] = locks[l]
        /\ locks[OperationLock(x[2])] # x[1] =>
             locks'[OperationLock(x[2])] = locks[OperationLock(x[2])]
        /\ \/ op'[x].kind = "none" /\ op'[x].step = "idle"
           \/ op'[x].kind = op[x].kind /\ op'[x].step = "validate" /\ locks' = locks
    <2>1. CASE Goto(x, "validate") /\ UNCHANGED locks
      BY <1>1, <1>2, <2>1, OpeningType DEF OpenSteps
    <2>2. CASE Ended(x, locks)
      BY <1>2, <2>2, EndedOp, OpsShape DEF IInv
    <2> QED BY <2>1, <2>2
  <1>5. TypeOK'
    BY <1>3, <1>4 DEF IInv, TypeOK
  <1>6. Using(x) /\ Using(x)' /\ InUse(x)' /\ ~Early(x)' /\ ~Removing(x)'
    BY <1>1, <1>3, <1>4 DEF Using, InUse, Early, EarlySteps, Removing
  <1>7. Locked(x)' => op[x].kind = "open" /\ locks' = locks
    BY <1>1, <1>4 DEF Locked
  <1>8. \A w \in Wallets :
          /\ locks'[RegistrationLock(w)] = locks[RegistrationLock(w)]
          /\ locks'[IdentityLock(w)] = locks[IdentityLock(w)]
          /\ w # x[2] => locks'[OperationLock(w)] = locks[OperationLock(w)]
    BY <1>1, <1>4, LockKinds
  <1>9. OwnLocks(x) /\ OthersKept(x)
    BY <1>1, <1>3, <1>4, <1>8 DEF OwnLocks, OthersKept
  <1>10. HoldsOwn(x)'
    BY <1>1, <1>6, <1>7, <1>8 DEF HoldsOwn
  <1>11. StageOf(x)'
    BY <1>1, <1>3, <1>4, <1>6 DEF StageOf
  <1> QED BY <1>1, <1>5, <1>6, <1>8, <1>9, <1>10, <1>11, SessionInv

\* The session is kept, or undone.
LEMMA AttachUndoInv ==
  ASSUME CreatedAssumption, WalletAssumption, IInv, NEW x \in Sessions, Attach(x) \/ Undo(x)
  PROVE  IInv'
  <1>1. /\ op[x].step \in {"attach", "undo"} /\ Early(x)
        /\ UNCHANGED <<registered, created, hidden, closing>>
    BY DEF Attach, Undo, Opening, Early, EarlySteps
  <1>2. /\ locks \in [LockNames -> Pages \cup {NoPage}]
        /\ x[1] \in Pages /\ x[2] \in Wallets /\ client[x] = "none"
        /\ locks[RegistrationLock(x[2])] = x[1]
        /\ locks[IdentityLock(x[2])] = x[1]
    BY <1>1, EarlySession DEF IInv, TypeOK
  <1>3. Using(x)
    BY <1>1 DEF Using
  <1>4. CASE /\ Attach(x) /\ client' = [client EXCEPT ![x] = "open"]
             /\ (Goto(x, "validate") /\ UNCHANGED locks) \/ Ended(x, locks)
             /\ UNCHANGED connected
    BY <1>1, <1>4, KeepsClientInv
  <1>5. CASE Goto(x, "undo") /\ UNCHANGED <<client, locks, connected>>
    <2>1. OwnLocks(x)
      BY <1>5 DEF OwnLocks
    <2> QED BY <1>1, <1>2, <1>3, <1>5, <2>1, AsksInv
  <1>6. CASE connected' = connected \ {x} /\ Ended(x, Released(x)) /\ UNCHANGED client
    BY <1>1, <1>2, <1>3, <1>6, ReleasedLocks, GivesUpInv DEF IInv
  <1>7. CASE client' = [client EXCEPT ![x] = "quarantined"] /\ Ended(x, locks)
             /\ UNCHANGED connected
    BY <1>1, <1>7, KeepsClientInv
  <1> QED BY <1>1, <1>4, <1>5, <1>6, <1>7 DEF Attach, Undo

\* A disconnect, confirmed or not.
LEMMA DisconnectInv ==
  ASSUME WalletAssumption, IInv, NEW x \in Sessions, Disconnect(x)
  PROVE  IInv'
  <1>1. /\ closing[x] = "disconnect" /\ client[x] # "none"
        /\ UNCHANGED <<registered, created, hidden, locks, client, op>>
    BY DEF Disconnect, IInv, Stages
  <1>2. \/ connected' = connected \ {x} /\ closing' = [closing EXCEPT ![x] = "release"]
        \/ connected' = connected /\ closing' = [closing EXCEPT ![x] = "none"]
    BY DEF Disconnect
  <1>3. /\ closing' \in [Sessions -> Closings] /\ closing'[x] \in {"none", "release"}
        /\ \A y \in Sessions : y # x => closing'[y] = closing[y]
        /\ connected' \subseteq Sessions
        /\ closing'[x] = "release" => x \notin connected'
    BY <1>2 DEF IInv, TypeOK, Closings
  <1>4. TypeOK'
    BY <1>1, <1>3 DEF IInv, TypeOK
  <1>5. /\ Using(x) /\ Using(x)' /\ InUse(x)' /\ InUse(x)
        /\ Early(x)' <=> Early(x)
        /\ Locked(x)' <=> Locked(x)
        /\ Removing(x)' <=> Removing(x)
    BY <1>1 DEF Using, InUse, Early, Locked, Removing
  <1>6. HoldsOwn(x)'
    BY <1>1, <1>5 DEF HoldsOwn, IInv, Held
  <1>7. StageOf(x)'
    BY <1>1, <1>3, <1>5 DEF StageOf, IInv, Stages, Free
  <1>8. OwnLocks(x) /\ OthersKept(x) /\ connected' \ {x} = connected \ {x}
    BY <1>1, <1>2, <1>3 DEF OwnLocks, OthersKept
  <1> QED BY <1>1, <1>4, <1>5, <1>6, <1>7, <1>8, SessionInv

\* A disconnected session gives its locks back.
LEMMA ReleaseSessionInv ==
  ASSUME WalletAssumption, IInv, NEW x \in Sessions, ReleaseSession(x)
  PROVE  IInv'
  <1>1. /\ closing[x] = "release" /\ client[x] # "none" /\ x \notin connected
        /\ locks' = Released(x)
        /\ client' = [client EXCEPT ![x] = "none"]
        /\ closing' = [closing EXCEPT ![x] = "none"]
        /\ UNCHANGED <<registered, created, hidden, connected, op>>
    BY DEF ReleaseSession, IInv, Stages
  <1>2. x[1] \in Pages /\ x[2] \in Wallets /\ x[1] # NoPage
    BY SessionParts DEF WalletAssumption
  <1>3. /\ client' \in [Sessions -> Clients] /\ client'[x] = "none"
        /\ closing' \in [Sessions -> Closings] /\ closing'[x] = "none"
        /\ OthersKept(x)
    BY <1>1 DEF IInv, TypeOK, Clients, Closings, OthersKept
  <1>4. /\ locks' \in [LockNames -> Pages \cup {NoPage}]
        /\ \A w \in Wallets :
             /\ locks'[OperationLock(w)] = locks[OperationLock(w)]
             /\ locks'[RegistrationLock(w)] =
                  IF w = x[2] THEN NoPage ELSE locks[RegistrationLock(w)]
             /\ locks'[IdentityLock(w)] =
                  IF Identity[w] = Identity[x[2]] THEN NoPage ELSE locks[IdentityLock(w)]
    BY <1>1, ReleasedLocks DEF IInv
  <1>5. TypeOK'
    BY <1>1, <1>3, <1>4 DEF IInv, TypeOK
  <1>6. Using(x) /\ InUse(x) /\ locks[RegistrationLock(x[2])] = x[1]
    BY <1>1 DEF Using, InUse, IInv, Held
  <1>7. /\ ~Early(x) /\ ~Early(x)'
        /\ ~Using(x)' /\ ~InUse(x)'
        /\ Locked(x)' <=> Locked(x)
        /\ Removing(x)' <=> Removing(x)
    BY <1>1, <1>3 DEF IInv, Stages, Using, InUse, Early, Locked, Removing
  <1>8. OwnLocks(x)
    BY <1>4, <1>6 DEF OwnLocks
  <1>9. HoldsOwn(x)'
    BY <1>1, <1>2, <1>4, <1>7 DEF HoldsOwn, IInv, Held
  <1>10. StageOf(x)'
    BY <1>1, <1>2, <1>3, <1>4, <1>7 DEF StageOf, IInv, Stages, Free
  <1>11. locks'[IdentityLock(x[2])] # x[1] /\ locks'[RegistrationLock(x[2])] = NoPage
    BY <1>2, <1>4
  <1> QED BY <1>1, <1>3, <1>5, <1>7, <1>8, <1>9, <1>10, <1>11, SessionInv

\* A page that goes away takes everything of its sessions with it.
LEMMA UnloadInv ==
  ASSUME CreatedAssumption, WalletAssumption, IInv, NEW p \in Pages, Unload(p)
  PROVE  IInv'
  <1>1. /\ locks' = [l \in LockNames |-> IF locks[l] = p THEN NoPage ELSE locks[l]]
        /\ client' = [x \in Sessions |-> IF x[1] = p THEN "none" ELSE client[x]]
        /\ connected' = {x \in connected : x[1] # p}
        /\ closing' = [x \in Sessions |-> IF x[1] = p THEN "none" ELSE closing[x]]
        /\ op' = [x \in Sessions |-> IF x[1] = p THEN NoOp ELSE op[x]]
        /\ UNCHANGED <<registered, created, hidden>>
    BY DEF Unload
  <1>2. TypeOK'
    BY <1>1, OpsShape DEF IInv, TypeOK, Clients, Closings
  <1>3. ASSUME NEW x \in Sessions, x[1] = p
        PROVE  /\ client'[x] = "none" /\ closing'[x] = "none" /\ x \notin connected'
               /\ op'[x].kind = "none"
               /\ ~Early(x)' /\ ~Using(x)' /\ ~InUse(x)' /\ ~Locked(x)' /\ ~Removing(x)'
    BY <1>1, <1>3, OpsShape DEF Early, Using, InUse, Locked, Removing
  <1>4. ASSUME NEW x \in Sessions, x[1] # p
        PROVE  /\ client'[x] = client[x] /\ closing'[x] = closing[x] /\ op'[x] = op[x]
               /\ x \in connected' <=> x \in connected
               /\ Early(x)' <=> Early(x)
               /\ Using(x)' <=> Using(x)
               /\ InUse(x)' <=> InUse(x)
               /\ Locked(x)' <=> Locked(x)
               /\ Removing(x)' <=> Removing(x)
    BY <1>1, <1>4, Unaffected
  <1>5. \A l \in LockNames : /\ locks'[l] \in {locks[l], NoPage}
                             /\ locks[l] # p => locks'[l] = locks[l]
                             /\ locks'[l] # p
    BY <1>1 DEF WalletAssumption
  <1>6. Held'
    <2> SUFFICES ASSUME NEW x \in Sessions, x[1] # p
                 PROVE  /\ InUse(x)' => locks'[RegistrationLock(x[2])] = x[1]
                        /\ Using(x)' => locks'[IdentityLock(x[2])] = x[1]
                        /\ Locked(x)' => locks'[OperationLock(x[2])] = x[1]
      BY <1>3 DEF Held
    <2>1. x[2] \in Wallets
      BY SessionParts
    <2> QED BY <1>4, <1>5, <2>1, LockKinds DEF IInv, Held
  <1>7. Alone'
    BY <1>3, <1>4 DEF IInv, Alone
  <1>8. Attached'
    <2> SUFFICES ASSUME NEW x \in connected'
                 PROVE  client'[x] # "none" \/ (Early(x)' /\ op'[x].step \in {"attach", "undo"})
      BY DEF Attached
    <2>1. x \in connected /\ x \in Sessions /\ x[1] # p
      BY <1>1 DEF IInv, TypeOK
    <2> QED BY <1>4, <2>1 DEF IInv, Attached
  <1>9. Stages'
    <2> SUFFICES ASSUME NEW x \in Sessions
                 PROVE  /\ Early(x)' => client'[x] = "none"
                        /\ closing'[x] # "none" => client'[x] # "none"
                        /\ closing'[x] = "release" => x \notin connected'
                        /\ op'[x].kind \in {"open", "remove"} => x[2] \notin Checkout
                        /\ op'[x].kind = "checkout" =>
                             x[2] \in Checkout /\ op'[x].step # "queued"
                        /\ Removing(x)' => Free(RegistrationLock(x[2]))'
      BY DEF Stages
    <2>1. CASE x[1] = p
      BY <1>3, <2>1
    <2>2. CASE x[1] # p
      <3>1. x[2] \in Wallets
        BY SessionParts
      <3>2. Free(RegistrationLock(x[2])) => Free(RegistrationLock(x[2]))'
        BY <1>5, <3>1, LockKinds DEF Free
      <3> QED BY <1>4, <2>2, <3>2 DEF IInv, Stages
    <2> QED BY <2>1, <2>2
  <1>10. NoLeak'
    <2> SUFFICES ASSUME NEW q \in Pages, NEW w \in Wallets
                 PROVE  /\ locks'[RegistrationLock(w)] = q => InUse(<<q, w>>)'
                        /\ locks'[IdentityLock(w)] = q =>
                             \E v \in Wallets : Identity[v] = Identity[w] /\ Using(<<q, v>>)'
      BY DEF NoLeak
    <2>1. q # NoPage /\ RegistrationLock(w) \in LockNames /\ IdentityLock(w) \in LockNames
      BY LockKinds DEF WalletAssumption
    <2>2. CASE q = p
      BY <1>5, <2>1, <2>2
    <2>3. CASE q # p
      <3>1. \A v \in Wallets : <<q, v>> \in Sessions /\ <<q, v>>[1] # p
        BY <2>3, SessionParts
      <3>2. /\ locks'[RegistrationLock(w)] = q => locks[RegistrationLock(w)] = q
            /\ locks'[IdentityLock(w)] = q => locks[IdentityLock(w)] = q
        BY <1>5, <2>1
      <3> QED BY <1>4, <3>1, <3>2 DEF IInv, NoLeak
    <2> QED BY <2>2, <2>3
  <1> QED BY <1>2, <1>6, <1>7, <1>8, <1>9, <1>10 DEF IInv

\* Recovery sync touches no session.
LEMMA SyncElsewhereInv ==
  ASSUME CreatedAssumption, IInv, NEW w \in Wallets, Register(w) \/ Hide(w)
  PROVE  IInv'
  <1>1. UNCHANGED <<locks, client, connected, closing, op>>
    BY DEF Register, Hide
  <1>2. TypeOK'
    BY <1>1 DEF Register, Hide, IInv, TypeOK, CreatedAssumption
  <1> QED BY <1>1, <1>2 DEF IInv, Held, Alone, Attached, Stages, NoLeak, Early, Using, InUse,
       Locked, Removing, Free

\* Nothing holds, waits or runs at the start.
LEMMA InitInv == ASSUME CreatedAssumption, WalletAssumption, Init PROVE IInv
  <1>1. /\ locks \in [LockNames -> Pages \cup {NoPage}]
        /\ \A w \in Wallets : /\ locks[RegistrationLock(w)] = NoPage
                              /\ locks[IdentityLock(w)] = NoPage
    BY LockKinds DEF Init
  <1>2. /\ client \in [Sessions -> Clients] /\ closing \in [Sessions -> Closings]
        /\ connected = {} /\ op \in [Sessions -> Ops]
        /\ \A x \in Sessions : client[x] = "none" /\ closing[x] = "none" /\ op[x] = NoOp
    BY OpsShape DEF Init, Clients, Closings
  <1>3. TypeOK
    <2>1. /\ registered \in [Wallets -> 0 .. MaxCreated] /\ created \in 0 .. MaxCreated
          /\ hidden = {}
      BY DEF Init, CreatedAssumption
    <2> QED BY <1>1, <1>2, <2>1 DEF TypeOK
  <1>4. \A x \in Sessions : /\ op[x].kind = "none" /\ ~Early(x) /\ ~Using(x) /\ ~InUse(x)
                            /\ ~Locked(x) /\ ~Removing(x)
    BY <1>2, OpsShape DEF Early, Using, InUse, Locked, Removing
  <1>5. NoLeak
    BY <1>1 DEF NoLeak, WalletAssumption
  <1> HIDE DEF Init
  <1>6. Held /\ Alone
    BY <1>2, <1>4 DEF Held, Alone
  <1>7. Attached
    BY <1>2 DEF Attached
  <1>8. Stages
    <2> SUFFICES ASSUME NEW x \in Sessions
                 PROVE  /\ ~Early(x) /\ ~Removing(x)
                        /\ closing[x] = "none" /\ op[x].kind = "none"
      BY DEF Stages
    <2> QED BY <1>2, <1>4
  <1> QED BY <1>3, <1>5, <1>6, <1>7, <1>8 DEF IInv

\* Every step keeps the invariant: one case per action.
LEMMA NextInv ==
  ASSUME CreatedAssumption, WalletAssumption, IInv, [Next]_vars
  PROVE  IInv'
  <1>1. CASE UNCHANGED vars
    <2>1. /\ \A x \in Sessions : op'[x] = op[x] /\ client'[x] = client[x]
          /\ UNCHANGED <<locks, client, closing, connected, op>>
      BY <1>1 DEF vars
    <2>2. \A x \in Sessions : /\ Early(x)' <=> Early(x)
                              /\ Using(x)' <=> Using(x)
                              /\ InUse(x)' <=> InUse(x)
                              /\ Locked(x)' <=> Locked(x)
                              /\ Removing(x)' <=> Removing(x)
      BY <2>1, Unaffected
    <2>3. TypeOK'
      BY <1>1 DEF vars, IInv, TypeOK
    <2>4. Held'
      BY <2>1, <2>2 DEF IInv, Held
    <2>5. Alone'
      BY <2>2 DEF IInv, Alone
    <2>6. Attached'
      <3>1. \A x \in connected : x \in Sessions
        BY DEF IInv, TypeOK
      <3> QED BY <2>1, <2>2, <3>1 DEF IInv, Attached
    <2>7. Stages'
      <3>1. \A w \in Wallets : Free(RegistrationLock(w))' <=> Free(RegistrationLock(w))
        BY <2>1 DEF Free
      <3> QED BY <2>1, <2>2, <3>1, SessionParts DEF IInv, Stages
    <2>8. NoLeak'
      <3>1. \A p \in Pages, w \in Wallets : /\ Using(<<p, w>>)' <=> Using(<<p, w>>)
                                            /\ InUse(<<p, w>>)' <=> InUse(<<p, w>>)
        BY <2>2, SessionParts
      <3> QED BY <2>1, <3>1 DEF IInv, NoLeak
    <2> QED BY <2>3, <2>4, <2>5, <2>6, <2>7, <2>8 DEF IInv
  <1>2. ASSUME NEW x \in Sessions,
               \/ Queue(x, "open") \/ Queue(x, "remove") \/ StartCheckout(x)
               \/ Granted(x) \/ CloseOutside(x) \/ EndClosing(x)
        PROVE  IInv'
    BY <1>2, QueueInv, StartCheckoutInv, GrantedInv, CloseOutsideInv, DisconnectInv,
       ReleaseSessionInv DEF EndClosing
  <1>3. ASSUME NEW x \in Sessions, Advance(x)
        PROVE  IInv'
    BY <1>3, AroundSessionInv, RemovalInv, OwnClosedInv, LockRegistrationInv, LockIdentityInv,
       UnlockFactoryInv, AttachUndoInv DEF Advance
  <1> QED BY <1>1, <1>2, <1>3, SyncElsewhereInv, UnloadInv DEF Next

\* The invariant holds in every reachable state.
LEMMA Invariance ==
  ASSUME CreatedAssumption, WalletAssumption PROVE Spec => []IInv
  <1>1. Init => IInv
    BY InitInv
  <1>2. IInv /\ [Next]_vars => IInv'
    BY NextInv
  <1> QED BY <1>1, <1>2, PTL DEF Spec

-----------------------------------------------------------------------------
(* The theorems.                                                           *)

\* Locks, clients and operations keep the types the code gives them.
THEOREM SessionTypes ==
  ASSUME CreatedAssumption, WalletAssumption PROVE Spec => []TypeOK
  <1>1. IInv => TypeOK
    BY DEF IInv
  <1> QED BY <1>1, Invariance, PTL

\* At most one SDK client is connected per seed, in all pages, whatever registrations
\* share it and whichever disconnects fail (acquireSparkWalletManagerSessionLease).
THEOREM OneClientPerSeed ==
  ASSUME CreatedAssumption, WalletAssumption PROVE Spec => []OneSession
  <1>1. IInv => OneSession
    BY DEF IInv, TypeOK, Attached, Alone, Using, OneSession
  <1> QED BY <1>1, Invariance, PTL

\* A session lock is held only by a page that is opening that wallet or still has its
\* client to close: no failure path leaves a wallet locked until reload.
THEOREM NoLockLeft ==
  ASSUME CreatedAssumption, WalletAssumption PROVE Spec => []NothingLeaked
  <1>1. IInv => NothingLeaked
    <2> SUFFICES ASSUME IInv, NEW w \in Wallets, NEW p \in Pages
                 PROVE  LET inUse(v) ==
                              client[<<p, v>>] # "none"
                                \/ Opening(<<p, v>>, "identity") \/ Opening(<<p, v>>, "unlock")
                                \/ Opening(<<p, v>>, "factory") \/ Opening(<<p, v>>, "attach")
                                \/ Opening(<<p, v>>, "undo")
                        IN /\ locks[RegistrationLock(w)] = p => inUse(w)
                           /\ locks[IdentityLock(w)] = p =>
                                \E v \in Wallets : Identity[v] = Identity[w] /\ inUse(v)
      BY DEF NothingLeaked
    <2> DEFINE inUse(v) ==
          client[<<p, v>>] # "none"
            \/ Opening(<<p, v>>, "identity") \/ Opening(<<p, v>>, "unlock")
            \/ Opening(<<p, v>>, "factory") \/ Opening(<<p, v>>, "attach")
            \/ Opening(<<p, v>>, "undo")
    <2>1. \A v : InUse(<<p, v>>) \/ Using(<<p, v>>) => inUse(v)
      BY DEF InUse, Using, Early, EarlySteps, Opening
    <2> HIDE DEF inUse
    <2>2. /\ locks[RegistrationLock(w)] = p => inUse(w)
          /\ locks[IdentityLock(w)] = p =>
               \E v \in Wallets : Identity[v] = Identity[w] /\ inUse(v)
      BY <2>1 DEF IInv, NoLeak
    <2> QED BY <2>2 DEF inUse
  <1> QED BY <1>1, Invariance, PTL

\* All that is said of a page's clients and locks.
THEOREM SessionsAreSafe ==
  ASSUME CreatedAssumption, WalletAssumption PROVE Spec => []SessionsSafe
  <1>1. TypeOK /\ OneSession /\ NothingLeaked => SessionsSafe
    BY DEF SessionsSafe
  <1> QED BY <1>1, SessionTypes, OneClientPerSeed, NoLockLeft, PTL

\* When a removal takes a registration away no page has a client of it connected
\* (runSparkWalletRemoval, cleanupSparkWalletState).
THEOREM RemovedUnused ==
  ASSUME CreatedAssumption, WalletAssumption PROVE Spec => RemovedWhileClosed
  <1>1. IInv => RemovesClosed
    <2> SUFFICES ASSUME IInv, NEW x \in Sessions, Remove(x), NEW p \in Pages,
                        <<p, x[2]>> \in connected
                 PROVE  FALSE
      BY DEF RemovesClosed
    <2> DEFINE y == <<p, x[2]>>
    <2>1. x[2] \in Wallets /\ y \in Sessions /\ y[1] = p /\ y[2] = x[2] /\ p # NoPage
      BY SessionParts DEF WalletAssumption
    <2>2. InUse(y)
      BY DEF IInv, Attached, InUse
    <2>3. locks[RegistrationLock(x[2])] = p
      BY <2>1, <2>2 DEF IInv, Held
    <2>4. Removing(x)
      BY DEF Remove, At, Removing
    <2> QED BY <2>1, <2>3, <2>4 DEF IInv, Stages, Free
  <1> QED BY <1>1, Invariance, PTL DEF Spec, RemovedWhileClosed

-----------------------------------------------------------------------------
(* The migration of an NWC connection: its inductive invariant.            *)

\* Where an attempt has a wallet.
HasWallet == {"registered", "verify", "compensate"}

\* An attempt that registered a wallet: the id is still that wallet's, or used up.
CreatedIsOwn(a) ==
  job[a].created =>
    /\ job[a].step \in HasWallet
    /\ job[a].id \in Migration!Ids
    /\ wallets[job[a].id] \in {Migration!Removed, [uri |-> job[a].uri, by |-> a]}

MigrationInv ==
  /\ Migration!TypeOK
  /\ \A a \in Attempts :
       /\ CreatedIsOwn(a)
       /\ job[a].step # "idle" => job[a].uri \in Uris
  /\ Migration!OneWallet

\* With one attempt at a time: while the merchant still wants the connection of a
\* copy that may be taken back, the old place has it.
OldCopyStays ==
  \A a \in Attempts :
    job[a].created /\ job[a].uri \in entrusted => legacy = job[a].uri

SerialInv ==
  /\ MigrationInv
  /\ Migration!OneAtATime
  /\ OldCopyStays
  /\ Migration!NeverLost

-----------------------------------------------------------------------------
(* Wallets and attempts.                                                   *)

\* An id is not registered yet, registered with a connection, or used up.
LEMMA WalletFacts ==
  ASSUME Migration!NoUriAssumption, Migration!TypeOK, NEW i \in Migration!Ids
  PROVE  /\ wallets[i] \in Migration!Wallet \cup {Migration!NoWallet, Migration!Removed}
         /\ Migration!NoWallet \notin Migration!Wallet
         /\ Migration!Removed \notin Migration!Wallet
         /\ Migration!NoWallet # Migration!Removed
         /\ i \in Migration!Registered <=> wallets[i] \in Migration!Wallet
         /\ i \in Migration!Registered => wallets[i].uri \in Uris
  <1>1. wallets[i] \in Migration!Wallet \cup {Migration!NoWallet, Migration!Removed}
    BY DEF Migration!TypeOK
  <1>2. /\ Migration!NoWallet \notin Migration!Wallet
        /\ Migration!Removed \notin Migration!Wallet
    BY DEF Migration!NoUriAssumption, Migration!NoWallet, Migration!Removed,
      Migration!Wallet
  <1>3. Migration!NoWallet # Migration!Removed
    <2>1. Migration!NoWallet.by = "hand" /\ Migration!Removed.by = "removed"
      BY DEF Migration!NoWallet, Migration!Removed, Migration!Hand
    <2>2. "hand" # "removed"
      OBVIOUS
    <2> QED BY <2>1, <2>2
  <1>4. wallets[i] \in Migration!Wallet => wallets[i].uri \in Uris
    BY DEF Migration!Wallet
  <1> QED BY <1>1, <1>2, <1>3, <1>4 DEF Migration!Registered

\* The parts of an attempt have their types.
LEMMA AttemptTypes ==
  ASSUME Migration!TypeOK, NEW a \in Attempts
  PROVE  /\ job[a] \in Migration!Job /\ job[a].step \in Migration!Steps
         /\ job[a].uri \in Uris \cup {NoUri} /\ job[a].id \in Migration!Ids \cup {0}
         /\ job[a].created \in BOOLEAN /\ job[a].current \in BOOLEAN
  <1>1. job[a] \in Migration!Job
    BY DEF Migration!TypeOK
  <1> QED BY <1>1 DEF Migration!Job

\* What an attempt's step does to it.
LEMMA AttemptMoves ==
  /\ Migration!Idle \in Migration!Job
  /\ Migration!Idle.step = "idle" /\ ~Migration!Idle.created
  /\ \A j \in Migration!Job, step \in Migration!Steps :
       /\ [j EXCEPT !.step = step] \in Migration!Job
       /\ [j EXCEPT !.step = step].step = step
       /\ [j EXCEPT !.step = step].uri = j.uri
       /\ [j EXCEPT !.step = step].id = j.id
       /\ [j EXCEPT !.step = step].created <=> j.created
  /\ \A j \in Migration!Job :
       /\ [j EXCEPT !.current = FALSE] \in Migration!Job
       /\ [j EXCEPT !.current = FALSE].step = j.step
       /\ [j EXCEPT !.current = FALSE].uri = j.uri
       /\ [j EXCEPT !.current = FALSE].id = j.id
       /\ [j EXCEPT !.current = FALSE].created <=> j.created
  <1>1. /\ Migration!Idle \in Migration!Job
        /\ Migration!Idle.step = "idle" /\ ~Migration!Idle.created
    BY DEF Migration!Idle, Migration!Job, Migration!Steps
  <1>2. ASSUME NEW j \in Migration!Job, NEW step \in Migration!Steps
        PROVE  /\ [j EXCEPT !.step = step] \in Migration!Job
               /\ [j EXCEPT !.step = step].step = step
               /\ [j EXCEPT !.step = step].uri = j.uri
               /\ [j EXCEPT !.step = step].id = j.id
               /\ [j EXCEPT !.step = step].created <=> j.created
    BY DEF Migration!Job
  <1>3. ASSUME NEW j \in Migration!Job
        PROVE  /\ [j EXCEPT !.current = FALSE] \in Migration!Job
               /\ [j EXCEPT !.current = FALSE].step = j.step
               /\ [j EXCEPT !.current = FALSE].uri = j.uri
               /\ [j EXCEPT !.current = FALSE].id = j.id
               /\ [j EXCEPT !.current = FALSE].created <=> j.created
    BY DEF Migration!Job
  <1> QED BY <1>1, <1>2, <1>3


\* One attempt moves and the others stay.
MovesTo(a, j) ==
  /\ j \in Migration!Job
  /\ job' = [job EXCEPT ![a] = j]

LEMMA MovesToFacts ==
  ASSUME Migration!TypeOK, NEW a \in Attempts, NEW j, MovesTo(a, j)
  PROVE  /\ job' \in [Attempts -> Migration!Job]
         /\ job'[a] = j
         /\ \A b \in Attempts : b # a => job'[b] = job[b]
  BY DEF Migration!TypeOK, MovesTo

\* The end of an attempt, and a step to another point of it.
LEMMA EndMoves ==
  ASSUME NEW a \in Attempts, Migration!End(a)
  PROVE  MovesTo(a, Migration!Idle)
  BY AttemptMoves DEF Migration!End, MovesTo

LEMMA GotoMoves ==
  ASSUME Migration!TypeOK, NEW a \in Attempts, NEW step \in Migration!Steps,
         Migration!Goto(a, step)
  PROVE  MovesTo(a, [job[a] EXCEPT !.step = step])
  <1>1. job' = [job EXCEPT ![a] = [job[a] EXCEPT !.step = step]]
    BY DEF Migration!Goto
  <1> QED BY <1>1, AttemptTypes, AttemptMoves DEF MovesTo

\* Wallets that stay as they are, or are used up, keep every attempt's own copy its.
LEMMA OwnKept ==
  ASSUME NEW b \in Attempts, CreatedIsOwn(b), job'[b] = job[b],
         \A i \in Migration!Ids : wallets'[i] \in {wallets[i], Migration!Removed}
  PROVE  CreatedIsOwn(b)'
  BY DEF CreatedIsOwn

\* A wallet that is taken back leaves one wallet per connection.
LEMMA OneWalletKept ==
  ASSUME Migration!OneWallet, \A i \in Migration!Ids : wallets'[i] \in {wallets[i],
         Migration!Removed}
  PROVE  Migration!OneWallet'
  <1>1. Migration!Registered' \subseteq Migration!Registered
    BY DEF Migration!Registered
  <1>2. \A i \in Migration!Registered' : wallets'[i] = wallets[i]
    BY DEF Migration!Registered
  <1> QED BY <1>1, <1>2 DEF Migration!OneWallet

-----------------------------------------------------------------------------
(* Initially.                                                              *)

LEMMA MigrationInit ==
  ASSUME Migration!NoUriAssumption, Migration!BoundAssumption
  PROVE  Migration!Init => SerialInv
  <1> SUFFICES ASSUME Migration!Init PROVE SerialInv
    OBVIOUS
  <1>1. 1 \in Migration!Ids
    BY DEF Migration!BoundAssumption, Migration!Ids
  <1>2. \A i \in Migration!Ids :
          \/ wallets[i] = Migration!NoWallet
          \/ i = 1 /\ \E u \in Uris : wallets[i] = [uri |-> u, by |-> Migration!Hand]
    <2>1. CASE wallets = [i \in Migration!Ids |-> Migration!NoWallet]
      BY <2>1
    <2>2. ASSUME NEW u \in Uris,
                 wallets = [i \in Migration!Ids |->
                   IF i = 1 THEN [uri |-> u, by |-> Migration!Hand] ELSE Migration!NoWallet]
          PROVE  \A i \in Migration!Ids :
                   \/ wallets[i] = Migration!NoWallet
                   \/ i = 1 /\ wallets[i] = [uri |-> u, by |-> Migration!Hand]
      BY <2>2
    <2> QED BY <2>1, <2>2 DEF Migration!Init
  <1>3. wallets \in [Migration!Ids ->
                       Migration!Wallet \cup {Migration!NoWallet, Migration!Removed}]
    BY <1>1 DEF Migration!Init, Migration!Wallet
  <1>4. Migration!Copies \subseteq Uris
    <2>1. \A i \in Migration!Registered : wallets[i].uri \in Uris
      <3>1. \A u \in Uris : [uri |-> u, by |-> Migration!Hand].uri \in Uris
        OBVIOUS
      <3> QED BY <1>2, <3>1 DEF Migration!Registered
    <2>2. legacy \in Uris \cup {NoUri}
      BY DEF Migration!Init
    <2> QED BY <2>1, <2>2 DEF Migration!Copies
  <1>5. Migration!TypeOK
    BY <1>3, <1>4, AttemptMoves DEF Migration!Init, Migration!TypeOK
  <1>6. \A i, k \in Migration!Registered : i = k
    BY <1>2 DEF Migration!Registered
  <1>7. \A a \in Attempts : job[a].step = "idle" /\ ~job[a].created
    BY AttemptMoves DEF Migration!Init
  <1>8. entrusted = Migration!Copies
    BY DEF Migration!Init
  <1> QED BY <1>5, <1>6, <1>7, <1>8 DEF SerialInv, MigrationInv, CreatedIsOwn,
    Migration!OneWallet,
        Migration!OneAtATime, OldCopyStays, Migration!NeverLost

-----------------------------------------------------------------------------
(* Every step keeps the invariant.                                         *)

\* Steps of an attempt that register no wallet.
LEMMA AttemptKeeps ==
  ASSUME MigrationInv, NEW a \in Attempts, NEW j, MovesTo(a, j),
         legacy' \in {legacy, NoUri}, entrusted' = entrusted,
         \A i \in Migration!Ids : wallets'[i] \in {wallets[i], Migration!Removed},
         wallets' \in [Migration!Ids ->
                         Migration!Wallet \cup {Migration!NoWallet, Migration!Removed}],
         j.created => job[a].created /\ j.id = job[a].id /\ j.uri = job[a].uri
                      /\ j.step \in HasWallet,
         j.step # "idle" => j.uri \in Uris
  PROVE  MigrationInv'
  <1>1. Migration!TypeOK
    BY DEF MigrationInv
  <1>2. /\ job' \in [Attempts -> Migration!Job] /\ job'[a] = j
        /\ \A b \in Attempts : b # a => job'[b] = job[b]
    BY <1>1, MovesToFacts
  <1>3. Migration!TypeOK'
    BY <1>1, <1>2 DEF Migration!TypeOK
  <1>4. Migration!OneWallet'
    BY OneWalletKept DEF MigrationInv
  <1>5. ASSUME NEW b \in Attempts
        PROVE  CreatedIsOwn(b)' /\ (job'[b].step # "idle" => job'[b].uri \in Uris)
    <2>1. CASE b = a
      BY <2>1, <1>2 DEF MigrationInv, CreatedIsOwn
    <2>2. CASE b # a
      BY <2>2, <1>2, OwnKept DEF MigrationInv
    <2> QED BY <2>1, <2>2
  <1> QED BY <1>3, <1>4, <1>5 DEF MigrationInv

\* A new wallet, under an id that was never used, of a connection that has none.
LEMMA RegistrationKeeps ==
  ASSUME Migration!NoUriAssumption, MigrationInv, NEW a \in Attempts,
         NEW i \in Migration!Unused,
         job[a].step = "connect", Migration!Matching(job[a].uri) = {},
         UNCHANGED <<legacy, entrusted>>,
         wallets' = [wallets EXCEPT ![i] = [uri |-> job[a].uri, by |-> a]],
         job' = [job EXCEPT ![a].step = "registered", ![a].id = i, ![a].created = TRUE]
  PROVE  MigrationInv' /\ Migration!Registered' = Migration!Registered \cup {i}
  <1> DEFINE new == [uri |-> job[a].uri, by |-> a]
             j == [job[a] EXCEPT !.step = "registered", !.id = i, !.created = TRUE]
  <1>1. /\ Migration!TypeOK /\ i \in Migration!Ids
        /\ wallets[i] = Migration!NoWallet /\ job[a].uri \in Uris
    BY DEF MigrationInv, Migration!Unused
  <1>2. new \in Migration!Wallet
    BY <1>1 DEF Migration!Wallet
  <1>3. job[a] \in Migration!Job
    BY <1>1, AttemptTypes
  <1>4. /\ j \in Migration!Job /\ j.step = "registered" /\ j.id = i /\ j.created
        /\ j.uri = job[a].uri
    BY <1>1, <1>3 DEF Migration!Job, Migration!Steps
  <1>5. job' = [job EXCEPT ![a] = j]
    BY <1>1 DEF Migration!TypeOK
  <1> HIDE DEF j
  <1>6. /\ job' \in [Attempts -> Migration!Job] /\ job'[a] = j
        /\ \A b \in Attempts : b # a => job'[b] = job[b]
    BY <1>1, <1>4, <1>5, MovesToFacts DEF MovesTo
  <1>7. /\ wallets' \in [Migration!Ids ->
                           Migration!Wallet \cup {Migration!NoWallet, Migration!Removed}]
        /\ wallets'[i] = new
        /\ \A k \in Migration!Ids : k # i => wallets'[k] = wallets[k]
    BY <1>1, <1>2 DEF Migration!TypeOK
  <1>8. Migration!TypeOK'
    BY <1>1, <1>6, <1>7 DEF Migration!TypeOK
  <1>9. Migration!Registered' = Migration!Registered \cup {i}
    <2>1. new # Migration!NoWallet /\ new # Migration!Removed
      BY <1>1, <1>2, WalletFacts
    <2> QED BY <2>1, <1>1, <1>7 DEF Migration!Registered
  <1>10. Migration!OneWallet'
    <2>1. \A k \in Migration!Registered : k # i /\ wallets'[k] = wallets[k]
                                /\ wallets[k].uri # job[a].uri
      BY <1>1, <1>7 DEF Migration!Matching, Migration!Registered
    <2>2. wallets'[i].uri = job[a].uri
      BY <1>7
    <2> QED BY <2>1, <2>2, <1>9 DEF MigrationInv, Migration!OneWallet
  <1>11. ASSUME NEW b \in Attempts
         PROVE  CreatedIsOwn(b)' /\ (job'[b].step # "idle" => job'[b].uri \in Uris)
    <2>1. CASE b = a
      BY <2>1, <1>1, <1>4, <1>6, <1>7 DEF CreatedIsOwn, HasWallet
    <2>2. CASE b # a
      <3>1. job[b].created => job[b].id # i
        <4> SUFFICES ASSUME job[b].created PROVE job[b].id # i
          OBVIOUS
        <4>1. /\ job[b].uri \in Uris
              /\ wallets[job[b].id] \in {Migration!Removed, [uri |-> job[b].uri, by |-> b]}
          BY DEF MigrationInv, CreatedIsOwn, HasWallet
        <4>2. [uri |-> job[b].uri, by |-> b] \in Migration!Wallet
          BY <4>1 DEF Migration!Wallet
        <4> QED BY <4>1, <4>2, <1>1, WalletFacts
      <3> QED BY <2>2, <3>1, <1>6, <1>7 DEF MigrationInv, CreatedIsOwn
    <2> QED BY <2>1, <2>2
  <1> QED BY <1>8, <1>9, <1>10, <1>11 DEF MigrationInv


\* An attempt's step is one of AttemptKeeps, or registers a wallet.
LEMMA AttemptStep ==
  ASSUME Migration!NoUriAssumption, MigrationInv, NEW a \in Attempts, Migration!Attempt(a)
  PROVE  /\ MigrationInv'
         /\ legacy' \in {legacy, NoUri}
         /\ entrusted' = entrusted
  <1>1. /\ Migration!TypeOK /\ job[a] \in Migration!Job
        /\ (job[a].step # "idle" => job[a].uri \in Uris)
    BY AttemptTypes DEF MigrationInv
  <1>2. wallets \in [Migration!Ids ->
                       Migration!Wallet \cup {Migration!NoWallet, Migration!Removed}]
    BY <1>1 DEF Migration!TypeOK
  <1>3. ASSUME NEW step \in HasWallet, Migration!Goto(a, step), job[a].step # "idle",
               wallets' = wallets, entrusted' = entrusted, legacy' = legacy
        PROVE  MigrationInv'
    <2> step \in Migration!Steps
      BY DEF HasWallet, Migration!Steps
    <2>1. MovesTo(a, [job[a] EXCEPT !.step = step])
      BY <1>1, <1>3, GotoMoves
    <2>2. /\ [job[a] EXCEPT !.step = step].step = step
          /\ [job[a] EXCEPT !.step = step].uri = job[a].uri
          /\ [job[a] EXCEPT !.step = step].id = job[a].id
          /\ [job[a] EXCEPT !.step = step].created <=> job[a].created
      BY <1>1, AttemptMoves
    <2> QED BY <1>1, <1>2, <1>3, <2>1, <2>2, AttemptKeeps DEF HasWallet
  <1>4. ASSUME Migration!End(a), entrusted' = entrusted, legacy' \in {legacy, NoUri},
               \A i \in Migration!Ids : wallets'[i] \in {wallets[i], Migration!Removed},
               wallets' \in [Migration!Ids ->
                               Migration!Wallet \cup {Migration!NoWallet, Migration!Removed}]
        PROVE  MigrationInv'
    BY <1>4, AttemptMoves, EndMoves, AttemptKeeps
  <1>5. CASE Migration!Start(a)
    <2> DEFINE j == [Migration!Idle EXCEPT !.step = "connect", !.uri = legacy]
    <2>1. legacy \in Uris
      BY <1>1, <1>5 DEF Migration!Start, Migration!TypeOK
    <2>2. j \in Migration!Job /\ j.step = "connect" /\ j.uri = legacy /\ ~j.created
      BY <2>1 DEF Migration!Idle, Migration!Job, Migration!Steps
    <2>3. MovesTo(a, j) /\ UNCHANGED <<legacy, wallets, entrusted>>
      BY <2>2, <1>5 DEF Migration!Start, MovesTo
    <2> HIDE DEF j
    <2> QED BY <2>1, <2>2, <2>3, <1>2, AttemptKeeps
  <1>6. CASE Migration!Connect(a)
    <2>1. job[a].step = "connect" /\ UNCHANGED <<legacy, entrusted>>
      BY <1>6 DEF Migration!Connect
    <2>2. CASE Migration!End(a) /\ UNCHANGED wallets
      BY <2>1, <2>2, <1>2, <1>4
    <2>3. ASSUME NEW i \in Migration!Matching(job[a].uri), UNCHANGED wallets,
                 job' = [job EXCEPT ![a].step = "registered", ![a].id = i]
          PROVE  MigrationInv'
      <3> DEFINE j == [job[a] EXCEPT !.step = "registered", !.id = i]
      <3>1. i \in Migration!Ids
        BY DEF Migration!Matching, Migration!Registered
      <3>2. j \in Migration!Job /\ j.step = "registered" /\ j.uri = job[a].uri
            /\ (j.created <=> job[a].created)
        BY <3>1, <1>1 DEF Migration!Job, Migration!Steps
      <3>3. MovesTo(a, j)
        BY <3>2, <2>3, <1>1 DEF MovesTo, Migration!TypeOK
      <3>4. ~job[a].created
        BY <2>1 DEF MigrationInv, CreatedIsOwn, HasWallet
      <3> HIDE DEF j
      <3> QED BY <3>2, <3>3, <3>4, <2>1, <2>3, <1>1, <1>2, AttemptKeeps
    <2>4. ASSUME NEW i \in Migration!Unused, Migration!Matching(job[a].uri) = {},
                 wallets' = [wallets EXCEPT ![i] = [uri |-> job[a].uri, by |-> a]],
                 job' = [job EXCEPT ![a].step = "registered", ![a].id = i,
                                    ![a].created = TRUE]
          PROVE  MigrationInv'
      BY <2>1, <2>4, RegistrationKeeps
    <2> QED BY <1>6, <2>1, <2>2, <2>3, <2>4 DEF Migration!Connect
  <1>7. CASE Migration!ConnectFails(a) \/ Migration!Crash(a)
    BY <1>2, <1>4, <1>7 DEF Migration!ConnectFails, Migration!Crash
  <1>8. CASE Migration!ConnectReturns(a)
    <2>1. \E step \in HasWallet : Migration!Goto(a, step)
      BY <1>8 DEF Migration!ConnectReturns, HasWallet
    <2> QED BY <1>3, <1>8, <2>1 DEF Migration!ConnectReturns
  <1>9. CASE Migration!VerifyAndRetire(a)
    <2>1. /\ job[a].step = "verify" /\ wallets' = wallets /\ entrusted' = entrusted
          /\ \/ Migration!End(a) /\ legacy' \in {legacy, NoUri}
             \/ Migration!Goto(a, "compensate") /\ legacy' = legacy
      BY <1>9 DEF Migration!VerifyAndRetire, Migration!Retire
    <2>2. "compensate" \in HasWallet
      BY DEF HasWallet
    <2> QED BY <2>1, <2>2, <1>2, <1>3, <1>4
  <1>10. CASE Migration!Compensate(a)
    <2>1. \A i \in Migration!Ids : wallets'[i] \in {wallets[i], Migration!Removed}
      BY <1>2, <1>10 DEF Migration!Compensate
    <2>2. wallets' \in [Migration!Ids ->
                          Migration!Wallet \cup {Migration!NoWallet, Migration!Removed}]
      BY <1>2, <1>10 DEF Migration!Compensate
    <2> QED BY <2>1, <2>2, <1>4, <1>10 DEF Migration!Compensate
  <1> QED BY <1>5, <1>6, <1>7, <1>8, <1>9, <1>10 DEF Migration!Attempt, Migration!Start,
    Migration!Connect,
        Migration!ConnectFails, Migration!ConnectReturns, Migration!VerifyAndRetire,
        Migration!Retire, Migration!Compensate, Migration!Crash

\* What the merchant does leaves every attempt where it is.
LEMMA MerchantStep ==
  ASSUME Migration!NoUriAssumption, MigrationInv, Migration!Merchant
  PROVE  /\ MigrationInv'
         /\ \A i \in Migration!Ids : wallets'[i] \in {wallets[i], Migration!Removed}
         /\ \A a \in Attempts :
              /\ job'[a].step = job[a].step /\ job'[a].uri = job[a].uri
              /\ job'[a].id = job[a].id /\ (job'[a].created <=> job[a].created)
  <1>1. Migration!TypeOK
    BY DEF MigrationInv
  <1>2. /\ job' \in [Attempts -> Migration!Job]
        /\ \A a \in Attempts :
             /\ job'[a].step = job[a].step /\ job'[a].uri = job[a].uri
             /\ job'[a].id = job[a].id /\ (job'[a].created <=> job[a].created)
    <2>1. CASE Migration!SessionChanges
      <3>1. \A a \in Attempts : job'[a] \in {job[a], [job[a] EXCEPT !.current = FALSE]}
        BY <2>1 DEF Migration!SessionChanges
      <3>2. \A a \in Attempts : job'[a] \in Migration!Job
        BY <3>1, <1>1, AttemptTypes, AttemptMoves
      <3>3. job' \in [Attempts -> Migration!Job]
        BY <2>1, <3>2 DEF Migration!SessionChanges
      <3>4. ASSUME NEW a \in Attempts
            PROVE  /\ job'[a].step = job[a].step /\ job'[a].uri = job[a].uri
                   /\ job'[a].id = job[a].id
                   /\ job'[a].created <=> job[a].created
        <4>1. job[a] \in Migration!Job
          BY <1>1, AttemptTypes
        <4>2. CASE job'[a] = job[a]
          BY <4>2
        <4>3. CASE job'[a] = [job[a] EXCEPT !.current = FALSE]
          BY <4>1, <4>3, AttemptMoves
        <4> QED BY <3>1, <4>2, <4>3
      <3> QED BY <3>3, <3>4
    <2>2. CASE job' = job
      BY <2>2, <1>1 DEF Migration!TypeOK
    <2> QED BY <2>1, <2>2 DEF Migration!Merchant, Migration!Disconnect, Migration!SetUri,
      Migration!RemoveWallet
  <1>3. /\ wallets' \in [Migration!Ids ->
                           Migration!Wallet \cup {Migration!NoWallet, Migration!Removed}]
        /\ \A i \in Migration!Ids : wallets'[i] \in {wallets[i], Migration!Removed}
    <2>1. wallets \in [Migration!Ids ->
                         Migration!Wallet \cup {Migration!NoWallet, Migration!Removed}]
      BY <1>1 DEF Migration!TypeOK
    <2>2. \/ wallets' = wallets
          \/ \E k \in Migration!Ids : wallets' = [wallets EXCEPT ![k] = Migration!Removed]
      BY DEF Migration!Merchant, Migration!SessionChanges, Migration!Disconnect,
        Migration!SetUri, Migration!RemoveWallet
    <2> QED BY <2>1, <2>2
  <1>4. legacy' \in Uris \cup {NoUri} /\ entrusted' \subseteq Uris
    <2>1. legacy \in Uris \cup {NoUri} /\ entrusted \subseteq Uris
      BY <1>1 DEF Migration!TypeOK
    <2>2. legacy' = legacy \/ legacy' = NoUri \/ legacy' \in Uris
      BY DEF Migration!Merchant, Migration!SessionChanges, Migration!Disconnect,
        Migration!SetUri, Migration!RemoveWallet
    <2>3. entrusted' \subseteq entrusted \cup Uris
      <3>1. CASE Migration!SessionChanges \/ Migration!Disconnect
        BY <3>1 DEF Migration!SessionChanges, Migration!Disconnect
      <3>2. CASE \E uri \in Uris : Migration!SetUri(uri)
        BY <3>2 DEF Migration!SetUri
      <3>3. CASE \E i \in Migration!Ids : Migration!RemoveWallet(i)
        BY <3>3 DEF Migration!RemoveWallet
      <3> QED BY <3>1, <3>2, <3>3 DEF Migration!Merchant
    <2> QED BY <2>1, <2>2, <2>3
  <1>5. Migration!TypeOK'
    BY <1>2, <1>3, <1>4 DEF Migration!TypeOK
  <1>6. Migration!OneWallet'
    BY <1>3, OneWalletKept DEF MigrationInv
  <1>7. ASSUME NEW a \in Attempts
        PROVE  CreatedIsOwn(a)' /\ (job'[a].step # "idle" => job'[a].uri \in Uris)
    BY <1>2, <1>3 DEF MigrationInv, CreatedIsOwn
  <1> QED BY <1>2, <1>3, <1>5, <1>6, <1>7 DEF MigrationInv

LEMMA MigrationNext ==
  ASSUME Migration!NoUriAssumption, MigrationInv, [Migration!Next]_(Migration!vars)
  PROVE  MigrationInv'
  <1>1. CASE UNCHANGED Migration!vars
    BY <1>1 DEF Migration!vars, MigrationInv, Migration!TypeOK, CreatedIsOwn,
      Migration!OneWallet, Migration!Registered
  <1>2. CASE Migration!Next
    BY <1>2, AttemptStep, MerchantStep DEF Migration!Next
  <1> QED BY <1>1, <1>2


LEMMA MigrationInvariance ==
  ASSUME Migration!NoUriAssumption, Migration!BoundAssumption
  PROVE  Migration!Spec => []MigrationInv
  <1>1. Migration!Init => MigrationInv
    BY MigrationInit DEF SerialInv
  <1>2. MigrationInv /\ [Migration!Next]_(Migration!vars) => MigrationInv'
    BY MigrationNext
  <1> QED BY <1>1, <1>2, PTL DEF Migration!Spec

-----------------------------------------------------------------------------
(* One attempt at a time loses nothing.                                    *)

\* A copy that an attempt may take back was its before, or it has just registered it
\* while the old place had the connection.
LEMMA CreatedBefore ==
  ASSUME MigrationInv, NEW a \in Attempts, Migration!Attempt(a), NEW b \in Attempts,
         job'[b].created
  PROVE  \/ job[b].created /\ job'[b].uri = job[b].uri
         \/ job'[b].uri = legacy /\ legacy' = legacy
  <1>1. Migration!TypeOK /\ job[a] \in Migration!Job
    BY AttemptTypes DEF MigrationInv
  <1>2. CASE b # a
    <2>1. job'[b] = job[b]
      BY <1>1, <1>2 DEF Migration!TypeOK, Migration!Attempt, Migration!Start,
        Migration!Connect, Migration!ConnectFails, Migration!ConnectReturns,
        Migration!VerifyAndRetire, Migration!Retire, Migration!Compensate, Migration!Crash,
        Migration!End, Migration!Goto
    <2> QED BY <2>1
  <1>3. CASE b = a
    <2>1. CASE Migration!End(a)
      BY <2>1, <1>1, <1>3, AttemptMoves, EndMoves, MovesToFacts
    <2>2. ASSUME NEW step \in Migration!Steps, Migration!Goto(a, step)
          PROVE  job[a].created /\ job'[a].uri = job[a].uri
      <3>1. job'[a] = [job[a] EXCEPT !.step = step]
        BY <2>2, <1>1 DEF Migration!Goto, Migration!TypeOK
      <3>2. job'[a].uri = job[a].uri
        BY <3>1, <1>1, AttemptMoves
      <3>3. job'[a].created <=> job[a].created
        BY <3>1, <1>1, AttemptMoves
      <3> QED BY <3>2, <3>3, <1>3
    <2>3. CASE Migration!Start(a)
      <3>1. job'[a] = [Migration!Idle EXCEPT !.step = "connect", !.uri = legacy]
        BY <2>3, <1>1 DEF Migration!Start, Migration!TypeOK
      <3> QED BY <3>1, <1>3 DEF Migration!Idle
    <2>4. CASE Migration!Connect(a) /\ ~Migration!End(a)
      <3>1. Migration!ShouldContinue(a) /\ legacy' = legacy
        BY <2>4 DEF Migration!Connect
      <3>2. job'[a].uri = job[a].uri
        <4>1. ASSUME NEW i,
                     \/ job' = [job EXCEPT ![a].step = "registered", ![a].id = i]
                     \/ job' = [job EXCEPT ![a].step = "registered", ![a].id = i,
                                           ![a].created = TRUE]
              PROVE  job'[a].uri = job[a].uri
          BY <4>1, <1>1 DEF Migration!TypeOK, Migration!Job
        <4> QED BY <4>1, <2>4 DEF Migration!Connect
      <3> QED BY <3>1, <3>2, <1>3 DEF Migration!ShouldContinue
    <2>5. CASE Migration!ConnectReturns(a)
      BY <2>2, <2>5, <1>3 DEF Migration!ConnectReturns, Migration!Steps
    <2>6. CASE Migration!VerifyAndRetire(a)
      BY <2>1, <2>2, <2>6, <1>3 DEF Migration!VerifyAndRetire, Migration!Retire,
        Migration!Steps
    <2> QED BY <2>1, <2>3, <2>4, <2>5, <2>6 DEF Migration!Attempt, Migration!ConnectFails,
      Migration!Compensate, Migration!Crash
  <1> QED BY <1>2, <1>3

\* An attempt that retires the old copy has read the new one back.
LEMMA RetiresVerified ==
  ASSUME NEW a \in Attempts, Migration!Attempt(a), legacy' # legacy
  PROVE  /\ legacy = job[a].uri /\ Migration!Verified(a) /\ job[a].step = "verify"
         /\ Migration!End(a) /\ wallets' = wallets
  BY DEF Migration!Attempt, Migration!Start, Migration!Connect, Migration!ConnectFails,
    Migration!ConnectReturns, Migration!VerifyAndRetire, Migration!Retire,
    Migration!Compensate, Migration!Crash

\* An attempt that takes a wallet back registered it.
LEMMA TakesBackOwn ==
  ASSUME Migration!TypeOK, NEW a \in Attempts, Migration!Attempt(a),
         NEW i \in Migration!Registered, wallets'[i] # wallets[i]
  PROVE  /\ job[a].step = "compensate" /\ Migration!Compensable(a) /\ job[a].id = i
         /\ Migration!End(a)
  <1>1. wallets \in [Migration!Ids ->
                       Migration!Wallet \cup {Migration!NoWallet, Migration!Removed}]
        /\ i \in Migration!Ids
    BY DEF Migration!TypeOK, Migration!Registered
  <1>2. wallets' # wallets
    OBVIOUS
  <1>3. ~Migration!Connect(a)
    <2> SUFFICES ASSUME Migration!Connect(a) PROVE FALSE
      OBVIOUS
    <2> PICK k \in Migration!Unused :
          wallets' = [wallets EXCEPT ![k] = [uri |-> job[a].uri, by |-> a]]
      BY <1>2 DEF Migration!Connect
    <2>1. k # i
      BY DEF Migration!Unused, Migration!Registered
    <2> QED BY <2>1, <1>1
  <1>4. Migration!Compensate(a)
    BY <1>2, <1>3 DEF Migration!Attempt, Migration!Start, Migration!ConnectFails,
      Migration!ConnectReturns, Migration!VerifyAndRetire, Migration!Crash
  <1>5. /\ Migration!Compensable(a)
        /\ wallets' = [wallets EXCEPT ![job[a].id] = Migration!Removed]
    BY <1>2, <1>4 DEF Migration!Compensate
  <1> QED BY <1>1, <1>4, <1>5 DEF Migration!Compensate

LEMMA SerialAttempt ==
  ASSUME Migration!NoUriAssumption, SerialInv, NEW a \in Attempts, Migration!Attempt(a)
  PROVE  OldCopyStays' /\ Migration!NeverLost'
  <1>1. MigrationInv /\ Migration!TypeOK /\ MigrationInv' /\ entrusted' = entrusted
    BY AttemptStep DEF SerialInv, MigrationInv
  <1>2. OldCopyStays'
    <2> SUFFICES ASSUME NEW b \in Attempts, job'[b].created, job'[b].uri \in entrusted
                 PROVE  legacy' = job'[b].uri
      BY <1>1 DEF OldCopyStays
    <2>1. CASE legacy' = legacy
      BY <2>1, <1>1, CreatedBefore DEF SerialInv, OldCopyStays
    <2>2. CASE legacy' # legacy
      <3>1. job[b].created /\ Migration!End(a) /\ job[a].step = "verify"
        BY <2>2, <1>1, CreatedBefore, RetiresVerified
      <3>2. b = a
        BY <3>1, <1>1 DEF SerialInv, Migration!OneAtATime, MigrationInv, CreatedIsOwn,
          HasWallet
      <3> QED BY <3>1, <3>2, <1>1, EndMoves, MovesToFacts, AttemptMoves
    <2> QED BY <2>1, <2>2
  <1>3. ASSUME NEW x \in entrusted
        PROVE  x \in Migration!Copies'
    <2>1. x \in Migration!Copies /\ x \in Uris /\ x # NoUri
      BY <1>1 DEF SerialInv, Migration!NeverLost, Migration!TypeOK,
        Migration!NoUriAssumption
    <2>2. CASE x = legacy
      <3>1. CASE legacy' = legacy
        BY <2>1, <2>2, <3>1 DEF Migration!Copies
      <3>2. CASE legacy' # legacy
        BY <2>2, <3>2, RetiresVerified DEF Migration!Verified, Migration!Copies,
          Migration!Registered
      <3> QED BY <3>1, <3>2
    <2>3. ASSUME NEW k \in Migration!Registered, wallets[k].uri = x, x # legacy
          PROVE  x \in Migration!Copies'
      <3>1. wallets'[k] = wallets[k]
        <4> SUFFICES ASSUME wallets'[k] # wallets[k] PROVE FALSE
          OBVIOUS
        <4>1. Migration!Compensable(a) /\ job[a].id = k
          BY <1>1, TakesBackOwn
        <4>2. job[a].created /\ job[a].uri = x
          BY <4>1, <2>3 DEF Migration!Compensable
        <4> QED BY <4>2, <2>3 DEF SerialInv, OldCopyStays
      <3>2. k \in Migration!Registered'
        BY <3>1 DEF Migration!Registered
      <3> QED BY <2>3, <3>1, <3>2 DEF Migration!Copies
    <2> QED BY <2>1, <2>2, <2>3 DEF Migration!Copies
  <1> QED BY <1>1, <1>2, <1>3 DEF Migration!NeverLost

LEMMA SerialMerchant ==
  ASSUME Migration!NoUriAssumption, SerialInv, Migration!Merchant
  PROVE  OldCopyStays' /\ Migration!NeverLost'
  <1>1. /\ MigrationInv /\ Migration!TypeOK
        /\ \A a \in Attempts : /\ job'[a].uri = job[a].uri
                               /\ job'[a].created <=> job[a].created
    BY MerchantStep DEF SerialInv, MigrationInv
  <1>2. /\ legacy \in Uris \cup {NoUri}
        /\ entrusted \subseteq Migration!Copies /\ NoUri \notin Uris
    BY <1>1 DEF SerialInv, Migration!NeverLost, Migration!TypeOK, Migration!NoUriAssumption
  <1>3. \A a \in Attempts : job[a].created /\ job[a].uri \in entrusted => legacy = job[a].uri
    BY DEF SerialInv, OldCopyStays
  <1>4. CASE Migration!SessionChanges
    <2>1. UNCHANGED <<legacy, wallets, entrusted>>
      BY <1>4 DEF Migration!SessionChanges
    <2> QED BY <2>1, <1>1, <1>2, <1>3 DEF OldCopyStays, Migration!NeverLost,
      Migration!Copies, Migration!Registered
  <1>5. ASSUME NEW uri \in Uris, Migration!SetUri(uri)
        PROVE  OldCopyStays' /\ Migration!NeverLost'
    <2>1. legacy' = uri /\ entrusted' = (entrusted \ {legacy}) \cup {uri}
          /\ wallets' = wallets
      BY <1>5 DEF Migration!SetUri
    <2>2. OldCopyStays'
      BY <2>1, <1>1, <1>3 DEF OldCopyStays
    <2>3. Migration!NeverLost'
      BY <2>1, <1>2 DEF Migration!NeverLost, Migration!Copies, Migration!Registered
    <2> QED BY <2>2, <2>3
  <1>6. CASE Migration!Disconnect
    <2>1. legacy' = NoUri /\ entrusted' = entrusted \ {legacy} /\ wallets' = wallets
      BY <1>6 DEF Migration!Disconnect
    <2>2. OldCopyStays'
      BY <2>1, <1>1, <1>3 DEF OldCopyStays
    <2>3. Migration!NeverLost'
      BY <2>1, <1>2 DEF Migration!NeverLost, Migration!Copies, Migration!Registered
    <2> QED BY <2>2, <2>3
  <1>7. ASSUME NEW i \in Migration!Ids, Migration!RemoveWallet(i)
        PROVE  OldCopyStays' /\ Migration!NeverLost'
    <2>1. /\ legacy' = legacy /\ i \in Migration!Registered
          /\ wallets' = [wallets EXCEPT ![i] = Migration!Removed]
          /\ entrusted' = IF wallets[i].uri = legacy THEN entrusted
                          ELSE entrusted \ {wallets[i].uri}
      BY <1>7 DEF Migration!RemoveWallet
    <2>2. OldCopyStays'
      BY <2>1, <1>1, <1>3 DEF OldCopyStays
    <2>3. ASSUME NEW k \in Migration!Registered, k # i
          PROVE  k \in Migration!Registered' /\ wallets'[k] = wallets[k]
      BY <2>1, <2>3, <1>1 DEF Migration!Registered, Migration!TypeOK
    <2>4. ASSUME NEW x \in entrusted'
          PROVE  x \in Migration!Copies'
      <3>1. x \in Migration!Copies /\ x \in Uris /\ (x = wallets[i].uri => x = legacy)
        BY <2>1, <1>1, <1>2 DEF Migration!TypeOK
      <3>2. CASE x = legacy
        BY <3>1, <3>2, <2>1, <1>2 DEF Migration!Copies
      <3>3. ASSUME NEW k \in Migration!Registered, wallets[k].uri = x, x # legacy
            PROVE  x \in Migration!Copies'
        <4>1. k # i
          BY <3>1, <3>3
        <4> QED BY <4>1, <3>3, <2>3 DEF Migration!Copies
      <3> QED BY <3>1, <3>2, <3>3 DEF Migration!Copies
    <2> QED BY <2>2, <2>4 DEF Migration!NeverLost
  <1> QED BY <1>4, <1>5, <1>6, <1>7 DEF Migration!Merchant

\* A step that changes nothing.
LEMMA MigrationStays ==
  ASSUME Migration!NoUriAssumption, SerialInv, UNCHANGED Migration!vars
  PROVE  SerialInv'
  <1>1. MigrationInv'
    BY MigrationNext DEF SerialInv
  <1> QED BY <1>1 DEF SerialInv, Migration!OneAtATime, OldCopyStays, Migration!NeverLost,
    Migration!Copies, Migration!Registered, Migration!vars

LEMMA SerialNext ==
  ASSUME Migration!NoUriAssumption, SerialInv, Migration!Next, Migration!OneAtATime'
  PROVE  SerialInv'
  <1>1. MigrationInv'
    BY MigrationNext DEF SerialInv
  <1>2. OldCopyStays' /\ Migration!NeverLost'
    BY SerialAttempt, SerialMerchant DEF Migration!Next
  <1> QED BY <1>1, <1>2 DEF SerialInv

LEMMA SerialInvariance ==
  ASSUME Migration!NoUriAssumption, Migration!BoundAssumption
  PROVE  Migration!SerialSpec => []SerialInv
  <1>1. Migration!Init => SerialInv
    BY MigrationInit
  <1>2. SerialInv /\ [Migration!Next /\ Migration!OneAtATime']_(Migration!vars) => SerialInv'
    BY MigrationStays, SerialNext
  <1> QED BY <1>1, <1>2, PTL DEF Migration!SerialSpec

-----------------------------------------------------------------------------
(* The theorems.                                                           *)

\* The variables have their types.
THEOREM MigrationTypes ==
  ASSUME Migration!NoUriAssumption, Migration!BoundAssumption
  PROVE  Migration!Spec => []Migration!TypeOK
  <1>1. MigrationInv => Migration!TypeOK
    BY DEF MigrationInv
  <1> QED BY <1>1, MigrationInvariance, PTL

\* However many tabs migrate, one connection becomes one wallet.
THEOREM OneConnectionOneWallet ==
  ASSUME Migration!NoUriAssumption, Migration!BoundAssumption
  PROVE  Migration!Spec => []Migration!OneWallet
  <1>1. MigrationInv => Migration!OneWallet
    BY DEF MigrationInv
  <1> QED BY <1>1, MigrationInvariance, PTL

\* A migration takes back no wallet but the one it registered.
THEOREM TakesBackItsOwn ==
  ASSUME Migration!NoUriAssumption, Migration!BoundAssumption
  PROVE  Migration!Spec => Migration!OwnCopyOnly
  <1> DEFINE Own == \A i \in Migration!Registered :
                      (wallets'[i] = Migration!Removed /\ job' # job)
                        => \E a \in Attempts : wallets[i].by = a /\ job'[a] # job[a]
  <1>1. ASSUME MigrationInv, Migration!Next PROVE Own
    <2> SUFFICES ASSUME NEW i \in Migration!Registered,
                        wallets'[i] = Migration!Removed, job' # job
                 PROVE  \E a \in Attempts : wallets[i].by = a /\ job'[a] # job[a]
      OBVIOUS
    <2>1. wallets[i] # Migration!Removed
      BY DEF Migration!Registered
    <2>2. ~Migration!Merchant
      BY <2>1 DEF Migration!Merchant, Migration!SessionChanges, Migration!Disconnect,
        Migration!SetUri, Migration!RemoveWallet
    <2> PICK a \in Attempts : Migration!Attempt(a)
      BY <1>1, <2>2 DEF Migration!Next
    <2>3. Migration!TypeOK
      BY <1>1 DEF MigrationInv
    <2>4. /\ job[a].step = "compensate" /\ Migration!Compensable(a)
          /\ job[a].id = i /\ Migration!End(a)
      BY <2>1, <2>3, TakesBackOwn
    <2>5. job'[a] # job[a]
      BY <2>3, <2>4, EndMoves, MovesToFacts, AttemptMoves
    <2>6. wallets[i] = [uri |-> job[a].uri, by |-> a]
      BY <1>1, <2>1, <2>4 DEF MigrationInv, CreatedIsOwn, Migration!Compensable
    <2> QED BY <2>5, <2>6
  <1>2. MigrationInv /\ [Migration!Next]_(Migration!vars) => [Own]_(Migration!vars)
    BY <1>1
  <1> QED BY <1>2, MigrationInvariance, PTL DEF Migration!Spec, Migration!OwnCopyOnly

\* The old copy of a connection the merchant keeps goes behind a verified new one.
THEOREM RetiredAfterCopy ==
  ASSUME Migration!NoUriAssumption, Migration!BoundAssumption
  PROVE  Migration!Spec => Migration!RetiredBehindCopy
  <1> DEFINE Behind == \A uri \in Uris :
                         (legacy = uri /\ legacy' = NoUri /\ uri \in entrusted')
                           => \E i \in Migration!Registered : wallets[i].uri = uri
  <1>1. ASSUME Migration!Next PROVE Behind
    <2> SUFFICES ASSUME NEW uri \in Uris, legacy = uri, legacy' = NoUri, uri \in entrusted'
                 PROVE  \E i \in Migration!Registered : wallets[i].uri = uri
      OBVIOUS
    <2>1. legacy' # legacy /\ NoUri \notin Uris
      BY DEF Migration!NoUriAssumption
    <2>2. ~Migration!Merchant
      BY <2>1 DEF Migration!Merchant, Migration!SessionChanges, Migration!Disconnect,
        Migration!SetUri, Migration!RemoveWallet
    <2> PICK a \in Attempts : Migration!Attempt(a)
      BY <1>1, <2>2 DEF Migration!Next
    <2> QED BY <2>1, RetiresVerified DEF Migration!Verified
  <1>2. [Migration!Next]_(Migration!vars) => [Behind]_(Migration!vars)
    BY <1>1
  <1> QED BY <1>2, PTL DEF Migration!Spec, Migration!RetiredBehindCopy

\* Attempts one at a time, whatever fails or changes in the middle, lose no connection
\* the merchant has not taken away.
THEOREM NothingLost ==
  ASSUME Migration!NoUriAssumption, Migration!BoundAssumption
  PROVE  Migration!SerialSpec => []Migration!NeverLost
  <1>1. SerialInv => Migration!NeverLost
    BY DEF SerialInv
  <1> QED BY <1>1, SerialInvariance, PTL

-----------------------------------------------------------------------------
(* All parts of MCWallets.                                                 *)

\* Whatever part moves: the migration's invariant, and where attempts are one at a time
\* the one that keeps every connection.
PartInv == MigrationInv /\ (part = "single" => SerialInv)

LEMMA PartInvariance == WalletsSpec => []PartInv
  <1> USE PartAssumptions
  <1>1. WalletsInit => PartInv
    <2>1. WalletsInit => Migration!Init
      BY DEF WalletsInit, MigrationAtRest
    <2> QED BY <2>1, MigrationInit DEF PartInv, SerialInv
  <1>2. ASSUME PartInv, WalletsNext \/ UNCHANGED walletVars
        PROVE  PartInv'
    <2>1. part' = part
      BY <1>2 DEF WalletsNext, walletVars, TreasuryMoves, SessionMoves, MigrationMoves
    <2>2. CASE UNCHANGED Migration!vars
      BY <1>2, <2>1, <2>2, MigrationStays, MigrationNext DEF PartInv
    <2>3. CASE part # "single" /\ Migration!Next
      BY <1>2, <2>1, <2>3, MigrationNext DEF PartInv
    <2>4. CASE Migration!Next /\ Migration!OneAtATime'
      BY <1>2, <2>1, <2>4, MigrationNext, SerialNext DEF PartInv
    <2>5. UNCHANGED migrationVars => UNCHANGED Migration!vars
      BY DEF migrationVars, Migration!vars
    <2> QED BY <1>2, <2>2, <2>3, <2>4, <2>5 DEF WalletsNext, walletVars, TreasuryMoves,
          SessionMoves
  <1> QED BY <1>1, <1>2, PTL DEF WalletsSpec

\* However many tabs migrate, one connection becomes one wallet, and one attempt at a
\* time loses no connection, in every part.
THEOREM ConnectionsAreKept == WalletsSpec => []ConnectionKept
  <1>1. PartInv => ConnectionKept
    BY DEF PartInv, MigrationInv, SerialInv, ConnectionKept
  <1> QED BY <1>1, PartInvariance, PTL

\* A migration takes back no wallet but the one it registered, and the old copy goes
\* behind a verified new one, in every part.
THEOREM CopiesAreOwn == WalletsSpec => OwnCopyOnly
  <1>1. WalletsInit => Migration!Init
    BY DEF WalletsInit, MigrationAtRest
  <1>2. [WalletsNext]_walletVars => [Migration!Next]_(Migration!vars)
    BY DEF WalletsNext, walletVars, TreasuryMoves, SessionMoves, MigrationMoves,
      migrationVars, Migration!vars
  <1>3. WalletsSpec => Migration!Spec
    BY <1>1, <1>2, PTL DEF WalletsSpec, Migration!Spec
  <1>4. Migration!Spec => Migration!OwnCopyOnly /\ Migration!RetiredBehindCopy
    BY PartAssumptions, TakesBackItsOwn, RetiredAfterCopy
  <1> QED BY <1>3, <1>4 DEF OwnCopyOnly

-----------------------------------------------------------------------------
(* The native treasury, in each of its three parts.                        *)

\* A part that is the one explored runs to its own specification.
LEMMA PartSpec ==
  /\ WalletsSpec /\ part = "pages" => Buyer!Spec /\ [](part = "pages")
  /\ WalletsSpec /\ part = "merchants" => Merchants!Spec /\ [](part = "merchants")
  /\ WalletsSpec /\ part = "takeover" => Takeover!Spec /\ [](part = "takeover")
  /\ WalletsSpec /\ part \notin {"pages", "merchants", "takeover"}
       => [](part \notin {"pages", "merchants", "takeover"})
  <1>1. [WalletsNext]_walletVars => part' = part
    BY DEF WalletsNext, walletVars, TreasuryMoves, SessionMoves, MigrationMoves
  <1>2. WalletsInit /\ part = "pages" => Buyer!Init
    BY DEF WalletsInit
  <1>3. WalletsInit /\ part = "merchants" => Merchants!Init
    BY DEF WalletsInit
  <1>4. WalletsInit /\ part = "takeover" => Takeover!Init
    BY DEF WalletsInit
  <1>5. [WalletsNext]_walletVars /\ part = "pages" => [Buyer!Next]_(Buyer!vars)
    BY DEF WalletsNext, walletVars, treasuryVars, Buyer!vars
  <1>6. [WalletsNext]_walletVars /\ part = "merchants" => [Merchants!Next]_(Merchants!vars)
    BY DEF WalletsNext, walletVars, treasuryVars, Merchants!vars
  <1>7. [WalletsNext]_walletVars /\ part = "takeover" => [Takeover!Next]_(Takeover!vars)
    BY DEF WalletsNext, walletVars, treasuryVars, Takeover!vars
  <1>8. part = "pages" /\ part' = part => (part = "pages")'
    OBVIOUS
  <1>9. part = "merchants" /\ part' = part => (part = "merchants")'
    OBVIOUS
  <1>10. part = "takeover" /\ part' = part => (part = "takeover")'
    OBVIOUS
  <1>11. part \notin {"pages", "merchants", "takeover"} /\ part' = part
          => (part \notin {"pages", "merchants", "takeover"})'
    OBVIOUS
  <1>12. WalletsSpec /\ part = "pages" => Buyer!Spec /\ [](part = "pages")
    BY <1>1, <1>2, <1>5, <1>8, PTL DEF WalletsSpec, Buyer!Spec
  <1>13. WalletsSpec /\ part = "merchants" => Merchants!Spec /\ [](part = "merchants")
    BY <1>1, <1>3, <1>6, <1>9, PTL DEF WalletsSpec, Merchants!Spec
  <1>14. WalletsSpec /\ part = "takeover" => Takeover!Spec /\ [](part = "takeover")
    BY <1>1, <1>4, <1>7, <1>10, PTL DEF WalletsSpec, Takeover!Spec
  <1>15. WalletsSpec /\ part \notin {"pages", "merchants", "takeover"}
          => [](part \notin {"pages", "merchants", "takeover"})
    BY <1>1, <1>11, PTL DEF WalletsSpec
  <1> QED BY <1>12, <1>13, <1>14, <1>15

\* Whichever pages and devices run the treasury's step: one call of a device, behind
\* its mark on the relays, no possible send taken back, and paid behind a commitment.
THEOREM TreasuryIsPaidOnce == WalletsSpec => []TreasuryPaidOnce
  <1> USE PartAssumptions
  <1>1. WalletsSpec /\ part = "pages" => []TreasuryPaidOnce
    <2>1. /\ part = "pages"
          /\ Buyer!TypeOK /\ Buyer!AtMostOneCall /\ Buyer!MarkedAhead
          /\ Buyer!TakenBackUnsent /\ Buyer!PaidIsProven
          => TreasuryPaidOnce
      BY DEF TreasuryPaidOnce, OfTreasury
    <2> QED BY <2>1, PartSpec, Buyer!TreasuryTypes, Buyer!TreasuryCalledOnce,
          Buyer!NoSendTakenBack, Buyer!CalledBehindMark, Buyer!TreasuryPaidIsProven, PTL
  <1>2. WalletsSpec /\ part = "merchants" => []TreasuryPaidOnce
    <2>1. /\ part = "merchants"
          /\ Merchants!TypeOK /\ Merchants!AtMostOneCall /\ Merchants!MarkedAhead
          /\ Merchants!TakenBackUnsent /\ Merchants!PaidIsProven
          => TreasuryPaidOnce
      BY DEF TreasuryPaidOnce, OfTreasury
    <2> QED BY <2>1, PartSpec, Merchants!TreasuryTypes, Merchants!TreasuryCalledOnce,
          Merchants!NoSendTakenBack, Merchants!CalledBehindMark,
          Merchants!TreasuryPaidIsProven, PTL
  <1>3. WalletsSpec /\ part = "takeover" => []TreasuryPaidOnce
    <2>1. /\ part = "takeover"
          /\ Takeover!TypeOK /\ Takeover!AtMostOneCall /\ Takeover!MarkedAhead
          /\ Takeover!TakenBackUnsent /\ Takeover!PaidIsProven
          => TreasuryPaidOnce
      BY DEF TreasuryPaidOnce, OfTreasury
    <2> QED BY <2>1, PartSpec, Takeover!TreasuryTypes, Takeover!TreasuryCalledOnce,
          Takeover!NoSendTakenBack, Takeover!CalledBehindMark,
          Takeover!TreasuryPaidIsProven, PTL
  <1>4. WalletsSpec /\ part \notin {"pages", "merchants", "takeover"} => []TreasuryPaidOnce
    <2>1. part \notin {"pages", "merchants", "takeover"} => TreasuryPaidOnce
      BY DEF TreasuryPaidOnce, OfTreasury
    <2> QED BY <2>1, PartSpec, PTL
  <1>5. \/ part = "pages" \/ part = "merchants" \/ part = "takeover"
        \/ part \notin {"pages", "merchants", "takeover"}
    OBVIOUS
  <1> QED BY <1>1, <1>2, <1>3, <1>4, <1>5, PTL

\* Once a device knows the transfer's id it never loses it, in every part.
THEOREM ReferencesAreKept == WalletsSpec => ReferenceKept
  <1> USE PartAssumptions
  <1> DEFINE Kept == OfTreasury(Buyer!KeepsReference, Merchants!KeepsReference,
                                Takeover!KeepsReference)
  <1>1. WalletsSpec /\ part = "pages" => [][Kept]_walletVars
    <2>1. part = "pages" /\ [Buyer!KeepsReference]_(Buyer!vars) => [Kept]_walletVars
      BY DEF OfTreasury, Buyer!KeepsReference, Buyer!vars
    <2> QED BY <2>1, PartSpec, Buyer!TreasuryKeepsReference, PTL DEF Buyer!ReferenceKept
  <1>2. WalletsSpec /\ part = "merchants" => [][Kept]_walletVars
    <2>1. part = "merchants" /\ [Merchants!KeepsReference]_(Merchants!vars)
            => [Kept]_walletVars
      BY DEF OfTreasury, Merchants!KeepsReference, Merchants!vars
    <2> QED BY <2>1, PartSpec, Merchants!TreasuryKeepsReference, PTL
          DEF Merchants!ReferenceKept
  <1>3. WalletsSpec /\ part = "takeover" => [][Kept]_walletVars
    <2>1. part = "takeover" /\ [Takeover!KeepsReference]_(Takeover!vars)
            => [Kept]_walletVars
      BY DEF OfTreasury, Takeover!KeepsReference, Takeover!vars
    <2> QED BY <2>1, PartSpec, Takeover!TreasuryKeepsReference, PTL
          DEF Takeover!ReferenceKept
  <1>4. WalletsSpec /\ part \notin {"pages", "merchants", "takeover"}
          => [][Kept]_walletVars
    <2>1. part \notin {"pages", "merchants", "takeover"} => Kept
      BY DEF OfTreasury
    <2> QED BY <2>1, PartSpec, PTL
  <1>5. \/ part = "pages" \/ part = "merchants" \/ part = "takeover"
        \/ part \notin {"pages", "merchants", "takeover"}
    OBVIOUS
  <1> QED BY <1>1, <1>2, <1>3, <1>4, <1>5, PTL DEF ReferenceKept

=============================================================================
