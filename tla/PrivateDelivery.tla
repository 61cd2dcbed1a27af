------------------------------ MODULE PrivateDelivery ------------------------------
(***************************************************************************)
(* The delivery of one private message (private-message-delivery.ts): the  *)
(* wrapped message is staged in IndexedDB before any relay sees it, under  *)
(* a claim that lapses unless its owner's heartbeat renews it; what relays *)
(* acknowledge is merged into the row by an optimistic read-modify-write,  *)
(* because encryption cannot run inside a transaction.                     *)
(*                                                                         *)
(* A worker is one call of publishPrivateMessage or one row of one retry   *)
(* pass, in any tab of the account.  A tab may be frozen (its timers stop) *)
(* or go away between any two awaits.                                      *)
(***************************************************************************)
EXTENDS Naturals, FiniteSets

CONSTANTS
  Workers,
  Relays,       \* the recipient's inbox
  SelfRelays,   \* the sender's own
  SelfCopy,     \* whether the sender wants a copy
  None,
  Freezable,    \* workers whose tab the browser may freeze
  Ttl,          \* heartbeats a claim lives (code: six)
  MaxTries      \* attempts to record an outcome (code: 32)

NoneAssumption == None \notin Workers
ParameterAssumption ==
  /\ IsFiniteSet(Workers)
  /\ SelfRelays \subseteq Relays /\ SelfRelays # {}
  /\ SelfCopy \in BOOLEAN /\ Freezable \subseteq Workers
  /\ Ttl \in Nat \ {0, 1}
  /\ MaxTries \in Nat \ {0}

VARIABLES
  row,          \* commerceInboxDeliveries: the recipient's row and the self-copy's
  job,          \* per worker
  frozen,       \* workers whose tab is frozen
  copies        \* per relay and row, the ciphertexts it received

vars == <<row, job, frozen, copies>>

Rows == {"main", "self"}
RelaysOf(r) == IF r = "main" THEN Relays ELSE SelfRelays

\* As many revisions as workers can hold, and one more.
Nonces == 0 .. Cardinality(Workers)

\* A ciphertext is told apart by the worker that wrapped it.
Row == [wrap : Workers, acked : SUBSET Relays, nonce : Nonces,
        owner : Workers \cup {None}, ttl : 0 .. Ttl]
NoRow == [wrap |-> None, acked |-> {}, nonce |-> 0, owner |-> None, ttl |-> 0]

Steps == {"idle", "stage", "hold", "publish", "read", "commit", "release"}

Job == [step : Steps,
        fresh : BOOLEAN,                \* publishPrivateMessage, not a retry
        row : Rows,
        owner : Workers \cup {None},    \* the claim it holds
        wrap : Workers \cup {None},     \* the ciphertext it sends
        targets : SUBSET Relays,        \* where it may send it
        got : SUBSET Relays,            \* who acknowledged
        seen : SUBSET Relays,           \* the row it read: acknowledged
        nonce : Nonces,                 \* and its revision
        tries : 0 .. MaxTries,
        due : BOOLEAN,                  \* the heartbeat's ten seconds are over
        lost : BOOLEAN,                 \* the heartbeat found another owner
        missed : BOOLEAN]               \* a heartbeat did not come in time (history)

Idle == [step |-> "idle", fresh |-> FALSE, row |-> "main", owner |-> None,
         wrap |-> None, targets |-> {}, got |-> {}, seen |-> {}, nonce |-> 0,
         tries |-> 0, due |-> FALSE, lost |-> FALSE, missed |-> FALSE]

Set(w, j) == job' = [job EXCEPT ![w] = j]
Goto(w, step) == Set(w, [job[w] EXCEPT !.step = step])
End(w) == Set(w, Idle)
ToRelease(w) ==
  Set(w, [job[w] EXCEPT !.step = "release", !.seen = {}, !.nonce = 0, !.tries = 0,
                        !.wrap = None, !.targets = {},
                        !.got = IF job[w].fresh /\ job[w].row = "main" THEN @ ELSE {}])

Exists(r) == row[r] # NoRow
Accepted(r) == row[r].acked = RelaysOf(r)
Claimed(r) == row[r].ttl > 0

\* Inside holdPrivateDeliveryClaim and release.
Holding(w) == job[w].step \in {"publish", "read", "commit", "release"}

-----------------------------------------------------------------------------
(* Sending anew.                                                           *)

\* publishPrivateMessage finds nothing staged for this message, and wraps it.
Wrap(w) ==
  /\ job[w].step = "idle"
  /\ ~Exists("main")
  /\ Set(w, [Idle EXCEPT !.step = "stage", !.fresh = TRUE, !.wrap = w,
                         !.targets = Relays])
  /\ UNCHANGED <<row, copies>>

\* Mutant of StagedBefore: the transaction does not look.
StagedNever(r) == FALSE

StagedBefore(r) == Exists(r)

\* stagePrivateDelivery: the row with its claim, in one transaction.
Stage(w) ==
  LET r == job[w].row
  IN
  /\ job[w].step = "stage"
  /\ IF StagedBefore(r)
     THEN End(w) /\ UNCHANGED row
     ELSE /\ row' = [row EXCEPT ![r] = [NoRow EXCEPT !.wrap = job[w].wrap,
                                                     !.owner = w, !.ttl = Ttl]]
          /\ Goto(w, "hold")
  /\ UNCHANGED copies

-----------------------------------------------------------------------------
(* Retrying what is saved.                                                 *)

\* Mutant of Claimable: a claim is no obstacle.
ClaimableAlways(r, replay) == Exists(r) /\ (replay \/ ~Accepted(r))

Claimable(r, replay) == Exists(r) /\ (replay \/ ~Accepted(r)) /\ ~Claimed(r)

\* retryPrivateDeliveries, one row: the claim, and the saved job as it is now.  An
\* exact replay sends to relays that have acknowledged too.
Claim(w, r, replay) ==
  /\ job[w].step = "idle"
  /\ Claimable(r, replay)
  /\ row' = [row EXCEPT ![r].owner = w, ![r].ttl = Ttl]
  /\ Set(w, [Idle EXCEPT !.step = "hold", !.row = r, !.wrap = row[r].wrap,
                         !.targets = IF replay THEN RelaysOf(r)
                                    ELSE RelaysOf(r) \ row[r].acked])
  /\ UNCHANGED copies

-----------------------------------------------------------------------------
(* Both.                                                                   *)

\* holdPrivateDeliveryClaim takes for its own whatever claim it reads.
Hold(w) ==
  LET r == job[w].row
  IN
  /\ job[w].step = "hold"
  /\ IF row[r].owner = None
     THEN End(w)
     ELSE Set(w, [job[w] EXCEPT !.step = "publish", !.owner = row[r].owner,
                                !.due = FALSE])
  /\ UNCHANGED <<row, copies>>

\* The heartbeat that finds its claim renews it to the full term.
Renewed(r) == [row[r] EXCEPT !.ttl = Ttl]

Heartbeat(w) ==
  LET r == job[w].row
  IN
  /\ Holding(w) /\ job[w].due
  /\ IF job[w].lost
     THEN Set(w, [job[w] EXCEPT !.due = FALSE]) /\ UNCHANGED row
     ELSE IF row[r].owner = job[w].owner
     THEN /\ row' = [row EXCEPT ![r] = Renewed(r)]
          /\ Set(w, [job[w] EXCEPT !.due = FALSE])
     ELSE /\ Set(w, [job[w] EXCEPT !.due = FALSE, !.lost = TRUE])
          /\ UNCHANGED row
  /\ UNCHANGED copies

\* publishPrivateDeliveryLeg.  A retry leaves out the relays the recipient no longer
\* declares; with none left there is nothing to record.  Any of the rest receive the
\* message, and any of those are heard to say so; an error loses what was heard.
Publish(w) ==
  LET r == job[w].row
  IN
  /\ job[w].step = "publish"
  /\ \/ /\ \E targets \in SUBSET job[w].targets :
             /\ ~job[w].fresh \/ targets = job[w].targets
             /\ targets # {} /\ ~job[w].lost
             /\ \E took \in SUBSET targets : \E heard \in SUBSET took :
                  /\ copies' = [relay \in Relays |->
                       IF relay \in took
                       THEN [copies[relay] EXCEPT ![r] = @ \cup {job[w].wrap}]
                       ELSE copies[relay]]
                  /\ Set(w, [job[w] EXCEPT !.step = "read", !.targets = {},
                                           !.wrap = None, !.got = heard])
     \/ /\ ~job[w].fresh \/ job[w].lost
        /\ ToRelease(w)
        /\ UNCHANGED copies
  /\ UNCHANGED row

\* recordPrivateDelivery: read, and decrypt.
RecordRead(w) ==
  LET r == job[w].row
  IN
  /\ job[w].step = "read"
  /\ Set(w, [job[w] EXCEPT !.step = "commit", !.seen = row[r].acked,
                           !.nonce = row[r].nonce])
  /\ UNCHANGED <<row, copies>>

\* Mutant of SameRevision: the revision is not compared.
SameRevisionAlways(w) == TRUE

SameRevision(w) == row[job[w].row].nonce = job[w].nonce
Merged(w) == job[w].seen \cup job[w].got

\* A revision no other worker holds.
FreshNonce(w, r) ==
  LET taken == {job[v].nonce : v \in {v \in Workers \ {w} :
                                       job[v].step = "commit" /\ job[v].row = r}}
  IN CHOOSE n \in Nonces : n \notin taken

\* recordPrivateDelivery: encrypted again, committed if the row is what was read.
RecordCommit(w) ==
  LET r == job[w].row
  IN
  /\ job[w].step = "commit"
  /\ IF SameRevision(w)
     THEN /\ row' = [row EXCEPT ![r].acked = Merged(w), ![r].nonce = FreshNonce(w, r)]
          /\ ToRelease(w)
     ELSE /\ IF job[w].tries + 1 < MaxTries
             THEN Set(w, [job[w] EXCEPT !.step = "read", !.tries = @ + 1])
             ELSE ToRelease(w)
          /\ UNCHANGED row
  /\ UNCHANGED copies

\* After the recipient's acceptance comes the sender's own copy.
Proceeds(w) == SelfCopy /\ job[w].fresh /\ job[w].row = "main" /\ job[w].got # {}

\* release: the claim goes if it is still the one it held.  What failed on the way
\* is thrown now; with a checkpoint handler an accepted message goes on all the same.
Release(w) ==
  LET r == job[w].row
  IN
  /\ job[w].step = "release"
  /\ row' = IF ~job[w].lost /\ row[r].owner = job[w].owner
            THEN [row EXCEPT ![r].owner = None, ![r].ttl = 0] ELSE row
  /\ \/ End(w)
     \/ /\ Proceeds(w)
        /\ Set(w, [Idle EXCEPT !.step = "stage", !.fresh = TRUE, !.row = "self",
                               !.wrap = w, !.targets = SelfRelays])
  /\ UNCHANGED copies

\* The tab goes away, or the account's session ends: the claim is left to lapse.
Crash(w) ==
  /\ job[w].step # "idle"
  /\ End(w)
  /\ UNCHANGED <<row, copies>>

-----------------------------------------------------------------------------
(* The browser.                                                            *)

Freeze(w) ==
  /\ w \in Freezable
  /\ Holding(w) \/ job[w].step = "hold"
  /\ frozen' = frozen \cup {w}
  /\ UNCHANGED <<row, job, copies>>

Thaw(w) ==
  /\ w \in frozen
  /\ frozen' = frozen \ {w}
  /\ UNCHANGED <<row, job, copies>>

\* Ten seconds.  A tab that is not frozen does its own database steps, and its
\* heartbeat, in less.
Tick ==
  /\ \A w \in Workers \ frozen : job[w].step # "hold" /\ ~job[w].due
  /\ row' = [r \in Rows |-> IF row[r].ttl > 0 THEN [row[r] EXCEPT !.ttl = @ - 1]
                            ELSE row[r]]
  /\ job' = [w \in Workers |->
       [job[w] EXCEPT !.due = Holding(w),
                      !.missed = @ \/ w \in frozen]]
  /\ UNCHANGED <<frozen, copies>>

-----------------------------------------------------------------------------
Init ==
  /\ row = [r \in Rows |-> NoRow]
  /\ job = [w \in Workers |-> Idle]
  /\ frozen = {}
  /\ copies = [relay \in Relays |-> [r \in Rows |-> {}]]

Worker(w) ==
  /\ w \notin frozen
  /\ \/ Wrap(w) \/ Stage(w) \/ Hold(w) \/ Heartbeat(w) \/ Publish(w)
     \/ RecordRead(w) \/ RecordCommit(w) \/ Release(w) \/ Crash(w)
     \/ \E r \in Rows, replay \in BOOLEAN : Claim(w, r, replay)
  /\ UNCHANGED frozen

Next == (\E w \in Workers : Worker(w) \/ Freeze(w) \/ Thaw(w)) \/ Tick

Spec == Init /\ [][Next]_vars

\* The tabs of a browser that freezes none.
AttentiveNext == Next /\ frozen' = {}
AttentiveSpec == Init /\ [][AttentiveNext]_vars

-----------------------------------------------------------------------------
(* Properties.                                                             *)

TypeOK ==
  /\ row \in [Rows -> Row \cup {NoRow}]
  /\ job \in [Workers -> Job]
  /\ frozen \subseteq Workers
  /\ copies \in [Relays -> [Rows -> SUBSET Workers]]

\* However many tabs send and retry at once, relays only ever see the one ciphertext
\* that was staged.
OneWrap ==
  \A relay \in Relays, r \in Rows : copies[relay][r] \subseteq {row[r].wrap}

\* An acknowledgement on record is a relay that has the message.
AckIsStored == \A r \in Rows : \A relay \in row[r].acked : copies[relay][r] # {}

\* "merge with the latest job": no acknowledgement on record is lost to another's.
AckKept == [][\A r \in Rows : row[r].acked \subseteq row'[r].acked]_vars

\* The sender's copy is staged only when the recipient can have the message.
SelfBehindRecipient ==
  Exists("self") => \E relay \in Relays : copies[relay]["main"] # {}

\* What holds whichever tabs freeze or go away: relays see the one ciphertext that was
\* staged, an acknowledgement is a relay that has it, and the sender's own copy comes
\* behind the recipient's.
MessagesSafe == TypeOK /\ OneWrap /\ AckIsStored /\ SelfBehindRecipient

\* "Keep a staged multi-leg send owned until its entire publish attempt exits", if
\* its heartbeat always came in time.
OwnedUntilExit ==
  \A w \in Workers :
    Holding(w) /\ ~job[w].missed => /\ row[job[w].row].owner = job[w].owner
                                    /\ Claimed(job[w].row)

\* While no tab freezes, one worker at a time is on a row.
OneHolder ==
  \A v, w \in Workers :
    Holding(v) /\ Holding(w) /\ job[v].row = job[w].row => v = w

=============================================================================
