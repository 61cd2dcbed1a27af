----------------------------- MODULE ProgressOutbox -----------------------------
(***************************************************************************)
(* How a merchant's device gets its progress snapshots to the relays       *)
(* (checkout-spark-merchant-progress-delivery.ts, -repository.ts, called   *)
(* by checkout-spark-settled-continuation.ts).                             *)
(*                                                                         *)
(* A snapshot is encrypted once to the merchant and, for an event whose    *)
(* organizer hands the goods out, once to the organizer.  Every encryption *)
(* gives other bytes.  The bytes are stored in the outbox before a relay   *)
(* sees them, and every retry sends the stored bytes.  An older version of *)
(* the program stored the merchant's bytes only (schema 1); an event's row *)
(* of that kind is completed when it is next published (schema 2).         *)
(*                                                                         *)
(* The recovery lock admits one invocation per device and checkout.  What  *)
(* survives an invocation is the outbox and what is still on the wire.     *)
(***************************************************************************)
EXTENDS Naturals, FiniteSets

CONSTANTS
  Last,           \* bound: states the checkout goes through, each with its snapshot
  EventPlan,      \* the plan is an event's, with an organizer
  MaxRetained,    \* MAX_RETAINED_WRAPS
  MaxInterrupts   \* bound: invocations that a crash or a lost session ends

PlanAssumption ==
  /\ Last \in Nat \ {0}
  /\ EventPlan \in BOOLEAN /\ MaxRetained \in Nat /\ MaxInterrupts \in Nat

VARIABLES
  current,     \* the snapshot of the durable state
  witnessed,   \* the order was authenticated again, with its organizer binding
  outbox,      \* merchantProgressOutbox of the plan binding: a row per snapshot
  wire,        \* ciphertexts on their way to the relays
  relays,      \* ciphertexts the inbox relays store
  sent,        \* every ciphertext that was ever handed to the network
  job,         \* the invocation under the lock
  proceeded,   \* snapshots an invocation went on with to pay
  interrupts

vars == <<current, witnessed, outbox, wire, relays, sent, job, proceeded,
          interrupts>>

Snapshots == 1 .. Last
Roles == {"merchant", "organizer"}

\* Whom a snapshot of this plan must reach.
Recipients == IF EventPlan THEN Roles ELSE {"merchant"}

\* A ciphertext: bytes tells two encryptions of one snapshot apart; 0: none.
Wrap == [snapshot : Snapshots, role : Roles, bytes : Nat]

\* A stored delivery.  In a schema 1 row acked = {"merchant"} is relayAccepted.
Row == [schema : {1, 2}, bytes : [Roles -> Nat], acked : SUBSET Roles]
NoRow == [schema |-> 0, bytes |-> [r \in Roles |-> 0], acked |-> {}]

\* at: the snapshot being published; todo: listed, still to retry; row: what the
\* invocation holds of the outbox, or means to store; due: roles still to send to.
Steps == {"idle", "next", "load", "sign", "stage", "send", "wait", "mark", "answer"}
Job == [step : Steps, at : Snapshots, todo : SUBSET Snapshots, retry : BOOLEAN,
        row : Row \cup {NoRow}, due : SUBSET Roles, role : Roles]
Idle == [step |-> "idle", at |-> 1, todo |-> {}, retry |-> FALSE, row |-> NoRow,
         due |-> {}, role |-> "merchant"]

Stored == {s \in Snapshots : outbox[s] # NoRow}

\* relayAccepted.
RelayAccepted(row) ==
  row.acked = IF row.schema = 2 THEN Roles ELSE {"merchant"}

\* Mutant of Unaccepted: only the newest row is retried.
UnacceptedCurrent == {s \in Stored \cap {current} : ~RelayAccepted(outbox[s])}

\* The rows a continuation retries before it does anything else.
Unaccepted == {s \in Stored : ~RelayAccepted(outbox[s])}

-----------------------------------------------------------------------------
(* One continuation: retry every unaccepted row, publish the current state, *)
(* and only then go on.                                                    *)

\* The lock is free; the outbox is listed once.
Start ==
  /\ job.step = "idle"
  /\ current \notin proceeded
  /\ job' = [Idle EXCEPT !.step = "next", !.todo = Unaccepted]
  /\ UNCHANGED <<current, witnessed, outbox, wire, relays, sent, proceeded, interrupts>>

\* Rows are taken in the order they were staged, then the current state.
NextRow ==
  /\ job.step = "next"
  /\ \/ \E s \in job.todo :
          /\ \A u \in job.todo : s <= u
          /\ job' = [job EXCEPT !.step = "load", !.at = s, !.todo = @ \ {s},
                                !.retry = TRUE]
     \/ /\ job.todo = {}
        /\ job' = [job EXCEPT !.step = "load", !.at = current, !.retry = FALSE]
  /\ UNCHANGED <<current, witnessed, outbox, wire, relays, sent, proceeded, interrupts>>

\* What a row still lacks: everything, or the organizer's copy.
Unsigned(row) == {r \in Recipients : row.bytes[r] = 0}

\* retry or publish reads the row.  An event's row without the organizer's copy
\* needs the authenticated order.
Load ==
  /\ job.step = "load"
  /\ LET row == outbox[job.at]
         held == [job EXCEPT !.row = row, !.due = Recipients \ row.acked]
     IN \/ /\ Unsigned(row) # {}
           /\ EventPlan => witnessed
           /\ job' = [held EXCEPT !.step = "sign"]
        \/ /\ Unsigned(row) # {} /\ EventPlan /\ ~witnessed
           /\ job' = Idle
        \/ /\ Unsigned(row) = {}
           /\ job' = [held EXCEPT !.step = "send"]
  /\ UNCHANGED <<current, witnessed, outbox, wire, relays, sent, proceeded, interrupts>>

\* Bytes of a new encryption: unlike any that was sent or stored before.
Used(r) ==
  {outbox[job.at].bytes[r]}
    \cup {wrap.bytes : wrap \in {w \in sent : w.snapshot = job.at /\ w.role = r}}
Fresh(r) == CHOOSE n \in 1 .. Cardinality(Used(r)) + 1 : n \notin Used(r)

\* What is encrypted now: the copies the row lacks, never those it has.
Signed(row) ==
  [row EXCEPT !.schema = IF EventPlan THEN 2 ELSE 1,
              !.bytes = [r \in Roles |->
                 IF r \notin Unsigned(row) THEN row.bytes[r] ELSE Fresh(r)]]

\* The signer makes the missing ciphertexts, in memory.
Sign ==
  /\ job.step = "sign"
  /\ job' = [job EXCEPT !.step = "stage", !.row = Signed(job.row)]
  /\ UNCHANGED <<current, witnessed, outbox, wire, relays, sent, proceeded, interrupts>>

\* The row an upgrade stores: merchantAccepted is the old row's relayAccepted.
Upgraded(old, row) == [row EXCEPT !.acked = old.acked]

\* stage: insert, complete an old row with the same bytes, or find it there.
CanStage(row) ==
  LET old == outbox[job.at]
  IN \/ old = NoRow /\ Cardinality(Stored) < MaxRetained
     \/ /\ old.schema = 1 /\ row.schema = 2
        /\ old.bytes["merchant"] = row.bytes["merchant"]
     \/ old.schema = row.schema /\ old.bytes = row.bytes

StagedRow(row) ==
  LET old == outbox[job.at]
  IN IF old = NoRow THEN row
     ELSE IF old.schema = row.schema THEN old ELSE Upgraded(old, row)

\* Mutant of Stage: the bytes are published first and stored with the answer.
StageLater ==
  /\ job.step = "stage"
  /\ CanStage(job.row)
  /\ job' = [job EXCEPT !.step = "send"]
  /\ UNCHANGED <<current, witnessed, outbox, wire, relays, sent, proceeded, interrupts>>

\* One transaction, before anything is sent.
Stage ==
  /\ job.step = "stage"
  /\ CanStage(job.row)
  /\ outbox' = [outbox EXCEPT ![job.at] = StagedRow(job.row)]
  /\ job' = [job EXCEPT !.step = "send", !.row = outbox'[job.at]]
  /\ UNCHANGED <<current, witnessed, wire, relays, sent, proceeded, interrupts>>

\* stage throws: the outbox is full, or other bytes are there.
StageRefused ==
  /\ job.step = "stage"
  /\ ~CanStage(job.row)
  /\ job' = Idle
  /\ UNCHANGED <<current, witnessed, outbox, wire, relays, sent, proceeded, interrupts>>

\* The merchant's copy goes out before the organizer's; what is accepted is not
\* sent again.
Send ==
  /\ job.step = "send"
  /\ \/ /\ job.due = {}
        /\ job' = [job EXCEPT !.step = "answer"]
        /\ UNCHANGED <<wire, sent>>
     \/ \E r \in job.due :
          LET wrap == [snapshot |-> job.at, role |-> r, bytes |-> job.row.bytes[r]]
          IN /\ r = "organizer" => "merchant" \notin job.due
             /\ job' = [job EXCEPT !.step = "wait", !.role = r, !.due = @ \ {r}]
             /\ wire' = wire \cup {wrap}
             /\ sent' = sent \cup {wrap}
  /\ UNCHANGED <<current, witnessed, outbox, relays, proceeded, interrupts>>

Awaited == [snapshot |-> job.at, role |-> job.role, bytes |-> job.row.bytes[job.role]]

\* A relay of the inbox stored the bytes and said so in time.
RelayAcknowledges ==
  /\ job.step = "wait"
  /\ relays' = relays \cup {Awaited}
  /\ wire' = wire \ {Awaited}
  /\ job' = [job EXCEPT !.step = "mark"]
  /\ UNCHANGED <<current, witnessed, outbox, sent, proceeded, interrupts>>

\* No relay answered in time.  The request may arrive later or never.
RelaySilent ==
  /\ job.step = "wait"
  /\ job' = [job EXCEPT !.step = "send"]
  /\ UNCHANGED <<current, witnessed, outbox, wire, relays, sent, proceeded, interrupts>>

\* markAccepted, of the role the acknowledgement names.
Marked(row, role) == [row EXCEPT !.acked = @ \cup {role}]

Mark ==
  /\ job.step = "mark"
  /\ outbox' = [outbox EXCEPT ![job.at] = Marked(@, job.role)]
  /\ job' = [job EXCEPT !.step = "send", !.row = outbox'[job.at]]
  /\ UNCHANGED <<current, witnessed, wire, relays, sent, proceeded, interrupts>>

\* The invocation goes on only if the row it published is accepted.
Answer ==
  /\ job.step = "answer"
  /\ \/ /\ ~RelayAccepted(job.row)
        /\ job' = Idle
        /\ UNCHANGED proceeded
     \/ /\ RelayAccepted(job.row)
        /\ job.retry
        /\ job' = [job EXCEPT !.step = "next"]
        /\ UNCHANGED proceeded
     \/ /\ RelayAccepted(job.row)
        /\ ~job.retry
        /\ job' = Idle
        /\ proceeded' = proceeded \cup {job.at}
  /\ UNCHANGED <<current, witnessed, outbox, wire, relays, sent, interrupts>>

\* The page dies, the session changes or a transaction fails: every await is
\* followed by a check that ends the invocation.
Interrupt ==
  /\ job.step # "idle"
  /\ interrupts < MaxInterrupts
  /\ interrupts' = interrupts + 1
  /\ job' = Idle
  /\ UNCHANGED <<current, witnessed, outbox, wire, relays, sent, proceeded>>

-----------------------------------------------------------------------------
(* Around the invocation.                                                  *)

\* A payout or an import changes the durable state between invocations.
StateMoves ==
  /\ job.step = "idle"
  /\ current + 1 \in Snapshots
  /\ current' = current + 1
  /\ UNCHANGED <<witnessed, outbox, wire, relays, sent, job, proceeded, interrupts>>

\* The discovery authenticates the original order and keeps its witness.
OrderAuthenticated ==
  /\ EventPlan /\ ~witnessed
  /\ witnessed' = TRUE
  /\ UNCHANGED <<current, outbox, wire, relays, sent, job, proceeded, interrupts>>

\* A request that nobody waits for any more arrives, or is lost.
LateArrival ==
  \E wrap \in wire :
    /\ ~(job.step = "wait" /\ wrap = Awaited)
    /\ wire' = wire \ {wrap}
    /\ relays' \in {relays, relays \cup {wrap}}
    /\ UNCHANGED <<current, witnessed, outbox, sent, job, proceeded, interrupts>>

-----------------------------------------------------------------------------
\* An event's outbox may begin with a row the older version stored and, perhaps,
\* delivered.
OldRow(acked) ==
  [schema |-> 1, bytes |-> [r \in Roles |-> IF r = "merchant" THEN 1 ELSE 0],
   acked |-> acked]
OldWrap == [snapshot |-> 1, role |-> "merchant", bytes |-> 1]

Init ==
  /\ current = 1
  /\ witnessed = FALSE
  /\ wire = {}
  /\ job = Idle
  /\ proceeded = {}
  /\ interrupts = 0
  /\ \/ /\ outbox = [s \in Snapshots |-> NoRow]
        /\ relays = {} /\ sent = {}
     \/ /\ EventPlan
        /\ \E acked \in SUBSET {"merchant"} :
             outbox = [s \in Snapshots |-> IF s = 1 THEN OldRow(acked) ELSE NoRow]
        /\ relays = {OldWrap} /\ sent = {OldWrap}

\* What the page does without anybody's help.
Page ==
  \/ NextRow \/ Load \/ Sign \/ Stage \/ StageRefused \/ Send \/ Mark \/ Answer

Next ==
  \/ Start \/ Page
  \/ RelayAcknowledges \/ RelaySilent
  \/ Interrupt \/ StateMoves \/ OrderAuthenticated \/ LateArrival

Spec == Init /\ [][Next]_vars

\* The merchant's scheduler starts the checkout again and again (KeepsChecking
\* of ReconciliationWorker), a running page goes on, the discovery finds the
\* order, and relays that are asked again and again answer in time some day.
Fairness ==
  /\ WF_vars(Start) /\ WF_vars(Page) /\ WF_vars(OrderAuthenticated)
  /\ WF_vars(RelayAcknowledges \/ RelaySilent) /\ SF_vars(RelayAcknowledges)

FairSpec == Spec /\ Fairness

-----------------------------------------------------------------------------
(* Properties.                                                             *)

TypeOK ==
  /\ current \in Snapshots
  /\ witnessed \in BOOLEAN
  /\ outbox \in [Snapshots -> Row \cup {NoRow}]
  /\ wire \subseteq Wrap /\ relays \subseteq Wrap /\ sent \subseteq Wrap
  /\ job \in Job
  /\ proceeded \subseteq Snapshots
  /\ interrupts \in 0 .. MaxInterrupts

\* However often a page dies between signing, storing, sending and marking, and
\* whatever version stored the row: no recipient is ever sent two encryptions of
\* one snapshot by this device.
OneCiphertext ==
  \A a, b \in sent : a.snapshot = b.snapshot /\ a.role = b.role => a = b

\* An acknowledgement in the outbox is true of exactly the bytes beside it, for
\* the role it names; a silence, an upgrade or the other copy's success is none.
AckIsStored ==
  \A s \in Snapshots : \A r \in outbox[s].acked :
    [snapshot |-> s, role |-> r, bytes |-> outbox[s].bytes[r]] \in relays

\* The merchant goes on to pay from a state only when that state can be read back
\* from the relays by everybody who may have to continue from it.
ProceedsDelivered ==
  \A s \in proceeded : \A r \in Recipients :
    \E wrap \in relays : wrap.snapshot = s /\ wrap.role = r

\* No step takes back stored bytes or an acknowledgement, not even the upgrade of
\* a row, although that makes an accepted row unaccepted.
NothingTakenBack ==
  [][\A s \in Snapshots : \A r \in Roles :
       /\ outbox[s].bytes[r] # 0 => outbox'[s].bytes[r] = outbox[s].bytes[r]
       /\ outbox[s].acked \subseteq outbox'[s].acked]_vars

\* A snapshot that was stored for delivery is accepted some day, or its checkout
\* has gone on from the current state already; an unaccepted row, however old,
\* is never forgotten while there is something left to pay.
EventuallyAccepted ==
  \A s \in Snapshots :
    (s \in Unaccepted) ~> (RelayAccepted(outbox[s]) \/ current \in proceeded)

=============================================================================
