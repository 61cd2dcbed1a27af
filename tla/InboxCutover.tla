---------------------------- MODULE InboxCutover ----------------------------
(* The private inboxes of one account: the signed declaration of where to     *)
(* write (kind 10050) as each of its devices retains it, its replacement by a *)
(* reviewed change, the delivery of the replacement to the shared discovery   *)
(* relays, and the cutover: the inboxes it replaces are read on until a       *)
(* relay has served the replacement, and for a grace period after that.       *)
(*                                                                            *)
(* A tab holds what it reviewed or read from a relay across awaits; another   *)
(* tab of the device, whose mutation lock is another one, may write between.  *)
EXTENDS Naturals, FiniteSets

CONSTANTS
  Devices,     \* browsers of the account, each with its own database
  Tabs,        \* their documents
  DeviceOf,    \* the device of each tab
  Order,       \* rank of each author's event ids among those of equal time
  Shared,      \* shared discovery relays
  Own,         \* the owner's write relays that also get the declaration
  Inboxes,     \* relays the owner may declare as private inboxes
  Removable,   \* relays the owner may remove altogether
  First,       \* the inboxes declared at the start, maybe none
  Other,       \* another Nostr client of the same account
  MaxAt,       \* bound: times of declarations
  MaxOther,    \* bound: declarations published by the other client
  None

\* A signed declaration, kind 10050.
Declaration == [at : Nat, by : Devices \cup {Other}, to : SUBSET Inboxes]

AllRelays == Shared \cup Own \cup Inboxes
Targets == Shared \cup Own

\* The delivery of a declaration.
Delivery == [ev : Declaration, plan : SUBSET Targets, conf : SUBSET Shared,
             acked : SUBSET Targets, read : [Targets -> {"none", "absent", "observed"}]]

CutoverAssumption ==
  /\ IsFiniteSet(Shared) /\ IsFiniteSet(Own)
  /\ None \notin Declaration \cup Delivery
  /\ DeviceOf \in [Tabs -> Devices] /\ Other \notin Devices
  /\ Order \in [Devices \cup {Other} -> Nat]
  /\ \A a, b \in Devices \cup {Other} : Order[a] = Order[b] => a = b
  /\ First \in SUBSET Inboxes /\ Shared # {}
  /\ Removable \subseteq Shared \cup Own \cup Inboxes
  /\ MaxAt \in Nat /\ MaxOther \in Nat

VARIABLES
  db,      \* each device's evidence and local state
  job,     \* what each tab is doing
  held,    \* the declaration each relay serves
  took,    \* <<declaration, relay>> for every one a relay has accepted
  owed     \* per device, inboxes its own changes replaced, with the replacement

vars == <<db, job, held, took, owed>>

-----------------------------------------------------------------------------
(* Evidence.                                                                  *)

\* NIP-01: the later declaration, and of equal ones the lower id.
Newer(a, b) ==
  \/ a.at > b.at
  \/ a.at = b.at /\ Order[a.by] < Order[b.by]

Declared(row) == row.cur.to # {}

\* Read when the current declaration names nothing usable.
Retained(row) == IF Declared(row) THEN {} ELSE row.usable.to

Removed(row) == {r \in AllRelays : row.excl[r] # None}

\* Read-only inboxes of cutovers that are not over.
Recovering(row) ==
  UNION {c.old \ c.blocked : c \in {x \in row.recs : x.phase # "over"}}

Reads(row) ==
  (row.cur.to \cup Retained(row) \cup Recovering(row)) \ Removed(row)

Try(plan) == [plan |-> plan, done |-> {}, seen |-> {}]

\* Mutant: a plan is complete when every relay has answered.
CompleteUnseen(c) ==
  \E y \in c.tries : y.plan \cap c.blocked = {} /\ y.plan \subseteq y.done

\* Every relay of one plan has answered, and one of them with the exact event.
Complete(c) ==
  \E y \in c.tries :
    y.plan \cap c.blocked = {} /\ y.plan \subseteq y.done /\ y.seen # {}

Advance(c) ==
  IF c.phase = "awaiting" /\ Complete(c) THEN [c EXCEPT !.phase = "grace"]
  ELSE c

\* Answers about the replacement, counted in every plan that names the relay.
Answered(c, seen, absent) ==
  Advance([c EXCEPT !.tries =
    {[y EXCEPT !.done = @ \cup (y.plan \cap (seen \cup absent)),
               !.seen = @ \cup (y.plan \cap seen)] : y \in c.tries}])

Observed(p) == {r \in p.plan : p.read[r] = "observed"}
Absent(p) == {r \in p.plan : p.read[r] = "absent"}

\* The delivery ends when every target answered and a confirming one has it.
Confirmed(p) ==
  p.plan \subseteq Observed(p) \cup Absent(p) /\ Observed(p) \cap p.conf # {}

\* The declaration whose delivery is pending.
Mine(row, e) == row.pend # None /\ e = row.cur

\* What an unconfirmed cutover learns when its replacement e is read back from src:
\* what the pending delivery read counts in the plan of that delivery.
Counted(row, e, src, c) ==
  LET p == row.pend
      own == IF Mine(row, e)
             THEN Answered([c EXCEPT !.tries = {y \in @ : y.plan = p.conf}],
                           Observed(p) \ c.blocked, Absent(p) \ c.blocked).tries
             ELSE {}
      rest == {y \in c.tries : ~ Mine(row, e) \/ y.plan # p.conf}
  IN IF c.ev # e \/ c.phase # "awaiting" THEN c
     ELSE Answered([c EXCEPT !.tries = own \cup rest], (src \cap Shared) \ c.blocked, {})

Recounted(row, e, src) == {Counted(row, e, src, c) : c \in row.recs}

\* One declaration, read back from src, merged into the retained evidence.
Merged(row, e, src) ==
  LET recs == Recounted(row, e, src)
      shared == row.shared \/ src \cap Shared # {}
  IN IF Newer(e, row.cur) THEN
       [row EXCEPT !.cur = e, !.pend = None, !.recs = recs,
                   !.shared = src \cap Shared # {},
                   !.usable = IF e.to # {} THEN e ELSE @]
     ELSE IF e = row.cur THEN
       [row EXCEPT !.shared = shared, !.recs = recs,
             !.pend = IF Mine(row, e) /\ Confirmed(@) THEN None ELSE @,
             !.usable = IF e.to # {} /\ shared THEN e ELSE @]
     ELSE
       [row EXCEPT !.recs = recs,
          !.usable = IF /\ ~ (Declared(row) /\ row.pend = None)
                        /\ e.to # {} /\ Newer(e, @) THEN e ELSE @]

\* Attempts are recorded monotonically: acknowledged and observed for good.
WithOutcomes(row, out) ==
  LET p == [row.pend EXCEPT
              !.acked = @ \cup {r \in row.pend.plan : <<r, "acked">> \in out},
              !.read = [r \in Targets |->
                 IF <<r, "observed">> \in out THEN "observed"
                 ELSE IF <<r, "absent">> \in out /\ row.pend.read[r] = "none"
                 THEN "absent" ELSE row.pend.read[r]]]
  IN Merged([row EXCEPT !.pend = p], row.cur,
            Observed(p))

Pending(e, plan, conf) ==
  [ev |-> e, plan |-> plan, conf |-> conf, acked |-> {},
   read |-> [r \in Targets |-> "none"]]

-----------------------------------------------------------------------------
(* A reviewed change.                                                         *)

Idle == [st |-> "idle", want |-> {}, drop |-> {}, ex |-> {}, prev |-> {},
         changed |-> FALSE, base |-> None, ev |-> None, todo |-> {},
         plan |-> {}, out |-> {}, got |-> {}, again |-> FALSE, still |-> FALSE]

Row(t) == db[DeviceOf[t]]

Set(t, j) == job' = [job EXCEPT ![t] = j]
End(t) == Set(t, Idle)
Save(t, row) == db' = [db EXCEPT ![DeviceOf[t]] = row]

\* What the owner reviews: the inboxes wanted and the relays removed, never
\* leaving the account without an inbox it reads.
Review(t) ==
  /\ job[t].st = "idle"
  /\ \E want \in SUBSET Inboxes, drop \in SUBSET Removable :
       LET row == Row(t)
           had == row.cur.to \cup Retained(row) \cup Recovering(row)
           left == (Retained(row) \cup Recovering(row)) \ drop
       IN /\ want \cap drop = {}
          /\ Declared(row) => want # {}
          /\ had # {} => want \cup left # {}
          /\ want # row.cur.to \/ drop # {}
          /\ Set(t, [Idle EXCEPT !.st = "reviewed", !.want = want,
                       !.drop = drop, !.ex = Removed(row),
                       !.changed = want # row.cur.to, !.base = row.cur,
                       !.prev = row.cur.to \cup
                                  (Retained(row) \ Recovering(row))])
  /\ UNCHANGED <<db, held, took, owed>>

\* The snapshot the change is signed against; the removals must still be the
\* reviewed ones, the declaration need not be the reviewed one.
Sign(t) ==
  /\ job[t].st = "reviewed"
  /\ LET j == job[t]
         row == Row(t)
     IN /\ Removed(row) = j.ex
        /\ j.changed \/ row.cur.to \cap j.drop = {}
        /\ j.changed => Shared \ j.drop # {}
        /\ IF j.changed
             THEN \E at \in 1 .. MaxAt :
                    /\ at > j.base.at /\ at > row.cur.at
                    /\ Set(t, [j EXCEPT !.st = "signed", !.base = row.cur,
                         !.prev = @ \cup row.cur.to,
                         !.ev = [at |-> at, by |-> DeviceOf[t],
                                 to |-> j.want]])
             ELSE Set(t, [j EXCEPT !.st = "signed", !.base = row.cur])
  /\ UNCHANGED <<db, held, took, owed>>

\* Whole-relay removals: no cutover is confirmed by, or reads, such a relay.
Excluding(row, drop) ==
  [row EXCEPT
     !.excl = [r \in AllRelays |-> IF r \in drop THEN row.cur ELSE @[r]],
     !.recs = {[c EXCEPT !.blocked = @ \cup (drop \cap
                  (c.old \cup UNION {y.plan : y \in c.tries}))] : c \in @}]

\* A declaration re-admits the removed relays it names, if it is newer.
Readding(row, e) ==
  [row EXCEPT !.excl = [r \in AllRelays |->
     IF @[r] # None /\ r \in e.to /\ Newer(e, @[r]) THEN None ELSE @[r]]]

\* The replacement, its delivery plan and its cutover.
Staged(row, j) ==
  LET old == j.prev \ j.want
      conf == Shared \ j.drop
  IN [row EXCEPT
        !.cur = j.ev, !.shared = FALSE,
        !.pend = Pending(j.ev, (Shared \cup Own) \ j.drop, conf),
        !.recs = @ \cup IF old = {} THEN {} ELSE
          {[ev |-> j.ev, old |-> old, blocked |-> old \cap j.drop,
            phase |-> "awaiting", tries |-> {Try(conf)}]}]

\* A change owes its senders the inboxes it was signed against.  Staging compares the
\* current declaration only: what is retained for reading may have moved on since.
Owing(o, j) ==
  {x \in o : x.inbox \notin j.drop} \cup
    IF ~ j.changed THEN {}
    ELSE {[inbox |-> r, ev |-> j.ev] : r \in j.prev \ (j.want \cup j.drop)}

StageWith(t, ok) ==
  /\ job[t].st = "signed"
  /\ LET j == job[t]
         row == Row(t)
         next == IF j.changed THEN Staged(row, j) ELSE row
         cut == Excluding(next, j.drop)
     IN IF ok /\ (j.changed => Newer(j.ev, row.cur))
          THEN /\ Save(t, IF j.changed THEN Readding(cut, j.ev) ELSE cut)
               /\ owed' = [owed EXCEPT ![DeviceOf[t]] = Owing(@, j)]
               /\ IF j.changed THEN Set(t, [Idle EXCEPT !.st = "staged"])
                  ELSE End(t)
          ELSE End(t) /\ UNCHANGED <<db, owed>>
  /\ UNCHANGED <<held, took>>

\* One transaction: declaration and removals are those it was signed against.
Stage(t) ==
  StageWith(t, Removed(Row(t)) = job[t].ex /\ Row(t).cur = job[t].base)

-----------------------------------------------------------------------------
(* Delivery of the pending declaration; a retry is the same thing.            *)

StartDelivery(t) ==
  /\ \/ job[t].st = "staged"
     \/ job[t].st = "idle" /\ Row(t).pend # None
  /\ LET p == Row(t).pend
     IN IF p = None THEN End(t)
        ELSE \E again \in IF job[t].st = "idle" THEN BOOLEAN ELSE {FALSE} :
          Set(t, [Idle EXCEPT !.st = "publishing", !.ev = p.ev, !.plan = p.plan,
                    !.todo = p.plan \ (p.acked \cup Observed(p)),
                    !.again = again])
  /\ UNCHANGED <<db, held, took, owed>>

\* A relay keeps the newer declaration and may not answer.
Takes(r, e) ==
  /\ took' = took \cup {<<e, r>>}
  /\ held' = [held EXCEPT ![r] = IF @ = None \/ Newer(e, @) THEN e ELSE @]

Publish(t) ==
  /\ job[t].st = "publishing"
  /\ \E r \in job[t].todo :
       LET said(s) == Set(t, [job[t] EXCEPT !.todo = @ \ {r},
                                            !.out = @ \cup {<<r, s>>}])
       IN \/ /\ r \notin Removed(Row(t)) /\ Takes(r, job[t].ev)
             /\ said("acked") \/ said("failed")
          \/ said("failed") /\ UNCHANGED <<held, took>>
  /\ UNCHANGED <<db, owed>>

\* Outcomes belong to the exact pending event and to its plan.
Record(t) ==
  /\ job[t].st \in {"publishing", "confirming"} /\ job[t].todo = {}
  /\ LET j == job[t]
         row == Row(t)
         mine == row.pend # None /\ row.pend.ev = j.ev
         told == {o[1] : o \in j.out}
         next == IF mine THEN WithOutcomes(row, j.out) ELSE row
     IN IF mine /\ ~ (told \subseteq row.pend.plan)
          THEN End(t) /\ UNCHANGED db
          ELSE /\ Save(t, next)
               /\ IF /\ j.st = "publishing" /\ next.pend # None
                     /\ next.pend.ev = j.ev
                    THEN Set(t, [j EXCEPT !.st = "confirming", !.out = {},
                                   !.todo = next.pend.plan
                                              \ Observed(next.pend)])
                    ELSE IF j.again
                    THEN Set(t, [j EXCEPT !.st = "delivered", !.out = {},
                                          !.still = next.pend # None])
                    ELSE End(t)
  /\ UNCHANGED <<held, took, owed>>

\* What relay r answers when asked for exactly event e.
Answer(r, e) == {"failed", IF held[r] = e THEN "observed" ELSE "absent"}

ReadBack(t) ==
  /\ job[t].st = "confirming"
  /\ \E r \in job[t].todo :
       \E s \in IF r \in Removed(Row(t)) THEN {"failed"}
                ELSE Answer(r, job[t].ev) :
         Set(t, [job[t] EXCEPT !.todo = @ \ {r}, !.out = @ \cup {<<r, s>>}])
  /\ UNCHANGED <<db, held, took, owed>>

-----------------------------------------------------------------------------
(* Redistribution of the same bytes under the current shared plan.            *)

Restaged(row, plan) ==
  [row EXCEPT
     !.pend = Pending(row.cur, plan, plan),
     !.recs = {IF c.ev = row.cur /\ c.phase = "awaiting"
                    /\ ~ (\E y \in c.tries : y.plan = plan)
               THEN [c EXCEPT !.tries = @ \cup {Try(plan)}] ELSE c : c \in @}]

\* After a retry, when the shared relays are no longer those of its plan; or
\* after a fresh check of a declaration nothing is pending for.
Redistribute(t) ==
  /\ job[t].st \in {"delivered", "checked"}
  /\ LET j == job[t]
         row == Row(t)
         plan == Shared \ Removed(row)
         needed == \/ j.st = "checked"
                   \/ ~ (plan \subseteq j.plan)
                   \/ j.still /\ plan # j.plan
         expected == /\ Declared(row) /\ row.cur = j.ev
                     /\ row.pend # None => row.pend.plan = j.plan
     IN IF needed /\ expected /\ plan # {}
          THEN Save(t, Restaged(row, plan))
               /\ Set(t, [Idle EXCEPT !.st = "staged"])
          ELSE End(t) /\ UNCHANGED db
  /\ UNCHANGED <<held, took, owed>>

-----------------------------------------------------------------------------
(* Discovery: what the relays serve, merged into the retained evidence.       *)

StartResolve(t) ==
  /\ job[t].st = "idle"
  /\ \E again \in {FALSE, Row(t).pend = None} :
       Set(t, [Idle EXCEPT !.st = "resolving", !.again = again])
  /\ UNCHANGED <<db, held, took, owed>>

\* An unconfirmed cutover asks its plans for the exact replacement.
AskReplacement(t) ==
  /\ job[t].st = "resolving"
  /\ \E c \in {x \in Row(t).recs : x.phase = "awaiting"} :
       LET ask == UNION {IF y.seen = {} THEN y.plan ELSE y.plan \ y.done :
                           y \in c.tries} \ c.blocked
       IN \E said \in [ask -> {"failed", "observed", "absent"}] :
            /\ \A r \in ask : said[r] \in Answer(r, c.ev)
            /\ \E r \in ask : said[r] # "failed"
            /\ Set(t, [job[t] EXCEPT !.st = "answered", !.ev = c.ev,
                         !.out = {<<r, said[r]>> : r \in ask}])
  /\ UNCHANGED <<db, held, took, owed>>

\* The cutover of e learns what relays answered about it.
WithAnswers(row, e, seen, absent) ==
  [row EXCEPT !.recs = {IF c.ev = e THEN Answered(c, seen, absent) ELSE c : c \in @}]

RecordAnswer(t) ==
  /\ job[t].st = "answered"
  /\ LET j == job[t]
         row == Row(t)
         of(s) == {o[1] : o \in {x \in j.out : x[2] = s}}
         told == {o[1] : o \in j.out}
         ok == \A c \in row.recs :
                 c.ev = j.ev => told \cap c.blocked = {} /\ c.phase = "awaiting"
         noted == WithAnswers(row, j.ev, of("observed"), of("absent"))
     IN Save(t, IF ~ ok THEN row
                ELSE IF row.pend # None /\ row.pend.ev = j.ev
                THEN WithOutcomes(noted, {o \in j.out :
                                            o[1] \in row.pend.plan})
                ELSE noted)
  /\ Set(t, [Idle EXCEPT !.st = "resolving", !.again = job[t].again])
  /\ UNCHANGED <<held, took, owed>>

Fetch(t) ==
  /\ job[t].st = "resolving"
  /\ \E src \in SUBSET ((Shared \cup Own) \ Removed(Row(t))) :
       /\ \E r \in src : held[r] # None
       /\ Set(t, [Idle EXCEPT !.st = "fetched", !.again = job[t].again,
                    !.got = {<<held[r], r>> :
                               r \in {x \in src : held[x] # None}}])
  /\ UNCHANGED <<db, held, took, owed>>

\* What was fetched, each declaration once; the oldest is merged first.
News(t) == {g[1] : g \in job[t].got}
Sorted(list) == \A i, k \in DOMAIN list : i < k => Newer(list[k], list[i])

Sources(got, e) == {g[2] : g \in {x \in got : x[1] = e}}

\* The evidence after the declarations of a list, merged one after another.
MergedAll(row, list, n, got) ==
  LET rows[i \in 0 .. n] ==
        IF i = 0 THEN row ELSE Merged(rows[i - 1], list[i], Sources(got, list[i]))
  IN rows[n]

Merge(t) ==
  /\ job[t].st = "fetched"
  /\ \E list \in [1 .. Cardinality(News(t)) -> News(t)] :
       /\ Sorted(list)
       /\ Save(t, MergedAll(Row(t), list, Cardinality(News(t)), job[t].got))
       /\ Set(t, [Idle EXCEPT !.st = "merged", !.ev = list[Cardinality(News(t))],
                              !.again = job[t].again])
  /\ UNCHANGED <<held, took, owed>>

\* A redistribution goes on with the declaration the check has just read.
Readd(t) ==
  /\ job[t].st = "merged"
  /\ LET j == job[t]
         read == Row(t).cur = j.ev
     IN /\ Save(t, IF read THEN Readding(Row(t), j.ev) ELSE Row(t))
        /\ IF j.again /\ read /\ j.ev.to # {}
             THEN Set(t, [Idle EXCEPT !.st = "checked", !.ev = j.ev])
             ELSE End(t)
  /\ UNCHANGED <<held, took, owed>>

-----------------------------------------------------------------------------
(* The world.                                                                 *)

\* A failure, a lost session or a closed tab ends whatever a tab is doing.
Abandon(t) ==
  /\ job[t].st # "idle" /\ End(t)
  /\ UNCHANGED <<db, held, took, owed>>

GraceOver(d) ==
  /\ \E c \in db[d].recs :
       /\ c.phase = "grace"
       /\ db' = [db EXCEPT ![d].recs =
                   (@ \ {c}) \cup {[c EXCEPT !.phase = "over"]}]
  /\ UNCHANGED <<job, held, took, owed>>

\* Another client publishes a declaration of its own, maybe an empty one.
OtherClient ==
  /\ Cardinality({x \in took : x[1].by = Other}) < MaxOther
  /\ \E at \in 1 .. MaxAt, to \in {{}, First}, r \in Shared :
       LET e == [at |-> at, by |-> Other, to |-> to]
       IN /\ \A s \in Shared : held[s] = None \/ at > held[s].at
          /\ Takes(r, e)
  /\ UNCHANGED <<db, job, owed>>

-----------------------------------------------------------------------------
Genesis == [at |-> 1, by |-> Other, to |-> First]

Init ==
  /\ db = [d \in Devices |->
            [cur |-> Genesis, shared |-> TRUE, usable |-> Genesis,
             pend |-> None, recs |-> {}, excl |-> [r \in AllRelays |-> None]]]
  /\ job = [t \in Tabs |-> Idle]
  /\ held = [r \in AllRelays |-> IF r \in Shared THEN Genesis ELSE None]
  /\ took = {} /\ owed = [d \in Devices |-> {}]

Next ==
  \/ \E t \in Tabs :
       \/ Review(t) \/ Sign(t) \/ Stage(t)
       \/ StartDelivery(t) \/ Publish(t) \/ Record(t) \/ ReadBack(t)
       \/ Redistribute(t)
       \/ StartResolve(t) \/ AskReplacement(t) \/ RecordAnswer(t)
       \/ Fetch(t) \/ Merge(t) \/ Readd(t) \/ Abandon(t)
  \/ \E d \in Devices : GraceOver(d)
  \/ OtherClient

Spec == Init /\ [][Next]_vars

-----------------------------------------------------------------------------
(* Properties.                                                                *)

Attempt == [plan : SUBSET Shared, done : SUBSET Shared, seen : SUBSET Shared]
Cutover == [ev : Declaration, old : SUBSET Inboxes, blocked : SUBSET AllRelays,
            phase : {"awaiting", "grace", "over"}, tries : SUBSET Attempt]
Evidence == [cur : Declaration, shared : BOOLEAN, usable : Declaration,
             pend : Delivery \cup {None}, recs : SUBSET Cutover,
             excl : [AllRelays -> Declaration \cup {None}]]
Job == [st : {"idle", "reviewed", "signed", "staged", "publishing", "confirming",
              "delivered", "checked", "resolving", "answered", "fetched", "merged"},
        want : SUBSET Inboxes, drop : SUBSET AllRelays, ex : SUBSET AllRelays,
        prev : SUBSET Inboxes, changed : BOOLEAN, base : Declaration \cup {None},
        ev : Declaration \cup {None}, todo : SUBSET Targets, plan : SUBSET Targets,
        out : SUBSET (Targets \X {"acked", "failed", "observed", "absent"}),
        got : SUBSET (Declaration \X Targets), again : BOOLEAN, still : BOOLEAN]

\* Types; a pending delivery is of the current declaration, and a declaration
\* has at most one cutover record.
TypeOK ==
  /\ db \in [Devices -> Evidence] /\ job \in [Tabs -> Job]
  /\ held \in [AllRelays -> Declaration \cup {None}]
  /\ took \subseteq Declaration \X AllRelays
  /\ owed \in [Devices -> SUBSET [inbox : Inboxes, ev : Declaration]]
  /\ \A d \in Devices :
       /\ db[d].pend # None => db[d].pend.ev = db[d].cur
       /\ \A a, b \in db[d].recs : a.ev = b.ev => a = b
       /\ \A c \in db[d].recs : \A y \in c.tries : y.seen \subseteq y.done
                                                   /\ y.done \subseteq y.plan

\* An inbox a device's own change replaced is read on until a shared relay has
\* accepted a declaration that replaced it, unless the owner removed it: a
\* sender who still writes there must not be lost.
ReadUntilConfirmed ==
  \A d \in Devices : \A o \in owed[d] :
    \/ o.inbox \in Reads(db[d]) \cup Removed(db[d])
    \/ \E x \in owed[d], r \in Shared :
         x.inbox = o.inbox /\ <<x.ev, r>> \in took

\* What a device recorded as read back from a relay had reached that relay.
ObservedIsHeld ==
  \A d \in Devices :
    LET row == db[d]
        had(e, r) == <<e, r>> \in took \/ (e = Genesis /\ r \in Shared)
    IN /\ row.pend # None =>
            \A r \in Observed(row.pend) : had(row.pend.ev, r)
       /\ \A c \in row.recs : \A y \in c.tries : \A r \in y.seen : had(c.ev, r)

\* The outcomes of a pending delivery are never taken back.
OutcomesKept ==
  [][\A d \in Devices :
       LET p == db[d].pend
           q == db'[d].pend
       IN p # None /\ q # None /\ p.ev = q.ev /\ p.plan = q.plan
          => p.acked \subseteq q.acked /\ Observed(p) \subseteq Observed(q)]_vars

\* The retained declaration only moves forward in the order of NIP-01.
FrontierForward ==
  [][\A d \in Devices :
       LET a == db[d].cur
           b == db'[d].cur
       IN \/ a = b \/ a.at < b.at
          \/ a.at = b.at /\ Order[b.by] < Order[a.by]]_vars
=============================================================================
